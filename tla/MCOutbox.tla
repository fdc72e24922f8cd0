------------------------------ MODULE MCOutbox ------------------------------
(* Instances of Outbox for TLC. *)
EXTENDS Outbox, TLC

\* The slots are interchangeable.
Symmetry == Permutations(Workers)
=============================================================================
