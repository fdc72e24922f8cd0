---------------------------- MODULE MCProposals ----------------------------
(* Instances of Proposals for TLC. *)
EXTENDS Proposals

\* People are interchangeable.
Symmetry == Permutations(People)
=============================================================================
