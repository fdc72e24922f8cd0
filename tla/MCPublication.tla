--------------------------- MODULE MCPublication ---------------------------
(* Instances of Publication for TLC. *)
EXTENDS Publication, TLC

Symmetry == Permutations(Planners) \cup Permutations(Plants)
=============================================================================
