--------------------------- MODULE MCImportBatch ---------------------------
(* Instances of ImportBatch for TLC. *)
EXTENDS ImportBatch, TLC

\* Batches and users are interchangeable.
Symmetry == Permutations(Batches) \cup Permutations(Users)
=============================================================================
