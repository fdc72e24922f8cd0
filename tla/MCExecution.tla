--------------------------- MODULE MCExecution -----------------------------
(* Execution.tla for TLC: two orders that differ in nothing.               *)
EXTENDS Execution, TLC

Symmetry == Permutations(Orders)
=============================================================================
