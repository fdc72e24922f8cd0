--------------------------- MODULE MCExpedites -----------------------------
(* Expedites.tla for TLC: people differ in nothing.                        *)
EXTENDS Expedites, TLC

Symmetry == Permutations(People)
=============================================================================
