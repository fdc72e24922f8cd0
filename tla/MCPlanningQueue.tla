-------------------------- MODULE MCPlanningQueue --------------------------
(* Instances of PlanningQueue for TLC. *)
EXTENDS PlanningQueue, TLC

\* Changes are interchangeable, and so are the two callers of queueRun.
Symmetry == Permutations(Changes) \cup Permutations(Queuers)
=============================================================================
