SPECIFICATION Spec
CONSTANTS
  Planners = {u1, u2}
  Plants = {p1, p2}
  NoScreen = NoScreen
  KeepRuns = 1
  MaxRuns = 3
  MaxDecisions = 2
  MaxCalls = 2
SYMMETRY Symmetry
INVARIANTS
  PlansBuildOnPlans
  LastPublishedIsNewest
  PublishedKept
CHECK_DEADLOCK FALSE
