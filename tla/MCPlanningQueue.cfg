SPECIFICATION FairSpec
CONSTANTS
  Changes = {c1, c2}
  Queuers = {tick, api}
  Nobody = Nobody
  MaxRuns = 4
  MaxAborts = 1
INVARIANTS
  ChangeAccounted
  UpToDateIsComplete
PROPERTIES
  EveryChangePlanned
CHECK_DEADLOCK FALSE
