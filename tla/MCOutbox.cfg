SPECIFICATION FairSpec
CONSTANTS
  Events = {e1}
  Tracked = {e1}
  Workers = {w1, w2}
  Attempts = 3
  MaxStalls = 1
  LockLoss = TRUE
  MaxCrashes = 2
  MaxOutages = 2
  NoEvent = NoEvent
  NoWorker = NoWorker
INVARIANTS
  NoSilentLoss
  VerdictHonest
PROPERTIES
  ImplementsOnce
  EventuallySettles
CHECK_DEADLOCK FALSE
