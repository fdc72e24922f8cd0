SPECIFICATION Spec
CONSTANTS
  Batches = {b1, b2}
  Files = {f1}
  Sheets = {s1}
  NoFile = NoFile
  NoSheet = NoSheet
  Users = {u1}
  NoView = NoView
  MaxEvents = 4
  MaxAborts = 0
SYMMETRY Symmetry
INVARIANTS
  SavedOnce
  SavesWhatWasReviewed
CHECK_DEADLOCK FALSE
