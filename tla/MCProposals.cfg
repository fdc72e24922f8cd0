SPECIFICATION Spec
CONSTANTS
  Items = {i1}
  Quantities = {1, 2}
  People = {p1, p2}
  NoOne = NoOne
  MaxNo = 2
  MaxRuns = 3
SYMMETRY Symmetry
INVARIANTS
  ApprovedAsOrdered
PROPERTIES
  OrderedFromCurrentRun
  NeedRaised
CHECK_DEADLOCK FALSE
