SPECIFICATION Spec
CONSTANTS
    Orders = {o1, o2}
    Quantities = {1, 2}
    Dates = {1, 2}
    Stops = {s1}
    Weekly = FALSE
    Room = 1
    Demand = 2
    Green = 2
    Extra = {1}
    MaxRuns = 3
    MaxWork = 4
    None = None
SYMMETRY Symmetry
INVARIANTS ShownIsLive AcceptedIsPromise
PROPERTIES MadeForLack NoDoubleMake
CHECK_DEADLOCK FALSE
