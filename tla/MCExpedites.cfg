SPECIFICATION SpecExpedites
CONSTANTS
    Orders = {1, 2}
    Unchecked = {2}
    Days = {1, 2}
    Quantities = {3}
    LineQty = 2
    People = {p1, p2}
    MaxActions = 5
    MaxSteps = 7
    Nobody = Nobody
SYMMETRY Symmetry
INVARIANTS ConfirmedInTime BundlesFollow
CHECK_DEADLOCK FALSE
