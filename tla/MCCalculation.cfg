SPECIFICATION SpecCalculation
CONSTANTS
    fg = fg
    sub = sub
    part = part
    rm = rm
    Parts = {fg, sub, part, rm}
    Made = {fg, sub, part}
    LeadTimeDemand = 1
    Lot = 2
    MinLot = 3
    Usage <- MCUsage
    Policies <- MCPolicies
    Dlts <- MCDlts
    Books <- MCBooks
    Makes <- MCMakes
    Stocks <- MCStocks
    Asides <- MCAsides
    Tops <- MCTops
    cut = cut
    sew = sew
    A = A
    B = B
    Routes <- MCRoutes
    Machines <- MCMachines
    Changeover <- MCChangeover
    DayMinutes = 4
    Window = 1
    Cases <- MCCases
    LastStop = 7
    MaxChecks = 3
    NewIds = {9}
    LastDay = 9
    NoItem = NoItem
INVARIANTS DemandByPaths MachineSerial WorkInTime PullsHurtNobody ReleasedKeepsTimes
CHECK_DEADLOCK FALSE
