SPECIFICATION SpecScreens
CONSTANTS
    Rows = {1, 2, 3, 4}
    Keys = {1, 2}
    Sizes = {2, 3}
    Matching <- MCMatching
    Tables <- MCTables
    None = None
    Lost = Lost
    MaxAsks = 4
    MaxChanges = 1
    MaxFailures = 1
    MaxForms = 1
    MaxSaves = 2
    MaxAll <- MCAll
INVARIANTS WalkComplete ShownAnswersAsked AppliedOnce
PROPERTY SeesTheEnd
CHECK_DEADLOCK FALSE
