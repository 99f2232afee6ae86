SPECIFICATION LiveSpec
CONSTANTS
    Keys = {k1}
    Handlers = {h1, h2}
    MaxId = 4
    MaxMoves = 2
    MaxTimeouts = 1
    MaxFaults = 1
    h1 = h1
    h2 = h2
    k1 = k1
CHECK_DEADLOCK FALSE
PROPERTIES
    ActiveAgain
    TasksReturn
INVARIANTS
    TasksKept
