SPECIFICATION Spec
CONSTANTS
    c1 = c1
    c2 = c2
    c3 = c3
    d1 = d1
    Cmds = {c1, c2, c3, d1}
    Disconnects = {d1}
    Streams = {}
    QueueMax = 1
    MaxTaskRestarts = 1
    MaxInst = 2
    MaxFaults = 1
    NoCmd = NoCmd
SYMMETRY SameKind
INVARIANTS
    NoPutPublishDeadlock
    NoCommandIgnored
    RunsOnceUnlessForgotten
PROPERTIES
    ResultAccountedFor
    KeepsDelivery
CHECK_DEADLOCK FALSE
