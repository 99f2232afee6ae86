SPECIFICATION LiveSpec
CONSTANTS
    Cmds = {1}
    Disconnects = {}
    Streams = {unified}
    QueueMax = 1
    MaxTaskRestarts = 1
    MaxInst = 7
    MaxFaults = 2
    NoCmd = NoCmd
    unified = unified
CHECK_DEADLOCK FALSE
PROPERTIES
    Reconnects
    PipelineDrains
