SPECIFICATION Spec
CONSTANTS
    Callers = {"executor", "local"}
    Manifest <- EveryPartChanges
    Contents = {1, 2}
    MaxVersion = 2
    MaxFaults = 1
INVARIANTS
    SettledIsLive
PROPERTIES
    RecordedIsOnDisk
VIEW LiveInUse
