SPECIFICATION SessionSpec
CONSTANTS
    MaxLinks = 2
    MaxRevs = 2
    MaxMishaps = 1
    MaxRestarts = 1
    MaxRmErrors = 1
    None = None
CHECK_DEADLOCK FALSE
INVARIANTS
    BelievedCopyIsTheCopy
    LoggedOutStaysOut
PROPERTIES
    DisconnectHolds
    CopyKeepsUp
