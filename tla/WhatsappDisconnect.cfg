SPECIFICATION SessionSpec
CONSTANTS
    MaxLinks = 1
    MaxRevs = 1
    MaxMishaps = 0
    MaxRestarts = 0
    MaxRmErrors = 1
    None = None
CHECK_DEADLOCK FALSE
PROPERTY DisconnectAlwaysHolds
