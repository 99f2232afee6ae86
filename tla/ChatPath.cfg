SPECIFICATION PathLiveSpec
CONSTANTS
    m1 = m1
    m2 = m2
    h1 = h1
    Msgs = {m1, m2}
    Hooks = {h1}
    MaxWire = 2
    MaxMishaps = 1
CHECK_DEADLOCK FALSE
PROPERTIES
    StopNeverOvertakes
    AcknowledgedOnce
    EveryMessageGetsThrough
