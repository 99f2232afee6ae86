SPECIFICATION LiveSpec
CONSTANTS
    m1 = m1
    m2 = m2
    t1 = t1
    Msgs = {m1, m2}
    Turns = {t1}
    NoMsg = NoMsg
    MAX_CONTINUATIONS = 1
    MAX_ADMISSION_REDISPATCHES = 1
    MaxFaults = 1
CHECK_DEADLOCK FALSE
PROPERTY EveryMessageCloses
