SPECIFICATION Spec
CONSTANTS
    m1 = m1
    m2 = m2
    t1 = t1
    t2 = t2
    Msgs = {m1, m2}
    Turns = {t1, t2}
    NoMsg = NoMsg
    MAX_CONTINUATIONS = 1
    MAX_ADMISSION_REDISPATCHES = 1
    MaxFaults = 1
CHECK_DEADLOCK FALSE
SYMMETRY Symmetry
INVARIANTS
    OneTurnPerMessage
    SlotHasItsTurn
PROPERTIES
    StoppedStaysQuiet
    NeverLeftInSilence
    KeepsMessageLife
