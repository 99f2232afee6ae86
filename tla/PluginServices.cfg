SPECIFICATION MCSpec
CONSTANTS
    r1 = r1
    r2 = r2
    r3 = r3
    Announce = {r1, r2}
    Live = {r3}
    MaxFaults = 1
    None = None
    s1 = s1
    s2 = s2
    s3 = s3
    Sends = {s1, s2, s3}
    Media = {s2}
    Target <- OneChat
    WEBHOOK_MAX_ATTEMPTS = 2
    MaxRefusals = 2
    NoSend = NoSend
    MaxPieces = 3
    MaxAttempts = 2
    MaxLost = 1
    k1 = k1
    k2 = k2
    Tasks = {k1, k2}
    Commanded = {k1}
    MaxSeqNo = 2
    MaxBreaks = 1
    MAX_PENDING_REMOVALS = 1
CHECK_DEADLOCK FALSE
INVARIANTS
    RawReportStaysInside
    AnswerShownOnce
    SendsKeepOrder
    OutcomeIsOwn
    NoThoughtMissed
    DeletionReachesCloud
