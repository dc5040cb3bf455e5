SPECIFICATION Spec
CONSTANTS
    a = a
    b = b
    b1 = b1
    b2 = b2
    w1 = w1
    N = 2
    Vals = {a}
    Writers = {w1}
    Builders = {b1, b2}
    Mutual = {b2}
    IfWriteOnly <- MCRebuildFirst
    IfReadable <- MCContinue
    Idempotent = TRUE
    UseQueue = {TRUE, FALSE}
    Boundaries = {1}
    Limit = 1
    MaxQueue = 1
    Lease = 1
    InitRecords <- MCEnds
    MaxTime = 1
    MaxWrites = 2
    MaxCalls = 1
    Faults = {"detach", "unknown", "disable", "fail"}
INVARIANTS ReadableAgrees ExclusiveAlone
PROPERTIES NoResetUnderLive BeatSurvives
CHECK_DEADLOCK FALSE
