SPECIFICATION FairSpec
CONSTANTS
    a = a
    b = b
    b1 = b1
    b2 = b2
    w1 = w1
    N = 3
    Vals = {a}
    Writers = {w1}
    Builders = {b1, b2}
    Mutual = {b1, b2}
    IfWriteOnly <- MCContinue
    IfReadable <- MCContinue
    Idempotent = FALSE
    UseQueue = {FALSE}
    Boundaries = {1, 2}
    Limit = 1
    MaxQueue = 2
    Lease = 1
    InitRecords <- MCFull
    MaxTime = 0
    MaxWrites = 1
    MaxCalls = 1
    Faults = {"crash"}
INVARIANTS BuiltAgrees SuccessIsReadable
PROPERTIES BuildEnds SurvivorFinishes
CHECK_DEADLOCK FALSE
