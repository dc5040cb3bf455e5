SPECIFICATION FairSpec
CONSTANTS
    t1 = t1
    k1 = k1
    k2 = k2
    Txns = {t1}
    Keys = {k1, k2}
    MaxAttempts = 2
    MaxFaults = 2
INVARIANTS DefiniteAnswers AttemptsInOrder
PROPERTIES AnswerIsFinal CommitReturns
CHECK_DEADLOCK FALSE
