SPECIFICATION FairSpec
CONSTANTS
  t1 = t1
  t2 = t2
  t3 = t3
  Threads = {t1, t2, t3}
  None = none
  MaxOps = 1
  Ops <- MCTasks
  Timeout = TRUE
  FinalCommit = {t2}
INVARIANTS OneIncarnation StaleNeverRetires NoEarlyTimeout
PROPERTIES TurnoverFinishes FailedCommitReturns
