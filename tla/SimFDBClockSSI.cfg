SPECIFICATION Spec
CONSTANTS
  Txn = {t1, t2}
  Calls = {"get", "set"}
  NKeys = 1
  ValueMod = 2
  Absent = Absent
  AtomicOps = {"add"}
  Operands = {1}
  RowLimits = {1}
  Faults = {0}
  Oversized = {}
  RYWDisabled = {}
  WriteConflictsDisabled = {}
  RetryLimit <- Unlimited
  MVCCWindow = 10
  MaxClock = 1
  MaxVersion = 2
  MaxRetries = 0
  MaxOps = 2
INVARIANT CommitResolvesSSI
