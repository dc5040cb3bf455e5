SPECIFICATION Spec
CONSTANTS
  Txn = {t1, t2}
  Calls = {"getRange", "atomic", "clearRange", "onError"}
  NKeys = 2
  ValueMod = 2
  Absent = Absent
  AtomicOps = {"add", "max", "compareAndClear"}
  Operands = {1}
  RowLimits = {1}
  Faults <- DiscardFaults
  Oversized = {}
  RYWDisabled = {t2}
  WriteConflictsDisabled = {}
  RetryLimit <- Unlimited
  MVCCWindow = 10
  MaxClock = 0
  MaxVersion = 2
  MaxRetries = 1
  MaxOps = 2
INVARIANTS TypeOK SerializableReads SerialHistory RetryIsolated
