SPECIFICATION Spec
CONSTANTS
  Txn = {t1}
  Calls = {"get", "snapshot", "getReadVersion", "set", "setReadVersion", "addReadConflict", "addWriteConflict", "noWriteConflict", "cancel", "close", "onError", "reset"}
  NKeys = 1
  ValueMod = 2
  Absent = Absent
  AtomicOps = {}
  Operands = {1}
  RowLimits = {1}
  Faults <- LifeFaults
  Oversized = {}
  RYWDisabled = {}
  WriteConflictsDisabled = {}
  RetryLimit = 1
  MVCCWindow = 0
  MaxClock = 2
  MaxVersion = 2
  MaxRetries = 1
  MaxOps = 2
INVARIANTS WindowRespected CommittedIsDurable
