SPECIFICATION Spec
CONSTANTS
  t1 = t1
  t2 = t2
  e1 = e1
  e2 = e2
  Designs = {TRUE, FALSE}
  Txns = {t1, t2}
  Entries = {e1, e2}
  None = None
  NShards = 2
  Shard <- OwnShards
  TimeoutSlack = 0
  TimeoutInterval = 1
  MaxTime = 2
  MaxArms = 3
SYMMETRY EntrySymmetry
INVARIANTS NoLostWake ArmsInOrder NeverBeforeDeadline
CHECK_DEADLOCK FALSE
