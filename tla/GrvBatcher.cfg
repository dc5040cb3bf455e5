SPECIFICATION FairSpec
CONSTANTS
  None = None
  Callers = {c1, c2}
  MaxCalls = 3
  GrvMaxBatchSize = 2
  GrvBatchTimeout = 2
  Chans = {r1, r2}
  Faults = {"close", "timer", "cancel", "panic"}
INVARIANTS InFlightCounts NoStranded OwnReply
PROPERTY EveryoneAnswered
