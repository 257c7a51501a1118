SPECIFICATION DatabaseSpec
CONSTANTS
  urgent = urgent
  routine = routine
  Job = {urgent, routine}
  Worker = {w1, w2}
  None = None
  Priority <- MCPriority
  MaxAttempts = 3
  LeaseTicks = 2
  BaseDelay = 1
  MaxDelay = 2
  i1 = i1
  i2 = i2
  k1 = k1
  k2 = k2
  Session = {s1, s2}
  Incident = {i1, i2}
  Reader = {}
  Slot <- TwoIncidents
  Target = {"triaging"}
  Batch = 1
INVARIANTS
  ClaimExclusive
  AttemptLedger
  AuditChain
PROPERTIES
  HistoryImmutable
  OnlyLeaseHolderActs
  ImplementsContract
  EventuallySettled
  EveryCallEnds
