SPECIFICATION Spec
CONSTANTS
  Plan = {p1, p2}
  NoPlan = NoPlan
  MaxRounds = 3
  MaxAsk = 6
  Execution = {e1, e2}
  MaxAttempts = 3
  FailureThreshold = 3
  OpenTicks = 2
  HalfOpenProbes = 1
  MaxClock = 4
  MaxSockets = 5
  MaxReconnects = 2
  MaxStarts = 3
  Case = {k0}
  Incident = {i1}
  Resolver = {anna, ben}
  Requester = {dana}
  Queue = Queue
  Agent = Agent
  Closure = {k1, k2}
  MaxEvents = 5
  r1 = r1
  r2 = r2
  Run = {r1, r2}
  PlanOf <- MCPlanOf
  SessionOf <- MCSessionOf
  Grant = {g1, g2}
  NoGrant = NoGrant
  GrantTime = 2
  ToolTime = 1
  Deadline = 4
  MaxChanges = 2
  s1 = s1
  s2 = s2
  Login = {s1, s2}
  Scope = {a1, a2}
  Transaction = {1, 2}
  StepUpGrant = {1, 2}
  StepUpHandler = {1, 2}
  Nothing = Nothing
  EndsAt <- MCEndsAt
  GrantTtl = 1
  TransactionTtl = 1
  MaxUses = 2
  LastInstant = 2
  c1 = c1
  c2 = c2
  c3 = c3
  Call = {c1, c2, c3}
  KindOf <- MCKindOf
  NoHolder = NoHolder
  SendLimit = 2
  tenant = tenant
  user1 = user1
  user2 = user2
  SharedBucket = {tenant, user1, user2}
  LocalBucket = {process}
  Charges <- MCCharges
  Capacity <- MCCapacity
  Refill <- MCRefill
  MaxCost = 2
  MaxAdvance = 4
  MaxStepsBack = 1
  DayLength = 8
  OpeningTime = 2
  ClosingTime = 6
  WeekLength = 3
  WorkingWeekdays = {0, 1}
  Holidays = {1, 4}
  MaxStart = 40
  MaxMinutes = 7
  Item <- MCItem
  Limit = 2
  RetryNode = {1, 2, 3}
  MaxRetryNodes = 2
  MaxRetryPerNode = 2
  MaxCount = 3
  MaxLines = 4
  MaxLineReconnects = 2
  MaxLineStarts = 2
  LineEvents = 4
  BadEvents = {2}
  SeenLimit = 2
  l1 = l1
  l2 = l2
  LockObject = {l1, l2}
  Nobody = Nobody
  LockTtl <- MCLockTtl
  LastMoment = 3
  Window = {w1, w2}
  SendCommand = {m1, m2}
  MAX_MESSAGES = 2
  MaxCursor = 4
  f1 = f1
  f2 = f2
  f3 = f3
  printing = printing
  directory = directory
  Operator = {o1, o2}
  Place = {printing, directory}
  Fault = {f1, f2, f3}
  PlaceOf <- MCPlaceOf
  FaultValue <- MCFaultValue
  Baseline <- MCBaseline
  SnapshotLimit = 2
  MaxVersion = 4
  MaxGeneration = 2
  b1 = b1
  b2 = b2
  noor = noor
  omar = omar
  Bundle = {b1, b2}
  Author <- MCAuthor
  Engineer = {noor, omar}
  Environment = {staging}
  Percent = {10, 100}
  NoRelease = NoRelease
  MaxReleaseEvents = 4
  run1 = run1
  run2 = run2
  strict = strict
  Evaluator = {noor, omar}
  EvaluationRun = {run1, run2}
  Policy = {strict, lax}
  Blocks <- MCBlocks
  NoRun = NoRun
  MaxEvaluations = 3
  Candidate = {d1, d2}
  MaxVersions = 4
CHECK_DEADLOCK FALSE
INVARIANTS
  PartsTypeOK
  ChangesStandApproved
  ResolvedIsVerified
  FailuresAccountForChanges
  LinesAccountedFor
  EventsOnceInOrder
  CustodyIsTraceable
  GrantsPayOnce
  CallsInTurn
  BurstIsBounded
  GrantIsKept
  DueWhenWorked
  MergesAreOrderFree
  HistoriesTell
