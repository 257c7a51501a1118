SPECIFICATION FairSpec
CONSTANTS
  urgent = urgent
  routine = routine
  Job = {urgent, routine}
  Worker = {w1, w2}
  None = None
  Priority <- MCPriority
  MaxAttempts = 2
  LeaseTicks = 2
  BaseDelay = 1
  MaxDelay = 1
PROPERTIES
  AtLeastOnce
