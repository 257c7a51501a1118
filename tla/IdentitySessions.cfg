SPECIFICATION Spec
CONSTANTS
  Session = {s1, s2, s3}
  LogoutToken = {t1}
  Request = {r1, r2}
  Sid = {p1}
  None = None
  Limit = 2
  TTL = 2
  MaxNow = 3
  MaxToken = 1
SYMMETRY Identities
CHECK_DEADLOCK FALSE
INVARIANTS
  LimitHolds
  OneHeir
  ReuseEndsSession
  LogoutTakesTokens
PROPERTIES
  NewSessionIsKept
