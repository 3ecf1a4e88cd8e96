CONSTANTS
  Second = 1
  DefaultLease = 2
  NoToken = NoToken
  Token = {t1}
  Client = {c1}
  TTL = 1
  MaxSession = 3
  WarnBefore = 0
  GrantTTL = {1}
  IssueBy = 1
  MaxExtensions = 1
  MayShutDown = TRUE
  Horizon = 3
SYMMETRY Symmetry
SPECIFICATION Spec
INVARIANT RevokedMeansDead
CHECK_DEADLOCK FALSE
