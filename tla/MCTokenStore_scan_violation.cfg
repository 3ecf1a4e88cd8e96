CONSTANTS
  Second = 1
  DefaultLease = 2
  NoToken = NoToken
  Token = {t1, t2}
  Client = {c1}
  TTL = 1
  MaxSession = 3
  WarnBefore = 0
  GrantTTL = {1}
  IssueBy = 1
  MaxExtensions = 1
  MayShutDown = TRUE
  Horizon = 4
SYMMETRY Symmetry
SPECIFICATION Spec
PROPERTY ScanComplete
CHECK_DEADLOCK FALSE
