CONSTANTS
  Second = 1
  DefaultLease = 2
  NoToken = NoToken
  Token = {t1}
  Client = {c1}
  TTL = 1
  MaxSession = 2
  WarnBefore = 0
  GrantTTL = {1}
  IssueBy = 1
  MaxExtensions = 0
  MayShutDown = TRUE
  Horizon = 3
SPECIFICATION FairSpec
PROPERTY FailedRevocationRetried
CHECK_DEADLOCK FALSE
