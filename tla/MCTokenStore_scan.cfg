CONSTANTS
  Second = 1
  DefaultLease = 2
  NoToken = NoToken
  Token = {t1, t2}
  Client = {c1}
  TTL = 1
  MaxSession = 2
  WarnBefore = 0
  GrantTTL = {1, 2}
  IssueBy = 1
  MaxExtensions = 1
  MayShutDown = FALSE
  Horizon = 3
SPECIFICATION FairSpec
INVARIANT NeverUnscheduled
PROPERTY ScanCompleteUnlessExtended
PROPERTY EventuallyRevoked
CHECK_DEADLOCK FALSE
