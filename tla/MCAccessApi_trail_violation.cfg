CONSTANTS
  Second = 1
  DefaultLease = 2
  NoToken = NoToken
  Token = {t1}
  Client = {c1}
  TTL = 1
  MaxSession = 2
  WarnBefore = 1
  GrantTTL = {1}
  IssueBy = 1
  MaxExtensions = 1
  MayShutDown = TRUE
  Horizon = 3
  Ticket <- MCTicket
  Requests <- MCRequests
SPECIFICATION ApiSpec
INVARIANT LifeOnRecord
CHECK_DEADLOCK FALSE
