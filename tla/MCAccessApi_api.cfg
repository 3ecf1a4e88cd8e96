CONSTANTS
  Second = 1
  DefaultLease = 2
  NoToken = NoToken
  Token = {t1}
  Client = {c1, c2}
  TTL = 1
  MaxSession = 2
  WarnBefore = 1
  GrantTTL = {1}
  IssueBy = 1
  MaxExtensions = 1
  MayShutDown = TRUE
  Horizon = 3
  Ticket <- MCTicket
  Requests <- MCRequests
SYMMETRY Symmetry
SPECIFICATION ApiSpec
INVARIANT ApiTypeOK
INVARIANT GrantLogged
INVARIANT RevocationLogged
INVARIANT NoHandlerWaits
PROPERTY ActsInContext
PROPERTY DenialEndsToken
PROPERTY ApiImplementsStore
CHECK_DEADLOCK FALSE
