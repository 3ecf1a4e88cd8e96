CONSTANTS
  Second = 2
  DefaultLease = 4
  NoToken = NoToken
  Token = {t1}
  Client = {c1, c2}
  TTL = 2
  MaxSession = 5
  WarnBefore = 1
  GrantTTL = {2}
  IssueBy = 1
  MaxExtensions = 2
  MayShutDown = TRUE
  Horizon = 6
SYMMETRY Symmetry
SPECIFICATION Spec
INVARIANT TypeOK
INVARIANT SessionCeiling
INVARIANT RevokedOnce
INVARIANT EndedForCause
INVARIANT OneWarningPerWindow
INVARIANT SurvivorsBounded
PROPERTY RevokedIsFinal
PROPERTY ImplementsLifecycle
CHECK_DEADLOCK FALSE
