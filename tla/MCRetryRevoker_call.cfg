CONSTANTS
  Secret = {"s1", "s2"}
  BaseDelay = 20
  MaxDelay = 60
  MaxAttempts = 4
  JitterPercent = 10
SPECIFICATION FairSpec
INVARIANT TypeOK
INVARIANT EveryFailureAudited
INVARIANT StopsSoon
INVARIANT StallBounded
PROPERTY Returns
PROPERTY ImplementsRevokeCall
CHECK_DEADLOCK FALSE
