CONSTANTS
  k1 = k1
  k2 = k2
  k3 = k3
  x = x
  y = y
  Bar = Bar
  Character = {x, y, Bar}
  Key = {k1, k2, k3}
  NoKey = NoKey
  Trusted <- MCTrusted
  Minute = 3
  HalfWord = 16
  MaxTTL = 6
  MaxSessionDuration = 12
  WarningBeforeExpiry = 1
  Emergencies <- MCEmergencies
  ConfigFiles <- MCConfigFiles
  AccessRequests <- MCAccessRequests
  Tickets <- MCTickets
SPECIFICATION AdmissionSpec
INVARIANT ContextDecides
INVARIANT GrantsWithinLimits
INVARIANT QuorumDistinct
INVARIANT ApproversNamed
INVARIANT LifetimeInRange
CHECK_DEADLOCK FALSE
