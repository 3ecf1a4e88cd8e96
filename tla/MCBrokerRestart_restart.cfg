CONSTANTS
  Second = 1
  DefaultLease = 2
  NoToken = NoToken
  Client = {c1}
  TTL = 1
  MaxSession = 2
  WarnBefore = 0
  GrantTTL = {1}
  IssueBy = 1
  MaxExtensions = 1
  MayShutDown = TRUE
  Horizon = 4
  Token = {t1}
  DiskMayFail = TRUE
  MaxCrashes = 1
  MaxShutdowns = 1
SPECIFICATION FairBrokerSpec
INVARIANT BrokerTypeOK
INVARIANT FileAlwaysWhole
INVARIANT StoreNotBehindFile
INVARIANT NeverUnscheduled
PROPERTY RecoverySplits
PROPERTY RevokedOnFileIsFinal
PROPERTY RecordedEventuallyEnds
