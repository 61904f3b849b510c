\* The shortest lifetime that leaves MarginAssumption with delays of one tick.
SPECIFICATION FairSpec
CONSTANTS
  RenewInterval = 3
  PullTimeout   = 1
  MaxDelay      = 1
  Lifetime      = 8
  Backoff       = 2
  ScanInterval  = 3
  BatchCap      = 2
  QueueCap      = 3
  Noise         = Noise
INVARIANTS
  TypeOK
  RenewedInTime
  FlagFollowsCamera
  SubscriptionsBounded
PROPERTIES
  Recovers
