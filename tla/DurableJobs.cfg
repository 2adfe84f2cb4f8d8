SPECIFICATION FairSpec
CONSTANTS
  p1 = p1
  p2 = p2
  w1 = w1
  w2 = w2
  k1 = k1
  NoKey = NoKey
  NoId = NoId
  Null = Null
  Producers = {p1, p2}
  Workers = {w1, w2}
  Ids <- TwoIds
  Prio <- TwoPrio
  KeyOf <- TwoSameKey
  Known = {1}
  Faults = {"crash", "reject", "cancel"}
  MaxTime = 0
  LeaseMs = 2
  MaxAttempts = 2
  BackoffMs = 0
  MaxBackoffMs = 3
  Strategy = "exponential"
CHECK_DEADLOCK FALSE
INVARIANTS
  LeaseMeansNotStarted
  HandlersExclusive
  StoreIsSound
PROPERTY
  UnstartedClaimsComeFree
  ImplementsRecovery
