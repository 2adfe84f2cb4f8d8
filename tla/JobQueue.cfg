SPECIFICATION Spec
CONSTANTS
  c1 = c1
  c2 = c2
  w1 = w1
  w2 = w2
  k1 = k1
  NoKey = NoKey
  NoId = NoId
  Clients = {c1, c2}
  Workers = {w1, w2}
  Ids <- TwoIds
  Prio <- TwoPrio
  Registry <- TwoOneUnknown
  KeyOf <- TwoOneKey
  Seed = {1}
  MaxJobs = 1
  Ops = {"cancel", "retry", "delete", "reuse"}
  MaxTime = 0
  MaxRuns = 1
  MaxAttempts = 2
  BackoffMs = 0
  MaxBackoffMs = 0
  Strategy = "exponential"
  Delays = {0}
INVARIANTS
  HandlersExclusive
  StoreIsSound
  RunningHasOwner
PROPERTY
  EvictionSparesLiveJobs
  SuccessNotUndone
CHECK_DEADLOCK FALSE
SYMMETRY ClientSymmetry
