SPECIFICATION FairSpec
CONSTANTS
  c1 = c1
  c2 = c2
  w1 = w1
  w2 = w2
  k1 = k1
  NoKey = NoKey
  NoId = NoId
  Clients = {c1}
  Workers = {w1, w2}
  Ids <- TwoIds
  Prio <- TwoPrio
  Registry <- TwoOneUnknown
  KeyOf <- TwoNoKeys
  Seed = {1}
  MaxJobs = 2
  Ops = {}
  MaxTime = 3
  MaxRuns = 2
  MaxAttempts = 2
  BackoffMs = 1
  MaxBackoffMs = 2
  Strategy = "exponential"
  Delays = {0, 1}
PROPERTY
  EveryJobSettles
  ImplementsLifecycle
CHECK_DEADLOCK FALSE
