SPECIFICATION Spec
CONSTANTS
  c1 = c1
  c2 = c2
  w1 = w1
  w2 = w2
  k1 = k1
  NoKey = NoKey
  NoId = NoId
  Clients = {c1}
  Workers = {w1, w2}
  Ids <- ThreeIds
  Prio <- ThreePrio
  Registry <- ThreeAllKnown
  KeyOf <- ThreeSameKey
  Seed = {}
  MaxJobs = 3
  Ops = {}
  MaxTime = 0
  MaxRuns = 2
  MaxAttempts = 2
  BackoffMs = 1
  MaxBackoffMs = 2
  Strategy = "exponential"
  Delays = {0}
INVARIANT
  OneLiveJobPerKey
CHECK_DEADLOCK FALSE
