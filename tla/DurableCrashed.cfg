SPECIFICATION FairSpec
CONSTANTS
  p1 = p1
  p2 = p2
  w1 = w1
  w2 = w2
  k1 = k1
  NoKey = NoKey
  NoId = NoId
  Null = Null
  Producers = {p1}
  Workers = {w1}
  Ids <- OneId
  Prio <- OnePrio
  KeyOf <- OneNoKey
  Known = {1}
  Faults = {"crash"}
  MaxTime = 0
  LeaseMs = 1
  MaxAttempts = 2
  BackoffMs = 1
  MaxBackoffMs = 2
  Strategy = "exponential"
CHECK_DEADLOCK FALSE
PROPERTY
  CrashedJobsRecovered
