SPECIFICATION FairSpec
CONSTANTS
  n1 = n1
  n2 = n2
  c1 = c1
  c2 = c2
  c3 = c3
  k1 = k1
  k2 = k2
  Null = Null
  Nodes = {n1, n2}
  Calls = {c1, c2}
  Keys = {k1, k2}
  Options <- SomeOptions
  Lockable = TRUE
  MaxEntries = 1
  TtlMs = 1
  MaxTime = 1
CHECK_DEADLOCK FALSE
INVARIANTS
  SingleFlight
  Consistent
  LockedFillOnce
PROPERTY
  EveryCallSettles
