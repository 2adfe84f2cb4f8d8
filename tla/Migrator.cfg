SPECIFICATION FairSpec
CONSTANTS
  p1 = p1
  p2 = p2
  old = old
  new = new
  None = None
  Processes = {p1, p2}
  Ids <- ThreeIds
  Sums = {old, new}
  Checksum <- TwoSums
  HasDown = {2, 3}
  Kinds = {"memory", "sql", "sqlNoTx"}
  MaxCalls = 2
INVARIANTS
  HistoryTrue
  AppliedInOrder
  LockExcludes
PROPERTY
  EveryCallSettles
CHECK_DEADLOCK FALSE
