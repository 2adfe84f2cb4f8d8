SPECIFICATION Spec
CONSTANTS
  None = None
  Calls = {a1, a2, a3}
  Conns = {k1, k2}
  Kinds = {"pool", "client", "sqlite"}
  MaxWrites = 2
SYMMETRY CallSymmetry
INVARIANTS
  PoolIsClean
  AtomicWhenAlone
  SomewhereToSend
CHECK_DEADLOCK FALSE
