SPECIFICATION Spec
CONSTANTS
  None = None
  Calls = {a1, a2}
  Conns = {k1, k2}
  Kinds = {"pool", "client", "sqlite"}
  MaxWrites = 1
INVARIANTS
  RollbackUndoes
CHECK_DEADLOCK FALSE
