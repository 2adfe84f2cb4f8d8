SPECIFICATION SuiteSpec
CONSTANTS
  None = None
  Calls = {c1, c2}
  Limiters = {"window", "bucket"}
  Limit = 1
  PeriodMs = 2
  RefillTokens = 1
  Costs = {1, 2}
  MaxTime = 2
  Ticks = {t1, t2}
  Stops = {s1}
  MaxConcurrency = 2
  Trees = {"plain", "fanout", "failover"}
  MaxRecords = 2
  ErrorLines = {1}
  MaxLines = 3
  MaxFailures = 2
  Requests = {a}
  Attempts = 2
INVARIANTS
  TypesOK
  Exclusive
  BudgetsAreKept
  StopIsGraceful
  LinesAreKept
PROPERTY
  RetryAfterSuffices
  StoppedMeansQuiet
  EverythingSettles
CHECK_DEADLOCK FALSE
