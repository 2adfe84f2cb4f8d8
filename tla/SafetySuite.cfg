SPECIFICATION SuiteSpec
CONSTANTS
  Requests = {r1, r2}
  Managers <- SomeManagers
  MaxAge = 1
  MaxSessions = 2
  MaxIds = 3
  MaxTime = 1
  NoSession = NoSession
  CacheIds = 2
  Callers = {a, b}
  Keys = {1, 2, 3}
  Prefixed = {1, 2}
  ObjectStores = {"memory", "local", "s3"}
  MaxObjects = 2
  Limit = 1
  JobIds = {1, 2, 3}
  PageSize = 1
  JobStores = {"memory", "postgres"}
  MaxSeen = 4
  Nothing = 0
CHECK_DEADLOCK FALSE
INVARIANTS
  TypesOK
  EndedStaysDead
  OneSessionPerLogin
  ListingsMissNothing
  TornNeedsCause
  NothingLostOnTheWay
  LimitsAreKept
  SecretsStayInside
SYMMETRY AnyOrder
