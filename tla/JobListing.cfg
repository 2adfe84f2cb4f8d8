SPECIFICATION Spec
CONSTANTS
  JobIds = {1, 2, 3}
  PageSize = 1
  Stores = {"memory"}
  MaxSeen = 3
  None = 0
INVARIANT
  PagesMissNothing
CHECK_DEADLOCK FALSE
