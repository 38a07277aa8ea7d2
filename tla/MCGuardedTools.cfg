SPECIFICATION GSpec
CONSTANTS
  Ids = {i1, i2}
  None = none
  Adapters <- AllAdapters
INVARIANTS
  RunsAreCleared
  RefusedNeverRuns
PROPERTIES
  EveryCallReturns
CHECK_DEADLOCK FALSE
