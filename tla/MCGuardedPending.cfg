SPECIFICATION GSpec
CONSTANTS
  Ids = {i1, i2}
  None = none
  Adapters <- AllAdapters

INVARIANTS
  PendingWaits
CHECK_DEADLOCK FALSE
