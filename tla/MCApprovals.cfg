SPECIFICATION Spec
CONSTANTS
  Ids = {i1, i2}
  None = none
  Timeout = 1
  PendingTimeout = 2
  MaxAge = 1
  MaxNow = 3
INVARIANTS
  TypeOK
  OneVerdict
PROPERTIES
  EventuallyResolved
  ImplementsHumanDecision
CHECK_DEADLOCK FALSE
