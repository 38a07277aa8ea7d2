SPECIFICATION Spec
CONSTANTS
  Length = 4
  Hits <- MCHits
INVARIANTS
  NoneUnderstated
  RedactedInPlace
CHECK_DEADLOCK FALSE
