SPECIFICATION Spec
CONSTANTS
  parent = parent
  child = child
  Agents = {parent, child}
  Parent <- MCParent
  Callers = {child}
  Handlers = {h1, h2}
  None = none
  Base = 1
  Extension = 1
  Ceiling = 2
  Threshold = 2
  Window = 1
  MaxNow = 2
INVARIANTS
  TypeOK
  CeilingHolds
  ReleaseHolds
  NoMissedTrigger
PROPERTIES
  QuarantineHolds
SYMMETRY Symmetry
