SPECIFICATION Spec
CONSTANTS
  Nonces = {n1}
  Ops = {o1, o2}
  Callers = {c1, c2}
  Requests = {r1, r2, r3}
  None = None
  MaxAge = 1
  MaxHold = 1
  Horizon = 2
  MaxNow = 3
CHECK_DEADLOCK FALSE
INVARIANTS TypeOK AtMostOneSpend DispatchIsCovered RefusalBurnsNothing
PROPERTIES ImplementsSpendOnce
SYMMETRY Symmetry
