SPECIFICATION Spec
CONSTANTS
  a1 = a1
  h1 = h1
  h2 = h2
  Agents = {a1}
  Handlers = {h1, h2}
  Operations <- MCOperations
  Policies <- MCPolicies
  DeclaresExternal = {}
  NeedsApproval = {a1}
  FailMode = "closed"
  None = None
  Window = 2
  HistoryAge = 0
  ScanTTL = 1
  MaxRows = 2
  MaxNow = 1
INVARIANTS
  TypeOK
  FlowsContained
  DestinationsDeclared
  HistoryRemembers
  TriggerStops
SYMMETRY Symmetry
