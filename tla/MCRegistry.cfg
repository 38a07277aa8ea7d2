SPECIFICATION Spec
CONSTANTS
  Ids = {a, b, c}
  None = none
  Actions = {"read", "write"}
  Paths <- MCPaths
  Letters <- MCLetters
  Scopes <- MCScopes
  MaxDepth = 2
  MaxTokens = 4
  MaxFaults = 1
INVARIANTS
  TypeOK
  RevocationIsFinal
  NoGainOverAncestors
  SearchAdvances
SYMMETRY Symmetry
