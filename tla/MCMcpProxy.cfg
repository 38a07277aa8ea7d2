SPECIFICATION Spec
CONSTANTS
  Reqs = {r1, r2}
  Names = {t1, t2}
  Texts = {doc, lure}
  Directives <- MCDirectives
  Descs <- MCDescs
  Broken = broken
  None = none
  t1 = t1
  t2 = t2
  doc = doc
  lure = lure
  Listings <- MCListings
  Results <- MCResults
  Requests <- MCRequests
  ScanDepth = 2
SYMMETRY Clients
INVARIANTS
  RefusedNeverRuns

  
