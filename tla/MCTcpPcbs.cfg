SPECIFICATION Spec
CONSTANTS
  NULL = NULL
  Pcbs = {p1, p2, p3}
  Locals = {e1, e2, e3}
  Peers = {r1}
  p1 = p1
  p2 = p2
  p3 = p3
  e1 = e1
  e2 = e2
  e3 = e3
  r1 = r1
  MaxRtx = 1
  SynMaxRtx = 1
  FinWaitTicks = 0
  SynRcvdTicks = 0
  TwoMslTicks = 0
  MaxAge = 1
  Usages <- Client
SYMMETRY Symmetry
INVARIANTS TypeOK ListAxioms ListsEnd UniqueEndpoints PoolAccounts
