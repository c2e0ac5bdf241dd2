SPECIFICATION Spec
CONSTANTS
  NULL = NULL
  Pcbs = {p1, p2}
  Locals = {e1, e2}
  Peers = {r1, r2}
  p1 = p1
  p2 = p2
  e1 = e1
  e2 = e2
  r1 = r1
  r2 = r2
  MaxRtx = 1
  SynMaxRtx = 1
  FinWaitTicks = 1
  SynRcvdTicks = 1
  TwoMslTicks = 1
  MaxAge = 2
  Usages <- Server
INVARIANTS ListsEnd
