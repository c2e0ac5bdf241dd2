SPECIFICATION FairSpec
CONSTANTS
  NULL = NULL
  Pcbs = {p1, p2}
  Locals = {e1}
  Peers = {r1}
  p1 = p1
  p2 = p2
  e1 = e1
  r1 = r1
  MaxRtx = 2
  SynMaxRtx = 1
  FinWaitTicks = 1
  SynRcvdTicks = 1
  TwoMslTicks = 2
  MaxAge = 3
  Usages <- Either
INVARIANTS NoSilentFree
 
