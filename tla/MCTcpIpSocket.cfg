SPECIFICATION SockSpec
CONSTANTS
  NULL = NULL
  Pcbs = {p1, p2}
  Locals = {e1}
  Peers = {r1}
  p1 = p1
  p2 = p2
  e1 = e1
  r1 = r1
  MaxRtx = 1
  SynMaxRtx = 1
  FinWaitTicks = 1
  SynRcvdTicks = 1
  TwoMslTicks = 1
  MaxAge = 2
  Usages <- Either
  Sockets = {0, 1}
  ErrTargets = {0, 1, 255}
INVARIANTS KnowsConnected
