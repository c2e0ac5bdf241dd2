SPECIFICATION Spec
CONSTANTS
  m1 = m1
  m2 = m2
  Addrs = {a, b, g}
  Local = {a, g}
  Gateway = g
  NonUnicast = {any}
  Macs = {m1, m2}
  Broadcast = Broadcast
  NULL = NULL
  TableSize = 2
  MaxAge = 3
  ReRequestAge = 1
  MaxPending = 2
SYMMETRY MacSymmetry
INVARIANTS TypeOK UniqueEntries HeldByNextHop ResolvedIsCurrent FramesToCurrentMac
PROPERTIES LeastDestructive NoFlood
