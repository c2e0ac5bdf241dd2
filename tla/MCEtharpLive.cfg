SPECIFICATION FairSpec
CONSTANTS
  Addrs = {a, g}
  Local = {a, g}
  Gateway = g
  NonUnicast = {any}
  Macs = {m1}
  Broadcast = Broadcast
  NULL = NULL
  TableSize = 2
  MaxAge = 4
  ReRequestAge = 2
  MaxPending = 2
PROPERTIES PendingEnds
