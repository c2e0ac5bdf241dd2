CONSTANTS
  Pbufs = {p1, p2}
  NULL = NULL
  ListSize = 4
  MaxNoBuffers = 3
  RefMod = 65536
  Configurations <- Retransmission
SPECIFICATION Spec
INVARIANTS NoDanglingPointer
CHECK_DEADLOCK FALSE
