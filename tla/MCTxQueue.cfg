CONSTANTS
  Pbufs = {p1, p2, p3}
  NULL = NULL
  ListSize = 3
  MaxNoBuffers = 2
  RefMod = 65536
  Configurations <- AllConfigurations
SPECIFICATION FairSpec
INVARIANTS TypeOK   NoFreedPointer
PROPERTIES QueuedIsSent ImplementsFifo
CHECK_DEADLOCK FALSE
