CONSTANTS
  short = short
  long = long
  Frames = {short, long}
  Size <- Sizes
  MaxSize = 3
  RingSize = 11
  MaxCount = 255
SPECIFICATION Spec
INVARIANTS TypeOK HeaderThere RingConsistent
PROPERTIES ImplementsFifo FramesHandedUp OverrunEnds
