CONSTANTS
  A = A
  B = B
  Ends = {A, B}
  SeqSpace = 32
  Firsts = {0}
  Mss = 2
  Wnd = 4
  SndBuf = 4
  MaxRtx = 2
  Sizes = {1, 3}
  Plans <- SafetyPlans
  Capacity = 3
  MaxFaults = 1
  Patience = FALSE
SPECIFICATION Spec
INVARIANTS TypeOK QueuesOrdered NothingFreedEarly OoseqOrdered TimerRuns WindowRespected
PROPERTIES ImplementsStream EdgeAdvances
CHECK_DEADLOCK FALSE
