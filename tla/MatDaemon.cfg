SPECIFICATION FairDaemon
CONSTANTS
  p1 = p1
  p2 = p2
  Pid <- OnePid
  Reader <- Profilers
  Faults <- ProcFault
  MaxEvents = 3
  MaxCpu = 2
  RingSize = 1
INVARIANTS ProfileKnown
PROPERTIES RoomAgain SteadyKnown BareUncounted
CHECK_DEADLOCK FALSE
