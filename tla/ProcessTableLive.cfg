SPECIFICATION FairSpec
CONSTANTS
  p1 = p1
  p2 = p2
  r1 = r1
  Pid <- Pids
  Reader <- Readers
  Faults <- NoFault
  MaxEvents = 3
INVARIANT SteadyKept
PROPERTIES DeadEvicted LiveFound
