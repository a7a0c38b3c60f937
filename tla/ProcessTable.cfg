SPECIFICATION Spec
CONSTANTS
  p1 = p1
  p2 = p2
  r1 = r1
  Pid <- Pids
  Reader <- Readers
  Faults <- AllFaults
  MaxEvents = 4
SYMMETRY Symm
INVARIANTS LockInv HeldEntryStays RoundExact IInv
PROPERTIES ExclusiveUpdate Implements
