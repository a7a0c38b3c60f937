SPECIFICATION FairSpec
CONSTANTS
  a = a
  b = b
  Pid <- TwoPids
  NCpu = 2
  N = 8
  SampleSize = 3
  OtherSize = 4
  MaxRecords = 4
INVARIANTS WholeRecord AllOrNothing CountedOnce ProfileExact
PROPERTY Drained
