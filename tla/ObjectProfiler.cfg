SPECIFICATION FairSpec
CONSTANTS
  NThread = 2
  Block = {1, 2}
  Quiet = TRUE
  MaxObj = 2
  MaxSample = 1
INVARIANTS HandOff Conserved AllWritten Attributed
PROPERTY FiniEnds
