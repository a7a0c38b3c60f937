SPECIFICATION FairSpec
CONSTANTS
  NThread = 2
  Block = {1, 2}
  Quiet = FALSE
  MaxObj = 1
  MaxSample = 0
PROPERTY FiniEnds
CHECK_DEADLOCK FALSE
