SPECIFICATION Spec
CONSTANTS
  a = a
  b = b
  Pid <- OnePid
  NCpu = 1
  N = 8
  SampleSize = 3
  OtherSize = 4
  MaxRecords = 4
INVARIANT ReadsAll
