SPECIFICATION Spec
CONSTANTS
  Address = {1, 2, 3}
  Object <- MCObject
  Pages = {1}
  MaxSample = 2
INVARIANTS Attributed BuffersFreedOnce
