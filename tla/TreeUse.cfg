SPECIFICATION TreeSpec
CONSTANTS
  NKey = 7
  Plain = 1
  Marked = 2
INVARIANTS Shape Traversed LookupsRight
PROPERTY Implements
