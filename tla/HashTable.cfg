SPECIFICATION SweepSpec
CONSTANTS
  a1 = a1
  a2 = a2
  a3 = a3
  a4 = a4
  a5 = a5
  NULL = NULL
  Junk = Junk
  Key <- Keys
  Val = {0, 1}
  Addr <- Addrs
  Hash <- PidHash
  Primes <- Sizes
  Elem <- Keys
  DefaultCap = 2
  Caps = {1, 3}
  MaxUsed = 5
SYMMETRY Symm
INVARIANTS Placed BelowThreshold Fits SweepExact
PROPERTIES Implements IsList
