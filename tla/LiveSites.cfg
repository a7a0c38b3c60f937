SPECIFICATION Spec
CONSTANTS
  NKey = 3
  Object = {1, 2, 3, 4, 5}
  NoSite = 0
  SiteOf <- MCSiteOf
  Pages = {1, 2}
INVARIANTS IntervalExact SteadyCounted
