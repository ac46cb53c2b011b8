SPECIFICATION Spec
CONSTANTS
  r1 = r1
  r2 = r2
  Reads = {r1, r2}
  LastDay = 4
  Holidays = {2}
  MaxEntries = 2
  MaxBytes = 4
  Sizes = {1, 3, 5}
SYMMETRY Symmetry
INVARIANTS
  CacheWithinBounds
  KeptSessionsAreFinal
