SPECIFICATION CacheSpec
CONSTANTS
  Keys = {k1, k2, k3, k4, k5}
  Values = {v1, v2}
  MaxSize = 4
  TTL = 1
  MaxTime = 3
  Nothing = Nothing
SYMMETRY Symmetry
INVARIANTS
PROPERTIES
  EvictsOldestWhenFull
  ImplementsLossyCache
