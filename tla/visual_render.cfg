SPECIFICATION FairSpec
CONSTANTS
  Visuals = {1, 2, 3}
  Affected = {1, 2}
  Matrices = {2}
  AtFirst = {1, 2, 3}
  BatchFrom = 3
  MaxConcurrent = 2
  Passes = {1, 2}
  MaxEvents = 2
INVARIANTS
  StaleOnlyBy
  SpinsOnlyBy
CHECK_DEADLOCK FALSE
PROPERTIES
  Settles
