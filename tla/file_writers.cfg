SPECIFICATION WritersSpec
CONSTANTS
  Threads = {t1, t2}
  Files <- MCFiles
  Names = {1, 2, 3}
  First <- MCFirst
  None = None
  MaxRequests = 3
SYMMETRY Symmetry
INVARIANTS
  QuietUpdatesKept
CHECK_DEADLOCK FALSE
