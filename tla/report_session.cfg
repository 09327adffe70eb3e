SPECIFICATION Spec
CONSTANTS
  Pages = {p1, p2}
  PerPage = 1
  MaxEdits = 2
  NoPage = NoPage
SYMMETRY Symmetry
VIEW View
INVARIANTS
  SaveWritesPayload
  UnloadableOnlyBy
  QuietWorkStays
  QuietSavesKeep
CHECK_DEADLOCK FALSE
