SPECIFICATION Spec
CONSTANTS
  Importers = {i1, i2}
  Sources <- MCSources
  Columns <- MCColumns
  Candidates <- MCCandidates
  ModelItem = "quantity"
  FirstProject <- MCFirstProject
  User = User
  None = None
  MaxTransfers = 2
SYMMETRY Symmetry
INVARIANTS
  UnreadableOnlyBy
  MergesKeep
  ReferencesResolve
  VerifiedIsComplete
CHECK_DEADLOCK FALSE
