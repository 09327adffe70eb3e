SPECIFICATION Spec
CONSTANTS
  Pool = {p1}
  Http = {h1}
  Edits = {"measure", "aux"}
  CalcTables = {1}
  MaxWrites = 2
  Absent = Absent
  Free = Free
INVARIANTS
  LoadCacheFaithful
  PlansUseTheEntry
  QuietEditsTakeEffect
