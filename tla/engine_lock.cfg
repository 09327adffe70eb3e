SPECIFICATION FairSpec
CONSTANTS
  Http = {h1}
  Loop = loop
  Pool = {p1}
  Slicers = {s1}
  Defaults = {s1}
  Kinds = {"visual", "values", "selection", "edit", "batch", "evaluate", "table",
           "tableEdit", "rows", "matrixExport", "matrix", "check", "export",
           "analyze", "playbook"}
  Parts = 2
  Visuals = {v1, v2}
  Nobody = Nobody
INVARIANTS
  LockHeldExactlyInside
  QueriesRunOnOpenConnections
PROPERTIES
  RequestsAnswered
