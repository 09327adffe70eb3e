SPECIFICATION Spec
CONSTANTS
  sales = sales
  dates = dates
  x = x
  y = y
  z = z
  total = total
  axis = axis
  first = first
  second = second
  group = group
  key = key
  p1 = p1
  csv = csv
  lake = lake
  import = import
  direct = direct
  Tables = {sales, dates}
  Cols = {x, y, z}
  Measures = {total}
  Params = {axis}
  Items = {first, second, third}
  Groups = {group}
  Keys = {key}
  Pages = {p1, p2}
  Visuals = {v1}
  Sources = {csv, lake}
  Modes = {import, direct}
  Fits <- MCFits
  Ends <- MCEnds
  HierarchyDefs <- MCHierarchyDefs
  ParamFiles <- MCParamFiles
  GroupFiles <- MCGroupFiles
  Encodings <- MCEncodings
  Payloads <- MCPayloads
  FirstProject <- MCFirstProject
  NoCol = NoCol
  NoSource = NoSource
  NoMode = NoMode
  MaxEdits = 3
INVARIANTS
  ChecksOutlast
PROPERTIES
  BreaksOnlyBy
  CalculatedColumnsStay
  SelectionsGoStaleOnlyBy
CHECK_DEADLOCK FALSE
