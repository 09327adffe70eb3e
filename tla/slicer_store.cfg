SPECIFICATION Spec
CONSTANTS
  a = a
  a_b = a_b
  c = c
  b_c = b_c
  joined = joined
  other = other
  Slicers <- MCSlicers
  PageIds <- MCPageIds
  PlainPages = {c}
  Bodies = {b1}
  Layouts = {std, big}
  DefaultLayout = std
  Ids <- MCIds
  PlaceId <- MCPlaceId
  NoInst = NoInst
  NoPage = NoPage
  MaxOps = 2
INVARIANTS
  IdsCollideOnlyBy
PROPERTIES
  OthersStayAsTheyWere
  RemovalNarrowsWhileSynced
CHECK_DEADLOCK FALSE
