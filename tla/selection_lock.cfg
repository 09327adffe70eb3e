SPECIFICATION FairSpec
CONSTANTS
  Http = {h1}
  Loop = loop
  Pool = {p1}
  Slicers = {s1, s2}
  Defaults = {s1}
  Kinds = {"selection"}
  Visuals = {v1}
  Nobody = Nobody
  Parts = 0
PROPERTIES
  SelectionsAnswered
CHECK_DEADLOCK FALSE
