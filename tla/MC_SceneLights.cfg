SPECIFICATION Spec
CONSTANTS
  Light = {l1, l2}
  ShadowSize = 1
  Columns = 4
  Rows = 4
  MaxLost = 1
  IdRange = 3
SYMMETRY Symmetry
INVARIANTS
  TypeOK
  AtlasSound
  RegionsAccounted
  OneHeightInside
  ShadowListSound
PROPERTIES
  RegionsStay
CHECK_DEADLOCK FALSE
