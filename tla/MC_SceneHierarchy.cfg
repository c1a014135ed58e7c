SPECIFICATION Spec
CONSTANTS
  Entity = {root, e1, e2, e3}
  root = root
  Null = Null
  MaxQueued = 1
SYMMETRY Symmetry
INVARIANTS
  TypeOK
  ParentsAlive
  OnlySelfCycles
  ChildrenListed
PROPERTIES
  ImplementsForest
CHECK_DEADLOCK FALSE
