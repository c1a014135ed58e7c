SPECIFICATION Spec
CONSTANTS
  Buffers = {"vertices", "indices"}
  InitialSize = 4
  GrowFactor = 1
  Sizes = {1, 2, 3}
  Word = 64
  MaxCapacity = 10
  MaxAllocations = 5
INVARIANTS
  TypeOK
  DataIntact
  FreeListSound
  SpaceAccounted
  HandlesUnique
CHECK_DEADLOCK FALSE
