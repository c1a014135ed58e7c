SPECIFICATION Spec
CONSTANTS
  Buffers = {"indices"}
  InitialSize = 4
  GrowFactor = 1
  Sizes = {1, 2, 3}
  Word = 64
  MaxCapacity = 12
  MaxAllocations = 5
INVARIANTS
  FreedSpaceListed
CHECK_DEADLOCK FALSE
