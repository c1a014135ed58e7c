SPECIFICATION Spec
CONSTANTS
  Graphs <- SmallGraphs
  Instances <- SmallInstances
  Textures <- SmallTextures
  NumFrames = 2
  MaxFrames = 1
INVARIANT ScheduleSound
CHECK_DEADLOCK FALSE
