SPECIFICATION Spec
CONSTANTS
  Graphs <- SceneGraphs
  Instances <- MCSceneInstances
  Textures <- MCSceneTextures
  NumFrames = 3
  MaxFrames = 4
INVARIANT TypeOK
INVARIANT RecordedAfterInputs
INVARIANT PlanOrdered
INVARIANT InputsReady
INVARIANT ComputeAllocatorIdle
INVARIANT GraphFenceCoversAll
PROPERTY FenceIncreases
PROPERTY SubmittedFinishes
CHECK_DEADLOCK FALSE
