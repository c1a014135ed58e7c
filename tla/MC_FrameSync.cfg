SPECIFICATION Spec
CONSTANTS
  NumFrames = 3
  StagingBufferSize = 9
  Updates <- MCUpdates
  MeshData <- MCMeshData
  MaxGrowths = 1
  MaxFrames = 4
  MaxSubmits = 5
INVARIANTS
  TypeOK
  AllocatorIdle
  StagingIdle
  StagedDataIntact
  VertexBufferAlive
  SceneResourcesIdle
  IdleAtExit
PROPERTIES
  UploadsBeforeGraph
  ResizeWhenIdle
  CallsReturn
CHECK_DEADLOCK FALSE
