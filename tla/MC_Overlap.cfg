SPECIFICATION Spec
CONSTANTS
  Graphs <- SceneGraphs
  Instances <- MCSceneInstances
  Textures <- MCSceneTextures
  NumFrames = 2
  MaxFrames = 1
INVARIANT OverlapIndependent
CHECK_DEADLOCK FALSE
