SPECIFICATION Spec
CONSTANTS
  colour = colour
  bumps = bumps
  shader = shader
  brick = brick
  wood = wood
  Leaf = {colour, bumps, shader}
  Files <- MCFiles
  Uuid = {u1, u2, u3, u4, u5}
  Slot = {s1, s2, s3}
  MaxLeaked = 3
SYMMETRY Symmetry
INVARIANTS
  TypeOK
  CountsExact
  AssetsLive
  MapsAgree
PROPERTIES
  ImplementsLifetimes
CHECK_DEADLOCK FALSE
