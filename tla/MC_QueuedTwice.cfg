SPECIFICATION Spec
CONSTANTS
  Entity = {root, e1, e2, e3, e4}
  root = root
  Null = Null
  MaxQueued = 2
PROPERTIES
  QueuedOnce
CHECK_DEADLOCK FALSE
