SPECIFICATION Spec
CONSTANTS
  a = a  b = b  c = c
  None = None
  Nodes = {a, b, c}
  FirstSeeds <- Seeds
  SuspectTimeout = 3
  DeadTimeout = 1
  Disturbances <- LostOrStopped
INVARIANTS Accurate
PROPERTIES DownIsForgotten FalseDeathHeals
CHECK_DEADLOCK FALSE
