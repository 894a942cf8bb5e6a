SPECIFICATION Spec
CONSTANTS
  None = None
  BucketNumber = 48
  PeerNumber = 48
  Instants <- Midnight
  Ages = {0}
  Pendings = {}
  AckDelays = {0}
  Starts = {0, 90, 180, 270, 360}
  SessionTimes = {0, 45}
  CloseTimes = {1}
  Horizon = 1000000
INVARIANT AwakeWhenConnected
CHECK_DEADLOCK FALSE
