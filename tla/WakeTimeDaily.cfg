SPECIFICATION Spec
CONSTANTS
  None = None
  BucketNumber = 48
  PeerNumber = 48
  Instants <- HourEdges
  Ages = {0, 7200}
  Pendings = {0, 290}
  AckDelays = {0, 1, 300}
  Starts = {0, 90, 600}
  SessionTimes = {0, 60}
  CloseTimes = {0, 60}
  Horizon = 200000
INVARIANTS TypeOK AheadOfClock NeverStranded
PROPERTY EveryDay
CHECK_DEADLOCK FALSE
