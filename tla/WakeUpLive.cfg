SPECIFICATION Spec
CONSTANTS
  d1 = d1  d2 = d2
  j1 = j1  j2 = j2  j3 = j3  j4 = j4
  h1 = h1  h2 = h2
  listener = listener
  None = None
  Devices = {d1}
  Jobs = {j1, j2, j3}
  Handlers = {h1}
  Listener = listener
  MaxAttempts = 1
  ChannelCap = 1
  DebugSessions = TRUE
  MaxFailures = 0
PROPERTIES KeepsWaking
