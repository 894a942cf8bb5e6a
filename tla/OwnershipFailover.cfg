CONSTANTS
  Nodes = {a, b, c}
  Devices = {d1}
  FirstNodes = {a}
  MaxEvents = 2
  MaxRequests = 1
  MaxStops = 1
  MaxStarts = 0
  None = None
  a = a
  b = b
  c = c
  d1 = d1
SPECIFICATION LiveSpec
PROPERTIES DeadOwnsNothing
CHECK_DEADLOCK FALSE
