CONSTANTS
  Nodes = {a, b}
  Devices = {d1, d2}
  FirstNodes = {a}
  MaxEvents = 2
  MaxRequests = 2
  MaxStops = 1
  MaxStarts = 1
  None = None
  a = a
  b = b
  d1 = d1
  d2 = d2
SPECIFICATION Spec
SYMMETRY Symmetry
INVARIANTS TypeOK CustodyExact OwnerWakes
PROPERTIES ImplementsCustody
CHECK_DEADLOCK FALSE
