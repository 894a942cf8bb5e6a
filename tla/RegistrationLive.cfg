SPECIFICATION Spec
CONSTANTS
  d1 = d1  d2 = d2
  a1 = a1  a6 = a6
  n1 = n1
  t1 = t1  t2 = t2
  None = None
  Devices = {d1}
  V4 = {a1}
  V6 = {a6}
  Nodes = {n1}
  Tasks = {t1, t2}
  NodeOf <- OneNode
  BucketCount = 2
  MaxFailures = 1


PROPERTIES PendingIsResolved HandlersFinish
