CONSTANTS
  n1 = n1
  n2 = n2
  c1 = c1
  c2 = c2
  e1 = e1
  Nodes <- TwoNodes
  Sockets <- TwoSockets
  NodeOf <- Placement
  Events <- OneEvent
  MaxRetries = 1
  MaxCrashes = 0
  Absent = Absent
SPECIFICATION Spec
INVARIANT AckedIsSettled
CHECK_DEADLOCK FALSE
