CONSTANTS
  n1 = n1
  n2 = n2
  c1 = c1
  c2 = c2
  c3 = c3
  s1 = s1
  s2 = s2
  u1 = u1
  u2 = u2
  Nodes <- TwoNodes
  Sockets <- AcrossNodes
  NodeOf <- Placement
  Users <- OneUser
  Sessions <- TwoSessions
  Frames <- OneFrame
  Queriers <- NoQuerier
  MaxCrashes = 0
  None = None
SPECIFICATION Spec
INVARIANT OneConnection
CHECK_DEADLOCK FALSE
