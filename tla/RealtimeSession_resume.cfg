CONSTANTS
  n1 = n1
  n2 = n2
  c1 = c1
  c2 = c2
  c3 = c3
  s1 = s1
  s2 = s2
  u1 = u1
  u2 = u2
  Nodes <- OneNode
  Sockets <- SameNode
  NodeOf <- Placement
  Users <- TwoUsers
  Sessions <- TwoSessions
  Frames <- OneFrame
  Queriers <- OneQuerier
  MaxCrashes = 1
  None = None
SPECIFICATION Spec
SYMMETRY Interchangeable
INVARIANTS ClientsAreLive IndexFollowsSockets OneOwner
CHECK_DEADLOCK FALSE
