CONSTANTS
  n1 = n1
  n2 = n2
  c1 = c1
  c2 = c2
  c3 = c3
  s1 = s1
  s2 = s2
  u1 = u1
  u2 = u2
  Nodes <- TwoNodes
  Sockets <- AcrossNodes
  NodeOf <- Placement
  Users <- OneUser
  Sessions <- OneSession
  Frames <- OneFrame
  Queriers <- OneQuerier
  MaxCrashes = 1
  None = None
SPECIFICATION FairSpec
PROPERTIES AbandonedIsReleased ActiveIsListedAgain
CHECK_DEADLOCK FALSE
