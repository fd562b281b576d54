CONSTANTS
  n1 = n1
  n2 = n2
  c1 = c1
  c2 = c2
  e1 = e1
  Nodes <- TwoNodes
  Sockets <- TwoSockets
  NodeOf <- Placement
  Events <- OneEvent
  MaxRetries = 2
  MaxCrashes = 1
  Absent = Absent
SPECIFICATION FairSpec
INVARIANTS AttemptBounded NoOrphan SentIsBacked
PROPERTY EveryEnvelopeSettles
CHECK_DEADLOCK FALSE
