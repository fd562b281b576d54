CONSTANTS
  o = o
  a = a
  b = b
  c = c
  h = h
  Peers <- ThreePeers
  Home = o
  Selected <- ClosestOne
  ReplicaCount = 1
  Quorum = 1
  Reached <- ReplicaAndOutside
  Reporting <- ReplicaServer
  Windows <- NoWindow
  Calls <- OneCall
  DeleteMaxRetries = 1
  MaxLate = 0
  Failing <- Nobody
  None = None
SPECIFICATION Spec
INVARIANTS TypeOK SelectedMayDelete
PROPERTY KeepsCopies
CHECK_DEADLOCK FALSE
