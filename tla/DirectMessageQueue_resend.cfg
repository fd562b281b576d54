CONSTANTS
  o = o
  a = a
  b = b
  c = c
  h = h
  Peers <- FivePeers
  Home = o
  Selected <- Diverging
  ReplicaCount = 2
  Quorum = 2
  Reached <- OutsideServer
  Reporting <- Nobody
  Windows <- ArrivalWindow
  Calls <- TwoCalls
  DeleteMaxRetries = 1
  MaxLate = 2
  Failing <- HomeAndReplica
  None = None
SPECIFICATION Spec
INVARIANTS AcceptedHasQuorum SyncFindsAccepted
CHECK_DEADLOCK FALSE
