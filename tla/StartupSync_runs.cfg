CONSTANTS
  p = p
  q = q
  Peers <- TwoPeers
  Preference <- ByWeight
  Weight <- SplitVote
  Target = 2
  TableCount = 2
  FirstRows <- Disagree
  MaxVersion = 2
  MaxMoves = 1
  MaxTimeouts = 1
  MaxChanges = 1
  None = None
SPECIFICATION FairSpec
INVARIANTS WeakIsQueued DoneIsComplete
PROPERTIES EveryRunEnds QueuedRunHappens
CHECK_DEADLOCK FALSE
