CONSTANTS
  a = a  b = b  c = c  d = d  e = e
  Peers = {a, b, c, d}
  Events = {e}
  Origin <- FromA
  FirstLinks <- Ring
  MaxHops = 2
  MaxMoves = 1
  Keys = {d}
  MaxPasses = 3
  DeleteRetries = 3
  MaxEnqueues = 2
  Servers = {a, b, c}
  Neighbours <- Line
  Reporters = {a}
  Ttl = 2
  MaxAge = 2
  GossipLimit = 2
  Leavers = {a, c}
  MaxCalls = 4
  Syncers = {b}
  MaxSyncs = 1
  Remotes = {a, b, c, d}
  BootstrapList <- TwoBootstraps
  CoreCount = 1
  ByName <- Alphabet
  MaxScore = 1
  MaxFreshness = 1
  MaxChanges = 2
  MaxTouches = 2
  MaxRestarts = 1
  Hosts = {a, b, c, d, e}
  Selectors = {a, b}
  HashOf <- Hashes
  KeyHashes = {3, 5}
  XorOf <- BitwiseXor
  ReplicaCount = 2
SPECIFICATION PartFairSpec
INVARIANTS
  GossipStaysOneHop OnlyForwardsSuppress
  GivenUpAfterRetries
  AggregateIsCurrent
  RowSettles
  SelectionsAgree
PROPERTIES
  GossipDies RetryQueueDrains NewestKept RumoursEnd OnlyConnectsRaise
  DesiredConverges BootstrapsAreBack
CHECK_DEADLOCK FALSE
