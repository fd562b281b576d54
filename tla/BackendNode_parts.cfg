CONSTANTS
  o = o
  a = a
  b = b
  c = c
  h = h
  Peers <- HomeAndReplicas
  Home = o
  Selected <- ClosestTwo
  ReplicaCount = 2
  Quorum = 1
  Reached <- HomeServer
  Reporting <- Nobody
  Windows <- BothWindows
  Calls <- OneCall
  DeleteMaxRetries = 1
  MaxLate = 1
  Failing <- HomeServer
  None = None
  Nodes = {n1, n2}
  Sessions = {s1}
  ChatRooms = {r1}
  UserRoom = own
  MaxRoomCalls = 2
  MaxLosses = 1
  Challenges = {c1}
  Frames = {f1, f2}
  Keys = {k1, k2}
  Forged = forged
  ChallengeTtl = 1
  LastSecond = 3
  MaxStops = 3
  MaxMisreads = 1
  Streams = {q1, q2}
  Messages = {1, 2}
  PageLimit = 1
  MaxBreaks = 2
  UserKeys = {u1, u2}
  Names = {p1}
  BoxKeys = {x1}
  Omitted = omitted
  Blank = blank
  Null = null
  MaxRequests = 2
SPECIFICATION PartSpec
SYMMETRY PartSymmetry
INVARIANTS
  SyncFindsAccepted
  IndexAgrees IndexIsStored
  OpensOnceAsIssued RefusedOnlyIfTaken
  IdentityIsKept
  AnswersAreTrue
PROPERTIES OnlyAskedChanges JoinedStays
CHECK_DEADLOCK FALSE
