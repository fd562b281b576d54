-------------------------- MODULE RealtimeSessionProofs --------------------------
(***************************************************************************)
(* Theorems about RealtimeSession: the types and what each handler holds   *)
(* between its awaits; the room index follows the sockets; only live       *)
(* sockets are registered, if a socket carries one frame at a time; and a  *)
(* session has one owner.  Each invariant has its inductive strengthening, *)
(* and the four share the lemmas that say what a step does to the tables   *)
(* of calls and of registrations.                                          *)
(***************************************************************************)
EXTENDS RealtimeSession, TLAPS

(***************************************************************************)
(* The calls of the gateway and what each of them holds.                   *)
(***************************************************************************)
AuthCall  == [pc: AuthPc, user: Users \cup {None}, last: Sessions \cup {None},
              session: Sessions \cup {None}]
DiscCall  == [pc: {"idle", "read", "write", "unlist"}, session: Sessions \cup {None},
              read: Record \cup {None}]
PongCall  == [pc: {"idle", "write", "list"}, session: Sessions \cup {None},
              read: Record \cup {None}]
QueryCall == [pc: {"idle", "read", "prune"}, user: Users \cup {None}, ids: SUBSET Sessions]

\* a call that goes on has what its next step needs
CallsHold ==
  /\ \A c \in Sockets, k \in Frames :
       /\ auth[c][k].pc # "idle" => auth[c][k].user \in Users
       /\ auth[c][k].pc \in {"lookup", "restore"} => auth[c][k].last \in Sessions
       /\ auth[c][k].pc \in {"list", "rooms", "done"} => auth[c][k].session \in Sessions
  /\ \A c \in Sockets :
       /\ disc[c].pc # "idle" => disc[c].session \in Sessions
       /\ disc[c].pc \in {"write", "unlist"} => disc[c].read \in Record
       /\ pong[c].pc # "idle" => pong[c].session \in Sessions /\ pong[c].read \in Record
  /\ \A n \in Nodes : query[n].pc # "idle" => query[n].user \in Users

CallsInv == TypeOK /\ CallsHold

\* One cell of a table of tables is replaced.
LEMMA CellMoves ==
  ASSUME NEW A, NEW B, NEW T, NEW f \in [A -> [B -> T]], NEW a \in A, NEW b \in B,
         NEW x \in T, NEW g, g = [f EXCEPT ![a] = [f[a] EXCEPT ![b] = x]]
  PROVE  /\ g \in [A -> [B -> T]]
         /\ g[a][b] = x
         /\ \A d \in A, j \in B : ~(d = a /\ j = b) => g[d][j] = f[d][j]
  <1>1. PICK row : row = [f[a] EXCEPT ![b] = x]
    OBVIOUS
  <1>2. row \in [B -> T] /\ row[b] = x /\ \A j \in B \ {b} : row[j] = f[a][j]
    BY <1>1
  <1>3. g = [f EXCEPT ![a] = row]
    BY <1>1
  <1> QED BY <1>2, <1>3

\* The one frame's call moves on: the others stay, and it keeps what it knows.
LEMMA AuthMoves ==
  ASSUME auth \in [Sockets -> [Frames -> AuthCall]],
         NEW c \in Sockets, NEW k \in Frames, NEW pc \in AuthPc,
         AuthGoesTo(c, k, pc)
  PROVE  /\ auth' \in [Sockets -> [Frames -> AuthCall]]
         /\ \A d \in Sockets, j \in Frames :
              ~(d = c /\ j = k) => auth'[d][j] = auth[d][j]
         /\ auth'[c][k].pc = pc
         /\ auth'[c][k].user = auth[c][k].user
         /\ auth'[c][k].last = auth[c][k].last
         /\ auth'[c][k].session = auth[c][k].session
  <1>1. PICK call : call = [auth[c][k] EXCEPT !.pc = pc]
    OBVIOUS
  <1>2. auth' = [auth EXCEPT ![c] = [auth[c] EXCEPT ![k] = call]]
    BY <1>1 DEF AuthGoesTo
  <1>3. auth[c][k] \in AuthCall
    OBVIOUS
  <1>4. /\ call \in AuthCall
        /\ call.pc = pc /\ call.user = auth[c][k].user
        /\ call.last = auth[c][k].last /\ call.session = auth[c][k].session
    BY <1>1, <1>3 DEF AuthCall
  <1>5. /\ auth' \in [Sockets -> [Frames -> AuthCall]]
        /\ auth'[c][k] = call
        /\ \A d \in Sockets, j \in Frames :
             ~(d = c /\ j = k) => auth'[d][j] = auth[d][j]
    BY <1>2, <1>4, CellMoves
  <1> QED BY <1>4, <1>5

\* The call is given its session and moves on to list it.
GivenSession(c, k, s) ==
  auth' = [auth EXCEPT ![c][k].pc = "list", ![c][k].session = s]

LEMMA AuthIsGiven ==
  ASSUME auth \in [Sockets -> [Frames -> AuthCall]],
         NEW c \in Sockets, NEW k \in Frames, NEW s \in Sessions,
         GivenSession(c, k, s)
  PROVE  /\ auth' \in [Sockets -> [Frames -> AuthCall]]
         /\ \A d \in Sockets, j \in Frames :
              ~(d = c /\ j = k) => auth'[d][j] = auth[d][j]
         /\ auth'[c][k].pc = "list"
         /\ auth'[c][k].user = auth[c][k].user
         /\ auth'[c][k].last = auth[c][k].last
         /\ auth'[c][k].session = s
  <1>1. PICK call : call = [auth[c][k] EXCEPT !.pc = "list", !.session = s]
    OBVIOUS
  <1>2. auth' = [auth EXCEPT ![c] = [auth[c] EXCEPT ![k] = call]]
    BY <1>1 DEF GivenSession
  <1>3. auth[c][k] \in AuthCall
    OBVIOUS
  <1>4. /\ call \in AuthCall
        /\ call.pc = "list" /\ call.user = auth[c][k].user
        /\ call.last = auth[c][k].last /\ call.session = s
    BY <1>1, <1>3 DEF AuthCall, AuthPc
  <1>5. /\ auth' \in [Sockets -> [Frames -> AuthCall]]
        /\ auth'[c][k] = call
        /\ \A d \in Sockets, j \in Frames :
             ~(d = c /\ j = k) => auth'[d][j] = auth[d][j]
    BY <1>2, <1>4, CellMoves
  <1> QED BY <1>4, <1>5

\* What is persisted is a record, of the same owner.
LEMMA PersistKeeps ==
  ASSUME record \in [Sessions -> Record \cup {None}],
         NEW s \in Sessions, NEW r \in Record, Persist(s, r)
  PROVE  /\ record' \in [Sessions -> Record \cup {None}]
         /\ record'[s].owner = r.owner
         /\ record'[s] \in Record
         /\ \A t \in Sessions \ {s} : record'[t] = record[t]
  <1>1. PICK kept : kept = [r EXCEPT !.fresh = TRUE]
    OBVIOUS
  <1>2. kept \in Record /\ kept.owner = r.owner
    BY <1>1 DEF Record
  <1> QED BY <1>1, <1>2 DEF Persist

LEMMA ActiveIsRecord ==
  ASSUME NEW c \in Sockets, NEW u \in Users
  PROVE  ActiveRecord(c, u) \in Record /\ ActiveRecord(c, u).owner = u
  BY PlacementAssumption DEF ActiveRecord, Record

(***************************************************************************)
(* Types.                                                                  *)
(***************************************************************************)
ConnTypeOK ==
  /\ sock            \in [Sockets -> {"new", "open", "closing", "gone"}]
  /\ bound           \in [Sockets -> Sessions \cup {None}]
  /\ session_clients \in [Nodes -> [Sessions -> SUBSET Sockets]]
  /\ in_room         \in [Nodes -> SUBSET Sessions]

RedisTypeOK ==
  /\ record        \in [Sessions -> Record \cup {None}]
  /\ user_sessions \in [Users -> SUBSET Sessions]
  /\ created       \subseteq Sessions

AuthTypeOK ==
  /\ auth \in [Sockets -> [Frames -> AuthCall]]
  /\ \A c \in Sockets, k \in Frames :
       /\ auth[c][k].pc # "idle" => auth[c][k].user \in Users
       /\ auth[c][k].pc \in {"lookup", "restore"} => auth[c][k].last \in Sessions
       /\ auth[c][k].pc \in {"list", "rooms", "done"} => auth[c][k].session \in Sessions

DiscTypeOK ==
  /\ disc \in [Sockets -> DiscCall]
  /\ \A c \in Sockets :
       /\ disc[c].pc # "idle" => disc[c].session \in Sessions
       /\ disc[c].pc \in {"write", "unlist"} => disc[c].read \in Record

PongTypeOK ==
  /\ pong \in [Sockets -> PongCall]
  /\ \A c \in Sockets :
       pong[c].pc # "idle" => pong[c].session \in Sessions /\ pong[c].read \in Record

QueryTypeOK ==
  /\ query \in [Nodes -> QueryCall]
  /\ \A n \in Nodes : query[n].pc # "idle" => query[n].user \in Users

Parts == ConnTypeOK /\ RedisTypeOK /\ AuthTypeOK /\ DiscTypeOK /\ PongTypeOK /\ QueryTypeOK
           /\ crashes \in 0..MaxCrashes

LEMMA PartsOfInv == CallsInv <=> Parts
  BY DEF CallsInv, TypeOK, CallsHold, Parts, ConnTypeOK, RedisTypeOK, AuthTypeOK, DiscTypeOK,
         PongTypeOK, QueryTypeOK, AuthCall, DiscCall, PongCall, QueryCall

LEMMA PartsOfInvNext == CallsInv' <=> Parts'
  BY DEF CallsInv, TypeOK, CallsHold, Parts, ConnTypeOK, RedisTypeOK, AuthTypeOK, DiscTypeOK,
         PongTypeOK, QueryTypeOK, AuthCall, DiscCall, PongCall, QueryCall

LEMMA IdleCalls ==
  /\ AuthIdle \in AuthCall /\ AuthIdle.pc = "idle"
  /\ AuthIdle.session = None /\ AuthIdle.user = None
  /\ DiscIdle \in DiscCall /\ DiscIdle.pc = "idle" /\ DiscIdle.session = None
  /\ PongIdle \in PongCall /\ PongIdle.pc = "idle" /\ PongIdle.session = None
  /\ QueryIdle \in QueryCall /\ QueryIdle.pc = "idle"
  BY DEF AuthIdle, DiscIdle, PongIdle, QueryIdle, AuthCall, DiscCall, PongCall, QueryCall, AuthPc

LEMMA CallsInit == Init => CallsInv
  <1> SUFFICES ASSUME Init PROVE Parts
    BY PartsOfInv
  <1>1. ConnTypeOK /\ RedisTypeOK /\ crashes \in 0..MaxCrashes
    BY CrashesAssumption DEF Init, ConnTypeOK, RedisTypeOK
  <1>2. AuthTypeOK
    BY IdleCalls DEF Init, AuthTypeOK
  <1>3. DiscTypeOK
    BY IdleCalls DEF Init, DiscTypeOK
  <1>4. PongTypeOK
    BY IdleCalls DEF Init, PongTypeOK
  <1>5. QueryTypeOK
    BY IdleCalls DEF Init, QueryTypeOK
  <1> QED BY <1>1, <1>2, <1>3, <1>4, <1>5 DEF Parts

\* An auth.connect call keeps its type when it moves on and has what it needs.
LEMMA AuthTypeMoves ==
  ASSUME AuthTypeOK, NEW c \in Sockets, NEW k \in Frames, NEW pc \in AuthPc \ {"idle"},
         AuthGoesTo(c, k, pc),
         auth[c][k].pc # "idle",
         pc \in {"lookup", "restore"} => auth[c][k].last \in Sessions,
         pc \in {"list", "rooms", "done"} => auth[c][k].session \in Sessions
  PROVE  AuthTypeOK'
  <1>1. /\ auth' \in [Sockets -> [Frames -> AuthCall]]
        /\ \A d \in Sockets, j \in Frames : ~(d = c /\ j = k) => auth'[d][j] = auth[d][j]
        /\ auth'[c][k].pc = pc
        /\ auth'[c][k].user = auth[c][k].user
        /\ auth'[c][k].last = auth[c][k].last
        /\ auth'[c][k].session = auth[c][k].session
    BY AuthMoves DEF AuthTypeOK
  <1>2. ASSUME NEW d \in Sockets, NEW j \in Frames
        PROVE  /\ auth'[d][j].pc # "idle" => auth'[d][j].user \in Users
               /\ auth'[d][j].pc \in {"lookup", "restore"} => auth'[d][j].last \in Sessions
               /\ auth'[d][j].pc \in {"list", "rooms", "done"}
                    => auth'[d][j].session \in Sessions
    <2>1. CASE d = c /\ j = k
      BY <1>1, <2>1 DEF AuthTypeOK
    <2>2. CASE ~(d = c /\ j = k)
      BY <1>1, <2>2 DEF AuthTypeOK
    <2> QED BY <2>1, <2>2
  <1> QED BY <1>1, <1>2 DEF AuthTypeOK

\* The handlers of one socket's close: its call is replaced.
LEMMA DiscTypeMoves ==
  ASSUME DiscTypeOK, NEW c \in Sockets, NEW call \in DiscCall,
         disc' = [disc EXCEPT ![c] = call],
         call.pc # "idle" => call.session \in Sessions,
         call.pc \in {"write", "unlist"} => call.read \in Record
  PROVE  DiscTypeOK'
  BY DEF DiscTypeOK

LEMMA PongTypeMoves ==
  ASSUME PongTypeOK, NEW c \in Sockets, NEW call \in PongCall,
         pong' = [pong EXCEPT ![c] = call],
         call.pc # "idle" => call.session \in Sessions /\ call.read \in Record
  PROVE  PongTypeOK'
  BY DEF PongTypeOK

LEMMA QueryTypeMoves ==
  ASSUME QueryTypeOK, NEW n \in Nodes, NEW call \in QueryCall,
         query' = [query EXCEPT ![n] = call],
         call.pc # "idle" => call.user \in Users
  PROVE  QueryTypeOK'
  BY DEF QueryTypeOK

\* handleConnection and auth.connect.
LEMMA AuthCallsHold ==
  ASSUME CallsInv, NEW c \in Sockets, NEW k \in Frames,
         \/ AuthStep(c, k)
         \/ AuthFails(c, k)
         \/ \E u \in Users, last \in Sessions \cup {None} : AuthConnect(c, k, u, last)
  PROVE  CallsInv'
  <1> SUFFICES Parts'
    BY PartsOfInvNext
  <1>0. Parts
    BY PartsOfInv
  <1>n. NodeOf[c] \in Nodes
    BY PlacementAssumption
  <1>a. auth[c][k] \in AuthCall /\ AuthIdle.pc = "idle"
    BY <1>0, IdleCalls DEF Parts, AuthTypeOK
  <1>1. ASSUME NEW u \in Users, NEW last \in Sessions \cup {None}, AuthConnect(c, k, u, last)
        PROVE  Parts'
    <2>1. PICK call : call = [pc |-> "verify", user |-> u, last |-> last, session |-> None]
      OBVIOUS
    <2>2. call \in AuthCall /\ call.pc = "verify" /\ call.user = u
      BY <2>1 DEF AuthCall, AuthPc
    <2>3. auth' = [auth EXCEPT ![c] = [auth[c] EXCEPT ![k] = call]]
      BY <1>1, <2>1 DEF AuthConnect
    <2>4. /\ auth' \in [Sockets -> [Frames -> AuthCall]]
          /\ auth'[c][k] = call
          /\ \A d \in Sockets, j \in Frames : ~(d = c /\ j = k) => auth'[d][j] = auth[d][j]
      BY <1>0, <2>2, <2>3, CellMoves DEF Parts, AuthTypeOK
    <2>5. ASSUME NEW d \in Sockets, NEW j \in Frames
          PROVE  /\ auth'[d][j].pc # "idle" => auth'[d][j].user \in Users
                 /\ auth'[d][j].pc \in {"lookup", "restore"} => auth'[d][j].last \in Sessions
                 /\ auth'[d][j].pc \in {"list", "rooms", "done"}
                      => auth'[d][j].session \in Sessions
      <3>1. CASE d = c /\ j = k
        BY <2>2, <2>4, <3>1
      <3>2. CASE ~(d = c /\ j = k)
        BY <1>0, <2>4, <3>2 DEF Parts, AuthTypeOK
      <3> QED BY <3>1, <3>2
    <2>6. AuthTypeOK'
      BY <2>4, <2>5 DEF AuthTypeOK
    <2> QED BY <1>0, <1>1, <2>6 DEF Parts, AuthConnect, connVars, redisVars, ConnTypeOK,
               RedisTypeOK, DiscTypeOK, PongTypeOK, QueryTypeOK
  <1>2. CASE ChallengeConsumed(c, k)
    <2>1. PICK pc : pc = IF auth[c][k].last = None THEN "create" ELSE "lookup"
      OBVIOUS
    <2>2. AuthGoesTo(c, k, pc) /\ auth[c][k].pc = "verify"
      BY <1>2, <2>1 DEF ChallengeConsumed
    <2>3. AuthTypeOK'
      <3>1. pc \in AuthPc \ {"idle"}
        BY <2>1 DEF AuthPc
      <3>2. pc \in {"lookup", "restore"} => auth[c][k].last \in Sessions
        BY <1>a, <2>1 DEF AuthCall
      <3>3. pc \notin {"list", "rooms", "done"}
        BY <2>1
      <3> QED BY <1>0, <2>2, <3>1, <3>2, <3>3, AuthTypeMoves DEF Parts
    <2>4. PICK old : sock' = [d \in Sockets |->
                       IF d \in old /\ sock[d] = "open" THEN "closing" ELSE sock[d]]
      BY <1>2 DEF ChallengeConsumed
    <2>5. ConnTypeOK'
      BY <1>0, <1>2, <2>4 DEF Parts, ConnTypeOK, ChallengeConsumed
    <2> QED BY <1>0, <1>2, <2>3, <2>5 DEF Parts, ChallengeConsumed, redisVars, RedisTypeOK,
               DiscTypeOK, PongTypeOK, QueryTypeOK
  <1>3. CASE SessionLookedUp(c, k)
    <2>1. PICK pc : pc = IF Restorable(auth[c][k].user, auth[c][k].last) THEN "restore"
                         ELSE "create"
      OBVIOUS
    <2>2. AuthGoesTo(c, k, pc) /\ auth[c][k].pc = "lookup"
      BY <1>3, <2>1 DEF SessionLookedUp
    <2>3. AuthTypeOK'
      <3>1. pc \in AuthPc \ {"idle"} /\ pc \notin {"list", "rooms", "done"}
        BY <2>1 DEF AuthPc
      <3>2. auth[c][k].last \in Sessions
        BY <1>0, <2>2 DEF Parts, AuthTypeOK
      <3> QED BY <1>0, <2>2, <3>1, <3>2, AuthTypeMoves DEF Parts
    <2> QED BY <1>0, <1>3, <2>3 DEF Parts, SessionLookedUp, connVars, redisVars, ConnTypeOK,
               RedisTypeOK, DiscTypeOK, PongTypeOK, QueryTypeOK
  <1>4. ASSUME NEW s \in Sessions, GivenSession(c, k, s),
               Persist(s, ActiveRecord(c, auth[c][k].user)),
               created' = created \/ created' = created \cup {s},
               auth[c][k].pc # "idle",
               UNCHANGED <<connVars, user_sessions, disc, pong, query, crashes>>
        PROVE  Parts'
    <2>1. auth[c][k].user \in Users
      BY <1>0, <1>4 DEF Parts, AuthTypeOK
    <2>2. RedisTypeOK'
      BY <1>0, <1>4, <2>1, ActiveIsRecord, PersistKeeps DEF Parts, RedisTypeOK
    <2>3. /\ auth' \in [Sockets -> [Frames -> AuthCall]]
          /\ \A d \in Sockets, j \in Frames : ~(d = c /\ j = k) => auth'[d][j] = auth[d][j]
          /\ auth'[c][k].pc = "list"
          /\ auth'[c][k].user = auth[c][k].user
          /\ auth'[c][k].session = s
      BY <1>0, <1>4, AuthIsGiven DEF Parts, AuthTypeOK
    <2>4. ASSUME NEW d \in Sockets, NEW j \in Frames
          PROVE  /\ auth'[d][j].pc # "idle" => auth'[d][j].user \in Users
                 /\ auth'[d][j].pc \in {"lookup", "restore"} => auth'[d][j].last \in Sessions
                 /\ auth'[d][j].pc \in {"list", "rooms", "done"}
                      => auth'[d][j].session \in Sessions
      <3>1. CASE d = c /\ j = k
        BY <2>1, <2>3, <3>1
      <3>2. CASE ~(d = c /\ j = k)
        BY <1>0, <2>3, <3>2 DEF Parts, AuthTypeOK
      <3> QED BY <3>1, <3>2
    <2>5. AuthTypeOK'
      BY <2>3, <2>4 DEF AuthTypeOK
    <2> QED BY <1>0, <1>4, <2>2, <2>5 DEF Parts, connVars, ConnTypeOK, DiscTypeOK,
               PongTypeOK, QueryTypeOK
  <1>5. CASE SessionRestored(c, k)
    <2>1. auth[c][k].pc = "restore" /\ auth[c][k].last \in Sessions
      BY <1>0, <1>5 DEF SessionRestored, Parts, AuthTypeOK
    <2> QED BY <1>4, <1>5, <2>1 DEF SessionRestored, GivenSession
  <1>6. CASE SessionCreated(c, k)
    <2>1. PICK s \in Sessions \ created : /\ Persist(s, ActiveRecord(c, auth[c][k].user))
                                          /\ created' = created \cup {s}
                                          /\ GivenSession(c, k, s)
      BY <1>6 DEF SessionCreated, GivenSession
    <2> QED BY <1>4, <1>6, <2>1 DEF SessionCreated
  <1>7. CASE SessionListed(c, k)
    <2>1. auth[c][k].pc = "list" /\ auth[c][k].session \in Sessions /\ auth[c][k].user \in Users
      BY <1>0, <1>7 DEF SessionListed, Parts, AuthTypeOK
    <2>2. AuthTypeOK'
      BY <1>0, <1>7, <2>1, AuthTypeMoves DEF SessionListed, Parts, AuthPc
    <2>3. ConnTypeOK'
      <3>1. CASE IsRegistered(c)
        <4>1. bound' \in [Sockets -> Sessions \cup {None}]
          BY <1>0, <1>7, <2>1, <3>1 DEF SessionListed, Parts, ConnTypeOK
        <4>2. session_clients' \in [Nodes -> [Sessions -> SUBSET Sockets]]
          <5>1. PICK cs : cs = session_clients[NodeOf[c]][auth[c][k].session] \cup {c}
            OBVIOUS
          <5>2. cs \in SUBSET Sockets
            BY <1>0, <1>n, <2>1, <5>1 DEF Parts, ConnTypeOK
          <5>3. session_clients' = [session_clients EXCEPT ![NodeOf[c]] =
                  [session_clients[NodeOf[c]] EXCEPT ![auth[c][k].session] = cs]]
            BY <1>7, <3>1, <5>1 DEF SessionListed
          <5> QED BY <1>0, <1>n, <2>1, <5>2, <5>3, CellMoves DEF Parts, ConnTypeOK
        <4> QED BY <1>0, <1>7, <4>1, <4>2 DEF SessionListed, Parts, ConnTypeOK
      <3>2. CASE ~IsRegistered(c)
        BY <1>0, <1>7, <3>2 DEF SessionListed, Parts, ConnTypeOK
      <3> QED BY <3>1, <3>2
    <2>4. RedisTypeOK'
      BY <1>0, <1>7, <2>1 DEF SessionListed, Parts, RedisTypeOK
    <2> QED BY <1>0, <1>7, <2>2, <2>3, <2>4 DEF SessionListed, Parts, DiscTypeOK, PongTypeOK,
               QueryTypeOK
  <1>8. CASE RoomsJoined(c, k)
    <2>1. auth[c][k].pc = "rooms" /\ auth[c][k].session \in Sessions
      BY <1>0, <1>8 DEF RoomsJoined, Parts, AuthTypeOK
    <2>2. AuthTypeOK'
      BY <1>0, <1>8, <2>1, AuthTypeMoves DEF RoomsJoined, Parts, AuthPc
    <2>3. ConnTypeOK'
      BY <1>0, <1>8, <1>n, <2>1 DEF RoomsJoined, LocalRooms, Parts, ConnTypeOK
    <2> QED BY <1>0, <1>8, <2>2, <2>3 DEF RoomsJoined, redisVars, Parts, RedisTypeOK,
               DiscTypeOK, PongTypeOK, QueryTypeOK
  <1>9. CASE AuthFails(c, k)
    <2>1. AuthTypeOK'
      BY <1>0, <1>9, AuthTypeMoves DEF AuthFails, Parts, AuthPc
    <2>2. ConnTypeOK'
      BY <1>0, <1>9 DEF AuthFails, Parts, ConnTypeOK
    <2> QED BY <1>0, <1>9, <2>1, <2>2 DEF AuthFails, redisVars, Parts, RedisTypeOK,
               DiscTypeOK, PongTypeOK, QueryTypeOK
  <1> QED BY <1>1, <1>2, <1>3, <1>5, <1>6, <1>7, <1>8, <1>9 DEF AuthStep

\* A connection is accepted, closes and is disconnected.
LEMMA DisconnectCallsHold ==
  ASSUME CallsInv, NEW c \in Sockets,
         HandleConnection(c) \/ SocketCloses(c) \/ DisconnectStep(c)
  PROVE  CallsInv'
  <1> SUFFICES Parts'
    BY PartsOfInvNext
  <1>0. Parts
    BY PartsOfInv
  <1>n. NodeOf[c] \in Nodes
    BY PlacementAssumption
  <1>1. CASE HandleConnection(c) \/ SocketCloses(c)
    BY <1>0, <1>1 DEF HandleConnection, SocketCloses, redisVars, Parts, ConnTypeOK, RedisTypeOK,
       AuthTypeOK, DiscTypeOK, PongTypeOK, QueryTypeOK
  <1>2. CASE HandleDisconnect(c)
    <2>1. sock' \in [Sockets -> {"new", "open", "closing", "gone"}]
      BY <1>0, <1>2 DEF HandleDisconnect, Parts, ConnTypeOK
    <2>2. bound' \in [Sockets -> Sessions \cup {None}]
      BY <1>0, <1>2 DEF HandleDisconnect, Parts, ConnTypeOK
    <2>3. session_clients' \in [Nodes -> [Sessions -> SUBSET Sockets]]
      <3>1. CASE bound[c] = None
        BY <1>0, <1>2, <3>1 DEF HandleDisconnect, Parts, ConnTypeOK
      <3>2. CASE bound[c] # None
        <4>1. bound[c] \in Sessions
          BY <1>0, <3>2 DEF Parts, ConnTypeOK
        <4> QED BY <1>0, <1>2, <1>n, <3>2, <4>1 DEF HandleDisconnect, Parts, ConnTypeOK
      <3> QED BY <3>1, <3>2
    <2>4. in_room' \in [Nodes -> SUBSET Sessions]
      BY <1>0, <1>2 DEF HandleDisconnect, Parts, ConnTypeOK
    <2>5. DiscTypeOK'
      <3>1. CASE disc' = disc
        BY <1>0, <3>1 DEF Parts, DiscTypeOK
      <3>2. CASE bound[c] # None /\ disc' = [disc EXCEPT ![c] =
                   [pc |-> "read", session |-> bound[c], read |-> None]]
        <4>1. PICK call : call = [pc |-> "read", session |-> bound[c], read |-> None]
          OBVIOUS
        <4>2. bound[c] \in Sessions
          BY <1>0, <3>2 DEF Parts, ConnTypeOK
        <4>3. call \in DiscCall /\ call.pc = "read" /\ call.session = bound[c]
          BY <4>1, <4>2 DEF DiscCall
        <4> QED BY <1>0, <3>2, <4>1, <4>2, <4>3, DiscTypeMoves DEF Parts
      <3> QED BY <1>2, <3>1, <3>2 DEF HandleDisconnect
    <2> QED BY <1>0, <1>2, <2>1, <2>2, <2>3, <2>4, <2>5 DEF HandleDisconnect, redisVars, Parts,
               ConnTypeOK, RedisTypeOK, AuthTypeOK, PongTypeOK, QueryTypeOK
  <1>3. CASE DisconnectReads(c)
    <2>1. disc[c] \in DiscCall /\ disc[c].session \in Sessions
      BY <1>0, <1>3 DEF DisconnectReads, Parts, DiscTypeOK
    <2>2. PICK r : r = record[disc[c].session]
      OBVIOUS
    <2>3. r \in Record \cup {None}
      BY <1>0, <2>1, <2>2 DEF Parts, RedisTypeOK
    <2>4. DiscTypeOK'
      <3>1. CASE disc' = [disc EXCEPT ![c] = DiscIdle]
        BY <1>0, <3>1, IdleCalls, DiscTypeMoves DEF Parts
      <3>2. CASE r # None /\ disc' = [disc EXCEPT ![c] = [@ EXCEPT !.pc = "write", !.read = r]]
        <4>1. PICK call : call = [disc[c] EXCEPT !.pc = "write", !.read = r]
          OBVIOUS
        <4>2. /\ call \in DiscCall
              /\ call.session = disc[c].session /\ call.read = r
          BY <2>1, <2>3, <4>1 DEF DiscCall
        <4>3. disc' = [disc EXCEPT ![c] = call]
          BY <3>2, <4>1
        <4> QED BY <1>0, <2>1, <2>3, <3>2, <4>2, <4>3, DiscTypeMoves DEF Parts
      <3> QED BY <1>3, <2>2, <3>1, <3>2 DEF DisconnectReads
    <2> QED BY <1>0, <1>3, <2>4 DEF DisconnectReads, connVars, redisVars, Parts, ConnTypeOK,
               RedisTypeOK, AuthTypeOK, PongTypeOK, QueryTypeOK
  <1>4. CASE DisconnectWrites(c)
    <2>1. disc[c] \in DiscCall /\ disc[c].session \in Sessions /\ disc[c].read \in Record
      BY <1>0, <1>4 DEF DisconnectWrites, Parts, DiscTypeOK
    <2>2. PICK r : r = [disc[c].read EXCEPT !.status = "disconnected"]
      OBVIOUS
    <2>3. r \in Record
      BY <2>1, <2>2 DEF Record
    <2>4. RedisTypeOK'
      BY <1>0, <1>4, <2>1, <2>2, <2>3, PersistKeeps DEF DisconnectWrites, Parts, RedisTypeOK
    <2>5. PICK call : call = [disc[c] EXCEPT !.pc = "unlist"]
      OBVIOUS
    <2>6. call \in DiscCall /\ call.session = disc[c].session /\ call.read = disc[c].read
      BY <2>1, <2>5 DEF DiscCall
    <2>7. disc' = [disc EXCEPT ![c] = call]
      BY <1>4, <2>5 DEF DisconnectWrites
    <2>8. DiscTypeOK'
      BY <1>0, <2>1, <2>6, <2>7, DiscTypeMoves DEF Parts
    <2> QED BY <1>0, <1>4, <2>4, <2>8 DEF DisconnectWrites, connVars, Parts, ConnTypeOK,
               AuthTypeOK, PongTypeOK, QueryTypeOK
  <1>5. CASE DisconnectUnlists(c)
    <2>1. DiscTypeOK'
      BY <1>0, <1>5, IdleCalls, DiscTypeMoves DEF DisconnectUnlists, Parts
    <2>2. RedisTypeOK'
      BY <1>0, <1>5 DEF DisconnectUnlists, Parts, RedisTypeOK
    <2> QED BY <1>0, <1>5, <2>1, <2>2 DEF DisconnectUnlists, connVars, Parts, ConnTypeOK,
               AuthTypeOK, PongTypeOK, QueryTypeOK
  <1> QED BY <1>1, <1>2, <1>3, <1>4, <1>5 DEF DisconnectStep

\* Pongs.
LEMMA PongCallsHold ==
  ASSUME CallsInv, NEW c \in Sockets, PongStep(c)
  PROVE  CallsInv'
  <1> SUFFICES Parts'
    BY PartsOfInvNext
  <1>0. Parts
    BY PartsOfInv
  <1>1. CASE PongReads(c)
    <2>1. PICK r : r = record[bound[c]]
      OBVIOUS
    <2>2. bound[c] \in Sessions /\ r \in Record
      BY <1>0, <1>1, <2>1 DEF PongReads, Parts, ConnTypeOK, RedisTypeOK
    <2>3. PICK call : call = [pc |-> "write", session |-> bound[c], read |-> r]
      OBVIOUS
    <2>4. call \in PongCall /\ call.session = bound[c] /\ call.read = r
      BY <2>2, <2>3 DEF PongCall
    <2>5. pong' = [pong EXCEPT ![c] = call]
      BY <1>1, <2>1, <2>3 DEF PongReads
    <2>6. PongTypeOK'
      BY <1>0, <2>2, <2>4, <2>5, PongTypeMoves DEF Parts
    <2> QED BY <1>0, <1>1, <2>6 DEF PongReads, connVars, redisVars, Parts, ConnTypeOK,
               RedisTypeOK, AuthTypeOK, DiscTypeOK, QueryTypeOK
  <1>2. CASE PongWrites(c)
    <2>1. pong[c] \in PongCall /\ pong[c].session \in Sessions /\ pong[c].read \in Record
      BY <1>0, <1>2 DEF PongWrites, Parts, PongTypeOK
    <2>2. RedisTypeOK'
      BY <1>0, <1>2, <2>1, PersistKeeps DEF PongWrites, Parts, RedisTypeOK
    <2>3. PongTypeOK'
      <3>1. CASE pong' = [pong EXCEPT ![c] = PongIdle]
        BY <1>0, <3>1, IdleCalls, PongTypeMoves DEF Parts
      <3>2. CASE pong' = [pong EXCEPT ![c] = [@ EXCEPT !.pc = "list"]]
        <4>1. PICK call : call = [pong[c] EXCEPT !.pc = "list"]
          OBVIOUS
        <4>2. call \in PongCall /\ call.session = pong[c].session /\ call.read = pong[c].read
          BY <2>1, <4>1 DEF PongCall
        <4>3. pong' = [pong EXCEPT ![c] = call]
          BY <3>2, <4>1
        <4> QED BY <1>0, <2>1, <4>2, <4>3, PongTypeMoves DEF Parts
      <3> QED BY <1>2, <3>1, <3>2 DEF PongWrites
    <2> QED BY <1>0, <1>2, <2>2, <2>3 DEF PongWrites, connVars, Parts, ConnTypeOK, AuthTypeOK,
               DiscTypeOK, QueryTypeOK
  <1>3. CASE PongLists(c)
    <2>1. pong[c].session \in Sessions
      BY <1>0, <1>3 DEF PongLists, Parts, PongTypeOK
    <2>2. PongTypeOK'
      BY <1>0, <1>3, IdleCalls, PongTypeMoves DEF PongLists, Parts
    <2>3. RedisTypeOK'
      BY <1>0, <1>3, <2>1 DEF PongLists, Parts, RedisTypeOK
    <2> QED BY <1>0, <1>3, <2>2, <2>3 DEF PongLists, connVars, Parts, ConnTypeOK, AuthTypeOK,
               DiscTypeOK, QueryTypeOK
  <1> QED BY <1>1, <1>2, <1>3 DEF PongStep

\* Presence queries.
LEMMA QueryCallsHold ==
  ASSUME CallsInv, NEW n \in Nodes, QueryStep(n) \/ \E u \in Users : QueryMembers(n, u)
  PROVE  CallsInv'
  <1> SUFFICES Parts'
    BY PartsOfInvNext
  <1>0. Parts
    BY PartsOfInv
  <1>1. ASSUME NEW u \in Users, QueryMembers(n, u)
        PROVE  Parts'
    <2>1. PICK call : call = [pc |-> "read", user |-> u, ids |-> user_sessions[u]]
      OBVIOUS
    <2>2. call \in QueryCall /\ call.user = u
      BY <1>0, <2>1 DEF QueryCall, Parts, RedisTypeOK
    <2>3. QueryTypeOK'
      BY <1>0, <1>1, <2>1, <2>2, QueryTypeMoves DEF QueryMembers, Parts
    <2> QED BY <1>0, <1>1, <2>3 DEF QueryMembers, connVars, redisVars, Parts, ConnTypeOK,
               RedisTypeOK, AuthTypeOK, DiscTypeOK, PongTypeOK
  <1>2. CASE QueryReads(n)
    <2>1. query[n] \in QueryCall /\ query[n].user \in Users
      BY <1>0, <1>2 DEF QueryReads, Parts, QueryTypeOK
    <2>2. PICK stale : /\ stale \subseteq query[n].ids
                       /\ query' = [query EXCEPT ![n] = IF stale = {} THEN QueryIdle
                             ELSE [@ EXCEPT !.pc = "prune", !.ids = stale]]
      BY <1>2 DEF QueryReads
    <2>3. QueryTypeOK'
      <3>1. CASE stale = {}
        BY <1>0, <2>2, <3>1, IdleCalls, QueryTypeMoves DEF Parts
      <3>2. CASE stale # {}
        <4>1. PICK call : call = [query[n] EXCEPT !.pc = "prune", !.ids = stale]
          OBVIOUS
        <4>2. stale \in SUBSET Sessions
          BY <2>1, <2>2 DEF QueryCall
        <4>3. call \in QueryCall /\ call.user = query[n].user
          BY <2>1, <4>1, <4>2 DEF QueryCall
        <4>4. query' = [query EXCEPT ![n] = call]
          BY <2>2, <3>2, <4>1
        <4> QED BY <1>0, <2>1, <4>3, <4>4, QueryTypeMoves DEF Parts
      <3> QED BY <3>1, <3>2
    <2> QED BY <1>0, <1>2, <2>3 DEF QueryReads, connVars, redisVars, Parts, ConnTypeOK,
               RedisTypeOK, AuthTypeOK, DiscTypeOK, PongTypeOK
  <1>3. CASE QueryPrunes(n)
    <2>1. QueryTypeOK'
      BY <1>0, <1>3, IdleCalls, QueryTypeMoves DEF QueryPrunes, Parts
    <2>2. RedisTypeOK'
      BY <1>0, <1>3 DEF QueryPrunes, Parts, RedisTypeOK
    <2> QED BY <1>0, <1>3, <2>1, <2>2 DEF QueryPrunes, connVars, Parts, ConnTypeOK, AuthTypeOK,
               DiscTypeOK, PongTypeOK
  <1> QED BY <1>1, <1>2, <1>3 DEF QueryStep

\* Time passes and nodes die.
LEMMA WorldCallsHold ==
  ASSUME CallsInv,
         \/ \E s \in Sessions : WindowCloses(s) \/ RecordExpires(s)
         \/ \E n \in Nodes : Crash(n)
  PROVE  CallsInv'
  <1> SUFFICES Parts'
    BY PartsOfInvNext
  <1>0. Parts
    BY PartsOfInv
  <1>1. ASSUME NEW s \in Sessions, WindowCloses(s)
        PROVE  Parts'
    <2>1. PICK r : r = [record[s] EXCEPT !.fresh = FALSE]
      OBVIOUS
    <2>2. record[s] \in Record
      BY <1>0, <1>1 DEF WindowCloses, Parts, RedisTypeOK
    <2>3. r \in Record
      BY <2>1, <2>2 DEF Record
    <2>4. record' = [record EXCEPT ![s] = r]
      BY <1>1, <2>1 DEF WindowCloses
    <2>5. RedisTypeOK'
      BY <1>0, <1>1, <2>3, <2>4 DEF WindowCloses, Parts, RedisTypeOK
    <2> QED BY <1>0, <1>1, <2>5 DEF WindowCloses, connVars, Parts, ConnTypeOK, AuthTypeOK,
               DiscTypeOK, PongTypeOK, QueryTypeOK
  <1>2. ASSUME NEW s \in Sessions, RecordExpires(s)
        PROVE  Parts'
    BY <1>0, <1>2 DEF RecordExpires, connVars, Parts, ConnTypeOK, RedisTypeOK, AuthTypeOK,
       DiscTypeOK, PongTypeOK, QueryTypeOK
  <1>3. ASSUME NEW n \in Nodes, Crash(n)
        PROVE  Parts'
    <2>1. PICK hit : /\ sock' = [c \in Sockets |-> IF c \in hit THEN "gone" ELSE sock[c]]
                     /\ bound' = [c \in Sockets |-> IF c \in hit THEN None ELSE bound[c]]
                     /\ auth' = [c \in Sockets |-> IF c \in hit
                                   THEN [k \in Frames |-> AuthIdle] ELSE auth[c]]
                     /\ disc' = [c \in Sockets |-> IF c \in hit THEN DiscIdle ELSE disc[c]]
                     /\ pong' = [c \in Sockets |-> IF c \in hit THEN PongIdle ELSE pong[c]]
      BY <1>3 DEF Crash
    <2>2. ConnTypeOK'
      BY <1>0, <1>3, <2>1 DEF Crash, Parts, ConnTypeOK
    <2>3. AuthTypeOK'
      <3>1. auth' \in [Sockets -> [Frames -> AuthCall]]
        BY <1>0, <2>1, IdleCalls DEF Parts, AuthTypeOK
      <3>2. ASSUME NEW c \in Sockets, NEW k \in Frames
            PROVE  auth'[c][k] = AuthIdle \/ auth'[c][k] = auth[c][k]
        BY <2>1
      <3> QED BY <1>0, <3>1, <3>2, IdleCalls DEF Parts, AuthTypeOK
    <2>4. DiscTypeOK'
      BY <1>0, <2>1, IdleCalls DEF Parts, DiscTypeOK
    <2>5. PongTypeOK'
      BY <1>0, <2>1, IdleCalls DEF Parts, PongTypeOK
    <2>6. QueryTypeOK'
      BY <1>0, <1>3, IdleCalls, QueryTypeMoves DEF Crash, Parts
    <2>7. crashes' \in 0..MaxCrashes
      BY <1>0, <1>3, CrashesAssumption DEF Crash, Parts
    <2> QED BY <1>0, <1>3, <2>2, <2>3, <2>4, <2>5, <2>6, <2>7 DEF Crash, redisVars, Parts,
               RedisTypeOK
  <1> QED BY <1>1, <1>2, <1>3

LEMMA CallsStep == CallsInv /\ [Next]_vars => CallsInv'
  <1> SUFFICES ASSUME CallsInv, [Next]_vars PROVE CallsInv'
    OBVIOUS
  <1>1. ASSUME NEW c \in Sockets,
               HandleConnection(c) \/ SocketCloses(c) \/ DisconnectStep(c) \/ PongStep(c)
        PROVE  CallsInv'
    BY <1>1, DisconnectCallsHold, PongCallsHold
  <1>2. ASSUME NEW c \in Sockets, NEW k \in Frames,
               \/ AuthStep(c, k) \/ AuthFails(c, k)
               \/ \E u \in Users, last \in Sessions \cup {None} : AuthConnect(c, k, u, last)
        PROVE  CallsInv'
    BY <1>2, AuthCallsHold
  <1>3. ASSUME NEW n \in Nodes, QueryStep(n) \/ \E u \in Users : QueryMembers(n, u)
        PROVE  CallsInv'
    BY <1>3, QueryCallsHold
  <1>4. CASE \/ \E s \in Sessions : WindowCloses(s) \/ RecordExpires(s)
             \/ \E n \in Nodes : Crash(n)
    BY <1>4, WorldCallsHold
  <1>5. CASE UNCHANGED vars
    BY <1>5 DEF vars, CallsInv, TypeOK, CallsHold
  <1> QED BY <1>1, <1>2, <1>3, <1>4, <1>5 DEF Next

\* Every variable keeps its type, and a handler between two awaits still has what its
\* next step reads: the session it is about, the record it is to write back.
THEOREM SessionTypeCorrect == Spec => []CallsInv
  BY CallsInit, CallsStep, PTL DEF Spec

-----------------------------------------------------------------------------
(* The room index follows the sockets.                                     *)

\* no frame arrives before its connection
NewIsIdle ==
  \A c \in Sockets, k \in Frames : sock[c] = "new" => auth[c][k].pc = "idle"

\* a registered socket that was authenticated by a frame stays a client of the frame's session
JoiningIsClient ==
  \A c \in Sockets, k \in Frames :
    auth[c][k].pc \in {"rooms", "done"} /\ IsRegistered(c)
      => c \in session_clients[NodeOf[c]][auth[c][k].session]

\* and once the frame's handler is through, the session is in its room
JoinedIsIndexed ==
  \A c \in Sockets, k \in Frames :
    auth[c][k].pc = "done" /\ IsRegistered(c) => auth[c][k].session \in in_room[NodeOf[c]]

IndexInv == NewIsIdle /\ RoomsHaveClients /\ JoiningIsClient /\ JoinedIsIndexed

LEMMA IndexInit == Init => IndexInv
  BY IdleCalls DEF Init, IndexInv, NewIsIdle, RoomsHaveClients, JoiningIsClient, JoinedIsIndexed,
     IsRegistered

\* Sockets may close and one call may move, short of binding its socket.
LEMMA IndexCallMoves ==
  ASSUME IndexInv, NEW c \in Sockets, NEW k \in Frames,
         UNCHANGED <<session_clients, in_room>>,
         \A d \in Sockets : /\ sock'[d] = "new" => sock[d] = "new"
                            /\ IsRegistered(d)' => IsRegistered(d),
         sock'[c] # "new",
         \A d \in Sockets, j \in Frames : ~(d = c /\ j = k) => auth'[d][j] = auth[d][j],
         auth'[c][k].pc \notin {"rooms", "done"}
  PROVE  IndexInv'
  <1>1. NewIsIdle'
    BY DEF IndexInv, NewIsIdle
  <1>2. RoomsHaveClients'
    BY DEF IndexInv, RoomsHaveClients, HasLocalSession
  <1>3. ASSUME NEW d \in Sockets, NEW j \in Frames, IsRegistered(d)',
               auth'[d][j].pc \in {"rooms", "done"}
        PROVE  /\ auth'[d][j] = auth[d][j]
               /\ IsRegistered(d)
               /\ d \in session_clients[NodeOf[d]][auth[d][j].session]
               /\ auth[d][j].pc = "done" => auth[d][j].session \in in_room[NodeOf[d]]
    <2>1. auth'[d][j] = auth[d][j] /\ IsRegistered(d)
      BY <1>3
    <2> QED BY <1>3, <2>1 DEF IndexInv, JoiningIsClient, JoinedIsIndexed
  <1>4. JoiningIsClient'
    BY <1>3 DEF JoiningIsClient
  <1>5. JoinedIsIndexed'
    BY <1>3 DEF JoinedIsIndexed
  <1> QED BY <1>1, <1>2, <1>4, <1>5 DEF IndexInv

\* An auth.connect begins: its call is the only one that changes.
LEMMA AuthBegins ==
  ASSUME AuthTypeOK, NEW c \in Sockets, NEW k \in Frames, NEW u \in Users,
         NEW last \in Sessions \cup {None}, AuthConnect(c, k, u, last)
  PROVE  /\ auth' \in [Sockets -> [Frames -> AuthCall]]
         /\ \A d \in Sockets, j \in Frames : ~(d = c /\ j = k) => auth'[d][j] = auth[d][j]
         /\ auth'[c][k].pc = "verify"
         /\ auth'[c][k].user = u
         /\ auth'[c][k].last = last
         /\ auth'[c][k].session = None
  <1>1. PICK call : call = [pc |-> "verify", user |-> u, last |-> last, session |-> None]
    OBVIOUS
  <1>2. /\ call \in AuthCall
        /\ call.pc = "verify" /\ call.user = u /\ call.last = last /\ call.session = None
    BY <1>1 DEF AuthCall, AuthPc
  <1>3. auth' = [auth EXCEPT ![c] = [auth[c] EXCEPT ![k] = call]]
    BY <1>1 DEF AuthConnect
  <1>4. /\ auth' \in [Sockets -> [Frames -> AuthCall]]
        /\ auth'[c][k] = call
        /\ \A d \in Sockets, j \in Frames : ~(d = c /\ j = k) => auth'[d][j] = auth[d][j]
    BY <1>2, <1>3, CellMoves DEF AuthTypeOK
  <1> QED BY <1>2, <1>4

LEMMA IndexAuthSteps ==
  ASSUME CallsInv, IndexInv, NEW c \in Sockets, NEW k \in Frames,
         \/ AuthStep(c, k)
         \/ AuthFails(c, k)
         \/ \E u \in Users, last \in Sessions \cup {None} : AuthConnect(c, k, u, last)
  PROVE  IndexInv'
  <1>0. ConnTypeOK /\ AuthTypeOK
    BY PartsOfInv DEF Parts
  <1>n. NodeOf[c] \in Nodes
    BY PlacementAssumption
  <1>c. auth[c][k].pc # "idle" => sock[c] # "new"
    BY DEF IndexInv, NewIsIdle
  <1>1. ASSUME NEW u \in Users, NEW last \in Sessions \cup {None}, AuthConnect(c, k, u, last)
        PROVE  IndexInv'
    <2>1. sock[c] # "new" /\ UNCHANGED connVars
      BY <1>1 DEF AuthConnect
    <2>2. auth'[c][k].pc = "verify" /\
          \A d \in Sockets, j \in Frames : ~(d = c /\ j = k) => auth'[d][j] = auth[d][j]
      BY <1>0, <1>1, AuthBegins
    <2> QED BY <2>1, <2>2, IndexCallMoves DEF connVars, IsRegistered
  <1>2. CASE ChallengeConsumed(c, k)
    <2>1. PICK pc \in {"create", "lookup"} : AuthGoesTo(c, k, pc)
      BY <1>2 DEF ChallengeConsumed
    <2>2. auth'[c][k].pc = pc /\
          \A d \in Sockets, j \in Frames : ~(d = c /\ j = k) => auth'[d][j] = auth[d][j]
      <3>1. pc \in AuthPc
        BY <2>1 DEF AuthPc
      <3> QED BY <1>0, <2>1, <3>1, AuthMoves DEF AuthTypeOK
    <2>3. PICK old : sock' = [d \in Sockets |->
                       IF d \in old /\ sock[d] = "open" THEN "closing" ELSE sock[d]]
      BY <1>2 DEF ChallengeConsumed
    <2>4. \A d \in Sockets : /\ sock'[d] = "new" => sock[d] = "new"
                             /\ IsRegistered(d)' => IsRegistered(d)
      BY <2>3 DEF IsRegistered
    <2>5. sock'[c] # "new"
      BY <1>2, <1>c, <2>3 DEF ChallengeConsumed
    <2> QED BY <1>2, <2>1, <2>2, <2>4, <2>5, IndexCallMoves DEF ChallengeConsumed
  <1>3. CASE SessionLookedUp(c, k)
    <2>1. PICK pc \in {"create", "restore"} : AuthGoesTo(c, k, pc)
      BY <1>3 DEF SessionLookedUp
    <2>2. auth'[c][k].pc = pc /\
          \A d \in Sockets, j \in Frames : ~(d = c /\ j = k) => auth'[d][j] = auth[d][j]
      <3>1. pc \in AuthPc
        BY <2>1 DEF AuthPc
      <3> QED BY <1>0, <2>1, <3>1, AuthMoves DEF AuthTypeOK
    <2>3. sock[c] # "new" /\ UNCHANGED connVars
      BY <1>3, <1>c DEF SessionLookedUp
    <2> QED BY <2>1, <2>2, <2>3, IndexCallMoves DEF connVars, IsRegistered
  <1>4. ASSUME NEW s \in Sessions, GivenSession(c, k, s), auth[c][k].pc # "idle",
               UNCHANGED connVars
        PROVE  IndexInv'
    <2>1. auth'[c][k].pc = "list" /\
          \A d \in Sockets, j \in Frames : ~(d = c /\ j = k) => auth'[d][j] = auth[d][j]
      BY <1>0, <1>4, AuthIsGiven DEF AuthTypeOK
    <2> QED BY <1>4, <1>c, <2>1, IndexCallMoves DEF connVars, IsRegistered
  <1>5. CASE SessionRestored(c, k)
    <2>1. auth[c][k].pc = "restore" /\ auth[c][k].last \in Sessions
      BY <1>0, <1>5 DEF SessionRestored, AuthTypeOK
    <2> QED BY <1>4, <1>5, <2>1 DEF SessionRestored, GivenSession
  <1>6. CASE SessionCreated(c, k)
    BY <1>4, <1>6 DEF SessionCreated, GivenSession
  <1>7. CASE AuthFails(c, k)
    <2>1. auth'[c][k].pc = "failed" /\
          \A d \in Sockets, j \in Frames : ~(d = c /\ j = k) => auth'[d][j] = auth[d][j]
      <3>1. "failed" \in AuthPc
        BY DEF AuthPc
      <3> QED BY <1>0, <1>7, <3>1, AuthMoves DEF AuthTypeOK, AuthFails
    <2>2. \A d \in Sockets : /\ sock'[d] = "new" => sock[d] = "new"
                             /\ IsRegistered(d)' => IsRegistered(d)
      BY <1>0, <1>7 DEF AuthFails, IsRegistered, ConnTypeOK
    <2>3. sock'[c] # "new"
      BY <1>0, <1>7, <1>c, <2>2 DEF AuthFails
    <2> QED BY <1>7, <2>1, <2>2, <2>3, IndexCallMoves DEF AuthFails
  <1>8. CASE SessionListed(c, k)
    <2>1. PICK s \in Sessions : s = auth[c][k].session
      BY <1>0, <1>8 DEF SessionListed, AuthTypeOK
    <2>2. /\ auth'[c][k].pc = "rooms" /\ auth'[c][k].session = s
          /\ \A d \in Sockets, j \in Frames : ~(d = c /\ j = k) => auth'[d][j] = auth[d][j]
      <3>1. "rooms" \in AuthPc
        BY DEF AuthPc
      <3> QED BY <1>0, <1>8, <2>1, <3>1, AuthMoves DEF AuthTypeOK, SessionListed
    <2>3. UNCHANGED <<sock, in_room>> /\ sock[c] # "new"
      BY <1>8, <1>c DEF SessionListed
    <2>4. /\ \A n \in Nodes, t \in Sessions : session_clients[n][t] \subseteq session_clients'[n][t]
          /\ IsRegistered(c) => c \in session_clients'[NodeOf[c]][s]
      <3>1. CASE IsRegistered(c)
        <4>1. PICK cs : cs = session_clients[NodeOf[c]][s] \cup {c}
          OBVIOUS
        <4>2. cs \in SUBSET Sockets
          BY <1>0, <1>n, <2>1, <4>1 DEF ConnTypeOK
        <4>3. session_clients' = [session_clients EXCEPT ![NodeOf[c]] =
                [session_clients[NodeOf[c]] EXCEPT ![s] = cs]]
          BY <1>8, <2>1, <3>1, <4>1 DEF SessionListed
        <4> QED BY <1>0, <1>n, <2>1, <4>1, <4>2, <4>3, CellMoves DEF ConnTypeOK
      <3>2. CASE ~IsRegistered(c)
        BY <1>8, <3>2 DEF SessionListed
      <3> QED BY <3>1, <3>2
    <2>5. NewIsIdle'
      BY <2>2, <2>3 DEF IndexInv, NewIsIdle
    <2>6. RoomsHaveClients'
      <3>1. ASSUME NEW n \in Nodes, NEW t \in in_room'[n]
            PROVE  session_clients'[n][t] # {}
        BY <1>0, <2>3, <2>4, <3>1 DEF IndexInv, RoomsHaveClients, HasLocalSession, ConnTypeOK
      <3> QED BY <3>1 DEF RoomsHaveClients, HasLocalSession
    <2>7. ASSUME NEW d \in Sockets, NEW j \in Frames, auth'[d][j].pc \in {"rooms", "done"},
                 IsRegistered(d)'
          PROVE  /\ d \in session_clients'[NodeOf[d]][auth'[d][j].session]
                 /\ auth'[d][j].pc = "done" => auth'[d][j].session \in in_room'[NodeOf[d]]
      <3>1. IsRegistered(d)
        BY <2>3, <2>7 DEF IsRegistered
      <3>2. CASE d = c /\ j = k
        BY <2>2, <2>4, <3>1, <3>2
      <3>3. CASE ~(d = c /\ j = k)
        <4>1. /\ auth'[d][j] = auth[d][j]
              /\ d \in session_clients[NodeOf[d]][auth[d][j].session]
              /\ auth[d][j].pc = "done" => auth[d][j].session \in in_room[NodeOf[d]]
          BY <2>2, <2>7, <3>1, <3>3 DEF IndexInv, JoiningIsClient, JoinedIsIndexed
        <4>2. NodeOf[d] \in Nodes /\ auth[d][j].session \in Sessions
          BY <1>0, <2>7, <4>1, PlacementAssumption DEF AuthTypeOK
        <4> QED BY <2>3, <2>4, <4>1, <4>2
      <3> QED BY <3>2, <3>3
    <2> QED BY <2>5, <2>6, <2>7 DEF IndexInv, JoiningIsClient, JoinedIsIndexed
  <1>9. CASE RoomsJoined(c, k)
    <2>1. PICK s \in Sessions : s = auth[c][k].session
      BY <1>0, <1>9 DEF RoomsJoined, AuthTypeOK
    <2>2. /\ auth'[c][k].pc = "done" /\ auth'[c][k].session = s
          /\ \A d \in Sockets, j \in Frames : ~(d = c /\ j = k) => auth'[d][j] = auth[d][j]
      <3>1. "done" \in AuthPc
        BY DEF AuthPc
      <3> QED BY <1>0, <1>9, <2>1, <3>1, AuthMoves DEF AuthTypeOK, RoomsJoined
    <2>3. UNCHANGED <<sock, session_clients>> /\ sock[c] # "new"
      BY <1>9, <1>c DEF RoomsJoined
    <2>4. /\ \A n \in Nodes, t \in Sessions :
               (session_clients[n][t] # {} /\ t \in in_room[n]) => t \in in_room'[n]
          /\ session_clients[NodeOf[c]][s] # {} => s \in in_room'[NodeOf[c]]
          /\ \A n \in Nodes : \A t \in in_room'[n] :
               t \in in_room[n] \/ session_clients[n][t] # {}
      BY <1>0, <1>n, <1>9, <2>1 DEF RoomsJoined, LocalRooms, HasLocalSession, ConnTypeOK
    <2>5. NewIsIdle'
      BY <2>2, <2>3 DEF IndexInv, NewIsIdle
    <2>6. RoomsHaveClients'
      BY <2>3, <2>4 DEF IndexInv, RoomsHaveClients, HasLocalSession
    <2>7. ASSUME NEW d \in Sockets, NEW j \in Frames, auth'[d][j].pc \in {"rooms", "done"},
                 IsRegistered(d)'
          PROVE  /\ d \in session_clients'[NodeOf[d]][auth'[d][j].session]
                 /\ auth'[d][j].pc = "done" => auth'[d][j].session \in in_room'[NodeOf[d]]
      <3>1. IsRegistered(d)
        BY <2>3, <2>7 DEF IsRegistered
      <3>2. CASE d = c /\ j = k
        <4>1. c \in session_clients[NodeOf[c]][s]
          BY <1>9, <2>1, <3>1, <3>2 DEF RoomsJoined, IndexInv, JoiningIsClient
        <4> QED BY <2>2, <2>3, <2>4, <3>2, <4>1
      <3>3. CASE ~(d = c /\ j = k)
        <4>1. /\ auth'[d][j] = auth[d][j]
              /\ d \in session_clients[NodeOf[d]][auth[d][j].session]
              /\ auth[d][j].pc = "done" => auth[d][j].session \in in_room[NodeOf[d]]
          BY <2>2, <2>7, <3>1, <3>3 DEF IndexInv, JoiningIsClient, JoinedIsIndexed
        <4>2. NodeOf[d] \in Nodes /\ auth[d][j].session \in Sessions
          BY <1>0, <2>7, <4>1, PlacementAssumption DEF AuthTypeOK
        <4> QED BY <2>3, <2>4, <4>1, <4>2
      <3> QED BY <3>2, <3>3
    <2> QED BY <2>5, <2>6, <2>7 DEF IndexInv, JoiningIsClient, JoinedIsIndexed
  <1> QED BY <1>1, <1>2, <1>3, <1>5, <1>6, <1>7, <1>8, <1>9 DEF AuthStep

\* What handleDisconnect of socket c does to the registrations and to the index.
LEMMA Unregisters ==
  ASSUME ConnTypeOK, NEW c \in Sockets, HandleDisconnect(c)
  PROVE  /\ sock' = [sock EXCEPT ![c] = "gone"]
         /\ bound' = [bound EXCEPT ![c] = None]
         /\ auth' = auth
         /\ \A n \in Nodes, s \in Sessions :
              session_clients'[n][s] = IF n = NodeOf[c] /\ s = bound[c]
                                       THEN session_clients[n][s] \ {c}
                                       ELSE session_clients[n][s]
         /\ \A n \in Nodes, s \in Sessions :
              s \in in_room'[n] <=>
                /\ s \in in_room[n]
                /\ ~(n = NodeOf[c] /\ s = bound[c] /\ session_clients[n][s] = {c})
  <1>n. NodeOf[c] \in Nodes
    BY PlacementAssumption
  <1>1. sock' = [sock EXCEPT ![c] = "gone"] /\ bound' = [bound EXCEPT ![c] = None] /\ auth' = auth
    BY DEF HandleDisconnect
  <1>2. CASE bound[c] = None
    <2>1. \A s \in Sessions : s # bound[c]
      BY <1>2, NoneAssumption
    <2> QED BY <1>1, <1>2, <2>1 DEF HandleDisconnect
  <1>3. CASE bound[c] # None
    <2>1. bound[c] \in Sessions
      BY <1>3 DEF ConnTypeOK
    <2>2. PICK cs : cs = session_clients[NodeOf[c]][bound[c]] \ {c}
      OBVIOUS
    <2>3. cs \in SUBSET Sockets
      BY <1>n, <2>1, <2>2 DEF ConnTypeOK
    <2>4. session_clients' = [session_clients EXCEPT ![NodeOf[c]] =
            [session_clients[NodeOf[c]] EXCEPT ![bound[c]] = cs]]
      BY <1>3, <2>2 DEF HandleDisconnect
    <2>5. \A n \in Nodes, s \in Sessions :
            session_clients'[n][s] = IF n = NodeOf[c] /\ s = bound[c]
                                     THEN session_clients[n][s] \ {c}
                                     ELSE session_clients[n][s]
      BY <1>n, <2>1, <2>2, <2>3, <2>4, CellMoves DEF ConnTypeOK
    <2>6. CASE IsLastSocket(c)
      <3>1. in_room' = [in_room EXCEPT ![NodeOf[c]] = @ \ {bound[c]}]
        BY <1>3, <2>6 DEF HandleDisconnect
      <3>2. session_clients[NodeOf[c]][bound[c]] = {c}
        BY <2>6 DEF IsLastSocket
      <3> QED BY <1>1, <1>n, <2>1, <2>5, <3>1, <3>2 DEF ConnTypeOK
    <2>7. CASE ~IsLastSocket(c)
      <3>1. in_room' = in_room
        BY <2>7 DEF HandleDisconnect
      <3>2. session_clients[NodeOf[c]][bound[c]] # {c}
        BY <2>7 DEF IsLastSocket
      <3> QED BY <1>1, <2>5, <3>1, <3>2
    <2> QED BY <2>6, <2>7
  <1> QED BY <1>2, <1>3

LEMMA IndexDisconnects ==
  ASSUME CallsInv, IndexInv, NEW c \in Sockets, HandleDisconnect(c)
  PROVE  IndexInv'
  <1>0. ConnTypeOK /\ AuthTypeOK
    BY PartsOfInv DEF Parts
  <1>1. /\ sock' = [sock EXCEPT ![c] = "gone"]
        /\ auth' = auth
        /\ \A n \in Nodes, s \in Sessions :
              session_clients'[n][s] = IF n = NodeOf[c] /\ s = bound[c]
                                       THEN session_clients[n][s] \ {c}
                                       ELSE session_clients[n][s]
        /\ \A n \in Nodes, s \in Sessions :
              s \in in_room'[n] <=>
                /\ s \in in_room[n]
                /\ ~(n = NodeOf[c] /\ s = bound[c] /\ session_clients[n][s] = {c})
    BY <1>0, Unregisters
  <1>t. ConnTypeOK'
    BY DisconnectCallsHold, PartsOfInvNext DEF DisconnectStep, Parts
  <1>2. NewIsIdle'
    BY <1>0, <1>1 DEF IndexInv, NewIsIdle, ConnTypeOK
  <1>3. RoomsHaveClients'
    <2> SUFFICES ASSUME NEW n \in Nodes, NEW s \in in_room'[n]
                 PROVE  session_clients'[n][s] # {}
      BY DEF RoomsHaveClients, HasLocalSession
    <2>1. s \in Sessions
      BY <1>t DEF ConnTypeOK
    <2>2. s \in in_room[n] /\ session_clients[n][s] # {}
      BY <1>1, <2>1 DEF IndexInv, RoomsHaveClients, HasLocalSession
    <2>3. CASE n = NodeOf[c] /\ s = bound[c]
      <3>1. session_clients[n][s] # {c}
        BY <1>1, <2>1, <2>3
      <3>2. \E d \in session_clients[n][s] : d # c
        BY <2>2, <3>1
      <3>3. session_clients'[n][s] = session_clients[n][s] \ {c}
        BY <1>1, <2>1, <2>3
      <3> QED BY <3>2, <3>3
    <2>4. CASE ~(n = NodeOf[c] /\ s = bound[c])
      BY <1>1, <2>1, <2>2, <2>4
    <2> QED BY <2>3, <2>4
  <1>4. ASSUME NEW d \in Sockets, NEW j \in Frames, auth'[d][j].pc \in {"rooms", "done"},
               IsRegistered(d)'
        PROVE  /\ d \in session_clients'[NodeOf[d]][auth'[d][j].session]
               /\ auth'[d][j].pc = "done" => auth'[d][j].session \in in_room'[NodeOf[d]]
    <2>1. d # c /\ IsRegistered(d) /\ auth'[d][j] = auth[d][j]
      BY <1>0, <1>1, <1>4 DEF IsRegistered, ConnTypeOK
    <2>2. NodeOf[d] \in Nodes /\ auth[d][j].session \in Sessions
      BY <1>0, <1>4, <2>1, PlacementAssumption DEF AuthTypeOK
    <2>3. /\ d \in session_clients[NodeOf[d]][auth[d][j].session]
          /\ auth[d][j].pc = "done" => auth[d][j].session \in in_room[NodeOf[d]]
      BY <1>4, <2>1 DEF IndexInv, JoiningIsClient, JoinedIsIndexed
    <2>4. d \in session_clients'[NodeOf[d]][auth[d][j].session]
      BY <1>1, <2>1, <2>2, <2>3
    <2>5. session_clients[NodeOf[d]][auth[d][j].session] # {c}
      BY <2>1, <2>3
    <2>6. auth[d][j].pc = "done" => auth[d][j].session \in in_room'[NodeOf[d]]
      BY <1>1, <2>2, <2>3, <2>5
    <2> QED BY <2>1, <2>4, <2>6
  <1> QED BY <1>2, <1>3, <1>4 DEF IndexInv, JoiningIsClient, JoinedIsIndexed

\* What the death of node n does to sockets, and to what the node kept in memory.
LEMMA CrashLoses ==
  ASSUME ConnTypeOK, NEW n \in Nodes, Crash(n)
  PROVE  /\ \A c \in Sockets :
              IF NodeOf[c] = n /\ sock[c] # "new"
              THEN /\ sock'[c] = "gone" /\ bound'[c] = None
                   /\ auth'[c] = [k \in Frames |-> AuthIdle]
                   /\ disc'[c] = DiscIdle /\ pong'[c] = PongIdle
              ELSE /\ sock'[c] = sock[c] /\ bound'[c] = bound[c] /\ auth'[c] = auth[c]
                   /\ disc'[c] = disc[c] /\ pong'[c] = pong[c]
         /\ \A m \in Nodes :
              IF m = n
              THEN (\A s \in Sessions : session_clients'[m][s] = {}) /\ in_room'[m] = {}
              ELSE session_clients'[m] = session_clients[m] /\ in_room'[m] = in_room[m]
  <1>1. \A m \in Nodes :
          IF m = n
          THEN (\A s \in Sessions : session_clients'[m][s] = {}) /\ in_room'[m] = {}
          ELSE session_clients'[m] = session_clients[m] /\ in_room'[m] = in_room[m]
    BY DEF Crash, ConnTypeOK
  <1>2. PICK hit : /\ hit = {c \in Sockets : NodeOf[c] = n /\ sock[c] # "new"}
                   /\ sock' = [c \in Sockets |-> IF c \in hit THEN "gone" ELSE sock[c]]
                   /\ bound' = [c \in Sockets |-> IF c \in hit THEN None ELSE bound[c]]
                   /\ auth' = [c \in Sockets |-> IF c \in hit
                                 THEN [k \in Frames |-> AuthIdle] ELSE auth[c]]
                   /\ disc' = [c \in Sockets |-> IF c \in hit THEN DiscIdle ELSE disc[c]]
                   /\ pong' = [c \in Sockets |-> IF c \in hit THEN PongIdle ELSE pong[c]]
    BY DEF Crash
  <1> QED BY <1>1, <1>2

LEMMA IndexCrashes ==
  ASSUME CallsInv, IndexInv, NEW n \in Nodes, Crash(n)
  PROVE  IndexInv'
  <1>0. ConnTypeOK /\ AuthTypeOK
    BY PartsOfInv DEF Parts
  <1>1. \A c \in Sockets :
          IF NodeOf[c] = n /\ sock[c] # "new"
          THEN sock'[c] = "gone" /\ auth'[c] = [k \in Frames |-> AuthIdle]
          ELSE sock'[c] = sock[c] /\ auth'[c] = auth[c]
    BY <1>0, CrashLoses
  <1>2. \A m \in Nodes :
          IF m = n
          THEN (\A s \in Sessions : session_clients'[m][s] = {}) /\ in_room'[m] = {}
          ELSE session_clients'[m] = session_clients[m] /\ in_room'[m] = in_room[m]
    BY <1>0, CrashLoses
  <1>3. NewIsIdle'
    BY <1>1 DEF IndexInv, NewIsIdle
  <1>4. RoomsHaveClients'
    BY <1>2 DEF IndexInv, RoomsHaveClients, HasLocalSession
  <1>5. ASSUME NEW d \in Sockets, NEW j \in Frames, auth'[d][j].pc \in {"rooms", "done"},
               IsRegistered(d)'
        PROVE  /\ d \in session_clients'[NodeOf[d]][auth'[d][j].session]
               /\ auth'[d][j].pc = "done" => auth'[d][j].session \in in_room'[NodeOf[d]]
    <2>1. NodeOf[d] # n /\ sock'[d] = sock[d] /\ auth'[d] = auth[d]
      BY <1>1, <1>5 DEF IsRegistered
    <2>2. /\ d \in session_clients[NodeOf[d]][auth[d][j].session]
          /\ auth[d][j].pc = "done" => auth[d][j].session \in in_room[NodeOf[d]]
      BY <1>5, <2>1 DEF IndexInv, JoiningIsClient, JoinedIsIndexed, IsRegistered
    <2> QED BY <1>2, <2>1, <2>2, PlacementAssumption
  <1> QED BY <1>3, <1>4, <1>5 DEF IndexInv, JoiningIsClient, JoinedIsIndexed

\* The steps that touch neither sockets nor the calls of auth.connect.
LEMMA OthersKeepConnections ==
  ASSUME \/ UNCHANGED vars
         \/ \E c \in Sockets : \/ DisconnectReads(c) \/ DisconnectWrites(c)
                               \/ DisconnectUnlists(c) \/ PongStep(c)
         \/ \E n \in Nodes : QueryStep(n) \/ \E u \in Users : QueryMembers(n, u)
         \/ \E s \in Sessions : WindowCloses(s) \/ RecordExpires(s)
  PROVE  UNCHANGED <<sock, bound, session_clients, in_room, auth>>
  BY DEF vars, connVars, DisconnectReads, DisconnectWrites, DisconnectUnlists, PongStep,
     PongReads, PongWrites, PongLists, QueryStep, QueryReads, QueryPrunes, QueryMembers,
     WindowCloses, RecordExpires

LEMMA IndexStep == CallsInv /\ IndexInv /\ [Next]_vars => IndexInv'
  <1> SUFFICES ASSUME CallsInv, IndexInv, [Next]_vars PROVE IndexInv'
    OBVIOUS
  <1>1. ASSUME NEW c \in Sockets, HandleConnection(c) \/ SocketCloses(c)
        PROVE  IndexInv'
    <2>1. UNCHANGED <<session_clients, in_room, auth>>
      BY <1>1 DEF HandleConnection, SocketCloses
    <2>2. ASSUME NEW d \in Sockets
          PROVE  /\ sock'[d] = "new" => sock[d] = "new"
                 /\ IsRegistered(d)' => IsRegistered(d) \/ (d = c /\ sock[c] = "new")
      BY <1>1, PartsOfInv DEF HandleConnection, SocketCloses, IsRegistered, Parts, ConnTypeOK
    <2>3. \A j \in Frames : sock[c] = "new" => auth[c][j].pc = "idle"
      BY DEF IndexInv, NewIsIdle
    <2>4. NewIsIdle' /\ RoomsHaveClients'
      BY <2>1, <2>2 DEF IndexInv, NewIsIdle, RoomsHaveClients, HasLocalSession
    <2>5. ASSUME NEW d \in Sockets, NEW j \in Frames, auth'[d][j].pc \in {"rooms", "done"},
                 IsRegistered(d)'
          PROVE  /\ d \in session_clients'[NodeOf[d]][auth'[d][j].session]
                 /\ auth'[d][j].pc = "done" => auth'[d][j].session \in in_room'[NodeOf[d]]
      <3>1. IsRegistered(d)
        BY <2>1, <2>2, <2>3, <2>5
      <3> QED BY <2>1, <2>5, <3>1 DEF IndexInv, JoiningIsClient, JoinedIsIndexed
    <2> QED BY <2>4, <2>5 DEF IndexInv, JoiningIsClient, JoinedIsIndexed
  <1>2. ASSUME UNCHANGED <<sock, bound, session_clients, in_room, auth>>
        PROVE  IndexInv'
    BY <1>2 DEF IndexInv, NewIsIdle, RoomsHaveClients, JoiningIsClient, JoinedIsIndexed,
       HasLocalSession, IsRegistered
  <1>3. CASE \/ UNCHANGED vars
             \/ \E c \in Sockets : \/ DisconnectReads(c) \/ DisconnectWrites(c)
                                   \/ DisconnectUnlists(c) \/ PongStep(c)
             \/ \E n \in Nodes : QueryStep(n) \/ \E u \in Users : QueryMembers(n, u)
             \/ \E s \in Sessions : WindowCloses(s) \/ RecordExpires(s)
    BY <1>2, <1>3, OthersKeepConnections
  <1>4. CASE \E c \in Sockets : HandleDisconnect(c)
    BY <1>4, IndexDisconnects
  <1>5. CASE \E c \in Sockets, k \in Frames :
               \/ AuthStep(c, k) \/ AuthFails(c, k)
               \/ \E u \in Users, last \in Sessions \cup {None} : AuthConnect(c, k, u, last)
    BY <1>5, IndexAuthSteps
  <1>6. CASE \E n \in Nodes : Crash(n)
    BY <1>6, IndexCrashes
  <1> QED BY <1>1, <1>3, <1>4, <1>5, <1>6 DEF Next, DisconnectStep

\* The room index of a node follows its sockets, however many frames a socket carries:
\* a session that lost its last socket is out of its room, and one that has an open,
\* fully authenticated socket is in it, though older sockets of the session go and
\* sync_local_rooms of a slow handler runs late.
THEOREM IndexFollows == Spec => []IndexFollowsSockets
  <1>1. Init => CallsInv /\ IndexInv
    BY CallsInit, IndexInit
  <1>2. CallsInv /\ IndexInv /\ [Next]_vars => (CallsInv /\ IndexInv)'
    BY CallsStep, IndexStep
  <1>3. CallsInv /\ IndexInv => IndexFollowsSockets
    BY DEF IndexInv, JoinedIsIndexed, IndexFollowsSockets, ConnectedIsInRoom, IsRegistered
  <1> QED BY <1>1, <1>2, <1>3, PTL DEF Spec

-----------------------------------------------------------------------------
(* The clients of a session are live.                                      *)

\* a client that waits for system.connected, or is refused, before it authenticates
\* again: no second frame is under way on its socket
OneFrameAtMost == \A j, k \in Frames : j = k

\* while the socket's frame is being handled, the socket is in no session
AuthenticatesOnce ==
  \A c \in Sockets, k \in Frames :
    auth[c][k].pc \in {"verify", "lookup", "restore", "create", "list"} => bound[c] = None

LiveInv == ClientsAreLive /\ AuthenticatesOnce

LEMMA LiveInit == Init => LiveInv
  BY IdleCalls DEF Init, LiveInv, ClientsAreLive, AuthenticatesOnce

\* Calls move, short of binding a socket.
LEMMA LiveCallMoves ==
  ASSUME ConnTypeOK, LiveInv, UNCHANGED <<bound, session_clients>>,
         \A d \in Sockets : IsRegistered(d) => IsRegistered(d)',
         \A d \in Sockets, j \in Frames :
           auth'[d][j].pc \in {"verify", "lookup", "restore", "create", "list"} =>
             \/ auth[d][j].pc \in {"verify", "lookup", "restore", "create", "list"}
             \/ bound[d] = None
  PROVE  LiveInv'
  <1>1. ClientsAreLive'
    <2> SUFFICES ASSUME NEW n \in Nodes, NEW s \in Sessions, NEW d \in session_clients[n][s]
                 PROVE  IsRegistered(d)' /\ bound[d] = s /\ NodeOf[d] = n
      BY DEF ClientsAreLive, IsRegistered
    <2>1. d \in Sockets
      BY DEF ConnTypeOK
    <2>2. IsRegistered(d) /\ bound[d] = s /\ NodeOf[d] = n
      BY DEF LiveInv, ClientsAreLive, IsRegistered
    <2> QED BY <2>1, <2>2
  <1>2. AuthenticatesOnce'
    BY DEF LiveInv, AuthenticatesOnce
  <1> QED BY <1>1, <1>2 DEF LiveInv

LEMMA LiveAuthSteps ==
  ASSUME CallsInv, LiveInv, OneFrameAtMost, NEW c \in Sockets, NEW k \in Frames,
         \/ AuthStep(c, k)
         \/ AuthFails(c, k)
         \/ \E u \in Users, last \in Sessions \cup {None} : AuthConnect(c, k, u, last)
  PROVE  LiveInv'
  <1>0. ConnTypeOK /\ AuthTypeOK
    BY PartsOfInv DEF Parts
  <1>n. NodeOf[c] \in Nodes
    BY PlacementAssumption
  <1>1. ASSUME NEW u \in Users, NEW last \in Sessions \cup {None}, AuthConnect(c, k, u, last)
        PROVE  LiveInv'
    <2>1. bound[c] = None /\ UNCHANGED connVars
      BY <1>1 DEF AuthConnect
    <2>2. \A d \in Sockets, j \in Frames : ~(d = c /\ j = k) => auth'[d][j] = auth[d][j]
      BY <1>0, <1>1, AuthBegins
    <2> QED BY <1>0, <2>1, <2>2, LiveCallMoves DEF connVars, IsRegistered
  <1>2. ASSUME NEW pc \in AuthPc, AuthGoesTo(c, k, pc),
               auth[c][k].pc \in {"verify", "lookup", "restore", "create", "list"}
                 \/ pc \in {"done", "failed"},
               UNCHANGED <<bound, session_clients>>,
               \A d \in Sockets : IsRegistered(d) => IsRegistered(d)'
        PROVE  LiveInv'
    <2>1. auth'[c][k].pc = pc /\
          \A d \in Sockets, j \in Frames : ~(d = c /\ j = k) => auth'[d][j] = auth[d][j]
      BY <1>0, <1>2, AuthMoves DEF AuthTypeOK
    <2>2. ASSUME NEW d \in Sockets, NEW j \in Frames,
                 auth'[d][j].pc \in {"verify", "lookup", "restore", "create", "list"}
          PROVE  auth[d][j].pc \in {"verify", "lookup", "restore", "create", "list"}
      BY <1>2, <2>1, <2>2
    <2> QED BY <1>0, <1>2, <2>2, LiveCallMoves
  <1>3. CASE ChallengeConsumed(c, k)
    <2>1. PICK pc \in {"create", "lookup"} : AuthGoesTo(c, k, pc)
      BY <1>3 DEF ChallengeConsumed
    <2>2. \A d \in Sockets : IsRegistered(d) => IsRegistered(d)'
      <3>1. PICK old : sock' = [d \in Sockets |->
                         IF d \in old /\ sock[d] = "open" THEN "closing" ELSE sock[d]]
        BY <1>3 DEF ChallengeConsumed
      <3> QED BY <3>1 DEF IsRegistered
    <2> QED BY <1>2, <1>3, <2>1, <2>2 DEF ChallengeConsumed, AuthPc
  <1>4. CASE SessionLookedUp(c, k)
    <2>1. PICK pc \in {"create", "restore"} : AuthGoesTo(c, k, pc)
      BY <1>4 DEF SessionLookedUp
    <2> QED BY <1>2, <1>4, <2>1 DEF SessionLookedUp, AuthPc, connVars, IsRegistered
  <1>5. ASSUME NEW s \in Sessions, GivenSession(c, k, s),
               auth[c][k].pc \in {"restore", "create"}, UNCHANGED connVars
        PROVE  LiveInv'
    <2>1. \A d \in Sockets, j \in Frames : ~(d = c /\ j = k) => auth'[d][j] = auth[d][j]
      BY <1>0, <1>5, AuthIsGiven DEF AuthTypeOK
    <2>2. ASSUME NEW d \in Sockets, NEW j \in Frames,
                 auth'[d][j].pc \in {"verify", "lookup", "restore", "create", "list"}
          PROVE  auth[d][j].pc \in {"verify", "lookup", "restore", "create", "list"}
      BY <1>5, <2>1, <2>2
    <2> QED BY <1>0, <1>5, <2>2, LiveCallMoves DEF connVars, IsRegistered
  <1>6. CASE SessionRestored(c, k)
    <2>1. auth[c][k].pc = "restore" /\ auth[c][k].last \in Sessions
      BY <1>0, <1>6 DEF SessionRestored, AuthTypeOK
    <2> QED BY <1>5, <1>6, <2>1 DEF SessionRestored, GivenSession
  <1>7. CASE SessionCreated(c, k)
    BY <1>5, <1>7 DEF SessionCreated, GivenSession
  <1>8. CASE RoomsJoined(c, k)
    BY <1>2, <1>8 DEF RoomsJoined, AuthPc, IsRegistered
  <1>9. CASE AuthFails(c, k)
    <2>1. \A d \in Sockets : IsRegistered(d) => IsRegistered(d)'
      BY <1>0, <1>9 DEF AuthFails, IsRegistered, ConnTypeOK
    <2> QED BY <1>2, <1>9, <2>1 DEF AuthFails, AuthPc
  <1>10. CASE SessionListed(c, k)
    <2>1. PICK s \in Sessions : s = auth[c][k].session
      BY <1>0, <1>10 DEF SessionListed, AuthTypeOK
    <2>2. /\ auth'[c][k].pc = "rooms"
          /\ \A d \in Sockets, j \in Frames : ~(d = c /\ j = k) => auth'[d][j] = auth[d][j]
      <3>1. "rooms" \in AuthPc
        BY DEF AuthPc
      <3> QED BY <1>0, <1>10, <3>1, AuthMoves DEF AuthTypeOK, SessionListed
    <2>3. bound[c] = None /\ sock' = sock
      BY <1>10 DEF SessionListed, LiveInv, AuthenticatesOnce
    <2>4. /\ \A d \in Sockets \ {c} : bound'[d] = bound[d]
          /\ \A n \in Nodes, t \in Sessions : \A d \in session_clients'[n][t] :
               \/ d # c /\ d \in session_clients[n][t]
               \/ /\ d = c /\ n = NodeOf[c] /\ t = s
                  /\ IsRegistered(c) /\ bound'[c] = s
      <3>0. \A n \in Nodes, t \in Sessions : c \notin session_clients[n][t]
        BY <2>3, NoneAssumption DEF LiveInv, ClientsAreLive
      <3>1. CASE IsRegistered(c)
        <4>1. PICK cs : cs = session_clients[NodeOf[c]][s] \cup {c}
          OBVIOUS
        <4>2. cs \in SUBSET Sockets
          BY <1>0, <1>n, <2>1, <4>1 DEF ConnTypeOK
        <4>3. session_clients' = [session_clients EXCEPT ![NodeOf[c]] =
                [session_clients[NodeOf[c]] EXCEPT ![s] = cs]]
          BY <1>10, <2>1, <3>1, <4>1 DEF SessionListed
        <4>4. /\ session_clients'[NodeOf[c]][s] = cs
              /\ \A n \in Nodes, t \in Sessions : ~(n = NodeOf[c] /\ t = s)
                   => session_clients'[n][t] = session_clients[n][t]
          BY <1>0, <1>n, <2>1, <4>2, <4>3, CellMoves DEF ConnTypeOK
        <4>5. bound'[c] = s /\ \A d \in Sockets \ {c} : bound'[d] = bound[d]
          BY <1>0, <1>10, <2>1, <3>1 DEF SessionListed, ConnTypeOK
        <4> QED BY <3>0, <3>1, <4>1, <4>4, <4>5
      <3>2. CASE ~IsRegistered(c)
        BY <1>10, <3>0, <3>2 DEF SessionListed
      <3> QED BY <3>1, <3>2
    <2>t. ConnTypeOK'
      BY <1>10, AuthCallsHold, PartsOfInvNext DEF AuthStep, Parts
    <2>5. ClientsAreLive'
      <3> SUFFICES ASSUME NEW n \in Nodes, NEW t \in Sessions, NEW d \in session_clients'[n][t]
                   PROVE  sock'[d] \in {"open", "closing"} /\ bound'[d] = t /\ NodeOf[d] = n
        BY DEF ClientsAreLive
      <3>1. d \in Sockets
        BY <2>t DEF ConnTypeOK
      <3>2. CASE d # c /\ d \in session_clients[n][t]
        BY <2>3, <2>4, <3>1, <3>2 DEF LiveInv, ClientsAreLive
      <3>3. CASE d = c /\ n = NodeOf[c] /\ t = s /\ IsRegistered(c) /\ bound'[c] = s
        BY <2>3, <3>3 DEF IsRegistered
      <3> QED BY <2>4, <3>2, <3>3
    <2>6. AuthenticatesOnce'
      <3> SUFFICES ASSUME NEW d \in Sockets, NEW j \in Frames,
                          auth'[d][j].pc \in {"verify", "lookup", "restore", "create", "list"}
                   PROVE  bound'[d] = None
        BY DEF AuthenticatesOnce
      <3>1. j = k
        BY DEF OneFrameAtMost
      <3>2. d # c
        BY <2>2, <3>1
      <3>3. auth'[d][j] = auth[d][j]
        BY <2>2, <3>2
      <3> QED BY <2>4, <3>2, <3>3 DEF LiveInv, AuthenticatesOnce
    <2> QED BY <2>5, <2>6 DEF LiveInv
  <1> QED BY <1>1, <1>3, <1>4, <1>6, <1>7, <1>8, <1>9, <1>10 DEF AuthStep

LEMMA LiveStep == CallsInv /\ LiveInv /\ OneFrameAtMost /\ [Next]_vars => LiveInv'
  <1> SUFFICES ASSUME CallsInv, LiveInv, OneFrameAtMost, [Next]_vars PROVE LiveInv'
    OBVIOUS
  <1>0. ConnTypeOK /\ AuthTypeOK
    BY PartsOfInv DEF Parts
  <1>t. ConnTypeOK'
    BY CallsStep, PartsOfInvNext DEF Parts
  <1>1. ASSUME NEW c \in Sockets, HandleConnection(c) \/ SocketCloses(c)
        PROVE  LiveInv'
    <2>1. UNCHANGED <<bound, session_clients, auth>>
      BY <1>1 DEF HandleConnection, SocketCloses
    <2>2. \A d \in Sockets : IsRegistered(d) => IsRegistered(d)'
      BY <1>0, <1>1 DEF HandleConnection, SocketCloses, IsRegistered, ConnTypeOK
    <2> QED BY <1>0, <2>1, <2>2, LiveCallMoves
  <1>2. CASE \/ UNCHANGED vars
             \/ \E c \in Sockets : \/ DisconnectReads(c) \/ DisconnectWrites(c)
                                   \/ DisconnectUnlists(c) \/ PongStep(c)
             \/ \E n \in Nodes : QueryStep(n) \/ \E u \in Users : QueryMembers(n, u)
             \/ \E s \in Sessions : WindowCloses(s) \/ RecordExpires(s)
    <2>1. UNCHANGED <<sock, bound, session_clients, auth>>
      BY <1>2, OthersKeepConnections
    <2> QED BY <2>1 DEF LiveInv, ClientsAreLive, AuthenticatesOnce
  <1>3. ASSUME NEW c \in Sockets, HandleDisconnect(c)
        PROVE  LiveInv'
    <2>1. /\ sock' = [sock EXCEPT ![c] = "gone"]
          /\ bound' = [bound EXCEPT ![c] = None]
          /\ auth' = auth
          /\ \A n \in Nodes, s \in Sessions :
                session_clients'[n][s] = IF n = NodeOf[c] /\ s = bound[c]
                                         THEN session_clients[n][s] \ {c}
                                         ELSE session_clients[n][s]
      BY <1>0, <1>3, Unregisters
    <2>2. ClientsAreLive'
      <3> SUFFICES ASSUME NEW n \in Nodes, NEW s \in Sessions, NEW d \in session_clients'[n][s]
                   PROVE  sock'[d] \in {"open", "closing"} /\ bound'[d] = s /\ NodeOf[d] = n
        BY DEF ClientsAreLive
      <3>1. d \in Sockets
        BY <1>t DEF ConnTypeOK
      <3>2. /\ d \in session_clients[n][s]
            /\ ~(d = c /\ n = NodeOf[c] /\ s = bound[c])
        BY <2>1
      <3>3. sock[d] \in {"open", "closing"} /\ bound[d] = s /\ NodeOf[d] = n
        BY <3>2 DEF LiveInv, ClientsAreLive
      <3>4. d # c
        BY <3>2, <3>3
      <3> QED BY <1>0, <2>1, <3>1, <3>3, <3>4 DEF ConnTypeOK
    <2>3. AuthenticatesOnce'
      BY <1>0, <2>1 DEF LiveInv, AuthenticatesOnce, ConnTypeOK
    <2> QED BY <2>2, <2>3 DEF LiveInv
  <1>4. ASSUME NEW n \in Nodes, Crash(n)
        PROVE  LiveInv'
    <2>1. \A c \in Sockets :
            IF NodeOf[c] = n /\ sock[c] # "new"
            THEN bound'[c] = None /\ auth'[c] = [k \in Frames |-> AuthIdle]
            ELSE sock'[c] = sock[c] /\ bound'[c] = bound[c] /\ auth'[c] = auth[c]
      BY <1>0, <1>4, CrashLoses
    <2>2. \A m \in Nodes :
            IF m = n
            THEN \A s \in Sessions : session_clients'[m][s] = {}
            ELSE session_clients'[m] = session_clients[m]
      BY <1>0, <1>4, CrashLoses
    <2>3. ClientsAreLive'
      <3> SUFFICES ASSUME NEW m \in Nodes, NEW s \in Sessions, NEW d \in session_clients'[m][s]
                   PROVE  sock'[d] \in {"open", "closing"} /\ bound'[d] = s /\ NodeOf[d] = m
        BY DEF ClientsAreLive
      <3>1. d \in Sockets
        BY <1>t DEF ConnTypeOK
      <3>2. m # n /\ d \in session_clients[m][s]
        BY <2>2
      <3>3. sock[d] \in {"open", "closing"} /\ bound[d] = s /\ NodeOf[d] = m
        BY <3>2 DEF LiveInv, ClientsAreLive
      <3> QED BY <2>1, <3>1, <3>2, <3>3
    <2>4. AuthenticatesOnce'
      <3> SUFFICES ASSUME NEW d \in Sockets, NEW j \in Frames,
                          auth'[d][j].pc \in {"verify", "lookup", "restore", "create", "list"}
                   PROVE  bound'[d] = None
        BY DEF AuthenticatesOnce
      <3>1. CASE NodeOf[d] = n /\ sock[d] # "new"
        BY <2>1, <3>1
      <3>2. CASE ~(NodeOf[d] = n /\ sock[d] # "new")
        <4>1. auth'[d] = auth[d] /\ bound'[d] = bound[d]
          BY <2>1, <3>2
        <4> QED BY <4>1 DEF LiveInv, AuthenticatesOnce
      <3> QED BY <3>1, <3>2
    <2> QED BY <2>3, <2>4 DEF LiveInv
  <1>5. CASE \E c \in Sockets, k \in Frames :
               \/ AuthStep(c, k) \/ AuthFails(c, k)
               \/ \E u \in Users, last \in Sessions \cup {None} : AuthConnect(c, k, u, last)
    BY <1>5, LiveAuthSteps
  <1> QED BY <1>1, <1>2, <1>3, <1>4, <1>5 DEF Next, DisconnectStep

\* Only live sockets that are authenticated into a session are registered for it,
\* whatever happens between the check of the socket and mark_authenticated four awaits
\* later, as long as no two frames of one socket are handled at once.  Without the
\* hypothesis the property is false: run RealtimeSession_frames.
THEOREM OneFrameKeepsClientsLive ==
  ASSUME OneFrameAtMost
  PROVE  Spec => []ClientsAreLive
  <1>1. Init => CallsInv /\ LiveInv
    BY CallsInit, LiveInit
  <1>2. CallsInv /\ LiveInv /\ [Next]_vars => (CallsInv /\ LiveInv)'
    BY CallsStep, LiveStep
  <1>3. CallsInv /\ LiveInv => ClientsAreLive
    BY DEF LiveInv
  <1> QED BY <1>1, <1>2, <1>3, PTL DEF Spec

-----------------------------------------------------------------------------
(* A session has one owner.                                                *)

\* Where the code may take the owner of a session from: the record, the sets of
\* active sessions, a call that was given the session or is about to restore it, and
\* the handlers that carry a record they have read.
RecordNames(u, s) == record[s] # None /\ record[s].owner = u
ListNames(u, s)   == s \in user_sessions[u]
AuthNames(c, k, u, s) ==
  /\ auth[c][k].user = u
  /\ auth[c][k].session = s \/ (auth[c][k].pc = "restore" /\ auth[c][k].last = s)
DiscNames(c, u, s) ==
  disc[c].pc \in {"write", "unlist"} /\ disc[c].session = s /\ disc[c].read.owner = u
PongNames(c, u, s) ==
  pong[c].pc # "idle" /\ pong[c].session = s /\ pong[c].read.owner = u

Names(u, s) ==
  \/ RecordNames(u, s)
  \/ ListNames(u, s)
  \/ \E c \in Sockets, k \in Frames : AuthNames(c, k, u, s)
  \/ \E c \in Sockets : DiscNames(c, u, s) \/ PongNames(c, u, s)

OwnersAgree ==
  \A s \in Sessions : \A u, v \in Users : Names(u, s) /\ Names(v, s) => u = v

\* an id that randomUUID has not yielded is in nobody's hands
NamedIsCreated ==
  \A s \in Sessions, u \in Users : Names(u, s) => s \in created

\* only a call that has begun was given a session
GivenIsBegun ==
  \A c \in Sockets, k \in Frames : auth[c][k].session # None => auth[c][k].pc # "idle"

OwnerInv == OwnersAgree /\ NamedIsCreated /\ GivenIsBegun

LEMMA OwnerInit == Init => OwnerInv
  <1> SUFFICES ASSUME Init PROVE OwnerInv
    OBVIOUS
  <1>1. \A s \in Sessions, u \in Users : ~Names(u, s)
    <2> SUFFICES ASSUME NEW s \in Sessions, NEW u \in Users PROVE ~Names(u, s)
      OBVIOUS
    <2>1. s # None
      BY NoneAssumption
    <2>2. ~RecordNames(u, s) /\ ~ListNames(u, s)
      BY DEF Init, RecordNames, ListNames
    <2>3. \A c \in Sockets, k \in Frames : ~AuthNames(c, k, u, s)
      BY <2>1, IdleCalls DEF Init, AuthNames
    <2>4. \A c \in Sockets : ~DiscNames(c, u, s) /\ ~PongNames(c, u, s)
      BY IdleCalls DEF Init, DiscNames, PongNames
    <2> QED BY <2>2, <2>3, <2>4 DEF Names
  <1>2. GivenIsBegun
    BY IdleCalls DEF Init, GivenIsBegun
  <1> QED BY <1>1, <1>2 DEF OwnerInv, OwnersAgree, NamedIsCreated

\* A step after which a session is named for nobody it was not named for before.
LEMMA OwnersKept ==
  ASSUME OwnerInv, created' = created, GivenIsBegun',
         \A s \in Sessions, u \in Users : Names(u, s)' => Names(u, s)
  PROVE  OwnerInv'
  BY DEF OwnerInv, OwnersAgree, NamedIsCreated

\* The same, source by source.
LEMMA NamesKept ==
  ASSUME NEW s \in Sessions, NEW u \in Users,
         RecordNames(u, s)' => Names(u, s),
         ListNames(u, s)' => Names(u, s),
         \A c \in Sockets, k \in Frames : AuthNames(c, k, u, s)' => Names(u, s),
         \A c \in Sockets : DiscNames(c, u, s)' => Names(u, s),
         \A c \in Sockets : PongNames(c, u, s)' => Names(u, s)
  PROVE  Names(u, s)' => Names(u, s)
  <1>1. Names(u, s)' <=> \/ RecordNames(u, s)'
                         \/ ListNames(u, s)'
                         \/ \E c \in Sockets, k \in Frames : AuthNames(c, k, u, s)'
                         \/ \E c \in Sockets : DiscNames(c, u, s)' \/ PongNames(c, u, s)'
    BY DEF Names
  <1> QED BY <1>1

\* What is unchanged names nobody new.
LEMMA UnchangedNames ==
  ASSUME NEW s \in Sessions, NEW u \in Users
  PROVE  /\ record' = record => (RecordNames(u, s)' => Names(u, s))
         /\ user_sessions' = user_sessions => (ListNames(u, s)' => Names(u, s))
         /\ auth' = auth =>
              \A c \in Sockets, k \in Frames : AuthNames(c, k, u, s)' => Names(u, s)
         /\ disc' = disc => \A c \in Sockets : DiscNames(c, u, s)' => Names(u, s)
         /\ pong' = pong => \A c \in Sockets : PongNames(c, u, s)' => Names(u, s)
  BY DEF Names, RecordNames, ListNames, AuthNames, DiscNames, PongNames

\* One call changes: the names of the other calls are as they were.
LEMMA OtherAuthNames ==
  ASSUME NEW c \in Sockets, NEW k \in Frames, NEW s \in Sessions, NEW u \in Users,
         \A d \in Sockets, j \in Frames : ~(d = c /\ j = k) => auth'[d][j] = auth[d][j],
         AuthNames(c, k, u, s)' => Names(u, s)
  PROVE  \A d \in Sockets, j \in Frames : AuthNames(d, j, u, s)' => Names(u, s)
  <1> SUFFICES ASSUME NEW d \in Sockets, NEW j \in Frames, AuthNames(d, j, u, s)'
               PROVE  Names(u, s)
    OBVIOUS
  <1>1. CASE d = c /\ j = k
    BY <1>1
  <1>2. CASE ~(d = c /\ j = k)
    <2>1. auth'[d][j] = auth[d][j]
      BY <1>2
    <2> QED BY <2>1 DEF AuthNames, Names
  <1> QED BY <1>1, <1>2

\* An auth.connect that moves on, unless it is to restore, names nobody new.
LEMMA OwnersAuthMoves ==
  ASSUME AuthTypeOK, OwnerInv, NEW c \in Sockets, NEW k \in Frames, NEW pc \in AuthPc \ {"idle"},
         AuthGoesTo(c, k, pc),
         pc = "restore" =>
           record[auth[c][k].last] # None /\ record[auth[c][k].last].owner = auth[c][k].user
  PROVE  /\ GivenIsBegun'
         /\ \A s \in Sessions, u \in Users : \A d \in Sockets, j \in Frames :
              AuthNames(d, j, u, s)' => Names(u, s)
  <1>1. /\ \A d \in Sockets, j \in Frames : ~(d = c /\ j = k) => auth'[d][j] = auth[d][j]
        /\ auth'[c][k].pc = pc
        /\ auth'[c][k].user = auth[c][k].user
        /\ auth'[c][k].last = auth[c][k].last
        /\ auth'[c][k].session = auth[c][k].session
    BY AuthMoves DEF AuthTypeOK
  <1>2. GivenIsBegun'
    BY <1>1 DEF OwnerInv, GivenIsBegun
  <1>3. ASSUME NEW s \in Sessions, NEW u \in Users
        PROVE  AuthNames(c, k, u, s)' => Names(u, s)
    BY <1>1 DEF AuthNames, RecordNames, Names
  <1> QED BY <1>1, <1>2, <1>3, OtherAuthNames

LEMMA OwnerAuthSteps ==
  ASSUME CallsInv, OwnerInv, NEW c \in Sockets, NEW k \in Frames,
         \/ AuthStep(c, k)
         \/ AuthFails(c, k)
         \/ \E u \in Users, last \in Sessions \cup {None} : AuthConnect(c, k, u, last)
  PROVE  OwnerInv'
  <1>0. ConnTypeOK /\ RedisTypeOK /\ AuthTypeOK
    BY PartsOfInv DEF Parts
  <1>1. ASSUME NEW v \in Users, NEW last \in Sessions \cup {None}, AuthConnect(c, k, v, last)
        PROVE  OwnerInv'
    <2>1. /\ \A d \in Sockets, j \in Frames : ~(d = c /\ j = k) => auth'[d][j] = auth[d][j]
          /\ auth'[c][k].pc = "verify" /\ auth'[c][k].session = None
      BY <1>0, <1>1, AuthBegins
    <2>2. GivenIsBegun'
      BY <2>1 DEF OwnerInv, GivenIsBegun
    <2>3. ASSUME NEW s \in Sessions, NEW u \in Users
          PROVE  Names(u, s)' => Names(u, s)
      <3>1. ~AuthNames(c, k, u, s)'
        BY <2>1, NoneAssumption DEF AuthNames
      <3>2. UNCHANGED <<record, user_sessions, disc, pong>>
        BY <1>1 DEF AuthConnect, redisVars
      <3> QED BY <2>1, <3>1, <3>2, OtherAuthNames, UnchangedNames, NamesKept
    <2> QED BY <1>1, <2>2, <2>3, OwnersKept DEF AuthConnect, redisVars
  <1>2. ASSUME NEW pc \in AuthPc \ {"idle"}, AuthGoesTo(c, k, pc),
               pc = "restore" => /\ record[auth[c][k].last] # None
                                 /\ record[auth[c][k].last].owner = auth[c][k].user,
               UNCHANGED <<redisVars, disc, pong>>
        PROVE  OwnerInv'
    <2>1. /\ GivenIsBegun'
          /\ \A s \in Sessions, u \in Users : \A d \in Sockets, j \in Frames :
               AuthNames(d, j, u, s)' => Names(u, s)
      BY <1>0, <1>2, OwnersAuthMoves
    <2>2. UNCHANGED <<record, user_sessions, created, disc, pong>>
      BY <1>2 DEF redisVars
    <2> QED BY <2>1, <2>2, UnchangedNames, NamesKept, OwnersKept
  <1>3. CASE ChallengeConsumed(c, k)
    <2>1. PICK pc \in {"create", "lookup"} : AuthGoesTo(c, k, pc)
      BY <1>3 DEF ChallengeConsumed
    <2> QED BY <1>2, <1>3, <2>1 DEF ChallengeConsumed, AuthPc
  <1>4. CASE SessionLookedUp(c, k)
    <2>1. PICK pc : pc = IF Restorable(auth[c][k].user, auth[c][k].last) THEN "restore"
                         ELSE "create"
      OBVIOUS
    <2>2. AuthGoesTo(c, k, pc) /\ UNCHANGED <<redisVars, disc, pong>>
      BY <1>4, <2>1 DEF SessionLookedUp
    <2>3. pc \in AuthPc \ {"idle"}
      BY <2>1 DEF AuthPc
    <2> QED BY <1>2, <2>1, <2>2, <2>3 DEF Restorable
  <1>5. CASE RoomsJoined(c, k)
    BY <1>2, <1>5 DEF RoomsJoined, AuthPc
  <1>6. CASE AuthFails(c, k)
    BY <1>2, <1>6 DEF AuthFails, AuthPc
  <1>7. CASE SessionListed(c, k)
    <2>1. /\ auth[c][k].session \in Sessions /\ auth[c][k].user \in Users
          /\ AuthGoesTo(c, k, "rooms") /\ "rooms" \in AuthPc \ {"idle"}
          /\ UNCHANGED <<record, created, disc, pong>>
      BY <1>0, <1>7 DEF SessionListed, AuthTypeOK, AuthPc
    <2>2. /\ GivenIsBegun'
          /\ \A s \in Sessions, u \in Users : \A d \in Sockets, j \in Frames :
               AuthNames(d, j, u, s)' => Names(u, s)
      BY <1>0, <2>1, OwnersAuthMoves
    <2>3. ASSUME NEW s \in Sessions, NEW u \in Users
          PROVE  ListNames(u, s)' => Names(u, s)
      <3>1. ListNames(u, s)' =>
              ListNames(u, s) \/ (u = auth[c][k].user /\ s = auth[c][k].session)
        BY <1>0, <1>7 DEF SessionListed, ListNames, RedisTypeOK
      <3> QED BY <3>1 DEF Names, AuthNames
    <2> QED BY <2>1, <2>2, <2>3, UnchangedNames, NamesKept, OwnersKept
  <1>8. ASSUME NEW t \in Sessions, GivenSession(c, k, t), auth[c][k].pc \in {"restore", "create"},
               Persist(t, ActiveRecord(c, auth[c][k].user)),
               UNCHANGED <<user_sessions, disc, pong>>
        PROVE  /\ GivenIsBegun'
               /\ auth[c][k].user \in Users
               /\ \A s \in Sessions, u \in Users :
                    Names(u, s)' => Names(u, s) \/ (s = t /\ u = auth[c][k].user)
    <2>1. auth[c][k].user \in Users
      BY <1>0, <1>8 DEF AuthTypeOK
    <2>2. /\ record'[t].owner = auth[c][k].user
          /\ \A s \in Sessions \ {t} : record'[s] = record[s]
      <3>1. /\ ActiveRecord(c, auth[c][k].user) \in Record
            /\ ActiveRecord(c, auth[c][k].user).owner = auth[c][k].user
        BY <2>1, ActiveIsRecord
      <3> QED BY <1>0, <1>8, <3>1, PersistKeeps DEF RedisTypeOK
    <2>3. /\ \A d \in Sockets, j \in Frames : ~(d = c /\ j = k) => auth'[d][j] = auth[d][j]
          /\ auth'[c][k].pc = "list"
          /\ auth'[c][k].user = auth[c][k].user
          /\ auth'[c][k].session = t
      BY <1>0, <1>8, AuthIsGiven DEF AuthTypeOK
    <2>4. GivenIsBegun'
      BY <2>3 DEF OwnerInv, GivenIsBegun
    <2>5. ASSUME NEW s \in Sessions, NEW u \in Users, ~(s = t /\ u = auth[c][k].user)
          PROVE  Names(u, s)' => Names(u, s)
      <3>1. RecordNames(u, s)' => Names(u, s)
        BY <2>2, <2>5 DEF RecordNames, Names
      <3>2. AuthNames(c, k, u, s)' => Names(u, s)
        BY <2>3, <2>5 DEF AuthNames
      <3>3. \A d \in Sockets, j \in Frames : AuthNames(d, j, u, s)' => Names(u, s)
        BY <2>3, <3>2, OtherAuthNames
      <3> QED BY <1>8, <3>1, <3>3, UnchangedNames, NamesKept
    <2> QED BY <2>1, <2>4, <2>5
  <1>9. CASE SessionRestored(c, k)
    <2>1. PICK t \in Sessions : t = auth[c][k].last /\ auth[c][k].pc = "restore"
      BY <1>0, <1>9 DEF SessionRestored, AuthTypeOK
    <2>2. /\ GivenSession(c, k, t) /\ Persist(t, ActiveRecord(c, auth[c][k].user))
          /\ UNCHANGED <<user_sessions, created, disc, pong>>
      BY <1>9, <2>1 DEF SessionRestored, GivenSession
    <2>3. Names(auth[c][k].user, t)
      BY <2>1 DEF Names, AuthNames
    <2>4. GivenIsBegun' /\ \A s \in Sessions, u \in Users : Names(u, s)' => Names(u, s)
      BY <1>8, <2>1, <2>2, <2>3
    <2> QED BY <2>2, <2>4, OwnersKept
  <1>10. CASE SessionCreated(c, k)
    <2>1. PICK t \in Sessions \ created : /\ Persist(t, ActiveRecord(c, auth[c][k].user))
                                          /\ created' = created \cup {t}
                                          /\ GivenSession(c, k, t)
      BY <1>10 DEF SessionCreated, GivenSession
    <2>2. auth[c][k].pc = "create" /\ UNCHANGED <<user_sessions, disc, pong>>
      BY <1>10 DEF SessionCreated
    <2>3. /\ GivenIsBegun'
          /\ \A s \in Sessions, u \in Users :
               Names(u, s)' => Names(u, s) \/ (s = t /\ u = auth[c][k].user)
      BY <1>8, <2>1, <2>2
    <2>4. \A u \in Users : ~Names(u, t)
      BY <2>1 DEF OwnerInv, NamedIsCreated
    <2>5. OwnersAgree'
      BY <2>3, <2>4 DEF OwnerInv, OwnersAgree
    <2>6. NamedIsCreated'
      BY <2>1, <2>3 DEF OwnerInv, NamedIsCreated
    <2> QED BY <2>3, <2>5, <2>6 DEF OwnerInv
  <1> QED BY <1>1, <1>3, <1>4, <1>5, <1>6, <1>7, <1>9, <1>10 DEF AuthStep

LEMMA OwnerDiscSteps ==
  ASSUME CallsInv, OwnerInv, NEW c \in Sockets,
         HandleConnection(c) \/ SocketCloses(c) \/ DisconnectStep(c)
  PROVE  OwnerInv'
  <1>0. RedisTypeOK /\ DiscTypeOK
    BY PartsOfInv DEF Parts
  <1>1. UNCHANGED <<auth, pong, created>>
    BY DEF HandleConnection, SocketCloses, DisconnectStep, HandleDisconnect, DisconnectReads,
       DisconnectWrites, DisconnectUnlists, redisVars
  <1>2. GivenIsBegun'
    BY <1>1 DEF OwnerInv, GivenIsBegun
  <1> SUFFICES ASSUME NEW s \in Sessions, NEW u \in Users PROVE Names(u, s)' => Names(u, s)
    BY <1>1, <1>2, OwnersKept
  <1>3. CASE HandleConnection(c) \/ SocketCloses(c)
    <2>1. UNCHANGED <<record, user_sessions, disc>>
      BY <1>3 DEF HandleConnection, SocketCloses, redisVars
    <2> QED BY <1>1, <2>1, UnchangedNames, NamesKept
  <1>4. CASE HandleDisconnect(c)
    <2>1. UNCHANGED <<record, user_sessions>>
      BY <1>4 DEF HandleDisconnect, redisVars
    <2>2. ASSUME NEW d \in Sockets
          PROVE  DiscNames(d, u, s)' => Names(u, s)
      <3>1. disc'[d] = disc[d] \/ disc'[d].pc = "read"
        BY <1>0, <1>4 DEF HandleDisconnect, DiscTypeOK
      <3> QED BY <3>1 DEF DiscNames, Names
    <2> QED BY <1>1, <2>1, <2>2, UnchangedNames, NamesKept
  <1>5. CASE DisconnectReads(c)
    <2>1. UNCHANGED <<record, user_sessions>>
      BY <1>5 DEF DisconnectReads, redisVars
    <2>2. \A d \in Sockets \ {c} : disc'[d] = disc[d]
      BY <1>0, <1>5 DEF DisconnectReads, DiscTypeOK
    <2>3. PICK r : r = record[disc[c].session]
      OBVIOUS
    <2>4. DiscNames(c, u, s)' => Names(u, s)
      <3>1. CASE disc'[c] = DiscIdle
        BY <3>1, IdleCalls DEF DiscNames
      <3>2. CASE r # None /\ disc'[c] = [disc[c] EXCEPT !.pc = "write", !.read = r]
        <4>1. disc[c] \in DiscCall
          BY <1>0 DEF DiscTypeOK
        <4>2. disc'[c].session = disc[c].session /\ disc'[c].read = r
          BY <3>2, <4>1 DEF DiscCall
        <4> QED BY <2>3, <3>2, <4>2 DEF DiscNames, RecordNames, Names
      <3>3. \/ disc'[c] = DiscIdle
            \/ r # None /\ disc'[c] = [disc[c] EXCEPT !.pc = "write", !.read = r]
        BY <1>0, <1>5, <2>3 DEF DisconnectReads, DiscTypeOK
      <3> QED BY <3>1, <3>2, <3>3
    <2>5. \A d \in Sockets : DiscNames(d, u, s)' => Names(u, s)
      <3>1. ASSUME NEW d \in Sockets \ {c} PROVE DiscNames(d, u, s)' => Names(u, s)
        BY <2>2 DEF DiscNames, Names
      <3> QED BY <2>4, <3>1
    <2> QED BY <1>1, <2>1, <2>5, UnchangedNames, NamesKept
  <1>6. CASE DisconnectWrites(c)
    <2>1. disc[c] \in DiscCall /\ disc[c].session \in Sessions /\ disc[c].read \in Record
          /\ disc[c].pc = "write" /\ user_sessions' = user_sessions
      BY <1>0, <1>6 DEF DisconnectWrites, DiscTypeOK
    <2>2. PICK r : r = [disc[c].read EXCEPT !.status = "disconnected"]
      OBVIOUS
    <2>3. r \in Record /\ r.owner = disc[c].read.owner
      BY <2>1, <2>2 DEF Record
    <2>4. /\ record'[disc[c].session].owner = disc[c].read.owner
          /\ \A t \in Sessions \ {disc[c].session} : record'[t] = record[t]
      BY <1>0, <1>6, <2>1, <2>2, <2>3, PersistKeeps DEF DisconnectWrites, RedisTypeOK
    <2>5. RecordNames(u, s)' => Names(u, s)
      BY <2>1, <2>4 DEF RecordNames, DiscNames, Names
    <2>6. ASSUME NEW d \in Sockets
          PROVE  DiscNames(d, u, s)' => Names(u, s)
      <3>1. CASE d = c
        <4>1. disc'[c] = [disc[c] EXCEPT !.pc = "unlist"]
          BY <1>0, <1>6 DEF DisconnectWrites, DiscTypeOK
        <4>2. disc'[c].session = disc[c].session /\ disc'[c].read = disc[c].read
          BY <2>1, <4>1 DEF DiscCall
        <4> QED BY <2>1, <3>1, <4>2 DEF DiscNames, Names
      <3>2. CASE d # c
        <4>1. disc'[d] = disc[d]
          BY <1>0, <1>6, <3>2 DEF DisconnectWrites, DiscTypeOK
        <4> QED BY <4>1 DEF DiscNames, Names
      <3> QED BY <3>1, <3>2
    <2> QED BY <1>1, <2>1, <2>5, <2>6, UnchangedNames, NamesKept
  <1>7. CASE DisconnectUnlists(c)
    <2>1. ListNames(u, s)' => ListNames(u, s)
      BY <1>0, <1>7 DEF DisconnectUnlists, ListNames, RedisTypeOK
    <2>2. ASSUME NEW d \in Sockets
          PROVE  DiscNames(d, u, s)' => Names(u, s)
      <3>1. disc'[d] = disc[d] \/ disc'[d] = DiscIdle
        BY <1>0, <1>7 DEF DisconnectUnlists, DiscTypeOK
      <3> QED BY <3>1, IdleCalls DEF DiscNames, Names
    <2>3. record' = record
      BY <1>7 DEF DisconnectUnlists
    <2>4. ListNames(u, s)' => Names(u, s)
      BY <2>1 DEF Names
    <2> QED BY <1>1, <2>2, <2>3, <2>4, UnchangedNames, NamesKept
  <1> QED BY <1>3, <1>4, <1>5, <1>6, <1>7 DEF DisconnectStep

LEMMA OwnerPongSteps ==
  ASSUME CallsInv, OwnerInv, NEW c \in Sockets, PongStep(c)
  PROVE  OwnerInv'
  <1>0. RedisTypeOK /\ PongTypeOK
    BY PartsOfInv DEF Parts
  <1>1. UNCHANGED <<auth, disc, created>>
    BY DEF PongStep, PongReads, PongWrites, PongLists, redisVars
  <1>2. GivenIsBegun'
    BY <1>1 DEF OwnerInv, GivenIsBegun
  <1> SUFFICES ASSUME NEW s \in Sessions, NEW u \in Users PROVE Names(u, s)' => Names(u, s)
    BY <1>1, <1>2, OwnersKept
  <1>3. CASE PongReads(c)
    <2>1. UNCHANGED <<record, user_sessions>> /\ record[bound[c]] # None
      BY <1>3 DEF PongReads, redisVars
    <2>2. ASSUME NEW d \in Sockets
          PROVE  PongNames(d, u, s)' => Names(u, s)
      <3>1. CASE d = c
        <4>1. pong'[c].session = bound[c] /\ pong'[c].read = record[bound[c]]
          BY <1>0, <1>3 DEF PongReads, PongTypeOK
        <4> QED BY <2>1, <3>1, <4>1 DEF PongNames, RecordNames, Names
      <3>2. CASE d # c
        <4>1. pong'[d] = pong[d]
          BY <1>0, <1>3, <3>2 DEF PongReads, PongTypeOK
        <4> QED BY <4>1 DEF PongNames, Names
      <3> QED BY <3>1, <3>2
    <2> QED BY <1>1, <2>1, <2>2, UnchangedNames, NamesKept
  <1>4. CASE PongWrites(c)
    <2>1. pong[c] \in PongCall /\ pong[c].session \in Sessions /\ pong[c].read \in Record
          /\ pong[c].pc = "write" /\ user_sessions' = user_sessions
      BY <1>0, <1>4 DEF PongWrites, PongTypeOK
    <2>2. /\ record'[pong[c].session].owner = pong[c].read.owner
          /\ \A t \in Sessions \ {pong[c].session} : record'[t] = record[t]
      BY <1>0, <1>4, <2>1, PersistKeeps DEF PongWrites, RedisTypeOK
    <2>3. RecordNames(u, s)' => Names(u, s)
      BY <2>1, <2>2 DEF RecordNames, PongNames, Names
    <2>4. ASSUME NEW d \in Sockets
          PROVE  PongNames(d, u, s)' => Names(u, s)
      <3>1. CASE d # c
        <4>1. pong'[d] = pong[d]
          BY <1>0, <1>4, <3>1 DEF PongWrites, PongTypeOK
        <4> QED BY <4>1 DEF PongNames, Names
      <3>2. CASE d = c /\ pong'[c] = PongIdle
        BY <3>2, IdleCalls DEF PongNames
      <3>3. CASE d = c /\ pong'[c] = [pong[c] EXCEPT !.pc = "list"]
        <4>1. pong'[c].session = pong[c].session /\ pong'[c].read = pong[c].read
          BY <2>1, <3>3 DEF PongCall
        <4> QED BY <2>1, <3>3, <4>1 DEF PongNames, Names
      <3>4. pong'[c] = PongIdle \/ pong'[c] = [pong[c] EXCEPT !.pc = "list"]
        BY <1>0, <1>4 DEF PongWrites, PongTypeOK
      <3> QED BY <3>1, <3>2, <3>3, <3>4
    <2> QED BY <1>1, <2>1, <2>3, <2>4, UnchangedNames, NamesKept
  <1>5. CASE PongLists(c)
    <2>1. pong[c].pc # "idle" /\ record' = record
      BY <1>5 DEF PongLists
    <2>2. ListNames(u, s)' => \/ ListNames(u, s)
                              \/ u = pong[c].read.owner /\ s = pong[c].session
      BY <1>0, <1>5 DEF PongLists, ListNames, RedisTypeOK
    <2>3. ListNames(u, s)' => Names(u, s)
      BY <2>1, <2>2 DEF PongNames, Names
    <2>4. ASSUME NEW d \in Sockets
          PROVE  PongNames(d, u, s)' => Names(u, s)
      <3>1. pong'[d] = pong[d] \/ pong'[d] = PongIdle
        BY <1>0, <1>5 DEF PongLists, PongTypeOK
      <3> QED BY <3>1, IdleCalls DEF PongNames, Names
    <2> QED BY <1>1, <2>1, <2>3, <2>4, UnchangedNames, NamesKept
  <1> QED BY <1>3, <1>4, <1>5 DEF PongStep

LEMMA OwnerOtherSteps ==
  ASSUME CallsInv, OwnerInv,
         \/ UNCHANGED vars
         \/ \E n \in Nodes : QueryStep(n) \/ Crash(n) \/ \E u \in Users : QueryMembers(n, u)
         \/ \E s \in Sessions : WindowCloses(s) \/ RecordExpires(s)
  PROVE  OwnerInv'
  <1>0. ConnTypeOK /\ RedisTypeOK /\ AuthTypeOK /\ DiscTypeOK /\ PongTypeOK
    BY PartsOfInv DEF Parts
  <1>1. ASSUME UNCHANGED <<auth, disc, pong, created>>,
               \A s \in Sessions, u \in Users : /\ RecordNames(u, s)' => RecordNames(u, s)
                                                /\ ListNames(u, s)' => ListNames(u, s)
        PROVE  OwnerInv'
    <2>1. GivenIsBegun'
      BY <1>1 DEF OwnerInv, GivenIsBegun
    <2>2. ASSUME NEW s \in Sessions, NEW u \in Users
          PROVE  Names(u, s)' => Names(u, s)
      <3>1. (RecordNames(u, s)' => Names(u, s)) /\ (ListNames(u, s)' => Names(u, s))
        BY <1>1 DEF Names
      <3> QED BY <1>1, <3>1, UnchangedNames, NamesKept
    <2> QED BY <1>1, <2>1, <2>2, OwnersKept
  <1>2. CASE UNCHANGED vars
    BY <1>1, <1>2 DEF vars, RecordNames, ListNames
  <1>3. ASSUME NEW n \in Nodes, QueryStep(n) \/ \E u \in Users : QueryMembers(n, u)
        PROVE  OwnerInv'
    <2>1. UNCHANGED <<auth, disc, pong, created, record>>
      BY <1>3 DEF QueryStep, QueryReads, QueryPrunes, QueryMembers, redisVars
    <2>2. \A u \in Users : user_sessions'[u] \subseteq user_sessions[u]
      BY <1>0, <1>3 DEF QueryStep, QueryReads, QueryPrunes, QueryMembers, redisVars, RedisTypeOK
    <2> QED BY <1>1, <2>1, <2>2 DEF RecordNames, ListNames
  <1>4. ASSUME NEW t \in Sessions, WindowCloses(t)
        PROVE  OwnerInv'
    <2>1. PICK r : r = [record[t] EXCEPT !.fresh = FALSE]
      OBVIOUS
    <2>2. record[t] # None /\ record[t] \in Record
      BY <1>0, <1>4 DEF WindowCloses, RedisTypeOK
    <2>3. r.owner = record[t].owner
      BY <2>1, <2>2 DEF Record
    <2>4. record' = [record EXCEPT ![t] = r]
      BY <1>4, <2>1 DEF WindowCloses
    <2>5. \A s \in Sessions, u \in Users : RecordNames(u, s)' => RecordNames(u, s)
      BY <1>0, <2>2, <2>3, <2>4 DEF RecordNames, RedisTypeOK
    <2>6. UNCHANGED <<auth, disc, pong, created, user_sessions>>
      BY <1>4 DEF WindowCloses
    <2> QED BY <1>1, <2>5, <2>6 DEF ListNames
  <1>5. ASSUME NEW t \in Sessions, RecordExpires(t)
        PROVE  OwnerInv'
    <2>1. \A s \in Sessions, u \in Users : RecordNames(u, s)' => RecordNames(u, s)
      BY <1>0, <1>5 DEF RecordExpires, RecordNames, RedisTypeOK
    <2> QED BY <1>1, <1>5, <2>1 DEF RecordExpires, ListNames
  <1>6. ASSUME NEW n \in Nodes, Crash(n)
        PROVE  OwnerInv'
    <2>1. \A c \in Sockets :
            \/ auth'[c] = [k \in Frames |-> AuthIdle] /\ disc'[c] = DiscIdle /\ pong'[c] = PongIdle
            \/ auth'[c] = auth[c] /\ disc'[c] = disc[c] /\ pong'[c] = pong[c]
      BY <1>0, <1>6, CrashLoses
    <2>2. UNCHANGED <<record, user_sessions, created>>
      BY <1>6 DEF Crash, redisVars
    <2>3. \A c \in Sockets, k \in Frames : auth'[c][k] = AuthIdle \/ auth'[c][k] = auth[c][k]
      BY <2>1
    <2>4. GivenIsBegun'
      BY <2>3, IdleCalls DEF OwnerInv, GivenIsBegun
    <2>5. ASSUME NEW s \in Sessions, NEW u \in Users
          PROVE  Names(u, s)' => Names(u, s)
      <3>1. \A c \in Sockets, k \in Frames : AuthNames(c, k, u, s)' => Names(u, s)
        <4> SUFFICES ASSUME NEW c \in Sockets, NEW k \in Frames, AuthNames(c, k, u, s)'
                     PROVE  Names(u, s)
          OBVIOUS
        <4>1. CASE auth'[c][k] = AuthIdle
          BY <4>1, IdleCalls, NoneAssumption DEF AuthNames
        <4>2. CASE auth'[c][k] = auth[c][k]
          BY <4>2 DEF AuthNames, Names
        <4> QED BY <2>3, <4>1, <4>2
      <3>2. \A c \in Sockets : DiscNames(c, u, s)' => Names(u, s)
        BY <2>1, IdleCalls DEF DiscNames, Names
      <3>3. \A c \in Sockets : PongNames(c, u, s)' => Names(u, s)
        BY <2>1, IdleCalls DEF PongNames, Names
      <3> QED BY <2>2, <3>1, <3>2, <3>3, UnchangedNames, NamesKept
    <2> QED BY <2>2, <2>4, <2>5, OwnersKept
  <1> QED BY <1>2, <1>3, <1>4, <1>5, <1>6

LEMMA OwnerStep == CallsInv /\ OwnerInv /\ [Next]_vars => OwnerInv'
  <1> SUFFICES ASSUME CallsInv, OwnerInv, [Next]_vars PROVE OwnerInv'
    OBVIOUS
  <1>1. CASE \E c \in Sockets : HandleConnection(c) \/ SocketCloses(c) \/ DisconnectStep(c)
    BY <1>1, OwnerDiscSteps
  <1>2. CASE \E c \in Sockets : PongStep(c)
    BY <1>2, OwnerPongSteps
  <1>3. CASE \E c \in Sockets, k \in Frames :
               \/ AuthStep(c, k) \/ AuthFails(c, k)
               \/ \E u \in Users, last \in Sessions \cup {None} : AuthConnect(c, k, u, last)
    BY <1>3, OwnerAuthSteps
  <1>4. CASE \/ UNCHANGED vars
             \/ \E n \in Nodes : QueryStep(n) \/ Crash(n) \/ \E u \in Users : QueryMembers(n, u)
             \/ \E s \in Sessions : WindowCloses(s) \/ RecordExpires(s)
    BY <1>4, OwnerOtherSteps
  <1> QED BY <1>1, <1>2, <1>3, <1>4 DEF Next

\* A session belongs to one public key for good, however many sockets, frames, nodes
\* and crashes there are: nobody is given the session of another key by naming it in
\* last_session_id, and no handler that was under way lists it for a second one.
THEOREM SessionHasOneOwner == Spec => []OneOwner
  <1>1. Init => CallsInv /\ OwnerInv
    BY CallsInit, OwnerInit
  <1>2. CallsInv /\ OwnerInv /\ [Next]_vars => (CallsInv /\ OwnerInv)'
    BY CallsStep, OwnerStep
  <1>3. CallsInv /\ OwnerInv => OneOwner
    <2> SUFFICES ASSUME CallsInv, OwnerInv PROVE OneOwner
      OBVIOUS
    <2>0. RedisTypeOK /\ AuthTypeOK
      BY PartsOfInv DEF Parts
    <2>1. ASSUME NEW c \in Sockets, NEW k \in Frames, auth[c][k].session # None,
                 record[auth[c][k].session] # None
          PROVE  record[auth[c][k].session].owner = auth[c][k].user
      <3>1. PICK s \in Sessions : s = auth[c][k].session
        BY <2>0, <2>1 DEF AuthTypeOK, AuthCall
      <3>2. auth[c][k].user \in Users
        BY <2>0, <2>1 DEF AuthTypeOK, OwnerInv, GivenIsBegun
      <3>3. record[s].owner \in Users
        BY <2>0, <2>1, <3>1 DEF RedisTypeOK, Record
      <3>4. Names(record[s].owner, s) /\ Names(auth[c][k].user, s)
        BY <2>1, <3>1 DEF Names, RecordNames, AuthNames
      <3> QED BY <3>1, <3>2, <3>3, <3>4 DEF OwnerInv, OwnersAgree
    <2>2. ASSUME NEW u \in Users, NEW v \in Users, u # v,
                 NEW s \in user_sessions[u] \cap user_sessions[v]
          PROVE  FALSE
      <3>1. s \in Sessions
        BY <2>0 DEF RedisTypeOK
      <3>2. Names(u, s) /\ Names(v, s)
        BY DEF Names, ListNames
      <3> QED BY <2>2, <3>1, <3>2 DEF OwnerInv, OwnersAgree
    <2> QED BY <2>1, <2>2 DEF OneOwner
  <1> QED BY <1>1, <1>2, <1>3, PTL DEF Spec
=============================================================================
