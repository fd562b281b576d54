------------------------------ MODULE RealtimeRooms ------------------------------
(***************************************************************************)
(* Room membership of realtime sessions: the set of rooms a session has in *)
(* Redis, and on every node two Maps that index the sessions it has        *)
(* sockets of.  Joins and leaves go to Redis, to the caller's own Maps and *)
(* over a Redis channel to everyone's; a connection that resumes a session *)
(* reads the rooms and writes them back.                                   *)
(*                                                                         *)
(* Handlers are cut at their awaits.  RealtimeSession has the sockets and  *)
(* the records; here a node has a socket of a session or it has none, and  *)
(* a session's rooms do not outlive their TTL apart from its record.       *)
(***************************************************************************)
EXTENDS Naturals, FiniteSets, Sequences

CONSTANTS
  Nodes,        \* backend nodes
  Sessions,     \* sessions of one user
  ChatRooms,    \* chat:{room_id}
  UserRoom,     \* user:{public_key}
  MaxRoomCalls, \* bound: joins and leaves
  MaxLosses     \* bound: control messages lost and nodes that stop

ASSUME RoomsAssumption      == UserRoom \notin ChatRooms
ASSUME RoomBoundsAssumption == MaxRoomCalls \in Nat /\ MaxLosses \in Nat

VARIABLES
  present,     \* per node, the sessions it has a socket of (has_local_session)
  created,     \* sessions there is a record of
  storedRooms, \* per session, its set of rooms in Redis
  roomsOf,     \* per node, local_session_rooms
  sessionsIn,  \* per node, local_room_sessions
  connecting,  \* per node and session, handle_auth_connect under way
  roomCalls,   \* joins and leaves under way
  control,     \* per node, control messages it has not handled, in order
  overlapped,  \* ghost: sessions with a call that met another or a connection
  raced,       \* ghost: of these, the ones whose rooms a call changed while a connection
               \* that had read them was about to write them
  strayed,     \* ghost: nodes that miss a message, with the session it was about
  callCount, losses

roomVars == <<present, created, storedRooms, roomsOf, sessionsIn, connecting, roomCalls,
              control, overlapped, raced, strayed, callCount, losses>>

Rooms   == ChatRooms \cup {UserRoom}
Control == [action: {"join", "leave"}, session: Sessions, room: Rooms]
Call    == [node: Nodes, message: Control, pc: {"store", "index", "publish"}]
Idle    == [pc |-> "idle", rooms |-> {}]

RoomsTypeOK ==
  /\ present     \in [Nodes -> SUBSET Sessions]
  /\ created     \subseteq Sessions
  /\ storedRooms \in [Sessions -> SUBSET Rooms]
  /\ roomsOf     \in [Nodes -> [Sessions -> SUBSET Rooms]]
  /\ sessionsIn  \in [Nodes -> [Rooms -> SUBSET Sessions]]
  /\ connecting  \in [Nodes -> [Sessions ->
       [pc: {"idle", "mark", "read", "restore", "replace", "index"}, rooms: SUBSET Rooms]]]
  /\ roomCalls   \subseteq Call
  /\ control     \in [Nodes -> Seq(Control)]
  /\ overlapped  \subseteq Sessions
  /\ raced       \subseteq Sessions
  /\ strayed     \subseteq Nodes \X Sessions
  /\ callCount   \in 0..MaxRoomCalls
  /\ losses      \in 0..MaxLosses

RoomsInit ==
  /\ present     = [n \in Nodes |-> {}]
  /\ created     = {}
  /\ storedRooms = [s \in Sessions |-> {}]
  /\ roomsOf     = [n \in Nodes |-> [s \in Sessions |-> {}]]
  /\ sessionsIn  = [n \in Nodes |-> [r \in Rooms |-> {}]]
  /\ connecting  = [n \in Nodes |-> [s \in Sessions |-> Idle]]
  /\ roomCalls   = {}
  /\ control     = [n \in Nodes |-> <<>>]
  /\ overlapped  = {}
  /\ raced       = {}
  /\ strayed     = {}
  /\ callCount   = 0
  /\ losses      = 0

-----------------------------------------------------------------------------
(* The index.  Each operator says what becomes of both Maps of node n.     *)

Indexed(n, ofSession, inRoom) ==
  /\ roomsOf'    = [roomsOf EXCEPT ![n] = ofSession]
  /\ sessionsIn' = [sessionsIn EXCEPT ![n] = inRoom]

\* add_local_room_membership: only for a session the node has a socket of
AddLocal(n, s, r) ==
  IF s \in present[n]
  THEN Indexed(n, [roomsOf[n] EXCEPT ![s] = @ \cup {r}], [sessionsIn[n] EXCEPT ![r] = @ \cup {s}])
  ELSE UNCHANGED <<roomsOf, sessionsIn>>

RemoveFromRoomOnly(n, s, r) ==   \* mutant
  Indexed(n, roomsOf[n], [sessionsIn[n] EXCEPT ![r] = @ \ {s}])

\* remove_local_room_membership
RemoveLocal(n, s, r) ==
  Indexed(n, [roomsOf[n] EXCEPT ![s] = @ \ {r}], [sessionsIn[n] EXCEPT ![r] = @ \ {s}])

\* clear_local_memberships, and then add_local_room_membership for each room
SyncLocal(n, s, rooms) ==
  LET added == IF s \in present[n] THEN rooms ELSE {} IN
  Indexed(n, [roomsOf[n] EXCEPT ![s] = added],
             [r \in Rooms |-> IF r \in added THEN sessionsIn[n][r] \cup {s}
                                             ELSE sessionsIn[n][r] \ {s}])

-----------------------------------------------------------------------------
(* handle_auth_connect, from the moment it knows the session.              *)

ConnectGoesTo(n, s, pc, rooms) ==
  connecting' = [connecting EXCEPT ![n][s] = [pc |-> pc, rooms |-> rooms]]

NoneOnItsWay(n, s) == \A i \in DOMAIN control[n] : control[n][i].session # s
Connecting(s)  == \E n \in Nodes : connecting[n][s].pc # "idle"
CallsFor(s)    == {c \in roomCalls : c.message.session = s}
\* the rooms a connection is going to write are settled already
Carrying(s) == \E n \in Nodes : connecting[n][s].pc \in {"mark", "restore", "replace"}
ConnectMeets(s) == IF CallsFor(s) # {} THEN overlapped \cup {s} ELSE overlapped

\* create_or_restore_session lists a new session as active ...
SessionCreated(n, s) ==
  /\ s \notin created
  /\ created' = created \cup {s}
  /\ ConnectGoesTo(n, s, "mark", {})
  /\ UNCHANGED <<present, storedRooms, roomsOf, sessionsIn, roomCalls, control, overlapped, raced,
                 strayed, callCount, losses>>

\* ... and mark_authenticated follows; a new session has the user's room alone
NewSessionMarked(n, s) ==
  /\ connecting[n][s].pc = "mark"
  /\ present' = [present EXCEPT ![n] = @ \cup {s}]
  /\ ConnectGoesTo(n, s, "replace", {UserRoom})
  /\ UNCHANGED <<created, storedRooms, roomsOf, sessionsIn, roomCalls, control, overlapped, raced,
                 strayed, callCount, losses>>

SessionRestored(n, s) ==
  /\ s \in created /\ connecting[n][s].pc = "idle"
  /\ present' = [present EXCEPT ![n] = @ \cup {s}]
  /\ ConnectGoesTo(n, s, "read", {})
  /\ overlapped' = ConnectMeets(s)
  /\ UNCHANGED <<created, storedRooms, roomsOf, sessionsIn, roomCalls, control, raced, strayed,
                 callCount, losses>>

\* restore_session_rooms: SMEMBERS ...
RoomsRead(n, s) ==
  /\ connecting[n][s].pc = "read"
  /\ ConnectGoesTo(n, s, "restore", storedRooms[s])
  /\ UNCHANGED <<present, created, storedRooms, roomsOf, sessionsIn, roomCalls, control,
                 overlapped, raced, strayed, callCount, losses>>

DefaultRoom(restored) == {UserRoom}   \* mutant

\* what the gateway makes of the rooms restored
RoomsOfSession(restored) == restored \cup {UserRoom}

\* ... and sync_local_rooms with what it answered
RoomsRestored(n, s) ==
  /\ connecting[n][s].pc = "restore"
  /\ SyncLocal(n, s, connecting[n][s].rooms)
  /\ ConnectGoesTo(n, s, "replace", RoomsOfSession(connecting[n][s].rooms))
  /\ UNCHANGED <<present, created, storedRooms, roomCalls, control, overlapped, raced, strayed,
                 callCount, losses>>

\* replace_session_rooms: DEL and SADD in one MULTI ...
RoomsReplaced(n, s) ==
  /\ connecting[n][s].pc = "replace"
  /\ storedRooms' = [storedRooms EXCEPT ![s] = connecting[n][s].rooms]
  /\ ConnectGoesTo(n, s, "index", connecting[n][s].rooms)
  /\ UNCHANGED <<present, created, roomsOf, sessionsIn, roomCalls, control, overlapped, raced,
                 strayed, callCount, losses>>

\* ... and sync_local_rooms; nothing is published
RoomsIndexed(n, s) ==
  /\ connecting[n][s].pc = "index"
  /\ SyncLocal(n, s, connecting[n][s].rooms)
  /\ ConnectGoesTo(n, s, "idle", {})
  /\ strayed' = IF NoneOnItsWay(n, s) THEN strayed \ {<<n, s>>} ELSE strayed
  /\ UNCHANGED <<present, created, storedRooms, roomCalls, control, overlapped, raced, callCount,
                 losses>>

\* clear_local_memberships
ClearLocal(n, s) ==
  Indexed(n, [roomsOf[n] EXCEPT ![s] = {}], [r \in Rooms |-> sessionsIn[n][r] \ {s}])

\* handleDisconnect of the session's last socket on the node
LastSocketGone(n, s) ==
  /\ s \in present[n]
  /\ present' = [present EXCEPT ![n] = @ \ {s}]
  /\ ClearLocal(n, s)
  /\ UNCHANGED <<created, storedRooms, connecting, roomCalls, control, overlapped, raced, strayed,
                 callCount, losses>>

-----------------------------------------------------------------------------
(* join_chat_room and leave_chat_room, for one of the active sessions.     *)

RoomCall(n, m) ==
  /\ callCount < MaxRoomCalls /\ m.session \in created /\ m.room \in ChatRooms
  /\ callCount' = callCount + 1
  /\ roomCalls' = roomCalls \cup {[node |-> n, message |-> m, pc |-> "store"]}
  /\ overlapped' = IF Connecting(m.session) \/ CallsFor(m.session) # {}
                   THEN overlapped \cup {m.session} ELSE overlapped
  /\ UNCHANGED <<present, created, storedRooms, roomsOf, sessionsIn, connecting, control, raced,
                 strayed, losses>>

CallGoesTo(c, pc) == roomCalls' = (roomCalls \ {c}) \cup {[c EXCEPT !.pc = pc]}

\* SADD or SREM
CallStored(c) ==
  LET m == c.message IN
  /\ c \in roomCalls /\ c.pc = "store"
  /\ storedRooms' = [storedRooms EXCEPT ![m.session] =
                       IF m.action = "join" THEN @ \cup {m.room} ELSE @ \ {m.room}]
  /\ CallGoesTo(c, "index")
  /\ raced' = IF Carrying(m.session) THEN raced \cup {m.session} ELSE raced
  /\ UNCHANGED <<present, created, roomsOf, sessionsIn, connecting, control, overlapped, strayed,
                 callCount, losses>>

MembershipMoves(n, m) ==
  IF m.action = "join" THEN AddLocal(n, m.session, m.room) ELSE RemoveLocal(n, m.session, m.room)

CallIndexed(c) ==
  /\ c \in roomCalls /\ c.pc = "index"
  /\ MembershipMoves(c.node, c.message)
  /\ CallGoesTo(c, "publish")
  /\ UNCHANGED <<present, created, storedRooms, connecting, control, overlapped, raced, strayed,
                 callCount, losses>>

SentToOwnNodeOnly(c) == {c.node}   \* mutant

\* publish_room_control goes to every subscriber, the publisher among them
Subscribers(c) == Nodes

CallPublished(c) ==
  /\ c \in roomCalls /\ c.pc = "publish"
  /\ control' = [n \in Nodes |-> IF n \in Subscribers(c) THEN Append(control[n], c.message)
                                                          ELSE control[n]]
  /\ roomCalls' = roomCalls \ {c}
  /\ UNCHANGED <<present, created, storedRooms, roomsOf, sessionsIn, connecting, overlapped,
                 raced, strayed, callCount, losses>>

\* handle_room_control_message; a session that is elsewhere is passed over
ControlHandled(n) ==
  /\ control[n] # <<>>
  /\ control' = [control EXCEPT ![n] = Tail(@)]
  /\ IF Head(control[n]).session \in present[n]
       THEN MembershipMoves(n, Head(control[n]))
       ELSE UNCHANGED <<roomsOf, sessionsIn>>
  /\ UNCHANGED <<present, created, storedRooms, connecting, roomCalls, overlapped, raced, strayed,
                 callCount, losses>>

\* the subscriber's connection breaks for a moment
ControlLost(n) ==
  /\ control[n] # <<>> /\ losses < MaxLosses
  /\ losses' = losses + 1
  /\ control' = [control EXCEPT ![n] = Tail(@)]
  /\ strayed' = strayed \cup {<<n, Head(control[n]).session>>}
  /\ UNCHANGED <<present, created, storedRooms, roomsOf, sessionsIn, connecting, roomCalls,
                 overlapped, raced, callCount>>

\* a node dies with its handlers, and starts again; what its calls have not published
\* reaches nobody
NodeStops(n) ==
  LET cut == {c \in roomCalls : c.node = n} IN
  /\ losses < MaxLosses
  /\ losses' = losses + 1
  /\ present' = [present EXCEPT ![n] = {}]
  /\ Indexed(n, [s \in Sessions |-> {}], [r \in Rooms |-> {}])
  /\ connecting' = [connecting EXCEPT ![n] = [s \in Sessions |-> Idle]]
  /\ control' = [control EXCEPT ![n] = <<>>]
  /\ roomCalls' = roomCalls \ cut
  /\ strayed' = strayed \cup (Nodes \X {c.message.session : c \in cut})
  /\ UNCHANGED <<created, storedRooms, overlapped, raced, callCount>>

ConnectStep(n, s) ==
  \/ SessionCreated(n, s) \/ NewSessionMarked(n, s) \/ SessionRestored(n, s)
  \/ RoomsRead(n, s) \/ RoomsRestored(n, s) \/ RoomsReplaced(n, s) \/ RoomsIndexed(n, s)

RoomsNext ==
  \/ \E n \in Nodes, s \in Sessions : ConnectStep(n, s) \/ LastSocketGone(n, s)
  \/ \E n \in Nodes, m \in Control : RoomCall(n, m)
  \/ \E c \in roomCalls : CallStored(c) \/ CallIndexed(c) \/ CallPublished(c)
  \/ \E n \in Nodes : ControlHandled(n) \/ ControlLost(n) \/ NodeStops(n)

RoomsSpec == RoomsInit /\ [][RoomsNext]_roomVars

-----------------------------------------------------------------------------
(* Properties.                                                             *)

\* The two Maps of a node agree, and name only sessions it has a socket of,
\* however joins, control messages, restores and disconnects interleave.
IndexAgrees ==
  \A n \in Nodes, s \in Sessions, r \in Rooms :
    /\ r \in roomsOf[n][s] <=> s \in sessionsIn[n][r]
    /\ r \in roomsOf[n][s] => s \in present[n]

Quiet(s) ==
  /\ ~Connecting(s) /\ CallsFor(s) = {}
  /\ \A n \in Nodes : NoneOnItsWay(n, s)

\* When everything about a session has been handled, each node that has a socket of
\* it has indexed the rooms that are stored: calls that follow each other reach every
\* node, in their order, by way of one channel, whoever makes them.  Two things are
\* excepted.  A session of which a call met another call or a connection; and a node
\* that misses a message about it, because its subscription broke or the node of the
\* call died, until a connection of the session there indexes its rooms anew.
IndexIsStored ==
  \A n \in Nodes, s \in Sessions :
    Quiet(s) /\ s \notin overlapped /\ <<n, s>> \notin strayed /\ s \in present[n] =>
      roomsOf[n][s] = storedRooms[s]

\* A room is taken from a session by leaving it, through any number of reconnections,
\* deaths of nodes, calls cut short, calls that meet each other and lost messages: the
\* service "stores and restores room membership".  The one exception is a session of
\* which a call changed the rooms between a connection's read of them and its write:
\* the connection writes back what it read, and a join in between is gone.
JoinedStays ==
  [][\A s \in Sessions \ raced : \A r \in storedRooms[s] \ storedRooms'[s] :
       \E c \in CallsFor(s) : c.message.action = "leave" /\ c.message.room = r]_roomVars
=============================================================================
