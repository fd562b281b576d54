----------------------------- MODULE RealtimeSession -----------------------------
(***************************************************************************)
(* Realtime sessions over several backend nodes that share a Redis: the    *)
(* auth.connect, disconnect and pong handlers of the gateway with the      *)
(* session, connection and room services they call, and the presence query *)
(* (get_active_session_ids) of the other modules.                          *)
(*                                                                         *)
(* A handler is cut at its awaits.  One step is a Redis command together   *)
(* with the synchronous code that runs on its reply.  Timestamps are kept  *)
(* as one bit of the session record: is reconnect_expires_at still ahead.  *)
(* Personal rooms only: chat rooms change none of this state.              *)
(***************************************************************************)
EXTENDS Naturals, FiniteSets

CONSTANTS
  Nodes,       \* backend processes
  Sockets,     \* WebSocket connections, each used once
  NodeOf,      \* the node that accepts each socket
  Users,       \* public keys
  Sessions,    \* session ids randomUUID can yield (bounds the sessions created)
  Frames,      \* auth.connect frames a client may send on one socket
  Queriers,    \* nodes whose modules ask for a user's active sessions
  MaxCrashes,  \* bound: how many times a node process dies
  None         \* null

ASSUME PlacementAssumption == NodeOf \in [Sockets -> Nodes]
ASSUME QueriersAssumption  == Queriers \subseteq Nodes
ASSUME CrashesAssumption   == MaxCrashes \in Nat
ASSUME NoneAssumption      == None \notin Sessions \cup Users

VARIABLES
  sock,            \* readyState of each socket: "new", "open", "closing", "gone"
  bound,           \* client_states: the session a socket is authenticated into
  session_clients, \* per node and session, the sockets registered for it
  in_room,         \* per node, the sessions its personal-room index names
  record,          \* Redis: the session record, or None
  user_sessions,   \* Redis: per user, the ids of its active sessions
  created,         \* session ids handed out so far
  auth,            \* per socket and frame, the handle_auth_connect call
  disc,            \* per socket, the handleDisconnect call
  pong,            \* per socket, the handle_pong call
  query,           \* per node, the get_active_session_ids call
  crashes          \* how many node processes have died

vars == <<sock, bound, session_clients, in_room, record, user_sessions,
          created, auth, disc, pong, query, crashes>>

connVars  == <<sock, bound, session_clients, in_room>>
redisVars == <<record, user_sessions, created>>

\* RealtimeSessionRecord; fresh: reconnect_expires_at has not passed
Record == [status: {"active", "disconnected"}, node: Nodes, owner: Users,
           fresh: BOOLEAN]

AuthIdle  == [pc |-> "idle", user |-> None, last |-> None, session |-> None]
DiscIdle  == [pc |-> "idle", session |-> None, read |-> None]
PongIdle  == [pc |-> "idle", session |-> None, read |-> None]
QueryIdle == [pc |-> "idle", user |-> None, ids |-> {}]

AuthPc == {"idle", "verify", "lookup", "restore", "create", "list", "rooms",
           "done", "failed"}

TypeOK ==
  /\ sock            \in [Sockets -> {"new", "open", "closing", "gone"}]
  /\ bound           \in [Sockets -> Sessions \cup {None}]
  /\ session_clients \in [Nodes -> [Sessions -> SUBSET Sockets]]
  /\ in_room         \in [Nodes -> SUBSET Sessions]
  /\ record          \in [Sessions -> Record \cup {None}]
  /\ user_sessions   \in [Users -> SUBSET Sessions]
  /\ created         \subseteq Sessions
  /\ auth  \in [Sockets -> [Frames -> [pc: AuthPc, user: Users \cup {None},
                                       last: Sessions \cup {None},
                                       session: Sessions \cup {None}]]]
  /\ disc  \in [Sockets -> [pc: {"idle", "read", "write", "unlist"},
                            session: Sessions \cup {None},
                            read: Record \cup {None}]]
  /\ pong  \in [Sockets -> [pc: {"idle", "write", "list"},
                            session: Sessions \cup {None},
                            read: Record \cup {None}]]
  /\ query \in [Nodes -> [pc: {"idle", "read", "prune"},
                          user: Users \cup {None}, ids: SUBSET Sessions]]
  /\ crashes \in 0..MaxCrashes

Init ==
  /\ sock            = [c \in Sockets |-> "new"]
  /\ bound           = [c \in Sockets |-> None]
  /\ session_clients = [n \in Nodes |-> [s \in Sessions |-> {}]]
  /\ in_room         = [n \in Nodes |-> {}]
  /\ record          = [s \in Sessions |-> None]
  /\ user_sessions   = [u \in Users |-> {}]
  /\ created         = {}
  /\ auth            = [c \in Sockets |-> [k \in Frames |-> AuthIdle]]
  /\ disc            = [c \in Sockets |-> DiscIdle]
  /\ pong            = [c \in Sockets |-> PongIdle]
  /\ query           = [n \in Nodes |-> QueryIdle]
  /\ crashes         = 0

-----------------------------------------------------------------------------
(* Services.                                                               *)

\* has_local_session
HasLocalSession(n, s) == session_clients[n][s] # {}

\* has_local_session is false once socket c is removed from its session
AnySocketIsLast(c) == TRUE   \* mutant

IsLastSocket(c) == session_clients[NodeOf[c]][bound[c]] = {c}

\* sync_local_rooms adds the session to its personal room while it has a local
\* socket
LocalRooms(n, s) == IF HasLocalSession(n, s) THEN in_room[n] \cup {s} ELSE in_room[n] \ {s}

\* client_states has an entry from handleConnection to handleDisconnect
WasRegistered(c) == sock[c] # "new"   \* mutant

IsRegistered(c) == sock[c] \in {"open", "closing"}

\* touch_session lists a session it found active again
NeverListed(r) == FALSE   \* mutant

ListedByTouch(r) == r.status = "active"

\* the record create_or_restore_session persists on behalf of socket c and user u
ActiveRecord(c, u) == [status |-> "active", node |-> NodeOf[c],
                       owner |-> u, fresh |-> TRUE]

\* persist_session; every caller pushes reconnect_expires_at ahead
Persist(s, r) == record' = [record EXCEPT ![s] = [r EXCEPT !.fresh = TRUE]]

\* create_or_restore_session restores what the same key may still resume
RestorableByAnyone(u, s) == record[s] # None /\ record[s].fresh   \* mutant

Restorable(u, s) ==
  /\ record[s] # None
  /\ record[s].owner = u
  /\ record[s].fresh

\* the next await of an auth.connect call, or its end
AuthGoesTo(c, k, pc) == auth' = [auth EXCEPT ![c][k].pc = pc]

-----------------------------------------------------------------------------
(* handleConnection and auth.connect.                                      *)

HandleConnection(c) ==
  /\ sock[c] = "new"
  /\ sock' = [sock EXCEPT ![c] = "open"]
  /\ UNCHANGED <<bound, session_clients, in_room, auth, disc, pong, query, crashes>>
  /\ UNCHANGED redisVars

\* The frame arrives: refused on an authenticated socket, otherwise the
\* challenge is being consumed.  u, last: the payload's public_key and last_session_id.
AuthConnect(c, k, u, last) ==
  /\ sock[c] = "open"
  /\ auth[c][k] = AuthIdle
  /\ bound[c] = None
  /\ last \in created \cup {None}
  /\ auth' = [auth EXCEPT ![c][k] = [pc |-> "verify", user |-> u,
                                      last |-> last, session |-> None]]
  /\ UNCHANGED <<connVars, redisVars, disc, pong, query, crashes>>

\* The challenge was good: close_session_clients of the session to resume, on
\* this node
ChallengeConsumed(c, k) ==
  LET n    == NodeOf[c]
      last == auth[c][k].last
      old  == IF last = None THEN {} ELSE session_clients[n][last]
  IN
  /\ auth[c][k].pc = "verify"
  /\ AuthGoesTo(c, k, IF last = None THEN "create" ELSE "lookup")
  /\ sock' = [d \in Sockets |->
                IF d \in old /\ sock[d] = "open" THEN "closing" ELSE sock[d]]
  /\ UNCHANGED <<bound, session_clients, in_room, redisVars, disc, pong, query, crashes>>

\* create_or_restore_session, GET of the session to resume
SessionLookedUp(c, k) ==
  LET call == auth[c][k] IN
  /\ call.pc = "lookup"
  /\ AuthGoesTo(c, k, IF Restorable(call.user, call.last) THEN "restore" ELSE "create")
  /\ UNCHANGED <<connVars, redisVars, disc, pong, query, crashes>>

\* create_or_restore_session, SET of a restored record
SessionRestored(c, k) ==
  LET last == auth[c][k].last IN
  /\ auth[c][k].pc = "restore"
  /\ Persist(last, ActiveRecord(c, auth[c][k].user))
  /\ auth' = [auth EXCEPT ![c][k].pc = "list", ![c][k].session = last]
  /\ UNCHANGED <<connVars, user_sessions, created, disc, pong, query, crashes>>

\* create_or_restore_session, SET of a record under a new id
SessionCreated(c, k) ==
  /\ auth[c][k].pc = "create"
  /\ \E s \in Sessions \ created :
       /\ Persist(s, ActiveRecord(c, auth[c][k].user))
       /\ created' = created \cup {s}
       /\ auth' = [auth EXCEPT ![c][k].pc = "list", ![c][k].session = s]
  /\ UNCHANGED <<connVars, user_sessions, disc, pong, query, crashes>>

\* add_active_session, then mark_authenticated: nothing is bound if the socket
\* has been removed meanwhile
SessionListed(c, k) ==
  LET n == NodeOf[c]
      s == auth[c][k].session
  IN
  /\ auth[c][k].pc = "list"
  /\ user_sessions' = [user_sessions EXCEPT ![auth[c][k].user] = @ \cup {s}]
  /\ IF IsRegistered(c)
       THEN /\ bound' = [bound EXCEPT ![c] = s]
            /\ session_clients' = [session_clients EXCEPT ![n][s] = @ \cup {c}]
       ELSE UNCHANGED <<bound, session_clients>>
  /\ AuthGoesTo(c, k, "rooms")
  /\ UNCHANGED <<sock, in_room, record, created, disc, pong, query, crashes>>

\* replace_session_rooms, sync_local_rooms: joins the personal room while the
\* session has a local socket; then system.connected is sent
RoomsJoined(c, k) ==
  LET n == NodeOf[c]
      s == auth[c][k].session
  IN
  /\ auth[c][k].pc = "rooms"
  /\ in_room' = [in_room EXCEPT ![n] = LocalRooms(n, s)]
  /\ AuthGoesTo(c, k, "done")
  /\ UNCHANGED <<sock, bound, session_clients, redisVars, disc, pong, query, crashes>>

\* Any await of auth.connect may throw (a bad challenge, Redis down):
\* handle_auth_error closes the socket; what was written stays
AuthFails(c, k) ==
  /\ auth[c][k].pc \in {"verify", "lookup", "restore", "create", "list", "rooms"}
  /\ AuthGoesTo(c, k, "failed")
  /\ sock' = IF sock[c] = "open" THEN [sock EXCEPT ![c] = "closing"] ELSE sock
  /\ UNCHANGED <<bound, session_clients, in_room, redisVars, disc, pong, query, crashes>>

-----------------------------------------------------------------------------
(* Closing and handleDisconnect.                                           *)

\* the client goes away, authentication times out or the heartbeat terminates
SocketCloses(c) ==
  /\ sock[c] = "open"
  /\ sock' = [sock EXCEPT ![c] = "closing"]
  /\ UNCHANGED <<bound, session_clients, in_room, redisVars, auth, disc, pong, query, crashes>>

\* handleDisconnect up to its await: remove_client; with the session's last
\* local socket, clear_local_memberships, and mark_session_disconnected begins
HandleDisconnect(c) ==
  LET n == NodeOf[c]
      s == bound[c]
  IN
  /\ sock[c] = "closing"
  /\ sock'  = [sock EXCEPT ![c] = "gone"]
  /\ bound' = [bound EXCEPT ![c] = None]
  /\ session_clients' = IF s = None THEN session_clients
                        ELSE [session_clients EXCEPT ![n][s] = @ \ {c}]
  /\ IF s # None /\ IsLastSocket(c)
       THEN /\ in_room' = [in_room EXCEPT ![n] = @ \ {s}]
            /\ disc' = [disc EXCEPT ![c] = [pc |-> "read", session |-> s, read |-> None]]
       ELSE UNCHANGED <<in_room, disc>>
  /\ UNCHANGED <<redisVars, auth, pong, query, crashes>>

\* mark_session_disconnected, GET: a session another node has active is left
DisconnectReads(c) ==
  LET r == record[disc[c].session] IN
  /\ disc[c].pc = "read"
  /\ disc' = [disc EXCEPT ![c] =
       IF r = None THEN DiscIdle
       ELSE IF r.node # NodeOf[c] /\ r.status = "active" THEN DiscIdle
       ELSE [@ EXCEPT !.pc = "write", !.read = r]]
  /\ UNCHANGED <<connVars, redisVars, auth, pong, query, crashes>>

\* mark_session_disconnected, SET
DisconnectWrites(c) ==
  /\ disc[c].pc = "write"
  /\ Persist(disc[c].session, [disc[c].read EXCEPT !.status = "disconnected"])
  /\ disc' = [disc EXCEPT ![c].pc = "unlist"]
  /\ UNCHANGED <<connVars, user_sessions, created, auth, pong, query, crashes>>

\* mark_session_disconnected, remove_active_session
DisconnectUnlists(c) ==
  LET owner == disc[c].read.owner IN
  /\ disc[c].pc = "unlist"
  /\ user_sessions' = [user_sessions EXCEPT ![owner] = @ \ {disc[c].session}]
  /\ disc' = [disc EXCEPT ![c] = DiscIdle]
  /\ UNCHANGED <<connVars, record, created, auth, pong, query, crashes>>

-----------------------------------------------------------------------------
(* Pongs and presence.                                                     *)

\* handle_pong, touch_session's GET
PongReads(c) ==
  LET s == bound[c] IN
  /\ sock[c] = "open" /\ s # None
  /\ pong[c] = PongIdle
  /\ record[s] # None
  /\ pong' = [pong EXCEPT ![c] = [pc |-> "write", session |-> s, read |-> record[s]]]
  /\ UNCHANGED <<connVars, redisVars, auth, disc, query, crashes>>

\* touch_session, SET of what was read; an active session is listed again
PongWrites(c) ==
  /\ pong[c].pc = "write"
  /\ Persist(pong[c].session, pong[c].read)
  /\ pong' = [pong EXCEPT ![c] = IF ListedByTouch(@.read)
                                   THEN [@ EXCEPT !.pc = "list"] ELSE PongIdle]
  /\ UNCHANGED <<connVars, user_sessions, created, auth, disc, query, crashes>>

\* touch_session, add_active_session
PongLists(c) ==
  LET owner == pong[c].read.owner IN
  /\ pong[c].pc = "list"
  /\ user_sessions' = [user_sessions EXCEPT ![owner] = @ \cup {pong[c].session}]
  /\ pong' = [pong EXCEPT ![c] = PongIdle]
  /\ UNCHANGED <<connVars, record, created, auth, disc, query, crashes>>

\* get_active_session_ids, SMEMBERS
QueryMembers(n, u) ==
  /\ n \in Queriers
  /\ query[n] = QueryIdle
  /\ user_sessions[u] # {}
  /\ query' = [query EXCEPT ![n] = [pc |-> "read", user |-> u, ids |-> user_sessions[u]]]
  /\ UNCHANGED <<connVars, redisVars, auth, disc, pong, crashes>>

\* get_active_session_ids, the GETs; ids: the stale ones
QueryReads(n) ==
  LET u     == query[n].user
      stale == {s \in query[n].ids : record[s] = None \/
                  ~(record[s].owner = u /\ record[s].status = "active")}
  IN
  /\ query[n].pc = "read"
  /\ query' = [query EXCEPT ![n] =
       IF stale = {} THEN QueryIdle ELSE [@ EXCEPT !.pc = "prune", !.ids = stale]]
  /\ UNCHANGED <<connVars, redisVars, auth, disc, pong, crashes>>

\* get_active_session_ids, SREM of the stale ids
QueryPrunes(n) ==
  /\ query[n].pc = "prune"
  /\ user_sessions' = [user_sessions EXCEPT ![query[n].user] = @ \ query[n].ids]
  /\ query' = [query EXCEPT ![n] = QueryIdle]
  /\ UNCHANGED <<connVars, record, created, auth, disc, pong, crashes>>

-----------------------------------------------------------------------------
(* Time and crashes.                                                       *)

\* Nobody renews the record: no socket is bound to the session and no handler
\* is about to write it.  A bound socket renews it with its pongs, or is
\* terminated by the heartbeat well within the grace period.
Unattended(s) ==
  \A c \in Sockets :
    /\ bound[c] # s
    /\ disc[c].session # s /\ pong[c].session # s
    /\ \A k \in Frames : auth[c][k].pc \in {"restore", "list", "rooms"} =>
         auth[c][k].session # s /\ auth[c][k].last # s

\* reconnect_expires_at passes
WindowCloses(s) ==
  /\ record[s] # None /\ record[s].fresh
  /\ Unattended(s)
  /\ record' = [record EXCEPT ![s].fresh = FALSE]
  /\ UNCHANGED <<connVars, user_sessions, created, auth, disc, pong, query, crashes>>

\* the TTL persist_session sets (30 s more than the grace period) runs out
RecordWithoutTtl(s) == UNCHANGED vars   \* mutant

RecordExpires(s) ==
  /\ record[s] # None /\ ~record[s].fresh
  /\ Unattended(s)
  /\ record' = [record EXCEPT ![s] = None]
  /\ UNCHANGED <<connVars, user_sessions, created, auth, disc, pong, query, crashes>>

\* a node process dies: no handleDisconnect runs for its sockets
Crash(n) ==
  LET hit == {c \in Sockets : NodeOf[c] = n /\ sock[c] # "new"} IN
  /\ crashes < MaxCrashes
  /\ crashes' = crashes + 1
  /\ sock'    = [c \in Sockets |-> IF c \in hit THEN "gone" ELSE sock[c]]
  /\ bound'   = [c \in Sockets |-> IF c \in hit THEN None ELSE bound[c]]
  /\ auth'    = [c \in Sockets |-> IF c \in hit
                   THEN [k \in Frames |-> AuthIdle] ELSE auth[c]]
  /\ disc'    = [c \in Sockets |-> IF c \in hit THEN DiscIdle ELSE disc[c]]
  /\ pong'    = [c \in Sockets |-> IF c \in hit THEN PongIdle ELSE pong[c]]
  /\ session_clients' = [session_clients EXCEPT ![n] = [s \in Sessions |-> {}]]
  /\ in_room' = [in_room EXCEPT ![n] = {}]
  /\ query'   = [query EXCEPT ![n] = QueryIdle]
  /\ UNCHANGED redisVars

-----------------------------------------------------------------------------
AuthStep(c, k) ==
  \/ ChallengeConsumed(c, k)
  \/ SessionLookedUp(c, k)
  \/ SessionRestored(c, k)
  \/ SessionCreated(c, k)
  \/ SessionListed(c, k)
  \/ RoomsJoined(c, k)

DisconnectStep(c) ==
  HandleDisconnect(c) \/ DisconnectReads(c) \/ DisconnectWrites(c) \/ DisconnectUnlists(c)

PongStep(c) == PongReads(c) \/ PongWrites(c) \/ PongLists(c)

QueryStep(n) == QueryReads(n) \/ QueryPrunes(n)

Next ==
  \/ \E c \in Sockets : HandleConnection(c) \/ SocketCloses(c)
                        \/ DisconnectStep(c) \/ PongStep(c)
  \/ \E c \in Sockets, k \in Frames : AuthStep(c, k) \/ AuthFails(c, k)
  \/ \E c \in Sockets, k \in Frames, u \in Users, last \in Sessions \cup {None} :
       AuthConnect(c, k, u, last)
  \/ \E n \in Nodes, u \in Users : QueryMembers(n, u)
  \/ \E n \in Nodes : QueryStep(n) \/ Crash(n)
  \/ \E s \in Sessions : WindowCloses(s) \/ RecordExpires(s)

Spec == Init /\ [][Next]_vars

\* Redis answers a node that is up, a closing socket gets its close event, open
\* sockets answer pings, and time passes.  Clients and crashes are free.
Fairness ==
  /\ \A c \in Sockets : WF_vars(DisconnectStep(c)) /\ WF_vars(PongStep(c))
  /\ \A c \in Sockets, k \in Frames : WF_vars(AuthStep(c, k))
  /\ \A n \in Nodes : WF_vars(QueryStep(n))
  /\ \A s \in Sessions : WF_vars(WindowCloses(s)) /\ WF_vars(RecordExpires(s))

FairSpec == Spec /\ Fairness

-----------------------------------------------------------------------------
(* Properties.                                                             *)

\* Only sockets that are connected and authenticated into a session are
\* registered for it: "tracks live WebSocket clients on the current node"
\* (README).  mark_authenticated runs four awaits after the socket was checked.
ClientsAreLive ==
  \A n \in Nodes, s \in Sessions : \A c \in session_clients[n][s] :
    sock[c] \in {"open", "closing"} /\ bound[c] = s /\ NodeOf[c] = n

\* The local room index names a session only while the node has a socket of it,
\* whatever order disconnects and resuming connections run in.
RoomsHaveClients ==
  \A n \in Nodes : \A s \in in_room[n] : HasLocalSession(n, s)

\* "The session automatically joins the personal room" (README): once
\* auth.connect has completed, and although an older socket of the session may
\* disconnect at any point, the session of an open socket is in its room.
ConnectedIsInRoom ==
  \A c \in Sockets, k \in Frames :
    (auth[c][k].pc = "done" /\ sock[c] = "open" /\ bound[c] = auth[c][k].session)
      => bound[c] \in in_room[NodeOf[c]]

\* The index of a node follows its sockets: it leaks no membership of a session that
\* has gone, and loses none of a session that is there.
IndexFollowsSockets == RoomsHaveClients /\ ConnectedIsInRoom

\* A session belongs to one public key for good: no connection is given a session
\* of another key, whatever last_session_id it names, and no id is listed for two.
OneOwner ==
  /\ \A c \in Sockets, k \in Frames : LET s == auth[c][k].session IN
       (s # None /\ record[s] # None) => record[s].owner = auth[c][k].user
  /\ \A u, v \in Users : u # v => user_sessions[u] \cap user_sessions[v] = {}

\* no handler is between two of its awaits with session s
Quiet(s) ==
  \A c \in Sockets :
    /\ disc[c].session # s /\ pong[c].session # s
    /\ \A k \in Frames :
         auth[c][k].pc \in {"verify", "lookup", "restore", "create", "list", "rooms"}
           => auth[c][k].session # s /\ auth[c][k].last # s

\* "creates, restores, touches, and disconnects realtime sessions" (README): when
\* no handler is under way, a session with an open socket is recorded as active.
AttendedIsActive ==
  \A c \in Sockets : LET s == bound[c] IN
    (sock[c] = "open" /\ s # None /\ Quiet(s))
      => record[s] # None /\ record[s].status = "active"

\* "Session resumed by a new connection" (gateway) closes the connection the
\* session had, and "the same behavior works across multiple backend nodes"
\* (README): when no handler is under way, a session has one open socket.
OneConnection ==
  \A s \in Sessions : Quiet(s) =>
    \A c, d \in Sockets :
      (sock[c] = "open" /\ sock[d] = "open" /\ bound[c] = s /\ bound[d] = s) => c = d

\* A session that has lost its sockets does not stay active for ever, not even
\* when no disconnect handler ran: its record expires, or somebody resumes it.
AbandonedIsReleased ==
  \A s \in Sessions :
    (record[s] # None /\ record[s].status = "active" /\ \A c \in Sockets : bound[c] # s)
      ~> \/ record[s] = None
         \/ record[s].status = "disconnected"
         \/ \E c \in Sockets : bound[c] = s

\* A presence query that raced a resume may prune a live session from the
\* user's set; the pongs of an open socket put an active session back.
ActiveIsListedAgain ==
  \A c \in Sockets, s \in Sessions :
    LET attended == sock[c] = "open" /\ bound[c] = s /\ record[s] # None
                      /\ record[s].status = "active"
    IN (attended /\ s \notin user_sessions[record[s].owner])
         ~> (~attended \/ s \in user_sessions[record[s].owner])
=============================================================================
