---------------------------- MODULE RealtimeDelivery ----------------------------
(***************************************************************************)
(* Reliable delivery of envelopes to ONE realtime session by several       *)
(* backend nodes that share a Redis: RealtimeFanoutService,                *)
(* RealtimeDeliveryService and the parts of RealtimeConnectionService and  *)
(* of the gateway they lean on.                                            *)
(*                                                                         *)
(* A Redis command and the continuation that runs on its reply are one     *)
(* step; every await is a step boundary, so handlers of one node and of    *)
(* different nodes interleave there.  Sockets are used once: the number of *)
(* reconnections is the number of sockets.                                 *)
(***************************************************************************)
EXTENDS Naturals, Sequences, SequencesExt

CONSTANTS
  Nodes,        \* backend processes
  Sockets,      \* WebSocket connections that authenticate into the session
  NodeOf,       \* the node each socket is accepted by
  Events,       \* event_id of the reliable envelopes addressed to the session
  MaxRetries,   \* realtime_config.max_retries
  MaxCrashes,   \* bound: how many times a node process dies
  Absent        \* "no such field": HGET's null, and a retry handler not running

ASSUME NodeOfAssumption     == NodeOf \in [Sockets -> Nodes]
ASSUME MaxRetriesAssumption == MaxRetries \in Nat
ASSUME MaxCrashesAssumption == MaxCrashes \in Nat
ASSUME AbsentAssumption     == Absent \notin Nat

VARIABLES
  sock,       \* readyState of each socket: "new", "open", "closing", "gone"
  setup,      \* how far handle_auth_connect got after mark_authenticated
  clients,    \* per node, session_clients.get(session_id) in insertion order
  rooms,      \* nodes whose local room index holds the session
  pending,    \* the Redis pending hash: event -> attempt, or Absent
  timers,     \* per node, the events with an armed timer in retry_timers
  emitting,   \* per node, emit_to_room calls that have not published yet
  fanout,     \* per node, published envelopes the subscriber has not handled
  storing,    \* per node, deliver_to_session calls awaiting their HSET
  retrying,   \* per node and event, the attempt handle_retry_timeout has read
  wire,       \* per socket, envelopes sent and not yet read by the client
  acks,       \* per socket, delivery.ack frames on their way to the server
  emitted,    \* events create_envelope was called for
  acked,      \* ghost: events whose delivery.ack was processed
  exhausted,  \* ghost: events given up after MaxRetries
  crashes     \* ghost: how many node processes have died

vars == <<sock, setup, clients, rooms, pending, timers, emitting, fanout,
          storing, retrying, wire, acks, emitted, acked, exhausted, crashes>>

connVars  == <<sock, setup, clients, rooms>>
emitVars  == <<emitting, fanout, emitted>>
wireVars  == <<wire, acks>>
ghostVars == <<acked, exhausted, crashes>>

TypeOK ==
  /\ sock      \in [Sockets -> {"new", "open", "closing", "gone"}]
  /\ setup     \in [Sockets -> {"none", "join", "replay", "done"}]
  /\ clients   \in [Nodes -> Seq(Sockets)]
  /\ rooms     \subseteq Nodes
  /\ pending   \in [Events -> Nat \cup {Absent}]
  /\ timers    \in [Nodes -> SUBSET Events]
  /\ emitting  \in [Nodes -> SUBSET Events]
  /\ fanout    \in [Nodes -> SUBSET Events]
  /\ storing   \in [Nodes -> SUBSET (Events \X Sockets)]
  /\ retrying  \in [Nodes -> [Events -> Nat \cup {Absent}]]
  /\ wire      \in [Sockets -> SUBSET Events]
  /\ acks      \in [Sockets -> SUBSET Events]
  /\ emitted   \subseteq Events
  /\ acked     \subseteq Events
  /\ exhausted \subseteq Events
  /\ crashes   \in 0..MaxCrashes

Init ==
  /\ sock      = [c \in Sockets |-> "new"]
  /\ setup     = [c \in Sockets |-> "none"]
  /\ clients   = [n \in Nodes |-> <<>>]
  /\ rooms     = {}
  /\ pending   = [e \in Events |-> Absent]
  /\ timers    = [n \in Nodes |-> {}]
  /\ emitting  = [n \in Nodes |-> {}]
  /\ fanout    = [n \in Nodes |-> {}]
  /\ storing   = [n \in Nodes |-> {}]
  /\ retrying  = [n \in Nodes |-> [e \in Events |-> Absent]]
  /\ wire      = [c \in Sockets |-> {}]
  /\ acks      = [c \in Sockets |-> {}]
  /\ emitted   = {}
  /\ acked     = {}
  /\ exhausted = {}
  /\ crashes   = 0

-----------------------------------------------------------------------------
(* RealtimeConnectionService.                                              *)

\* has_local_session
HasLocalSession(n) == clients[n] # <<>>

\* get_client_by_session_id: the client that was added first
FirstClient(n) == Head(clients[n])

\* send_json: nothing is sent on a socket that is not OPEN
SendTo(c, sent) ==
  wire' = IF sock[c] = "open" THEN [wire EXCEPT ![c] = @ \cup sent] ELSE wire

\* send_json to whatever client the session has on node n, if any
SendToSession(n, sent) ==
  IF HasLocalSession(n) THEN SendTo(FirstClient(n), sent) ELSE wire' = wire

-----------------------------------------------------------------------------
(* RealtimeDeliveryService: timers and attempts.                           *)

\* schedule_retry: a running timer is cleared, then a new one is set
ArmedThenCleared(n, es) == [timers EXCEPT ![n] = @ \ es]   \* mutant

Armed(n, es) == [timers EXCEPT ![n] = @ \cup es]

RetriesOneTooMany(attempt) == attempt <= MaxRetries   \* mutant

HasRetriesLeft(attempt) == attempt < MaxRetries

NotCounted(attempt) == attempt   \* mutant

NextAttempt(attempt) == attempt + 1

-----------------------------------------------------------------------------
(* Connections: the end of auth.connect, closing, the disconnect handler.  *)

\* mark_authenticated of a socket that has just restored (or created) the session
Authenticated(c) ==
  LET n == NodeOf[c] IN
  /\ sock[c] = "new"
  /\ sock'    = [sock EXCEPT ![c] = "open"]
  /\ setup'   = [setup EXCEPT ![c] = "join"]
  /\ clients' = [clients EXCEPT ![n] = Append(@, c)]
  /\ UNCHANGED <<rooms, pending, timers, storing, retrying>>
  /\ UNCHANGED <<emitVars, wireVars, ghostVars>>

\* sync_local_rooms: the session is added to its personal room, unless its last
\* socket went away meanwhile
LocalRooms(n) == IF HasLocalSession(n) THEN rooms \cup {n} ELSE rooms \ {n}

\* replace_session_rooms
RoomsReplaced(c) ==
  LET n == NodeOf[c] IN
  /\ setup[c] = "join"
  /\ setup' = [setup EXCEPT ![c] = "replay"]
  /\ rooms' = LocalRooms(n)
  /\ UNCHANGED <<sock, clients, pending, timers, storing, retrying>>
  /\ UNCHANGED <<emitVars, wireVars, ghostVars>>

\* replay_pending_for_session: all that HGETALL returns is sent and re-armed
ReplayPending(c) ==
  LET n    == NodeOf[c]
      held == {e \in Events : pending[e] # Absent}
  IN
  /\ setup[c] = "replay"
  /\ setup' = [setup EXCEPT ![c] = "done"]
  /\ timers' = IF HasLocalSession(n)
                 THEN Armed(n, held) ELSE timers
  /\ SendToSession(n, held)
  /\ UNCHANGED <<sock, clients, rooms, pending, storing, retrying, acks>>
  /\ UNCHANGED <<emitVars, ghostVars>>

\* The socket leaves OPEN: the client goes away, the heartbeat terminates it,
\* or close_session_clients closes it for a resuming connection.  What was
\* under way on it is lost.
SocketCloses(c) ==
  /\ sock[c] = "open"
  /\ sock' = [sock EXCEPT ![c] = "closing"]
  /\ wire' = [wire EXCEPT ![c] = {}]
  /\ acks' = [acks EXCEPT ![c] = {}]
  /\ UNCHANGED <<setup, clients, rooms, pending, timers, storing, retrying>>
  /\ UNCHANGED <<emitVars, ghostVars>>

\* handleDisconnect: remove_client, and clear_local_memberships with the last
\* socket of the session.  Retry timers stay armed.
Disconnected(c) ==
  LET n == NodeOf[c] IN
  /\ sock[c] = "closing"
  /\ sock' = [sock EXCEPT ![c] = "gone"]
  /\ \E i \in 1..Len(clients[n]) :
       /\ clients[n][i] = c
       /\ clients' = [clients EXCEPT ![n] = RemoveAt(@, i)]
  /\ rooms' = IF clients'[n] = <<>> THEN rooms \ {n} ELSE rooms
  /\ UNCHANGED <<setup, pending, timers, storing, retrying>>
  /\ UNCHANGED <<emitVars, wireVars, ghostVars>>

-----------------------------------------------------------------------------
(* Fanout and first delivery.                                              *)

\* deliver_to_local_room, then deliver_to_session up to its await: the client
\* is looked up before the envelope is stored
HasTarget(n) == n \in rooms /\ HasLocalSession(n)

Storing(n, e) == [storing EXCEPT ![n] = @ \cup {<<e, FirstClient(n)>>}]

StartDeliverySending(n, e) ==   \* mutant
  /\ storing' = IF HasTarget(n) THEN Storing(n, e) ELSE storing
  /\ IF HasTarget(n) THEN SendTo(FirstClient(n), {e}) ELSE wire' = wire

StartDelivery(n, e) ==
  /\ storing' = IF HasTarget(n) THEN Storing(n, e) ELSE storing
  /\ wire' = wire

\* emit_to_room on node n: local delivery first
EmitToRoom(n, e) ==
  /\ e \notin emitted
  /\ emitted'  = emitted \cup {e}
  /\ emitting' = [emitting EXCEPT ![n] = @ \cup {e}]
  /\ StartDelivery(n, e)
  /\ UNCHANGED <<pending, timers, fanout, retrying, acks>>
  /\ UNCHANGED <<connVars, ghostVars>>

\* publish_room_fanout, after the local delivery has settled; Redis hands the
\* message to every subscribed node and the origin skips its own
PublishFanout(n, e) ==
  /\ e \in emitting[n]
  /\ \A c \in Sockets : <<e, c>> \notin storing[n]
  /\ emitting' = [emitting EXCEPT ![n] = @ \ {e}]
  /\ fanout'   = [m \in Nodes |-> IF m = n THEN fanout[m] ELSE fanout[m] \cup {e}]
  /\ UNCHANGED <<pending, timers, storing, retrying, emitted>>
  /\ UNCHANGED <<connVars, wireVars, ghostVars>>

\* handle_room_fanout on another node
HandleFanout(n, e) ==
  /\ e \in fanout[n]
  /\ fanout' = [fanout EXCEPT ![n] = @ \ {e}]
  /\ StartDelivery(n, e)
  /\ UNCHANGED <<pending, timers, retrying, emitting, emitted, acks>>
  /\ UNCHANGED <<connVars, ghostVars>>

\* the rest of deliver_to_session: HSET with attempt 0, arm the timer, send to
\* the client that was looked up before the await
EnvelopeStored(n, e, c) ==
  /\ <<e, c>> \in storing[n]
  /\ storing' = [storing EXCEPT ![n] = @ \ {<<e, c>>}]
  /\ pending' = [pending EXCEPT ![e] = 0]
  /\ timers'  = Armed(n, {e})
  /\ SendTo(c, {e})
  /\ UNCHANGED <<retrying, acks>>
  /\ UNCHANGED <<connVars, emitVars, ghostVars>>

-----------------------------------------------------------------------------
(* Retry and acknowledgement.                                              *)

\* a retry timer fires and handle_retry_timeout reads the envelope
RetryTimeout(n, e) ==
  /\ e \in timers[n]
  /\ retrying[n][e] = Absent
  /\ timers'   = [timers EXCEPT ![n] = @ \ {e}]
  /\ retrying' = [retrying EXCEPT ![n][e] = pending[e]]
  /\ UNCHANGED <<pending, storing>>
  /\ UNCHANGED <<connVars, emitVars, wireVars, ghostVars>>

\* the envelope has retries left: HSET attempt + 1, send, arm the next timer
RetryStored(n, e) ==
  /\ retrying[n][e] # Absent
  /\ HasRetriesLeft(retrying[n][e])
  /\ pending'  = [pending EXCEPT ![e] = NextAttempt(retrying[n][e])]
  /\ retrying' = [retrying EXCEPT ![n][e] = Absent]
  /\ timers'   = Armed(n, {e})
  /\ SendToSession(n, {e})
  /\ UNCHANGED <<storing, acks>>
  /\ UNCHANGED <<connVars, emitVars, ghostVars>>

\* the envelope has none left: HDEL, clear the timer, system.retry_exhausted
RetryExhausted(n, e) ==
  /\ retrying[n][e] # Absent
  /\ ~HasRetriesLeft(retrying[n][e])
  /\ pending'   = [pending EXCEPT ![e] = Absent]
  /\ retrying'  = [retrying EXCEPT ![n][e] = Absent]
  /\ timers'    = [timers EXCEPT ![n] = @ \ {e}]
  /\ exhausted' = exhausted \cup {e}
  /\ UNCHANGED <<storing, acked, crashes>>
  /\ UNCHANGED <<connVars, emitVars, wireVars>>

\* the client reads an envelope and answers with delivery.ack
ClientReceives(c, e) ==
  /\ e \in wire[c]
  /\ wire' = [wire EXCEPT ![c] = @ \ {e}]
  /\ acks' = [acks EXCEPT ![c] = @ \cup {e}]
  /\ UNCHANGED <<pending, timers, storing, retrying>>
  /\ UNCHANGED <<connVars, emitVars, ghostVars>>

\* handle_delivery_ack, acknowledge: HDEL, then clear this node's timer
Acknowledge(c, e) ==
  LET n == NodeOf[c] IN
  /\ e \in acks[c]
  /\ acks'    = [acks EXCEPT ![c] = @ \ {e}]
  /\ pending' = [pending EXCEPT ![e] = Absent]
  /\ timers'  = [timers EXCEPT ![n] = @ \ {e}]
  /\ acked'   = acked \cup {e}
  /\ UNCHANGED <<storing, retrying, wire, exhausted, crashes>>
  /\ UNCHANGED <<connVars, emitVars>>

-----------------------------------------------------------------------------
(* Failures.                                                               *)

\* a node process dies and is started again: all that is not in Redis is gone
Crash(n) ==
  LET hit == {c \in Sockets : NodeOf[c] = n /\ sock[c] # "new"} IN
  /\ crashes < MaxCrashes
  /\ crashes'  = crashes + 1
  /\ sock'     = [c \in Sockets |-> IF c \in hit THEN "gone" ELSE sock[c]]
  /\ setup'    = [c \in Sockets |-> IF c \in hit THEN "done" ELSE setup[c]]
  /\ wire'     = [c \in Sockets |-> IF c \in hit THEN {} ELSE wire[c]]
  /\ acks'     = [c \in Sockets |-> IF c \in hit THEN {} ELSE acks[c]]
  /\ clients'  = [clients EXCEPT ![n] = <<>>]
  /\ rooms'    = rooms \ {n}
  /\ timers'   = [timers EXCEPT ![n] = {}]
  /\ emitting' = [emitting EXCEPT ![n] = {}]
  /\ fanout'   = [fanout EXCEPT ![n] = {}]
  /\ storing'  = [storing EXCEPT ![n] = {}]
  /\ retrying' = [retrying EXCEPT ![n] = [e \in Events |-> Absent]]
  /\ UNCHANGED <<pending, emitted, acked, exhausted>>

\* the TTL of the pending hash runs out; sockets (through their pongs), first
\* deliveries and retries renew it
PendingExpires ==
  /\ \A n \in Nodes : /\ ~HasLocalSession(n)
                      /\ timers[n] = {} /\ storing[n] = {}
                      /\ retrying[n] = [e \in Events |-> Absent]
  /\ \E e \in Events : pending[e] # Absent
  /\ pending' = [e \in Events |-> Absent]
  /\ UNCHANGED <<timers, storing, retrying>>
  /\ UNCHANGED <<connVars, emitVars, wireVars, ghostVars>>

-----------------------------------------------------------------------------
\* steps the node's event loop takes on its own
NodeStep(n, e) ==
  \/ PublishFanout(n, e)
  \/ HandleFanout(n, e)
  \/ \E c \in Sockets : EnvelopeStored(n, e, c)
  \/ RetryTimeout(n, e)
  \/ RetryStored(n, e)
  \/ RetryExhausted(n, e)

SocketStep(c) ==
  \/ Authenticated(c)
  \/ RoomsReplaced(c)
  \/ ReplayPending(c)
  \/ SocketCloses(c)
  \/ Disconnected(c)

ClientStep(c, e) == ClientReceives(c, e) \/ Acknowledge(c, e)

Next ==
  \/ \E n \in Nodes, e \in Events : EmitToRoom(n, e) \/ NodeStep(n, e)
  \/ \E c \in Sockets : SocketStep(c)
  \/ \E c \in Sockets, e \in Events : ClientStep(c, e)
  \/ \E n \in Nodes : Crash(n)
  \/ PendingExpires

Spec == Init /\ [][Next]_vars

\* Timers fire and Redis answers a node that is up; a TTL runs out.  Nothing is
\* assumed of clients, of emitters or of crashes.
Fairness ==
  /\ \A n \in Nodes, e \in Events : WF_vars(NodeStep(n, e))
  /\ \A c \in Sockets : WF_vars(RoomsReplaced(c)) /\ WF_vars(ReplayPending(c))

FairSpec == Spec /\ Fairness

-----------------------------------------------------------------------------
(* Properties.                                                             *)

\* max_retries bounds the attempts recorded in Redis and those a retry handler
\* works with, however many nodes retry the same envelope.
AttemptBounded ==
  /\ \A e \in Events : pending[e] # Absent => pending[e] <= MaxRetries
  /\ \A n \in Nodes, e \in Events :
        retrying[n][e] # Absent => retrying[n][e] <= MaxRetries

\* While no process has died, an envelope in the pending hash is never left
\* without somebody who will retry it: a timer is armed or a handler is under
\* way for it on some node.  Acks and exhausted retries of another node clear
\* timers, so this relates every node's timers to one shared hash.
NoOrphan ==
  crashes = 0 =>
    \A e \in Events : pending[e] # Absent =>
      \E n \in Nodes : e \in timers[n] \/ retrying[n][e] # Absent

\* An envelope a client can still read or acknowledge is backed by the pending
\* hash, unless it was settled: deliver_to_session stores before it sends.
SentIsBacked ==
  \A c \in Sockets : \A e \in wire[c] \cup acks[c] :
    pending[e] # Absent \/ e \in acked \/ e \in exhausted

\* An open socket is registered for the session on its node, and nothing is
\* under way on a socket that is not open: what SentIsBacked rests on.
OpenSocketsAreRegistered ==
  \A c \in Sockets :
    IF sock[c] = "open"
      THEN \E i \in 1..Len(clients[NodeOf[c]]) : clients[NodeOf[c]][i] = c
      ELSE wire[c] = {} /\ acks[c] = {}

\* Local room membership never outlives the session's last socket on a node:
\* the index the fanout reads names only sessions with a local client.
RoomsHaveClients == \A n \in rooms : HasLocalSession(n)

\* README: "stores pending reliable envelopes, accepts ack, and retries unacked
\* events".  An acknowledged envelope is not in the pending hash again.
AckedIsSettled == \A e \in acked : pending[e] = Absent

\* Every stored envelope is settled in the end (acknowledged, exhausted or
\* expired) and stays so, as long as no process dies: nodes that race each
\* other's retries and acks may bring it back, but not for ever.
EveryEnvelopeSettles ==
  [](crashes = 0) => <>[](\A e \in Events : pending[e] = Absent)
=============================================================================
