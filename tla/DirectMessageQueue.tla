---------------------------- MODULE DirectMessageQueue ----------------------------
(***************************************************************************)
(* The queue of ONE direct message, replicated over the servers of a       *)
(* libp2p network: chat.message.send, chat.sync, chat.message.persisted    *)
(* and the inter-server replicate, pull, presence and delete protocols     *)
(* (DirectMessageService with the PeerNetworkService methods it calls).    *)
(*                                                                         *)
(* A request to another server is answered, or the caller gives up after   *)
(* p2p_request_timeout_ms; the peer may then still handle it, at any later *)
(* time, or never.  Servers differ in whom they consider closest to the    *)
(* recipient (Selected), but not over the life of the message.  Signatures *)
(* are good and both users are known.                                      *)
(*                                                                         *)
(* The libp2p node is created without a key: a server whose process died   *)
(* comes back under a new peer id, while rows, lists and queues elsewhere  *)
(* keep the old one until they happen to learn of the new.  Which of the   *)
(* two ids is meant is left open for a server in restarted: requests to it *)
(* arrive or not, its own deletes are recognised or not.                   *)
(***************************************************************************)
EXTENDS Naturals, FiniteSets

CONSTANTS
  Peers,            \* servers, by libp2p peer id
  Home,             \* the server the sender is connected to
  Selected,         \* per server, select_replica_peer_ids_for_user(recipient)
  ReplicaCount,     \* replica_remote_count
  Quorum,           \* replica_remote_quorum
  Reached,          \* servers the recipient's client connects to
  Reporting,        \* those of them it sends chat.message.persisted to
  Windows,          \* bound: retention windows that may pass
  Calls,            \* chat.message.send frames with this message's id
  DeleteMaxRetries, \* delete_max_retries
  MaxLate,          \* bound: requests given up by their caller and still alive
  Failing,          \* bound: servers whose process may die, any number of times
  None

ASSUME PeersAssumption    == IsFiniteSet(Peers) /\ Home \in Peers
ASSUME SelectedAssumption == \A p \in Peers : Selected[p] \subseteq Peers \ {p}
ASSUME ReachedAssumption  == Reporting \subseteq Reached /\ Reached \subseteq Peers
ASSUME WindowsAssumption  == Windows \subseteq {"arrival", "send_time"}
ASSUME QuorumAssumption   == ReplicaCount \in Nat /\ Quorum \in 1..ReplicaCount
ASSUME RetriesAssumption  == DeleteMaxRetries \in Nat \ {0}
ASSUME BoundsAssumption   == Failing \subseteq Peers /\ MaxLate \in Nat

VARIABLES
  row,       \* per server, the DirectMessage row, or None
  over,      \* retention windows that have passed, by what they count from
  send,      \* per call, handle_chat_message_send
  late,      \* requests whose caller has given up and which may yet be handled
  announced, \* servers that have announced the recipient's presence
  online,    \* servers the recipient has an active session on
  sync,      \* per server, synchronize_user_queue_from_replicas
  del,       \* per server, handle_chat_message_persisted
  queue,     \* per server, inter_server_dm_delete_retry_queue: peer -> attempts
  holders,   \* ghost: servers whose ack made a quorum for an accepted call
  shown,     \* ghost: the recipient's client has been sent the message
  persisted, \* ghost: the recipient's client has reported it persisted
  refused,   \* ghost: servers whose delete request was refused as unauthorised
  restarted  \* servers whose process has died

vars == <<row, over, send, late, announced, online, sync, del, queue,
          holders, shown, persisted, refused, restarted>>

\* replicas: replica_peer_ids; since: what expiresAt counts from
Row == [replicas: SUBSET Peers, since: {"arrival", "send_time"}]

ASSUME NoneAssumption == None \notin Row /\ None \notin Nat

SendIdle == [pc |-> "idle", todo |-> {}, acked |-> {}, list |-> {}]
SyncIdle == [pc |-> "idle", todo |-> {}, failed |-> {},
             found |-> None, promised |-> {}]
DelIdle  == [pc |-> "idle", list |-> {}, todo |-> {}]

Replicate(p, list) == [type |-> "replicate", from |-> Home, to |-> p, list |-> list]
Delete(h, p)       == [type |-> "delete", from |-> h, to |-> p, list |-> {}]

Request == [type: {"replicate", "delete"}, from: Peers, to: Peers, list: SUBSET Peers]

SendCall == [pc: {"idle", "replicate", "presence", "live", "accept", "accepted", "failed"},
             todo: SUBSET Peers, acked: SUBSET Peers, list: SUBSET Peers]
SyncCall == [pc: {"idle", "pull", "emit"}, todo: SUBSET Peers, failed: SUBSET Peers,
             found: Row \cup {None}, promised: SUBSET Peers]
DelCall  == [pc: {"idle", "found", "sending"}, list: SUBSET Peers, todo: SUBSET Peers]

Attempts == 0..DeleteMaxRetries - 1 \cup {None}

TypeOK ==
  /\ row       \in [Peers -> Row \cup {None}]
  /\ over      \subseteq Windows
  /\ send      \in [Calls -> SendCall]
  /\ late      \subseteq Request
  /\ announced \subseteq Peers
  /\ online    \subseteq Peers
  /\ sync      \in [Peers -> SyncCall]
  /\ del       \in [Peers -> DelCall]
  /\ queue     \in [Peers -> [Peers -> Attempts]]
  /\ holders   \subseteq Peers
  /\ shown     \in BOOLEAN
  /\ persisted \in BOOLEAN
  /\ refused   \subseteq Peers
  /\ restarted \subseteq Peers

NoRetries == [p \in Peers |-> None]

Init ==
  /\ row       = [p \in Peers |-> None]
  /\ over      = {}
  /\ send      = [k \in Calls |-> SendIdle]
  /\ late      = {}
  /\ announced = {}
  /\ online    = {}
  /\ sync      = [p \in Peers |-> SyncIdle]
  /\ del       = [p \in Peers |-> DelIdle]
  /\ queue     = [p \in Peers |-> NoRetries]
  /\ holders   = {}
  /\ shown     = FALSE
  /\ persisted = FALSE
  /\ refused   = {}
  /\ restarted = {}

-----------------------------------------------------------------------------
(* What the other servers do with a request.                               *)

\* the queries for messages to hand out ask for expiresAt > now
Live(p) == row[p] # None /\ row[p].since \notin over

\* handle_inter_server_replicate_request: upsert, and the message goes to the
\* recipient if this server has a session of it
Stored(p, list) ==
  /\ row'   = [row EXCEPT ![p] = [replicas |-> list, since |-> "send_time"]]
  /\ shown' = (shown \/ p \in online)

\* handle_inter_server_delete_request: the origin and the replicas this
\* server's own row lists may delete it
MayDeleteOriginOnly(h, p) == row[p] # None => h = Home   \* mutant

MayDelete(h, p) == row[p] # None => h \in {Home} \cup row[p].replicas

\* the rows may know a restarted server by its old peer id only
MayRefuse(h, p) == ~MayDelete(h, p) \/ (row[p] # None /\ h \in restarted)

DeleteAnswered(h, p, deleted) ==
  /\ IF deleted THEN MayDelete(h, p) ELSE MayRefuse(h, p)
  /\ row'     = IF deleted THEN [row EXCEPT ![p] = None] ELSE row
  /\ refused' = IF deleted THEN refused ELSE refused \cup {h}

\* the caller gives up on request m, which is lost or still under way
GivenUp(m) ==
  \/ late' = late
  \/ Cardinality(late) < MaxLate /\ late' = late \cup {m}

\* a request whose caller has given up arrives after all
LateRequest(m) ==
  /\ m \in late
  /\ late' = late \ {m}
  /\ \/ m.type = "replicate" /\ Stored(m.to, m.list) /\ UNCHANGED refused
     \/ /\ m.type = "delete" /\ UNCHANGED shown
        /\ \E deleted \in BOOLEAN : DeleteAnswered(m.from, m.to, deleted)
  /\ UNCHANGED <<over, send, announced, online, sync, del, queue, holders,
                 persisted, restarted>>

-----------------------------------------------------------------------------
(* chat.message.send.                                                      *)

\* replicate_direct_message_to_peers: how many acks make a quorum
QuorumTargetCountingSelf(targets) == Quorum - 1   \* mutant

QuorumTarget(targets) ==
  LET atLeastOne == IF targets = {} THEN 1 ELSE Cardinality(targets)
  IN  IF Quorum <= atLeastOne THEN Quorum ELSE atLeastOne

\* replicas are selected, and the row is upserted on the home server
SendBegins(k) ==
  /\ send[k] = SendIdle
  /\ Cardinality(Selected[Home]) >= ReplicaCount
  /\ row'  = [row EXCEPT ![Home] = [replicas |-> Selected[Home], since |-> "arrival"]]
  /\ over' = over \ {"arrival"}
  /\ send' = [send EXCEPT ![k] = [pc |-> "replicate", todo |-> Selected[Home],
                                  acked |-> {}, list |-> Selected[Home]]]
  /\ UNCHANGED <<late, announced, online, sync, del, queue, holders, shown,
                 persisted, refused, restarted>>

\* one dm.replicate.request is answered with an ack ...
PeerReplicated(k, p) ==
  /\ send[k].pc \in {"replicate", "live"} /\ p \in send[k].todo
  /\ Stored(p, send[k].list)
  /\ send' = [send EXCEPT ![k].todo = @ \ {p},
                          ![k].acked = IF send[k].pc = "replicate" THEN @ \cup {p} ELSE @]
  /\ UNCHANGED <<over, late, announced, online, sync, del, queue, holders,
                 persisted, refused, restarted>>

\* ... or is not, in time
ReplicateTimesOut(k, p) ==
  /\ send[k].pc \in {"replicate", "live"} /\ p \in send[k].todo
  /\ send' = [send EXCEPT ![k].todo = @ \ {p}]
  /\ GivenUp(Replicate(p, send[k].list))
  /\ UNCHANGED <<row, over, announced, online, sync, del, queue, holders,
                 shown, persisted, refused, restarted>>

QuorumMet(k) ==
  /\ send[k].pc = "replicate" /\ send[k].todo = {}
  /\ Cardinality(send[k].acked) >= QuorumTarget(send[k].list)
  /\ send' = [send EXCEPT ![k].pc = "presence"]
  /\ UNCHANGED <<row, over, late, announced, online, sync, del, queue, holders,
                 shown, persisted, refused, restarted>>

\* the local row is deleted; what the replicas stored stays there
QuorumFailed(k) ==
  /\ send[k].pc = "replicate" /\ send[k].todo = {}
  /\ Cardinality(send[k].acked) < QuorumTarget(send[k].list)
  /\ row'  = [row EXCEPT ![Home] = None]
  /\ send' = [send EXCEPT ![k] = [SendIdle EXCEPT !.pc = "failed"]]
  /\ UNCHANGED <<over, late, announced, online, sync, del, queue, holders,
                 shown, persisted, refused, restarted>>

\* the servers that record that the recipient is online at h
PresenceKeepers(h) == {h} \cup Selected[h]

\* Servers whose announcement went to this server or a replica of the message.
\* It may be late or lost, presence expires after presence_ttl_ms and a replica
\* may not answer the query: a query learns of any of them.
KnownOnline(list) ==
  {h \in announced : PresenceKeepers(h) \cap ({Home} \cup list) # {}}

\* query_user_presence, and the row's list extended by the servers the recipient
\* is online at; the update throws if the row has been deleted.  A restarted
\* server may be in the list under its old id.
PresenceQueried(k, extra) ==
  /\ send[k].pc = "presence"
  /\ extra \subseteq KnownOnline(send[k].list) \ ({Home} \cup (send[k].list \ restarted))
  /\ IF extra = {} THEN
       /\ send' = [send EXCEPT ![k].pc = "accept"]
       /\ row' = row
     ELSE IF row[Home] = None THEN
       /\ send' = [send EXCEPT ![k] = [SendIdle EXCEPT !.pc = "failed"]]
       /\ row' = row
     ELSE
       /\ send' = [send EXCEPT ![k].pc = "live", ![k].todo = extra,
                               ![k].list = @ \cup extra]
       /\ row' = [row EXCEPT ![Home].replicas = send[k].list \cup extra]
  /\ UNCHANGED <<over, late, announced, online, sync, del, queue, holders,
                 shown, persisted, refused, restarted>>

\* chat.message to a recipient with a session here, chat.message.accepted
SendAccepted(k) ==
  /\ \/ send[k].pc = "accept"
     \/ send[k].pc = "live" /\ send[k].todo = {}
  /\ send'    = [send EXCEPT ![k] = [SendIdle EXCEPT !.pc = "accepted"]]
  /\ holders' = holders \cup send[k].acked
  /\ shown'   = (shown \/ Home \in online)
  /\ UNCHANGED <<row, over, late, announced, online, sync, del, queue,
                 persisted, refused, restarted>>

-----------------------------------------------------------------------------
(* The recipient: sessions, chat.sync.                                     *)

RecipientConnects(h) ==
  /\ h \notin online
  /\ online' = online \cup {h}
  /\ UNCHANGED <<row, over, send, late, announced, sync, del, queue, holders,
                 shown, persisted, refused, restarted>>

RecipientLeaves(h) ==
  /\ h \in online
  /\ online' = online \ {h}
  /\ UNCHANGED <<row, over, send, late, announced, sync, del, queue, holders,
                 shown, persisted, refused, restarted>>

\* announce_user_presence: a server that selects nobody announces nothing
Announced(h) == IF Selected[h] = {} THEN announced ELSE announced \cup {h}

\* handle_user_connected or handle_chat_sync: presence is recorded here and
\* announced to the replicas
SyncBegins(h) ==
  /\ h \in online
  /\ sync[h].pc = "idle"
  /\ sync' = [sync EXCEPT ![h] =
       [SyncIdle EXCEPT !.pc = "pull", !.todo = Selected[h],
                        !.promised = holders]]
  /\ announced' = Announced(h)
  /\ UNCHANGED <<row, over, send, late, online, del, queue, holders, shown,
                 persisted, refused, restarted>>

\* what a replica answers to a pull request
PullAnswer(p) == IF Live(p) THEN row[p] ELSE None

\* pull_pending_messages_from_replicas: the first copy of a message is kept ...
LastAnswer(found, p) == PullAnswer(p)   \* mutant

FirstCopy(found, p) == IF found = None THEN PullAnswer(p) ELSE found

PulledFrom(h, p) ==
  /\ sync[h].pc = "pull" /\ p \in sync[h].todo
  /\ sync' = [sync EXCEPT ![h].todo = @ \ {p}, ![h].found = FirstCopy(@, p)]
  /\ UNCHANGED <<row, over, send, late, announced, online, del, queue, holders,
                 shown, persisted, refused, restarted>>

\* ... and a replica that does not answer is passed over
PullFails(h, p) ==
  /\ sync[h].pc = "pull" /\ p \in sync[h].todo
  /\ sync' = [sync EXCEPT ![h].todo = @ \ {p}, ![h].failed = @ \cup {p}]
  /\ UNCHANGED <<row, over, send, late, announced, online, del, queue, holders,
                 shown, persisted, refused, restarted>>

\* what was pulled is upserted; a chat.sync goes on to replay the queue
SyncStores(h) ==
  /\ sync[h].pc = "pull" /\ sync[h].todo = {}
  /\ row' = IF sync[h].found = None THEN row
            ELSE [row EXCEPT ![h] = [sync[h].found EXCEPT !.since = "send_time"]]
  /\ \/ sync' = [sync EXCEPT ![h] = SyncIdle]
     \/ sync' = [sync EXCEPT ![h].pc = "emit", ![h].found = None]
  /\ UNCHANGED <<over, send, late, announced, online, del, queue, holders, shown,
                 persisted, refused, restarted>>

\* handle_chat_sync sends the unexpired messages of the local queue
SyncEmits(h) ==
  /\ sync[h].pc = "emit"
  /\ shown' = (shown \/ Live(h))
  /\ sync'  = [sync EXCEPT ![h] = SyncIdle]
  /\ UNCHANGED <<row, over, send, late, announced, online, del, queue, holders,
                 persisted, refused, restarted>>

-----------------------------------------------------------------------------
(* chat.message.persisted and the deletion of the copies.                  *)

\* the recipient has the message and says so; the row is read ...
PersistedReads(h) ==
  /\ shown /\ h \in online
  /\ del[h] = DelIdle
  /\ persisted' = TRUE
  /\ del' = IF row[h] = None THEN del
            ELSE [del EXCEPT ![h] = [DelIdle EXCEPT !.pc = "found", !.list = row[h].replicas]]
  /\ UNCHANGED <<row, over, send, late, announced, online, sync, queue, holders,
                 shown, refused, restarted>>

\* ... and deleted, after which the origin and the replicas are asked to; if it
\* has been deleted meanwhile the delete throws and nobody is asked
PersistedDeletes(h) ==
  /\ del[h].pc = "found"
  /\ row' = [row EXCEPT ![h] = None]
  /\ del' = [del EXCEPT ![h] =
       IF row[h] = None THEN DelIdle
       ELSE [@ EXCEPT !.pc = "sending", !.todo = {Home} \cup del[h].list]]
  /\ UNCHANGED <<over, send, late, announced, online, sync, queue, holders, shown,
                 persisted, refused, restarted>>

\* enqueue_dm_delete_retry
Enqueued(h, p) == queue' = [queue EXCEPT ![h][p] = 0]

\* the request of send_targeted_dm_delete is answered; a refusal is retried too
DeleteHandled(h, p) ==
  /\ del[h].pc = "sending" /\ p \in del[h].todo
  /\ \/ DeleteAnswered(h, p, TRUE) /\ queue' = queue
     \/ DeleteAnswered(h, p, FALSE) /\ Enqueued(h, p)
  /\ del' = [del EXCEPT ![h].todo = @ \ {p}]
  /\ UNCHANGED <<over, send, late, announced, online, sync, holders, shown,
                 persisted, restarted>>

\* a server asks itself without a request, unless it is listed under its old id
DeleteUnanswered(h, p) ==
  IF p = h THEN h \in restarted /\ late' = late ELSE GivenUp(Delete(h, p))

DeleteTimesOut(h, p) ==
  /\ del[h].pc = "sending" /\ p \in del[h].todo
  /\ DeleteUnanswered(h, p)
  /\ Enqueued(h, p)
  /\ del'  = [del EXCEPT ![h].todo = @ \ {p}]
  /\ UNCHANGED <<row, over, send, announced, online, sync, holders, shown,
                 persisted, refused, restarted>>

DeleteDone(h) ==
  /\ del[h].pc = "sending" /\ del[h].todo = {}
  /\ del' = [del EXCEPT ![h] = DelIdle]
  /\ UNCHANGED <<row, over, send, late, announced, online, sync, queue, holders,
                 shown, persisted, refused, restarted>>

\* process_inter_server_dm_delete_retry_queue after a failed attempt
RequeuedOnceMore(attempts) ==   \* mutant
  IF attempts + 1 > DeleteMaxRetries THEN None ELSE attempts + 1

Requeued(attempts) ==
  IF attempts + 1 >= DeleteMaxRetries THEN None ELSE attempts + 1

RetryHandled(h, p) ==
  /\ queue[h][p] # None
  /\ \/ DeleteAnswered(h, p, TRUE) /\ queue' = [queue EXCEPT ![h][p] = None]
     \/ DeleteAnswered(h, p, FALSE) /\ queue' = [queue EXCEPT ![h][p] = Requeued(@)]
  /\ UNCHANGED <<over, send, late, announced, online, sync, del, holders, shown,
                 persisted, restarted>>

RetryTimesOut(h, p) ==
  /\ queue[h][p] # None
  /\ DeleteUnanswered(h, p)
  /\ queue' = [queue EXCEPT ![h][p] = Requeued(@)]
  /\ UNCHANGED <<row, over, send, announced, online, sync, del, holders, shown,
                 persisted, refused, restarted>>

-----------------------------------------------------------------------------
(* Time and crashes.                                                       *)

\* a retention window ends: rows that count from it have expired
WindowCloses(base) ==
  /\ base \notin over
  /\ over' = over \cup {base}
  /\ UNCHANGED <<row, send, late, announced, online, sync, del, queue, holders,
                 shown, persisted, refused, restarted>>

\* delete_expired_messages
ExpiredDeleted(p) ==
  /\ row[p] # None /\ ~Live(p)
  /\ row' = [row EXCEPT ![p] = None]
  /\ UNCHANGED <<over, send, late, announced, online, sync, del, queue, holders,
                 shown, persisted, refused, restarted>>

\* A server process dies: calls under way, requests on their way to it and the
\* retry queue are lost, rows and presence are in the database.  Its own open
\* requests may still be handled.
Crash(h) ==
  LET calls == {k \in Calls : h = Home /\ send[k].pc \in
                                {"replicate", "presence", "live", "accept"}}
      open  == (UNION {{Replicate(p, send[k].list) : p \in send[k].todo} : k \in calls})
                 \cup {Delete(h, p) : p \in del[h].todo \ {h}}
  IN
  /\ restarted' = restarted \cup {h}
  /\ send' = [k \in Calls |->
                IF k \in calls THEN [SendIdle EXCEPT !.pc = "failed"] ELSE send[k]]
  /\ \E alive \in SUBSET open :
       /\ late' = {m \in late : m.to # h} \cup alive
       /\ alive = {} \/ Cardinality(late') <= MaxLate
  /\ sync'   = [sync EXCEPT ![h] = SyncIdle]
  /\ del'    = [del EXCEPT ![h] = DelIdle]
  /\ queue'  = [queue EXCEPT ![h] = NoRetries]
  /\ online' = online \ {h}
  /\ UNCHANGED <<row, over, announced, holders, shown, persisted, refused>>

-----------------------------------------------------------------------------
SendStep(k) ==
  \/ \E p \in Peers : PeerReplicated(k, p) \/ ReplicateTimesOut(k, p)
  \/ QuorumMet(k)
  \/ QuorumFailed(k)
  \/ \E extra \in SUBSET Peers : PresenceQueried(k, extra)
  \/ SendAccepted(k)

SyncStep(h) ==
  \/ \E p \in Peers : PulledFrom(h, p) \/ PullFails(h, p)
  \/ SyncStores(h)
  \/ SyncEmits(h)

DeleteStep(h) ==
  \/ PersistedDeletes(h)
  \/ \E p \in Peers : DeleteHandled(h, p) \/ DeleteTimesOut(h, p)
  \/ DeleteDone(h)

RetryStep(h, p) == RetryHandled(h, p) \/ RetryTimesOut(h, p)

Next ==
  \/ \E k \in Calls : SendBegins(k) \/ SendStep(k)
  \/ \E h \in Reached : RecipientConnects(h) \/ RecipientLeaves(h) \/ SyncBegins(h)
  \/ \E h \in Reporting : PersistedReads(h)
  \/ \E h \in Peers : SyncStep(h) \/ DeleteStep(h) \/ ExpiredDeleted(h)
  \/ \E h \in Failing : Crash(h)
  \/ \E h, p \in Peers : RetryStep(h, p)
  \/ \E m \in late : LateRequest(m)
  \/ \E base \in Windows : WindowCloses(base)

Spec == Init /\ [][Next]_vars

-----------------------------------------------------------------------------
(* Properties.                                                             *)

\* the other servers that have the message to hand out, and how far it has come
Copies == {p \in Peers \ {Home} : Live(p)}

\* the sender was told chat.message.accepted
Accepted == \E k \in Calls : send[k].pc = "accepted"

Status ==
  IF persisted \/ "send_time" \in over THEN "released"
  ELSE IF Accepted THEN "accepted" ELSE "sent"

Durable == INSTANCE DurableMessage
             WITH Servers <- Peers \ {Home},
                  Quorums <- {q \in SUBSET (Peers \ {Home}) : Cardinality(q) >= Quorum},
                  copies <- Copies, status <- Status

\* Sending, syncing, deleting and failing are, to the sender, a message that is
\* accepted when a quorum of other servers has it and that loses no copy before
\* its release: no rollback, late request, restart or sync takes a copy away.
KeepsCopies == Durable!Spec

\* A message whose sender was told chat.message.accepted is held, unexpired, by a
\* quorum of other servers until the recipient reports it persisted: whatever
\* the home server loses, late requests do, or a second send with the same id
\* rolls back.
AcceptedHasQuorum ==
  (holders # {} /\ ~persisted /\ "send_time" \notin over) =>
    Cardinality(Copies) >= Quorum

\* A chat.sync that begins after the message was accepted has it in the local
\* queue when the queue is replayed, on any server that missed (did not select,
\* or got no answer from) fewer than a quorum of the home server's replicas.  On
\* the home server only if nobody sends the same id again: the rollback of a send
\* that misses its quorum deletes the row, whoever accepted or pulled it.
SyncFindsAccepted ==
  \A h \in Peers :
    LET missed == Selected[Home] \ ((Selected[h] \ sync[h].failed) \cup {h}) IN
    (/\ sync[h].pc = "emit" /\ sync[h].promised # {}
     /\ ~persisted /\ "send_time" \notin over
     /\ Cardinality(missed) < Quorum
     /\ h # Home \/ \A j, k \in Calls : j = k) => Live(h)

\* The home server and the replicas it selected may delete each other's copies,
\* as long as they go by the peer id the lists know: a delete request of theirs is
\* never refused, although the lists in the rows differ (live delivery extends the
\* home server's, pulls copy any of them).
SelectedMayDelete ==
  refused \cap ({Home} \cup Selected[Home]) \subseteq restarted
=============================================================================
