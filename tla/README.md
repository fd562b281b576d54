# A TLA+ model of the open-chat backend

The repository is a chat backend written in TypeScript (NestJS). One *server* is
a set of *nodes*, backend processes that share a PostgreSQL database (through
Prisma) and a Redis. Clients speak a JSON protocol to a node over a WebSocket.
Servers form a libp2p network in which they keep copies of each other's direct
messages, synchronise tables and rate each other.

This directory models a client's realtime session with the reliable delivery to it,
the replicated queue of a direct message with the requests between servers that
carry it, the synchronisation of tables, and the peer network: who is dialled,
rated, chosen as a replica and told of deletes. It checks the models with TLC and
proves every safety property of the passing runs with TLAPS, for instances of any size.
`PROJECT.json` maps every definition to the lines it stands for and lists the runs, their mutants, the findings, the hazards
and the theorems.

## 1. Inventory

Paths are below `src/src/modules/`.

| Component | State | Operations | What is hard |
|---|---|---|---|
| **Realtime gateway and connections** `realtime/realtime.gateway.ts`, `realtime_connection.service.ts` | per node and in memory: `client_states`, `session_clients`, authentication timers | connect, `auth.connect`, `delivery.ack`, pong, heartbeat, disconnect | `auth.connect` awaits Redis five times; the socket, or another frame on it, goes on meanwhile |
| **Realtime sessions** `realtime_session.service.ts` | Redis: session records with a TTL, the set of active ids per user | create or restore, touch, disconnect, list the active ids | read, await, write on a record that several nodes write |
| **Realtime rooms** `realtime_room.service.ts` | per node: the room index; Redis: rooms per session, sessions per room | join, leave, replace, clear; room-control messages | local and shared index change at different times |
| **Reliable delivery** `realtime_delivery.service.ts` | Redis: pending envelopes per session with a TTL; per node: retry timers | store and send, ack, retry, give up, replay | one counter, timers on every node; an ack reaches one of them |
| **Realtime fanout** `realtime_fanout.service.ts`, `realtime_redis.service.ts` | Redis pub/sub channels | deliver locally, publish, handle | local delivery first; a message reaches the nodes subscribed now |
| **Realtime challenge** `realtime_challenge.service.ts` | Redis: a challenge with a TTL | create, consume | single use |
| **Direct message queue** `direct_message/direct_message.service.ts` | database: the `DirectMessage` rows of this server | `chat.message.send`, `chat.sync`, `chat.message.persisted`; replicate, pull, delete requests of other servers; expiry | copies on several servers, no transaction |
| **Inter-server DM requests** `peer_network/peer_network.service.ts` | `UserPresence` rows; the delete retry queue in memory | replicate with quorum, announce and query presence, pull, targeted delete, retry | a request that timed out may still be handled |
| **Delete gossip** `peer_network/sync/services/dm_delete_gossip.service.ts` | processed event ids in memory | publish, verify, apply, forward | duplicates, hop limits |
| **Startup sync** `peer_network/sync/services/startup_sync`, `vote_verification`, `validator_discovery` | a run in progress, a queued run, rows of weak consensus | discover validators, pick a manifest, sync tables, vote, fetch from supporters | runs asked for during a run; table timeouts leave work running; peers change rows after they voted |
| **Table sync** `peer_network/sync/services/table_sync_runner.service.ts` | the tables | answer fetch, verify and fetch-by-key requests; compare and upsert | which row wins |
| **Server scores** `peer_network.service.ts` | peer statistics, score reports, aggregates | gossip, validate, persist, aggregate | reports expire, aggregates are cached |
| **Keep-alive peers** `peer_network.service.ts` | desired peers, tags, redial backoff | reconcile, redial | the set changes during a pass |
| **Replica selection** `peer_network.service.ts` | known peers | XOR distance to a key | servers disagree |
| **Server identity** `server_identity` | two key files | load or create | a stop between the two writes |
| **Peer directory and local score** `peer_network.service.ts` | observations of peers in memory, `ServerNode` rows | note dials, connects and disconnects; touch the row; score | upserts nobody awaits |
| **Users** `user/user.service.ts` | the `User` table | register keys, update the profile | fields a request leaves out |
| **Network trace**, **Progress log and graph**, **HTTP application, Prisma** | | | logs, an HTML page, wiring |

How they interact. A frame on a socket is dispatched by the gateway to the
realtime services or, for `chat.*`, to the direct message service. That service
emits to the recipient through fanout and delivery, asks the session service
which sessions a user has, and reaches other servers through the peer network
service, whose incoming handlers call it back. A node that has authenticated a
session starts a queue synchronisation for its user (`handle_user_connected`).

What makes each component correct, as the properties state it:

* *connections and sessions*: what is registered is connected; a session has one
  owner; a session with an open socket is active, one without sockets does not
  stay so; a live session that was pruned is listed again;
* *rooms*: the local index names a session exactly while it should, and its stored rooms
  once every message has arrived; a room is left only by leaving it;
* *delivery*: attempts are bounded; what is stored is retried by somebody; what a
  client holds is stored; an acknowledged envelope stays settled; every envelope
  settles;
* *queue*: to the sender the network is a set of copies, of which none is lost before
  the message is released (`DurableMessage`); an accepted message stays on a quorum of
  other servers; a sync finds it; the servers that hold it may delete each other's
  copies;
* *requests*: what is acked is stored; the pages of a pull leave out nothing that was
  acked before it; a delete is given up only after its retries, and the queue of them
  drains;
* *startup sync*: a row without a majority is remembered; DONE means every table;
  a run ends and a queued run takes place, unless a validator holds up its manifest;
* *challenge*: it opens one connection, for the key it was issued to, in time, and is
  refused only when somebody had taken it;
* *gossip*: an event is applied by the peers of its publisher, is suppressed by nothing
  but a forward of somebody who applied it, and dies out;
* *scores*: the newest report of a reporter is kept; an aggregate is what the table
  says when nothing was written next to it; the rumours of a server that left end;
* *peers*: bootstrap servers are tagged and, as far as no dead one is in the way, connected
  again; tags, the desired set and a selection that rests agree; a score rises by
  connections only; rows settle on the truth; the choice of replicas hardly depends on who
  chooses;
* *identity*: the halves in use are of one pair, and a key once given away is lost only by
  a read that fails;
* *users*: a request changes what it asks for, the table sync a whole row, and nothing
  else a thing.

## 2. Modules

| Module | What it is |
|---|---|
| `RealtimeDelivery`, `RealtimeDeliveryProofs` | delivery of reliable envelopes to one session by several nodes; its theorems |
| `RealtimeSession`, `RealtimeSessionProofs` | sessions, connections and presence over several nodes; its theorems |
| `RealtimeRooms` | room membership: Redis, the two Maps of every node, control messages |
| `RealtimeChallenge` | the challenge a client signs |
| `RealtimeGatewayProofs` | theorems about `RealtimeRooms` and `RealtimeChallenge` |
| `DurableMessage` | abstract: what a network of servers promises the sender of a message |
| `DirectMessageQueue`, `DirectMessageQueueProofs` | the copies of one direct message on the servers of the network; its theorems |
| `DurableMessageProofs` | the queue implements `DurableMessage` |
| `SignedRequest` | one server's requests to another, with the other's start and stop |
| `DeleteRetryQueue` | the overlapping passes over the delete retry queue |
| `DmDeleteGossip` | the gossip of deletes |
| `StartupSync`, `StartupSyncProofs` | the synchronisation runs of one server with its peers; its theorems |
| `ServerScores` | score reports about one server: cycles, gossip, rows, aggregates |
| `KeepAlive` | desired peers, tags and redials of one server |
| `PeerDirectory` | what a server remembers of one peer, and the score it derives |
| `ReplicaSelection` | the closest known servers to a key |
| `PeerNetworkProofs` | theorems about `DmDeleteGossip`, `DeleteRetryQueue`, `ServerScores`, `PeerDirectory` and `ReplicaSelection` |
| `ServerIdentity` | the two key files |
| `Users` | the users table |
| `BackendNodeProofs` | theorems about `ServerIdentity`, `SignedRequest` and `Users` |
| `MCPeerNetwork`, `MCBackendNode` | several of these modules in one instance |
| `MC...` and `..._<name>.cfg` | the instances TLC checks |

They are separate because they share little state. `RealtimeDelivery` takes
from sessions only that a socket has been bound to the session (`Authenticated`),
`RealtimeRooms` only whether a node has a socket of it, and `RealtimeSession` takes from
the challenge that it was consumed. `DirectMessageQueue` takes from realtime only that the
recipient has a session on a server (`online`), from `ReplicaSelection` the set
`Selected`, and treats a request and its reply as one step or as late;
`SignedRequest` opens that step, and `DeleteRetryQueue` opens its retries.
`StartupSync` copies rows of tables without a view of what they say; `ServerScores`,
`PeerDirectory`, `Users` and `SignedRequest` have what its upserts do to the rows they
are about. `RealtimeSession` has the whole of `auth.connect`, `RealtimeDelivery`
repeats its tail (join the rooms, replay the pending envelopes), since the races of that
tail with deliveries are its subject.

`MCPeerNetwork` and `MCBackendNode` put modules that share no state into one instance.
`part`, chosen in the initial state, names the one that moves; the others stay in their
initial states. The state spaces add up, each part is checked as if alone, and its
properties are stated as the module states them (`MCPeerNetwork` restates the fairness
and two liveness properties for the behaviours of their part).

Conventions. A handler is cut at its awaits: a step is one Redis command or row
operation together with the synchronous code that runs on its reply, so handlers
of one node interleave as on the event loop and those of different nodes freely.
A variable that stands for code keeps the code's name where there is one. A
*ghost* variable records history for a property and no guard reads it, but for
`shown` (a client reports persisted only what it was sent). Definitions marked
`\* mutant` are not part of the system: each is the mutated form, used by
`PROJECT.json`, of the definition that follows it.

### RealtimeDelivery

One session, its sockets over time on several nodes, and envelopes addressed to
its personal room.

* `clients[n]` is `session_clients.get(session)` of node n in insertion order:
  the code looks up the first client and sends only on an open socket. A socket
  stays in it from `mark_authenticated` until its disconnect handler
  (`Disconnected`), also while it is closing.
* `pending[e]` is the attempt number in the hash `pending:<session>`. `timers[n]`
  are the armed timers of node n. `retrying[n][e]` is the attempt that
  `handle_retry_timeout` holds between its HGET (`RetryTimeout`) and its HSET
  (`RetryStored`) or HDEL (`RetryExhausted`).
* `EmitToRoom`, `PublishFanout`, `HandleFanout`: the node that emits delivers to
  its local client first, then publishes; other nodes deliver on receipt. Delivery
  looks the client up (`StartDelivery`), awaits the HSET, then arms the timer and
  sends (`EnvelopeStored`).
* `ReplayPending` is the replay at the end of `auth.connect`; `Acknowledge` clears
  the stored envelope and the timer of its own node only, as the code does.
* `PendingExpires` is the TTL of the hash. The hash is renewed by first
  deliveries, retries and, through the pongs, by sockets; the model lets it expire
  only when there is no socket, timer or handler left to renew it. The retry
  delays and the TTL differ by orders of magnitude.
* `Crash` empties a node's memory and closes its sockets, nothing more.

Abstractions. Sockets are used once, so their number bounds the reconnections.
Two retry handlers of one event on one node do not overlap: the backoff is at
least two seconds and the handler is one Redis round trip. Unreliable events are
sent and forgotten; they change no state and are left out. A message published
on Redis reaches every node that runs (lost only with a crash).

### RealtimeSession

* `record[s]` is the JSON record in Redis: status, node, public key, and one bit
  for its timestamps, `fresh`: `reconnect_expires_at` is ahead. Every write pushes
  it ahead; `WindowCloses` and `RecordExpires` are the passing of the grace period
  and of the TTL, 30 s longer. They happen only while no socket is bound to the
  session and no handler is about to write it: a bound socket answers pings,
  which renew the record, or is terminated within the grace period.
* `auth[c][k]` is the call of `handle_auth_connect` for frame k on socket c, with
  the user whose key the frame carries:
  `AuthConnect` (the check, the challenge being consumed), `ChallengeConsumed`
  (the old sockets of the session on this node are closed), `SessionLookedUp`,
  `SessionRestored` or `SessionCreated`, `SessionListed` (SADD, then
  `mark_authenticated`), `RoomsJoined`. `AuthFails` lets any of the awaits throw.
* `disc[c]`: `handleDisconnect`, whose `mark_session_disconnected` reads the
  record, decides on node and status, writes and unlists. `pong[c]`:
  `touch_session`. `query[n]`: `get_active_session_ids` with its pruning.

A client may name any session id that was ever handed out as the one to resume.
Only personal rooms are modelled: chat rooms change none of this state.
`last_session_id` of a record that exists is never one that `randomUUID` will
yield again.

### RealtimeRooms

* `storedRooms[s]` is the Redis set; `roomsOf[n]` and `sessionsIn[n]` are the two Maps
  of node n, which its code changes together or one after the other; `present[n]` is
  what `has_local_session` answers.
* `roomCalls` are joins and leaves: Redis (`CallStored`), the caller's own Maps
  (`CallIndexed`), the channel (`CallPublished`). `ControlHandled` takes the messages
  of a node in order; `ControlLost` and `NodeStops` are the faults.
* `connecting[n][s]`: a connection that resumes the session reads its rooms, and writes
  them and the personal room back. `LastSocketGone` clears the node's index.
* Three ghosts say what the properties except. `overlapped` has the sessions of which a
  call met another call or a connection, `raced` those of which a call changed the rooms
  while a connection that had read them was about to write them, and `strayed` the pairs
  of a node and a session about which the node misses a message; a connection of the
  session there, which indexes its rooms anew, ends it.
* The rooms of a session do not expire apart from its record. `join_chat_room` and
  `leave_chat_room` have no caller in the repository; the model lets anyone call them.

### RealtimeChallenge

* `issued[c]` is `create_challenge`: the expiry is computed before the signature and the
  SET, whose TTL counts from itself. `records[c]` is the second Redis drops the record.
* `frames[f]` is the tail of `handle_auth_connect`: GETDEL, the checks on the record,
  the signature. The payload is any challenge, key and signature.
* A clock of a few seconds; a signature is the key that made it.

### DirectMessageQueue

One message, one recipient; the home server is the sender's.

* `row[p]` is the `DirectMessage` row on server p: the replica list and which
  retention window it counts (`arrival` on the home server; `send_time` on the
  others, which compute the expiry from the client's timestamp). `over` is the
  set of windows that have passed; the two are unordered because nothing orders
  a client's clock with the server's. A row whose window passed is not handed out
  (`Live`) and is deleted at any time (`ExpiredDeleted`).
* `send[k]`: `handle_chat_message_send`. Select and upsert (`SendBegins`), one
  replicate request per replica (`PeerReplicated`, `ReplicateTimesOut`), quorum
  (`QuorumMet`) or roll back of the local row (`QuorumFailed`), presence query and
  extension of the list (`PresenceQueried`), live delivery to the servers the
  recipient is at, acceptance (`SendAccepted`).
* `sync[h]`: `synchronize_user_queue_from_replicas`, at a connection or at a
  `chat.sync`; the latter goes on to emit the local queue (`SyncEmits`).
* `del[h]` and `queue[h]`: `handle_chat_message_persisted` (the row is read,
  deleted, the others are asked) and the delete retry queue.
* `late`: requests that timed out and are still alive. A request that is answered
  is one step, request and reply. `LateRequest` handles one at any later time.
* `Crash(h)`, for the servers in `Failing` and any number of times: the calls and the
  retry queue of the server are lost, rows are not. The libp2p node is created without
  a key (`peer_network.service.ts:190-216`), so the server comes back under a new peer
  id and joins `restarted`. Rows, lists and queues elsewhere keep its old id until
  they learn the new one; the model leaves open which of the two is meant, so that
  requests to such a server arrive or not and its deletes are recognised or not
  (`MayRefuse`).

Abstractions. `Selected` is constant over the life of the message, but differs
per server and is otherwise arbitrary. A presence query may learn of any subset
of the announcements that reached a server it asks: announcements are lost, late
and expire. In the delete handler the read that authorises and the delete are one
step, and retries of one server do not overlap (`DeleteRetryQueue` has that).
Signatures are good and both users are known (the failing branches return before any
state changes).

**Refinement.** `DurableMessage` has two variables: `copies`, the servers that hold the
message, and `status`, which is sent, accepted or released. Copies are added; the
message is accepted only when a quorum of them exists; copies go only with or after
its release. The sender is not told when a copy is lost, so this is what its
`chat.message.accepted` is worth. The mapping (`Durable == INSTANCE DurableMessage WITH ...`): its servers are
all but the home server, its quorums are their subsets of `Quorum` or more, `copies`
is `Copies`, those whose row is `Live`, and `status` is `Status`: released when the
recipient has reported the message or its send-time window has passed, else accepted
when a call was answered `chat.message.accepted`. `KeepsCopies == Durable!Spec`.

### SignedRequest

* `calls[c]` is one `send_inter_server_dm_*` call and the handler at the other end of
  its stream: the caller's side, the handler's, and the answer between them, with the
  kinds replicate, pull and delete. The caller gives up at any time; the handler may
  still finish.
* A pull begins at a cursor, takes the rows past it that have not expired, as many as
  `PageLimit`, and answers the last id of a full page as the next cursor. A replicate or a
  delete is refused (`CallRefused`) with `stored: false` or `deleted: false`: for its
  signature, its recipient or its sender, which are left open.
* `phase` is the other server: down, starting (its protocol handlers are registered,
  the callbacks of its direct-message service are not), up. `HandlersRegistered` and
  `CallbacksRegistered` are these two moments; without callbacks the handler answers
  a default, an empty last page or `stored: false`.
* `RowsChange` is everything else that writes the rows: the recipient's report, gossip
  and rollbacks (`RowRemoved`), the retention (`RowExpires`) and the table sync
  (`RowCopied`). `fates[m]` has what became of a message.
* `ConnectionDrops`, `OtherServerStops`, callbacks that throw and `RowsChange` are counted
  by `MaxBreaks`. Both servers keep their keys and names.
* Every call is a stream of its own with a fresh event id, so the handlers' answer to a
  repeated event (`peer_network.service.ts:1131`, `1339`) is never given to these callers.

### DeleteRetryQueue

The Map with its attempts, and passes of the interval that overlap: a pass iterates the
live Map, reads an entry, awaits the request and writes back or deletes what it read
(`Settles`). Time is counted in starts of passes, which is what `next_attempt_at_ms`
compares to.

### DmDeleteGossip

`Publish` sends the event to the peers the server is connected to; a handler reads the
stream, looks in and adds to `dedupe_cache`, verifies, deletes and forwards with
`hop_count + 1`. Signatures are over the hash of the whole event, `hop_count`
included, as in the code, so that a forwarded event fails verification. Messages are
lost, connections move, `dedupe_cache` forgets, and a delete may fail (`ApplyFails`), which
leaves the event remembered and not applied. Nothing in the repository calls
`publish_dm_delete_gossip`; the model lets a server publish.

### StartupSync

One server and its peers; each table has one row.

* `running` and `queued` are `is_sync_running` and `queued_run_requested`; `exec`
  is `execute_sync` while one is under way, with the peers of the runtime the
  call was made with. `Startup` and `PeerConnects` call `run_sync` (`RunSync`);
  `Discover`, `ManifestAnswered`, `ManifestFails` (three rounds), `TableEnds` and
  `TableTimesOut` are the execution, and `Returns` is the loop over queued runs.
* `job[r][t]` is `sync_table` of execution r for table t. It is apart from `exec`
  because `with_timeout` ends the wait and not the work. `Fetched`, `Voted` (one
  validator after the other, then `Resolved` in the same step, for no await lies
  between), `Refetched` and `RefetchFails` (the supporters of the winner), `Applied`.
* `remote[p][t]` is the version of the row at peer p. A version stands for what
  the canonical hash covers: payload, key and timestamps. `weak` is
  `weak_consensus_queue`, and the ghost `disputed` has the tables whose row was
  taken without a majority for it.

Abstractions. `Weight` and `Preference`, the order of the validators, are constant:
scores change in the tables the runs synchronise, but a run only reads them when it
begins. Which of two equally heavy versions wins is left open (the code compares
their hashes). Whether a local row is newer, and stays, is left open too: other
modules write and stamp the same rows. The sleeps between manifest rounds are left
out, and a page has one row, so that the loop over pages ends after the first.

### ServerScores

Reports about one target. A report is its reporter and its age in ticks; everything
that holds one ages with `Tick`. `persists` are the calls of
`persist_server_score_report`, cut at the awaits (look for a newer one, upsert, trim
and read, write the aggregate), several at a time; `cycle[s]` is
`run_server_score_cycle`. An aggregate is the set of reports it was computed from. What
a signature or a known key decides is left
open (`ReportRejected`). A server that starts (`Syncers`) fetches rows of both tables from a
neighbour and upserts them as they are, computing nothing (`ReportSynced`,
`AggregateSynced`); whether the local row is newer is left open (`SyncSkips`).

### KeepAlive

`reconcile` (select, read the peer store, merge tags, refill the desired Map) and
`redial` (iterate the Map, dial) each run one at a time and interleave. The refill
clears the Map that the redial iterates, so the iteration starts over with the first of
the new entries, at any time and however often. Entries keep their order: the bootstrap
servers as configured, then the cores by rank. `Ranks` compares score, connection,
freshness and id; `mean_score` and `report_count` are one number. `Refreshed` stamps a peer
anew, for ever, so that peers of equal score change places for ever. The exponential
backoff is left out: a dial may come at any time.

### PeerDirectory

One peer: the observation (counters up to where the score stops changing), the
upserts of its `ServerNode` row that are out, in the order of their calls, and the row's
`is_active`, which a table sync writes too (`RowSynced`). The ghost `overwritten` says that
something was written after the upsert that was called last. `LocalScore` has the code's
weights.

### ReplicaSelection

`heardOf` grows and shrinks by one server at a time. `ReplicasOf(p)` are the
`ReplicaCount` of them that are closest to the key. The distance is the constant operator
`XorOf`: the instance gives it the bitwise operator over short numbers, and the proof uses
only that servers of different hashes are at different distances (`XorAssumption`).

### ServerIdentity

A start reads both files; when they are no pair (`Unreadable`, or of two pairs), it
generates one and writes both files at once, each truncated and then filled. It does so
as well when a read fails for any other reason (`IdentityMisread`), for the code catches
every error alike, and overwrites the pair that is on disk. The server may stop between
any of these steps. A finished write is on disk.

### Users

Registration of a signing key, of an x25519 key, and the profile update; each is an
upsert in one statement behind a signature check. `Trim`, the fields a body leaves out
(`Omitted`), blanks and unique-column conflicts are modelled by what they do. `quote`,
`phone` and `email` are stored as `name` is and are left out. The table sync reads the local
row, and unless that is newer replaces it by a peer's, nulls included (`RowNotOlder`,
`RowApplied`); requests may write it between the two. A peer's row that takes a unique value
of another user fails the batch (`RowClashes`).

## 3. Runs

Bounds are constants: faults and retries (`MaxCrashes`, `Failing`, `MaxLate`,
`MaxRetries`, `DeleteMaxRetries`, `DeleteRetries`, `MaxBreaks`, `MaxStops`, `MaxMisreads`,
`MaxLosses`, `MaxRestarts`, `MaxTimeouts`), things that come to pass (`Windows`, `Frames`, `MaxMoves`,
`MaxChanges`, `MaxVersion`, `MaxEnqueues`, `MaxRoomCalls`, `MaxRequests`, `MaxSyncs`,
`Leavers`, `Syncers`),
things at one time (`MaxPasses`, `MaxCalls`, `MaxTouches`), time and scores (`LastSecond`,
`MaxScore`, `MaxFreshness`), and the sets of nodes, sockets, sessions, servers, frames
and requests. `CHECK_DEADLOCK FALSE` is set where the sockets, which are used once,
or the calls of a finite instance come to an end.

| Run | Instance | What it shows |
|---|---|---|
| `delivery_retry` | 2 nodes, a socket on each, 1 envelope, 2 retries, 1 crash; 204 k states | `AttemptBounded`, `NoOrphan`, `SentIsBacked`, and `EveryEnvelopeSettles` |
| `delivery_acked` | 2 nodes, 2 sockets, 1 retry | **violated**: `AckedIsSettled` |
| `session_resume` | 1 node, 2 sockets, 2 users, 2 sessions, a presence query, 1 crash, symmetric in users, sockets and sessions; 260 k states | `ClientsAreLive`, `IndexFollowsSockets`, `OneOwner` |
| `session_live` | 2 nodes, 2 sockets, 1 session, a presence query, 1 crash; 245 k states | `AbandonedIsReleased`, `ActiveIsListedAgain` |
| `session_frames` | 1 node, 2 sockets, 2 frames per socket | **violated**: `ClientsAreLive` |
| `session_attended` | 1 node, 2 sockets | **violated**: `AttendedIsActive` |
| `session_across` | 2 nodes, 2 sockets | **violated**: `OneConnection` |
| `queue_resend` | 5 servers that select differently, quorum 2, 2 calls with one id, the home server's window, 2 late requests, the home server and a replica die at any time; 1.38 M states | `AcceptedHasQuorum`, and `SyncFindsAccepted` elsewhere |
| `queue_delete` | 3 servers, the recipient moves between a replica and a server outside the selection, no late request; 1.15 M states | `TypeOK`, `SelectedMayDelete`, and the refinement `KeepsCopies` through deletes and retries |
| `sync_runs` | 2 validators of equal weight with different rows, 2 tables, 2 runs, 1 timeout, 1 connection that opens or closes, 1 row that changes; 508 k states | `WeakIsQueued`, `DoneIsComplete`, `EveryRunEnds`, `QueuedRunHappens` |
| `peer_parts` | one of: gossip of 1 event over 4 servers in a ring, 2 hops, 1 link that moves; 1 delete, 3 passes at a time, 3 retries; scores of 1 reporter and 2 neighbours in a line, 2 of whom leave and 1 of whom syncs 1 row; keep-alive of 4 remotes, 2 of them bootstraps, 2 changes, freshness that never rests; 1 peer, 2 upserts, table syncs, 1 restart; 2 servers that select 2 of 5 for 2 keys; 627 k states | gossip: `GossipStaysOneHop`, `OnlyForwardsSuppress`, `GossipDies`; retries: `GivenUpAfterRetries`, `RetryQueueDrains`; scores: `AggregateIsCurrent`, `NewestKept`, `RumoursEnd`; keep-alive: `DesiredConverges`, `BootstrapsAreBack`; directory: `OnlyConnectsRaise`, `RowSettles`; selection: `SelectionsAgree` |
| `node_parts` | one of: home server and 2 replicas, quorum 1, both windows, 1 late request, the home server dies at any time; 1 session on 2 nodes, 1 chat room, 2 calls, 1 loss; 1 challenge, 2 frames, 2 keys, 3 seconds; 3 stops and 1 failed read; 2 requests about 2 messages, pages of 1, 2 breaks; 2 user keys, 2 requests or rows of the table sync at a time; symmetric in nodes and in requests; 1.35 M states | queue: `SyncFindsAccepted` where the home server serves the recipient; rooms: `IndexAgrees`, `IndexIsStored`, `JoinedStays`; challenge: `OpensOnceAsIssued`, `RefusedOnlyIfTaken`; identity: `IdentityIsKept`; requests: `AnswersAreTrue`; users: `OnlyAskedChanges` |

Why these are enough. The races are of two actors: two nodes that hold timers of
one envelope, a closing and a resuming socket, a query and a resume, two calls
with one id, two frames for one challenge, two reports of one reporter. Every one has its
two actors in some run, and the crash or late
request falls at any of their steps. Two retries are needed for a counter to be
written back by a node that read an older value; one session is enough for
liveness and two for ids to be confused; two replicas with quorum 2 make a
rollback of one call meet the quorum of the other, and `Diverging` makes the
synchronising server miss exactly one of the quorum. Three sockets, two of them
on one node, are covered by the theorems on `RealtimeDelivery`, which bound
nothing. In `queue_delete` no window passes, no server crashes and no request is
late; the theorems cover these. In `sync_runs` two equal weights give every kind of
vote: split, alone, null and, after the change of a row, unanimous; a late table
sync runs next to those of the rest of its run and of the next one. In `peer_parts` a ring
of four is the smallest network in which a forward meets the publisher's own copy and
goes on to a server that is no peer of the publisher; three passes let one remove
an item that two others hold; a line of three servers with the reporter at its end makes
forwarding necessary, and its leaving makes it pointless; the row that the one in the middle
syncs meets each of its calls; a dead bootstrap server before and after a live one are both
reached by two changes. In `node_parts` two requests are a replicate and the pull that
follows its ack, or a delete or a replicate that crosses a pull; pages of one of two
messages have a next cursor; two breaks are a stop or an error and a row that others
change; three stops leave halves of two pairs, an empty file, and one more start to recover
from them.

Every property of a passing run has a mutant: a plausible bug in a modelled
definition (the timer armed and then cleared, one retry too many, the local row
counted in the quorum, the last answer of a pull kept, a resume without the owner
check, tags that are added and never removed, a report restamped when it is
stored...) under which TLC finds the property violated.

## 4. Fairness

* `RealtimeDelivery`: timers fire, Redis answers and a subscriber handles its
  messages (`NodeStep`); `auth.connect` ends. Nothing is assumed of clients,
  emitters, crashes or of an ack ever sent. Disconnect handlers and `PendingExpires`
  need no fairness: retries exhaust.
* `RealtimeSession`: handlers under way go on, a closing socket gets its close
  event, open sockets answer pings, and time passes (`WindowCloses`,
  `RecordExpires`). `PongStep` is fair because a socket that does not answer is
  terminated by the heartbeat, that is, it closes.
* `DeleteRetryQueue`: the interval fires, a request settles, by answer or by the
  timeout every request has, and a pass goes on. Who enqueues is free, but a key is
  enqueued a bounded number of times.
* `DmDeleteGossip`: what arrived is read and handled (`GossipStep`). Publishing,
  losses, links and the forgetting of `dedupe_cache` are free.
* `ServerScores`: the clock ticks, the timer's cycles go on, the database answers.
  Gossip, departures and the begin of a table sync are free; a table sync copies expired
  reports too, so that rumours end once syncs do, which `MaxSyncs` makes them.
* `KeepAlive`: the timers fire and the peer store and dials answer
  (`ReconcileStep`, `RedialStep`). Nothing more: a refill may follow a refill while one
  dial is under way, for the reconcile interval and the dial timeout are of one size, and
  freshness changes for ever. `BootstrapsAreBack` therefore promises a bootstrap server
  only if no dead one comes before it in the list, or if redials do come to their end;
  `DesiredConverges` promises the tags of bootstrap servers whatever happens, and those
  of the cores if the selection comes to rest. Both are conditions on the behaviour inside
  the property, not fairness.
* `StartupSync`: the database answers, table timers fire, and a manifest request to a
  peer that is gone fails. Nothing is assumed of a manifest request to a connected peer,
  which has no timeout (`AwaitsManifest`): `EveryRunEnds` says that a run ends unless
  one of these stays open for ever, which holds `is_sync_running` for good, and
  `QueuedRunHappens` likewise. The requests of a table's sync may stay open, and what ends
  the wait is the timer. The number of timeouts being bounded, those of the current table
  settle once the bound is used up. Startup, peers and late table syncs are free.

`EveryEnvelopeSettles` assumes no crash: after one, an envelope in the hash waits
for a reconnection (`ReplayPending`) or for the TTL, and a client that never
comes back leaves it to the TTL alone. The other modules state safety only.

## 5. Findings

Each is the one property of a violation run; the quotes are in `PROJECT.json`.

1. **An ack can be undone** (`delivery_acked`). `handle_retry_timeout` reads the
   envelope, awaits, and writes it back with the next attempt. If the client's ack
   deletes it in between, the envelope is pending again, is sent once more and
   retried until the client acks again or the attempts are spent.
2. **A socket registered for two sessions** (`session_frames`). Two `auth.connect`
   frames on one socket both pass the check, which is several awaits away from
   `mark_authenticated`. The first session keeps the socket in `session_clients`
   after it has gone.
3. **A live session marked disconnected** (`session_attended`). A session resumed
   on its own node while the disconnect handler of the old socket is between GET
   and SET, or reaches the GET after the restore, is recorded as disconnected and
   unlisted although its new socket is open. `touch_session` then keeps the status
   it read, so only another reconnection repairs it.
4. **Two connections of one session** (`session_across`). The gateway closes the
   connection a resumed session had only among the sockets of its own node.

With one frame per socket `ClientsAreLive` holds (`session_resume`): the check in
`mark_authenticated` that the socket is still registered is what makes it so.

Also met while modelling, without a run, since nothing in the repository promises
otherwise:

* sessions: after a resume on one node the lookup returns the closing socket until
  its close event, and what is sent meanwhile waits for its retry;
* rooms: a join or a leave that falls between a resuming connection's read of the rooms
  and its write-back is undone;
* queue: a message stored again by a late request or a pull after it was deleted; a
  server outside the selection whose deletes the replicas refuse, because their rows
  have the list from before live delivery extended it; a failed send leaves the
  copies of the replicas that acked; a server has a new peer id after every restart, so
  that its deletes are refused and requests to its old id fail;
* requests: a server that starts answers pulls with an empty last page until its
  callbacks are registered, and nothing tells the caller so;
* identity: a start at which a key file cannot be read, for whatever reason, overwrites
  both files, and the server has another key from then on;
* users: a request that lands between the table sync's read of a user's row and its upsert
  is overwritten by the peer's row, though that is older;
* gossip: a forwarded event verifies nowhere, since the hash that is signed covers
  `hop_count`; it is remembered before it is verified, and then suppresses the
  publisher's copy; `publish_dm_delete_gossip`, `join_chat_room` and `leave_chat_room`
  have no callers;
* synchronisation: a connected validator that never answers a manifest request keeps
  `is_sync_running` set, and no run begins any more; a queued run asks the peers of the
  call before it, not the peer whose connection asked for it; rows of weak consensus are counted every
  `sync_reverify_interval_ms` and never verified again; canonical hashes cover
  `created_at` and `updated_at`, which each server stamps itself, so that copies with
  equal contents rarely have equal hashes;
* scores and peers: of two racing reports the one whose aggregate is written last wins
  until the next report, and a table sync writes reports and aggregates that do not
  belong together; an upsert of a peer's row may overtake a later one, or a table sync say
  of a peer what another server knows of it, and rows stay active when the server restarts;
* keep-alive: a dead bootstrap server keeps those after it in the list, and the cores, from
  being redialled when a reconciliation refills the Map during each of its dials; cores of
  equal score change places whenever one of them is heard of, and their tags with them.

The hazards of `PROJECT.json` name their lines.

## 6. What is proved

Every invariant and every action property without fairness that a passing run checks is
a theorem, and so is the refinement of `DurableMessage`. TLAPS checks them for all values
of the constants under the `ASSUME`s of the modules: the placement of sockets is a
function; bounds are naturals; `None`, `Null` and the like are not data; servers, peers
and hosts are finitely many; no server selects itself; the quorum is between 1 and the
number of replicas; votes weigh 1 to 100, the range the code clamps scores to; there are
some tables, challenges, keys and messages; servers of different hashes are at different
distances from a key. One theorem, `OneFrameKeepsClientsLive`, has a hypothesis of its own.

Most properties are not inductive: a step reads what an earlier step of the same handler
left, and the property says nothing of it. Each section names what the inductive
invariant adds. It was checked by TLC before it was proved. Each step of a theorem
module is a lemma of its own, for one action or for a group of actions that move the
same variables.

**RealtimeDelivery.** `TypeCorrect`, `AttemptsStayBounded`, `PendingIsNeverOrphaned`,
`SentEnvelopesAreBacked`, `RoomIndexFollowsSockets`.

* `AttemptBounded` is inductive together with `TypeOK`, because it bounds what the
  retry handlers hold as well as what is stored.
* `NoOrphan` is inductive: an ack or an exhausted retry clears the timer of its
  node, but empties the hash in the same step; a handler that read nothing holds
  nothing, and one that did re-arms.
* `SentIsBacked` is not inductive. What a client holds survives the TTL only
  because the hash expires when no socket is registered, so the proof carries
  `OpenSocketsAreRegistered`: an open socket is in `clients` of its node, and
  nothing is under way on any other.

**RealtimeSession.** `SessionTypeCorrect`, `IndexFollows`, `OneFrameKeepsClientsLive`,
`SessionHasOneOwner`, all on `CallsInv`: the types, and that a handler between two awaits
still has what its next step reads (`CallsHold`).

* `IndexFollowsSockets`: a registered socket whose frame has reached `RoomsJoined` stays a
  client of the frame's session (`JoiningIsClient`), and once the frame is through the
  session is in its room (`JoinedIsIndexed`). The disconnect handler clears the index
  when the last client goes, and a crash takes clients and index together.
* `ClientsAreLive` holds with at most one frame per socket (`OneFrameAtMost`): then, while
  a frame is handled, its socket is bound to no session (`AuthenticatesOnce`). Without
  the hypothesis it is false, which is finding 2; the hypothesis is what a client does
  that waits for the answer to its frame.
* `OneOwner`: everything that mentions a session, be it the record, the list of active
  sessions, a frame that was given it or is about to restore it, or a disconnect or pong
  that carries the record it has read, names one user (`OwnersAgree`). An id that
  `randomUUID` has not yielded is named by nobody (`NamedIsCreated`), so that a created
  session is disputed by none.

**RealtimeRooms.** `RoomIndexAgrees`, `RoomIndexIsStored`, `JoinedRoomsStay`.

* The first two are from `RoomsInv`. For a session whose calls met no other call and no
  connection of it, and a node that misses no message about it, the last message about a
  room in the node's queue says whether the room is stored (`SaysStored`), unless a call has
  written it and has yet to publish (`Rewriting`); a room without a message on its way is
  indexed as stored (`IndexedStored`); what a connection carries from its read to its
  write-back is what is stored (`CarriesStored`), which is how a node that missed a message
  is put right. An earlier message of the queue may say the opposite, which is why the
  invariant is about the last.
* `JoinedRoomsStay` is from `HeldInv`, which excepts less: whatever calls met and messages
  were lost, what a connection carries is what is stored (`HeldRooms`), until a call changes
  the rooms in between, and that is what `raced` remembers.

**RealtimeChallenge.** `ChallengeOpensOnceAsIssued`, from `ChallengeOpensOnce` and
`ChallengeOpensAsIssued`, and `ChallengeRefusesOnlyTaken`. A frame that holds a
record has taken it out of Redis, where nothing puts it again (`StoredIsAnswered`,
`HeldIsTaken`), so no two hold one (`HeldByOne`), and what it passed on the way is that it is of
the right key and in time (`HeldIsTaken`, `AcceptedIsSigned`). A record nobody took is in
Redis until its challenge is over, since the TTL starts at the SET, which is after the
expiry was computed (`UntakenIsThere`).

**DirectMessageQueue.** `TypeCorrect`, `AcceptedStaysHeld`, `DeletesAreAuthorised`,
`SyncsFindAccepted`.

* `AcceptedStaysHeld` proves `AcceptedHasQuorum`. Its invariant `QuorumInv` says
  how the copies came about: rows of other servers count from the send time
  (`RemoteSince`); nothing deletes a row before the recipient reports the message,
  but the home server and the windows (`NothingDeleted`); requests under way go to
  other servers (`RequestsAreRemote`); a call past its quorum has it
  (`CallsHaveQuorum`); who acked holds a row (`AckedHaveIt`); the ghost `holders`
  are such servers (`HoldersAreQuorum`). The quorum target is where
  `Cardinality(Selected[Home]) >= ReplicaCount` and `Quorum <= ReplicaCount` are
  used: without them a target is capped by the number of selected peers.
* `DeletesAreAuthorised` proves `SelectedMayDelete`. A delete is judged by the list
  in the receiver's row, and lists differ; the invariant `ListsCover` says that
  every list in a row, call, pull or late request contains `Selected[Home]`. Live
  delivery and pulls only extend or copy such lists. Servers that have restarted are
  excepted: their deletes are refused by old rows.
* `SyncsFindAccepted` proves `SyncFindsAccepted` from `SyncInv`, on top of `QuorumInv`:
  the servers promised to a sync are a quorum of holders (`PromisesHeld`) among the
  home server's replicas (`AcksAreSelected`); while a sync pulls, a promised server it
  has asked answered with the message or failed (`PullsFind`); a quorum is larger than
  what was missed, so one did answer, and the row is there and stays
  (`SyncsStore`). On the home server itself the only call is over by then
  (`OnlyCallIsOver`), and does not roll back.

**DurableMessage.** `QueueIsDurable`: `Spec => KeepsCopies`, the refinement. It uses
`QuorumInv`: at the acceptance the acked servers hold live rows, so the abstract quorum
is among the copies; and a row elsewhere goes only by a delete, which needs the
recipient's report, or with the send-time window. Each action maps to `Store`, `Accept`,
`Release`, `Drop` or a stutter; a step changes the row of one server at most
(`OneRowStep`, `StatusStep`), and a send told `chat.message.accepted` has its holders
(`AcceptedIsHeld`).

**DmDeleteGossip.** `GossipIsOneHop`, `OnlyAppliedSuppress`, from `GossipInv`: an event
that was not forwarded is addressed to the publisher's audience, a forwarded one comes
from a server that has applied it and does not get past the verification
(`SentInAudience`, `HandledInAudience`); what a server remembers or has read is being
handled there, or its delete failed there, or it was applied somewhere (`SeenIsSettled`).

**DeleteRetryQueue.** `RetriesAreCounted`: neither an entry nor a pass that asks for it
counts more attempts than have failed (`CountsAreFailures`). Overlapping passes may count
two failures as one, never one as two.

**ServerScores.** `ScoresNewestKept`, `ScoresAggregateIsCurrent`. A call about to trim has
its report in the table, or a newer one (`TrimsHold`). When no call is between upsert and
read, either one that has yet to write has read the table as it is, or all writes to come
were overtaken, by a write or a table sync, and the aggregate is what the table says or is
known to be outdated (`LastReadIsCurrent`).

**PeerDirectory.** `DirectoryRowSettles`: the last upsert called is of the connection as
it is, and is out or has taken effect, and if nothing was written after it the row has it
(`LastTouchIsLinked`). `DirectoryOnlyConnectsRaise`
is arithmetic of `LocalScore` over every change of an observation.

**ReplicaSelection.** `ReplicaSelectionsAgree`. A server that p selects and q does not
has exactly `ReplicaCount` closer ones among all that both know, for p and q differ by
leaving themselves out (`DisputedIsLast`); two such servers have different numbers of
closer ones (`OneIsCloser`); so there is one at most.

**StartupSync.** `StrongOutweighs`, `DisputedIsQueued`, `DoneSyncedAll`.

* `StrongOutweighs`: more than half of the weight that voted is more than all that voted
  otherwise. The weight of a set is a fold; that folds of disjoint sets add up needs an
  induction over finite sets, which is done by a count: a set weighs as many shares as
  its members hold (`WeightCounts`), and no smallest set exists for which the fold and
  the count differ (`FoldIsCount`, with `FS_StrictSubsetOrderingWellFounded` of the
  library).
* `WeakIsQueued`: a version about to be applied without a majority is queued already, and
  a winner that is fetched again as strong has its majority (`ApplyingIsQueued`).
  `StrongOutweighs` is what ties the code's test to the majority.
* `DoneIsComplete`: an outcome is of an execution that is over (`DoneIsOver`), whose loop
  left no unfinished table behind unless it noted so (`LoopIsComplete`). Jobs of an
  earlier execution go on meanwhile; runs are numbered by what asked for them
  (`RunsAreAskedFor`), so that they have jobs of their own.

**ServerIdentity.** `ServerIdentityIsKept`, from `HalvesAlwaysMatch` and
`KnownKeyIsKept`. The pair in use is on disk in both
files (`UsedIsOnDisk`). Of the keys that were given away all but one were lost by a failed
read each, and while the last is not lost it is on disk in both files and no pair is
being stored over it (`KnownIsOnDisk`); `OnePairPerStart` keeps the numbers of the pairs
fresh.

**SignedRequest.** `CallersAreToldTheTruth`, from `AcksAreTrue` and `PullsFindAcked`. A
message a callback has said is stored is there until it is deleted, removed or expires
(`ReplicatedIsStored`), so is what a caller knew acked when it pulled
(`SettledIsStored`), and of the ids that a callback's page covers the page has all of these
(`PageHasSettled`): a full page ends at the cursor it answers, and any other has every
row past its own.

**Users.** `OnlyAskedIsWritten`: what a request has no field of is in the row after it as
it was before (`RowIsAsked`), whichever row the request meets, and a row of the table sync
replaces the row of its own key alone.

Only model-checked:

* liveness, for neither fairness nor `ENABLED` is in the prover's reach:
  `EveryEnvelopeSettles`, `AbandonedIsReleased`, `ActiveIsListedAgain`, `EveryRunEnds`,
  `QueuedRunHappens`, `GossipDies`, `RetryQueueDrains`, `RumoursEnd`, `DesiredConverges`,
  `BootstrapsAreBack`; `KeepAlive` has properties of this kind only;
* that the fields of `StartupSync` the theorems do not speak of keep their types: the
  lists of validators are made by `SelectSeq`, whose type is an induction over
  sequences. Its proofs use the shape of the records instead (`JobShape`, `ExecShape`);
* findings: that a property is violated is shown by TLC's counterexample.

## 7. Not modelled, and the plan

Not modelled: frame parsing and validation; key encodings and the arithmetic of
signatures; the counting of missed pongs (its outcome, a socket that closes, is an
action); which of two writers of a row wins by its timestamps in the table sync (left
open wherever its rows are modelled), and the table sync as a writer of the rows of
`DirectMessageQueue` (`SignedRequest` has it for the rows of one other server); the network trace, the
progress log and the graph page (written and never read by the rest); HTTP controllers, the generated Prisma client (whose row
operations are the atomic steps of the models) and wiring.

Planned, in this order:

1. An abstract specification of delivery (an envelope is offered, stored, settled),
   that `RealtimeDelivery` implements it while no process dies, and the proof.
2. Abstract specifications of what a room index and a session promise their users, with
   refinements, from `RoomsInv` and `OwnerInv`.
3. The safety that the liveness of `KeepAlive` and `DeleteRetryQueue` rests on (what a
   pass holds is what was queued, tags are those of desired peers) as theorems.
4. `TableSync`: which row wins between local writers, late syncs and the timestamps of
   each table; and the rows it copies in `DirectMessageQueue`.
5. `RealtimeHeartbeat`, `NetworkTrace`.
