---------------------------- MODULE DeleteRetryQueue ----------------------------
(***************************************************************************)
(* inter_server_dm_delete_retry_queue of one server: the deletes that a    *)
(* peer did not acknowledge, asked for again by a timer.  DirectMessage-   *)
(* Queue has this queue for one message and retries one item at a time;    *)
(* here the passes of the timer overlap, because process_..._retry_queue   *)
(* awaits each request while the timer goes on.                            *)
(*                                                                         *)
(* Time is counted in starts of passes.  next_attempt_at_ms is one         *)
(* interval, the timer's own, after the start of the pass that writes it,  *)
(* or after the moment of enqueueing: an entry is due for the passes that  *)
(* start later, an enqueued one not for the very next.                     *)
(***************************************************************************)
EXTENDS Naturals, FiniteSets, Sequences, SequencesExt

CONSTANTS
  Keys,         \* message_id:peer_id
  MaxPasses,    \* bound: passes under way at one time
  DeleteRetries,\* delete_max_retries
  MaxEnqueues   \* bound: how often a key is enqueued

ASSUME RetriesAssumption  == DeleteRetries \in Nat \ {0}
ASSUME PassesAssumption   == MaxPasses \in Nat \ {0}
ASSUME EnqueuesAssumption == MaxEnqueues \in Nat \ {0}

VARIABLES
  entries,   \* the map: attempts, the passes it is not due for, starts to wait
  running,   \* passes under way, the oldest first
  visited,   \* per pass, the keys its iteration is past
  item,      \* per pass, the key and the attempts it read before the request
  enqueued,  \* ghost: how often a key was enqueued
  failures,  \* ghost: failed requests since the key was last enqueued, up to the limit
  crossed,   \* ghost: keys enqueued while a request of an earlier time was out
  hasty      \* ghost: keys given up after fewer than delete_max_retries failures

retryVars == <<entries, running, visited, item, enqueued, failures, crossed, hasty>>

Passes  == 1..MaxPasses
NoEntry == [attempts |-> 0, early |-> {}, wait |-> 2]
NoItem  == <<>>

IsQueued(k) == entries[k] # NoEntry
Running == ToSet(running)

RetryTypeOK ==
  /\ entries   \in [Keys -> [attempts: 0..(DeleteRetries - 1), early: SUBSET Passes, wait: 0..2]]
  /\ Running \subseteq Passes /\ IsInjective(running)
  /\ visited   \in [Passes -> SUBSET Keys]
  /\ item      \in [Passes -> {NoItem} \cup (Keys \X (0..(DeleteRetries - 1)))]
  /\ enqueued  \in [Keys -> 0..MaxEnqueues]
  /\ failures  \in [Keys -> 0..DeleteRetries]
  /\ crossed   \subseteq Keys
  /\ hasty     \subseteq Keys

RetryInit ==
  /\ entries   = [k \in Keys |-> NoEntry]
  /\ running   = <<>>
  /\ visited   = [s \in Passes |-> {}]
  /\ item      = [s \in Passes |-> NoItem]
  /\ enqueued  = [k \in Keys |-> 0]
  /\ failures  = [k \in Keys |-> 0]
  /\ crossed   = {}
  /\ hasty     = {}

\* the passes that started no later than pass s
NoLaterThan(s) == {running[i] : i \in 1..(CHOOSE i \in DOMAIN running : running[i] = s)}

\* Map.set: a new key is visited by every iteration under way, a known key
\* keeps its place
Set(k, attempts, early, wait) ==
  /\ entries' = [entries EXCEPT ![k] = [attempts |-> attempts, early |-> early, wait |-> wait]]
  /\ visited' = IF IsQueued(k) THEN visited
                ELSE [s \in Passes |-> visited[s] \ {k}]

Forget(k) ==
  /\ entries' = [entries EXCEPT ![k] = NoEntry]
  /\ UNCHANGED visited

-----------------------------------------------------------------------------
\* send_targeted_dm_delete: the first request failed, enqueue_dm_delete_retry
Enqueue(k) ==
  /\ enqueued[k] < MaxEnqueues
  /\ enqueued' = [enqueued EXCEPT ![k] = @ + 1]
  /\ Set(k, 0, Running, 1)
  /\ failures' = [failures EXCEPT ![k] = 0]
  /\ crossed' = IF \E s \in Passes : item[s] # NoItem /\ item[s][1] = k
                THEN crossed \cup {k} ELSE crossed
  /\ UNCHANGED <<running, item, hasty>>

\* the timer: an empty queue is left at once
PassStarts(s) ==
  /\ s \notin Running /\ (1..(s - 1)) \subseteq Running
  /\ \E k \in Keys : IsQueued(k)
  /\ running' = Append(running, s)
  /\ visited' = [visited EXCEPT ![s] = {}]
  /\ entries' = [k \in Keys |->
       IF entries[k].wait = 1
       THEN [entries[k] EXCEPT !.early = @ \cup {s}, !.wait = 0]
       ELSE [entries[k] EXCEPT !.early = @ \ {s}]]
  /\ UNCHANGED <<item, enqueued, failures, crossed, hasty>>

Due(s, k) == IsQueued(k) /\ k \notin visited[s] /\ s \notin entries[k].early

\* the iteration comes to an entry that is due and sends the request
Asks(s, k) ==
  /\ s \in Running /\ item[s] = NoItem /\ Due(s, k)
  /\ item' = [item EXCEPT ![s] = <<k, entries[k].attempts>>]
  /\ visited' = [visited EXCEPT ![s] = @ \cup {k}]
  /\ UNCHANGED <<entries, running, enqueued, failures, crossed, hasty>>

\* the peer acknowledged
Acknowledged(s) ==
  /\ item[s] # NoItem
  /\ Forget(item[s][1])
  /\ item' = [item EXCEPT ![s] = NoItem]
  /\ UNCHANGED <<running, enqueued, failures, crossed, hasty>>

NotIncremented(s) == item[s][2]   \* mutant

\* the pass counts on the item it read before the request
NextAttempts(s) == item[s][2] + 1

GivesUpAtOnce(attempts) == attempts >= 1   \* mutant

GivesUp(attempts) == attempts >= DeleteRetries

\* it refused, was not there, or the request timed out
NotAcknowledged(s) ==
  LET k == item[s][1] IN
  /\ item[s] # NoItem
  /\ failures' = [failures EXCEPT ![k] = IF @ = DeleteRetries THEN @ ELSE @ + 1]
  /\ IF GivesUp(NextAttempts(s))
       THEN Forget(k) /\ hasty' = IF failures'[k] < DeleteRetries THEN hasty \cup {k} ELSE hasty
       ELSE Set(k, NextAttempts(s), NoLaterThan(s), 0) /\ UNCHANGED hasty
  /\ item' = [item EXCEPT ![s] = NoItem]
  /\ UNCHANGED <<running, enqueued, crossed>>

\* no entry is left that is due
PassEnds(s) ==
  /\ s \in Running /\ item[s] = NoItem
  /\ \A k \in Keys : ~Due(s, k)
  /\ running' = SelectSeq(running, LAMBDA r : r # s)
  /\ entries' = [k \in Keys |-> [entries[k] EXCEPT !.early = @ \ {s}]]
  /\ visited' = [visited EXCEPT ![s] = {}]
  /\ UNCHANGED <<item, enqueued, failures, crossed, hasty>>

PassGoesOn(s) == PassEnds(s) \/ (\E k \in Keys : Asks(s, k))
Settles(s)    == Acknowledged(s) \/ NotAcknowledged(s)

RetryNext ==
  \/ \E k \in Keys : Enqueue(k)
  \/ \E s \in Passes : PassStarts(s) \/ PassGoesOn(s) \/ Settles(s)

RetrySpec == RetryInit /\ [][RetryNext]_retryVars

\* the timer fires, each request answers or times out, each pass goes on
RetryFairSpec ==
  /\ RetrySpec
  /\ WF_retryVars(\E s \in Passes : PassStarts(s))
  /\ \A s \in Passes : WF_retryVars(PassGoesOn(s)) /\ WF_retryVars(Settles(s))

-----------------------------------------------------------------------------
(* Properties.                                                             *)

\* However the passes overlap, a key is given up only after delete_max_retries
\* failed requests: passes that count the same failure together may only make
\* it more.  A key enqueued again while a request of an earlier time is out is
\* excepted: that pass counts on, and gives up, the old item.
GivenUpAfterRetries ==
  hasty \subseteq crossed

\* The queue drains although a pass may write back an entry that another pass
\* has removed, or an older counter than the one that is there.
RetryQueueDrains == <>[](\A k \in Keys : ~IsQueued(k))
=============================================================================
