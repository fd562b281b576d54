------------------------ MODULE DirectMessageQueueProofs ------------------------
(***************************************************************************)
(* Proofs about DirectMessageQueue, for any finite network, any selection  *)
(* of replicas, any quorum and any number of send calls, late requests and *)
(* crashes.                                                                *)
(***************************************************************************)
EXTENDS DirectMessageQueue, FiniteSetTheorems, TLAPS

-----------------------------------------------------------------------------
(* Type correctness.                                                       *)

\* What a delete answer and a replicate leave in the rows.
LEMMA AnswerTypes ==
  ASSUME TypeOK, NEW h \in Peers, NEW p \in Peers, NEW list \in SUBSET Peers
  PROVE  /\ Stored(p, list) => row' \in [Peers -> Row \cup {None}] /\ shown' \in BOOLEAN
         /\ \A deleted \in BOOLEAN : DeleteAnswered(h, p, deleted) =>
              row' \in [Peers -> Row \cup {None}] /\ refused' \subseteq Peers
<1>1. ASSUME Stored(p, list)
      PROVE  row' \in [Peers -> Row \cup {None}] /\ shown' \in BOOLEAN
  BY <1>1 DEF Stored, TypeOK, Row
<1>2. ASSUME NEW deleted \in BOOLEAN, DeleteAnswered(h, p, deleted)
      PROVE  row' \in [Peers -> Row \cup {None}] /\ refused' \subseteq Peers
  BY <1>2 DEF DeleteAnswered, TypeOK
<1>3. QED BY <1>1, <1>2

\* Assigning a well-typed record to one entry keeps an array well-typed.
LEMMA SendUpdate ==
  ASSUME TypeOK, NEW k \in Calls, NEW c \in SendCall
  PROVE  [send EXCEPT ![k] = c] \in [Calls -> SendCall]
BY DEF TypeOK

LEMMA UpdateTypes ==
  ASSUME TypeOK, NEW h \in Peers
  PROVE  /\ \A r \in Row \cup {None} : [row EXCEPT ![h] = r] \in [Peers -> Row \cup {None}]
         /\ \A y \in SyncCall : [sync EXCEPT ![h] = y] \in [Peers -> SyncCall]
         /\ \A d \in DelCall : [del EXCEPT ![h] = d] \in [Peers -> DelCall]
BY DEF TypeOK

\* Changing fields of a well-typed record to well-typed values keeps its type.
LEMMA FieldUpdate ==
  /\ \A c \in SendCall, A, B, C \in SUBSET Peers :
       /\ [c EXCEPT !.todo = A] \in SendCall
       /\ [c EXCEPT !.todo = A, !.acked = B] \in SendCall
       /\ [c EXCEPT !.pc = "presence"] \in SendCall
       /\ [c EXCEPT !.pc = "accept"] \in SendCall
       /\ [c EXCEPT !.pc = "live", !.todo = A, !.list = C] \in SendCall
  /\ \A y \in SyncCall, A, B \in SUBSET Peers, r \in Row \cup {None} :
       /\ [y EXCEPT !.todo = A, !.found = r] \in SyncCall
       /\ [y EXCEPT !.todo = A, !.failed = B] \in SyncCall
       /\ [y EXCEPT !.pc = "pull", !.todo = A, !.promised = B] \in SyncCall
       /\ [y EXCEPT !.pc = "emit", !.found = None] \in SyncCall
  /\ \A d \in DelCall, A \in SUBSET Peers :
       /\ [d EXCEPT !.todo = A] \in DelCall
       /\ [d EXCEPT !.pc = "found", !.list = A] \in DelCall
       /\ [d EXCEPT !.pc = "sending", !.todo = A] \in DelCall
BY ZenonT(60) DEF SendCall, SyncCall, DelCall

\* The fields of a well-typed entry.
LEMMA CallTypes ==
  ASSUME TypeOK, NEW k \in Calls
  PROVE  /\ send[k] \in SendCall
         /\ send[k].todo \in SUBSET Peers /\ send[k].acked \in SUBSET Peers
         /\ send[k].list \in SUBSET Peers
BY DEF TypeOK, SendCall

LEMMA EntryTypes ==
  ASSUME TypeOK, NEW h \in Peers
  PROVE  /\ sync[h] \in SyncCall /\ del[h] \in DelCall
         /\ sync[h].todo \in SUBSET Peers /\ sync[h].failed \in SUBSET Peers
         /\ sync[h].found \in Row \cup {None} /\ sync[h].promised \in SUBSET Peers
         /\ del[h].todo \in SUBSET Peers /\ del[h].list \in SUBSET Peers
         /\ row[h] # None => row[h] \in Row /\ row[h].replicas \in SUBSET Peers
         /\ Selected[h] \in SUBSET Peers
BY SelectedAssumption DEF TypeOK, SyncCall, DelCall, Row

\* The records calls begin and end with.
LEMMA IdleTypes ==
  /\ SendIdle \in SendCall
  /\ \A pc \in {"failed", "accepted"} : [SendIdle EXCEPT !.pc = pc] \in SendCall
  /\ SyncIdle \in SyncCall
  /\ DelIdle \in DelCall
BY DEF SendIdle, SyncIdle, DelIdle, SendCall, SyncCall, DelCall

\* A request its caller gives up stays a request.
LEMMA GivenUpType ==
  ASSUME TypeOK, NEW h \in Peers, NEW p \in Peers, NEW list \in SUBSET Peers,
         GivenUp(Replicate(p, list)) \/ GivenUp(Delete(h, p))
  PROVE  late' \subseteq Request
BY PeersAssumption DEF GivenUp, Replicate, Delete, TypeOK, Request

\* The attempts of a retried delete stay below the maximum.
LEMMA RequeuedType ==
  ASSUME NEW i \in 0..DeleteMaxRetries - 1
  PROVE  Requeued(i) \in Attempts
BY RetriesAssumption DEF Requeued, Attempts

\* The steps of a deletion give up no replicate request.
LEMMA DeletesGivenUp ==
  ASSUME NEW h \in Peers,
         \/ PersistedReads(h) \/ DeleteStep(h)
         \/ \E p \in Peers : RetryStep(h, p)
  PROVE  \A m \in late' : m.type = "replicate" => m \in late
<1>1. CASE late' = late
  BY <1>1
<1>2. ASSUME NEW p \in Peers, DeleteUnanswered(h, p)
      PROVE  \A m \in late' : m.type = "replicate" => m \in late
  BY <1>2 DEF DeleteUnanswered, GivenUp, Delete
<1>3. late' = late \/ \E p \in Peers : DeleteUnanswered(h, p)
  BY DEF PersistedReads, DeleteStep, PersistedDeletes, DeleteHandled, DeleteTimesOut,
     DeleteDone, RetryStep, RetryHandled, RetryTimesOut
<1>4. QED BY <1>1, <1>2, <1>3

\* The requests a crash leaves alive are those of the server's open calls.
LEMMA CrashRequests ==
  ASSUME NEW h \in Peers, Crash(h), NEW m \in late', m \notin late
  PROVE  \/ \E k \in Calls : /\ send[k].pc \in {"replicate", "presence", "live", "accept"}
                             /\ \E p \in send[k].todo : m = Replicate(p, send[k].list)
         \/ \E p \in del[h].todo : m = Delete(h, p)
<1> DEFINE calls == {k \in Calls : h = Home /\ send[k].pc \in
                                    {"replicate", "presence", "live", "accept"}}
           open  == (UNION {{Replicate(p, send[k].list) : p \in send[k].todo} : k \in calls})
                      \cup {Delete(h, p) : p \in del[h].todo \ {h}}
<1>1. PICK alive \in SUBSET open : late' = {q \in late : q.to # h} \cup alive
  BY DEF Crash
<1>2. m \in open
  BY <1>1
<1>3. \A k \in calls : /\ k \in Calls
                       /\ send[k].pc \in {"replicate", "presence", "live", "accept"}
  OBVIOUS
<1> HIDE DEF calls
<1>4. CASE m \in UNION {{Replicate(p, send[k].list) : p \in send[k].todo} : k \in calls}
  <2>1. PICK k \in calls : m \in {Replicate(p, send[k].list) : p \in send[k].todo}
    BY <1>4
  <2>2. QED BY <1>3, <2>1
<1>5. QED BY <1>2, <1>4

\* The steps of chat.message.send keep the types.
LEMMA SendTypeStep ==
  ASSUME TypeOK, NEW k \in Calls, SendBegins(k) \/ SendStep(k)
  PROVE  TypeOK'
<1> USE PeersAssumption, SelectedAssumption
<1>1. CASE SendBegins(k)
  <2> DEFINE r == [replicas |-> Selected[Home], since |-> "arrival"]
             c == [pc |-> "replicate", todo |-> Selected[Home],
                   acked |-> {}, list |-> Selected[Home]]
  <2>a. r \in Row /\ c \in SendCall
    BY EntryTypes DEF Row, SendCall
  <2>b. row' = [row EXCEPT ![Home] = r] /\ send' = [send EXCEPT ![k] = c]
    BY <1>1 DEF SendBegins
  <2> HIDE DEF r, c
  <2>1. row' \in [Peers -> Row \cup {None}]
    BY <2>a, <2>b, UpdateTypes
  <2>2. send' \in [Calls -> SendCall]
    BY <2>a, <2>b, SendUpdate
  <2>3. QED BY <1>1, <2>1, <2>2 DEF SendBegins, TypeOK
<1>2. ASSUME NEW p \in Peers, PeerReplicated(k, p) PROVE TypeOK'
  <2>1. send[k].list \in SUBSET Peers
    BY DEF TypeOK, SendCall
  <2>2. row' \in [Peers -> Row \cup {None}] /\ shown' \in BOOLEAN
    BY <1>2, <2>1, AnswerTypes DEF PeerReplicated
  <2> DEFINE c == [send[k] EXCEPT !.todo = @ \ {p},
                     !.acked = IF send[k].pc = "replicate" THEN @ \cup {p} ELSE @]
  <2>a. c \in SendCall
    BY CallTypes, FieldUpdate
  <2>b. send' = [send EXCEPT ![k] = c]
    BY <1>2 DEF PeerReplicated, TypeOK, SendCall
  <2> HIDE DEF c
  <2>3. send' \in [Calls -> SendCall]
    BY <2>a, <2>b, SendUpdate
  <2>4. QED BY <1>2, <2>2, <2>3 DEF PeerReplicated, TypeOK
<1>3. ASSUME NEW p \in Peers, ReplicateTimesOut(k, p) PROVE TypeOK'
  <2>1. send[k].list \in SUBSET Peers
    BY DEF TypeOK, SendCall
  <2>2. late' \subseteq Request
    BY <1>3, <2>1, GivenUpType DEF ReplicateTimesOut
  <2>3. send' \in [Calls -> SendCall]
    <3> DEFINE c == [send[k] EXCEPT !.todo = @ \ {p}]
    <3>1. c \in SendCall
      BY CallTypes, FieldUpdate
    <3>2. send' = [send EXCEPT ![k] = c]
      BY <1>3 DEF ReplicateTimesOut, TypeOK, SendCall
    <3> HIDE DEF c
    <3>3. QED BY <3>1, <3>2, SendUpdate
  <2>4. QED BY <1>3, <2>2, <2>3 DEF ReplicateTimesOut, TypeOK
<1>4. CASE QuorumMet(k)
  <2>1. send' \in [Calls -> SendCall]
    <3>1. send' = [send EXCEPT ![k] = [send[k] EXCEPT !.pc = "presence"]]
      BY <1>4 DEF QuorumMet, TypeOK, SendCall
    <3>2. QED BY <3>1, CallTypes, FieldUpdate, SendUpdate
  <2>2. QED BY <1>4, <2>1 DEF QuorumMet, TypeOK
<1>5. CASE QuorumFailed(k)
  <2>1. send' \in [Calls -> SendCall]
    BY <1>5 DEF QuorumFailed, SendIdle, TypeOK, SendCall
  <2>2. QED BY <1>5, <2>1 DEF QuorumFailed, TypeOK
<1>6. ASSUME NEW extra \in SUBSET Peers, PresenceQueried(k, extra) PROVE TypeOK'
  <2> DEFINE c == [send[k] EXCEPT !.pc = "live", !.todo = extra, !.list = @ \cup extra]
             r == [row[Home] EXCEPT !.replicas = send[k].list \cup extra]
  <2>a. c \in SendCall /\ [send[k] EXCEPT !.pc = "accept"] \in SendCall
    BY CallTypes, FieldUpdate
  <2>b. row[Home] # None => r \in Row
    <3>1. row[Home] # None => row[Home] \in Row
      BY EntryTypes
    <3>2. send[k].list \cup extra \in SUBSET Peers
      BY CallTypes
    <3>3. QED BY <3>1, <3>2 DEF Row
  <2>c. \/ /\ send' = [send EXCEPT ![k] = [send[k] EXCEPT !.pc = "accept"]]
           /\ row' = row
        \/ /\ send' = [send EXCEPT ![k] = [SendIdle EXCEPT !.pc = "failed"]]
           /\ row' = row
        \/ /\ row[Home] # None
           /\ send' = [send EXCEPT ![k] = c]
           /\ row' = [row EXCEPT ![Home] = r]
    BY <1>6 DEF PresenceQueried, TypeOK, SendCall
  <2> HIDE DEF c, r
  <2>1. send' \in [Calls -> SendCall]
    BY <2>a, <2>c, SendUpdate, IdleTypes
  <2>2. row' \in [Peers -> Row \cup {None}]
    BY <2>b, <2>c, UpdateTypes DEF TypeOK
  <2>3. QED BY <1>6, <2>1, <2>2 DEF PresenceQueried, TypeOK
<1>7. CASE SendAccepted(k)
  <2>1. send' \in [Calls -> SendCall]
    BY <1>7 DEF SendAccepted, SendIdle, TypeOK, SendCall
  <2>2. holders' \subseteq Peers
    BY <1>7 DEF SendAccepted, TypeOK, SendCall
  <2>3. QED BY <1>7, <2>1, <2>2 DEF SendAccepted, TypeOK
<1>8. QED BY <1>1, <1>2, <1>3, <1>4, <1>5, <1>6, <1>7 DEF SendStep

\* The steps of a recipient's sessions and of chat.sync keep the types.
LEMMA SyncTypeStep ==
  ASSUME TypeOK, NEW h \in Peers,
         \/ RecipientConnects(h) \/ RecipientLeaves(h) \/ SyncBegins(h)
         \/ SyncStep(h)
  PROVE  TypeOK'
<1> USE PeersAssumption, SelectedAssumption
<1>1. CASE RecipientConnects(h) \/ RecipientLeaves(h)
  BY <1>1 DEF RecipientConnects, RecipientLeaves, TypeOK
<1>2. CASE SyncBegins(h)
  <2> DEFINE y == [SyncIdle EXCEPT !.pc = "pull", !.todo = Selected[h],
                                   !.promised = holders]
  <2>a. y \in SyncCall
    BY EntryTypes, IdleTypes, FieldUpdate DEF TypeOK
  <2>b. sync' = [sync EXCEPT ![h] = y]
    BY <1>2 DEF SyncBegins
  <2> HIDE DEF y
  <2>1. sync' \in [Peers -> SyncCall]
    BY <2>a, <2>b, UpdateTypes, IdleTypes
  <2>2. QED BY <1>2, <2>1 DEF SyncBegins, Announced, TypeOK
<1>3. ASSUME NEW p \in Peers, PulledFrom(h, p) PROVE TypeOK'
  <2> DEFINE y == [sync[h] EXCEPT !.todo = @ \ {p}, !.found = FirstCopy(@, p)]
  <2>a. FirstCopy(sync[h].found, p) \in Row \cup {None}
    BY EntryTypes DEF FirstCopy, PullAnswer, TypeOK
  <2>b. y \in SyncCall
    BY <2>a, EntryTypes, FieldUpdate
  <2>c. sync' = [sync EXCEPT ![h] = y]
    BY <1>3 DEF PulledFrom, TypeOK, SyncCall
  <2> HIDE DEF y
  <2>1. sync' \in [Peers -> SyncCall]
    BY <2>b, <2>c, UpdateTypes, IdleTypes
  <2>2. QED BY <1>3, <2>1 DEF PulledFrom, TypeOK
<1>4. ASSUME NEW p \in Peers, PullFails(h, p) PROVE TypeOK'
  <2>1. sync' \in [Peers -> SyncCall]
    <3> DEFINE y == [sync[h] EXCEPT !.todo = @ \ {p}, !.failed = @ \cup {p}]
    <3>1. y \in SyncCall
      BY ZenonT(60), EntryTypes, FieldUpdate
    <3>2. sync' = [sync EXCEPT ![h] = y]
      BY <1>4 DEF PullFails, TypeOK, SyncCall
    <3> HIDE DEF y
    <3>3. QED BY <3>1, <3>2, UpdateTypes, IdleTypes
  <2>2. QED BY <1>4, <2>1 DEF PullFails, TypeOK
<1>5. CASE SyncStores(h)
  <2>1. row' \in [Peers -> Row \cup {None}]
    <3>1. sync[h].found # None => [sync[h].found EXCEPT !.since = "send_time"] \in Row
      BY EntryTypes DEF Row
    <3>2. QED BY <1>5, <3>1, UpdateTypes, IdleTypes DEF SyncStores, TypeOK
  <2>2. sync' \in [Peers -> SyncCall]
    <3> DEFINE y == [sync[h] EXCEPT !.pc = "emit", !.found = None]
    <3>1. y \in SyncCall
      BY EntryTypes, FieldUpdate
    <3>2. sync' = [sync EXCEPT ![h] = y] \/ sync' = [sync EXCEPT ![h] = SyncIdle]
      BY <1>5 DEF SyncStores, TypeOK, SyncCall
    <3> HIDE DEF y
    <3>3. QED BY <3>1, <3>2, UpdateTypes, IdleTypes
  <2>3. QED BY <1>5, <2>1, <2>2 DEF SyncStores, TypeOK
<1>6. CASE SyncEmits(h)
  <2>1. sync' \in [Peers -> SyncCall]
    BY <1>6 DEF SyncEmits, SyncIdle, TypeOK, SyncCall
  <2>2. shown' \in BOOLEAN
    BY <1>6 DEF SyncEmits, TypeOK
  <2>3. QED BY <1>6, <2>1, <2>2 DEF SyncEmits, TypeOK
<1>7. QED BY <1>1, <1>2, <1>3, <1>4, <1>5, <1>6 DEF SyncStep

\* The steps of chat.message.persisted and of the retry queue keep the types.
LEMMA DeleteTypeStep ==
  ASSUME TypeOK, NEW h \in Peers,
         \/ PersistedReads(h) \/ DeleteStep(h)
         \/ \E p \in Peers : RetryStep(h, p)
  PROVE  TypeOK'
<1> USE PeersAssumption
<1>1. CASE PersistedReads(h)
  <2>1. del' \in [Peers -> DelCall]
    <3> DEFINE d == [DelIdle EXCEPT !.pc = "found", !.list = row[h].replicas]
    <3>1. row[h] # None => d \in DelCall
      BY EntryTypes, IdleTypes, FieldUpdate
    <3>2. del' = IF row[h] = None THEN del ELSE [del EXCEPT ![h] = d]
      BY <1>1 DEF PersistedReads
    <3> HIDE DEF d
    <3>3. QED BY <3>1, <3>2, UpdateTypes, IdleTypes DEF TypeOK
  <2>2. QED BY <1>1, <2>1 DEF PersistedReads, TypeOK
<1>2. CASE PersistedDeletes(h)
  <2>1. del' \in [Peers -> DelCall]
    <3> DEFINE d == [del[h] EXCEPT !.pc = "sending", !.todo = {Home} \cup del[h].list]
    <3>1. d \in DelCall
      BY EntryTypes, FieldUpdate
    <3>2. del' = [del EXCEPT ![h] = IF row[h] = None THEN DelIdle ELSE d]
      BY <1>2 DEF PersistedDeletes, TypeOK
    <3> HIDE DEF d
    <3>3. QED BY <3>1, <3>2, UpdateTypes, IdleTypes
  <2>2. row' \in [Peers -> Row \cup {None}]
    BY <1>2 DEF PersistedDeletes, TypeOK
  <2>3. QED BY <1>2, <2>1, <2>2 DEF PersistedDeletes, TypeOK
<1>3. ASSUME NEW p \in Peers PROVE Enqueued(h, p) => queue' \in [Peers -> [Peers -> Attempts]]
  BY RetriesAssumption DEF Enqueued, Attempts, TypeOK
<1>4. ASSUME NEW p \in Peers, DeleteHandled(h, p) PROVE TypeOK'
  <2>1. row' \in [Peers -> Row \cup {None}] /\ refused' \subseteq Peers
    BY <1>4, AnswerTypes DEF DeleteHandled
  <2>2. queue' \in [Peers -> [Peers -> Attempts]]
    BY <1>3, <1>4 DEF DeleteHandled, TypeOK
  <2>3. del' \in [Peers -> DelCall]
    <3> DEFINE d == [del[h] EXCEPT !.todo = @ \ {p}]
    <3>1. d \in DelCall
      BY EntryTypes, FieldUpdate
    <3>2. del' = [del EXCEPT ![h] = d]
      BY <1>4 DEF DeleteHandled, TypeOK, DelCall
    <3> HIDE DEF d
    <3>3. QED BY <3>1, <3>2, UpdateTypes
  <2>4. QED BY <1>4, <2>1, <2>2, <2>3 DEF DeleteHandled, TypeOK
<1>5. ASSUME NEW p \in Peers, DeleteTimesOut(h, p) PROVE TypeOK'
  <2>1. late' \subseteq Request
    BY <1>5, GivenUpType DEF DeleteTimesOut, DeleteUnanswered, TypeOK
  <2>2. queue' \in [Peers -> [Peers -> Attempts]]
    BY <1>3, <1>5 DEF DeleteTimesOut
  <2>3. del' \in [Peers -> DelCall]
    <3> DEFINE d == [del[h] EXCEPT !.todo = @ \ {p}]
    <3>1. d \in DelCall
      BY EntryTypes, FieldUpdate
    <3>2. del' = [del EXCEPT ![h] = d]
      BY <1>5 DEF DeleteTimesOut, TypeOK, DelCall
    <3> HIDE DEF d
    <3>3. QED BY <3>1, <3>2, UpdateTypes
  <2>4. QED BY <1>5, <2>1, <2>2, <2>3 DEF DeleteTimesOut, TypeOK
<1>6. CASE DeleteDone(h)
  <2>1. del' \in [Peers -> DelCall]
    BY <1>6 DEF DeleteDone, DelIdle, TypeOK, DelCall
  <2>2. QED BY <1>6, <2>1 DEF DeleteDone, TypeOK
<1>7. ASSUME NEW p \in Peers, queue[h][p] # None PROVE Requeued(queue[h][p]) \in Attempts
  BY <1>7, RequeuedType DEF TypeOK, Attempts
<1>8. None \in Attempts
  BY DEF Attempts
<1>9. ASSUME NEW p \in Peers, RetryHandled(h, p) PROVE TypeOK'
  <2>1. row' \in [Peers -> Row \cup {None}] /\ refused' \subseteq Peers
    BY <1>9, AnswerTypes DEF RetryHandled
  <2>2. queue' \in [Peers -> [Peers -> Attempts]]
    <3>1. PICK a \in Attempts : queue' = [queue EXCEPT ![h][p] = a]
      BY <1>7, <1>8, <1>9 DEF RetryHandled
    <3>2. queue \in [Peers -> [Peers -> Attempts]]
      BY DEF TypeOK
    <3>3. QED BY <3>1, <3>2
  <2>3. QED BY <1>9, <2>1, <2>2 DEF RetryHandled, TypeOK
<1>10. ASSUME NEW p \in Peers, RetryTimesOut(h, p) PROVE TypeOK'
  <2>1. late' \subseteq Request
    BY <1>10, GivenUpType DEF RetryTimesOut, DeleteUnanswered, TypeOK
  <2>2. queue' \in [Peers -> [Peers -> Attempts]]
    BY <1>7, <1>10 DEF RetryTimesOut, TypeOK
  <2>3. QED BY <1>10, <2>1, <2>2 DEF RetryTimesOut, TypeOK
<1>11. QED
  BY <1>1, <1>2, <1>4, <1>5, <1>6, <1>9, <1>10 DEF DeleteStep, RetryStep

\* Time, late requests and crashes keep the types.
LEMMA FailureTypeStep ==
  ASSUME TypeOK,
         \/ \E h \in Peers : ExpiredDeleted(h)
         \/ \E h \in Failing : Crash(h)
         \/ \E m \in late : LateRequest(m)
         \/ \E base \in Windows : WindowCloses(base)
  PROVE  TypeOK'
<1> USE PeersAssumption
<1>1. ASSUME NEW h \in Peers, ExpiredDeleted(h) PROVE TypeOK'
  BY <1>1 DEF ExpiredDeleted, TypeOK
<1>2. ASSUME NEW base \in Windows, WindowCloses(base) PROVE TypeOK'
  BY <1>2 DEF WindowCloses, TypeOK
<1>3. ASSUME NEW m \in late, LateRequest(m) PROVE TypeOK'
  <2>1. m.from \in Peers /\ m.to \in Peers /\ m.list \in SUBSET Peers
    BY DEF TypeOK, Request
  <2>2. /\ row' \in [Peers -> Row \cup {None}]
        /\ shown' \in BOOLEAN /\ refused' \subseteq Peers
    <3>1. CASE m.type = "replicate" /\ Stored(m.to, m.list) /\ UNCHANGED refused
      BY <2>1, <3>1, AnswerTypes DEF TypeOK
    <3>2. CASE /\ UNCHANGED shown
               /\ \E deleted \in BOOLEAN : DeleteAnswered(m.from, m.to, deleted)
      <4>1. PICK deleted \in BOOLEAN : DeleteAnswered(m.from, m.to, deleted)
        BY <3>2
      <4>2. row' \in [Peers -> Row \cup {None}] /\ refused' \subseteq Peers
        BY <2>1, <4>1, AnswerTypes
      <4>3. QED BY <3>2, <4>2 DEF TypeOK
    <3>3. QED BY <1>3, <3>1, <3>2 DEF LateRequest
  <2>3. QED BY <1>3, <2>2 DEF LateRequest, TypeOK
<1>4. ASSUME NEW h \in Failing, Crash(h) PROVE TypeOK'
  <2>1. late' \subseteq Request
    <3>1. \A k \in Calls : \A p \in send[k].todo : Replicate(p, send[k].list) \in Request
      BY CallTypes DEF Replicate, Request
    <3>2. \A p \in del[h].todo : Delete(h, p) \in Request
      BY <1>4, BoundsAssumption, EntryTypes DEF Delete, Request
    <3>3. QED BY <1>4, BoundsAssumption, <3>1, <3>2, CrashRequests DEF TypeOK
  <2>2. send' \in [Calls -> SendCall]
    BY <1>4 DEF Crash, SendIdle, TypeOK, SendCall
  <2>3. sync' \in [Peers -> SyncCall] /\ del' \in [Peers -> DelCall]
    BY <1>4 DEF Crash, SyncIdle, DelIdle, TypeOK, SyncCall, DelCall
  <2>4. queue' \in [Peers -> [Peers -> Attempts]]
    BY <1>4 DEF Crash, NoRetries, TypeOK, Attempts
  <2>5. online' \subseteq Peers /\ restarted' \subseteq Peers
    BY <1>4, BoundsAssumption DEF Crash, TypeOK
  <2>6. QED BY <1>4, <2>1, <2>2, <2>3, <2>4, <2>5 DEF Crash, TypeOK
<1>5. QED BY <1>1, <1>2, <1>3, <1>4

\* Every step of the system keeps every variable in its type.
LEMMA TypeStep == TypeOK /\ [Next]_vars => TypeOK'
<1> SUFFICES ASSUME TypeOK, [Next]_vars PROVE TypeOK'
  OBVIOUS
<1>1. CASE UNCHANGED vars
  BY <1>1 DEF vars, TypeOK
<1>2. CASE Next
  BY <1>2, ReachedAssumption, SendTypeStep, SyncTypeStep, DeleteTypeStep,
     FailureTypeStep DEF Next
<1>3. QED BY <1>1, <1>2

\* The initial state is well typed.
LEMMA InitTypes == Init => TypeOK
<1> SUFFICES ASSUME Init PROVE TypeOK
  OBVIOUS
<1>1. /\ row \in [Peers -> Row \cup {None}] /\ send \in [Calls -> SendCall]
      /\ sync \in [Peers -> SyncCall] /\ del \in [Peers -> DelCall]
  BY IdleTypes DEF Init
<1>2. queue \in [Peers -> [Peers -> Attempts]]
  BY DEF Init, NoRetries, Attempts
<1>3. QED BY <1>1, <1>2 DEF Init, TypeOK

\* Every variable keeps its type in every behaviour; in particular no retried
\* delete ever reaches delete_max_retries attempts.
THEOREM TypeCorrect == Spec => []TypeOK
BY InitTypes, TypeStep, PTL DEF Spec

-----------------------------------------------------------------------------
(* An accepted message is held by a quorum: AcceptedHasQuorum.             *)

\* The rows of the other servers count their retention from the send time.
RemoteSince ==
  \A p \in Peers \ {Home} : row[p] # None => row[p].since = "send_time"

\* Nobody deletes the message before the recipient has reported it persisted.
NothingDeleted ==
  ~persisted =>
    /\ \A h \in Peers : del[h] = DelIdle
    /\ \A h, p \in Peers : queue[h][p] = None
    /\ \A m \in late : m.type = "replicate"

\* A replicate request never goes to the home server.
RequestsAreRemote ==
  /\ \A k \in Calls : Home \notin send[k].todo \cup send[k].acked
  /\ \A m \in late : m.type = "replicate" => m.to # Home

\* A call goes on to its presence query with a quorum of acks.
CallsHaveQuorum ==
  \A k \in Calls :
    /\ send[k].pc = "replicate" =>
         Cardinality(send[k].list) >= ReplicaCount
    /\ send[k].pc \in {"presence", "live", "accept"} =>
         Cardinality(send[k].acked) >= Quorum

\* The message is neither persisted nor expired at the other servers.
Fresh == ~persisted /\ "send_time" \notin over

\* Until then the servers that acked it have it.
AckedHaveIt ==
  Fresh => /\ \A k \in Calls : \A p \in send[k].acked : row[p] # None
           /\ \A p \in holders : row[p] # None

\* The holders of an accepted message are a quorum of other servers.
HoldersAreQuorum ==
  /\ Home \notin holders
  /\ holders # {} => Cardinality(holders) >= Quorum

QuorumInv ==
  /\ TypeOK
  /\ RemoteSince
  /\ NothingDeleted
  /\ RequestsAreRemote
  /\ CallsHaveQuorum
  /\ AckedHaveIt
  /\ HoldersAreQuorum

\* When a call changes to a record that is in order and gives up only replicate
\* requests to other servers, the calls stay in order.
LEMMA CallStep ==
  ASSUME QuorumInv, NEW k \in Calls, NEW c \in SendCall,
         send' = [send EXCEPT ![k] = c],
         Home \notin c.todo \cup c.acked,
         c.pc = "replicate" => Cardinality(c.list) >= ReplicaCount,
         c.pc \in {"presence", "live", "accept"} => Cardinality(c.acked) >= Quorum,
         \A m \in late' : m \in late \/ (m.type = "replicate" /\ m.to # Home),
         UNCHANGED <<del, queue, persisted>>
  PROVE  NothingDeleted' /\ RequestsAreRemote' /\ CallsHaveQuorum'
<1>1. \A j \in Calls : send'[j] = IF j = k THEN c ELSE send[j]
  BY DEF QuorumInv, TypeOK
<1>2. NothingDeleted'
  BY DEF QuorumInv, NothingDeleted
<1>3. RequestsAreRemote'
  BY <1>1 DEF QuorumInv, RequestsAreRemote
<1>4. CallsHaveQuorum'
  BY <1>1 DEF QuorumInv, CallsHaveQuorum
<1>5. QED BY <1>2, <1>3, <1>4

\* When no call changes its acks and no replicate request is added, neither the
\* calls nor the requests get out of order.
LEMMA OtherStep ==
  ASSUME QuorumInv, UNCHANGED <<send, holders>>,
         \A m \in late' : m.type = "replicate" => m \in late
  PROVE  RequestsAreRemote' /\ CallsHaveQuorum' /\ HoldersAreQuorum'
BY DEF QuorumInv, RequestsAreRemote, CallsHaveQuorum, HoldersAreQuorum

\* When no other server loses its copy while the message is fresh, those that
\* acked a call and the holders still have it.
LEMMA CopiesStep ==
  ASSUME QuorumInv,
         Fresh' => Fresh,
         Fresh' => \A p \in Peers \ {Home} : row[p] # None => row'[p] # None,
         \A k \in Calls : \A p \in send'[k].acked : p \in send[k].acked \/ row'[p] # None,
         \A p \in holders' : p \in holders \/ \E k \in Calls : p \in send[k].acked
  PROVE  AckedHaveIt'
<1> SUFFICES ASSUME Fresh'
             PROVE  /\ \A k \in Calls : \A p \in send'[k].acked : row'[p] # None
                    /\ \A p \in holders' : row'[p] # None
  BY DEF AckedHaveIt
<1>1. \A k \in Calls : send[k].acked \subseteq Peers \ {Home}
  BY CallTypes DEF QuorumInv, RequestsAreRemote
<1>2. holders \subseteq Peers \ {Home}
  BY DEF QuorumInv, TypeOK, HoldersAreQuorum
<1>3. /\ \A k \in Calls : \A p \in send[k].acked : row'[p] # None
      /\ \A p \in holders : row'[p] # None
  BY <1>1, <1>2 DEF QuorumInv, AckedHaveIt
<1>4. QED BY <1>3

\* A replicated copy counts from the send time and takes nobody's copy away; a
\* deletion changes no other copy.
LEMMA StoredRows ==
  ASSUME QuorumInv, NEW p \in Peers, NEW list \in SUBSET Peers, p # Home, Stored(p, list)
  PROVE  RemoteSince' /\ \A q \in Peers : row[q] # None \/ q = p => row'[q] # None
<1> DEFINE r == [replicas |-> list, since |-> "send_time"]
<1>1. r \in Row /\ r.since = "send_time"
  BY DEF Row
<1>2. r # None
  BY <1>1, NoneAssumption
<1>3. row' = [row EXCEPT ![p] = r]
  BY DEF Stored
<1> HIDE DEF r
<1>4. \A q \in Peers : row'[q] = IF q = p THEN r ELSE row[q]
  BY <1>3 DEF QuorumInv, TypeOK
<1>5. QED BY <1>1, <1>2, <1>4 DEF QuorumInv, RemoteSince

LEMMA RemovedRow ==
  ASSUME QuorumInv, NEW p \in Peers, row' = [row EXCEPT ![p] = None] \/ row' = row
  PROVE  RemoteSince' /\ \A q \in Peers \ {p} : row'[q] = row[q]
BY DEF QuorumInv, TypeOK, RemoteSince

\* The steps of chat.message.send.
LEMMA SendQuorumStep ==
  ASSUME QuorumInv, TypeOK', NEW k \in Calls, SendBegins(k) \/ SendStep(k)
  PROVE  QuorumInv'
<1> USE PeersAssumption
<1>0. TypeOK /\ send \in [Calls -> SendCall] /\ send[k] \in SendCall
  BY CallTypes DEF QuorumInv, TypeOK
<1>1. CASE SendBegins(k)
  <2> DEFINE c == [pc |-> "replicate", todo |-> Selected[Home],
                   acked |-> {}, list |-> Selected[Home]]
             r == [replicas |-> Selected[Home], since |-> "arrival"]
  <2>1. c \in SendCall /\ r \in Row
    BY <1>0, EntryTypes DEF SendCall, Row
  <2>2. NothingDeleted' /\ RequestsAreRemote' /\ CallsHaveQuorum'
    <3>1. Home \notin Selected[Home]
      BY SelectedAssumption
    <3>2. QED BY <1>1, <2>1, <3>1, CallStep DEF SendBegins
  <2>3. row' = [row EXCEPT ![Home] = r]
    BY <1>1 DEF SendBegins
  <2>4. RemoteSince' /\ \A q \in Peers \ {Home} : row'[q] = row[q]
    BY <2>3 DEF QuorumInv, TypeOK, RemoteSince
  <2>5. \A j \in Calls : send'[j].acked \subseteq send[j].acked
    BY <1>0, <1>1 DEF SendBegins
  <2>6. AckedHaveIt'
    BY <1>1, <2>4, <2>5, CopiesStep DEF SendBegins, Fresh
  <2>7. HoldersAreQuorum'
    BY <1>1 DEF SendBegins, QuorumInv, HoldersAreQuorum
  <2>8. QED BY <2>2, <2>4, <2>6, <2>7 DEF QuorumInv
<1>2. ASSUME NEW p \in Peers, PeerReplicated(k, p) PROVE QuorumInv'
  <2> DEFINE c == [send[k] EXCEPT !.todo = @ \ {p},
                     !.acked = IF send[k].pc = "replicate" THEN @ \cup {p} ELSE @]
  <2>1. c \in SendCall
    BY <1>0, CallTypes, FieldUpdate
  <2>2. send' = [send EXCEPT ![k] = c]
    BY <1>0, <1>2 DEF PeerReplicated, SendCall
  <2>3. /\ c.pc = send[k].pc /\ c.list = send[k].list /\ c.todo = send[k].todo \ {p}
        /\ c.acked = IF send[k].pc = "replicate" THEN send[k].acked \cup {p} ELSE send[k].acked
    BY <1>0 DEF SendCall
  <2>4. p # Home /\ Home \notin send[k].todo \cup send[k].acked
    BY <1>2 DEF PeerReplicated, QuorumInv, RequestsAreRemote
  <2>5. /\ c.pc = "replicate" => Cardinality(c.list) >= ReplicaCount
        /\ c.pc \in {"presence", "live", "accept"} => Cardinality(c.acked) >= Quorum
    BY <2>3 DEF QuorumInv, CallsHaveQuorum
  <2>6. RemoteSince' /\ \A q \in Peers : row[q] # None \/ q = p => row'[q] # None
    BY <1>0, <1>2, <2>4, CallTypes, StoredRows DEF PeerReplicated
  <2>7. \A j \in Calls : send'[j] = IF j = k THEN c ELSE send[j]
    BY <1>0, <2>2
  <2> HIDE DEF c
  <2>8. NothingDeleted' /\ RequestsAreRemote' /\ CallsHaveQuorum'
    BY <1>2, <2>1, <2>2, <2>3, <2>4, <2>5, CallStep DEF PeerReplicated
  <2>9. \A j \in Calls : \A q \in send'[j].acked : q \in send[j].acked \/ row'[q] # None
    BY <2>3, <2>6, <2>7
  <2>10. AckedHaveIt'
    BY <1>2, <2>6, <2>9, CopiesStep DEF PeerReplicated, Fresh
  <2>11. HoldersAreQuorum'
    BY <1>2 DEF PeerReplicated, QuorumInv, HoldersAreQuorum
  <2>12. QED BY <2>6, <2>8, <2>10, <2>11 DEF QuorumInv
<1>3. ASSUME NEW p \in Peers, ReplicateTimesOut(k, p) PROVE QuorumInv'
  <2> DEFINE c == [send[k] EXCEPT !.todo = @ \ {p}]
  <2>1. c \in SendCall
    BY <1>0, CallTypes, FieldUpdate
  <2>2. send' = [send EXCEPT ![k] = c]
    BY <1>0, <1>3 DEF ReplicateTimesOut, SendCall
  <2>3. /\ c.pc = send[k].pc /\ c.list = send[k].list /\ c.todo = send[k].todo \ {p}
        /\ c.acked = send[k].acked
    BY <1>0 DEF SendCall
  <2>4. p # Home /\ Home \notin send[k].todo \cup send[k].acked
    BY <1>3 DEF ReplicateTimesOut, QuorumInv, RequestsAreRemote
  <2>5. /\ c.pc = "replicate" => Cardinality(c.list) >= ReplicaCount
        /\ c.pc \in {"presence", "live", "accept"} => Cardinality(c.acked) >= Quorum
    BY <2>3 DEF QuorumInv, CallsHaveQuorum
  <2>6. \A m \in late' : m \in late \/ (m.type = "replicate" /\ m.to # Home)
    BY <1>3, <2>4 DEF ReplicateTimesOut, GivenUp, Replicate
  <2>7. \A j \in Calls : send'[j] = IF j = k THEN c ELSE send[j]
    BY <1>0, <2>2
  <2> HIDE DEF c
  <2>8. NothingDeleted' /\ RequestsAreRemote' /\ CallsHaveQuorum'
    BY <1>3, <2>1, <2>2, <2>3, <2>4, <2>5, <2>6, CallStep DEF ReplicateTimesOut
  <2>9. \A j \in Calls : send'[j].acked \subseteq send[j].acked
    BY <2>3, <2>7
  <2>10. AckedHaveIt'
    BY <1>3, <2>9, CopiesStep DEF ReplicateTimesOut, Fresh
  <2>11. HoldersAreQuorum' /\ RemoteSince'
    BY <1>3 DEF ReplicateTimesOut, QuorumInv, HoldersAreQuorum, RemoteSince
  <2>12. QED BY <2>8, <2>10, <2>11 DEF QuorumInv
<1>4. CASE QuorumMet(k)
  <2> DEFINE c == [send[k] EXCEPT !.pc = "presence"]
  <2>1. c \in SendCall
    BY <1>0, FieldUpdate
  <2>2. send' = [send EXCEPT ![k] = c]
    BY <1>0, <1>4 DEF QuorumMet, SendCall
  <2>3. /\ c.pc = "presence" /\ c.todo = send[k].todo
        /\ c.acked = send[k].acked
    BY <1>0 DEF SendCall
  <2>4. Home \notin send[k].todo \cup send[k].acked
    BY DEF QuorumInv, RequestsAreRemote
  <2>5. Cardinality(send[k].acked) >= Quorum
    <3>1. Cardinality(send[k].list) >= ReplicaCount
      BY <1>4 DEF QuorumMet, QuorumInv, CallsHaveQuorum
    <3>2. IsFiniteSet(send[k].list) /\ IsFiniteSet(send[k].acked)
      BY <1>0, CallTypes, FS_Subset
    <3>3. Cardinality(send[k].list) \in Nat /\ Cardinality(send[k].acked) \in Nat
      BY <3>2, FS_CardinalityType
    <3>4. send[k].list # {}
      BY <3>1, FS_EmptySet, QuorumAssumption
    <3>5. QuorumTarget(send[k].list) = Quorum
      BY <3>1, <3>3, <3>4, QuorumAssumption DEF QuorumTarget
    <3>6. QED BY <1>4, <3>5 DEF QuorumMet
  <2>6. \A j \in Calls : send'[j] = IF j = k THEN c ELSE send[j]
    BY <1>0, <2>2
  <2> HIDE DEF c
  <2>7. NothingDeleted' /\ RequestsAreRemote' /\ CallsHaveQuorum'
    BY <1>4, <2>1, <2>2, <2>3, <2>4, <2>5, CallStep DEF QuorumMet
  <2>8. \A j \in Calls : send'[j].acked \subseteq send[j].acked
    BY <2>3, <2>6
  <2>9. AckedHaveIt'
    BY <1>4, <2>8, CopiesStep DEF QuorumMet, Fresh
  <2>10. HoldersAreQuorum' /\ RemoteSince'
    BY <1>4 DEF QuorumMet, QuorumInv, HoldersAreQuorum, RemoteSince
  <2>11. QED BY <2>7, <2>9, <2>10 DEF QuorumInv
<1>5. CASE QuorumFailed(k)
  <2> DEFINE c == [SendIdle EXCEPT !.pc = "failed"]
  <2>1. c \in SendCall /\ send' = [send EXCEPT ![k] = c]
    BY <1>5, IdleTypes DEF QuorumFailed
  <2>2. c.pc = "failed" /\ c.todo = {} /\ c.acked = {}
    BY DEF SendIdle
  <2> HIDE DEF c
  <2>3. NothingDeleted' /\ RequestsAreRemote' /\ CallsHaveQuorum'
    BY <1>5, <2>1, <2>2, CallStep DEF QuorumFailed
  <2>4. \A j \in Calls : send'[j].acked \subseteq send[j].acked
    BY <1>0, <2>1, <2>2
  <2>5. RemoteSince' /\ \A q \in Peers \ {Home} : row'[q] = row[q]
    BY <1>5, RemovedRow DEF QuorumFailed
  <2>6. AckedHaveIt'
    BY <1>5, <2>4, <2>5, CopiesStep DEF QuorumFailed, Fresh
  <2>7. HoldersAreQuorum'
    BY <1>5 DEF QuorumFailed, QuorumInv, HoldersAreQuorum
  <2>8. QED BY <2>3, <2>5, <2>6, <2>7 DEF QuorumInv
<1>6. ASSUME NEW extra \in SUBSET Peers, PresenceQueried(k, extra) PROVE QuorumInv'
  <2>1. PICK c \in {[send[k] EXCEPT !.pc = "accept"], [SendIdle EXCEPT !.pc = "failed"],
                    [send[k] EXCEPT !.pc = "live", !.todo = extra, !.list = @ \cup extra]} :
          send' = [send EXCEPT ![k] = c]
    <3>1. \/ send' = [send EXCEPT ![k] = [send[k] EXCEPT !.pc = "accept"]]
          \/ send' = [send EXCEPT ![k] = [SendIdle EXCEPT !.pc = "failed"]]
          \/ send' = [send EXCEPT ![k] = [send[k] EXCEPT !.pc = "live", !.todo = extra,
                                                         !.list = @ \cup extra]]
      BY <1>0, <1>6 DEF PresenceQueried, SendCall
    <3>2. QED BY <3>1
  <2>2. /\ c \in SendCall
        /\ c.pc \in {"accept", "failed", "live"} /\ c.acked \subseteq send[k].acked
        /\ c.pc \in {"accept", "live"} => c.acked = send[k].acked
        /\ Home \notin c.todo \cup c.acked
    <3>1. extra \in SUBSET Peers /\ Home \notin extra /\ send[k].list \cup extra \in SUBSET Peers
      BY <1>0, <1>6, CallTypes DEF PresenceQueried
    <3>2. Home \notin send[k].todo \cup send[k].acked
      BY DEF QuorumInv, RequestsAreRemote
    <3>3. CASE c = [send[k] EXCEPT !.pc = "accept"]
      BY <1>0, <3>2, <3>3, FieldUpdate DEF SendCall
    <3>4. CASE c = [SendIdle EXCEPT !.pc = "failed"]
      BY <3>4, IdleTypes DEF SendIdle
    <3>5. CASE c = [send[k] EXCEPT !.pc = "live", !.todo = extra, !.list = @ \cup extra]
      <4>1. c \in SendCall
        BY <1>0, <3>1, <3>5, FieldUpdate
      <4>2. c.pc = "live" /\ c.todo = extra /\ c.acked = send[k].acked
        BY <1>0, <3>5 DEF SendCall
      <4>3. QED BY <3>1, <3>2, <4>1, <4>2
    <3>6. QED BY <2>1, <3>3, <3>4, <3>5
  <2>3. send[k].pc = "presence" /\ Cardinality(send[k].acked) >= Quorum
    BY <1>6 DEF PresenceQueried, QuorumInv, CallsHaveQuorum
  <2>4. NothingDeleted' /\ RequestsAreRemote' /\ CallsHaveQuorum'
    BY <1>6, <2>1, <2>2, <2>3, CallStep DEF PresenceQueried
  <2>5. \A j \in Calls : send'[j].acked \subseteq send[j].acked
    BY <1>0, <2>1, <2>2
  <2>6. RemoteSince' /\ \A q \in Peers \ {Home} : row'[q] = row[q]
    BY <1>6 DEF PresenceQueried, QuorumInv, TypeOK, RemoteSince
  <2>7. AckedHaveIt'
    BY <1>6, <2>5, <2>6, CopiesStep DEF PresenceQueried, Fresh
  <2>8. HoldersAreQuorum'
    BY <1>6 DEF PresenceQueried, QuorumInv, HoldersAreQuorum
  <2>9. QED BY <2>4, <2>6, <2>7, <2>8 DEF QuorumInv
<1>7. CASE SendAccepted(k)
  <2> DEFINE c == [SendIdle EXCEPT !.pc = "accepted"]
  <2>1. c \in SendCall /\ send' = [send EXCEPT ![k] = c]
    BY <1>7, IdleTypes DEF SendAccepted
  <2>2. c.pc = "accepted" /\ c.todo = {} /\ c.acked = {}
    BY DEF SendIdle
  <2> HIDE DEF c
  <2>3. NothingDeleted' /\ RequestsAreRemote' /\ CallsHaveQuorum'
    BY <1>7, <2>1, <2>2, CallStep DEF SendAccepted
  <2>4. \A j \in Calls : send'[j].acked \subseteq send[j].acked
    BY <1>0, <2>1, <2>2
  <2>5. AckedHaveIt' /\ RemoteSince'
    BY <1>7, <2>4, CopiesStep DEF SendAccepted, Fresh, QuorumInv, RemoteSince
  <2>6. HoldersAreQuorum'
    <3>1. Cardinality(send[k].acked) >= Quorum /\ Home \notin send[k].acked
      BY <1>7 DEF SendAccepted, QuorumInv, CallsHaveQuorum, RequestsAreRemote
    <3>2. holders' = holders \cup send[k].acked
      BY <1>7 DEF SendAccepted
    <3>3. IsFiniteSet(holders')
      BY FS_Subset DEF TypeOK
    <3>4. Cardinality(send[k].acked) <= Cardinality(holders')
      BY <3>2, <3>3, FS_Subset
    <3>5. Cardinality(holders') \in Nat /\ Cardinality(send[k].acked) \in Nat
      BY <1>0, <3>3, CallTypes, FS_Subset, FS_CardinalityType
    <3>6. Home \notin holders'
      BY <3>1, <3>2 DEF QuorumInv, HoldersAreQuorum
    <3>7. QED BY <3>1, <3>4, <3>5, <3>6, QuorumAssumption DEF HoldersAreQuorum
  <2>7. QED BY <2>3, <2>5, <2>6 DEF QuorumInv
<1>8. QED BY <1>1, <1>2, <1>3, <1>4, <1>5, <1>6, <1>7 DEF SendStep

\* The steps of a recipient's sessions and of chat.sync.
LEMMA SyncQuorumStep ==
  ASSUME QuorumInv, TypeOK', NEW h \in Peers,
         \/ RecipientConnects(h) \/ RecipientLeaves(h) \/ SyncBegins(h)
         \/ SyncStep(h)
  PROVE  QuorumInv'
<1> USE PeersAssumption
<1>1. UNCHANGED <<over, send, late, del, queue, holders, persisted>>
  BY DEF RecipientConnects, RecipientLeaves, SyncBegins, SyncStep, PulledFrom, PullFails,
     SyncStores, SyncEmits
<1>2. RemoteSince' /\ \A p \in Peers : row[p] # None => row'[p] # None
  <2>1. CASE row' = row
    BY <2>1 DEF QuorumInv, RemoteSince
  <2>2. CASE SyncStores(h) /\ row' # row
    <3> DEFINE r == [sync[h].found EXCEPT !.since = "send_time"]
    <3>1. sync[h].found \in Row /\ row' = [row EXCEPT ![h] = r]
      BY <2>2, EntryTypes DEF SyncStores, QuorumInv
    <3>2. r \in Row /\ r.since = "send_time"
      BY <3>1 DEF Row
    <3>3. r # None
      BY <3>2, NoneAssumption
    <3> HIDE DEF r
    <3>4. \A q \in Peers : row'[q] = IF q = h THEN r ELSE row[q]
      BY <3>1 DEF QuorumInv, TypeOK
    <3>5. QED BY <3>2, <3>3, <3>4 DEF QuorumInv, RemoteSince
  <2>3. QED
    BY <2>1, <2>2 DEF RecipientConnects, RecipientLeaves, SyncBegins, SyncStep, PulledFrom,
       PullFails, SyncEmits
<1>3. RequestsAreRemote' /\ CallsHaveQuorum' /\ HoldersAreQuorum'
  BY <1>1, OtherStep
<1>4. AckedHaveIt'
  BY <1>1, <1>2, CopiesStep DEF Fresh
<1>5. NothingDeleted'
  BY <1>1 DEF QuorumInv, NothingDeleted
<1>6. QED BY <1>2, <1>3, <1>4, <1>5 DEF QuorumInv

\* The steps of a deletion follow a report of the recipient, or are one.
LEMMA DeletesAreReported ==
  ASSUME QuorumInv, NEW h \in Peers,
         \/ PersistedReads(h) \/ DeleteStep(h)
         \/ \E p \in Peers : RetryStep(h, p)
  PROVE  persisted'
<1>1. CASE PersistedReads(h)
  BY <1>1 DEF PersistedReads
<1>2. CASE DeleteStep(h)
  <2>1. del[h].pc # "idle" /\ persisted' = persisted
    BY <1>2 DEF DeleteStep, PersistedDeletes, DeleteHandled, DeleteTimesOut,
       DeleteDone
  <2>2. QED BY <2>1 DEF QuorumInv, NothingDeleted, DelIdle
<1>3. CASE \E p \in Peers : RetryStep(h, p)
  <2>1. (\E p \in Peers : queue[h][p] # None) /\ persisted' = persisted
    BY <1>3 DEF RetryStep, RetryHandled, RetryTimesOut
  <2>2. QED BY <2>1 DEF QuorumInv, NothingDeleted
<1>4. QED BY <1>1, <1>2, <1>3

\* The steps of chat.message.persisted and of the retry queue: none is possible
\* before the recipient has reported the message persisted, or else that is the
\* step.
LEMMA DeleteQuorumStep ==
  ASSUME QuorumInv, TypeOK', NEW h \in Peers,
         \/ PersistedReads(h) \/ DeleteStep(h)
         \/ \E p \in Peers : RetryStep(h, p)
  PROVE  QuorumInv'
<1> USE PeersAssumption
<1>1. UNCHANGED <<over, send, holders>>
  BY DEF PersistedReads, DeleteStep, PersistedDeletes, DeleteHandled, DeleteTimesOut,
     DeleteDone, RetryStep, RetryHandled, RetryTimesOut
<1>2. persisted'
  BY DeletesAreReported
<1>3. RemoteSince'
  <2>1. \E p \in Peers : row' = [row EXCEPT ![p] = None] \/ row' = row
    BY DEF PersistedReads, DeleteStep, PersistedDeletes, DeleteHandled, DeleteTimesOut,
       DeleteDone, RetryStep, RetryHandled, RetryTimesOut, DeleteAnswered
  <2>2. QED BY <2>1, RemovedRow
<1>4. \A m \in late' : m.type = "replicate" => m \in late
  BY DeletesGivenUp
<1>5. RequestsAreRemote' /\ CallsHaveQuorum' /\ HoldersAreQuorum'
  BY <1>1, <1>4, OtherStep
<1>6. AckedHaveIt' /\ NothingDeleted'
  BY <1>2 DEF AckedHaveIt, NothingDeleted, Fresh
<1>7. QED BY <1>3, <1>5, <1>6 DEF QuorumInv

\* Time, late requests and crashes.
LEMMA FailureQuorumStep ==
  ASSUME QuorumInv, TypeOK',
         \/ \E h \in Peers : ExpiredDeleted(h)
         \/ \E h \in Failing : Crash(h)
         \/ \E m \in late : LateRequest(m)
         \/ \E base \in Windows : WindowCloses(base)
  PROVE  QuorumInv'
<1> USE PeersAssumption
<1>1. ASSUME NEW h \in Peers, ExpiredDeleted(h) PROVE QuorumInv'
  <2>1. RemoteSince' /\ \A q \in Peers \ {h} : row'[q] = row[q]
    BY <1>1, RemovedRow DEF ExpiredDeleted
  <2>2. h = Home \/ ~Fresh
    BY <1>1 DEF ExpiredDeleted, Live, Fresh, QuorumInv, RemoteSince
  <2>3. AckedHaveIt'
    BY <1>1, <2>1, <2>2, CopiesStep DEF ExpiredDeleted, Fresh
  <2>4. RequestsAreRemote' /\ CallsHaveQuorum' /\ HoldersAreQuorum'
    BY <1>1, OtherStep DEF ExpiredDeleted
  <2>5. NothingDeleted'
    BY <1>1 DEF ExpiredDeleted, QuorumInv, NothingDeleted
  <2>6. QED BY <2>1, <2>3, <2>4, <2>5 DEF QuorumInv
<1>2. ASSUME NEW base \in Windows, WindowCloses(base) PROVE QuorumInv'
  <2>1. AckedHaveIt'
    BY <1>2, CopiesStep DEF WindowCloses, Fresh
  <2>2. RequestsAreRemote' /\ CallsHaveQuorum' /\ HoldersAreQuorum'
    BY <1>2, OtherStep DEF WindowCloses
  <2>3. NothingDeleted' /\ RemoteSince'
    BY <1>2 DEF WindowCloses, QuorumInv, NothingDeleted, RemoteSince
  <2>4. QED BY <2>1, <2>2, <2>3 DEF QuorumInv
<1>3. ASSUME NEW m \in late, LateRequest(m) PROVE QuorumInv'
  <2>1. m.from \in Peers /\ m.to \in Peers /\ m.list \in SUBSET Peers
    BY DEF QuorumInv, TypeOK, Request
  <2>2. /\ UNCHANGED <<over, send, del, queue, holders, persisted>>
        /\ late' = late \ {m}
    BY <1>3 DEF LateRequest
  <2>3. RequestsAreRemote' /\ CallsHaveQuorum' /\ HoldersAreQuorum'
    BY <2>2, OtherStep
  <2>4. NothingDeleted'
    BY <2>2 DEF QuorumInv, NothingDeleted
  <2>5. CASE m.type = "replicate" /\ Stored(m.to, m.list)
    <3>1. m.to # Home
      BY <2>5 DEF QuorumInv, RequestsAreRemote
    <3>2. RemoteSince' /\ \A q \in Peers : row[q] # None => row'[q] # None
      BY <2>1, <2>5, <3>1, StoredRows
    <3>3. AckedHaveIt'
      BY <2>2, <3>2, CopiesStep DEF Fresh
    <3>4. QED BY <2>3, <2>4, <3>2, <3>3 DEF QuorumInv
  <2>6. ASSUME NEW deleted \in BOOLEAN, m.type = "delete",
               DeleteAnswered(m.from, m.to, deleted)
        PROVE  QuorumInv'
    <3>1. RemoteSince'
      BY <2>1, <2>6, RemovedRow DEF DeleteAnswered
    <3>2. persisted
      BY <2>6 DEF QuorumInv, NothingDeleted
    <3>3. AckedHaveIt'
      BY <2>2, <3>2 DEF AckedHaveIt, Fresh
    <3>4. QED BY <2>3, <2>4, <3>1, <3>3 DEF QuorumInv
  <2>7. QED BY <1>3, <2>5, <2>6 DEF LateRequest
<1>4. ASSUME NEW h \in Failing, Crash(h) PROVE QuorumInv'
  <2>1. UNCHANGED <<row, over, holders, persisted>>
    BY <1>4 DEF Crash
  <2>2. \A k \in Calls : send'[k] \in {send[k], [SendIdle EXCEPT !.pc = "failed"]}
    BY <1>4 DEF Crash
  <2>3. \A m \in late' : \/ m \in late
                         \/ \E k \in Calls : \E p \in send[k].todo :
                              m = Replicate(p, send[k].list)
                         \/ \E p \in del[h].todo : m = Delete(h, p)
    BY <1>4, BoundsAssumption, CrashRequests
  <2>4. RequestsAreRemote'
    BY <2>2, <2>3 DEF QuorumInv, RequestsAreRemote, SendIdle, Replicate, Delete
  <2>5. CallsHaveQuorum'
    BY <2>2 DEF QuorumInv, CallsHaveQuorum, SendIdle
  <2>6. NothingDeleted'
    <3> SUFFICES ASSUME ~persisted
                 PROVE  /\ \A g \in Peers : del'[g] = DelIdle
                        /\ \A g, p \in Peers : queue'[g][p] = None
                        /\ \A m \in late' : m.type = "replicate"
      BY <2>1 DEF NothingDeleted
    <3>1. \A g \in Peers : del'[g] = DelIdle
      BY <1>4 DEF Crash, QuorumInv, TypeOK, NothingDeleted
    <3>2. \A g, p \in Peers : queue'[g][p] = None
      BY <1>4 DEF Crash, QuorumInv, TypeOK, NothingDeleted, NoRetries
    <3>3. del[h].todo = {}
      BY BoundsAssumption DEF QuorumInv, NothingDeleted, DelIdle
    <3>4. \A m \in late' : m.type = "replicate"
      BY <2>3, <3>3 DEF QuorumInv, NothingDeleted, Replicate
    <3>5. QED BY <3>1, <3>2, <3>4
  <2>7. \A k \in Calls : send'[k].acked \subseteq send[k].acked
    BY <2>2 DEF SendIdle
  <2>8. AckedHaveIt' /\ RemoteSince' /\ HoldersAreQuorum'
    BY <2>1, <2>7, CopiesStep DEF Fresh, QuorumInv, RemoteSince, HoldersAreQuorum
  <2>9. QED BY <2>4, <2>5, <2>6, <2>8 DEF QuorumInv
<1>5. QED BY <1>1, <1>2, <1>3, <1>4

\* A quorum of other servers holds a fresh accepted message.
LEMMA QuorumFollows == QuorumInv => AcceptedHasQuorum
<1> SUFFICES ASSUME QuorumInv, holders # {}, Fresh
             PROVE  Cardinality(Copies) >= Quorum
  BY DEF AcceptedHasQuorum, Fresh
<1>1. holders \subseteq Copies
  BY DEF QuorumInv, TypeOK, HoldersAreQuorum, AckedHaveIt, RemoteSince, Copies, Live, Fresh
<1>2. IsFiniteSet(Copies)
  BY PeersAssumption, FS_Subset DEF Copies
<1>3. Cardinality(holders) >= Quorum
  BY DEF QuorumInv, HoldersAreQuorum
<1>4. Cardinality(holders) <= Cardinality(Copies)
  BY <1>1, <1>2, FS_Subset
<1>5. Cardinality(Copies) \in Nat /\ Cardinality(holders) \in Nat
  BY <1>1, <1>2, FS_Subset, FS_CardinalityType
<1>6. QED BY <1>3, <1>4, <1>5, QuorumAssumption

\* It holds in the beginning and every step keeps it.
LEMMA QuorumInvInductive == (Init => QuorumInv) /\ (QuorumInv /\ [Next]_vars => QuorumInv')
<1>1. Init => QuorumInv
  <2> SUFFICES ASSUME Init PROVE QuorumInv
    OBVIOUS
  <2>1. TypeOK
    BY InitTypes
  <2>2. QED
    BY <2>1 DEF Init, QuorumInv, RemoteSince, NothingDeleted, RequestsAreRemote,
       CallsHaveQuorum, AckedHaveIt, HoldersAreQuorum, SendIdle, NoRetries
<1>2. QuorumInv /\ [Next]_vars => QuorumInv'
  <2> SUFFICES ASSUME QuorumInv, [Next]_vars PROVE QuorumInv'
    OBVIOUS
  <2>1. TypeOK'
    BY TypeStep DEF QuorumInv
  <2>2. CASE UNCHANGED vars
    BY <2>1, <2>2 DEF vars, QuorumInv, RemoteSince, NothingDeleted, RequestsAreRemote,
       CallsHaveQuorum, AckedHaveIt, HoldersAreQuorum, Fresh
  <2>3. CASE Next
    BY <2>1, <2>3, ReachedAssumption, SendQuorumStep, SyncQuorumStep, DeleteQuorumStep,
       FailureQuorumStep DEF Next
  <2>4. QED BY <2>2, <2>3
<1>3. QED BY <1>1, <1>2

\* A message its sender was told is accepted is held by a quorum of other
\* servers until the recipient reports it persisted or it expires: for every
\* network, selection, quorum and number of calls, late requests and crashes.
THEOREM AcceptedStaysHeld == Spec => []AcceptedHasQuorum
BY QuorumInvInductive, QuorumFollows, PTL DEF Spec

-----------------------------------------------------------------------------
(* What a step does to the rows, the status and the calls.                  *)

\* A step changes the row of at most one server, and takes a copy away only from
\* the home server or when the message is released.
LEMMA OneRowStep ==
  ASSUME QuorumInv, TypeOK', Next
  PROVE  \E p \in Peers : /\ \A q \in Peers \ {p} : row'[q] = row[q]
                          /\ p = Home \/ row'[p] = row[p] \/ row'[p] # None \/ ~Fresh'
<1> USE PeersAssumption
<1>0. TypeOK
  BY DEF QuorumInv
<1> DEFINE Ok(p) == /\ \A q \in Peers \ {p} : row'[q] = row[q]
                    /\ p = Home \/ row'[p] = row[p] \/ row'[p] # None \/ ~Fresh'
<1>1. CASE row' = row
  BY <1>1
<1>2. ASSUME NEW r, row' = [row EXCEPT ![Home] = r] PROVE Ok(Home)
  BY <1>0, <1>2 DEF TypeOK
<1>3. ASSUME NEW p \in Peers, NEW list \in SUBSET Peers, Stored(p, list) PROVE Ok(p)
  <2> DEFINE r == [replicas |-> list, since |-> "send_time"]
  <2>1. r \in Row
    BY DEF Row
  <2>2. r # None
    BY <2>1, NoneAssumption
  <2>3. row' = [row EXCEPT ![p] = r]
    BY <1>3 DEF Stored
  <2> HIDE DEF r
  <2>4. QED BY <1>0, <2>2, <2>3 DEF TypeOK
<1>4. ASSUME NEW p \in Peers, row' = [row EXCEPT ![p] = None], ~Fresh' PROVE Ok(p)
  BY <1>0, <1>4 DEF TypeOK
<1>5. ASSUME NEW k \in Calls, SendBegins(k) \/ SendStep(k) PROVE \E p \in Peers : Ok(p)
  <2>1. \/ row' = row
        \/ \E r : row' = [row EXCEPT ![Home] = r]
        \/ \E p \in Peers : Stored(p, send[k].list)
    BY <1>5 DEF SendBegins, SendStep, PeerReplicated, ReplicateTimesOut, QuorumMet,
       QuorumFailed, PresenceQueried, SendAccepted
  <2>2. send[k].list \in SUBSET Peers
    BY <1>0, CallTypes
  <2>3. QED BY <1>1, <1>2, <1>3, <2>1, <2>2
<1>6. ASSUME NEW h \in Peers,
             \/ RecipientConnects(h) \/ RecipientLeaves(h) \/ SyncBegins(h)
             \/ SyncStep(h)
      PROVE  \E p \in Peers : Ok(p)
  <2>1. \/ row' = row
        \/ /\ sync[h].found # None
           /\ row' = [row EXCEPT ![h] = [sync[h].found EXCEPT !.since = "send_time"]]
    BY <1>6 DEF RecipientConnects, RecipientLeaves, SyncBegins, SyncStep, PulledFrom,
       PullFails, SyncStores, SyncEmits
  <2>2. CASE /\ sync[h].found # None
             /\ row' = [row EXCEPT ![h] = [sync[h].found EXCEPT !.since = "send_time"]]
    <3> DEFINE r == [sync[h].found EXCEPT !.since = "send_time"]
    <3>1. r \in Row
      BY <1>0, <2>2, EntryTypes DEF Row
    <3>2. r # None
      BY <3>1, NoneAssumption
    <3>3. row' = [row EXCEPT ![h] = r]
      BY <2>2
    <3> HIDE DEF r
    <3>4. Ok(h)
      BY <1>0, <3>2, <3>3 DEF TypeOK
    <3>5. QED BY <3>4
  <2>3. QED BY <1>1, <2>1, <2>2
<1>7. ASSUME NEW h \in Peers,
             \/ PersistedReads(h) \/ DeleteStep(h)
             \/ \E p \in Peers : RetryStep(h, p)
      PROVE  \E p \in Peers : Ok(p)
  <2>1. ~Fresh'
    BY <1>7, DeletesAreReported DEF Fresh
  <2>2. row' = row \/ \E p \in Peers : row' = [row EXCEPT ![p] = None]
    BY <1>7 DEF PersistedReads, DeleteStep, PersistedDeletes, DeleteHandled, DeleteTimesOut,
       DeleteDone, RetryStep, RetryHandled, RetryTimesOut, DeleteAnswered
  <2>3. QED BY <1>1, <1>4, <2>1, <2>2
<1>8. ASSUME NEW h \in Peers, ExpiredDeleted(h) PROVE \E p \in Peers : Ok(p)
  <2>1. h = Home \/ ~Fresh'
    BY <1>8 DEF ExpiredDeleted, Live, Fresh, QuorumInv, RemoteSince
  <2>2. row' = [row EXCEPT ![h] = None]
    BY <1>8 DEF ExpiredDeleted
  <2>3. QED BY <1>2, <1>4, <2>1, <2>2
<1>9. ASSUME NEW m \in late, LateRequest(m) PROVE \E p \in Peers : Ok(p)
  <2>1. m.to \in Peers /\ m.list \in SUBSET Peers
    BY <1>0 DEF TypeOK, Request
  <2>2. CASE Stored(m.to, m.list)
    BY <1>3, <2>1, <2>2
  <2>3. CASE m.type = "delete" /\ \E deleted \in BOOLEAN : DeleteAnswered(m.from, m.to, deleted)
    <3>1. ~Fresh'
      BY <1>9, <2>3 DEF LateRequest, QuorumInv, NothingDeleted, Fresh
    <3>2. row' = row \/ row' = [row EXCEPT ![m.to] = None]
      BY <2>3 DEF DeleteAnswered
    <3>3. QED BY <1>1, <1>4, <2>1, <3>1, <3>2
  <2>4. QED BY <1>9, <2>2, <2>3 DEF LateRequest
<1>10. (\E h \in Failing : Crash(h)) \/ (\E base \in Windows : WindowCloses(base)) => row' = row
  BY DEF Crash, WindowCloses
<1>11. \E p \in Peers : Ok(p)
  BY <1>1, <1>5, <1>6, <1>7, <1>8, <1>9, <1>10, ReachedAssumption DEF Next
<1>12. QED BY <1>11

\* A message once released stays released; the step that releases it changes no
\* row, and neither does the step that accepts it, which releases nothing.
LEMMA StatusStep ==
  ASSUME QuorumInv, Next
  PROVE  /\ persisted => persisted'
         /\ "send_time" \in over => "send_time" \in over'
         /\ Fresh /\ ~Fresh' => row' = row
         /\ holders' = holders \/ (holders \subseteq holders' /\ UNCHANGED <<row, over, persisted>>)
<1> DEFINE Ok == /\ persisted => persisted'
                 /\ "send_time" \in over => "send_time" \in over'
                 /\ Fresh /\ ~Fresh' => row' = row
                 /\ \/ holders' = holders
                    \/ holders \subseteq holders' /\ UNCHANGED <<row, over, persisted>>
<1>1. ASSUME NEW k \in Calls, SendBegins(k) \/ SendStep(k) PROVE Ok
  <2>1. CASE SendBegins(k)
    BY <2>1 DEF SendBegins, Fresh
  <2>2. CASE SendAccepted(k)
    BY <2>2 DEF SendAccepted, Fresh
  <2>3. CASE UNCHANGED <<over, persisted, holders>>
    BY <2>3 DEF Fresh
  <2>4. QED
    BY <1>1, <2>1, <2>2, <2>3 DEF SendStep, PeerReplicated, ReplicateTimesOut, QuorumMet,
       QuorumFailed, PresenceQueried
<1>2. ASSUME NEW h \in Peers,
             \/ RecipientConnects(h) \/ RecipientLeaves(h) \/ SyncBegins(h)
             \/ SyncStep(h)
      PROVE  Ok
  <2>1. UNCHANGED <<over, persisted, holders>>
    BY <1>2 DEF RecipientConnects, RecipientLeaves, SyncBegins, SyncStep, PulledFrom, PullFails,
       SyncStores, SyncEmits
  <2>2. QED BY <2>1 DEF Fresh
<1>3. ASSUME NEW h \in Peers, PersistedReads(h) PROVE Ok
  BY <1>3 DEF PersistedReads
<1>4. ASSUME NEW h \in Peers, DeleteStep(h) \/ \E p \in Peers : RetryStep(h, p) PROVE Ok
  <2>1. UNCHANGED <<over, persisted, holders>>
    BY <1>4 DEF DeleteStep, PersistedDeletes, DeleteHandled, DeleteTimesOut,
       DeleteDone, RetryStep, RetryHandled, RetryTimesOut
  <2>2. QED BY <2>1 DEF Fresh
<1>5. ASSUME \/ \E h \in Peers : ExpiredDeleted(h)
             \/ \E h \in Failing : Crash(h)
             \/ \E m \in late : LateRequest(m)
      PROVE  Ok
  <2>1. UNCHANGED <<over, persisted, holders>>
    BY <1>5 DEF ExpiredDeleted, Crash, LateRequest
  <2>2. QED BY <2>1 DEF Fresh
<1>6. ASSUME NEW base \in Windows, WindowCloses(base) PROVE Ok
  BY <1>6 DEF WindowCloses
<1>7. Ok
  BY <1>1, <1>2, <1>3, <1>4, <1>5, <1>6, ReachedAssumption DEF Next
<1>8. QED BY <1>7

\* A call becomes accepted, and its sender is told so, in one action only.
LEMMA AcceptedCalls ==
  ASSUME QuorumInv, Next, ~\E k \in Calls : SendAccepted(k)
  PROVE  \A j \in Calls : send'[j].pc = "accepted" <=> send[j].pc = "accepted"
<1> DEFINE Ok == \A j \in Calls : send'[j].pc = "accepted" <=> send[j].pc = "accepted"
<1>1. ASSUME NEW k \in Calls, \A j \in Calls : j # k => send'[j] = send[j],
             send[k].pc # "accepted", send'[k].pc # "accepted"
      PROVE  Ok
  BY <1>1
<1>2. CASE UNCHANGED send
  BY <1>2
<1>3. ASSUME NEW k \in Calls, SendBegins(k) PROVE Ok
  BY <1>3 DEF SendBegins, SendIdle, QuorumInv, TypeOK, SendCall
<1>4. ASSUME NEW k \in Calls, SendStep(k) PROVE Ok
  <2>1. ASSUME NEW q \in Peers, PeerReplicated(k, q) \/ ReplicateTimesOut(k, q) PROVE Ok
    BY <2>1 DEF PeerReplicated, ReplicateTimesOut, QuorumInv, TypeOK, SendCall
  <2>2. CASE QuorumMet(k)
    <3>1. send[k].pc = "replicate" /\ send' = [send EXCEPT ![k].pc = "presence"]
      BY <2>2 DEF QuorumMet
    <3>2. QED BY <3>1, <1>1 DEF QuorumInv, TypeOK, SendCall
  <2>3. CASE QuorumFailed(k)
    <3>1. /\ send[k].pc = "replicate"
          /\ send' = [send EXCEPT ![k] = [SendIdle EXCEPT !.pc = "failed"]]
      BY <2>3 DEF QuorumFailed
    <3>2. QED BY <3>1, <1>1 DEF QuorumInv, TypeOK, SendIdle
  <2>4. ASSUME NEW extra \in SUBSET Peers, PresenceQueried(k, extra) PROVE Ok
    <3>1. /\ send[k].pc = "presence"
          /\ \/ send' = [send EXCEPT ![k].pc = "accept"]
             \/ send' = [send EXCEPT ![k] = [SendIdle EXCEPT !.pc = "failed"]]
             \/ send' = [send EXCEPT ![k].pc = "live", ![k].todo = extra,
                                     ![k].list = @ \cup extra]
      BY <2>4 DEF PresenceQueried
    <3>2. send \in [Calls -> SendCall]
      BY DEF QuorumInv, TypeOK
    <3>3. CASE send' = [send EXCEPT ![k].pc = "accept"]
      BY <3>1, <3>2, <3>3, <1>1 DEF SendCall
    <3>4. CASE send' = [send EXCEPT ![k] = [SendIdle EXCEPT !.pc = "failed"]]
      BY <3>1, <3>2, <3>4, <1>1 DEF SendIdle
    <3>5. CASE send' = [send EXCEPT ![k].pc = "live", ![k].todo = extra,
                                    ![k].list = @ \cup extra]
      BY <3>1, <3>2, <3>5, <1>1 DEF SendCall
    <3>6. QED BY <3>1, <3>3, <3>4, <3>5
  <2>5. QED BY <1>4, <2>1, <2>2, <2>3, <2>4 DEF SendStep
<1>5. ASSUME NEW h \in Failing, Crash(h) PROVE Ok
  BY <1>5 DEF Crash, SendIdle
<1>6. ASSUME NEW h \in Peers,
             \/ RecipientConnects(h) \/ RecipientLeaves(h) \/ SyncBegins(h)
             \/ SyncStep(h) \/ PersistedReads(h) \/ DeleteStep(h) \/ ExpiredDeleted(h)
             \/ \E q \in Peers : RetryStep(h, q)
      PROVE  Ok
  <2>1. UNCHANGED send
    BY <1>6 DEF RecipientConnects, RecipientLeaves, SyncBegins, SyncStep, PulledFrom, PullFails,
       SyncStores, SyncEmits, PersistedReads, DeleteStep, PersistedDeletes, DeleteHandled,
       DeleteTimesOut, DeleteDone, RetryStep, RetryHandled, RetryTimesOut, ExpiredDeleted
  <2>2. QED BY <2>1, <1>2
<1>7. ASSUME (\E m \in late : LateRequest(m)) \/ (\E base \in Windows : WindowCloses(base))
      PROVE  Ok
  BY <1>7, <1>2 DEF LateRequest, WindowCloses
<1>8. QED
  BY <1>3, <1>4, <1>5, <1>6, <1>7, ReachedAssumption DEF Next

-----------------------------------------------------------------------------
(* The home server and its replicas may delete any copy: SelectedMayDelete. *)

\* Every replica list there is, in a row, a call, a pull or a request, contains
\* the home server's selection.
ListsCover ==
  /\ TypeOK
  /\ \A p \in Peers : row[p] # None => Selected[Home] \subseteq row[p].replicas
  /\ \A k \in Calls : send[k].pc \in {"replicate", "presence", "live", "accept"} =>
       Selected[Home] \subseteq send[k].list
  /\ \A h \in Peers : sync[h].found # None => Selected[Home] \subseteq sync[h].found.replicas
  /\ \A m \in late : m.type = "replicate" => Selected[Home] \subseteq m.list

DeleteInv == ListsCover /\ SelectedMayDelete

\* What one replicate, one delete and one abandoned request do to it.
LEMMA CoverSteps ==
  ASSUME DeleteInv, NEW h \in Peers, NEW p \in Peers, NEW list \in SUBSET Peers,
         restarted' = restarted
  PROVE  /\ Stored(p, list) /\ Selected[Home] \subseteq list =>
              \A q \in Peers : row'[q] # None => Selected[Home] \subseteq row'[q].replicas
         /\ \A deleted \in BOOLEAN : DeleteAnswered(h, p, deleted) =>
              /\ \A q \in Peers : row'[q] # None => row'[q] = row[q]
              /\ SelectedMayDelete'
<1>0. TypeOK /\ SelectedMayDelete
  BY DEF DeleteInv, ListsCover
<1>1. ASSUME Stored(p, list), Selected[Home] \subseteq list
      PROVE  \A q \in Peers : row'[q] # None => Selected[Home] \subseteq row'[q].replicas
  <2>1. \A q \in Peers :
          row'[q] = IF q = p THEN [replicas |-> list, since |-> "send_time"] ELSE row[q]
    BY <1>0, <1>1 DEF Stored, TypeOK
  <2>2. QED BY <1>1, <2>1 DEF DeleteInv, ListsCover
<1>2. ASSUME NEW deleted \in BOOLEAN, DeleteAnswered(h, p, deleted)
      PROVE  /\ \A q \in Peers : row'[q] # None => row'[q] = row[q]
             /\ SelectedMayDelete'
  <2>1. \A q \in Peers : row'[q] # None => row'[q] = row[q]
    BY <1>0, <1>2 DEF DeleteAnswered, TypeOK
  <2>2. CASE deleted
    <3>1. refused' = refused
      BY <1>2, <2>2 DEF DeleteAnswered
    <3>2. QED BY <1>0, <2>1, <3>1 DEF SelectedMayDelete
  <2>3. CASE ~deleted
    <3>1. h \in restarted \/ h \notin {Home} \cup Selected[Home]
      BY <1>2, <2>3 DEF DeleteAnswered, MayRefuse, MayDelete, DeleteInv, ListsCover
    <3>2. refused' = refused \cup {h}
      BY <1>2, <2>3 DEF DeleteAnswered
    <3>3. QED BY <1>0, <2>1, <3>1, <3>2 DEF SelectedMayDelete
  <2>4. QED BY <2>1, <2>2, <2>3
<1>3. QED BY <1>1, <1>2

\* The steps of chat.message.send.
LEMMA SendDeleteStep ==
  ASSUME DeleteInv, TypeOK', NEW k \in Calls, SendBegins(k) \/ SendStep(k)
  PROVE  DeleteInv'
<1> USE PeersAssumption
<1>0. TypeOK /\ send \in [Calls -> SendCall] /\ send[k] \in SendCall
  BY CallTypes DEF DeleteInv, ListsCover, TypeOK
<1>1. \A j \in Calls : send'[j] = send[j] \/ j = k
  BY <1>0 DEF SendBegins, SendStep, PeerReplicated, ReplicateTimesOut, QuorumMet,
     QuorumFailed, PresenceQueried, SendAccepted
<1>2. sync' = sync /\ refused' = refused /\ restarted' = restarted
  BY DEF SendBegins, SendStep, PeerReplicated, ReplicateTimesOut, QuorumMet,
     QuorumFailed, PresenceQueried, SendAccepted
<1>3. ASSUME send'[k].pc \in {"replicate", "presence", "live", "accept"} =>
               Selected[Home] \subseteq send'[k].list,
             \A p \in Peers : row'[p] # None => Selected[Home] \subseteq row'[p].replicas,
             \A m \in late' : m.type = "replicate" => Selected[Home] \subseteq m.list
      PROVE  DeleteInv'
  BY <1>1, <1>2, <1>3 DEF DeleteInv, ListsCover, SelectedMayDelete
<1>4. CASE SendBegins(k)
  <2>1. send'[k] = [pc |-> "replicate", todo |-> Selected[Home],
                    acked |-> {}, list |-> Selected[Home]]
    BY <1>0, <1>4 DEF SendBegins
  <2>2. \A p \in Peers : row'[p] = IF p = Home
                           THEN [replicas |-> Selected[Home], since |-> "arrival"]
                           ELSE row[p]
    BY <1>0, <1>4 DEF SendBegins, TypeOK
  <2>3. late' = late
    BY <1>4 DEF SendBegins
  <2>4. QED BY <1>3, <2>1, <2>2, <2>3 DEF DeleteInv, ListsCover
<1>5. ASSUME NEW p \in Peers, PeerReplicated(k, p) PROVE DeleteInv'
  <2>1. send'[k].pc = send[k].pc /\ send'[k].list = send[k].list
    BY <1>0, <1>5 DEF PeerReplicated, SendCall
  <2>2. Selected[Home] \subseteq send[k].list /\ send[k].list \in SUBSET Peers
    BY <1>0, <1>5, CallTypes DEF PeerReplicated, DeleteInv, ListsCover
  <2>3. Stored(p, send[k].list) /\ late' = late /\ restarted' = restarted
    BY <1>5 DEF PeerReplicated
  <2>a. \A q \in Peers : row'[q] # None => Selected[Home] \subseteq row'[q].replicas
    BY <2>2, <2>3, CoverSteps
  <2>4. QED BY <1>3, <2>1, <2>2, <2>3, <2>a DEF DeleteInv, ListsCover
<1>6. ASSUME NEW p \in Peers, ReplicateTimesOut(k, p) PROVE DeleteInv'
  <2>1. send'[k].pc = send[k].pc /\ send'[k].list = send[k].list
    BY <1>0, <1>6 DEF ReplicateTimesOut, SendCall
  <2>2. Selected[Home] \subseteq send[k].list
    BY <1>6 DEF ReplicateTimesOut, DeleteInv, ListsCover
  <2>3. row' = row /\ \A m \in late' : m \in late \/ m.list = send[k].list
    BY <1>6 DEF ReplicateTimesOut, GivenUp, Replicate
  <2>4. QED BY <1>3, <2>1, <2>2, <2>3 DEF DeleteInv, ListsCover
<1>7. CASE QuorumMet(k)
  <2>1. send[k].pc = "replicate" /\ send'[k].list = send[k].list
    BY <1>0, <1>7 DEF QuorumMet, SendCall
  <2>2. row' = row /\ late' = late
    BY <1>7 DEF QuorumMet
  <2>3. QED BY <1>3, <2>1, <2>2 DEF DeleteInv, ListsCover
<1>8. CASE QuorumFailed(k)
  <2>1. send'[k].pc = "failed"
    BY <1>0, <1>8 DEF QuorumFailed, SendIdle
  <2>2. late' = late /\ \A p \in Peers : row'[p] # None => row'[p] = row[p]
    BY <1>0, <1>8 DEF QuorumFailed, TypeOK
  <2>3. QED BY <1>3, <2>1, <2>2 DEF DeleteInv, ListsCover
<1>9. ASSUME NEW extra \in SUBSET Peers, PresenceQueried(k, extra) PROVE DeleteInv'
  <2>1. send[k].pc = "presence" /\ Selected[Home] \subseteq send[k].list
    BY <1>9 DEF PresenceQueried, DeleteInv, ListsCover
  <2>2. send'[k].pc = "failed" \/ send[k].list \subseteq send'[k].list
    <3>1. \/ send'[k] = [send[k] EXCEPT !.pc = "accept"]
          \/ send'[k] = [SendIdle EXCEPT !.pc = "failed"]
          \/ \E x : send'[k] = [send[k] EXCEPT !.pc = "live", !.todo = x,
                                                   !.list = @ \cup x]
      BY <1>0, <1>9 DEF PresenceQueried, SendCall
    <3>2. QED BY <1>0, <3>1 DEF SendIdle, SendCall
  <2>3. /\ late' = late
        /\ \A p \in Peers : \/ row'[p] = row[p]
                            \/ send[k].list \subseteq row'[p].replicas
    <3>1. \/ row' = row
          \/ /\ row[Home] # None
             /\ row' = [row EXCEPT ![Home].replicas = send[k].list \cup extra]
      BY <1>9 DEF PresenceQueried
    <3>2. row[Home] # None => row[Home] \in Row
      BY <1>0, EntryTypes
    <3>3. late' = late
      BY <1>9 DEF PresenceQueried
    <3>4. QED BY <1>0, <3>1, <3>2, <3>3 DEF TypeOK, Row
  <2>4. QED BY <1>3, <2>1, <2>2, <2>3 DEF DeleteInv, ListsCover
<1>10. CASE SendAccepted(k)
  <2>1. send'[k].pc = "accepted" /\ row' = row /\ late' = late
    BY <1>0, <1>10 DEF SendAccepted, SendIdle
  <2>2. QED BY <1>3, <2>1 DEF DeleteInv, ListsCover
<1>11. QED BY <1>4, <1>5, <1>6, <1>7, <1>8, <1>9, <1>10 DEF SendStep

\* The steps of a recipient's sessions and of chat.sync.
LEMMA SyncDeleteStep ==
  ASSUME DeleteInv, TypeOK', NEW h \in Peers,
         \/ RecipientConnects(h) \/ RecipientLeaves(h) \/ SyncBegins(h)
         \/ SyncStep(h)
  PROVE  DeleteInv'
<1>0. TypeOK /\ sync \in [Peers -> SyncCall] /\ sync[h] \in SyncCall
  BY EntryTypes DEF DeleteInv, ListsCover, TypeOK
<1>1. UNCHANGED <<send, late, refused, restarted>>
  BY DEF RecipientConnects, RecipientLeaves, SyncBegins, SyncStep, PulledFrom, PullFails,
     SyncStores, SyncEmits
<1>2. \A p \in Peers : row'[p] # None => Selected[Home] \subseteq row'[p].replicas
  <2>1. CASE row' = row
    BY <2>1 DEF DeleteInv, ListsCover
  <2>2. CASE SyncStores(h) /\ row' # row
    <3> DEFINE r == [sync[h].found EXCEPT !.since = "send_time"]
    <3>1. sync[h].found # None /\ row' = [row EXCEPT ![h] = r]
      BY <2>2 DEF SyncStores
    <3>2. sync[h].found \in Row /\ Selected[Home] \subseteq sync[h].found.replicas
      BY <1>0, <3>1, EntryTypes DEF DeleteInv, ListsCover
    <3>3. Selected[Home] \subseteq r.replicas
      BY <3>2 DEF Row
    <3> HIDE DEF r
    <3>4. QED BY <1>0, <3>1, <3>3 DEF TypeOK, DeleteInv, ListsCover
  <2>3. QED
    BY <2>1, <2>2 DEF RecipientConnects, RecipientLeaves, SyncBegins, SyncStep, PulledFrom,
       PullFails, SyncEmits
<1>3. \A g \in Peers : \/ sync'[g].found = sync[g].found
                       \/ sync'[g].found = None
                       \/ \E p \in Peers : row[p] # None /\ sync'[g].found = row[p]
  <2>1. CASE SyncBegins(h) \/ SyncEmits(h)
    <3> DEFINE y == [SyncIdle EXCEPT !.pc = "pull", !.todo = Selected[h],
                                     !.promised = holders]
    <3>1. sync' = [sync EXCEPT ![h] = y] \/ sync' = [sync EXCEPT ![h] = SyncIdle]
      BY <2>1 DEF SyncBegins, SyncEmits
    <3>2. y.found = None /\ SyncIdle.found = None
      BY DEF SyncIdle
    <3> HIDE DEF y
    <3>3. QED BY <1>0, <3>1, <3>2
  <2>2. ASSUME NEW p \in Peers, PulledFrom(h, p) \/ PullFails(h, p)
        PROVE  \A g \in Peers : \/ sync'[g].found = sync[g].found
                                \/ row[p] # None /\ sync'[g].found = row[p]
    BY <1>0, <2>2 DEF PulledFrom, PullFails, FirstCopy, PullAnswer, Live, SyncCall
  <2>3. CASE SyncStores(h)
    BY <1>0, <2>3 DEF SyncStores, SyncIdle, SyncCall
  <2>4. CASE RecipientConnects(h) \/ RecipientLeaves(h)
    BY <2>4 DEF RecipientConnects, RecipientLeaves
  <2>5. QED BY <2>1, <2>2, <2>3, <2>4 DEF SyncStep
<1>4. \A g \in Peers : sync'[g].found # None => Selected[Home] \subseteq sync'[g].found.replicas
  BY <1>3 DEF DeleteInv, ListsCover
<1>5. QED BY <1>1, <1>2, <1>4 DEF DeleteInv, ListsCover, SelectedMayDelete

\* The steps of chat.message.persisted and of the retry queue.
LEMMA DeleteDeleteStep ==
  ASSUME DeleteInv, TypeOK', NEW h \in Peers,
         \/ PersistedReads(h) \/ DeleteStep(h)
         \/ \E p \in Peers : RetryStep(h, p)
  PROVE  DeleteInv'
<1>0. TypeOK
  BY DEF DeleteInv, ListsCover
<1>1. send' = send /\ sync' = sync /\ restarted' = restarted
  BY DEF PersistedReads, DeleteStep, PersistedDeletes, DeleteHandled, DeleteTimesOut,
     DeleteDone, RetryStep, RetryHandled, RetryTimesOut
<1>2. \A m \in late' : m.type = "replicate" => m \in late
  BY DeletesGivenUp
<1>3. \/ row' = row /\ refused' = refused
      \/ row' = [row EXCEPT ![h] = None] /\ refused' = refused
      \/ \E p \in Peers, deleted \in BOOLEAN : DeleteAnswered(h, p, deleted)
  BY DEF PersistedReads, DeleteStep, PersistedDeletes, DeleteHandled, DeleteTimesOut,
     DeleteDone, RetryStep, RetryHandled, RetryTimesOut
<1>4. (\A q \in Peers : row'[q] # None => row'[q] = row[q]) /\ SelectedMayDelete'
  <2>1. CASE row' = row /\ refused' = refused
    BY <1>1, <2>1 DEF DeleteInv, SelectedMayDelete
  <2>2. CASE row' = [row EXCEPT ![h] = None] /\ refused' = refused
    BY <1>0, <1>1, <2>2 DEF DeleteInv, SelectedMayDelete, TypeOK
  <2>3. CASE \E p \in Peers, deleted \in BOOLEAN : DeleteAnswered(h, p, deleted)
    BY <1>1, <2>3, CoverSteps
  <2>4. QED BY <1>3, <2>1, <2>2, <2>3
<1>5. QED BY <1>1, <1>2, <1>4 DEF DeleteInv, ListsCover

\* Time, late requests and crashes.
LEMMA FailureDeleteStep ==
  ASSUME DeleteInv, TypeOK',
         \/ \E h \in Peers : ExpiredDeleted(h)
         \/ \E h \in Failing : Crash(h)
         \/ \E m \in late : LateRequest(m)
         \/ \E base \in Windows : WindowCloses(base)
  PROVE  DeleteInv'
<1>0. TypeOK
  BY DEF DeleteInv, ListsCover
<1>1. ASSUME NEW h \in Peers, ExpiredDeleted(h) PROVE DeleteInv'
  <2>1. \A q \in Peers : row'[q] # None => row'[q] = row[q]
    BY <1>0, <1>1 DEF ExpiredDeleted, TypeOK
  <2>2. QED BY <1>1, <2>1 DEF ExpiredDeleted, DeleteInv, ListsCover, SelectedMayDelete
<1>2. ASSUME NEW base \in Windows, WindowCloses(base) PROVE DeleteInv'
  BY <1>2 DEF WindowCloses, DeleteInv, ListsCover, SelectedMayDelete
<1>3. ASSUME NEW m \in late, LateRequest(m) PROVE DeleteInv'
  <2>1. m.from \in Peers /\ m.to \in Peers /\ m.list \in SUBSET Peers
    BY <1>0 DEF TypeOK, Request
  <2>2. UNCHANGED <<send, sync, restarted>> /\ late' = late \ {m}
    BY <1>3 DEF LateRequest
  <2>3. /\ \A q \in Peers : row'[q] # None => Selected[Home] \subseteq row'[q].replicas
        /\ SelectedMayDelete'
    <3>1. CASE m.type = "replicate" /\ Stored(m.to, m.list) /\ UNCHANGED refused
      <4>1. Selected[Home] \subseteq m.list
        BY <3>1 DEF DeleteInv, ListsCover
      <4>2. \A q \in Peers : row'[q] # None => Selected[Home] \subseteq row'[q].replicas
        BY <2>1, <2>2, <3>1, <4>1, CoverSteps
      <4>3. QED BY <2>2, <3>1, <4>2 DEF DeleteInv, SelectedMayDelete
    <3>2. CASE \E deleted \in BOOLEAN : DeleteAnswered(m.from, m.to, deleted)
      <4>1. (\A q \in Peers : row'[q] # None => row'[q] = row[q]) /\ SelectedMayDelete'
        BY <2>1, <2>2, <3>2, CoverSteps
      <4>2. QED BY <4>1 DEF DeleteInv, ListsCover
    <3>3. QED BY <1>3, <3>1, <3>2 DEF LateRequest
  <2>4. QED BY <2>2, <2>3 DEF DeleteInv, ListsCover
<1>4. ASSUME NEW h \in Failing, Crash(h) PROVE DeleteInv'
  <2>1. UNCHANGED <<row, refused>> /\ restarted \subseteq restarted'
    BY <1>4 DEF Crash
  <2>2. \A k \in Calls : send'[k] \in {send[k], [SendIdle EXCEPT !.pc = "failed"]}
    BY <1>4 DEF Crash
  <2>3. \A m \in late' : \/ m \in late
                         \/ m.type = "delete"
                         \/ Selected[Home] \subseteq m.list
    <3>1. SUFFICES ASSUME NEW m \in late', m \notin late, m.type # "delete"
                   PROVE  Selected[Home] \subseteq m.list
      OBVIOUS
    <3>2. PICK k \in Calls : /\ send[k].pc \in {"replicate", "presence", "live", "accept"}
                             /\ \E p \in send[k].todo : m = Replicate(p, send[k].list)
      BY <1>4, BoundsAssumption, <3>1, CrashRequests DEF Delete
    <3>3. QED BY <3>2 DEF DeleteInv, ListsCover, Replicate
  <2>4. \A g \in Peers : sync'[g].found = sync[g].found \/ sync'[g].found = None
    BY <1>0, <1>4 DEF Crash, SyncIdle, TypeOK
  <2>5. \A k \in Calls : send'[k].pc \in {"replicate", "presence", "live", "accept"} =>
          Selected[Home] \subseteq send'[k].list
    BY <2>2 DEF SendIdle, DeleteInv, ListsCover
  <2>6. QED BY <2>1, <2>3, <2>4, <2>5 DEF DeleteInv, ListsCover, SelectedMayDelete
<1>5. QED BY <1>1, <1>2, <1>3, <1>4

\* A delete request of the home server or of a replica it selected is never
\* refused, on any server, whatever the lists in the rows: for every network,
\* selection and number of calls, late requests and crashes.
THEOREM DeletesAreAuthorised == Spec => []SelectedMayDelete
<1>1. Init => DeleteInv
  <2> SUFFICES ASSUME Init PROVE DeleteInv
    OBVIOUS
  <2>1. TypeOK
    BY InitTypes
  <2>2. QED
    BY <2>1 DEF Init, DeleteInv, ListsCover, SelectedMayDelete, SendIdle, SyncIdle
<1>2. DeleteInv /\ [Next]_vars => DeleteInv'
  <2> SUFFICES ASSUME DeleteInv, [Next]_vars PROVE DeleteInv'
    OBVIOUS
  <2>1. TypeOK'
    BY TypeStep DEF DeleteInv, ListsCover
  <2>2. CASE UNCHANGED vars
    BY <2>1, <2>2 DEF vars, DeleteInv, ListsCover, SelectedMayDelete
  <2>3. CASE Next
    BY <2>1, <2>3, ReachedAssumption, SendDeleteStep, SyncDeleteStep, DeleteDeleteStep,
       FailureDeleteStep DEF Next
  <2>4. QED BY <2>2, <2>3
<1>3. DeleteInv => SelectedMayDelete
  BY DEF DeleteInv
<1>4. QED BY <1>1, <1>2, <1>3, PTL DEF Spec

-----------------------------------------------------------------------------
(* A chat.sync finds what was accepted: SyncFindsAccepted.                 *)

\* Only replicas that the home server selected make a quorum.
AcksAreSelected ==
  /\ \A k \in Calls : /\ send[k].pc = "replicate" => send[k].todo \subseteq Selected[Home]
                      /\ send[k].acked \subseteq Selected[Home]
  /\ holders \subseteq Selected[Home]

OnlyOneCall == \A j, k \in Calls : j = k

\* When there is one call only, it is over once the message has holders.
OnlyCallIsOver ==
  holders # {} /\ OnlyOneCall => \A k \in Calls : send[k].pc = "accepted"

\* What a chat.sync was promised when it began is a quorum of holders.
PromisesHeld ==
  \A h \in Peers : /\ sync[h].promised \subseteq holders
                   /\ sync[h].promised # {} => Cardinality(sync[h].promised) >= Quorum

\* A promised replica that has answered a pull has answered with a copy.
PullsFind ==
  \A h \in Peers : sync[h].pc = "pull" /\ Fresh =>
    \A p \in sync[h].promised \cap Selected[h] :
      p \in sync[h].todo \cup sync[h].failed \/ sync[h].found # None

\* the home server's replicas that a sync at h has not had an answer from
Missed(h) == Selected[Home] \ ((Selected[h] \ sync[h].failed) \cup {h})

StoredForGood(h) == row[h] # None /\ row[h].since = "send_time"

\* What was pulled, or was there as a replica, stays in the local queue.
SyncsStore ==
  \A h \in Peers :
    (/\ sync[h].pc = "emit" /\ sync[h].promised # {} /\ Fresh
     /\ Cardinality(Missed(h)) < Quorum
     /\ h # Home \/ OnlyOneCall) => StoredForGood(h)

SyncInv ==
  /\ QuorumInv
  /\ AcksAreSelected
  /\ OnlyCallIsOver
  /\ PromisesHeld
  /\ PullsFind
  /\ SyncsStore

\* A call gets acks of those it asks, while it replicates, and the holders are
\* those that have acked an accepted call.
LEMMA AckStep ==
  ASSUME QuorumInv, AcksAreSelected, Next
  PROVE  AcksAreSelected'
<1>0. TypeOK /\ send \in [Calls -> SendCall]
  BY DEF QuorumInv, TypeOK
<1>1. ASSUME NEW k \in Calls, \A j \in Calls \ {k} : send'[j] = send[j],
             send'[k].pc = "replicate" => send'[k].todo \subseteq Selected[Home],
             send'[k].acked \subseteq Selected[Home],
             holders' \subseteq holders \cup send[k].acked
      PROVE  AcksAreSelected'
  BY <1>1 DEF AcksAreSelected
<1>2. ASSUME UNCHANGED <<send, holders>> PROVE AcksAreSelected'
  BY <1>2 DEF AcksAreSelected
<1>3. ASSUME NEW k \in Calls, SendBegins(k) PROVE AcksAreSelected'
  BY <1>0, <1>1, <1>3 DEF SendBegins
<1>4. ASSUME NEW k \in Calls, NEW p \in Peers, PeerReplicated(k, p) PROVE AcksAreSelected'
  <2>1. /\ \A j \in Calls \ {k} : send'[j] = send[j]
        /\ send'[k].pc = send[k].pc /\ send'[k].todo \subseteq send[k].todo
        /\ send'[k].acked = IF send[k].pc = "replicate" THEN send[k].acked \cup {p}
                                                        ELSE send[k].acked
    BY <1>0, <1>4 DEF PeerReplicated, SendCall
  <2>2. p \in send[k].todo /\ holders' = holders
    BY <1>4 DEF PeerReplicated
  <2>3. QED BY <1>1, <2>1, <2>2 DEF AcksAreSelected
<1>5. ASSUME NEW k \in Calls, NEW p \in Peers, ReplicateTimesOut(k, p) PROVE AcksAreSelected'
  <2>1. /\ \A j \in Calls \ {k} : send'[j] = send[j]
        /\ send'[k].pc = send[k].pc /\ send'[k].todo \subseteq send[k].todo
        /\ send'[k].acked = send[k].acked
    BY <1>0, <1>5 DEF ReplicateTimesOut, SendCall
  <2>2. holders' = holders
    BY <1>5 DEF ReplicateTimesOut
  <2>3. QED BY <1>1, <2>1, <2>2 DEF AcksAreSelected
<1>6. ASSUME NEW k \in Calls,
             \/ QuorumMet(k) \/ QuorumFailed(k) \/ SendAccepted(k)
             \/ \E extra \in SUBSET Peers : PresenceQueried(k, extra)
      PROVE  AcksAreSelected'
  <2>1. /\ \A j \in Calls \ {k} : send'[j] = send[j]
        /\ send'[k].pc # "replicate" /\ send'[k].acked \subseteq send[k].acked
    <3>1. CASE QuorumMet(k)
      BY <1>0, <3>1 DEF QuorumMet, SendCall
    <3>2. CASE QuorumFailed(k) \/ SendAccepted(k)
      BY <1>0, <3>2 DEF QuorumFailed, SendAccepted, SendIdle
    <3>3. ASSUME NEW extra \in SUBSET Peers, PresenceQueried(k, extra)
          PROVE  /\ \A j \in Calls \ {k} : send'[j] = send[j]
                 /\ send'[k].pc # "replicate" /\ send'[k].acked \subseteq send[k].acked
      <4>1. \/ send' = [send EXCEPT ![k].pc = "accept"]
            \/ send' = [send EXCEPT ![k] = [SendIdle EXCEPT !.pc = "failed"]]
            \/ send' = [send EXCEPT ![k].pc = "live", ![k].todo = extra,
                                    ![k].list = @ \cup extra]
        BY <3>3 DEF PresenceQueried
      <4>2. CASE send' = [send EXCEPT ![k].pc = "accept"]
        BY <1>0, <4>2 DEF SendCall
      <4>3. CASE send' = [send EXCEPT ![k] = [SendIdle EXCEPT !.pc = "failed"]]
        BY <1>0, <4>3 DEF SendIdle
      <4>4. CASE send' = [send EXCEPT ![k].pc = "live", ![k].todo = extra,
                                      ![k].list = @ \cup extra]
        BY <1>0, <4>4 DEF SendCall
      <4>5. QED BY <4>1, <4>2, <4>3, <4>4
    <3>4. QED BY <1>6, <3>1, <3>2, <3>3
  <2>2. holders' \subseteq holders \cup send[k].acked
    BY <1>6 DEF QuorumMet, QuorumFailed, SendAccepted, PresenceQueried
  <2>3. send[k].acked \subseteq Selected[Home]
    BY DEF AcksAreSelected
  <2>4. QED BY <1>1, <2>1, <2>2, <2>3
<1>7. ASSUME NEW h \in Peers,
             \/ RecipientConnects(h) \/ RecipientLeaves(h) \/ SyncBegins(h)
             \/ SyncStep(h) \/ PersistedReads(h) \/ DeleteStep(h) \/ ExpiredDeleted(h)
             \/ \E q \in Peers : RetryStep(h, q)
      PROVE  AcksAreSelected'
  BY <1>2, <1>7 DEF RecipientConnects, RecipientLeaves, SyncBegins, SyncStep, PulledFrom,
     PullFails, SyncStores, SyncEmits, PersistedReads, DeleteStep, PersistedDeletes,
     DeleteHandled, DeleteTimesOut, DeleteDone, RetryStep, RetryHandled, RetryTimesOut,
     ExpiredDeleted
<1>8. ASSUME NEW h \in Failing, Crash(h) PROVE AcksAreSelected'
  <2>1. \A k \in Calls : send'[k] \in {send[k], [SendIdle EXCEPT !.pc = "failed"]}
    BY <1>8 DEF Crash
  <2>2. holders' = holders
    BY <1>8 DEF Crash
  <2>3. QED BY <2>1, <2>2 DEF AcksAreSelected, SendIdle
<1>9. ASSUME (\E m \in late : LateRequest(m)) \/ (\E base \in Windows : WindowCloses(base))
      PROVE  AcksAreSelected'
  BY <1>2, <1>9 DEF LateRequest, WindowCloses
<1>10. QED
  BY <1>3, <1>4, <1>5, <1>6, <1>7, <1>8, <1>9, ReachedAssumption DEF Next, SendStep

\* The holders change in one action only.
LEMMA HoldersStep ==
  ASSUME Next, ~\E k \in Calls : SendAccepted(k)
  PROVE  holders' = holders
<1>1. ASSUME NEW k \in Calls, SendBegins(k) \/ SendStep(k), ~SendAccepted(k)
      PROVE  holders' = holders
  BY <1>1 DEF SendBegins, SendStep, PeerReplicated, ReplicateTimesOut, QuorumMet,
     QuorumFailed, PresenceQueried
<1>2. ASSUME NEW h \in Peers,
             RecipientConnects(h) \/ RecipientLeaves(h) \/ SyncBegins(h) \/ SyncStep(h)
      PROVE  holders' = holders
  BY <1>2 DEF RecipientConnects, RecipientLeaves, SyncBegins, SyncStep, PulledFrom,
     PullFails, SyncStores, SyncEmits
<1>3. ASSUME NEW h \in Peers,
             \/ PersistedReads(h) \/ DeleteStep(h) \/ ExpiredDeleted(h)
             \/ \E p \in Peers : RetryStep(h, p)
      PROVE  holders' = holders
  BY <1>3 DEF PersistedReads, DeleteStep, PersistedDeletes, DeleteHandled, DeleteTimesOut,
     DeleteDone, RetryStep, RetryHandled, RetryTimesOut, ExpiredDeleted
<1>4. ASSUME \/ \E h \in Failing : Crash(h)
             \/ \E m \in late : LateRequest(m)
             \/ \E base \in Windows : WindowCloses(base)
      PROVE  holders' = holders
  BY <1>4 DEF Crash, LateRequest, WindowCloses
<1>5. QED
  BY <1>1, <1>2, <1>3, <1>4, ReachedAssumption DEF Next

\* The only call, when it has been accepted, is over for good.
LEMMA OnlyCallStep ==
  ASSUME QuorumInv, OnlyCallIsOver, Next
  PROVE  OnlyCallIsOver'
<1>1. CASE \E k \in Calls : SendAccepted(k)
  <2>1. PICK k \in Calls : SendAccepted(k)
    BY <1>1
  <2>2. send'[k].pc = "accepted"
    BY <2>1 DEF SendAccepted, SendIdle, QuorumInv, TypeOK, SendCall
  <2>3. QED BY <2>2 DEF OnlyCallIsOver, OnlyOneCall
<1>2. CASE ~\E k \in Calls : SendAccepted(k)
  <2>1. holders' = holders
    BY <1>2, HoldersStep
  <2>2. \A j \in Calls : send'[j].pc = "accepted" <=> send[j].pc = "accepted"
    BY <1>2, AcceptedCalls
  <2>3. QED BY <2>1, <2>2 DEF OnlyCallIsOver, OnlyOneCall
<1>3. QED BY <1>1, <1>2

\* A row that counts from the send time stays while the message is fresh: on the
\* home server because no call is left that could take it away.
LEMMA StoredStays ==
  ASSUME SyncInv, QuorumInv', Next, Fresh', NEW h \in Peers, StoredForGood(h),
         h # Home \/ (OnlyOneCall /\ holders # {})
  PROVE  StoredForGood(h)'
<1> USE PeersAssumption
<1>0. QuorumInv /\ TypeOK /\ Fresh
  BY StatusStep DEF SyncInv, QuorumInv, Fresh
<1>1. CASE h # Home
  <2>1. row'[h] # None
    BY <1>0, <1>1, OneRowStep DEF QuorumInv, StoredForGood
  <2>2. QED BY <1>1, <2>1 DEF QuorumInv, RemoteSince, StoredForGood
<1>2. CASE h = Home /\ OnlyOneCall /\ holders # {}
  <2>0. StoredForGood(Home) /\ \A k \in Calls : send[k].pc = "accepted"
    BY <1>2 DEF SyncInv, OnlyCallIsOver
  <2>1. ASSUME row'[Home] = row[Home] PROVE StoredForGood(Home)'
    BY <2>0, <2>1 DEF StoredForGood
  <2>2. ASSUME NEW k \in Calls, SendBegins(k) \/ SendStep(k) PROVE FALSE
    <3>1. send[k].pc = "accepted"
      BY <2>0
    <3>2. QED
      BY <2>2, <3>1 DEF SendBegins, SendIdle, SendStep, PeerReplicated, ReplicateTimesOut,
         QuorumMet, QuorumFailed, PresenceQueried, SendAccepted
  <2>3. ASSUME NEW g \in Peers, SyncStores(g) PROVE StoredForGood(Home)'
    <3>1. CASE row' = row
      BY <2>1, <3>1
    <3>2. CASE row' # row
      <4> DEFINE r == [sync[g].found EXCEPT !.since = "send_time"]
      <4>1. sync[g].found \in Row /\ row' = [row EXCEPT ![g] = r]
        BY <1>0, <2>3, <3>2, EntryTypes DEF SyncStores
      <4>2. r \in Row /\ r.since = "send_time"
        BY <4>1 DEF Row
      <4>3. r # None
        BY <4>2, NoneAssumption
      <4> HIDE DEF r
      <4>4. \A q \in Peers : row'[q] = IF q = g THEN r ELSE row[q]
        BY <1>0, <4>1 DEF TypeOK
      <4>5. QED BY <2>0, <4>2, <4>3, <4>4 DEF StoredForGood
    <3>3. QED BY <3>1, <3>2
  <2>4. ASSUME NEW g \in Peers,
               \/ RecipientConnects(g) \/ RecipientLeaves(g) \/ SyncBegins(g)
               \/ (\E p \in Peers : PulledFrom(g, p) \/ PullFails(g, p)) \/ SyncEmits(g)
        PROVE  StoredForGood(Home)'
    BY <2>1, <2>4 DEF RecipientConnects, RecipientLeaves, SyncBegins, PulledFrom, PullFails,
       SyncEmits
  <2>5. ASSUME NEW g \in Peers,
               \/ PersistedReads(g) \/ DeleteStep(g)
               \/ \E p \in Peers : RetryStep(g, p)
        PROVE  FALSE
    BY <1>0, <2>5, DeletesAreReported DEF Fresh
  <2>6. ASSUME NEW g \in Peers, ExpiredDeleted(g) PROVE StoredForGood(Home)'
    <3>1. g # Home
      BY <1>0, <2>0, <2>6 DEF ExpiredDeleted, Live, Fresh, StoredForGood
    <3>2. QED BY <1>0, <2>1, <2>6, <3>1 DEF ExpiredDeleted, TypeOK
  <2>7. ASSUME NEW m \in late, LateRequest(m) PROVE StoredForGood(Home)'
    <3>1. CASE m.type = "replicate" /\ Stored(m.to, m.list)
      <4>1. m.to # Home
        BY <1>0, <3>1 DEF QuorumInv, RequestsAreRemote
      <4>2. QED BY <1>0, <2>1, <3>1, <4>1 DEF Stored, TypeOK
    <3>2. CASE m.type = "delete"
      BY <1>0, <3>2 DEF QuorumInv, NothingDeleted, Fresh
    <3>3. QED BY <2>7, <3>1, <3>2 DEF LateRequest
  <2>8. ASSUME (\E g \in Failing : Crash(g)) \/ (\E base \in Windows : WindowCloses(base))
        PROVE  StoredForGood(Home)'
    BY <2>1, <2>8 DEF Crash, WindowCloses
  <2>9. QED
    BY <1>2, <2>2, <2>3, <2>4, <2>5, <2>6, <2>7, <2>8, ReachedAssumption DEF Next, SyncStep
<1>3. QED BY <1>1, <1>2

\* What a step does to the sync of one server.
LEMMA SyncEntryStep ==
  ASSUME TypeOK, Next, NEW h \in Peers
  PROVE  \/ sync'[h] = sync[h]
         \/ sync'[h] = SyncIdle
         \/ SyncBegins(h)
         \/ \E p \in Peers : PulledFrom(h, p) \/ PullFails(h, p)
         \/ SyncStores(h)
<1> DEFINE Ok == \/ sync'[h] = sync[h]
                 \/ sync'[h] = SyncIdle
                 \/ SyncBegins(h)
                 \/ \E p \in Peers : PulledFrom(h, p) \/ PullFails(h, p)
                 \/ SyncStores(h)
<1>1. CASE sync' = sync
  BY <1>1
<1>2. ASSUME NEW g \in Peers, SyncBegins(g) \/ SyncStep(g) PROVE Ok
  <2>1. CASE g = h
    BY <1>2, <2>1 DEF SyncStep, SyncEmits, TypeOK
  <2>2. CASE g # h
    BY <1>2, <2>2 DEF SyncBegins, SyncStep, PulledFrom, PullFails, SyncStores, SyncEmits, TypeOK
  <2>3. QED BY <2>1, <2>2
<1>3. ASSUME NEW g \in Failing, Crash(g) PROVE Ok
  BY <1>3 DEF Crash, TypeOK
<1>4. ASSUME NEW k \in Calls, SendBegins(k) \/ SendStep(k) PROVE Ok
  BY <1>1, <1>4 DEF SendBegins, SendStep, PeerReplicated, ReplicateTimesOut, QuorumMet,
     QuorumFailed, PresenceQueried, SendAccepted
<1>5. ASSUME NEW g \in Peers,
             \/ RecipientConnects(g) \/ RecipientLeaves(g) \/ PersistedReads(g)
             \/ DeleteStep(g) \/ ExpiredDeleted(g)
             \/ \E p \in Peers : RetryStep(g, p)
      PROVE  Ok
  BY <1>1, <1>5 DEF RecipientConnects, RecipientLeaves, PersistedReads, DeleteStep,
     PersistedDeletes, DeleteHandled, DeleteTimesOut, DeleteDone, RetryStep, RetryHandled,
     RetryTimesOut, ExpiredDeleted
<1>6. ASSUME (\E m \in late : LateRequest(m)) \/ (\E base \in Windows : WindowCloses(base))
      PROVE  Ok
  BY <1>1, <1>6 DEF LateRequest, WindowCloses
<1>7. Ok
  BY <1>2, <1>3, <1>4, <1>5, <1>6, ReachedAssumption DEF Next
<1>8. QED BY <1>7

\* A promised replica that is asked while the message is fresh has a copy.
LEMMA PromisedAnswers ==
  ASSUME SyncInv, NEW h \in Peers, NEW p \in sync[h].promised, Fresh
  PROVE  p # Home /\ row[p] # None /\ row[p].since = "send_time" /\ PullAnswer(p) = row[p]
<1>1. p \in holders
  BY DEF SyncInv, PromisesHeld
<1>2. p \in Peers /\ p # Home /\ row[p] # None
  BY <1>1 DEF SyncInv, QuorumInv, TypeOK, HoldersAreQuorum, AckedHaveIt
<1>3. row[p].since = "send_time"
  BY <1>2 DEF SyncInv, QuorumInv, RemoteSince
<1>4. QED BY <1>2, <1>3 DEF PullAnswer, Live, Fresh

\* A sync that has pulled nothing and is no holder has missed all it was promised.
LEMMA PromisedOrMissed ==
  ASSUME SyncInv, NEW h \in Peers, Fresh, sync[h].pc = "pull", sync[h].todo = {},
         sync[h].found = None, h \notin sync[h].promised, sync[h].promised # {}
  PROVE  ~(Cardinality(Missed(h)) < Quorum)
<1> USE PeersAssumption
<1>1. sync[h].promised \subseteq Missed(h)
  BY DEF SyncInv, PullsFind, PromisesHeld, AcksAreSelected, Missed
<1>2. IsFiniteSet(Missed(h))
  BY SelectedAssumption, FS_Subset DEF Missed
<1>3. /\ Cardinality(sync[h].promised) <= Cardinality(Missed(h))
      /\ Cardinality(sync[h].promised) \in Nat /\ Cardinality(Missed(h)) \in Nat
  BY <1>1, <1>2, FS_Subset, FS_CardinalityType
<1>4. Cardinality(sync[h].promised) >= Quorum
  BY DEF SyncInv, PromisesHeld
<1>5. QED BY <1>3, <1>4, QuorumAssumption

\* One step of one server's sync.
LEMMA SyncInvStep ==
  ASSUME SyncInv, QuorumInv', Next
  PROVE  PromisesHeld' /\ PullsFind' /\ SyncsStore'
<1> SUFFICES ASSUME NEW h \in Peers
             PROVE  /\ sync'[h].promised \subseteq holders'
                    /\ sync'[h].promised # {} => Cardinality(sync'[h].promised) >= Quorum
                    /\ sync'[h].pc = "pull" /\ Fresh' =>
                         \A p \in sync'[h].promised \cap Selected[h] :
                           p \in sync'[h].todo \cup sync'[h].failed \/ sync'[h].found # None
                    /\ (/\ sync'[h].pc = "emit" /\ sync'[h].promised # {} /\ Fresh'
                        /\ Cardinality(Missed(h)') < Quorum
                        /\ h # Home \/ OnlyOneCall) => StoredForGood(h)'
  BY DEF PromisesHeld, PullsFind, SyncsStore, OnlyOneCall
<1> DEFINE Promise == /\ sync'[h].promised \subseteq holders'
                      /\ sync'[h].promised # {} => Cardinality(sync'[h].promised) >= Quorum
           Pull    == sync'[h].pc = "pull" /\ Fresh' =>
                         \A p \in sync'[h].promised \cap Selected[h] :
                           p \in sync'[h].todo \cup sync'[h].failed \/ sync'[h].found # None
           Emit    == (/\ sync'[h].pc = "emit" /\ sync'[h].promised # {} /\ Fresh'
                       /\ Cardinality(Missed(h)') < Quorum
                       /\ h # Home \/ OnlyOneCall) => StoredForGood(h)'
<1>1. /\ QuorumInv /\ TypeOK /\ sync[h] \in SyncCall
      /\ sync \in [Peers -> SyncCall]
  BY EntryTypes DEF SyncInv, QuorumInv, TypeOK
<1>2. holders \subseteq holders' /\ (Fresh' => Fresh)
  BY <1>1, StatusStep DEF Fresh
<1>3. ASSUME sync'[h].promised = sync[h].promised PROVE Promise
  BY <1>2, <1>3 DEF SyncInv, PromisesHeld
<1>4. CASE sync'[h] = sync[h]
  <2>1. Pull
    BY <1>2, <1>4 DEF SyncInv, PullsFind
  <2>2. Missed(h)' = Missed(h)
    BY <1>4 DEF Missed
  <2>3. Emit
    <3> SUFFICES ASSUME sync[h].pc = "emit", sync[h].promised # {}, Fresh',
                        Cardinality(Missed(h)) < Quorum, h # Home \/ OnlyOneCall
                 PROVE  StoredForGood(h)'
      BY <1>4, <2>2
    <3>1. StoredForGood(h)
      BY <1>2 DEF SyncInv, SyncsStore
    <3>2. holders # {}
      BY DEF SyncInv, PromisesHeld
    <3>3. QED BY <3>1, <3>2, StoredStays
  <2>4. QED BY <1>3, <1>4, <2>1, <2>3
<1>5. CASE sync'[h] = SyncIdle
  BY <1>5 DEF SyncIdle
<1>6. CASE SyncBegins(h)
  <2>1. /\ sync'[h].pc = "pull" /\ sync'[h].todo = Selected[h]
        /\ sync'[h].promised = holders
    BY <1>1, <1>6 DEF SyncBegins, SyncIdle
  <2>2. Promise
    BY <1>1, <1>2, <2>1 DEF QuorumInv, HoldersAreQuorum
  <2>3. QED BY <2>1, <2>2
<1>7. ASSUME NEW p \in Peers, PulledFrom(h, p) PROVE Promise /\ Pull /\ Emit
  <2>1. /\ sync[h].pc = "pull" /\ p \in sync[h].todo
        /\ sync'[h].pc = "pull" /\ sync'[h].todo = sync[h].todo \ {p}
        /\ sync'[h].failed = sync[h].failed /\ sync'[h].promised = sync[h].promised
        /\ sync'[h].found = FirstCopy(sync[h].found, p)
    BY <1>1, <1>7 DEF PulledFrom, SyncCall
  <2>2. sync[h].found # None => sync'[h].found # None
    BY <2>1 DEF FirstCopy
  <2>3. Fresh /\ p \in sync[h].promised => sync'[h].found # None
    BY <2>1, PromisedAnswers DEF FirstCopy
  <2>4. Pull
    BY <1>2, <2>1, <2>2, <2>3 DEF SyncInv, PullsFind
  <2>5. QED BY <1>3, <2>1, <2>4
<1>8. ASSUME NEW p \in Peers, PullFails(h, p) PROVE Promise /\ Pull /\ Emit
  <2>1. /\ sync[h].pc = "pull"
        /\ sync'[h].pc = "pull" /\ sync'[h].todo = sync[h].todo \ {p}
        /\ sync'[h].failed = sync[h].failed \cup {p}
        /\ sync'[h].promised = sync[h].promised /\ sync'[h].found = sync[h].found
    BY <1>1, <1>8 DEF PullFails, SyncCall
  <2>2. Pull
    BY <1>2, <2>1 DEF SyncInv, PullsFind
  <2>3. QED BY <1>3, <2>1, <2>2
<1>9. CASE SyncStores(h)
  <2>1. CASE sync' = [sync EXCEPT ![h] = SyncIdle]
    BY <1>1, <1>5, <2>1
  <2>2. CASE sync' = [sync EXCEPT ![h].pc = "emit", ![h].found = None]
    <3>1. /\ sync[h].pc = "pull" /\ sync[h].todo = {}
          /\ sync'[h].pc = "emit" /\ sync'[h].failed = sync[h].failed
          /\ sync'[h].promised = sync[h].promised
      BY <1>1, <1>9, <2>2 DEF SyncStores, SyncCall
    <3>2. Missed(h)' = Missed(h)
      BY <3>1 DEF Missed
    <3>3. Emit
      <4> SUFFICES ASSUME sync[h].promised # {}, Fresh', Cardinality(Missed(h)) < Quorum
                   PROVE  StoredForGood(h)'
        BY <3>1, <3>2
      <4>1. CASE sync[h].found # None
        <5> DEFINE r == [sync[h].found EXCEPT !.since = "send_time"]
        <5>1. sync[h].found \in Row /\ row' = [row EXCEPT ![h] = r]
          BY <1>1, <1>9, <4>1, EntryTypes DEF SyncStores
        <5>2. r \in Row /\ r.since = "send_time"
          BY <5>1 DEF Row
        <5>3. r # None
          BY <5>2, NoneAssumption
        <5> HIDE DEF r
        <5>4. row'[h] = r
          BY <1>1, <5>1 DEF TypeOK
        <5>5. QED BY <5>2, <5>3, <5>4 DEF StoredForGood
      <4>2. CASE sync[h].found = None
        <5>1. h \in sync[h].promised
          BY <1>2, <3>1, <4>2, PromisedOrMissed
        <5>2. row[h] # None /\ row[h].since = "send_time"
          BY <1>2, <5>1, PromisedAnswers
        <5>3. row' = row
          BY <1>9, <4>2 DEF SyncStores
        <5>4. QED BY <5>2, <5>3 DEF StoredForGood
      <4>3. QED BY <4>1, <4>2
    <3>4. QED BY <1>3, <3>1, <3>3
  <2>3. QED BY <1>9, <2>1, <2>2 DEF SyncStores
<1>10. Promise /\ Pull /\ Emit
  BY <1>1, <1>4, <1>5, <1>6, <1>7, <1>8, <1>9, SyncEntryStep
<1>11. QED BY <1>10

\* On a server that missed fewer than a quorum of the replicas, a sync that began
\* after the acceptance replays a queue with the message in it: for every network,
\* selection, quorum, number of calls, late requests, lost answers and restarts.
THEOREM SyncsFindAccepted == Spec => []SyncFindsAccepted
<1>1. Init => SyncInv
  <2> SUFFICES ASSUME Init PROVE SyncInv
    OBVIOUS
  <2>1. QuorumInv
    BY QuorumInvInductive
  <2>2. QED
    BY <2>1 DEF Init, SyncInv, AcksAreSelected, OnlyCallIsOver, PromisesHeld, PullsFind,
       SyncsStore, SendIdle, SyncIdle
<1>2. SyncInv /\ [Next]_vars => SyncInv'
  <2> SUFFICES ASSUME SyncInv, [Next]_vars PROVE SyncInv'
    OBVIOUS
  <2>1. QuorumInv /\ QuorumInv'
    BY QuorumInvInductive DEF SyncInv
  <2>2. CASE UNCHANGED vars
    BY <2>1, <2>2 DEF vars, SyncInv, AcksAreSelected, OnlyCallIsOver, OnlyOneCall,
       PromisesHeld, PullsFind, SyncsStore, Fresh, Missed, StoredForGood
  <2>3. CASE Next
    BY <2>1, <2>3, AckStep, OnlyCallStep, SyncInvStep DEF SyncInv
  <2>4. QED BY <2>2, <2>3
<1>3. SyncInv => SyncFindsAccepted
  <2> SUFFICES ASSUME SyncInv, NEW h \in Peers, sync[h].pc = "emit", sync[h].promised # {},
                      Fresh, Cardinality(Missed(h)) < Quorum, h # Home \/ OnlyOneCall
               PROVE  Live(h)
    BY DEF SyncFindsAccepted, Missed, Fresh, OnlyOneCall
  <2>1. StoredForGood(h)
    BY DEF SyncInv, SyncsStore
  <2>2. QED BY <2>1 DEF StoredForGood, Live, Fresh
<1>4. QED BY <1>1, <1>2, <1>3, PTL DEF Spec
=============================================================================
