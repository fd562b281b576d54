------------------------- MODULE RealtimeDeliveryProofs -------------------------
(***************************************************************************)
(* Proofs about RealtimeDelivery, for every set of nodes, sockets and      *)
(* events, every retry limit and any number of crashes.                    *)
(***************************************************************************)
EXTENDS RealtimeDelivery, SequenceTheorems, TLAPS

-----------------------------------------------------------------------------
(* Sending and sequences.                                                  *)

\* Sending a set of events keeps every wire a set of events.
LEMMA SendToType ==
  ASSUME TypeOK, NEW c \in Sockets, NEW sent \in SUBSET Events, SendTo(c, sent)
  PROVE  wire' \in [Sockets -> SUBSET Events]
BY DEF TypeOK, SendTo

\* The same when the client is looked up first: FirstClient is a socket.
LEMMA SendToSessionType ==
  ASSUME TypeOK, NEW n \in Nodes, NEW sent \in SUBSET Events,
         SendToSession(n, sent)
  PROVE  wire' \in [Sockets -> SUBSET Events]
<1>1. CASE HasLocalSession(n)
  <2>1. FirstClient(n) \in Sockets
    BY <1>1, HeadTailProperties DEF TypeOK, HasLocalSession, FirstClient
  <2>2. QED BY <1>1, <2>1, SendToType DEF SendToSession
<1>2. CASE ~HasLocalSession(n)
  BY <1>2 DEF SendToSession, TypeOK
<1>3. QED BY <1>1, <1>2

\* Removing the element at position i leaves a sequence over the same set in
\* which every other element is still found.
LEMMA RemoveAtProperties ==
  ASSUME NEW S, NEW s \in Seq(S), NEW i \in 1..Len(s)
  PROVE  /\ RemoveAt(s, i) \in Seq(S)
         /\ \A j \in 1..Len(s) : j # i =>
              \E k \in 1..Len(RemoveAt(s, i)) : RemoveAt(s, i)[k] = s[j]
<1> DEFINE left  == SubSeq(s, 1, i - 1)
           right == SubSeq(s, i + 1, Len(s))
<1>1. left \in Seq(S) /\ Len(left) = i - 1
      /\ \A k \in 1..(i - 1) : left[k] = s[k]
  OBVIOUS
<1>2. right \in Seq(S) /\ Len(right) = Len(s) - i
      /\ \A k \in 1..(Len(s) - i) : right[k] = s[i + k]
  OBVIOUS
<1>3. RemoveAt(s, i) = left \o right
  BY DEF RemoveAt
<1> HIDE DEF left, right
<1>4. /\ left \o right \in Seq(S)
      /\ Len(left \o right) = Len(s) - 1
      /\ \A k \in 1..(i - 1) : (left \o right)[k] = s[k]
      /\ \A k \in 1..(Len(s) - i) : (left \o right)[i - 1 + k] = s[i + k]
  <2>1. /\ left \o right \in Seq(S)
        /\ Len(left \o right) = Len(left) + Len(right)
        /\ \A k \in 1..(Len(left) + Len(right)) : (left \o right)[k] =
              IF k <= Len(left) THEN left[k] ELSE right[k - Len(left)]
    BY <1>1, <1>2, ConcatProperties
  <2>2. Len(s) \in Nat /\ i \in Nat /\ i >= 1 /\ i <= Len(s)
    BY LenProperties
  <2>3. Len(left) + Len(right) = Len(s) - 1
    BY <1>1, <1>2, <2>2
  <2>4. ASSUME NEW k \in 1..(i - 1) PROVE (left \o right)[k] = s[k]
    BY <1>1, <2>1, <2>2, <2>3
  <2>5. ASSUME NEW k \in 1..(Len(s) - i)
        PROVE  (left \o right)[i - 1 + k] = s[i + k]
    <3>1. /\ i - 1 + k \in 1..(Len(left) + Len(right))
          /\ ~(i - 1 + k <= Len(left))
          /\ (i - 1 + k) - Len(left) = k
      BY <1>1, <2>2, <2>3
    <3>2. (left \o right)[i - 1 + k] = right[k]
      BY <2>1, <3>1
    <3>3. QED BY <1>2, <3>2
  <2>6. QED BY <2>1, <2>3, <2>4, <2>5
<1>5. ASSUME NEW j \in 1..Len(s), j # i
      PROVE  \E k \in 1..Len(left \o right) : (left \o right)[k] = s[j]
  <2>1. CASE j < i
    <3>1. j \in 1..(i - 1) /\ j \in 1..Len(left \o right)
      BY <2>1, <1>4
    <3>2. QED BY <3>1, <1>4
  <2>2. CASE j > i
    <3>1. /\ j - i \in 1..(Len(s) - i)
          /\ j - 1 \in 1..Len(left \o right)
          /\ i - 1 + (j - i) = j - 1 /\ i + (j - i) = j
      BY <2>2, <1>4
    <3>2. (left \o right)[i - 1 + (j - i)] = s[i + (j - i)]
      BY <3>1, <1>4
    <3>3. QED BY <3>1, <3>2
  <2>3. QED BY <1>5, <2>1, <2>2
<1>6. QED BY <1>3, <1>4, <1>5

-----------------------------------------------------------------------------
(* Type correctness.                                                       *)

\* What StartDelivery records is a set of (event, socket) pairs.
LEMMA StartDeliveryType ==
  ASSUME TypeOK, NEW n \in Nodes, NEW e \in Events, StartDelivery(n, e)
  PROVE  storing' \in [Nodes -> SUBSET (Events \X Sockets)] /\ wire' = wire
<1>1. CASE HasTarget(n)
  <2>1. FirstClient(n) \in Sockets
    BY <1>1, HeadTailProperties DEF TypeOK, HasTarget, HasLocalSession, FirstClient
  <2>2. QED BY <1>1, <2>1 DEF StartDelivery, Storing, TypeOK
<1>2. CASE ~HasTarget(n)
  BY <1>2 DEF StartDelivery, TypeOK
<1>3. QED BY <1>1, <1>2

\* Every step of the system keeps every variable in its type.
LEMMA TypeStep == TypeOK /\ [Next]_vars => TypeOK'
<1> SUFFICES ASSUME TypeOK, [Next]_vars PROVE TypeOK'
  OBVIOUS
<1> USE NodeOfAssumption, MaxRetriesAssumption, MaxCrashesAssumption
    DEF connVars, emitVars, wireVars, ghostVars,
        Armed, HasRetriesLeft, NextAttempt, LocalRooms
<1>1. ASSUME NEW n \in Nodes, NEW e \in Events, EmitToRoom(n, e) PROVE TypeOK'
  BY <1>1, StartDeliveryType DEF EmitToRoom, TypeOK
<1>2. ASSUME NEW n \in Nodes, NEW e \in Events, PublishFanout(n, e) PROVE TypeOK'
  BY <1>2 DEF PublishFanout, TypeOK
<1>3. ASSUME NEW n \in Nodes, NEW e \in Events, HandleFanout(n, e) PROVE TypeOK'
  BY <1>3, StartDeliveryType DEF HandleFanout, TypeOK
<1>4. ASSUME NEW n \in Nodes, NEW e \in Events, NEW c \in Sockets,
             EnvelopeStored(n, e, c)
      PROVE  TypeOK'
  <2>1. wire' \in [Sockets -> SUBSET Events]
    BY <1>4, SendToType DEF EnvelopeStored
  <2>2. QED BY <1>4, <2>1 DEF EnvelopeStored, TypeOK
<1>5. ASSUME NEW n \in Nodes, NEW e \in Events, RetryTimeout(n, e) PROVE TypeOK'
  BY <1>5 DEF RetryTimeout, TypeOK
<1>6. ASSUME NEW n \in Nodes, NEW e \in Events, RetryStored(n, e) PROVE TypeOK'
  <2>1. wire' \in [Sockets -> SUBSET Events]
    BY <1>6, SendToSessionType DEF RetryStored
  <2>2. retrying[n][e] + 1 \in Nat
    BY <1>6 DEF RetryStored, TypeOK
  <2>3. QED BY <1>6, <2>1, <2>2 DEF RetryStored, TypeOK
<1>7. ASSUME NEW n \in Nodes, NEW e \in Events, RetryExhausted(n, e) PROVE TypeOK'
  BY <1>7 DEF RetryExhausted, TypeOK
<1>8. ASSUME NEW c \in Sockets, Authenticated(c) PROVE TypeOK'
  <2>1. Append(clients[NodeOf[c]], c) \in Seq(Sockets)
    BY AppendProperties DEF TypeOK
  <2>2. QED BY <1>8, <2>1 DEF Authenticated, TypeOK
<1>9. ASSUME NEW c \in Sockets, RoomsReplaced(c) PROVE TypeOK'
  BY <1>9 DEF RoomsReplaced, TypeOK
<1>10. ASSUME NEW c \in Sockets, ReplayPending(c) PROVE TypeOK'
  <2>1. wire' \in [Sockets -> SUBSET Events]
    BY <1>10, SendToSessionType DEF ReplayPending
  <2>2. timers' \in [Nodes -> SUBSET Events]
    BY <1>10 DEF ReplayPending, TypeOK
  <2>3. QED BY <1>10, <2>1, <2>2 DEF ReplayPending, TypeOK
<1>11. ASSUME NEW c \in Sockets, SocketCloses(c) PROVE TypeOK'
  BY <1>11 DEF SocketCloses, TypeOK
<1>12. ASSUME NEW c \in Sockets, Disconnected(c) PROVE TypeOK'
  <2>1. clients' \in [Nodes -> Seq(Sockets)]
    BY <1>12, RemoveAtProperties DEF Disconnected, TypeOK
  <2>2. QED BY <1>12, <2>1 DEF Disconnected, TypeOK
<1>13. ASSUME NEW c \in Sockets, NEW e \in Events, ClientReceives(c, e)
       PROVE  TypeOK'
  BY <1>13 DEF ClientReceives, TypeOK
<1>14. ASSUME NEW c \in Sockets, NEW e \in Events, Acknowledge(c, e)
       PROVE  TypeOK'
  BY <1>14 DEF Acknowledge, TypeOK
<1>15. ASSUME NEW n \in Nodes, Crash(n) PROVE TypeOK'
  <2>1. clients' \in [Nodes -> Seq(Sockets)]
    BY <1>15 DEF Crash, TypeOK
  <2>2. QED BY <1>15, <2>1 DEF Crash, TypeOK
<1>16. CASE PendingExpires
  BY <1>16 DEF PendingExpires, TypeOK
<1>17. CASE UNCHANGED vars
  BY <1>17 DEF vars, TypeOK
<1>18. QED
  BY <1>1, <1>2, <1>3, <1>4, <1>5, <1>6, <1>7, <1>8, <1>9, <1>10, <1>11,
     <1>12, <1>13, <1>14, <1>15, <1>16, <1>17
     DEF Next, NodeStep, SocketStep, ClientStep

\* Every variable keeps its type in every behaviour of the specification.
THEOREM TypeCorrect == Spec => []TypeOK
<1>1. Init => TypeOK
  BY MaxCrashesAssumption DEF Init, TypeOK
<1>2. QED BY <1>1, TypeStep, PTL DEF Spec

-----------------------------------------------------------------------------
(* max_retries.                                                            *)

\* AttemptBounded is inductive: a handler that may store an attempt n + 1 has
\* read an n below the limit, and only deliver_to_session resets the attempt.
LEMMA AttemptBoundedStep ==
  TypeOK /\ AttemptBounded /\ [Next]_vars => AttemptBounded'
<1> SUFFICES ASSUME TypeOK, AttemptBounded, [Next]_vars PROVE AttemptBounded'
  OBVIOUS
<1> USE MaxRetriesAssumption, AbsentAssumption
    DEF connVars, emitVars, wireVars, ghostVars,
        Armed, HasRetriesLeft, NextAttempt, LocalRooms
<1>1. CASE UNCHANGED <<pending, retrying>>
  BY <1>1 DEF AttemptBounded
<1>2. ASSUME NEW n \in Nodes, NEW e \in Events, NEW c \in Sockets,
             EnvelopeStored(n, e, c)
      PROVE  AttemptBounded'
  BY <1>2 DEF EnvelopeStored, AttemptBounded, TypeOK
<1>3. ASSUME NEW n \in Nodes, NEW e \in Events, RetryTimeout(n, e)
      PROVE  AttemptBounded'
  BY <1>3 DEF RetryTimeout, AttemptBounded, TypeOK
<1>4. ASSUME NEW n \in Nodes, NEW e \in Events, RetryStored(n, e)
      PROVE  AttemptBounded'
  <2>1. retrying[n][e] \in Nat /\ retrying[n][e] + 1 <= MaxRetries
    BY <1>4 DEF RetryStored, TypeOK
  <2>2. \A f \in Events : pending'[f] # Absent => pending'[f] <= MaxRetries
    BY <1>4, <2>1 DEF RetryStored, AttemptBounded, TypeOK
  <2>3. \A m \in Nodes, f \in Events :
           retrying'[m][f] # Absent => retrying'[m][f] <= MaxRetries
    BY <1>4 DEF RetryStored, AttemptBounded, TypeOK
  <2>4. QED BY <2>2, <2>3 DEF AttemptBounded
<1>5. ASSUME NEW n \in Nodes, NEW e \in Events, RetryExhausted(n, e)
      PROVE  AttemptBounded'
  BY <1>5 DEF RetryExhausted, AttemptBounded, TypeOK
<1>6. ASSUME NEW c \in Sockets, NEW e \in Events, Acknowledge(c, e)
      PROVE  AttemptBounded'
  BY <1>6 DEF Acknowledge, AttemptBounded, TypeOK
<1>7. ASSUME NEW n \in Nodes, Crash(n) PROVE AttemptBounded'
  BY <1>7 DEF Crash, AttemptBounded, TypeOK
<1>8. CASE PendingExpires
  BY <1>8 DEF PendingExpires, AttemptBounded, TypeOK
<1>9. ASSUME NEW n \in Nodes, NEW e \in Events,
             EmitToRoom(n, e) \/ PublishFanout(n, e) \/ HandleFanout(n, e)
      PROVE  AttemptBounded'
  BY <1>1, <1>9 DEF EmitToRoom, PublishFanout, HandleFanout, StartDelivery
<1>10. ASSUME NEW c \in Sockets, SocketStep(c) PROVE AttemptBounded'
  BY <1>1, <1>10 DEF SocketStep, Authenticated, RoomsReplaced, ReplayPending,
                     SocketCloses, Disconnected
<1>11. ASSUME NEW c \in Sockets, NEW e \in Events, ClientReceives(c, e)
       PROVE  AttemptBounded'
  BY <1>1, <1>11 DEF ClientReceives
<1>12. CASE UNCHANGED vars
  BY <1>1, <1>12 DEF vars
<1>13. QED
  BY <1>2, <1>3, <1>4, <1>5, <1>6, <1>7, <1>8, <1>9, <1>10, <1>11, <1>12
     DEF Next, NodeStep, ClientStep

\* No envelope is ever recorded with, or retried from, an attempt above
\* max_retries, however many nodes hold a timer for it.
THEOREM AttemptsStayBounded == Spec => []AttemptBounded
<1>1. Init => AttemptBounded
  BY DEF Init, AttemptBounded
<1>2. QED BY <1>1, AttemptBoundedStep, TypeCorrect, PTL DEF Spec

-----------------------------------------------------------------------------
(* Nobody forgets a pending envelope.                                      *)

\* NoOrphan is inductive: a step that gives up the timer or the handler of a
\* node for an envelope either takes the other one up or removes the envelope.
LEMMA NoOrphanStep == TypeOK /\ NoOrphan /\ [Next]_vars => NoOrphan'
<1> SUFFICES ASSUME TypeOK, NoOrphan, [Next]_vars PROVE NoOrphan'
  OBVIOUS
<1> DEFINE Held(e) == \E n \in Nodes : e \in timers[n] \/ retrying[n][e] # Absent
<1> USE AbsentAssumption, NodeOfAssumption
    DEF connVars, emitVars, wireVars, ghostVars,
        Armed, HasRetriesLeft, NextAttempt, LocalRooms
<1>1. CASE UNCHANGED <<pending, timers, retrying, crashes>>
  BY <1>1 DEF NoOrphan
<1>2. ASSUME NEW n \in Nodes, NEW e \in Events, NEW c \in Sockets,
             EnvelopeStored(n, e, c)
      PROVE  NoOrphan'
  BY <1>2 DEF EnvelopeStored, NoOrphan, TypeOK
<1>3. ASSUME NEW n \in Nodes, NEW e \in Events, RetryTimeout(n, e)
      PROVE  NoOrphan'
  <2> SUFFICES ASSUME crashes = 0, NEW f \in Events, pending[f] # Absent
               PROVE  Held(f)'
    BY <1>3 DEF RetryTimeout, NoOrphan
  <2>1. CASE f = e
    BY <1>3, <2>1 DEF RetryTimeout, TypeOK
  <2>2. CASE f # e
    BY <1>3, <2>2 DEF RetryTimeout, NoOrphan, TypeOK
  <2>3. QED BY <2>1, <2>2
<1>4. ASSUME NEW n \in Nodes, NEW e \in Events, RetryStored(n, e)
      PROVE  NoOrphan'
  <2> SUFFICES ASSUME crashes = 0, NEW f \in Events, pending'[f] # Absent
               PROVE  Held(f)'
    BY <1>4 DEF RetryStored, NoOrphan
  <2>1. CASE f = e
    BY <1>4, <2>1 DEF RetryStored, TypeOK
  <2>2. CASE f # e
    BY <1>4, <2>2 DEF RetryStored, NoOrphan, TypeOK
  <2>3. QED BY <2>1, <2>2
<1>5. ASSUME NEW n \in Nodes, NEW e \in Events, RetryExhausted(n, e)
      PROVE  NoOrphan'
  BY <1>5 DEF RetryExhausted, NoOrphan, TypeOK
<1>6. ASSUME NEW c \in Sockets, NEW e \in Events, Acknowledge(c, e)
      PROVE  NoOrphan'
  BY <1>6 DEF Acknowledge, NoOrphan, TypeOK
<1>7. ASSUME NEW n \in Nodes, Crash(n) PROVE NoOrphan'
  BY <1>7 DEF Crash, NoOrphan, TypeOK
<1>8. CASE PendingExpires
  BY <1>8 DEF PendingExpires, NoOrphan, TypeOK
<1>9. ASSUME NEW n \in Nodes, NEW e \in Events,
             EmitToRoom(n, e) \/ PublishFanout(n, e) \/ HandleFanout(n, e)
      PROVE  NoOrphan'
  BY <1>1, <1>9 DEF EmitToRoom, PublishFanout, HandleFanout, StartDelivery
<1>10. ASSUME NEW c \in Sockets, ReplayPending(c) PROVE NoOrphan'
  BY <1>10 DEF ReplayPending, NoOrphan, TypeOK
<1>11. ASSUME NEW c \in Sockets, Authenticated(c) \/ RoomsReplaced(c)
                                 \/ SocketCloses(c) \/ Disconnected(c)
       PROVE  NoOrphan'
  BY <1>1, <1>11 DEF Authenticated, RoomsReplaced, SocketCloses, Disconnected
<1>12. ASSUME NEW c \in Sockets, NEW e \in Events, ClientReceives(c, e)
       PROVE  NoOrphan'
  BY <1>1, <1>12 DEF ClientReceives
<1>13. CASE UNCHANGED vars
  BY <1>1, <1>13 DEF vars
<1>14. QED
  BY <1>2, <1>3, <1>4, <1>5, <1>6, <1>7, <1>8, <1>9, <1>10, <1>11, <1>12, <1>13
     DEF Next, NodeStep, SocketStep, ClientStep

\* Without crashes, an unacknowledged envelope always has a timer or a running
\* retry handler on some node.
THEOREM PendingIsNeverOrphaned == Spec => []NoOrphan
<1>1. Init => NoOrphan
  BY DEF Init, NoOrphan
<1>2. QED BY <1>1, NoOrphanStep, TypeCorrect, PTL DEF Spec

-----------------------------------------------------------------------------
(* A sent envelope is backed by the hash until it is settled.              *)

\* The strengthening: an expiry of the hash, the one step that settles nothing,
\* happens only when no socket is registered, hence when nothing is under way.
SentInv == OpenSocketsAreRegistered /\ SentIsBacked

\* Sockets that are not open carry nothing, after any of the ways to send.
LEMMA SendKeepsClosedSocketsEmpty ==
  ASSUME TypeOK, NEW sent \in SUBSET Events,
         \/ \E c \in Sockets : SendTo(c, sent)
         \/ \E n \in Nodes : SendToSession(n, sent)
  PROVE  /\ \A d \in Sockets : sock[d] # "open" => wire'[d] = wire[d]
         /\ \A d \in Sockets : wire'[d] \subseteq wire[d] \cup sent
<1>1. ASSUME NEW b \in Sockets, SendTo(b, sent)
      PROVE  /\ \A d \in Sockets : sock[d] # "open" => wire'[d] = wire[d]
             /\ \A d \in Sockets : wire'[d] \subseteq wire[d] \cup sent
  BY <1>1 DEF SendTo, TypeOK
<1>2. ASSUME NEW n \in Nodes, SendToSession(n, sent)
      PROVE  wire' = wire \/ \E b \in Sockets : SendTo(b, sent)
  BY <1>2, HeadTailProperties
     DEF SendToSession, HasLocalSession, FirstClient, TypeOK
<1>3. QED BY <1>1, <1>2

\* Registration and the emptiness of closed sockets are kept by every step.
LEMMA RegisteredStep ==
  TypeOK /\ OpenSocketsAreRegistered /\ [Next]_vars => OpenSocketsAreRegistered'
<1> SUFFICES ASSUME TypeOK, OpenSocketsAreRegistered, [Next]_vars
             PROVE  OpenSocketsAreRegistered'
  OBVIOUS
<1> USE NodeOfAssumption DEF connVars, emitVars, wireVars, ghostVars,
        Armed, HasRetriesLeft, NextAttempt, LocalRooms
<1>1. CASE UNCHANGED <<sock, clients, wire, acks>>
  BY <1>1 DEF OpenSocketsAreRegistered
<1>2. ASSUME UNCHANGED <<sock, clients, acks>>,
             \A d \in Sockets : sock[d] # "open" => wire'[d] = wire[d]
      PROVE  OpenSocketsAreRegistered'
  BY <1>2 DEF OpenSocketsAreRegistered
<1>3. ASSUME NEW n \in Nodes, NEW e \in Events, NEW c \in Sockets,
             EnvelopeStored(n, e, c)
      PROVE  OpenSocketsAreRegistered'
  BY <1>2, <1>3, SendKeepsClosedSocketsEmpty DEF EnvelopeStored
<1>4. ASSUME NEW n \in Nodes, NEW e \in Events, RetryStored(n, e)
      PROVE  OpenSocketsAreRegistered'
  BY <1>2, <1>4, SendKeepsClosedSocketsEmpty DEF RetryStored
<1>5. ASSUME NEW c \in Sockets, ReplayPending(c) PROVE OpenSocketsAreRegistered'
  BY <1>2, <1>5, SendKeepsClosedSocketsEmpty DEF ReplayPending
<1>6. ASSUME NEW c \in Sockets, Authenticated(c) PROVE OpenSocketsAreRegistered'
  <2>1. ASSUME NEW d \in Sockets, sock'[d] = "open"
        PROVE  \E i \in 1..Len(clients'[NodeOf[d]]) : clients'[NodeOf[d]][i] = d
    <3>1. CASE d = c
      <4>1. clients'[NodeOf[c]] = Append(clients[NodeOf[c]], c)
        BY <1>6 DEF Authenticated, TypeOK
      <4>2. clients[NodeOf[c]] \in Seq(Sockets)
        BY DEF TypeOK
      <4>3. QED BY <3>1, <4>1, <4>2, AppendProperties, LenProperties
    <3>2. CASE d # c
      <4>1. sock[d] = "open"
        BY <1>6, <2>1, <3>2 DEF Authenticated, TypeOK
      <4>2. PICK i \in 1..Len(clients[NodeOf[d]]) : clients[NodeOf[d]][i] = d
        BY <4>1 DEF OpenSocketsAreRegistered
      <4>3. clients[NodeOf[d]] \in Seq(Sockets)
        BY DEF TypeOK
      <4>4. CASE NodeOf[d] = NodeOf[c]
        <5>1. clients'[NodeOf[d]] = Append(clients[NodeOf[d]], c)
          BY <1>6, <4>4 DEF Authenticated, TypeOK
        <5>2. i \in 1..Len(clients'[NodeOf[d]])
          BY <4>3, <5>1, AppendProperties, LenProperties
        <5>3. QED BY <4>2, <4>3, <5>1, <5>2, AppendProperties
      <4>5. CASE NodeOf[d] # NodeOf[c]
        BY <1>6, <4>2, <4>5 DEF Authenticated, TypeOK
      <4>6. QED BY <4>4, <4>5
    <3>3. QED BY <3>1, <3>2
  <2>2. ASSUME NEW d \in Sockets, sock'[d] # "open"
        PROVE  wire'[d] = {} /\ acks'[d] = {}
    BY <1>6, <2>2 DEF Authenticated, OpenSocketsAreRegistered, TypeOK
  <2>3. QED BY <2>1, <2>2 DEF OpenSocketsAreRegistered
<1>7. ASSUME NEW c \in Sockets, SocketCloses(c) PROVE OpenSocketsAreRegistered'
  BY <1>7 DEF SocketCloses, OpenSocketsAreRegistered, TypeOK
<1>8. ASSUME NEW c \in Sockets, Disconnected(c) PROVE OpenSocketsAreRegistered'
  <2> DEFINE n == NodeOf[c]
  <2>1. PICK i \in 1..Len(clients[n]) :
          /\ clients[n][i] = c
          /\ clients' = [clients EXCEPT ![n] = RemoveAt(@, i)]
    BY <1>8 DEF Disconnected
  <2>2. clients[n] \in Seq(Sockets)
    BY DEF TypeOK
  <2>3. ASSUME NEW d \in Sockets, sock'[d] = "open"
        PROVE  \E k \in 1..Len(clients'[NodeOf[d]]) : clients'[NodeOf[d]][k] = d
    <3>1. d # c /\ sock[d] = "open"
      BY <1>8, <2>3 DEF Disconnected, TypeOK
    <3>2. PICK j \in 1..Len(clients[NodeOf[d]]) : clients[NodeOf[d]][j] = d
      BY <3>1 DEF OpenSocketsAreRegistered
    <3>3. CASE NodeOf[d] = n
      <4>1. j # i
        BY <2>1, <3>1, <3>2, <3>3
      <4>2. clients'[n] = RemoveAt(clients[n], i)
        BY <2>1 DEF TypeOK
      <4>3. QED BY <2>2, <3>2, <3>3, <4>1, <4>2, RemoveAtProperties
    <3>4. CASE NodeOf[d] # n
      BY <2>1, <3>2, <3>4 DEF TypeOK
    <3>5. QED BY <3>3, <3>4
  <2>4. ASSUME NEW d \in Sockets, sock'[d] # "open"
        PROVE  wire'[d] = {} /\ acks'[d] = {}
    BY <1>8, <2>4 DEF Disconnected, OpenSocketsAreRegistered, TypeOK
  <2>5. QED BY <2>3, <2>4 DEF OpenSocketsAreRegistered
<1>9. ASSUME NEW c \in Sockets, NEW e \in Events, ClientStep(c, e)
      PROVE  OpenSocketsAreRegistered'
  BY <1>9 DEF ClientStep, ClientReceives, Acknowledge,
              OpenSocketsAreRegistered, TypeOK
<1>10. ASSUME NEW n \in Nodes, Crash(n) PROVE OpenSocketsAreRegistered'
  BY <1>10 DEF Crash, OpenSocketsAreRegistered, TypeOK
<1>11. ASSUME NEW n \in Nodes, NEW e \in Events,
              \/ EmitToRoom(n, e) \/ PublishFanout(n, e) \/ HandleFanout(n, e)
              \/ RetryTimeout(n, e) \/ RetryExhausted(n, e)
       PROVE  OpenSocketsAreRegistered'
  BY <1>1, <1>11 DEF EmitToRoom, PublishFanout, HandleFanout, StartDelivery, RetryTimeout,
                     RetryExhausted
<1>12. ASSUME NEW c \in Sockets, RoomsReplaced(c)
       PROVE  OpenSocketsAreRegistered'
  BY <1>1, <1>12 DEF RoomsReplaced
<1>13. CASE PendingExpires \/ UNCHANGED vars
  BY <1>1, <1>13 DEF PendingExpires, vars
<1>14. QED
  BY <1>3, <1>4, <1>5, <1>6, <1>7, <1>8, <1>9, <1>10, <1>11, <1>12, <1>13
     DEF Next, NodeStep, SocketStep

\* A step that removes an envelope from the hash settles it; a step that sends
\* one finds it there or puts it there.
LEMMA SentIsBackedStep ==
  TypeOK /\ SentInv /\ [Next]_vars => SentIsBacked'
<1> SUFFICES ASSUME TypeOK, SentInv, [Next]_vars PROVE SentIsBacked'
  OBVIOUS
<1> DEFINE Backed(e) == pending[e] # Absent \/ e \in acked \/ e \in exhausted
           Under(c)  == wire[c] \cup acks[c]
<1> USE AbsentAssumption, NodeOfAssumption
    DEF SentInv, connVars, emitVars, wireVars, ghostVars,
        Armed, HasRetriesLeft, NextAttempt, LocalRooms
<1>1. ASSUME \A e \in Events : Backed(e) => Backed(e)',
             \A c \in Sockets : \A e \in Under(c)' : e \in Under(c) \/ Backed(e)'
      PROVE  SentIsBacked'
  BY <1>1 DEF SentIsBacked, TypeOK
<1>2. ASSUME UNCHANGED <<pending, wire, acks, acked, exhausted>>
      PROVE  SentIsBacked'
  BY <1>2 DEF SentIsBacked
<1>3. ASSUME NEW n \in Nodes, NEW e \in Events, NEW c \in Sockets,
             EnvelopeStored(n, e, c)
      PROVE  SentIsBacked'
  <2>1. \A d \in Sockets : wire'[d] \subseteq wire[d] \cup {e}
    BY <1>3, SendKeepsClosedSocketsEmpty DEF EnvelopeStored
  <2>2. acks' = acks /\ pending'[e] # Absent
        /\ \A f \in Events : Backed(f) => Backed(f)'
    BY <1>3 DEF EnvelopeStored, TypeOK
  <2>3. QED BY <1>1, <2>1, <2>2
<1>4. ASSUME NEW n \in Nodes, NEW e \in Events, RetryStored(n, e)
      PROVE  SentIsBacked'
  <2>1. \A d \in Sockets : wire'[d] \subseteq wire[d] \cup {e}
    BY <1>4, SendKeepsClosedSocketsEmpty DEF RetryStored
  <2>2. acks' = acks /\ pending'[e] # Absent
        /\ \A f \in Events : Backed(f) => Backed(f)'
    BY <1>4 DEF RetryStored, TypeOK
  <2>3. QED BY <1>1, <2>1, <2>2
<1>5. ASSUME NEW c \in Sockets, ReplayPending(c) PROVE SentIsBacked'
  <2> DEFINE held == {e \in Events : pending[e] # Absent}
  <2>1. \A d \in Sockets : wire'[d] \subseteq wire[d] \cup held
    BY <1>5, SendKeepsClosedSocketsEmpty DEF ReplayPending
  <2>2. UNCHANGED <<acks, pending, acked, exhausted>>
    BY <1>5 DEF ReplayPending
  <2>3. QED BY <1>1, <2>1, <2>2
<1>6. ASSUME NEW n \in Nodes, NEW e \in Events, RetryExhausted(n, e)
      PROVE  SentIsBacked'
  BY <1>1, <1>6 DEF RetryExhausted, TypeOK
<1>7. ASSUME NEW c \in Sockets, NEW e \in Events, Acknowledge(c, e)
      PROVE  SentIsBacked'
  BY <1>1, <1>7 DEF Acknowledge, TypeOK
<1>8. ASSUME NEW c \in Sockets, NEW e \in Events, ClientReceives(c, e)
      PROVE  SentIsBacked'
  BY <1>8 DEF ClientReceives, SentIsBacked, TypeOK
<1>9. ASSUME NEW c \in Sockets, SocketCloses(c) PROVE SentIsBacked'
  BY <1>9 DEF SocketCloses, SentIsBacked, TypeOK
<1>10. ASSUME NEW n \in Nodes, Crash(n) PROVE SentIsBacked'
  BY <1>10 DEF Crash, SentIsBacked, TypeOK
<1>11. CASE PendingExpires
  <2>1. ASSUME NEW c \in Sockets PROVE Under(c)' = {}
    <3>1. clients[NodeOf[c]] = <<>>
      BY <1>11 DEF PendingExpires, HasLocalSession
    <3>2. sock[c] # "open"
      BY <3>1 DEF OpenSocketsAreRegistered
    <3>3. QED BY <1>11, <3>2 DEF PendingExpires, OpenSocketsAreRegistered
  <2>2. QED BY <2>1 DEF SentIsBacked
<1>12. ASSUME NEW n \in Nodes, NEW e \in Events,
              \/ EmitToRoom(n, e) \/ PublishFanout(n, e) \/ HandleFanout(n, e)
              \/ RetryTimeout(n, e)
       PROVE  SentIsBacked'
  BY <1>2, <1>12 DEF EmitToRoom, PublishFanout, HandleFanout, StartDelivery, RetryTimeout
<1>13. ASSUME NEW c \in Sockets,
              Authenticated(c) \/ RoomsReplaced(c) \/ Disconnected(c)
       PROVE  SentIsBacked'
  BY <1>2, <1>13 DEF Authenticated, RoomsReplaced, Disconnected
<1>14. CASE UNCHANGED vars
  BY <1>2, <1>14 DEF vars
<1>15. QED
  BY <1>3, <1>4, <1>5, <1>6, <1>7, <1>8, <1>9, <1>10, <1>11, <1>12, <1>13, <1>14
     DEF Next, NodeStep, SocketStep, ClientStep

\* Whatever a client can still read or acknowledge is in the pending hash, or
\* has been acknowledged or given up: nothing is sent that was not stored.
THEOREM SentEnvelopesAreBacked == Spec => []SentIsBacked
<1>1. Init => SentInv
  BY DEF Init, SentInv, SentIsBacked, OpenSocketsAreRegistered
<1>2. TypeOK /\ SentInv /\ [Next]_vars => SentInv'
  BY RegisteredStep, SentIsBackedStep DEF SentInv
<1>3. SentInv => SentIsBacked
  BY DEF SentInv
<1>4. QED BY <1>1, <1>2, <1>3, TypeCorrect, PTL DEF Spec

-----------------------------------------------------------------------------
(* Room membership.                                                        *)

\* RoomsHaveClients is inductive: the last socket takes the membership along.
LEMMA RoomsHaveClientsStep ==
  TypeOK /\ RoomsHaveClients /\ [Next]_vars => RoomsHaveClients'
<1> SUFFICES ASSUME TypeOK, RoomsHaveClients, [Next]_vars
             PROVE  RoomsHaveClients'
  OBVIOUS
<1> USE NodeOfAssumption
    DEF RoomsHaveClients, HasLocalSession, connVars, emitVars, wireVars, ghostVars,
        Armed, HasRetriesLeft, NextAttempt, LocalRooms
<1>1. CASE UNCHANGED <<clients, rooms>>
  BY <1>1
<1>2. ASSUME NEW c \in Sockets, Authenticated(c) PROVE RoomsHaveClients'
  <2>1. Append(clients[NodeOf[c]], c) # <<>>
    <3>1. clients[NodeOf[c]] \in Seq(Sockets)
      BY DEF TypeOK
    <3>2. QED BY <3>1, AppendProperties, Zenon
  <2>2. QED BY <1>2, <2>1 DEF Authenticated, TypeOK
<1>3. ASSUME NEW c \in Sockets, RoomsReplaced(c) PROVE RoomsHaveClients'
  BY <1>3 DEF RoomsReplaced, TypeOK
<1>4. ASSUME NEW c \in Sockets, Disconnected(c) PROVE RoomsHaveClients'
  BY <1>4 DEF Disconnected, TypeOK
<1>5. ASSUME NEW n \in Nodes, Crash(n) PROVE RoomsHaveClients'
  BY <1>5 DEF Crash, TypeOK
<1>6. ASSUME NEW c \in Sockets, ReplayPending(c) \/ SocketCloses(c)
      PROVE  RoomsHaveClients'
  BY <1>1, <1>6 DEF ReplayPending, SocketCloses
<1>7. ASSUME NEW n \in Nodes, NEW e \in Events, EmitToRoom(n, e) \/ NodeStep(n, e)
      PROVE  RoomsHaveClients'
  BY <1>1, <1>7 DEF EmitToRoom, NodeStep, PublishFanout, HandleFanout, StartDelivery,
     EnvelopeStored, RetryTimeout, RetryStored, RetryExhausted
<1>8. ASSUME NEW c \in Sockets, NEW e \in Events, ClientStep(c, e)
      PROVE  RoomsHaveClients'
  BY <1>1, <1>8 DEF ClientStep, ClientReceives, Acknowledge
<1>9. CASE PendingExpires \/ UNCHANGED vars
  BY <1>1, <1>9 DEF PendingExpires, vars
<1>10. QED
  BY <1>2, <1>3, <1>4, <1>5, <1>6, <1>7, <1>8, <1>9 DEF Next, SocketStep

\* A node's room index names the session only while it has a socket of it.
THEOREM RoomIndexFollowsSockets == Spec => []RoomsHaveClients
<1>1. Init => RoomsHaveClients
  BY DEF Init, RoomsHaveClients
<1>2. QED BY <1>1, RoomsHaveClientsStep, TypeCorrect, PTL DEF Spec
=============================================================================
