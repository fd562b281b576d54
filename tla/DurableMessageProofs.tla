------------------------ MODULE DurableMessageProofs ------------------------
(***************************************************************************)
(* DirectMessageQueue implements DurableMessage, for any network, quorum,  *)
(* selection and number of calls, late requests and restarts: every step   *)
(* of the protocols is a step of the promise, or changes nothing of it.    *)
(***************************************************************************)
EXTENDS DirectMessageQueueProofs

\* Whoever was told of an acceptance has holders.
AcceptedIsHeld == Accepted => holders # {}

LEMMA AcceptedIsHeldStep ==
  ASSUME QuorumInv, AcceptedIsHeld, [Next]_vars
  PROVE  AcceptedIsHeld'
<1>1. CASE UNCHANGED vars
  BY <1>1 DEF vars, AcceptedIsHeld, Accepted
<1>2. CASE \E k \in Calls : SendAccepted(k)
  <2>1. PICK k \in Calls : SendAccepted(k)
    BY <1>2
  <2>2. Cardinality(send[k].acked) >= Quorum
    BY <2>1 DEF QuorumInv, CallsHaveQuorum, SendAccepted
  <2>3. send[k].acked # {}
    <3>1. Cardinality({}) = 0
      BY FS_EmptySet
    <3>2. QED BY <2>2, <3>1, QuorumAssumption
  <2>4. QED BY <2>1, <2>3 DEF SendAccepted, AcceptedIsHeld
<1>3. CASE Next /\ ~\E k \in Calls : SendAccepted(k)
  <2>1. Accepted' <=> Accepted
    BY <1>3, AcceptedCalls DEF Accepted
  <2>2. holders \subseteq holders'
    BY <1>3, StatusStep
  <2>3. QED BY <2>1, <2>2 DEF AcceptedIsHeld
<1>4. QED BY <1>1, <1>2, <1>3

LEMMA AcceptStep ==
  ASSUME QuorumInv, Next
  PROVE  /\ Accepted => Accepted'
         /\ Accepted' => Accepted \/ UNCHANGED <<row, over, persisted>>
<1>1. CASE \E k \in Calls : SendAccepted(k)
  <2>1. PICK k \in Calls : SendAccepted(k)
    BY <1>1
  <2>2. send'[k].pc = "accepted"
    BY <2>1 DEF SendAccepted, SendIdle, QuorumInv, TypeOK, SendCall
  <2>3. QED BY <2>1, <2>2 DEF Accepted, SendAccepted
<1>2. CASE ~\E k \in Calls : SendAccepted(k)
  BY <1>2, AcceptedCalls DEF Accepted
<1>3. QED BY <1>1, <1>2

\* What the other servers have to hand out are their rows, until they expire.
LEMMA CopiesAreRows ==
  ASSUME QuorumInv
  PROVE  Copies = IF "send_time" \in over THEN {}
                  ELSE {p \in Peers \ {Home} : row[p] # None}
BY DEF Copies, Live, QuorumInv, RemoteSince

\* The same of the next state.
LEMMA CopiesAreRowsThen ==
  ASSUME QuorumInv'
  PROVE  Copies' = IF "send_time" \in over' THEN {}
                   ELSE {p \in Peers \ {Home} : row'[p] # None}
BY DEF Copies, Live, QuorumInv, RemoteSince

\* The quorum of an accepted message, in the next state.
LEMMA QuorumFollowsThen == QuorumInv' => AcceptedHasQuorum'
BY QuorumFollows, PTL

\* Every step is a step of the promise, or leaves it as it is.
LEMMA StepIsDurable ==
  ASSUME QuorumInv, QuorumInv', AcceptedIsHeld', [Next]_vars
  PROVE  [Durable!Next]_<<Copies, Status>>
<1>1. CASE UNCHANGED vars
  BY <1>1 DEF vars, Copies, Live, Status, Accepted
<1>2. CASE Next
  <2>1. PICK p \in Peers : /\ \A q \in Peers \ {p} : row'[q] = row[q]
                           /\ p = Home \/ row'[p] = row[p] \/ row'[p] # None \/ ~Fresh'
    BY <1>2, OneRowStep DEF QuorumInv
  <2>2. ASSUME \A q : q \in Copies <=> q \in Peers \ {Home} /\ row[q] # None,
               \A q : q \in Copies' <=> q \in Peers \ {Home} /\ row'[q] # None
        PROVE  /\ p = Home \/ row'[p] = row[p] => Copies' = Copies
               /\ p # Home /\ row'[p] # None => Copies' = Copies \cup {p}
               /\ p # Home /\ row'[p] = None => Copies' = Copies \ {p}
    <3>1. ASSUME p = Home \/ row'[p] = row[p] PROVE Copies' = Copies
      <4>1. \A q \in Peers \ {Home} : row'[q] = row[q]
        BY <2>1, <3>1
      <4>2. QED BY <2>2, <4>1
    <3>2. ASSUME p # Home /\ row'[p] # None PROVE Copies' = Copies \cup {p}
      <4>1. \A q : q \in Copies' <=> q \in Copies \cup {p}
        BY <2>1, <2>2, <3>2
      <4>2. QED BY <4>1
    <3>3. ASSUME p # Home /\ row'[p] = None PROVE Copies' = Copies \ {p}
      <4>1. \A q : q \in Copies' <=> q \in Copies \ {p}
        BY <2>1, <2>2, <3>3
      <4>2. QED BY <4>1
    <3>4. QED BY <3>1, <3>2, <3>3
  <2>3. /\ persisted => persisted'
        /\ "send_time" \in over => "send_time" \in over'
        /\ Fresh /\ ~Fresh' => row' = row
        /\ Accepted => Accepted'
        /\ Accepted' => Accepted \/ UNCHANGED <<row, over, persisted>>
    BY <1>2, StatusStep, AcceptStep
  <2>4. Copies \subseteq Peers \ {Home}
    BY DEF Copies
  <2>5. CASE Fresh /\ Fresh' /\ (Accepted' <=> Accepted)
    <3>1. Status' = Status
      BY <2>5 DEF Status, Fresh
    <3>2. Copies' = Copies \/ (p # Home /\ Copies' = Copies \cup {p})
      <4>1. /\ \A q : q \in Copies <=> q \in Peers \ {Home} /\ row[q] # None
            /\ \A q : q \in Copies' <=> q \in Peers \ {Home} /\ row'[q] # None
        BY <2>5, CopiesAreRows, CopiesAreRowsThen DEF Fresh
      <4>2. QED BY <2>1, <2>2, <2>5, <4>1
    <3>3. QED BY <3>1, <3>2 DEF Durable!Next, Durable!Store
  <2>6. CASE Fresh /\ Fresh' /\ Accepted' /\ ~Accepted
    <3>1. UNCHANGED <<row, over, persisted>> /\ Copies' = Copies
      BY <2>3, <2>6 DEF Copies, Live
    <3>2. Status = "sent" /\ Status' = "accepted"
      BY <2>6 DEF Status, Fresh
    <3>3. Copies \in {q \in SUBSET (Peers \ {Home}) : Cardinality(q) >= Quorum}
      <4>1. AcceptedHasQuorum' /\ holders' # {}
        BY <2>6, QuorumFollowsThen DEF AcceptedIsHeld
      <4>2. QED BY <2>4, <2>6, <3>1, <4>1 DEF AcceptedHasQuorum, Fresh
    <3>4. Durable!Accept
      BY <3>1, <3>2, <3>3 DEF Durable!Accept
    <3>5. QED BY <3>4 DEF Durable!Next
  <2>7. CASE Fresh /\ ~Fresh'
    <3>1. Copies' \subseteq Copies
      BY <2>3, <2>7, CopiesAreRows, CopiesAreRowsThen DEF Fresh
    <3>2. Status # "released" /\ Status' = "released"
      BY <2>7 DEF Status, Fresh
    <3>3. QED BY <3>1, <3>2 DEF Durable!Next, Durable!Release
  <2>8. CASE ~Fresh
    <3>1. Status = "released" /\ Status' = "released"
      BY <2>3, <2>8 DEF Status, Fresh
    <3>2. \/ Copies' = Copies
          \/ p # Home /\ Copies' = Copies \cup {p}
          \/ \E gone \in SUBSET (Peers \ {Home}) : Copies' = Copies \ gone
      <4>1. CASE "send_time" \in over'
        <5>1. Copies' = Copies \ Copies
          BY <4>1, CopiesAreRowsThen
        <5>2. QED BY <2>4, <5>1
      <4>2. CASE "send_time" \notin over'
        <5>1. /\ \A q : q \in Copies <=> q \in Peers \ {Home} /\ row[q] # None
              /\ \A q : q \in Copies' <=> q \in Peers \ {Home} /\ row'[q] # None
          BY <2>3, <4>2, CopiesAreRows, CopiesAreRowsThen
        <5>2. \/ Copies' = Copies
              \/ p # Home /\ Copies' = Copies \cup {p}
              \/ p # Home /\ Copies' = Copies \ {p}
          BY <2>1, <2>2, <5>1
        <5>3. CASE p # Home /\ Copies' = Copies \ {p}
          <6>1. {p} \in SUBSET (Peers \ {Home})
            BY <5>3
          <6>2. QED BY <5>3, <6>1
        <5>4. QED BY <5>2, <5>3
      <4>3. QED BY <4>1, <4>2
    <3>3. QED BY <3>1, <3>2 DEF Durable!Next, Durable!Store, Durable!Drop
  <2>9. QED BY <2>3, <2>5, <2>6, <2>7, <2>8
<1>3. QED BY <1>1, <1>2

\* The queue of a direct message, with its rollbacks, late requests, restarts and
\* syncs, is a message that is accepted only with a quorum of copies and loses
\* none of them before its recipient has reported it or it has expired.
THEOREM QueueIsDurable == Spec => KeepsCopies
<1>1. Init => Durable!Init
  <2> SUFFICES ASSUME Init PROVE Durable!Init
    OBVIOUS
  <2>1. Copies = {}
    BY DEF Init, Copies, Live
  <2>2. Status = "sent"
    BY DEF Init, Status, Accepted, SendIdle
  <2>3. QED BY <2>1, <2>2 DEF Durable!Init
<1>2. Init => AcceptedIsHeld
  BY DEF Init, AcceptedIsHeld, Accepted, SendIdle
<1>3. QuorumInv /\ AcceptedIsHeld /\ [Next]_vars => AcceptedIsHeld'
  BY AcceptedIsHeldStep
<1>4. QuorumInv /\ QuorumInv' /\ AcceptedIsHeld' /\ [Next]_vars
        => [Durable!Next]_<<Copies, Status>>
  BY StepIsDurable
<1>5. QED
  BY <1>1, <1>2, <1>3, <1>4, QuorumInvInductive, PTL DEF Spec, KeepsCopies, Durable!Spec
=============================================================================
