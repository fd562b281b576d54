---------------------------- MODULE PeerNetworkProofs ----------------------------
(***************************************************************************)
(* Proofs about the parts of PeerNetworkService: the gossip of deletes,    *)
(* the retries of deletes, the score reports, the peer directory and the   *)
(* selection of replicas.  They share no state, and neither do the         *)
(* sections of this module.                                                *)
(***************************************************************************)
EXTENDS DmDeleteGossip, DeleteRetryQueue, ServerScores, PeerDirectory, ReplicaSelection,
        FiniteSetTheorems, SequenceTheorems, TLAPS

-----------------------------------------------------------------------------
(* Delete gossip: GossipStaysOneHop, OnlyForwardsSuppress.                 *)

\* An event that is sent unforwarded goes to the publisher's audience; a server
\* forwards only what it has applied.
SentInAudience ==
  \A m \in wire :
    IF m.hop_count = 0 THEN m.to \in audience[m.event] ELSE m.from \in AppliedBy(m.event)

\* So it is with what is being handled, and only what was not forwarded verifies.
HandledInAudience ==
  \A h \in handlers :
    IF h.message.hop_count = 0
      THEN h.message.to \in audience[h.message.event]
      ELSE h.pc = "verify" /\ h.message.from \in AppliedBy(h.message.event)

\* Before it is published nobody knows of an event: its audience is yet to be fixed.
Unpublished ==
  \A e \in Events \ published :
    /\ \A m \in wire : m.event # e
    /\ \A h \in handlers : h.message.event # e
    /\ AppliedBy(e) = {}

\* What a server remembers, or has read from the publisher, is being handled there,
\* or its own delete failed, or it was applied somewhere.
SeenIsSettled ==
  \A p \in Peers, e \in Events :
    e \in seen[p] \/ p \in direct[e] =>
      \/ \E h \in handlers : h.message.to = p /\ h.message.event = e
      \/ AppliedBy(e) # {}
      \/ p \in failed[e]

GossipInv ==
  /\ GossipTypeOK
  /\ SentInAudience
  /\ HandledInAudience
  /\ Unpublished
  /\ SeenIsSettled
  /\ GossipStaysOneHop

\* What a broadcast sends.
LEMMA BroadcastSends ==
  ASSUME NEW p \in Peers, NEW m \in Message, NEW x,
         NEW n \in Broadcast(p, m, x)
  PROVE  /\ n \in Message /\ n.event = m.event /\ n.hop_count = m.hop_count
         /\ n.from = p /\ n.to \in ConnectedPeers(p)
<1>1. PICK q \in ConnectedPeers(p) : n = [m EXCEPT !.from = p, !.to = q]
  BY DEF Broadcast
<1>2. q \in Peers
  BY <1>1 DEF ConnectedPeers
<1>3. QED BY <1>1, <1>2 DEF Message

LEMMA GossipInitInv == GossipInit => GossipInv
<1> SUFFICES ASSUME GossipInit PROVE GossipInv
  OBVIOUS
<1> USE DEF GossipInit
<1>1. GossipTypeOK
  BY LinksAssumption, MovesAssumption DEF GossipTypeOK
<1>2. \A e \in Events : AppliedBy(e) = {}
  BY DEF AppliedBy
<1>3. /\ SentInAudience /\ HandledInAudience /\ Unpublished /\ SeenIsSettled
      /\ GossipStaysOneHop
  BY <1>2 DEF SentInAudience, HandledInAudience, Unpublished, SeenIsSettled, GossipStaysOneHop
<1>4. QED BY <1>1, <1>3 DEF GossipInv

LEMMA PublishKeepsInv ==
  ASSUME GossipInv, NEW e \in Events, Publish(e)
  PROVE  GossipInv'
<1> DEFINE own  == [event |-> e, hop_count |-> 0, from |-> Origin[e], to |-> Origin[e]]
           sent == Broadcast(Origin[e], own, Origin[e])
<1> USE DEF GossipInv
<1>1. Origin[e] \in Peers /\ own \in Message
  BY OriginAssumption, HopsAssumption DEF Message
<1>2. /\ e \notin published /\ published' = published \cup {e}
      /\ wire' = wire \cup sent
      /\ audience' = [audience EXCEPT ![e] = ConnectedPeers(Origin[e])]
      /\ UNCHANGED <<links, held, seen, handlers, direct, failed, moves>>
  BY DEF Publish
<1>3. /\ audience'[e] = ConnectedPeers(Origin[e])
      /\ \A d \in Events \ {e} : audience'[d] = audience[d]
      /\ ConnectedPeers(Origin[e]) \subseteq Peers
  BY <1>2 DEF GossipTypeOK, ConnectedPeers
<1>4. \A n \in sent : /\ n \in Message /\ n.event = e /\ n.hop_count = 0
                      /\ n.to \in audience'[e]
  BY <1>1, <1>3, BroadcastSends
<1>5. \A d \in Events : AppliedBy(d)' = AppliedBy(d)
  BY <1>2 DEF AppliedBy
<1>6. GossipTypeOK'
  BY <1>2, <1>3, <1>4 DEF GossipTypeOK
<1>7. SentInAudience'
  <2> SUFFICES ASSUME NEW m \in wire'
               PROVE  IF m.hop_count = 0 THEN m.to \in audience'[m.event]
                                         ELSE m.from \in AppliedBy(m.event)'
    BY DEF SentInAudience
  <2>1. CASE m \in wire
    BY <1>2, <1>3, <1>5, <2>1 DEF Unpublished, SentInAudience, GossipTypeOK, Message
  <2>2. CASE m \in sent
    BY <1>4, <2>2
  <2>3. QED BY <1>2, <2>1, <2>2
<1>8. HandledInAudience'
  BY <1>2, <1>3, <1>5 DEF Unpublished, HandledInAudience, GossipTypeOK, Handler, Message
<1>9. Unpublished'
  BY <1>2, <1>4, <1>5 DEF Unpublished
<1>10. SeenIsSettled'
  BY <1>2, <1>5 DEF SeenIsSettled
<1>11. GossipStaysOneHop'
  BY <1>2, <1>3, <1>5 DEF GossipStaysOneHop, Unpublished
<1>12. QED BY <1>6, <1>7, <1>8, <1>9, <1>10, <1>11

LEMMA ReceiveKeepsInv ==
  ASSUME GossipInv, NEW m \in wire, Receive(m)
  PROVE  GossipInv'
<1> DEFINE new == [message |-> m, pc |-> "verify"]
<1> USE DEF GossipInv
<1>1. m \in Message /\ m.to \in Peers /\ m.event \in Events /\ new \in Handler
  BY DEF GossipTypeOK, Message, Handler
<1>2. /\ wire' = wire \ {m}
      /\ UNCHANGED <<links, published, held, audience, failed, moves>>
  BY DEF Receive
<1>3. direct' \in [Events -> SUBSET Peers]
  BY <1>1 DEF Receive, GossipTypeOK
<1>4. \A p \in Peers, d \in Events : p \in direct'[d] =>
        p \in direct[d] \/ (p = m.to /\ d = m.event)
  BY <1>1 DEF Receive, GossipTypeOK
<1>5. \/ m.event \in seen[m.to] /\ UNCHANGED <<seen, handlers>>
      \/ /\ handlers' = handlers \cup {new}
         /\ seen' = [seen EXCEPT ![m.to] = @ \cup {m.event}]
  BY DEF Receive
<1>6. seen' \in [Peers -> SUBSET Events] /\ handlers' \subseteq Handler
      /\ handlers \subseteq handlers' /\ handlers' \subseteq handlers \cup {new}
  BY <1>1, <1>5 DEF GossipTypeOK
<1>7. \A d \in Events : AppliedBy(d)' = AppliedBy(d)
  BY <1>2 DEF AppliedBy
<1>8. GossipTypeOK'
  BY <1>2, <1>3, <1>6 DEF GossipTypeOK
<1>9. SentInAudience'
  BY <1>2, <1>7 DEF SentInAudience, GossipTypeOK, Message
<1>10. HandledInAudience'
  BY <1>1, <1>2, <1>6, <1>7 DEF SentInAudience, HandledInAudience, GossipTypeOK, Handler, Message
<1>11. Unpublished'
  BY <1>1, <1>2, <1>6, <1>7 DEF Unpublished
<1>12. SeenIsSettled'
  <2> SUFFICES ASSUME NEW p \in Peers, NEW d \in Events, d \in seen'[p] \/ p \in direct'[d]
               PROVE  \/ \E h \in handlers' : h.message.to = p /\ h.message.event = d
                      \/ AppliedBy(d) # {}
                      \/ p \in failed[d]
    BY <1>2, <1>7 DEF SeenIsSettled
  <2>1. CASE d \in seen[p] \/ p \in direct[d]
    BY <1>6, <2>1 DEF SeenIsSettled
  <2>2. CASE d \notin seen[p] /\ p = m.to /\ d = m.event
    <3>1. handlers' = handlers \cup {new}
      BY <1>5, <2>2
    <3>2. new \in handlers' /\ new.message.to = p /\ new.message.event = d
      BY <2>2, <3>1
    <3>3. QED BY <3>2
  <2>3. d \in seen'[p] => d \in seen[p] \/ (p = m.to /\ d = m.event)
    BY <1>1, <1>5 DEF GossipTypeOK
  <2>4. QED BY <1>4, <2>1, <2>2, <2>3
<1>13. GossipStaysOneHop'
  BY <1>2, <1>7 DEF GossipStaysOneHop
<1>14. QED BY <1>8, <1>9, <1>10, <1>11, <1>12, <1>13

\* A signature that verifies is of an event that was not forwarded.
LEMMA OnlyUnforwardedVerify ==
  ASSUME NEW m, HasValidSignature(m)
  PROVE  m.hop_count = 0
BY DEF HasValidSignature, SignedHash, EventHash

LEMMA VerifiedKeepsInv ==
  ASSUME GossipInv, NEW h \in handlers, Verified(h)
  PROVE  GossipInv'
<1> DEFINE next == [h EXCEPT !.pc = "delete"]
<1> USE DEF GossipInv
<1>1. /\ h \in Handler /\ next \in Handler /\ next.message = h.message
      /\ h.message \in Message
  BY DEF GossipTypeOK, Handler
<1>2. UNCHANGED <<links, published, held, wire, seen, audience, direct, failed, moves>>
  BY DEF Verified
<1>3. \/ handlers' = (handlers \ {h}) \cup {next} /\ h.message.hop_count = 0
      \/ handlers' = handlers \ {h} /\ h.message.hop_count # 0
  BY OnlyUnforwardedVerify DEF Verified, HasValidSignature, SignedHash
<1>4. \A d \in Events : AppliedBy(d)' = AppliedBy(d)
  BY <1>2 DEF AppliedBy
<1>5. GossipTypeOK'
  BY <1>1, <1>2, <1>3 DEF GossipTypeOK
<1>6. SentInAudience'
  BY <1>2, <1>4 DEF SentInAudience, GossipTypeOK, Message
<1>7. HandledInAudience'
  BY <1>1, <1>2, <1>3, <1>4 DEF HandledInAudience, GossipTypeOK, Handler, Message
<1>8. Unpublished'
  BY <1>1, <1>2, <1>3, <1>4 DEF Unpublished
<1>9. SeenIsSettled'
  <2> SUFFICES ASSUME NEW p \in Peers, NEW d \in Events, d \in seen[p] \/ p \in direct[d]
               PROVE  \/ \E g \in handlers' : g.message.to = p /\ g.message.event = d
                      \/ AppliedBy(d) # {}
                      \/ p \in failed[d]
    BY <1>2, <1>4 DEF SeenIsSettled
  <2>1. CASE AppliedBy(d) # {}
    BY <2>1
  <2>2. ASSUME NEW g \in handlers, g.message.to = p, g.message.event = d, g # h
        PROVE  \E f \in handlers' : f.message.to = p /\ f.message.event = d
    BY <1>3, <2>2
  <2>3. ASSUME h.message.to = p, h.message.event = d, h.message.hop_count = 0
        PROVE  \E f \in handlers' : f.message.to = p /\ f.message.event = d
    BY <1>1, <1>3, <2>3
  <2>4. ASSUME h.message.event = d, h.message.hop_count # 0
        PROVE  AppliedBy(d) # {}
    BY <2>4 DEF HandledInAudience
  <2>5. QED BY <2>1, <2>2, <2>3, <2>4 DEF SeenIsSettled
<1>10. GossipStaysOneHop'
  BY <1>2, <1>4 DEF GossipStaysOneHop
<1>11. QED BY <1>5, <1>6, <1>7, <1>8, <1>9, <1>10

LEMMA AppliedKeepsInv ==
  ASSUME GossipInv, NEW h \in handlers, Applied(h)
  PROVE  GossipInv'
<1> DEFINE m    == h.message
           sent == IF CanForward(m) THEN Broadcast(m.to, Forwarded(m), m.from) ELSE {}
<1> USE DEF GossipInv
<1>1. /\ h \in Handler /\ m \in Message /\ m.to \in Peers /\ m.event \in Events
      /\ m.hop_count \in 0..MaxHops
  BY DEF GossipTypeOK, Handler, Message
<1>2. /\ handlers' = handlers \ {h}
      /\ held' = [held EXCEPT ![m.to] = @ \ {m.event}]
      /\ wire' = wire \cup sent
      /\ UNCHANGED <<links, published, seen, audience, direct, failed, moves>>
      /\ h.pc = "delete"
  BY DEF Applied
<1>3. m.to \in audience[m.event]
  BY <1>2 DEF HandledInAudience
<1>4. /\ AppliedBy(m.event)' = AppliedBy(m.event) \cup {m.to}
      /\ \A d \in Events \ {m.event} : AppliedBy(d)' = AppliedBy(d)
  BY <1>1, <1>2 DEF AppliedBy, GossipTypeOK
<1>5. \A n \in sent : /\ n \in Message /\ n.event = m.event /\ n.hop_count = m.hop_count + 1
                      /\ n.from = m.to
  <2> SUFFICES ASSUME NEW n \in sent
               PROVE  /\ n \in Message /\ n.event = m.event /\ n.hop_count = m.hop_count + 1
                      /\ n.from = m.to
    OBVIOUS
  <2>1. n \in Broadcast(m.to, Forwarded(m), m.from) /\ m.hop_count < MaxHops
    BY DEF CanForward
  <2>2. /\ Forwarded(m) \in Message /\ Forwarded(m).event = m.event
        /\ Forwarded(m).hop_count = m.hop_count + 1
    BY <1>1, <2>1, HopsAssumption DEF Forwarded, Message
  <2>3. QED BY <1>1, <2>1, <2>2, BroadcastSends
<1>6. GossipTypeOK'
  BY <1>1, <1>2, <1>5 DEF GossipTypeOK
<1>7. SentInAudience'
  <2> SUFFICES ASSUME NEW n \in wire'
               PROVE  IF n.hop_count = 0 THEN n.to \in audience[n.event]
                                         ELSE n.from \in AppliedBy(n.event)'
    BY <1>2 DEF SentInAudience
  <2>1. CASE n \in wire
    BY <1>4, <2>1 DEF SentInAudience, GossipTypeOK, Message
  <2>2. CASE n \in sent
    BY <1>1, <1>4, <1>5, <2>2
  <2>3. QED BY <1>2, <2>1, <2>2
<1>8. HandledInAudience'
  BY <1>2, <1>4 DEF HandledInAudience, GossipTypeOK, Handler, Message
<1>9. Unpublished'
  <2>1. m.event \in published
    BY <1>1 DEF Unpublished
  <2>2. QED BY <1>2, <1>4, <1>5, <2>1 DEF Unpublished
<1>10. SeenIsSettled'
  BY <1>1, <1>2, <1>4 DEF SeenIsSettled
<1>11. GossipStaysOneHop'
  BY <1>2, <1>3, <1>4 DEF GossipStaysOneHop
<1>12. QED BY <1>6, <1>7, <1>8, <1>9, <1>10, <1>11

\* Messages that are lost, connections that move, events that are forgotten: less
\* is on its way and less is remembered.
LEMMA LossKeepsInv ==
  ASSUME GossipInv, wire' \subseteq wire,
         GossipTypeOK', \A p \in Peers : seen'[p] \subseteq seen[p],
         UNCHANGED <<published, held, handlers, audience, direct, failed>>
  PROVE  GossipInv'
<1> USE DEF GossipInv
<1>1. \A d \in Events : AppliedBy(d)' = AppliedBy(d)
  BY DEF AppliedBy
<1>2. SentInAudience'
  BY <1>1 DEF SentInAudience, GossipTypeOK, Message
<1>3. HandledInAudience'
  BY <1>1 DEF HandledInAudience, GossipTypeOK, Handler, Message
<1>4. Unpublished' /\ SeenIsSettled' /\ GossipStaysOneHop'
  BY <1>1 DEF Unpublished, SeenIsSettled, GossipStaysOneHop
<1>5. QED BY <1>2, <1>3, <1>4

\* A delete that fails: the handler ends, the event stays remembered.
LEMMA ApplyFailsKeepsInv ==
  ASSUME GossipInv, NEW h \in handlers, ApplyFails(h)
  PROVE  GossipInv'
<1> USE DEF GossipInv
<1>1. /\ h \in Handler /\ h.message.to \in Peers /\ h.message.event \in Events
  BY DEF GossipTypeOK, Handler, Message
<1>2. /\ handlers' = handlers \ {h}
      /\ failed' = [failed EXCEPT ![h.message.event] = @ \cup {h.message.to}]
      /\ UNCHANGED <<links, published, held, wire, seen, audience, direct, moves>>
  BY DEF ApplyFails
<1>3. GossipTypeOK'
  BY <1>1, <1>2 DEF GossipTypeOK
<1>4. \A d \in Events : AppliedBy(d)' = AppliedBy(d)
  BY <1>2 DEF AppliedBy
<1>5. SentInAudience'
  BY <1>2, <1>4 DEF SentInAudience, GossipTypeOK, Message
<1>6. HandledInAudience' /\ Unpublished'
  BY <1>2, <1>4 DEF HandledInAudience, Unpublished, GossipTypeOK, Handler, Message
<1>7. SeenIsSettled'
  BY <1>1, <1>2, <1>4 DEF SeenIsSettled, GossipTypeOK
<1>8. GossipStaysOneHop'
  BY <1>2, <1>4 DEF GossipStaysOneHop
<1>9. QED BY <1>3, <1>5, <1>6, <1>7, <1>8

LEMMA GossipNextInv == GossipInv /\ [GossipNext]_gossipVars => GossipInv'
<1> SUFFICES ASSUME GossipInv, [GossipNext]_gossipVars PROVE GossipInv'
  OBVIOUS
<1>0. GossipTypeOK
  BY DEF GossipInv
<1>1. ASSUME NEW m \in wire, Lost(m) PROVE GossipInv'
  <2>1. GossipTypeOK'
    BY <1>0, <1>1 DEF Lost, GossipTypeOK
  <2>2. QED BY <1>1, <2>1, LossKeepsInv DEF Lost
<1>2. ASSUME NEW p \in Peers, NEW e \in Events, SeenExpires(p, e) PROVE GossipInv'
  <2>1. GossipTypeOK' /\ \A q \in Peers : seen'[q] \subseteq seen[q]
    BY <1>0, <1>2 DEF SeenExpires, GossipTypeOK
  <2>2. QED BY <1>2, <2>1, LossKeepsInv DEF SeenExpires
<1>3. ASSUME NEW p \in Peers, NEW q \in Peers, LinkMoves({p, q}) PROVE GossipInv'
  <2>1. wire' \subseteq wire /\ UNCHANGED <<published, held, seen, handlers, audience, direct, failed>>
    BY <1>3 DEF LinkMoves
  <2>2. links' \subseteq {{x, y} : x, y \in Peers} /\ moves' \in 0..MaxMoves
    BY <1>0, <1>3, MovesAssumption DEF LinkMoves, GossipTypeOK
  <2>3. GossipTypeOK'
    BY <1>0, <2>1, <2>2 DEF GossipTypeOK
  <2>4. QED BY <2>1, <2>3, LossKeepsInv
<1>4. CASE UNCHANGED gossipVars
  <2>1. GossipTypeOK'
    BY <1>0, <1>4 DEF gossipVars, GossipTypeOK
  <2>2. QED BY <1>4, <2>1, LossKeepsInv DEF gossipVars
<1>5. QED
  BY <1>1, <1>2, <1>3, <1>4, PublishKeepsInv, ReceiveKeepsInv, VerifiedKeepsInv,
     AppliedKeepsInv, ApplyFailsKeepsInv DEF GossipNext, GossipStep

\* An event is applied by peers its publisher was connected to and by nobody else,
\* for any number of servers and connections, and any max_hops.
THEOREM GossipIsOneHop == GossipSpec => []GossipStaysOneHop
<1>1. GossipInv => GossipStaysOneHop
  BY DEF GossipInv
<1>2. QED BY <1>1, GossipInitInv, GossipNextInv, PTL DEF GossipSpec

\* What a server read from the publisher and did not apply, although its database did
\* not fail, was kept from it by a copy of a server that had applied it.
THEOREM OnlyAppliedSuppress == GossipSpec => []OnlyForwardsSuppress
<1>1. GossipInv => OnlyForwardsSuppress
  <2> SUFFICES ASSUME GossipInv, NEW e \in Events, NEW p \in Peers,
                      p \in direct[e], p \notin AppliedBy(e), p \notin failed[e],
                      ~\E h \in handlers : h.message.to = p /\ h.message.event = e
               PROVE  AppliedBy(e) \ {p} # {}
    BY DEF OnlyForwardsSuppress
  <2>1. AppliedBy(e) # {}
    BY DEF GossipInv, SeenIsSettled
  <2>2. QED BY <2>1
<1>2. QED BY <1>1, GossipInitInv, GossipNextInv, PTL DEF GossipSpec

-----------------------------------------------------------------------------
(* Retries of deletes: GivenUpAfterRetries.                                *)

Attempts == 0..(DeleteRetries - 1)

\* The counters; which passes an entry is early for says nothing about them.
CountersTypeOK ==
  /\ DOMAIN entries = Keys
  /\ \A k \in Keys : entries[k] \in [attempts: Attempts, early: {entries[k].early}, wait: 0..2]
  /\ item     \in [Passes -> {NoItem} \cup (Keys \X Attempts)]
  /\ failures \in [Keys -> 0..DeleteRetries]

\* Neither the entry nor a pass that asks for it counts more attempts than have
\* failed since the key was enqueued, unless that was while a pass asked for it.
CountsAreFailures ==
  \A k \in Keys \ crossed :
    /\ entries[k].attempts <= failures[k]
    /\ \A s \in Passes : item[s] # NoItem /\ item[s][1] = k => item[s][2] <= failures[k]

RetryInv ==
  /\ CountersTypeOK
  /\ CountsAreFailures
  /\ GivenUpAfterRetries

\* The bound on the attempts, as arithmetic.
LEMMA AttemptsAreNumbers ==
  /\ DeleteRetries \in Nat /\ 0 \in Attempts /\ 0 \in 0..DeleteRetries
  /\ \A n \in Attempts : n \in Nat /\ n < DeleteRetries
  /\ \A n \in Nat : n < DeleteRetries => n \in Attempts
BY RetriesAssumption DEF Attempts

\* An item is a key and a number, and is not no item.
LEMMA ItemIsPair ==
  ASSUME CountersTypeOK, NEW s \in Passes, item[s] # NoItem
  PROVE  item[s] \in Keys \X Attempts /\ item[s][1] \in Keys /\ item[s][2] \in Attempts
<1>1. item[s] \in Keys \X Attempts
  BY DEF CountersTypeOK
<1>2. QED BY <1>1

LEMMA RetryInitInv == RetryInit => RetryInv
<1> SUFFICES ASSUME RetryInit PROVE RetryInv
  OBVIOUS
<1>1. CountersTypeOK
  BY AttemptsAreNumbers DEF RetryInit, CountersTypeOK, NoEntry
<1>2. CountsAreFailures
  BY DEF RetryInit, CountsAreFailures, NoEntry
<1>3. QED BY <1>1, <1>2 DEF RetryInv, RetryInit, GivenUpAfterRetries

\* The key starts afresh.
LEMMA EnqueueKeepsInv ==
  ASSUME RetryInv, NEW k \in Keys, Enqueue(k)
  PROVE  RetryInv'
<1> USE DEF RetryInv
<1>1. /\ entries' = [entries EXCEPT ![k] = [attempts |-> 0, early |-> Running, wait |-> 1]]
      /\ failures' = [failures EXCEPT ![k] = 0]
      /\ crossed \subseteq crossed'
      /\ (\E s \in Passes : item[s] # NoItem /\ item[s][1] = k) => k \in crossed'
      /\ UNCHANGED <<item, hasty>>
  BY DEF Enqueue, Set
<1>2. CountersTypeOK'
  BY <1>1, AttemptsAreNumbers DEF CountersTypeOK
<1>3. CountsAreFailures'
  <2> SUFFICES ASSUME NEW d \in Keys \ crossed'
               PROVE  /\ entries'[d].attempts <= failures'[d]
                      /\ \A s \in Passes :
                           item[s] # NoItem /\ item[s][1] = d => item[s][2] <= failures'[d]
    BY <1>1 DEF CountsAreFailures
  <2>1. CASE d = k
    BY <1>1, <2>1 DEF CountersTypeOK
  <2>2. CASE d # k
    BY <1>1, <2>2 DEF CountersTypeOK, CountsAreFailures
  <2>3. QED BY <2>1, <2>2
<1>4. GivenUpAfterRetries'
  BY <1>1 DEF GivenUpAfterRetries
<1>5. QED BY <1>2, <1>3, <1>4

\* An entry that is made early for one more pass.
LEMMA EntryOfLaterPass ==
  ASSUME NEW A, NEW W, NEW f, NEW s, NEW e \in [attempts: A, early: {f}, wait: W], 0 \in W
  PROVE  /\ [e EXCEPT !.early = @ \cup {s}, !.wait = 0] \in
              [attempts: A, early: {f \cup {s}}, wait: W]
         /\ [e EXCEPT !.early = @ \cup {s}, !.wait = 0].attempts = e.attempts
OBVIOUS

\* A pass starts or ends: what entries are due changes, the counters do not.
LEMMA PassKeepsInv ==
  ASSUME RetryInv, NEW s \in Passes, PassStarts(s) \/ PassEnds(s)
  PROVE  RetryInv'
<1> USE DEF RetryInv
<1>1. UNCHANGED <<item, failures, crossed, hasty>>
  BY DEF PassStarts, PassEnds
<1>2. /\ DOMAIN entries' = Keys
      /\ \A k \in Keys :
           \/ entries'[k] = [entries[k] EXCEPT !.early = @ \cup {s}, !.wait = 0]
           \/ entries'[k] = [entries[k] EXCEPT !.early = @ \ {s}]
  BY DEF PassStarts, PassEnds
<1>3. \A k \in Keys :
        /\ entries'[k].attempts = entries[k].attempts
        /\ entries'[k] \in [attempts: Attempts, early: {entries'[k].early}, wait: 0..2]
  <2> SUFFICES ASSUME NEW k \in Keys
               PROVE  /\ entries'[k].attempts = entries[k].attempts
                      /\ entries'[k] \in [attempts: Attempts, early: {entries'[k].early},
                                          wait: 0..2]
    OBVIOUS
  <2>1. entries[k] \in [attempts: Attempts, early: {entries[k].early}, wait: 0..2]
    BY DEF CountersTypeOK
  <2>2. CASE entries'[k] = [entries[k] EXCEPT !.early = @ \cup {s}, !.wait = 0]
    <3>1. /\ entries'[k] \in [attempts: Attempts, early: {entries[k].early \cup {s}}, wait: 0..2]
          /\ entries'[k].attempts = entries[k].attempts
      BY <2>1, <2>2, 0 \in 0..2, EntryOfLaterPass
    <3>2. entries'[k] \in [attempts: Attempts, early: {entries'[k].early}, wait: 0..2]
      BY <3>1
    <3>3. QED BY <3>1, <3>2
  <2>3. CASE entries'[k] = [entries[k] EXCEPT !.early = @ \ {s}]
    BY <2>1, <2>3
  <2>4. QED BY <1>2, <2>2, <2>3
<1>4. CountersTypeOK' /\ CountsAreFailures' /\ GivenUpAfterRetries'
  BY <1>1, <1>2, <1>3 DEF CountersTypeOK, CountsAreFailures, GivenUpAfterRetries
<1>5. QED BY <1>4

\* A pass reads the attempts that the entry has.
LEMMA AsksKeepsInv ==
  ASSUME RetryInv, NEW s \in Passes, NEW k \in Keys, Asks(s, k)
  PROVE  RetryInv'
<1> USE DEF RetryInv
<1>1. /\ item' = [item EXCEPT ![s] = <<k, entries[k].attempts>>]
      /\ UNCHANGED <<entries, failures, crossed, hasty>>
  BY DEF Asks
<1>2. <<k, entries[k].attempts>> \in Keys \X Attempts
  BY DEF CountersTypeOK
<1>3. CountersTypeOK'
  BY <1>1, <1>2 DEF CountersTypeOK
<1>4. CountsAreFailures'
  BY <1>1, <1>2 DEF CountersTypeOK, CountsAreFailures
<1>5. GivenUpAfterRetries'
  BY <1>1 DEF GivenUpAfterRetries
<1>6. QED BY <1>3, <1>4, <1>5

LEMMA AcknowledgedKeepsInv ==
  ASSUME RetryInv, NEW s \in Passes, Acknowledged(s)
  PROVE  RetryInv'
<1> USE DEF RetryInv
<1> DEFINE k == item[s][1]
<1>1. /\ item[s] # NoItem /\ item' = [item EXCEPT ![s] = NoItem]
      /\ entries' = [entries EXCEPT ![k] = NoEntry]
      /\ UNCHANGED <<failures, crossed, hasty>>
  BY DEF Acknowledged, Forget
<1>2. k \in Keys
  BY <1>1, ItemIsPair
<1>3. CountersTypeOK'
  BY <1>1, <1>2, AttemptsAreNumbers DEF CountersTypeOK, NoEntry
<1>4. \A d \in Keys : entries'[d].attempts \in {0, entries[d].attempts} /\ failures[d] \in Nat
  BY <1>1, <1>2, AttemptsAreNumbers DEF CountersTypeOK, NoEntry
<1>5. \A r \in Passes : item'[r] # NoItem => item'[r] = item[r]
  BY <1>1 DEF CountersTypeOK
<1>6. CountsAreFailures'
  BY <1>1, <1>4, <1>5 DEF CountsAreFailures
<1>7. GivenUpAfterRetries'
  BY <1>1 DEF GivenUpAfterRetries
<1>8. QED BY <1>3, <1>6, <1>7

\* A request fails: the pass that gives up has counted no more than failed.
LEMMA NotAcknowledgedKeepsInv ==
  ASSUME RetryInv, NEW s \in Passes, NotAcknowledged(s)
  PROVE  RetryInv'
<1> USE DEF RetryInv
<1> DEFINE k    == item[s][1]
           next == item[s][2] + 1
<1>1. /\ item[s] # NoItem /\ item' = [item EXCEPT ![s] = NoItem]
      /\ failures' = [failures EXCEPT ![k] = IF @ = DeleteRetries THEN @ ELSE @ + 1]
      /\ UNCHANGED crossed
  BY DEF NotAcknowledged
<1>2. k \in Keys /\ item[s][2] \in Attempts /\ next \in Nat
  BY <1>1, ItemIsPair, AttemptsAreNumbers
<1>3. /\ \A d \in Keys : failures[d] \in Nat /\ failures[d] <= DeleteRetries
      /\ failures'[k] = IF failures[k] = DeleteRetries THEN failures[k] ELSE failures[k] + 1
      /\ \A d \in Keys \ {k} : failures'[d] = failures[d]
  BY <1>1, <1>2, AttemptsAreNumbers DEF CountersTypeOK
<1>4. failures' \in [Keys -> 0..DeleteRetries]
  BY <1>1, <1>2, <1>3, AttemptsAreNumbers DEF CountersTypeOK
<1>5. k \notin crossed => item[s][2] <= failures[k]
  BY <1>1, <1>2 DEF CountsAreFailures
<1>6. k \notin crossed /\ next < DeleteRetries => next <= failures'[k]
  BY <1>2, <1>3, <1>5, AttemptsAreNumbers
<1>7. k \notin crossed /\ next >= DeleteRetries => failures'[k] = DeleteRetries
  BY <1>2, <1>3, <1>5, AttemptsAreNumbers
<1>8. \/ /\ next >= DeleteRetries
         /\ entries' = [entries EXCEPT ![k] = NoEntry]
         /\ hasty' = IF failures'[k] < DeleteRetries THEN hasty \cup {k} ELSE hasty
      \/ /\ next < DeleteRetries /\ hasty' = hasty
         /\ entries' = [entries EXCEPT ![k] = [attempts |-> next, early |-> NoLaterThan(s),
                                               wait |-> 0]]
  BY <1>2, AttemptsAreNumbers DEF NotAcknowledged, GivesUp, NextAttempts, Forget, Set
<1>9. item' \in [Passes -> {NoItem} \cup (Keys \X Attempts)]
  BY <1>1 DEF CountersTypeOK
<1>10. \A r \in Passes : item'[r] # NoItem => item'[r] = item[r]
  BY <1>1 DEF CountersTypeOK
<1>11. \A d \in Keys : failures[d] <= failures'[d] /\ failures'[d] \in Nat
  BY <1>3
<1>12. \A r \in Passes : item[r] # NoItem => item[r][2] \in Nat
  BY ItemIsPair, AttemptsAreNumbers
<1>13. CASE next >= DeleteRetries
  <2>1. /\ entries' = [entries EXCEPT ![k] = NoEntry]
        /\ hasty' = IF failures'[k] < DeleteRetries THEN hasty \cup {k} ELSE hasty
    BY <1>2, <1>8, <1>13, AttemptsAreNumbers
  <2>2. CountersTypeOK'
    BY <1>4, <1>9, <1>2, <2>1, AttemptsAreNumbers DEF CountersTypeOK, NoEntry
  <2>3. \A d \in Keys : entries'[d].attempts \in {0, entries[d].attempts}
                        /\ entries[d].attempts \in Nat
    BY <1>2, <2>1, AttemptsAreNumbers DEF CountersTypeOK, NoEntry
  <2>4. CountsAreFailures'
    BY <1>1, <1>3, <1>10, <1>11, <1>12, <2>3 DEF CountsAreFailures
  <2>5. GivenUpAfterRetries'
    BY <1>1, <1>7, <1>13, <2>1, AttemptsAreNumbers DEF GivenUpAfterRetries
  <2>6. QED BY <2>2, <2>4, <2>5
<1>14. CASE next < DeleteRetries
  <2>1. /\ entries' = [entries EXCEPT ![k] = [attempts |-> next, early |-> NoLaterThan(s),
                                              wait |-> 0]]
        /\ hasty' = hasty
    BY <1>2, <1>8, <1>14, AttemptsAreNumbers
  <2>2. next \in Attempts
    BY <1>2, <1>14, AttemptsAreNumbers
  <2>3. CountersTypeOK'
    BY <1>4, <1>9, <1>2, <2>1, <2>2 DEF CountersTypeOK
  <2>4. /\ entries'[k].attempts = next
        /\ \A d \in Keys \ {k} : entries'[d].attempts = entries[d].attempts
        /\ \A d \in Keys : entries[d].attempts \in Nat
    BY <1>2, <2>1, AttemptsAreNumbers DEF CountersTypeOK
  <2>5. CountsAreFailures'
    BY <1>1, <1>3, <1>6, <1>10, <1>11, <1>12, <1>14, <2>4 DEF CountsAreFailures
  <2>6. GivenUpAfterRetries'
    BY <1>1, <2>1 DEF GivenUpAfterRetries
  <2>7. QED BY <2>3, <2>5, <2>6
<1>15. QED BY <1>2, <1>13, <1>14, AttemptsAreNumbers

\* However many passes of the timer overlap, and whatever delete_max_retries is: a
\* key that is given up early was enqueued while an older request was out.
THEOREM RetriesAreCounted == RetrySpec => []GivenUpAfterRetries
<1>1. RetryInv /\ [RetryNext]_retryVars => RetryInv'
  <2> SUFFICES ASSUME RetryInv, [RetryNext]_retryVars PROVE RetryInv'
    OBVIOUS
  <2>1. CASE UNCHANGED retryVars
    BY <2>1 DEF retryVars, RetryInv, CountersTypeOK, CountsAreFailures, GivenUpAfterRetries
  <2>2. CASE RetryNext
    BY <2>2, EnqueueKeepsInv, PassKeepsInv, AsksKeepsInv, AcknowledgedKeepsInv,
       NotAcknowledgedKeepsInv DEF RetryNext, PassGoesOn, Settles
  <2>3. QED BY <2>1, <2>2
<1>2. RetryInv => GivenUpAfterRetries
  BY DEF RetryInv
<1>3. QED BY <1>1, <1>2, RetryInitInv, PTL DEF RetrySpec

-----------------------------------------------------------------------------
(* Score reports: NewestKept, AggregateIsCurrent.                          *)

\* Before a call reads the reports, its own is among them, or a newer one of the
\* same reporter, or it has expired.
TrimsHold ==
  \A p \in persists : p.pc = "trim" /\ Live(p.report) =>
    p.report \in reports[p.at] \/ \E q \in reports[p.at] : Newer(q, p.report)

IsCurrent(votes, s) == votes = Votes(reports[s])

Pending(s, pc) == {p \in persists : p.at = s /\ p.pc = pc}

\* When nobody is between its upsert and its read, the last to read has still to
\* write and is current, or every write to come was overtaken, by a write or by a table
\* sync, and the aggregate is current already or known not to be.
LastReadIsCurrent ==
  \A s \in Servers : Pending(s, "trim") = {} =>
    \/ \E p \in Pending(s, "write") : IsCurrent(p.votes, s)
    \/ /\ \A p \in Pending(s, "write") : p.late
       /\ s \notin outdated => IsCurrent(aggregate[s], s)

ScoresInv ==
  /\ ScoresTypeOK
  /\ TrimsHold
  /\ LastReadIsCurrent

LEMMA AgesAreNumbers ==
  /\ Ttl \in Nat /\ Ttl > 0 /\ MaxAge \in Nat
  /\ \A r \in Report : r.age \in Nat /\ r.age <= Ttl
BY AgesAssumption DEF Report

\* Votes are reports.
LEMMA VotesAreRows ==
  ASSUME NEW rows
  PROVE  Votes(rows) \subseteq rows
BY DEF Votes

\* A report that grows older.
Older(r) == [r EXCEPT !.age = IF @ < Ttl THEN @ + 1 ELSE @]

LEMMA OlderReport ==
  ASSUME NEW r \in Report
  PROVE  /\ Older(r) \in Report /\ Older(r).reporter = r.reporter
         /\ Older(r).age = IF r.age < Ttl THEN r.age + 1 ELSE r.age
<1>1. (IF r.age < Ttl THEN r.age + 1 ELSE r.age) \in 0..Ttl
  BY AgesAreNumbers
<1>2. QED BY <1>1 DEF Older, Report

LEMMA AgedRows ==
  ASSUME NEW rows \in SUBSET Report
  PROVE  /\ Aged(rows) = {Older(r) : r \in rows}
         /\ Aged(rows) \subseteq Report
BY OlderReport DEF Aged, Older

\* Time keeps the order of two reports of one reporter that have not expired, and
\* makes none fresh.
LEMMA TimeKeepsOrder ==
  ASSUME NEW r \in Report, NEW q \in Report
  PROVE  /\ Live(Older(r)) /\ Newer(q, r) => Newer(Older(q), Older(r))
         /\ Newer(Older(q), Older(r)) => Newer(q, r)
         /\ Live(Older(r)) => Live(r)
         /\ Fresh(Older(r)) => Fresh(r)
BY OlderReport, AgesAreNumbers DEF Live, Newer, Fresh

\* The votes of older rows are the older votes that are still fresh.
LEMMA TimeKeepsVotes ==
  ASSUME NEW rows \in SUBSET Report, NEW votes \in SUBSET Report,
         votes = Votes(rows)
  PROVE  Faded(votes) = Votes(Aged(rows))
<1>1. /\ Aged(rows) = {Older(r) : r \in rows}
      /\ Aged(votes) = {Older(r) : r \in votes}
  BY AgedRows
<1>2. ASSUME NEW r \in votes, Fresh(Older(r)) PROVE Older(r) \in Votes(Aged(rows))
  <2>1. Fresh(r) /\ r \in Report /\ Live(Older(r))
    BY <1>2, TimeKeepsOrder DEF Fresh
  <2>2. r \in rows /\ ~\E q \in rows : Newer(q, r)
    BY <2>1 DEF Votes
  <2>3. ~\E q \in Aged(rows) : Newer(q, Older(r))
    BY <1>1, <2>1, <2>2, TimeKeepsOrder
  <2>4. QED BY <1>1, <1>2, <2>2, <2>3 DEF Votes
<1>3. ASSUME NEW r \in rows, Older(r) \in Votes(Aged(rows)) PROVE Older(r) \in Aged(votes)
  <2>1. Fresh(Older(r)) /\ Fresh(r) /\ r \in Report /\ Live(Older(r))
    BY <1>3, TimeKeepsOrder DEF Votes, Fresh
  <2>2. ~\E q \in rows : Newer(q, r)
    <3> SUFFICES ASSUME NEW q \in rows, Newer(q, r) PROVE FALSE
      OBVIOUS
    <3>1. Newer(Older(q), Older(r)) /\ Older(q) \in Aged(rows)
      BY <1>1, <2>1, TimeKeepsOrder
    <3>2. QED BY <1>3, <3>1 DEF Votes
  <2>3. r \in votes
    BY <2>1, <2>2 DEF Votes
  <2>4. QED BY <1>1, <2>3
<1>4. \A x \in Votes(Aged(rows)) : Fresh(x) /\ x \in Aged(rows)
  BY DEF Votes
<1>5. QED BY <1>1, <1>2, <1>3, <1>4 DEF Faded

-----------------------------------------------------------------------------
\* What is sent, and what a call that goes on is.
LEMMA PersistsAreTyped ==
  ASSUME ScoresTypeOK
  PROVE  /\ \A s \in Servers, r \in Report, own \in BOOLEAN : NewPersist(s, r, own) \in Persist
         /\ \A p \in persists : p \in Persist /\ p.at \in Servers /\ p.report \in Report
                                /\ p.votes \in SUBSET Report
         /\ \A p \in persists : [p EXCEPT !.pc = "upsert"] \in Persist
         /\ \A p \in persists : [p EXCEPT !.pc = "trim"] \in Persist
BY DEF ScoresTypeOK, Persist, NewPersist

LEMMA ScoresInitInv == ScoresInit => ScoresInv
<1> SUFFICES ASSUME ScoresInit PROVE ScoresInv
  OBVIOUS
<1>1. ScoresTypeOK
  BY LimitsAssumption DEF ScoresInit, ScoresTypeOK, Idle
<1>2. TrimsHold
  BY DEF ScoresInit, TrimsHold
<1>3. LastReadIsCurrent
  BY DEF ScoresInit, LastReadIsCurrent, Pending, IsCurrent, Votes
<1>4. QED BY <1>1, <1>2, <1>3 DEF ScoresInv

\* Steps that leave the tables and the calls that write as they are: a cycle, the
\* gossip, a report that is lost or refused, a call that looks.
LEMMA QuietKeepsInv ==
  ASSUME ScoresInv, ScoresTypeOK',
         UNCHANGED <<reports, aggregate, outdated>>,
         \A p \in persists' \ persists : p.pc \in {"sent", "upsert"},
         \A p \in persists \ persists' : p.pc \in {"sent", "upsert"}
  PROVE  ScoresInv'
<1> USE DEF ScoresInv
<1>1. \A p \in persists' : p.pc \in {"trim", "write"} => p \in persists
  OBVIOUS
<1>2. \A p \in persists : p.pc \in {"trim", "write"} => p \in persists'
  OBVIOUS
<1>3. TrimsHold'
  BY <1>1 DEF TrimsHold
<1>4. \A s \in Servers : /\ Pending(s, "trim")' = Pending(s, "trim")
                         /\ Pending(s, "write")' = Pending(s, "write")
  BY <1>1, <1>2 DEF Pending
<1>5. LastReadIsCurrent'
  BY <1>4 DEF LastReadIsCurrent, IsCurrent
<1>6. QED BY <1>3, <1>5

LEMMA BatchesAreReports ==
  ASSUME ScoresTypeOK, NEW s \in Servers, NEW own \in SUBSET Report
  PROVE  Batches(s, own) \subseteq SUBSET Report
<1>1. Votes(reports[s]) \subseteq Report
  BY VotesAreRows DEF ScoresTypeOK
<1>2. QED BY <1>1 DEF Batches

LEMMA CycleStepKeepsInv ==
  ASSUME ScoresInv, NEW s \in Servers, CycleBegins(s) \/ ForwardBegins(s) \/ Collect(s)
  PROVE  ScoresInv'
<1> DEFINE mine == [reporter |-> s, age |-> 0]
<1>0. ScoresTypeOK
  BY DEF ScoresInv
<1>1. CASE CycleBegins(s)
  <2>1. mine \in Report /\ NewPersist(s, mine, TRUE) \in Persist
    <3>1. mine \in Report
      BY <1>1, AgesAreNumbers DEF CycleBegins, Report
    <3>2. QED BY <1>0, <3>1, PersistsAreTyped
  <2>2. /\ cycle' = [cycle EXCEPT ![s] = [pc |-> "persist", batch |-> {mine}]]
        /\ persists' = persists \cup {NewPersist(s, mine, TRUE)}
        /\ UNCHANGED <<reports, aggregate, fetched, stopped, syncs, outdated>>
    BY <1>1 DEF CycleBegins
  <2>3. ScoresTypeOK'
    BY <1>0, <2>1, <2>2 DEF ScoresTypeOK
  <2>4. NewPersist(s, mine, TRUE).pc = "sent"
    BY DEF NewPersist
  <2>5. QED BY <2>2, <2>3, <2>4, QuietKeepsInv
<1>2. CASE ForwardBegins(s) \/ Collect(s)
  <2>1. cycle[s].batch \in SUBSET Report
    BY <1>0 DEF ScoresTypeOK
  <2>2. PICK batch \in SUBSET Report :
          cycle' = [cycle EXCEPT ![s] = [pc |-> "gossip", batch |-> batch]]
    BY <1>0, <1>2, <2>1, BatchesAreReports DEF ForwardBegins, Collect
  <2>3. UNCHANGED <<reports, aggregate, persists, fetched, stopped, syncs, outdated>>
    BY <1>2 DEF ForwardBegins, Collect
  <2>4. ScoresTypeOK'
    BY <1>0, <2>2, <2>3 DEF ScoresTypeOK
  <2>5. QED BY <2>3, <2>4, QuietKeepsInv
<1>3. QED BY <1>1, <1>2

LEMMA GossipKeepsInv ==
  ASSUME ScoresInv, NEW s \in Servers, NEW to \in Servers, NEW r \in cycle[s].batch,
         Gossip(s, to, r)
  PROVE  ScoresInv'
<1>0. ScoresTypeOK
  BY DEF ScoresInv
<1>1. /\ persists' = persists \cup {NewPersist(to, r, FALSE)}
      /\ UNCHANGED <<reports, aggregate, fetched, cycle, stopped, syncs, outdated>>
  BY DEF Gossip
<1>2. r \in Report
  BY <1>0 DEF ScoresTypeOK
<1>3. NewPersist(to, r, FALSE) \in Persist /\ NewPersist(to, r, FALSE).pc = "sent"
  BY <1>0, <1>2, PersistsAreTyped DEF NewPersist
<1>4. ScoresTypeOK'
  BY <1>0, <1>1, <1>3 DEF ScoresTypeOK
<1>5. QED BY <1>1, <1>3, <1>4, QuietKeepsInv

\* A report that is lost, refused, or looked for.
LEMMA LookKeepsInv ==
  ASSUME ScoresInv, NEW p \in persists,
         ReportLost(p) \/ ReportInvalid(p) \/ ReportRejected(p) \/ Finds(p)
  PROVE  ScoresInv'
<1>0. ScoresTypeOK /\ [p EXCEPT !.pc = "upsert"] \in Persist /\ p \in Persist
  BY PersistsAreTyped DEF ScoresInv
<1>1. /\ p.pc = "sent"
      /\ \/ persists' = persists \ {p}
         \/ persists' = (persists \ {p}) \cup {[p EXCEPT !.pc = "upsert"]}
      /\ UNCHANGED <<reports, aggregate, fetched, cycle, stopped, syncs, outdated>>
  BY DEF ReportLost, ReportInvalid, ReportRejected, Finds, Moves
<1>2. [p EXCEPT !.pc = "upsert"].pc = "upsert"
  BY <1>0 DEF Persist
<1>3. ScoresTypeOK'
  BY <1>0, <1>1 DEF ScoresTypeOK
<1>4. QED BY <1>1, <1>2, <1>3, QuietKeepsInv

LEMMA ExpiredHaveNoVote ==
  ASSUME NEW rows \in SUBSET Report
  PROVE  Votes({r \in rows : Live(r)}) = Votes(rows)
<1>1. \A r, q \in rows : Live(r) /\ Newer(q, r) => Live(q)
  BY AgesAreNumbers DEF Live, Newer
<1>2. \A r \in rows : Fresh(r) => Live(r)
  BY DEF Fresh
<1>3. QED BY <1>1, <1>2 DEF Votes

LEMMA CycleEndsKeepsInv ==
  ASSUME ScoresInv, NEW s \in Servers, CycleEnds(s)
  PROVE  ScoresInv'
<1> USE DEF ScoresInv
<1>1. /\ reports' = [reports EXCEPT ![s] = {r \in @ : Live(r)}]
      /\ cycle' = [cycle EXCEPT ![s] = Idle]
      /\ UNCHANGED <<aggregate, persists, fetched, stopped, syncs, outdated>>
  BY DEF CycleEnds
<1>2. \A t \in Servers : /\ reports[t] \in SUBSET Report
                         /\ reports'[t] = IF t = s THEN {r \in reports[t] : Live(r)}
                                                   ELSE reports[t]
  BY <1>1 DEF ScoresTypeOK
<1>3. ScoresTypeOK'
  <2>1. reports' \in [Servers -> SUBSET Report]
    BY <1>1 DEF ScoresTypeOK
  <2>2. QED BY <1>1, <2>1 DEF ScoresTypeOK, Idle
<1>4. TrimsHold'
  <2> SUFFICES ASSUME NEW p \in persists, p.pc = "trim", Live(p.report)
               PROVE  p.report \in reports'[p.at] \/ \E q \in reports'[p.at] : Newer(q, p.report)
    BY <1>1 DEF TrimsHold
  <2>1. p.at \in Servers /\ p.report \in Report
    BY PersistsAreTyped
  <2>2. CASE p.report \in reports[p.at]
    BY <1>2, <2>1, <2>2
  <2>3. ASSUME NEW q \in reports[p.at], Newer(q, p.report) PROVE q \in reports'[p.at]
    <3>1. q \in Report
      BY <1>2, <2>1
    <3>2. Live(q)
      BY <2>1, <2>3, <3>1, AgesAreNumbers DEF Live, Newer
    <3>3. QED BY <1>2, <2>1, <3>2
  <2>4. QED BY <2>2, <2>3 DEF TrimsHold
<1>5. \A t \in Servers : Votes(reports'[t]) = Votes(reports[t])
  BY <1>2, ExpiredHaveNoVote
<1>6. LastReadIsCurrent'
  <2>1. \A t \in Servers : /\ Pending(t, "trim")' = Pending(t, "trim")
                           /\ Pending(t, "write")' = Pending(t, "write")
    BY <1>1 DEF Pending
  <2>2. \A t \in Servers : \A v : v = Votes(reports[t]) => v = Votes(reports'[t])
    BY <1>5
  <2>3. \A t \in Servers : \A v : IsCurrent(v, t) => v = Votes(reports'[t])
    BY <2>2 DEF IsCurrent
  <2>4. aggregate' = aggregate /\ outdated' = outdated
    BY <1>1
  <2>5. QED BY <2>1, <2>3, <2>4 DEF LastReadIsCurrent, IsCurrent
<1>7. QED BY <1>3, <1>4, <1>6

LEMMA UpsertsKeepsInv ==
  ASSUME ScoresInv, NEW p \in persists, Upserts(p)
  PROVE  ScoresInv'
<1> DEFINE n == [p EXCEPT !.pc = "trim"]
<1> USE DEF ScoresInv
<1>1. /\ p \in Persist /\ p.at \in Servers /\ p.report \in Report /\ n \in Persist
      /\ n.pc = "trim" /\ n.at = p.at /\ n.report = p.report
  BY PersistsAreTyped DEF Persist
<1>2. /\ p.pc = "upsert"
      /\ reports' = [reports EXCEPT ![p.at] = @ \cup {p.report}]
      /\ persists' = (persists \ {p}) \cup {n}
      /\ UNCHANGED <<aggregate, fetched, cycle, stopped, syncs, outdated>>
  BY DEF Upserts, RowOf, Moves
<1>3. \A t \in Servers : reports'[t] = IF t = p.at THEN reports[t] \cup {p.report} ELSE reports[t]
  BY <1>1, <1>2 DEF ScoresTypeOK
<1>4. ScoresTypeOK'
  BY <1>1, <1>2 DEF ScoresTypeOK
<1>5. TrimsHold'
  <2> SUFFICES ASSUME NEW q \in persists', q.pc = "trim", Live(q.report)
               PROVE  q.report \in reports'[q.at] \/ \E x \in reports'[q.at] : Newer(x, q.report)
    BY DEF TrimsHold
  <2>1. CASE q = n
    BY <1>1, <1>3, <2>1
  <2>2. CASE q \in persists
    BY <1>3, <2>2, PersistsAreTyped DEF TrimsHold
  <2>3. QED BY <1>2, <2>1, <2>2
<1>6. LastReadIsCurrent'
  <2> SUFFICES ASSUME NEW t \in Servers, Pending(t, "trim")' = {}
               PROVE  \/ \E q \in Pending(t, "write")' : IsCurrent(q.votes, t)'
                      \/ /\ \A q \in Pending(t, "write")' : q.late
                         /\ t \notin outdated' => IsCurrent(aggregate[t], t)'
    BY DEF LastReadIsCurrent
  <2>1. t # p.at
    BY <1>1, <1>2 DEF Pending
  <2>2. /\ Pending(t, "trim") = {}
        /\ Pending(t, "write")' = Pending(t, "write")
        /\ reports'[t] = reports[t] /\ aggregate' = aggregate /\ outdated' = outdated
    BY <1>1, <1>2, <1>3, <2>1 DEF Pending
  <2>3. QED BY <2>2 DEF LastReadIsCurrent, IsCurrent
<1>7. QED BY <1>4, <1>5, <1>6

\* The older rows of the reporter go away: a newer one of every row that does stays.
LEMMA SupersededHaveNewer ==
  ASSUME ScoresInv, NEW p \in persists, p.pc = "trim",
         NEW r \in Superseded(p.report, reports[p.at])
  PROVE  \E q \in reports[p.at] \ Superseded(p.report, reports[p.at]) : Newer(q, r)
<1> DEFINE rows == reports[p.at]
<1>1. p.report \in Report /\ rows \in SUBSET Report
  BY PersistsAreTyped DEF ScoresInv, ScoresTypeOK
<1>2. r \in rows /\ Newer(p.report, r) /\ Live(r)
  BY DEF Superseded
<1>3. Live(p.report)
  BY <1>1, <1>2, AgesAreNumbers DEF Live, Newer
<1>4. PICK q \in rows : q = p.report \/ Newer(q, p.report)
  BY <1>3 DEF ScoresInv, TrimsHold
<1>5. Newer(q, r) /\ ~Newer(p.report, q)
  BY <1>1, <1>2, <1>4, AgesAreNumbers DEF Newer
<1>6. QED BY <1>4, <1>5 DEF Superseded

LEMMA TrimsKeepsInv ==
  ASSUME ScoresInv, NEW p \in persists, TrimsAndReads(p)
  PROVE  ScoresInv'
<1> DEFINE rows == reports[p.at]
           left == rows \ Superseded(p.report, rows)
<1> USE DEF ScoresInv
<1>1. p \in Persist /\ p.at \in Servers /\ p.report \in Report /\ rows \in SUBSET Report
  BY PersistsAreTyped DEF ScoresTypeOK
<1>2. /\ p.pc = "trim"
      /\ reports' = [reports EXCEPT ![p.at] = left]
      /\ persists' = (persists \ {p}) \cup {[p EXCEPT !.pc = "write", !.votes = Votes(left)]}
      /\ UNCHANGED <<aggregate, fetched, cycle, stopped, syncs, outdated>>
  BY DEF TrimsAndReads
<1>3. Votes(left) \in SUBSET Report
  BY <1>1, VotesAreRows
<1>4. PICK n \in Persist :
        /\ n = [p EXCEPT !.pc = "write", !.votes = Votes(left)]
        /\ n.pc = "write" /\ n.at = p.at /\ n.votes = Votes(left)
  <2>1. \A v \in SUBSET Report : LET m == [p EXCEPT !.pc = "write", !.votes = v] IN
          m \in Persist /\ m.pc = "write" /\ m.at = p.at /\ m.votes = v
    BY <1>1 DEF Persist
  <2>2. QED BY <1>3, <2>1
<1>5. \A t \in Servers : reports'[t] = IF t = p.at THEN left ELSE reports[t]
  BY <1>1, <1>2 DEF ScoresTypeOK
<1>6. ScoresTypeOK'
  BY <1>1, <1>2, <1>4 DEF ScoresTypeOK
<1>7. TrimsHold'
  <2> SUFFICES ASSUME NEW q \in persists, q.pc = "trim", Live(q.report)
               PROVE  q.report \in reports'[q.at] \/ \E x \in reports'[q.at] : Newer(x, q.report)
    BY <1>2, <1>4 DEF TrimsHold
  <2>1. q.at \in Servers /\ q.report \in Report
    BY PersistsAreTyped
  <2>2. PICK x \in reports[q.at] : x = q.report \/ Newer(x, q.report)
    BY DEF TrimsHold
  <2>3. CASE x \in reports'[q.at]
    BY <2>2, <2>3
  <2>4. CASE x \notin reports'[q.at]
    <3>1. q.at = p.at /\ x \in Superseded(p.report, rows)
      BY <1>5, <2>1, <2>2, <2>4
    <3>2. PICK y \in left : Newer(y, x)
      BY <1>2, <3>1, SupersededHaveNewer
    <3>3. x \in Report /\ y \in Report
      BY <1>1, <3>1, <2>2, <3>2
    <3>4. Newer(y, q.report)
      BY <2>1, <2>2, <3>2, <3>3, AgesAreNumbers DEF Newer
    <3>5. QED BY <1>1, <1>5, <3>1, <3>2, <3>4
  <2>5. QED BY <2>3, <2>4
<1>8. LastReadIsCurrent'
  <2> SUFFICES ASSUME NEW t \in Servers, Pending(t, "trim")' = {}
               PROVE  \/ \E q \in Pending(t, "write")' : IsCurrent(q.votes, t)'
                      \/ /\ \A q \in Pending(t, "write")' : q.late
                         /\ t \notin outdated' => IsCurrent(aggregate[t], t)'
    BY DEF LastReadIsCurrent
  <2>1. CASE t = p.at
    <3>1. n \in Pending(t, "write")'
      BY <1>2, <1>4, <2>1 DEF Pending
    <3>2. n.votes = Votes(reports'[t])
      BY <1>4, <1>5, <2>1
    <3>3. IsCurrent(n.votes, t)'
      BY <1>5, <2>1, <3>2 DEF IsCurrent
    <3>4. QED BY <3>1, <3>3
  <2>2. CASE t # p.at
    <3>1. /\ Pending(t, "trim") = {}
          /\ Pending(t, "write")' = Pending(t, "write")
          /\ reports'[t] = reports[t] /\ aggregate' = aggregate /\ outdated' = outdated
      BY <1>1, <1>2, <1>4, <1>5, <2>2 DEF Pending
    <3>2. QED BY <3>1 DEF LastReadIsCurrent, IsCurrent
  <2>3. QED BY <2>1, <2>2
<1>9. QED BY <1>6, <1>7, <1>8

LEMMA WritesKeepsInv ==
  ASSUME ScoresInv, NEW p \in persists, Writes(p)
  PROVE  ScoresInv'
<1> DEFINE s == p.at
           Marked(q) == IF q.at = s /\ q.pc = "write" THEN [q EXCEPT !.late = TRUE] ELSE q
<1> USE DEF ScoresInv
<1>1. /\ p \in Persist /\ s \in Servers /\ p.votes \in SUBSET Report
  BY PersistsAreTyped
<1>2. /\ p.pc = "write"
      /\ aggregate' = [aggregate EXCEPT ![s] = p.votes]
      /\ persists' = {Marked(q) : q \in persists \ {p}}
      /\ outdated' = IF p.late THEN outdated \cup {s} ELSE outdated \ {s}
      /\ UNCHANGED <<reports, fetched, cycle, stopped, syncs>>
  BY DEF Writes, NewAggregate
<1>3. \A q \in persists :
        /\ Marked(q) \in Persist /\ Marked(q).at = q.at /\ Marked(q).pc = q.pc
        /\ Marked(q).report = q.report /\ Marked(q).votes = q.votes
        /\ q.at = s /\ q.pc = "write" => Marked(q).late = TRUE
        /\ ~(q.at = s /\ q.pc = "write") => Marked(q) = q
  BY PersistsAreTyped DEF Persist
<1> HIDE DEF Marked
<1>4. \A t \in Servers : aggregate'[t] = IF t = s THEN p.votes ELSE aggregate[t]
  BY <1>1, <1>2 DEF ScoresTypeOK
<1>5. ScoresTypeOK'
  <2>1. persists' \subseteq Persist
    BY <1>2, <1>3
  <2>2. QED BY <1>1, <1>2, <2>1 DEF ScoresTypeOK
<1>6. TrimsHold'
  BY <1>2, <1>3 DEF TrimsHold
<1>7. LastReadIsCurrent'
  <2> SUFFICES ASSUME NEW t \in Servers, Pending(t, "trim")' = {}
               PROVE  \/ \E q \in Pending(t, "write")' : IsCurrent(q.votes, t)
                      \/ /\ \A q \in Pending(t, "write")' : q.late
                         /\ t \notin outdated' => IsCurrent(aggregate'[t], t)
    BY <1>2 DEF LastReadIsCurrent, IsCurrent
  <2>1. Pending(t, "trim") = {}
    BY <1>2, <1>3 DEF Pending
  <2>2. CASE t # s
    <3>1. \A q \in Pending(t, "write") : q \in Pending(t, "write")'
      <4> SUFFICES ASSUME NEW q \in Pending(t, "write") PROVE q \in Pending(t, "write")'
        OBVIOUS
      <4>1. q \in persists \ {p} /\ q.at = t /\ q.pc = "write"
        BY <2>2 DEF Pending
      <4>2. Marked(q) = q /\ Marked(q) \in persists'
        BY <1>2, <1>3, <2>2, <4>1
      <4>3. QED BY <4>1, <4>2 DEF Pending
    <3>2. \A q \in Pending(t, "write")' : q \in Pending(t, "write")
      <4> SUFFICES ASSUME NEW q \in persists \ {p}, Marked(q).at = t, Marked(q).pc = "write"
                   PROVE  Marked(q) \in Pending(t, "write")
        BY <1>2 DEF Pending
      <4>1. Marked(q) = q
        BY <1>3, <2>2
      <4>2. QED BY <4>1 DEF Pending
    <3>3. aggregate'[t] = aggregate[t] /\ (t \in outdated' <=> t \in outdated)
      BY <1>2, <1>4, <2>2
    <3>4. QED BY <2>1, <3>1, <3>2, <3>3 DEF LastReadIsCurrent
  <2>3. CASE t = s
    <3>1. \A q \in Pending(t, "write")' : q.late
      BY <1>2, <1>3, <2>3 DEF Pending
    <3>2. ASSUME NEW q \in Pending(t, "write"), IsCurrent(q.votes, t), q # p
          PROVE  Marked(q) \in Pending(t, "write")' /\ IsCurrent(Marked(q).votes, t)
      BY <1>2, <1>3, <3>2 DEF Pending
    <3>3. ASSUME IsCurrent(p.votes, t)
          PROVE  IsCurrent(aggregate'[t], t)
      BY <1>4, <2>3, <3>3
    <3>4. ASSUME \A q \in Pending(t, "write") : q.late
          PROVE  t \in outdated'
      <4>1. p \in Pending(t, "write")
        BY <1>2, <2>3 DEF Pending
      <4>2. QED BY <1>2, <2>3, <3>4, <4>1
    <3>5. QED BY <2>1, <3>1, <3>2, <3>3, <3>4 DEF LastReadIsCurrent
  <2>4. QED BY <2>2, <2>3
<1>8. QED BY <1>5, <1>6, <1>7

LEMMA StopsKeepsInv ==
  ASSUME ScoresInv, NEW s \in Servers, Stops(s)
  PROVE  ScoresInv'
<1> USE DEF ScoresInv
<1>1. /\ s \in Leavers /\ stopped' = stopped \cup {s}
      /\ persists' = {p \in persists : p.at # s}
      /\ reports' = [reports EXCEPT ![s] = {}]
      /\ aggregate' = [aggregate EXCEPT ![s] = {}]
      /\ cycle' = [cycle EXCEPT ![s] = Idle]
      /\ fetched' = {f \in fetched : f.at # s}
      /\ UNCHANGED <<syncs, outdated>>
  BY DEF Stops, At
<1>2. /\ \A t \in Servers \ {s} : reports'[t] = reports[t] /\ aggregate'[t] = aggregate[t]
      /\ reports'[s] = {} /\ aggregate'[s] = {}
  BY <1>1 DEF ScoresTypeOK
<1>3. ScoresTypeOK'
  BY <1>1, ReportersAssumption DEF ScoresTypeOK, Idle
<1>4. TrimsHold'
  BY <1>1, <1>2, PersistsAreTyped DEF TrimsHold
<1>5. LastReadIsCurrent'
  <2> SUFFICES ASSUME NEW t \in Servers, Pending(t, "trim")' = {}
               PROVE  \/ \E q \in Pending(t, "write")' : IsCurrent(q.votes, t)'
                      \/ /\ \A q \in Pending(t, "write")' : q.late
                         /\ t \notin outdated' => IsCurrent(aggregate[t], t)'
    BY DEF LastReadIsCurrent
  <2>1. CASE t = s
    BY <1>1, <1>2, <2>1 DEF Pending, IsCurrent, Votes
  <2>2. CASE t # s
    <3>1. /\ Pending(t, "trim") = {}
          /\ Pending(t, "write")' = Pending(t, "write")
          /\ reports'[t] = reports[t] /\ aggregate'[t] = aggregate[t] /\ outdated' = outdated
      BY <1>1, <1>2, <2>2 DEF Pending
    <3>2. QED BY <3>1 DEF LastReadIsCurrent, IsCurrent
  <2>3. QED BY <2>1, <2>2
<1>6. QED BY <1>3, <1>4, <1>5

\* The clock goes on, for the tables, for every call and for the rows on their way.
Elder(p) == [p EXCEPT !.report.age = IF @ < Ttl THEN @ + 1 ELSE @, !.votes = Faded(@)]

LEMMA FadedVotes ==
  ASSUME NEW votes \in SUBSET Report
  PROVE  Faded(votes) \subseteq Report
BY AgedRows DEF Faded

LEMMA ElderPersist ==
  ASSUME NEW p \in Persist
  PROVE  /\ Elder(p) \in Persist /\ Elder(p).at = p.at /\ Elder(p).pc = p.pc
         /\ Elder(p).late = p.late /\ Elder(p).report = Older(p.report)
         /\ Elder(p).votes = Faded(p.votes)
<1>1. p.report \in Report /\ p.votes \in SUBSET Report
  BY DEF Persist
<1>2. Older(p.report) \in Report /\ Faded(p.votes) \in SUBSET Report
  BY <1>1, OlderReport, FadedVotes
<1> DEFINE With(r, v) == [p EXCEPT !.report = r, !.votes = v]
<1>3. Elder(p) = With(Older(p.report), Faded(p.votes))
  BY <1>1 DEF Elder, Older, Persist, Report
<1>4. \A r \in Report, v \in SUBSET Report :
        /\ With(r, v) \in Persist /\ With(r, v).at = p.at /\ With(r, v).pc = p.pc
        /\ With(r, v).late = p.late /\ With(r, v).report = r /\ With(r, v).votes = v
  BY DEF Persist
<1> HIDE DEF With
<1>5. QED BY <1>2, <1>3, <1>4

Staler(f) == [f EXCEPT !.rows = IF f.table = "report" THEN Aged(@) ELSE Faded(@)]

LEMMA StalerFetched ==
  ASSUME NEW f \in Fetched
  PROVE  Staler(f) \in Fetched
<1>1. f.rows \in SUBSET Report
  BY DEF Fetched
<1>2. Aged(f.rows) \in SUBSET Report /\ Faded(f.rows) \in SUBSET Report
  BY <1>1, AgedRows, FadedVotes
<1>3. (IF f.table = "report" THEN Aged(f.rows) ELSE Faded(f.rows)) \in SUBSET Report
  BY <1>2
<1>4. \A rows \in SUBSET Report : [f EXCEPT !.rows = rows] \in Fetched
  BY DEF Fetched
<1>5. QED BY <1>3, <1>4 DEF Staler

LEMMA TickKeepsInv ==
  ASSUME ScoresInv, Tick
  PROVE  ScoresInv'
<1> USE DEF ScoresInv
<1>1. /\ reports'   = [s \in Servers |-> Aged(reports[s])]
      /\ aggregate' = [s \in Servers |-> Faded(aggregate[s])]
      /\ cycle'     = [s \in Servers |-> [cycle[s] EXCEPT !.batch = Aged(@)]]
      /\ persists'  = {Elder(p) : p \in persists}
      /\ fetched'   = {Staler(f) : f \in fetched}
      /\ UNCHANGED <<stopped, syncs, outdated>>
  BY DEF Tick, Elder, Staler
<1>2. \A p \in persists :
        /\ Elder(p) \in Persist /\ Elder(p).at = p.at /\ Elder(p).pc = p.pc
        /\ Elder(p).late = p.late /\ Elder(p).report = Older(p.report)
        /\ Elder(p).votes = Faded(p.votes)
  BY PersistsAreTyped, ElderPersist
<1>3. ScoresTypeOK'
  <2>1. /\ reports' \in [Servers -> SUBSET Report]
        /\ aggregate' \in [Servers -> SUBSET Report]
    BY <1>1, AgedRows, FadedVotes DEF ScoresTypeOK
  <2>2. cycle' \in [Servers -> [pc: {"idle", "persist", "gossip"}, batch: SUBSET Report]]
    <3>1. \A s \in Servers : Aged(cycle[s].batch) \in SUBSET Report
      BY AgedRows DEF ScoresTypeOK
    <3>2. QED BY <1>1, <3>1 DEF ScoresTypeOK
  <2>3. persists' \subseteq Persist
    BY <1>1, <1>2
  <2>4. fetched' \subseteq Fetched
    BY <1>1, StalerFetched DEF ScoresTypeOK
  <2>5. QED BY <1>1, <2>1, <2>2, <2>3, <2>4 DEF ScoresTypeOK
<1>4. \A s \in Servers : /\ reports[s] \in SUBSET Report
                         /\ reports'[s] = {Older(r) : r \in reports[s]}
                         /\ reports'[s] = Aged(reports[s]) /\ aggregate'[s] = Faded(aggregate[s])
  BY <1>1, AgedRows DEF ScoresTypeOK
<1>5. TrimsHold'
  <2> SUFFICES ASSUME NEW p \in persists, p.pc = "trim", Live(Older(p.report))
               PROVE  \/ Older(p.report) \in reports'[p.at]
                      \/ \E q \in reports'[p.at] : Newer(q, Older(p.report))
    BY <1>1, <1>2 DEF TrimsHold
  <2>1. p.report \in Report /\ p.at \in Servers /\ reports[p.at] \in SUBSET Report
    BY <1>4, PersistsAreTyped
  <2>2. Live(p.report)
    BY <2>1, TimeKeepsOrder
  <2>3. CASE p.report \in reports[p.at]
    BY <1>4, <2>1, <2>3
  <2>4. ASSUME NEW q \in reports[p.at], Newer(q, p.report)
        PROVE  Older(q) \in reports'[p.at] /\ Newer(Older(q), Older(p.report))
    BY <1>4, <2>1, <2>4, TimeKeepsOrder
  <2>5. QED BY <2>2, <2>3, <2>4 DEF TrimsHold
<1>6. LastReadIsCurrent'
  <2> SUFFICES ASSUME NEW t \in Servers, Pending(t, "trim")' = {}
               PROVE  \/ \E q \in Pending(t, "write")' :
                            q.votes = Votes(reports'[t])
                      \/ /\ \A q \in Pending(t, "write")' : q.late
                         /\ t \notin outdated => aggregate'[t] = Votes(reports'[t])
    BY <1>1 DEF LastReadIsCurrent, IsCurrent
  <2>1. \A v \in SUBSET Report : IsCurrent(v, t) => Faded(v) = Votes(reports'[t])
    BY <1>4, TimeKeepsVotes DEF IsCurrent
  <2>2. Pending(t, "trim") = {}
    BY <1>1, <1>2 DEF Pending
  <2>3. \A q \in Pending(t, "write") : Elder(q) \in Pending(t, "write")'
    BY <1>1, <1>2 DEF Pending
  <2>4. CASE \E q \in Pending(t, "write") : IsCurrent(q.votes, t)
    <3>1. PICK q \in Pending(t, "write") : IsCurrent(q.votes, t)
      BY <2>4
    <3>2. q \in persists /\ q.votes \in SUBSET Report
      BY PersistsAreTyped DEF Pending
    <3>3. Elder(q).votes = Votes(reports'[t])
      BY <1>2, <2>1, <3>1, <3>2
    <3>4. QED BY <2>3, <3>3
  <2>5. ASSUME \A q \in Pending(t, "write") : q.late
        PROVE  \A q \in Pending(t, "write")' : q.late
    BY <1>1, <1>2, <2>5 DEF Pending
  <2>6. ASSUME t \notin outdated => IsCurrent(aggregate[t], t)
        PROVE  t \notin outdated => aggregate'[t] = Votes(reports'[t])
    BY <1>4, <2>1, <2>6 DEF ScoresTypeOK
  <2>7. QED BY <2>2, <2>4, <2>5, <2>6 DEF LastReadIsCurrent
<1>7. QED BY <1>3, <1>5, <1>6

\* A table sync fetches a row, or does not write what it has fetched.
LEMMA FetchesKeepsInv ==
  ASSUME ScoresInv, fetched' \subseteq Fetched, syncs' \in 0..MaxSyncs,
         UNCHANGED <<reports, aggregate, persists, cycle, stopped, outdated>>
  PROVE  ScoresInv'
<1>1. ScoresTypeOK'
  BY DEF ScoresInv, ScoresTypeOK
<1>2. QED BY <1>1, QuietKeepsInv

LEMMA FetchesFetch ==
  ASSUME ScoresTypeOK, NEW s \in Servers, NEW t \in Servers,
         \/ \E r \in reports[t] : Fetches(s, t, "report", {r})
         \/ Fetches(s, t, "aggregate", aggregate[t])
  PROVE  /\ fetched' \subseteq Fetched /\ syncs' \in 0..MaxSyncs
         /\ UNCHANGED <<reports, aggregate, persists, cycle, stopped, outdated>>
<1>1. /\ reports[t] \in SUBSET Report /\ aggregate[t] \in SUBSET Report
      /\ fetched \subseteq Fetched /\ syncs \in 0..MaxSyncs /\ MaxSyncs \in Nat
  BY LimitsAssumption DEF ScoresTypeOK
<1>2. PICK table \in {"report", "aggregate"}, rows \in SUBSET Report : Fetches(s, t, table, rows)
  BY <1>1
<1>3. [at |-> s, table |-> table, rows |-> rows] \in Fetched
  BY DEF Fetched
<1>4. QED BY <1>1, <1>2, <1>3 DEF Fetches

\* A table sync writes a report: nothing read before counts as current.
LEMMA ReportSyncedKeepsInv ==
  ASSUME ScoresInv, NEW f \in fetched, ReportSynced(f)
  PROVE  ScoresInv'
<1> DEFINE s == f.at
           Marked(q) == IF q.at = s /\ q.pc = "write" THEN [q EXCEPT !.late = TRUE] ELSE q
<1> USE DEF ScoresInv
<1>1. s \in Servers /\ f.rows \in SUBSET Report
  BY DEF ScoresTypeOK, Fetched
<1>2. /\ reports' = [reports EXCEPT ![s] = @ \cup f.rows]
      /\ persists' = {Marked(q) : q \in persists}
      /\ fetched' = fetched \ {f}
      /\ outdated' = outdated \cup {s}
      /\ UNCHANGED <<aggregate, cycle, stopped, syncs>>
  BY DEF ReportSynced
<1>3. \A q \in persists :
        /\ Marked(q) \in Persist /\ Marked(q).at = q.at /\ Marked(q).pc = q.pc
        /\ Marked(q).report = q.report /\ Marked(q).votes = q.votes
        /\ q.at = s /\ q.pc = "write" => Marked(q).late = TRUE
        /\ ~(q.at = s /\ q.pc = "write") => Marked(q) = q
  BY PersistsAreTyped DEF Persist
<1> HIDE DEF Marked
<1>4. \A t \in Servers : reports'[t] = IF t = s THEN reports[t] \cup f.rows ELSE reports[t]
  BY <1>1, <1>2 DEF ScoresTypeOK
<1>5. ScoresTypeOK'
  <2>1. persists' \subseteq Persist
    BY <1>2, <1>3
  <2>2. reports' \in [Servers -> SUBSET Report]
    BY <1>1, <1>2 DEF ScoresTypeOK
  <2>3. QED BY <1>1, <1>2, <2>1, <2>2 DEF ScoresTypeOK
<1>6. TrimsHold'
  <2> SUFFICES ASSUME NEW p \in persists, p.pc = "trim", Live(p.report)
               PROVE  p.report \in reports'[p.at] \/ \E q \in reports'[p.at] : Newer(q, p.report)
    BY <1>2, <1>3 DEF TrimsHold
  <2>1. reports[p.at] \subseteq reports'[p.at]
    BY <1>4, PersistsAreTyped
  <2>2. QED BY <2>1 DEF TrimsHold
<1>7. LastReadIsCurrent'
  <2> SUFFICES ASSUME NEW t \in Servers, Pending(t, "trim")' = {}
               PROVE  \/ \E q \in Pending(t, "write")' : IsCurrent(q.votes, t)'
                      \/ /\ \A q \in Pending(t, "write")' : q.late
                         /\ t \notin outdated' => IsCurrent(aggregate[t], t)'
    BY DEF LastReadIsCurrent
  <2>1. CASE t = s
    <3>1. \A q \in Pending(t, "write")' : q.late
      BY <1>2, <1>3, <2>1 DEF Pending
    <3>2. QED BY <1>2, <2>1, <3>1
  <2>2. CASE t # s
    <3>1. Pending(t, "trim") = {} /\ Pending(t, "write")' = Pending(t, "write")
      <4>1. Pending(t, "trim") = {}
        BY <1>2, <1>3 DEF Pending
      <4>2. ASSUME NEW q \in Pending(t, "write") PROVE q \in Pending(t, "write")'
        <5>1. q \in persists /\ q.at = t /\ q.pc = "write" /\ Marked(q) = q
          BY <1>3, <2>2 DEF Pending
        <5>2. QED BY <1>2, <5>1 DEF Pending
      <4>3. ASSUME NEW q \in persists, Marked(q).at = t, Marked(q).pc = "write"
            PROVE  Marked(q) \in Pending(t, "write")
        <5>1. Marked(q) = q
          BY <1>3, <2>2, <4>3
        <5>2. QED BY <4>3, <5>1 DEF Pending
      <4>4. QED BY <1>2, <4>1, <4>2, <4>3 DEF Pending
    <3>2. reports'[t] = reports[t] /\ aggregate' = aggregate /\ (t \in outdated' <=> t \in outdated)
      BY <1>2, <1>4, <2>2
    <3>3. QED BY <3>1, <3>2 DEF LastReadIsCurrent, IsCurrent
  <2>3. QED BY <2>1, <2>2
<1>8. QED BY <1>5, <1>6, <1>7

\* A table sync writes an aggregate: a read that is still to be written stays good.
LEMMA AggregateSyncedKeepsInv ==
  ASSUME ScoresInv, NEW f \in fetched, AggregateSynced(f)
  PROVE  ScoresInv'
<1> USE DEF ScoresInv
<1>1. f.at \in Servers /\ f.rows \in SUBSET Report
  BY DEF ScoresTypeOK, Fetched
<1>2. /\ aggregate' = [aggregate EXCEPT ![f.at] = f.rows]
      /\ fetched' = fetched \ {f}
      /\ outdated' = outdated \cup {f.at}
      /\ UNCHANGED <<reports, persists, cycle, stopped, syncs>>
  BY DEF AggregateSynced
<1>3. ScoresTypeOK'
  BY <1>1, <1>2 DEF ScoresTypeOK
<1>4. TrimsHold'
  BY <1>2 DEF TrimsHold
<1>5. LastReadIsCurrent'
  <2>1. \A t \in Servers : t \notin outdated' => t \notin outdated /\ aggregate'[t] = aggregate[t]
    BY <1>1, <1>2 DEF ScoresTypeOK
  <2>2. QED BY <1>2, <2>1 DEF LastReadIsCurrent, Pending, IsCurrent
<1>6. QED BY <1>3, <1>4, <1>5

LEMMA SyncStepKeepsInv ==
  ASSUME ScoresInv, NEW f \in fetched, SyncStep(f)
  PROVE  ScoresInv'
<1>1. CASE SyncSkips(f)
  <2>1. fetched' \subseteq Fetched /\ syncs' \in 0..MaxSyncs
    BY <1>1 DEF SyncSkips, ScoresInv, ScoresTypeOK
  <2>2. QED BY <1>1, <2>1, FetchesKeepsInv DEF SyncSkips
<1>2. QED BY <1>1, ReportSyncedKeepsInv, AggregateSyncedKeepsInv DEF SyncStep

LEMMA ScoresNextInv == ScoresInv /\ [ScoresNext]_scoreVars => ScoresInv'
<1> SUFFICES ASSUME ScoresInv, [ScoresNext]_scoreVars PROVE ScoresInv'
  OBVIOUS
<1>1. CASE UNCHANGED scoreVars
  BY <1>1 DEF scoreVars, ScoresInv, ScoresTypeOK, TrimsHold, LastReadIsCurrent, Pending,
     IsCurrent
<1>2. ASSUME NEW s \in Servers, CycleStep(s) PROVE ScoresInv'
  BY <1>2, CycleStepKeepsInv, CycleEndsKeepsInv DEF CycleStep
<1>3. ASSUME NEW p \in persists, PersistStep(p) PROVE ScoresInv'
  BY <1>3, LookKeepsInv, UpsertsKeepsInv, TrimsKeepsInv, WritesKeepsInv DEF PersistStep
<1>4. ASSUME NEW s \in Servers, NEW t \in Servers,
             \/ \E r \in reports[t] : Fetches(s, t, "report", {r})
             \/ Fetches(s, t, "aggregate", aggregate[t])
      PROVE  ScoresInv'
  <2>1. /\ fetched' \subseteq Fetched /\ syncs' \in 0..MaxSyncs
        /\ UNCHANGED <<reports, aggregate, persists, cycle, stopped, outdated>>
    BY <1>4, FetchesFetch DEF ScoresInv
  <2>2. QED BY <2>1, FetchesKeepsInv
<1>5. QED
  BY <1>1, <1>2, <1>3, <1>4, StopsKeepsInv, GossipKeepsInv, LookKeepsInv, TickKeepsInv,
     SyncStepKeepsInv DEF ScoresNext

\* When no call is between its upsert and its write, none wrote what it had read before
\* another's write, and no table sync has written since, the aggregate is what the table
\* says: for any number of servers, reporters, calls at a time and rows synced.
THEOREM ScoresAggregateIsCurrent == ScoresSpec => []AggregateIsCurrent
<1>1. ScoresInv => AggregateIsCurrent
  <2> SUFFICES ASSUME ScoresInv, NEW s \in Servers,
                      \A p \in At(s) : p.pc \notin {"trim", "write"}, s \notin outdated
               PROVE  aggregate[s] = Votes(reports[s])
    BY DEF AggregateIsCurrent
  <2>1. Pending(s, "trim") = {} /\ Pending(s, "write") = {}
    BY DEF Pending, At
  <2>2. QED BY <2>1 DEF ScoresInv, LastReadIsCurrent, IsCurrent
<1>2. QED BY <1>1, ScoresInitInv, ScoresNextInv, PTL DEF ScoresSpec

\* No step loses a report that is not replaced by a newer one of its reporter.
THEOREM ScoresNewestKept == ScoresSpec => NewestKept
<1>1. ASSUME ScoresInv, [ScoresNext]_scoreVars, NEW s \in Servers \ stopped',
             NEW r \in reports[s], Live(r)
      PROVE  \/ reports'[s] \cap ({r} \cup Aged({r})) # {}
             \/ \E q \in reports'[s] : Newer(q, r)
  <2>0. ScoresTypeOK /\ r \in Report
    BY <1>1 DEF ScoresInv, ScoresTypeOK
  <2>1. ASSUME r \in reports'[s] PROVE reports'[s] \cap ({r} \cup Aged({r})) # {}
    BY <2>1
  <2>2. CASE UNCHANGED reports
    BY <2>1, <2>2
  <2>3. ASSUME NEW t \in Servers, CycleEnds(t) PROVE r \in reports'[s]
    BY <1>1, <2>0, <2>3 DEF CycleEnds, ScoresTypeOK
  <2>4. ASSUME NEW t \in Servers, Stops(t) PROVE r \in reports'[s]
    BY <1>1, <2>0, <2>4 DEF Stops, ScoresTypeOK
  <2>5. ASSUME NEW p \in persists, Upserts(p) PROVE r \in reports'[s]
    BY <1>1, <2>0, <2>5, PersistsAreTyped DEF Upserts, RowOf, ScoresTypeOK
  <2>6. ASSUME NEW p \in persists, TrimsAndReads(p)
        PROVE  r \in reports'[s] \/ \E q \in reports'[s] : Newer(q, r)
    <3>1. /\ p.pc = "trim" /\ p.at \in Servers
          /\ reports' = [reports EXCEPT
               ![p.at] = reports[p.at] \ Superseded(p.report, reports[p.at])]
      BY <2>0, <2>6, PersistsAreTyped DEF TrimsAndReads
    <3>2. CASE s = p.at /\ r \in Superseded(p.report, reports[p.at])
      <4>1. PICK q \in reports[p.at] \ Superseded(p.report, reports[p.at]) : Newer(q, r)
        BY <1>1, <3>1, <3>2, SupersededHaveNewer
      <4>2. QED BY <2>0, <3>1, <3>2, <4>1 DEF ScoresTypeOK
    <3>3. CASE ~(s = p.at /\ r \in Superseded(p.report, reports[p.at]))
      BY <2>0, <3>1, <3>3 DEF ScoresTypeOK
    <3>4. QED BY <3>2, <3>3
  <2>7. CASE Tick
    <3>1. reports'[s] = Aged(reports[s])
      BY <2>7 DEF Tick
    <3>2. Older(r) \in reports'[s] /\ Older(r) \in Aged({r})
      BY <2>0, <3>1, AgedRows DEF ScoresTypeOK
    <3>3. QED BY <3>2
  <2>8. ASSUME NEW p \in persists,
               \/ Finds(p) \/ Writes(p) \/ ReportLost(p) \/ ReportInvalid(p) \/ ReportRejected(p)
        PROVE  UNCHANGED reports
    BY <2>8 DEF Finds, Writes, ReportLost, ReportInvalid, ReportRejected
  <2>9. ASSUME NEW t \in Servers,
               \/ CycleBegins(t) \/ ForwardBegins(t) \/ Collect(t)
               \/ \E to \in Servers : \E q \in cycle[t].batch : Gossip(t, to, q)
        PROVE  UNCHANGED reports
    BY <2>9 DEF CycleBegins, ForwardBegins, Collect, Gossip
  <2>10. ASSUME NEW f \in fetched, ReportSynced(f) PROVE r \in reports'[s]
    <3>1. f.at \in Servers
      BY <2>0 DEF ScoresTypeOK, Fetched
    <3>2. QED BY <1>1, <2>0, <2>10, <3>1 DEF ReportSynced, ScoresTypeOK
  <2>11. ASSUME \/ \E f \in fetched : AggregateSynced(f) \/ SyncSkips(f)
                \/ \E t, u \in Servers : \/ \E q \in reports[u] : Fetches(t, u, "report", {q})
                                         \/ Fetches(t, u, "aggregate", aggregate[u])
         PROVE  UNCHANGED reports
    BY <2>11 DEF AggregateSynced, SyncSkips, Fetches
  <2>12. UNCHANGED scoreVars => UNCHANGED reports
    BY DEF scoreVars
  <2>13. QED
    BY <1>1, <2>1, <2>2, <2>3, <2>4, <2>5, <2>6, <2>7, <2>8, <2>9, <2>10, <2>11, <2>12
       DEF ScoresNext, CycleStep, PersistStep, SyncStep
<1>2. ScoresInv /\ [ScoresNext]_scoreVars =>
        [\A s \in Servers \ stopped' : \A r \in reports[s] :
           Live(r) => \/ reports'[s] \cap ({r} \cup Aged({r})) # {}
                      \/ \E q \in reports'[s] : Newer(q, r)]_scoreVars
  BY <1>1
<1>3. QED BY <1>2, ScoresInitInv, ScoresNextInv, PTL DEF ScoresSpec, NewestKept

-----------------------------------------------------------------------------
(* The peer directory: OnlyConnectsRaise, RowSettles.                      *)

Observation == [connects: Connects, failures: Failures, disconnects: Disconnects,
                current: BOOLEAN, last: {"none", "never", "recent", "old"}]

\* The upsert that was called last is out, and is of the connection as it is, or has
\* taken effect.
LastTouchIsLinked ==
  IF done THEN overwritten \/ active = linked
          ELSE touches # <<>> /\ touches[Len(touches)] = linked

DirectoryInv == DirectoryTypeOK /\ LastTouchIsLinked

\* What is left when one of the upserts has taken effect.
LEMMA TouchesLeft ==
  ASSUME NEW s \in Seq(BOOLEAN), NEW i \in 1..Len(s)
  PROVE  /\ RemoveAt(s, i) \in Seq(BOOLEAN)
         /\ Len(RemoveAt(s, i)) = Len(s) - 1
         /\ i # Len(s) => RemoveAt(s, i)[Len(s) - 1] = s[Len(s)]
<1> DEFINE left  == SubSeq(s, 1, i - 1)
           right == SubSeq(s, i + 1, Len(s))
<1>1. left \in Seq(BOOLEAN) /\ Len(left) = i - 1
  OBVIOUS
<1>2. right \in Seq(BOOLEAN) /\ Len(right) = Len(s) - i
      /\ \A k \in 1..(Len(s) - i) : right[k] = s[i + k]
  OBVIOUS
<1>3. RemoveAt(s, i) = left \o right
  BY DEF RemoveAt
<1> HIDE DEF left, right
<1>4. Len(s) \in Nat /\ i \in Nat /\ i >= 1 /\ i <= Len(s)
  BY LenProperties
<1>5. /\ left \o right \in Seq(BOOLEAN)
      /\ Len(left \o right) = Len(left) + Len(right)
      /\ \A k \in 1..(Len(left) + Len(right)) : (left \o right)[k] =
            IF k <= Len(left) THEN left[k] ELSE right[k - Len(left)]
  BY <1>1, <1>2, ConcatProperties
<1>6. ASSUME i # Len(s) PROVE (left \o right)[Len(s) - 1] = s[Len(s)]
  <2>1. Len(s) - 1 \in 1..(Len(left) + Len(right)) /\ ~(Len(s) - 1 <= Len(left))
    BY <1>1, <1>2, <1>4, <1>6
  <2>2. (left \o right)[Len(s) - 1] = right[Len(s) - i]
    BY <1>1, <1>4, <1>5, <2>1
  <2>3. Len(s) - i \in 1..(Len(s) - i)
    BY <1>4, <1>6
  <2>4. right[Len(s) - i] = s[i + (Len(s) - i)]
    BY <1>2, <2>3
  <2>5. QED BY <1>4, <2>2, <2>4
<1>7. QED BY <1>1, <1>2, <1>3, <1>4, <1>5, <1>6

\* An upsert is called.
LEMMA TouchKeeps ==
  ASSUME DirectoryTypeOK, NEW b \in BOOLEAN, Touch(b)
  PROVE  /\ touches' \in Seq(BOOLEAN) /\ Len(touches') <= MaxTouches
         /\ touches' # <<>> /\ touches'[Len(touches')] = b /\ done' = FALSE
<1>1. touches \in Seq(BOOLEAN) /\ Len(touches) \in Nat /\ MaxTouches \in Nat
  BY TouchesAssumption DEF DirectoryTypeOK
<1>2. Len(touches) < MaxTouches /\ touches' = Append(touches, b) /\ done' = FALSE
  BY DEF Touch
<1>3. QED BY <1>1, <1>2, AppendProperties

\* A counter that goes up stays in its range.
LEMMA UpCounts ==
  ASSUME NEW m \in Nat, NEW n \in 0..m
  PROVE  Up(n, 0..m) \in 0..m /\ n <= Up(n, 0..m)
BY DEF Up

LEMMA NotedIsObservation ==
  ASSUME observation \in Observation
  PROVE  /\ NotedConnect \in Observation /\ NotedConnect.last = "recent"
         /\ NotedDisconnect \in Observation
<1>1. /\ Up(observation.connects, Connects) \in Connects
      /\ Up(observation.disconnects, Disconnects) \in Disconnects
  BY UpCounts DEF Observation, Connects, Disconnects
<1>2. NotedConnect \in Observation /\ NotedConnect.last = "recent"
  BY <1>1 DEF NotedConnect, Observation
<1>3. NotedDisconnect \in Observation
  BY <1>1 DEF NotedDisconnect, Observation
<1>4. QED BY <1>2, <1>3

\* What a server observes of a peer remains an observation.
LEMMA ObservationStep ==
  ASSUME observation \in Observation, [DirectoryNext]_directoryVars
  PROVE  observation' \in Observation
<1>1. CASE DialBegins
  BY <1>1 DEF DialBegins, Observation
<1>2. CASE DialNoted \/ PeerConnected \/ PeerDisconnected
  BY <1>2, NotedIsObservation DEF DialNoted, PeerConnected, PeerDisconnected
<1>3. CASE DialFails
  <2>1. Up(observation.failures, Failures) \in Failures
    BY UpCounts DEF Observation, Failures
  <2>2. QED BY <1>3, <2>1 DEF DialFails, Observation
<1>4. CASE ConnectGrowsOld
  BY <1>4 DEF ConnectGrowsOld, Observation
<1>5. CASE ServerRestarts
  BY <1>5 DEF ServerRestarts, NoObservation, Observation, Connects, Failures, Disconnects
<1>6. CASE Heard \/ (\E i \in DOMAIN touches : Touched(i)) \/ RowSynced \/ UNCHANGED directoryVars
  BY <1>6 DEF Heard, Touched, RowSynced, directoryVars
<1>7. QED BY <1>1, <1>2, <1>3, <1>4, <1>5, <1>6 DEF DirectoryNext

LEMMA DirectoryInitInv == DirectoryInit => DirectoryInv
<1> SUFFICES ASSUME DirectoryInit PROVE DirectoryInv
  OBVIOUS
<1>1. touches \in Seq(BOOLEAN) /\ Len(touches) <= MaxTouches
  BY TouchesAssumption DEF DirectoryInit
<1>2. observation \in Observation
  BY DEF DirectoryInit, NoObservation, Observation, Connects, Failures, Disconnects
<1>3. /\ linked = FALSE /\ dialling = FALSE /\ active = FALSE /\ done = TRUE /\ overwritten = FALSE
      /\ restarts = 0
  BY DEF DirectoryInit
<1>4. DirectoryTypeOK
  <2>1. /\ linked \in BOOLEAN /\ dialling \in BOOLEAN /\ active \in BOOLEAN /\ done \in BOOLEAN
        /\ overwritten \in BOOLEAN
    BY <1>3, Zenon
  <2>2. restarts \in 0..MaxRestarts
    BY <1>3, RestartsAssumption
  <2>3. QED BY <1>1, <1>2, <2>1, <2>2 DEF DirectoryTypeOK, Observation
<1>5. LastTouchIsLinked
  BY <1>3 DEF LastTouchIsLinked
<1>6. QED BY <1>4, <1>5 DEF DirectoryInv

\* A peer connects or leaves, or is heard of, and the row is touched.
LEMMA TouchingKeepsInv ==
  ASSUME DirectoryInv, PeerConnected \/ PeerDisconnected \/ Heard,
         observation' \in Observation
  PROVE  DirectoryInv'
<1> USE DEF DirectoryInv
<1>1. Touch(linked') /\ linked' \in BOOLEAN /\ UNCHANGED <<dialling, active, overwritten, restarts>>
  BY DEF PeerConnected, PeerDisconnected, Heard, TouchesOnDisconnect, DirectoryTypeOK
<1>2. /\ touches' \in Seq(BOOLEAN) /\ Len(touches') <= MaxTouches
      /\ touches' # <<>> /\ touches'[Len(touches')] = linked' /\ done' = FALSE
  BY <1>1, TouchKeeps
<1>3. DirectoryTypeOK'
  BY <1>1, <1>2 DEF DirectoryTypeOK, Observation
<1>4. LastTouchIsLinked'
  BY <1>2 DEF LastTouchIsLinked
<1>5. QED BY <1>3, <1>4

\* An upsert takes effect: the last that was called, or one before it.
LEMMA TouchedKeepsInv ==
  ASSUME DirectoryInv, NEW i \in DOMAIN touches, Touched(i)
  PROVE  DirectoryInv'
<1> USE DEF DirectoryInv
<1>1. touches \in Seq(BOOLEAN) /\ i \in 1..Len(touches) /\ Len(touches) \in Nat
  BY DEF DirectoryTypeOK
<1>2. /\ active' = touches[i] /\ touches' = RemoveAt(touches, i)
      /\ done' = (done \/ i = Len(touches))
      /\ overwritten' = IF i = Len(touches) /\ ~done THEN FALSE ELSE overwritten \/ done
      /\ UNCHANGED <<linked, dialling, observation, restarts>>
  BY DEF Touched
<1>3. /\ touches' \in Seq(BOOLEAN) /\ Len(touches') = Len(touches) - 1
      /\ i # Len(touches) => touches'[Len(touches')] = touches[Len(touches)]
  BY <1>1, <1>2, TouchesLeft
<1>4. DirectoryTypeOK'
  <2>1. Len(touches') <= MaxTouches
    BY <1>1, <1>3, TouchesAssumption DEF DirectoryTypeOK
  <2>2. active' \in BOOLEAN /\ done' \in BOOLEAN /\ overwritten' \in BOOLEAN
    <3>1. touches[i] \in BOOLEAN
      BY <1>1
    <3>2. done \in BOOLEAN /\ overwritten \in BOOLEAN
      BY DEF DirectoryTypeOK
    <3>3. QED BY <1>2, <3>1, <3>2, Zenon
  <2>3. QED BY <1>2, <1>3, <2>1, <2>2 DEF DirectoryTypeOK
<1>5. LastTouchIsLinked'
  <2>1. CASE i # Len(touches)
    <3>1. touches' # <<>>
      BY <1>1, <1>3, <2>1
    <3>2. QED BY <1>2, <1>3, <2>1, <3>1 DEF LastTouchIsLinked
  <2>2. CASE i = Len(touches)
    BY <1>2, <2>2 DEF LastTouchIsLinked
  <2>3. QED BY <2>1, <2>2
<1>6. QED BY <1>4, <1>5

LEMMA DirectoryNextInv == DirectoryInv /\ [DirectoryNext]_directoryVars => DirectoryInv'
<1> SUFFICES ASSUME DirectoryInv, [DirectoryNext]_directoryVars PROVE DirectoryInv'
  OBVIOUS
<1>0. observation' \in Observation
  BY ObservationStep DEF DirectoryInv, DirectoryTypeOK, Observation
<1>1. CASE PeerConnected \/ PeerDisconnected \/ Heard
  BY <1>0, <1>1, TouchingKeepsInv
<1>2. CASE \E i \in DOMAIN touches : Touched(i)
  BY <1>2, TouchedKeepsInv
<1>3. CASE DialBegins \/ DialNoted \/ DialFails \/ ConnectGrowsOld \/ UNCHANGED directoryVars
  <2>1. /\ UNCHANGED <<linked, touches, active, done, overwritten, restarts>>
        /\ dialling' \in BOOLEAN
    BY <1>3 DEF DialBegins, DialNoted, DialFails, ConnectGrowsOld, directoryVars,
       DirectoryInv, DirectoryTypeOK
  <2>2. QED
    BY <1>0, <2>1 DEF DirectoryInv, DirectoryTypeOK, LastTouchIsLinked, Observation
<1>4. CASE ServerRestarts
  <2>1. restarts' \in 0..MaxRestarts
    BY <1>4, RestartsAssumption DEF ServerRestarts, DirectoryInv, DirectoryTypeOK
  <2>2. touches' \in Seq(BOOLEAN) /\ Len(touches') <= MaxTouches
    BY <1>4, TouchesAssumption DEF ServerRestarts
  <2>3. /\ linked' = FALSE /\ dialling' = FALSE /\ done' = TRUE /\ overwritten' = TRUE
        /\ UNCHANGED active
    BY <1>4 DEF ServerRestarts
  <2>4. DirectoryTypeOK'
    BY <1>0, <2>1, <2>2, <2>3 DEF DirectoryInv, DirectoryTypeOK, Observation
  <2>5. LastTouchIsLinked'
    BY <2>3 DEF LastTouchIsLinked
  <2>6. QED BY <2>4, <2>5 DEF DirectoryInv
<1>5. CASE RowSynced
  <2>1. /\ active' = ~active /\ overwritten' = (overwritten \/ done)
        /\ UNCHANGED <<linked, dialling, touches, done, restarts>>
    BY <1>5 DEF RowSynced
  <2>2. overwritten' \in BOOLEAN /\ active' \in BOOLEAN
    BY <2>1, Zenon DEF DirectoryInv, DirectoryTypeOK
  <2>3. DirectoryTypeOK'
    BY <1>0, <2>1, <2>2 DEF DirectoryInv, DirectoryTypeOK, Observation
  <2>4. LastTouchIsLinked'
    BY <2>1 DEF DirectoryInv, LastTouchIsLinked
  <2>5. QED BY <2>3, <2>4 DEF DirectoryInv
<1>6. QED BY <1>1, <1>2, <1>3, <1>4, <1>5 DEF DirectoryNext

\* The row says whether the peer is connected when no upsert is out and nothing was
\* written after the one that was called last, however many upserts are out at a time,
\* whatever table syncs write and however often the server is restarted.
THEOREM DirectoryRowSettles == DirectorySpec => []RowSettles
<1>1. DirectoryInv => RowSettles
  BY DEF DirectoryInv, LastTouchIsLinked, RowSettles
<1>2. QED BY <1>1, DirectoryInitInv, DirectoryNextInv, PTL DEF DirectorySpec

-----------------------------------------------------------------------------
\* The score falls with failures and disconnects, with a connection that is gone and
\* with one that was long ago.
LEMMA ScoreFalls ==
  ASSUME NEW o \in Observation, NEW p \in Observation,
         o.last # "none", p.last # "none",
         p.connects = o.connects, o.failures <= p.failures, o.disconnects <= p.disconnects,
         p.current => o.current, o.last = "old" => p.last = "old"
  PROVE  LocalScore(p) <= LocalScore(o)
<1> DEFINE raw(q) == 70 + AtMost(q.connects * 4, 20) - AtMost(q.failures * 12, 45)
                        - AtMost(q.disconnects * 5, 25)
                        + (IF q.current THEN 10 ELSE 0) - (IF q.last = "old" THEN 10 ELSE 0)
<1>1. /\ o.connects \in Int /\ o.failures \in Int /\ p.failures \in Int
      /\ o.disconnects \in Int /\ p.disconnects \in Int
      /\ o.connects * 4 \in Int /\ o.failures * 12 \in Int /\ p.failures * 12 \in Int
      /\ o.disconnects * 5 \in Int /\ p.disconnects * 5 \in Int
  BY DEF Observation, Connects, Failures, Disconnects
<1>2. \A m, n \in Int, l \in Int : m <= n => AtMost(m, l) <= AtMost(n, l)
  BY DEF AtMost
<1>4. /\ AtMost(o.failures * 12, 45) <= AtMost(p.failures * 12, 45)
      /\ AtMost(o.disconnects * 5, 25) <= AtMost(p.disconnects * 5, 25)
  BY <1>1, <1>2
<1>5. /\ AtMost(o.connects * 4, 20) \in Int /\ AtMost(p.connects * 4, 20) = AtMost(o.connects * 4, 20)
      /\ AtMost(o.failures * 12, 45) \in Int /\ AtMost(p.failures * 12, 45) \in Int
      /\ AtMost(o.disconnects * 5, 25) \in Int /\ AtMost(p.disconnects * 5, 25) \in Int
  BY <1>1 DEF AtMost
<1>6. raw(p) <= raw(o) /\ raw(p) \in Int /\ raw(o) \in Int
  BY <1>4, <1>5
<1>7. \A m, n \in Int : m <= n => Clamp(m) <= Clamp(n)
  BY DEF Clamp, AtMost
<1>8. LocalScore(o) = Clamp(raw(o)) /\ LocalScore(p) = Clamp(raw(p))
  BY DEF LocalScore
<1> HIDE DEF raw
<1>9. QED BY <1>6, <1>7, <1>8

\* A score is a number.
LEMMA ScoreIsNumber ==
  ASSUME NEW o \in Observation
  PROVE  LocalScore(o) \in Int
<1>1. o.connects * 4 \in Int /\ o.failures * 12 \in Int /\ o.disconnects * 5 \in Int
  BY DEF Observation, Connects, Failures, Disconnects
<1>3. \A m \in Int : Clamp(m) \in Int
  BY DEF Clamp, AtMost
<1>4. /\ AtMost(o.connects * 4, 20) \in Int /\ AtMost(o.failures * 12, 45) \in Int
      /\ AtMost(o.disconnects * 5, 25) \in Int
  BY <1>1 DEF AtMost
<1> DEFINE raw == 70 + AtMost(o.connects * 4, 20) - AtMost(o.failures * 12, 45)
                     - AtMost(o.disconnects * 5, 25)
                     + (IF o.current THEN 10 ELSE 0) - (IF o.last = "old" THEN 10 ELSE 0)
<1>5. raw \in Int
  BY <1>4
<1>6. LocalScore(o) = 50 \/ LocalScore(o) = Clamp(raw)
  BY DEF LocalScore
<1> HIDE DEF raw
<1>7. QED BY <1>3, <1>5, <1>6

\* What a server reports of a peer rises with a successful connection only: time,
\* failed dials and flapping never improve it.
THEOREM DirectoryOnlyConnectsRaise == DirectorySpec => OnlyConnectsRaise
<1>1. ASSUME observation \in Observation, [DirectoryNext]_directoryVars,
             observation.last # "none", observation'.last # "none",
             LocalScore(observation') > LocalScore(observation)
      PROVE  linked' /\ observation'.last = "recent"
  <2>1. /\ observation \in Observation /\ observation' \in Observation
        /\ LocalScore(observation) \in Int /\ LocalScore(observation') \in Int
    BY <1>1, ObservationStep, ScoreIsNumber
  <2>2. ~(LocalScore(observation') <= LocalScore(observation))
    BY <1>1, <2>1
  <2>3. CASE DialNoted \/ PeerConnected
    <3>1. observation' = NotedConnect
      BY <2>3 DEF DialNoted, PeerConnected
    <3>2. linked'
      <4>1. ASSUME DialNoted PROVE linked'
        <5>1. linked /\ linked' = linked
          BY <4>1, Zenon DEF DialNoted
        <5>2. QED BY <5>1
      <4>2. ASSUME PeerConnected PROVE linked'
        <5>1. linked' = TRUE
          BY <4>2 DEF PeerConnected
        <5>2. QED BY <5>1
      <4>3. QED BY <2>3, <4>1, <4>2
    <3>3. observation'.last = "recent"
      BY <2>1, <3>1, NotedIsObservation
    <3>4. QED BY <3>2, <3>3
  <2>4. CASE DialFails
    <3>1. /\ observation' = [observation EXCEPT !.failures = Up(@, Failures)]
          /\ observation.failures <= Up(observation.failures, Failures)
      BY <2>1, <2>4, UpCounts DEF DialFails, Observation, Failures
    <3>2. /\ observation'.connects = observation.connects
          /\ observation'.failures = Up(observation.failures, Failures)
          /\ observation'.disconnects = observation.disconnects
          /\ observation'.current = observation.current /\ observation'.last = observation.last
      BY <2>1, <3>1 DEF Observation
    <3>3. observation.disconnects <= observation'.disconnects
      BY <2>1, <3>2 DEF Observation, Disconnects
    <3>4. QED BY <1>1, <2>1, <2>2, <3>1, <3>2, <3>3, ScoreFalls
  <2>5. CASE PeerDisconnected
    <3>1. /\ observation' = [observation EXCEPT !.disconnects = Up(@, Disconnects),
                                                !.current = FALSE]
          /\ observation.disconnects <= Up(observation.disconnects, Disconnects)
      BY <2>1, <2>5, UpCounts DEF PeerDisconnected, NotedDisconnect, Observation, Disconnects
    <3>2. /\ observation'.connects = observation.connects
          /\ observation'.failures = observation.failures
          /\ observation'.disconnects = Up(observation.disconnects, Disconnects)
          /\ observation'.current = FALSE /\ observation'.last = observation.last
      BY <2>1, <3>1 DEF Observation
    <3>3. observation.failures <= observation'.failures
      BY <2>1, <3>2 DEF Observation, Failures
    <3>4. QED BY <1>1, <2>1, <2>2, <3>1, <3>2, <3>3, ScoreFalls
  <2>6. CASE ConnectGrowsOld \/ DialBegins \/ observation' = observation
    <3>1. /\ observation'.connects = observation.connects
          /\ observation'.failures = observation.failures
          /\ observation'.disconnects = observation.disconnects
          /\ observation'.current = observation.current
          /\ observation.last = "old" => observation'.last = "old"
      BY <1>1, <2>1, <2>6 DEF ConnectGrowsOld, DialBegins, Observation
    <3>2. observation.failures <= observation'.failures
          /\ observation.disconnects <= observation'.disconnects
      BY <2>1, <3>1 DEF Observation, Failures, Disconnects
    <3>3. QED BY <1>1, <2>1, <2>2, <3>1, <3>2, ScoreFalls
  <2>7. CASE ServerRestarts
    BY <1>1, <2>7 DEF ServerRestarts, NoObservation
  <2>8. CASE Heard \/ (\E i \in DOMAIN touches : Touched(i)) \/ RowSynced \/ UNCHANGED directoryVars
    BY <2>6, <2>8 DEF Heard, Touched, RowSynced, directoryVars
  <2>9. QED
    BY <1>1, <2>3, <2>4, <2>5, <2>6, <2>7, <2>8 DEF DirectoryNext
<1>2. DirectoryInv => observation \in Observation
  BY DEF DirectoryInv, DirectoryTypeOK, Observation
<1>3. DirectoryInv /\ [DirectoryNext]_directoryVars
        => [(/\ observation.last # "none" /\ observation'.last # "none"
             /\ LocalScore(observation') > LocalScore(observation))
              => linked' /\ observation'.last = "recent"]_directoryVars
  BY <1>1, <1>2
<1>4. QED
  BY <1>3, DirectoryInitInv, DirectoryNextInv, PTL DEF DirectorySpec, OnlyConnectsRaise

-----------------------------------------------------------------------------
(* The selection of replicas: SelectionsAgree.                             *)

\* The servers of a set that are closer than one of them.
Closer(hosts, x) == {r \in hosts : Distance(r, keyHash) < Distance(x, keyHash)}

LEMMA DistancesDiffer ==
  ASSUME SelectionTypeOK, NEW x \in Hosts, NEW y \in Hosts
  PROVE  /\ Distance(x, keyHash) \in Nat
         /\ x # y => Distance(x, keyHash) # Distance(y, keyHash)
BY HashesAssumption, XorAssumption DEF Distance, SelectionTypeOK

\* A server that p selects and q does not, although q may, has as many closer ones
\* as there are replicas, counted among all.
LEMMA DisputedIsLast ==
  ASSUME SelectionTypeOK, NEW p \in Selectors, NEW q \in Selectors, NEW all,
         all = heardOf[p] \cup {p}, all = heardOf[q] \cup {q},
         NEW x \in ReplicasOf(p) \ (ReplicasOf(q) \cup {q})
  PROVE  Cardinality(Closer(all, x)) = ReplicaCount
<1> DEFINE near == Closer(all, x)
<1>1. /\ p \in Hosts /\ q \in Hosts /\ all \subseteq Hosts /\ x \in all
      /\ heardOf[p] \ {p} = all \ {p} /\ heardOf[q] \ {q} = all \ {q}
      /\ x # p /\ x # q
  BY ReplicasAssumption DEF SelectionTypeOK, ReplicasOf, Closest
<1>2. Cardinality(near \ {p}) < ReplicaCount
  <2>1. near \ {p} = {r \in all \ {p} : Distance(r, keyHash) < Distance(x, keyHash)}
    BY DEF Closer
  <2>2. QED BY <1>1, <2>1 DEF ReplicasOf, Closest
<1>3. ~(Cardinality(near \ {q}) < ReplicaCount)
  <2>1. near \ {q} = {r \in all \ {q} : Distance(r, keyHash) < Distance(x, keyHash)}
    BY DEF Closer
  <2>2. QED BY <1>1, <2>1 DEF ReplicasOf, Closest
<1>4. IsFiniteSet(near)
  BY <1>1, HostsAssumption, FS_Subset DEF Closer
<1> HIDE DEF near
<1>5. /\ Cardinality(near) \in Nat
      /\ Cardinality(near \ {p}) = IF p \in near THEN Cardinality(near) - 1 ELSE Cardinality(near)
      /\ Cardinality(near \ {q}) = IF q \in near THEN Cardinality(near) - 1 ELSE Cardinality(near)
  BY <1>4, FS_CardinalityType, FS_RemoveElement
<1>6. Cardinality(near) = ReplicaCount
  BY <1>2, <1>3, <1>5, ReplicasAssumption
<1>7. QED BY <1>6 DEF near

\* Of two servers one has more closer ones.
LEMMA OneIsCloser ==
  ASSUME SelectionTypeOK, NEW all \in SUBSET Hosts, NEW x \in all, NEW y \in all,
         Distance(x, keyHash) < Distance(y, keyHash)
  PROVE  Cardinality(Closer(all, x)) < Cardinality(Closer(all, y))
<1>1. Closer(all, x) \subseteq Closer(all, y)
  <2> SUFFICES ASSUME NEW r \in Closer(all, x) PROVE r \in Closer(all, y)
    OBVIOUS
  <2>1. /\ Distance(r, keyHash) \in Nat /\ Distance(x, keyHash) \in Nat
        /\ Distance(y, keyHash) \in Nat
    BY DistancesDiffer DEF Closer
  <2>2. QED BY <2>1 DEF Closer
<1>2. x \in Closer(all, y) /\ x \notin Closer(all, x)
  BY DistancesDiffer DEF Closer
<1>3. IsFiniteSet(Closer(all, y))
  BY HostsAssumption, FS_Subset DEF Closer
<1>4. Cardinality(Closer(all, x)) <= Cardinality(Closer(all, y))
  BY <1>1, <1>3, FS_Subset
<1>5. Cardinality(Closer(all, x)) # Cardinality(Closer(all, y))
  BY <1>1, <1>2, <1>3, FS_Subset
<1>6. Cardinality(Closer(all, x)) \in Nat /\ Cardinality(Closer(all, y)) \in Nat
  BY <1>1, <1>3, FS_Subset, FS_CardinalityType
<1>7. QED BY <1>4, <1>5, <1>6

\* Servers that know the same network select the same replicas but for one and for
\* each other: for any network, key and number of replicas.
THEOREM ReplicaSelectionsAgree == SelectionSpec => []SelectionsAgree
<1>1. SelectionInit => SelectionTypeOK
  BY DEF SelectionInit, SelectionTypeOK
<1>2. SelectionTypeOK /\ [SelectionNext]_selectionVars => SelectionTypeOK'
  BY DEF SelectionTypeOK, SelectionNext, HearsOf, Forgets, selectionVars
<1>3. SelectionTypeOK => SelectionsAgree
  <2> SUFFICES ASSUME SelectionTypeOK, NEW p \in Selectors, NEW q \in Selectors,
                      heardOf[p] \cup {p} = heardOf[q] \cup {q}
               PROVE  Cardinality(ReplicasOf(p) \ (ReplicasOf(q) \cup {q})) <= 1
    BY DEF SelectionsAgree
  <2> DEFINE all      == heardOf[p] \cup {p}
             disputed == ReplicasOf(p) \ (ReplicasOf(q) \cup {q})
  <2>1. all \in SUBSET Hosts /\ disputed \subseteq all
    BY ReplicasAssumption DEF SelectionTypeOK, ReplicasOf, Closest
  <2>2. \A x \in disputed : Cardinality(Closer(all, x)) = ReplicaCount
    BY DisputedIsLast
  <2> HIDE DEF all, disputed
  <2>3. ASSUME NEW x \in disputed, NEW y \in disputed PROVE x = y
    <3>1. ~(Distance(x, keyHash) < Distance(y, keyHash))
      BY <2>1, <2>2, OneIsCloser, ReplicasAssumption
    <3>2. ~(Distance(y, keyHash) < Distance(x, keyHash))
      BY <2>1, <2>2, OneIsCloser, ReplicasAssumption
    <3>3. /\ Distance(x, keyHash) \in Nat /\ Distance(y, keyHash) \in Nat
          /\ x # y => Distance(x, keyHash) # Distance(y, keyHash)
      BY <2>1, DistancesDiffer
    <3>4. QED BY <3>1, <3>2, <3>3
  <2>4. Cardinality(disputed) <= 1
    <3>1. CASE disputed = {}
      BY <3>1, FS_EmptySet
    <3>2. ASSUME NEW x \in disputed PROVE Cardinality(disputed) <= 1
      <4>1. disputed = {x}
        BY <2>3
      <4>2. QED BY <4>1, FS_Singleton
    <3>3. QED BY <3>1, <3>2
  <2>5. QED BY <2>4 DEF disputed
<1>4. QED BY <1>1, <1>2, <1>3, PTL DEF SelectionSpec
=============================================================================
