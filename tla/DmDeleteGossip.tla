------------------------------ MODULE DmDeleteGossip ------------------------------
(***************************************************************************)
(* The gossip of deleted direct messages: DmDeleteGossipService with the   *)
(* publisher, the broadcast and the protocol handler of                    *)
(* PeerNetworkService.  An event stands for its id and for the message it  *)
(* deletes; nothing in the repository publishes the same message twice.    *)
(*                                                                         *)
(* A handler is cut at its awaits: the read of the stream, the check of    *)
(* the signature, the delete.  A message whose stream cannot be opened, or *)
(* breaks, is lost.  Server keys are good: a signature fails only because  *)
(* the signed hash is of something else than what has arrived.             *)
(***************************************************************************)
EXTENDS Naturals, FiniteSets

CONSTANTS
  Peers,      \* servers, by libp2p peer id
  Events,     \* published events
  Origin,     \* per event, the server that publishes it
  FirstLinks, \* the connections in the beginning, a set of two-element sets
  MaxHops,    \* max_hops: sync_validator_target, at least 1
  MaxMoves    \* bound: connections that open or close

ASSUME OriginAssumption == Origin \in [Events -> Peers]
ASSUME HopsAssumption   == MaxHops \in Nat \ {0}
ASSUME MovesAssumption  == MaxMoves \in Nat
ASSUME LinksAssumption  == \A l \in FirstLinks : \E p, q \in Peers : p # q /\ l = {p, q}

VARIABLES
  links,     \* open connections
  published, \* events that have been published
  held,      \* per server, the events whose message it still holds
  wire,      \* messages on their way
  seen,      \* per server, dedupe_cache
  handlers,  \* protocol handlers under way
  audience,  \* ghost: per event, the peers its publisher was connected to
  direct,    \* ghost: per event, the peers that read the publisher's own copy
  failed,    \* ghost: per event, the peers whose delete failed
  moves      \* how often the connections have changed

gossipVars == <<links, published, held, wire, seen, handlers, audience, direct, failed, moves>>

Message == [event: Events, hop_count: 0..MaxHops, from: Peers, to: Peers]
Handler == [message: Message, pc: {"verify", "delete"}]

GossipTypeOK ==
  /\ links     \subseteq {{p, q} : p, q \in Peers}
  /\ published \subseteq Events
  /\ held      \in [Peers -> SUBSET Events]
  /\ wire      \subseteq Message
  /\ seen      \in [Peers -> SUBSET Events]
  /\ handlers  \subseteq Handler
  /\ audience  \in [Events -> SUBSET Peers]
  /\ direct    \in [Events -> SUBSET Peers]
  /\ failed    \in [Events -> SUBSET Peers]
  /\ moves     \in 0..MaxMoves

GossipInit ==
  /\ links     = FirstLinks
  /\ published = {}
  /\ held      = [p \in Peers |-> Events]
  /\ wire      = {}
  /\ seen      = [p \in Peers |-> {}]
  /\ handlers  = {}
  /\ audience  = [e \in Events |-> {}]
  /\ direct    = [e \in Events |-> {}]
  /\ failed    = [e \in Events |-> {}]
  /\ moves     = 0

ConnectedPeers(p) == {q \in Peers \ {p} : {p, q} \in links}

-----------------------------------------------------------------------------
\* create_event_hash covers every field but the signature
EventHashWithoutHops(e, hop_count) == <<e>>   \* mutant

EventHash(e, hop_count) == <<e, hop_count>>

\* create_event signs the event it creates, with hop_count 0
SignedAfterFirstHop(e) == EventHash(e, 1)   \* mutant

SignedHash(e) == EventHash(e, 0)

\* verify_event_signature
HasValidSignature(m) == EventHash(m.event, m.hop_count) = SignedHash(m.event)

ForwardedUncounted(m) == m   \* mutant

\* create_forwarded_event: the signature goes with it
Forwarded(m) == [m EXCEPT !.hop_count = @ + 1]

CanForward(m) == m.hop_count < MaxHops

\* broadcast_dm_delete_gossip_event: to each peer, as long as it is connected
Broadcast(p, m, excluded) ==
  {[m EXCEPT !.from = p, !.to = q] : q \in ConnectedPeers(p) \ {excluded}}

-----------------------------------------------------------------------------
\* publish_dm_delete_gossip: the publisher neither remembers nor applies it
Publish(e) ==
  /\ e \notin published
  /\ published' = published \cup {e}
  /\ wire' = wire \cup Broadcast(Origin[e], [event |-> e, hop_count |-> 0,
                                             from |-> Origin[e], to |-> Origin[e]], Origin[e])
  /\ audience' = [audience EXCEPT ![e] = ConnectedPeers(Origin[e])]
  /\ UNCHANGED <<links, held, seen, handlers, direct, failed, moves>>

\* the stream is read; an event id not remembered is remembered at once, and
\* only then is the signature looked at
Receive(m) ==
  /\ m \in wire
  /\ wire' = wire \ {m}
  /\ direct' = IF m.from = Origin[m.event] THEN [direct EXCEPT ![m.event] = @ \cup {m.to}]
                                           ELSE direct
  /\ IF m.event \in seen[m.to]
       THEN UNCHANGED <<seen, handlers>>
       ELSE /\ seen' = [seen EXCEPT ![m.to] = @ \cup {m.event}]
            /\ handlers' = handlers \cup {[message |-> m, pc |-> "verify"]}
  /\ UNCHANGED <<links, published, held, audience, failed, moves>>

\* verify_event_signature has answered
Verified(h) ==
  /\ h \in handlers /\ h.pc = "verify"
  /\ handlers' = (handlers \ {h}) \cup
       (IF HasValidSignature(h.message) THEN {[h EXCEPT !.pc = "delete"]} ELSE {})
  /\ UNCHANGED <<links, published, held, wire, seen, audience, direct, failed, moves>>

\* deleteMany has answered, the event goes on to the other connected peers
Applied(h) ==
  LET m == h.message IN
  /\ h \in handlers /\ h.pc = "delete"
  /\ handlers' = handlers \ {h}
  /\ held' = [held EXCEPT ![m.to] = @ \ {m.event}]
  /\ wire' = wire \cup (IF CanForward(m) THEN Broadcast(m.to, Forwarded(m), m.from) ELSE {})
  /\ UNCHANGED <<links, published, seen, audience, direct, failed, moves>>

\* deleteMany throws: the event stays remembered, and goes no further
ApplyFails(h) ==
  LET m == h.message IN
  /\ h \in handlers /\ h.pc = "delete"
  /\ handlers' = handlers \ {h}
  /\ failed' = [failed EXCEPT ![m.event] = @ \cup {m.to}]
  /\ UNCHANGED <<links, published, held, wire, seen, audience, direct, moves>>

\* the stream could not be opened or broke
Lost(m) ==
  /\ m \in wire
  /\ wire' = wire \ {m}
  /\ UNCHANGED <<links, published, held, seen, handlers, audience, direct, failed, moves>>

\* sync_dedupe_ttl_seconds pass: cleanup_dedupe_cache forgets the event
SeenExpires(p, e) ==
  /\ e \in seen[p]
  /\ seen' = [seen EXCEPT ![p] = @ \ {e}]
  /\ UNCHANGED <<links, published, held, wire, handlers, audience, direct, failed, moves>>

\* a connection opens, or closes and takes what is on it along
LinkMoves(l) ==
  /\ moves < MaxMoves
  /\ moves' = moves + 1
  /\ IF l \in links THEN links' = links \ {l} /\ wire' = {m \in wire : {m.from, m.to} # l}
                    ELSE links' = links \cup {l} /\ wire' = wire
  /\ UNCHANGED <<published, held, seen, handlers, audience, direct, failed>>

GossipStep ==
  \/ \E m \in wire : Receive(m)
  \/ \E h \in handlers : Verified(h) \/ Applied(h)

GossipNext ==
  \/ GossipStep
  \/ \E e \in Events : Publish(e)
  \/ \E h \in handlers : ApplyFails(h)
  \/ \E m \in wire : Lost(m)
  \/ \E p \in Peers, e \in Events : SeenExpires(p, e)
  \/ \E p, q \in Peers : p # q /\ LinkMoves({p, q})

GossipSpec == GossipInit /\ [][GossipNext]_gossipVars

\* what has arrived is read, the crypto library and the database answer
GossipFairSpec == GossipSpec /\ WF_gossipVars(GossipStep)

-----------------------------------------------------------------------------
(* Properties.                                                             *)

AppliedBy(e) == {p \in Peers : e \notin held[p]}

\* An event is applied by peers of its publisher alone, whatever max_hops is: the
\* hash that is signed covers hop_count, so what create_forwarded_event makes
\* verifies nowhere.
GossipStaysOneHop ==
  \A e \in Events : AppliedBy(e) \subseteq audience[e]

\* A server that read the publisher's own copy applies it, unless its database fails or
\* a copy forwarded by a server that has applied it came first: that copy is remembered
\* before it is rejected, and the good one is then taken for a duplicate.
OnlyForwardsSuppress ==
  \A e \in Events, p \in Peers :
    (/\ p \in direct[e] /\ p \notin AppliedBy(e) /\ p \notin failed[e]
     /\ ~\E h \in handlers : h.message.to = p /\ h.message.event = e)
      => AppliedBy(e) \ {p} # {}

\* Gossip comes to an end, although a server forgets what it has processed and
\* may process it again.
GossipDies == <>[](wire = {} /\ handlers = {})
=============================================================================
