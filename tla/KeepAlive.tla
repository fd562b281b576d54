------------------------------- MODULE KeepAlive -------------------------------
(***************************************************************************)
(* The keep-alive peers of ONE server: which peers PeerNetworkService      *)
(* wants to stay connected to, the tags it gives them in libp2p's peer     *)
(* store, and the redialling of those that are gone.                       *)
(*                                                                         *)
(* reconcile_keep_alive_tags and redial_keep_alive_peers each run one at a *)
(* time and are cut at their awaits; the redial iterates over the Map that *)
(* the reconcile clears and fills again, in the order of its entries.  A   *)
(* call that finds its flag taken returns and is not an action.  Either    *)
(* call may be made at any time: timers and peer events make it.           *)
(***************************************************************************)
EXTENDS Integers, FiniteSets, Sequences, SequencesExt, FiniteSetsExt

CONSTANTS
  Remotes,       \* the other servers
  BootstrapList, \* keep_alive_bootstrap_peer_ids, in its order
  CoreCount,     \* keep_alive_core_count
  ByName,        \* the remotes in the order of their ids
  MaxScore,      \* bound: what mean_score and report_count come to together
  MaxFreshness,  \* bound: how many freshness_ms differ, less one
  MaxChanges     \* bound: remotes that die, return or are scored anew, and failures

Bootstraps == ToSet(BootstrapList)

ASSUME BootstrapsAssumption == BootstrapList \in Seq(Remotes) /\ IsInjective(BootstrapList)
ASSUME NamesAssumption      == ByName \in [Remotes -> Nat]
ASSUME CountsAssumption     == /\ CoreCount \in Nat /\ MaxScore \in Nat
                               /\ MaxFreshness \in Nat /\ MaxChanges \in Nat

VARIABLES
  up,         \* remotes that are running
  connected,  \* remotes there is a connection to
  known,      \* remotes with an observation or a ServerNode row
  score,      \* per remote, its aggregate; 0 for none
  freshness,  \* per remote, freshness_ms: when it was last heard of, by its order
  tags,       \* per remote, its keep-alive tags in the peer store
  desired,    \* keep_alive_desired_peers, in the order of its entries
  reconcile,  \* the call under way: where it is, the peers it wants, peers to merge
  redial,     \* the call under way: where it is, its dial, the entries ahead of it
  changes     \* changes so far

keepAliveVars ==
  <<up, connected, known, score, freshness, tags, desired, reconcile, redial, changes>>

Roles == {"bootstrap", "core"}
NoReconcile == [pc |-> "idle", wanted |-> <<>>, merges |-> {}]
NoRedial == [pc |-> "idle", target |-> {}, todo |-> <<>>]

KeepAliveTypeOK ==
  /\ up \subseteq Remotes /\ connected \subseteq up /\ known \subseteq Remotes
  /\ score \in [Remotes -> 0..MaxScore]
  /\ freshness \in [Remotes -> 0..MaxFreshness]
  /\ tags  \in [Remotes -> SUBSET Roles]
  /\ desired \in Seq(Remotes)
  /\ reconcile \in [pc: {"idle", "select", "store", "merge"}, wanted: Seq(Remotes),
                    merges: SUBSET Remotes]
  /\ redial \in [pc: {"idle", "iterate", "dial"}, target: SUBSET Remotes, todo: Seq(Remotes)]
  /\ changes \in 0..MaxChanges

KeepAliveInit ==
  /\ up = Remotes /\ connected = {} /\ known = Bootstraps
  /\ score = [p \in Remotes |-> 0] /\ freshness = [p \in Remotes |-> 0]
  /\ tags  = [p \in Remotes |-> {}]
  /\ desired = <<>>
  /\ reconcile = NoReconcile /\ redial = NoRedial
  /\ changes = 0

-----------------------------------------------------------------------------
\* the order of select_core_keep_alive_peer_ids: by score, then by connection, by
\* freshness and by id
Ranks(p, q) ==
  LET Key(r) == <<score[r], IF r \in connected THEN 1 ELSE 0, freshness[r], -ByName[r]>>
  IN  \E i \in 1..4 : /\ Key(p)[i] > Key(q)[i]
                       /\ \A j \in 1..(i - 1) : Key(p)[j] = Key(q)[j]

CoreCandidates == {p \in Remotes \ Bootstraps : p \in known \/ p \in connected \/ score[p] > 0}

\* slice(0, normalized_core_count) of the ranked candidates
CorePeers ==
  {p \in CoreCandidates : Cardinality({q \in CoreCandidates : Ranks(q, p)}) < CoreCount}

\* build_desired_keep_alive_peers
Wanted == BootstrapList \o SetToSortSeq(CorePeers, Ranks)

\* what the Map says of its entries: cores are never bootstraps
RoleOf(p) == IF p \in Bootstraps THEN "bootstrap" ELSE "core"

\* the role a peer has by its tags, {} for none
RoleByTags(p) == IF "bootstrap" \in tags[p] THEN {"bootstrap"} ELSE tags[p]

TagsFor(peers, p) == IF p \in ToSet(peers) THEN {RoleOf(p)} ELSE {}

-----------------------------------------------------------------------------
\* reconcile_keep_alive_tags, with the flag free
ReconcileBegins ==
  /\ reconcile.pc = "idle"
  /\ reconcile' = [reconcile EXCEPT !.pc = "select"]
  /\ UNCHANGED <<up, connected, known, score, freshness, tags, desired, redial, changes>>

\* the queries of select_core_keep_alive_peer_ids have answered
Selected ==
  /\ reconcile.pc = "select"
  /\ reconcile' = [reconcile EXCEPT !.pc = "store", !.wanted = Wanted]
  /\ UNCHANGED <<up, connected, known, score, freshness, tags, desired, redial, changes>>

AddsOnly(wanted) == {p \in ToSet(wanted) : RoleByTags(p) # {RoleOf(p)}}   \* mutant

\* peers to tag, and peers to take the tags from
MergesFor(wanted) == {p \in Remotes : RoleByTags(p) # TagsFor(wanted, p)}

\* peer_store.all()
StoreRead ==
  /\ reconcile.pc = "store"
  /\ reconcile' = [reconcile EXCEPT !.pc = "merge", !.merges = MergesFor(reconcile.wanted)]
  /\ UNCHANGED <<up, connected, known, score, freshness, tags, desired, redial, changes>>

Merged(p) ==
  /\ reconcile.pc = "merge" /\ p \in reconcile.merges
  /\ tags' = [tags EXCEPT ![p] = TagsFor(reconcile.wanted, p)]
  /\ reconcile' = [reconcile EXCEPT !.merges = @ \ {p}]
  /\ UNCHANGED <<up, connected, known, score, freshness, desired, redial, changes>>

\* clear() and set(): an iteration under way goes on with the first of the new entries
Refill ==
  /\ reconcile.pc = "merge" /\ reconcile.merges = {}
  /\ desired' = reconcile.wanted
  /\ redial' = [redial EXCEPT !.todo = IF redial.pc = "idle" THEN <<>> ELSE reconcile.wanted]
  /\ reconcile' = NoReconcile
  /\ UNCHANGED <<up, connected, known, score, freshness, tags, changes>>

\* finally: the flag is free again
AfterFailure == NoReconcile

ReconcileFails ==
  /\ reconcile.pc # "idle" /\ changes < MaxChanges
  /\ reconcile' = AfterFailure
  /\ changes' = changes + 1
  /\ UNCHANGED <<up, connected, known, score, freshness, tags, desired, redial>>

-----------------------------------------------------------------------------
\* redial_keep_alive_peers, with the flag free; an empty Map is reconciled first,
\* unless a reconcile is under way
RedialBegins ==
  /\ redial.pc = "idle"
  /\ desired # <<>> \/ reconcile.pc # "idle"
  /\ redial' = [NoRedial EXCEPT !.pc = "iterate", !.todo = desired]
  /\ UNCHANGED <<up, connected, known, score, freshness, tags, desired, reconcile, changes>>

DialsCoreOnly(p) == p \notin connected /\ p \notin Bootstraps   \* mutant

\* connected peers are passed over without an await
Dialled(p) == p \notin connected

\* the entry is looked up in the peer store and dialled; both are awaited
RedialVisits(i) ==
  /\ redial.pc = "iterate" /\ i \in DOMAIN redial.todo
  /\ Dialled(redial.todo[i]) /\ \A j \in 1..(i - 1) : ~Dialled(redial.todo[j])
  /\ redial' = [pc |-> "dial", target |-> {redial.todo[i]},
                todo |-> SubSeq(redial.todo, i + 1, Len(redial.todo))]
  /\ UNCHANGED <<up, connected, known, score, freshness, tags, desired, reconcile, changes>>

\* known addresses: a bootstrap's own, or what a connection left in the store
Addressable(p) == p \in Bootstraps \/ p \in known

\* dial succeeds, fails or times out; a peer without an address is not dialled
DialEnds ==
  LET dialled == {p \in redial.target : Addressable(p)} IN
  /\ redial.pc = "dial"
  /\ connected' = connected \cup (dialled \cap up)
  /\ known' = known \cup dialled
  /\ redial' = [redial EXCEPT !.pc = "iterate", !.target = {}]
  /\ UNCHANGED <<up, score, freshness, tags, desired, reconcile, changes>>

RedialEnds ==
  /\ redial.pc = "iterate" /\ ~\E p \in ToSet(redial.todo) : Dialled(p)
  /\ redial' = NoRedial
  /\ UNCHANGED <<up, connected, known, score, freshness, tags, desired, reconcile, changes>>

-----------------------------------------------------------------------------
\* a remote dials in
RemoteConnects(p) ==
  /\ p \in up \ connected /\ changes < MaxChanges
  /\ connected' = connected \cup {p}
  /\ known' = known \cup {p}
  /\ changes' = changes + 1
  /\ UNCHANGED <<up, score, freshness, tags, desired, reconcile, redial>>

\* a remote goes down or comes back
RemoteMoves(p) ==
  /\ changes < MaxChanges
  /\ up' = IF p \in up THEN up \ {p} ELSE up \cup {p}
  /\ connected' = connected \ {p}
  /\ changes' = changes + 1
  /\ UNCHANGED <<known, score, freshness, tags, desired, reconcile, redial>>

\* reports arrive or grow old
ScoreMoves(p, v) ==
  /\ v # score[p] /\ changes < MaxChanges
  /\ score' = [score EXCEPT ![p] = v]
  /\ changes' = changes + 1
  /\ UNCHANGED <<up, connected, known, freshness, tags, desired, reconcile, redial>>

\* every hello, dial, report and score cycle stamps a peer anew, and stamps are lost
\* with the reports and observations that carry them: for ever, and in any order
Refreshed(p, f) ==
  /\ p \notin Bootstraps /\ f # freshness[p]
  /\ freshness' = [freshness EXCEPT ![p] = f]
  /\ UNCHANGED <<up, connected, known, score, tags, desired, reconcile, redial, changes>>

ReconcileStep == ReconcileBegins \/ Selected \/ StoreRead \/ Refill \/ (\E p \in Remotes : Merged(p))
RedialStep ==
  RedialBegins \/ DialEnds \/ RedialEnds \/ (\E i \in DOMAIN redial.todo : RedialVisits(i))

KeepAliveNext ==
  \/ ReconcileStep \/ RedialStep \/ ReconcileFails
  \/ \E p \in Remotes : RemoteConnects(p) \/ RemoteMoves(p)
  \/ \E p \in Remotes, v \in 0..MaxScore : ScoreMoves(p, v)
  \/ \E p \in Remotes, f \in 0..MaxFreshness : Refreshed(p, f)

KeepAliveSpec == KeepAliveInit /\ [][KeepAliveNext]_keepAliveVars

\* the timers fire, the database, the peer store and the dials answer
KeepAliveFairSpec ==
  /\ KeepAliveSpec
  /\ WF_keepAliveVars(ReconcileStep) /\ WF_keepAliveVars(RedialStep)

-----------------------------------------------------------------------------
(* Properties.                                                             *)

\* the tags, the desired Map and the selection agree
Reconciled == desired = Wanted /\ \A p \in Remotes : tags[p] = TagsFor(desired, p)

BootstrapsTagged ==
  \A p \in Bootstraps : p \in ToSet(desired) /\ tags[p] = {"bootstrap"}

\* up, and no bootstrap server before it in the list is down
Reachable == {p \in Bootstraps : \A i \in DOMAIN BootstrapList :
                (\A j \in 1..(i - 1) : BootstrapList[j] # p) => BootstrapList[i] \in up}

\* However reconciles fail half way, and although one that finds another under way is
\* dropped: the bootstrap servers are tagged in the end, and so are the cores if the
\* selection comes to rest.  Nothing in the code makes it: two candidates with equal
\* scores change places whenever one of them is heard of.
KeepAliveConverges ==
  /\ <>[]BootstrapsTagged
  /\ <>[][Wanted' = Wanted]_keepAliveVars => <>[]Reconciled

\* Refills make the redial start over, however often.  A bootstrap server that is up is
\* connected in the end if no dead one comes before it in the list: the dial of a dead
\* one lasts until it times out, and a refill in that time keeps those behind it from
\* their turn.  They have theirs if redials do come to their end.
BootstrapsReturn ==
  /\ <>[](Reachable \subseteq connected)
  /\ []<>(redial.pc = "idle") => <>[](Bootstraps \cap up \subseteq connected)
=============================================================================
