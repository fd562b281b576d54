------------------------------ MODULE MCPeerNetwork ------------------------------
(***************************************************************************)
(* The parts of PeerNetworkService that share no state: a behaviour        *)
(* exercises one of them, chosen in the beginning, while the others stay   *)
(* as they are, so that their state spaces add up instead of multiplying.  *)
(***************************************************************************)
EXTENDS DmDeleteGossip, DeleteRetryQueue, ServerScores, KeepAlive, PeerDirectory,
        ReplicaSelection, Bitwise

VARIABLE part   \* the part that is exercised

CONSTANTS a, b, c, d, e

vars == <<part, gossipVars, retryVars, scoreVars, keepAliveVars, directoryVars, selectionVars>>

PartInit ==
  /\ part \in {"gossip", "retry", "scores", "keepAlive", "directory", "selection"}
  /\ GossipInit /\ RetryInit /\ ScoresInit /\ KeepAliveInit /\ DirectoryInit /\ SelectionInit
  /\ part # "selection" => keyHash = CHOOSE hash \in KeyHashes : TRUE

\* every variable but those of one part
BesidesGossip    == <<retryVars, scoreVars, keepAliveVars, directoryVars, selectionVars>>
BesidesRetry     == <<gossipVars, scoreVars, keepAliveVars, directoryVars, selectionVars>>
BesidesScores    == <<gossipVars, retryVars, keepAliveVars, directoryVars, selectionVars>>
BesidesKeepAlive == <<gossipVars, retryVars, scoreVars, directoryVars, selectionVars>>
BesidesDirectory == <<gossipVars, retryVars, scoreVars, keepAliveVars, selectionVars>>
BesidesSelection == <<gossipVars, retryVars, scoreVars, keepAliveVars, directoryVars>>

PartNext ==
  /\ UNCHANGED part
  /\ \/ part = "gossip"    /\ GossipNext    /\ UNCHANGED BesidesGossip
     \/ part = "retry"     /\ RetryNext     /\ UNCHANGED BesidesRetry
     \/ part = "scores"    /\ ScoresNext    /\ UNCHANGED BesidesScores
     \/ part = "keepAlive" /\ KeepAliveNext /\ UNCHANGED BesidesKeepAlive
     \/ part = "directory" /\ DirectoryNext /\ UNCHANGED BesidesDirectory
     \/ part = "selection" /\ SelectionNext /\ UNCHANGED BesidesSelection

PartSpec == PartInit /\ [][PartNext]_vars

\* the fairness of each part's own FairSpec
PartFairSpec ==
  /\ PartSpec
  /\ WF_gossipVars(part = "gossip" /\ GossipStep)
  /\ WF_retryVars(part = "retry" /\ \E s \in Passes : PassStarts(s))
  /\ \A s \in Passes : /\ WF_retryVars(part = "retry" /\ PassGoesOn(s))
                        /\ WF_retryVars(part = "retry" /\ Settles(s))
  /\ WF_scoreVars(part = "scores" /\ Tick)
  /\ WF_scoreVars(part = "scores" /\ \E p \in persists : PersistStep(p))
  /\ WF_scoreVars(part = "scores" /\ \E f \in fetched : SyncStep(f))
  /\ \A s \in Servers : WF_scoreVars(part = "scores" /\ CycleStep(s))
  /\ WF_keepAliveVars(part = "keepAlive" /\ ReconcileStep)
  /\ WF_keepAliveVars(part = "keepAlive" /\ RedialStep)

-----------------------------------------------------------------------------
\* What KeepAlive promises holds of its own behaviours only (KeepAliveConverges): however
\* reconciles fail half way, the bootstrap servers are tagged in the end, and the tags,
\* the desired Map and the selection agree if the selection comes to rest.
DesiredConverges ==
  /\ <>[](part = "keepAlive" => BootstrapsTagged)
  /\ <>[][Wanted' = Wanted]_vars => <>[](part = "keepAlive" => Reconciled)

\* Every bootstrap server that is up, with no dead one before it in the list, is connected
\* in the end however often refills make the redial start over, and every one that is up
\* if redials come to their end (BootstrapsReturn).
BootstrapsAreBack ==
  /\ <>[](part = "keepAlive" => Reachable \subseteq connected)
  /\ []<>(redial.pc = "idle") => <>[](part = "keepAlive" => Bootstraps \cap up \subseteq connected)

-----------------------------------------------------------------------------
Ring     == {{a, b}, {b, c}, {c, d}, {d, a}}
FromA    == [event \in Events |-> a]
Line     == [s \in Servers |-> IF s = b THEN Servers \ {b} ELSE {b}]
TwoBootstraps == <<a, b>>
Alphabet == [p \in Remotes |-> CASE p = a -> 1 [] p = b -> 2 [] p = c -> 3 [] p = d -> 4]
BitwiseXor(m, n) == m ^^ n
Hashes   == [p \in Hosts |-> CASE p = a -> 0 [] p = b -> 4 [] p = c -> 1 [] p = d -> 2 [] p = e -> 7]
=============================================================================
