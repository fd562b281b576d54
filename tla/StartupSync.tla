------------------------------- MODULE StartupSync -------------------------------
(***************************************************************************)
(* Table synchronisation of ONE server with its peers: the runs of         *)
(* StartupSyncService, the vote of the validators on every row, and the    *)
(* upserts of TableSyncRunnerService.                                      *)
(*                                                                         *)
(* Each table has one row, a page of its own.  A version of the row stands *)
(* for what its canonical hash covers, updated_at included; 0 is no row.   *)
(* Of the rows of this server it is only kept which were taken from a peer *)
(* that most validators disagreed with.  A request is answered by a        *)
(* connected peer, may fail, and may stay open for ever.                   *)
(***************************************************************************)
EXTENDS Naturals, Sequences, FiniteSets, FiniteSetsExt

CONSTANTS
  Peers,       \* other servers
  Preference,  \* the peers by decreasing weight: discover_validators' order
  Weight,      \* a validator's weight, its rounded mean score
  Target,      \* sync_validator_target
  TableCount,  \* length of SYNC_TABLE_ORDER
  FirstRows,   \* the versions the peers have at first
  MaxVersion,  \* bound: versions of one row
  MaxMoves,    \* bound: connections that open or close
  MaxTimeouts, \* bound: table syncs that time out
  MaxChanges,  \* bound: rows that peers change
  None

Tables   == 1..TableCount
Runs     == 1..(MaxMoves + 1)
Versions == 0..MaxVersion

ASSUME PeersAssumption      == IsFiniteSet(Peers)
ASSUME PreferenceAssumption == Preference \in Seq(Peers)
ASSUME WeightAssumption     == Weight \in [Peers -> 1..100]
ASSUME TargetAssumption     == Target \in Nat \ {0}
ASSUME RowsAssumption       == FirstRows \in [Peers -> [Tables -> Versions]]
ASSUME TablesAssumption     == TableCount \in Nat \ {0}
ASSUME BoundsAssumption     == {MaxVersion, MaxMoves, MaxTimeouts, MaxChanges} \subseteq Nat
ASSUME NoneAssumption       ==
  None \notin Peers \cup {"SKIPPED", "FAILED", "PARTIAL", "DONE", "THROWN"}

VARIABLES
  connected, \* peers with an open connection
  started,   \* run_startup_sync_with_timeout has been called
  running,   \* is_sync_running
  queued,    \* queued_run_requested
  exec,      \* execute_sync, while one is running
  outcome,   \* how each execution ended
  job,       \* per execution and table, sync_table; it outlives a timeout
  remote,    \* the peers' rows
  weak,      \* weak_consensus_queue
  disputed,  \* ghost: tables whose row was taken without a majority for it
  count      \* what the bounds limit

vars == <<connected, started, running, queued, exec, outcome, job, remote, weak,
          disputed, count>>

runVars  == <<running, queued, exec, outcome>>
dataVars == <<job, weak, disputed>>
peerVars == <<connected, started, remote>>

Idle == [pc |-> "idle", run |-> 0, peers |-> {}, todo |-> <<>>, validators |-> <<>>,
         attempt |-> 1, table |-> 1, partial |-> FALSE]

NotBegun == [pc |-> "none", source |-> None, row |-> 0, todo |-> <<>>,
             votes |-> {}, pick |-> 0, strong |-> FALSE, backed |-> FALSE]

TypeOK ==
  /\ connected \subseteq Peers
  /\ <<started, running, queued>> \in BOOLEAN \X BOOLEAN \X BOOLEAN
  /\ exec      \in [pc: {"idle", "discover", "manifest", "table"}, run: Runs \cup {0},
                    peers: SUBSET Peers, todo: Seq(Peers), validators: Seq(Peers),
                    attempt: 1..3, table: Tables, partial: BOOLEAN]
  /\ outcome   \in [Runs -> {None, "SKIPPED", "FAILED", "PARTIAL", "DONE", "THROWN"}]
  /\ job       \in [Runs -> [Tables ->
                     [pc: {"none", "fetch", "vote", "refetch", "apply", "done", "failed"},
                      source: Peers \cup {None}, row: Versions, todo: Seq(Peers),
                      votes: SUBSET (Peers \X Versions), pick: Versions,
                      strong: BOOLEAN, backed: BOOLEAN]]]
  /\ remote    \in [Peers -> [Tables -> Versions]]
  /\ weak      \subseteq Tables
  /\ disputed  \subseteq Tables
  /\ count     \in [moves: 0..MaxMoves, timeouts: 0..MaxTimeouts,
                    changes: 0..MaxChanges]

\* the listeners are registered on a node that already accepts connections
Init ==
  /\ connected \in SUBSET Peers
  /\ started   = FALSE
  /\ running   = FALSE
  /\ queued    = FALSE
  /\ exec      = Idle
  /\ outcome   = [r \in Runs |-> None]
  /\ job       = [r \in Runs |-> [t \in Tables |-> NotBegun]]
  /\ remote    = FirstRows
  /\ weak      = {}
  /\ disputed  = {}
  /\ count     = [moves |-> 0, timeouts |-> 0, changes |-> 0]

-----------------------------------------------------------------------------
(* run_sync and execute_sync.                                              *)

\* execute_sync begins, with the peers of the runtime run_sync was called with
Execution(run, peers) == [Idle EXCEPT !.pc = "discover", !.run = run, !.peers = peers]

\* run_sync while another call is running leaves a note for it
RunSync(peers) ==
  IF running
    THEN queued' = TRUE /\ UNCHANGED <<running, exec>>
    ELSE /\ running' = TRUE
         /\ exec' = Execution(exec.run + 1, peers)
         /\ UNCHANGED queued

\* run_startup_sync_with_timeout; only its caller stops waiting at the timeout
Startup ==
  /\ ~started
  /\ started' = TRUE
  /\ RunSync(connected)
  /\ UNCHANGED <<connected, remote, dataVars, outcome, count>>

\* the peer:connect listener
PeerConnects(p) ==
  /\ p \notin connected /\ count.moves < MaxMoves
  /\ connected' = connected \cup {p}
  /\ RunSync(connected')
  /\ count' = [count EXCEPT !.moves = @ + 1]
  /\ UNCHANGED <<started, remote, dataVars, outcome>>

PeerDisconnects(p) ==
  /\ p \in connected /\ count.moves < MaxMoves
  /\ connected' = connected \ {p}
  /\ count' = [count EXCEPT !.moves = @ + 1]
  /\ UNCHANGED <<started, remote, runVars, dataVars>>

\* what execute_sync returns to: the loop over queued runs in run_sync
ReturnsIgnoringQueue(result) ==   \* mutant
  /\ outcome' = [outcome EXCEPT ![exec.run] = result]
  /\ queued'  = queued
  /\ running' = FALSE
  /\ exec'    = [Idle EXCEPT !.run = exec.run]

Returns(result) ==
  /\ outcome' = [outcome EXCEPT ![exec.run] = result]
  /\ queued'  = FALSE
  /\ running' = queued
  /\ exec'    = IF queued THEN Execution(exec.run + 1, exec.peers)
                ELSE [Idle EXCEPT !.run = exec.run]

FirstOf(s) == SubSeq(s, 1, IF Len(s) < Target THEN Len(s) ELSE Target)

\* discover_validators: known are those peers that have a row in server_node (a
\* peer that has just connected may not have one yet)
Discover(known) ==
  LET validators == FirstOf(SelectSeq(Preference, LAMBDA p : p \in known)) IN
  /\ exec.pc = "discover"
  /\ known \subseteq exec.peers
  /\ IF validators = <<>>
       THEN Returns("SKIPPED")
       ELSE /\ exec' = [exec EXCEPT !.pc = "manifest", !.todo = validators,
                                    !.validators = validators]
            /\ UNCHANGED <<running, queued, outcome>>
  /\ UNCHANGED <<peerVars, dataVars, count>>

\* the database fails: the error leaves run_sync, queued run and all
DiscoverThrows ==
  /\ exec.pc = "discover"
  /\ running' = FALSE
  /\ exec'    = [Idle EXCEPT !.run = exec.run]
  /\ outcome' = [outcome EXCEPT ![exec.run] = "THROWN"]
  /\ UNCHANGED <<peerVars, dataVars, queued, count>>

\* a peer's protocol handlers answer what arrives on an open connection
Answers(p) == p \in connected

\* sync_table of table t begins in the current execution
SyncBegins(t, source) ==
  job' = [job EXCEPT ![exec.run][t] =
            [NotBegun EXCEPT !.pc = "fetch", !.source = source, !.todo = exec.validators]]

ManifestAnswered ==
  /\ exec.pc = "manifest"
  /\ exec.todo # <<>> /\ Answers(Head(exec.todo))
  /\ exec' = [exec EXCEPT !.pc = "table", !.todo = <<Head(exec.todo)>>]
  /\ SyncBegins(1, Head(exec.todo))
  /\ UNCHANGED <<peerVars, weak, disputed, running, queued, outcome, count>>

\* pick_manifest_source_validator: after three rounds over the validators
SameAttempt(attempt) == attempt   \* mutant

NextAttempt(attempt) == attempt + 1

ManifestFails ==
  /\ exec.pc = "manifest"
  /\ exec.todo # <<>>
  /\ IF Len(exec.todo) > 1 THEN
       /\ exec' = [exec EXCEPT !.todo = Tail(@)]
       /\ UNCHANGED <<running, queued, outcome>>
     ELSE IF NextAttempt(exec.attempt) <= 3 THEN
       /\ exec' = [exec EXCEPT !.todo = exec.validators, !.attempt = NextAttempt(@)]
       /\ UNCHANGED <<running, queued, outcome>>
     ELSE Returns("FAILED")
  /\ UNCHANGED <<peerVars, dataVars, count>>

\* the loop over the tables goes on, or the execution ends
TimeoutForgotten(partial) == exec.partial   \* mutant

Partial(partial) == exec.partial \/ partial

TableLeft(partial) ==
  IF exec.table < TableCount
    THEN /\ exec' = [exec EXCEPT !.table = @ + 1, !.partial = Partial(partial)]
         /\ SyncBegins(exec.table + 1, Head(exec.todo))
         /\ UNCHANGED <<running, queued, outcome>>
    ELSE /\ Returns(IF Partial(partial) THEN "PARTIAL" ELSE "DONE")
         /\ UNCHANGED job

TableEnds ==
  /\ exec.pc = "table"
  /\ job[exec.run][exec.table].pc \in {"done", "failed"}
  /\ TableLeft(job[exec.run][exec.table].pc = "failed")
  /\ UNCHANGED <<peerVars, weak, disputed, count>>

\* with_timeout: the loop goes on, and so does the table's sync
TableTimesOut ==
  /\ exec.pc = "table"
  /\ job[exec.run][exec.table].pc \notin {"done", "failed"}
  /\ count.timeouts < MaxTimeouts
  /\ count' = [count EXCEPT !.timeouts = @ + 1]
  /\ TableLeft(TRUE)
  /\ UNCHANGED <<peerVars, weak, disputed>>

-----------------------------------------------------------------------------
(* The vote.                                                               *)

WeightOf(peers) == MapThenSumSet(LAMBDA p : Weight[p], peers)

\* validators that voted for a version, and those that had any
VotersFor(votes, v) == {p \in Peers : <<p, v>> \in votes}
Voters(votes)       == {p \in Peers : \E v \in Versions \ {0} : <<p, v>> \in votes}

\* resolve_row_consensus: the heaviest version; which of two equal ones the order
\* of their hashes decides, and 0 if nobody has the row
Winners(votes) ==
  LET held == {v \in Versions \ {0} : VotersFor(votes, v) # {}} IN
  IF held = {} THEN {0}
  ELSE {v \in held : \A u \in held :
          WeightOf(VotersFor(votes, v)) >= WeightOf(VotersFor(votes, u))}

HalfIsEnough(votes, v) ==   \* mutant
  v # 0 /\ 2 * WeightOf(VotersFor(votes, v)) >= WeightOf(Voters(votes))
        /\ Cardinality(votes) > 1

StrongConsensus(votes, v) ==
  v # 0 /\ 2 * WeightOf(VotersFor(votes, v)) > WeightOf(Voters(votes))
        /\ Cardinality(votes) > 1

\* (ghost) those that voted for a version weigh more than all that voted for
\* another one, and it is not the source's word alone
Outweighs(votes, v) ==
  /\ WeightOf(VotersFor(votes, v)) > WeightOf(Voters(votes) \ VotersFor(votes, v))
  /\ Cardinality(votes) > 1

-----------------------------------------------------------------------------
(* sync_table.                                                             *)

Becomes(r, t, j) == job' = [job EXCEPT ![r][t] = j]

\* enqueue_weak_consensus_row
EnqueuedIf(condition, t) == weak' = IF condition THEN weak \cup {t} ELSE weak

\* the row a peer reads from its table when it handles a request
RowOf(p, t) == remote[p][t]

\* sync.fetch
Fetched(r, t) ==
  LET j == job[r][t] IN
  /\ j.pc = "fetch" /\ Answers(j.source)
  /\ Becomes(r, t, IF RowOf(j.source, t) = 0 THEN [NotBegun EXCEPT !.pc = "done"]
                   ELSE [j EXCEPT !.pc = "vote", !.row = RowOf(j.source, t)])
  /\ UNCHANGED <<peerVars, runVars, weak, disputed, count>>

\* the row the job goes on to apply; backed (ghost): most of the weight is for it
ToApply(j, v, backed) ==
  [j EXCEPT !.pc = "apply", !.row = v, !.todo = <<>>, !.votes = {}, !.pick = 0,
            !.strong = FALSE, !.backed = backed]

\* choose_hashes and resolve_rows_from_consensus on the votes collected: the
\* source's row stands, or its supporters are asked for the row that won
Resolved(r, t, votes) ==
  LET j == job[r][t] IN
  \E v \in Winners(votes) :
    IF v \in {0, j.row}
      THEN /\ EnqueuedIf(~StrongConsensus(votes, v), t)
           /\ Becomes(r, t, ToApply(j, j.row, Outweighs(votes, j.row)))
      ELSE /\ UNCHANGED weak
           /\ Becomes(r, t, [j EXCEPT !.pc = "refetch", !.pick = v, !.votes = {},
                !.strong = StrongConsensus(votes, v), !.backed = Outweighs(votes, v),
                !.todo = SelectSeq(Preference, LAMBDA p : p \in VotersFor(votes, v))])

\* the votes after a validator was asked: with its vote, or without
AfterAsking(p, t, votes) ==
  {votes} \cup (IF Answers(p) THEN {votes \cup {<<p, RowOf(p, t)>>}} ELSE {})

\* collect_votes: one validator after the other; who fails is passed over
Voted(r, t) ==
  LET j == job[r][t] IN
  /\ j.pc = "vote"
  /\ \E votes \in AfterAsking(Head(j.todo), t, j.votes) :
       IF Len(j.todo) > 1
         THEN /\ Becomes(r, t, [j EXCEPT !.todo = Tail(@), !.votes = votes])
              /\ UNCHANGED weak
         ELSE Resolved(r, t, votes)
  /\ UNCHANGED <<peerVars, runVars, disputed, count>>

\* fetch_row_from_supporters: a supporter's row may have changed since its vote
Refetched(r, t) ==
  LET j == job[r][t] IN
  /\ j.pc = "refetch" /\ Answers(Head(j.todo))
  /\ RowOf(Head(j.todo), t) = j.pick
  /\ EnqueuedIf(~j.strong, t)
  /\ Becomes(r, t, ToApply(j, j.pick, j.backed))
  /\ UNCHANGED <<peerVars, runVars, disputed, count>>

\* a supporter fails or has another row by now; after the last one the source's
\* row is taken
RefetchFails(r, t) ==
  LET j == job[r][t] IN
  /\ j.pc = "refetch"
  /\ IF Len(j.todo) > 1
       THEN /\ Becomes(r, t, [j EXCEPT !.todo = Tail(@)])
            /\ UNCHANGED weak
       ELSE /\ EnqueuedIf(TRUE, t)
            /\ Becomes(r, t, ToApply(j, j.row, FALSE))
  /\ UNCHANGED <<peerVars, runVars, disputed, count>>

Ends(r, t, how) == Becomes(r, t, [NotBegun EXCEPT !.pc = how])

\* the upsert of a row that most of the weight is for, or is not
Upserted(t, backed) ==
  disputed' = IF backed THEN disputed \ {t} ELSE disputed \cup {t}

\* apply_single_row: a local row with a later timestamp stays (other modules stamp
\* rows as well, so that either outcome is possible); the page after this is empty
Applied(r, t) ==
  LET j == job[r][t] IN
  /\ j.pc = "apply"
  /\ \/ Upserted(t, j.backed)
     \/ UNCHANGED disputed
  /\ Ends(r, t, "done")
  /\ UNCHANGED <<peerVars, runVars, weak, count>>

\* a fetch or a database operation fails
SyncThrows(r, t) ==
  /\ job[r][t].pc \in {"fetch", "apply"}
  /\ Ends(r, t, "failed")
  /\ UNCHANGED <<peerVars, runVars, weak, disputed, count>>

-----------------------------------------------------------------------------
(* Other writers.                                                          *)

\* a peer's row changes: to a new version, to one another server has, or it goes
RemoteChanges(p, t, v) ==
  /\ remote[p][t] # v /\ count.changes < MaxChanges
  /\ remote' = [remote EXCEPT ![p][t] = v]
  /\ count'  = [count EXCEPT !.changes = @ + 1]
  /\ UNCHANGED <<connected, started, runVars, dataVars>>

-----------------------------------------------------------------------------
ExecStep ==
  \/ \E known \in SUBSET Peers : Discover(known)
  \/ ManifestAnswered
  \/ ManifestFails
  \/ TableEnds

JobStep(r, t) ==
  \/ Fetched(r, t)
  \/ Voted(r, t)
  \/ Refetched(r, t)
  \/ RefetchFails(r, t)
  \/ Applied(r, t)
  \/ SyncThrows(r, t)

Next ==
  \/ Startup
  \/ \E p \in Peers : PeerConnects(p) \/ PeerDisconnects(p)
  \/ ExecStep
  \/ DiscoverThrows
  \/ TableTimesOut
  \/ \E r \in Runs, t \in Tables : JobStep(r, t)
  \/ \E p \in Peers, t \in Tables, v \in Versions : RemoteChanges(p, t, v)

Spec == Init /\ [][Next]_vars

\* the request for the manifest is open, to a validator that is connected
AwaitsManifest == exec.pc = "manifest" /\ Answers(Head(exec.todo))

\* The database answers, table timers fire, and a manifest request to a peer that is
\* gone fails; nothing ends one to a connected peer, which has no timeout.  A table's
\* requests may stay open for ever too, except that those of the current table settle
\* once MaxTimeouts timers have fired.
Fairness ==
  /\ WF_vars(ExecStep /\ ~AwaitsManifest)
  /\ WF_vars(TableTimesOut)
  /\ WF_vars(count.timeouts = MaxTimeouts /\ exec.pc = "table" /\ JobStep(exec.run, exec.table))

FairSpec == Spec /\ Fairness

-----------------------------------------------------------------------------
(* Properties.                                                             *)

\* A row that was taken from a peer although no majority of the weight that
\* voted has it is remembered in weak_consensus_queue: when the vote was split,
\* when one validator alone answered, and when those that supported the winner
\* have changed it since and the source's row is taken instead.
WeakIsQueued == disputed \subseteq weak

\* An execution logged as DONE has synchronised every table.
DoneIsComplete ==
  \A r \in Runs : outcome[r] = "DONE" => \A t \in Tables : job[r][t].pc = "done"

\* A run is held up by one thing alone: a manifest request that a connected validator
\* leaves open for ever.  It ends otherwise, whether its validators answer, fail or leave
\* and however long they keep a table's requests open.
EveryRunEnds == []<>~running \/ <>[]AwaitsManifest

\* A run asked for while another is under way takes place after it, if that is not held
\* up: the flag is taken down by a new execution, unless the database failed.
QueuedRunHappens ==
  \A r \in Runs : \/ <>[]AwaitsManifest
                  \/ (queued /\ exec.pc # "idle" /\ exec.run = r)
                       ~> (exec.run > r \/ outcome[r] = "THROWN")
=============================================================================
