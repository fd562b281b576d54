------------------------------ MODULE ServerScores ------------------------------
(***************************************************************************)
(* Score reports about ONE target server: PeerNetworkService's score cycle,*)
(* the gossip handler, the table of reports and the aggregate of it.       *)
(*                                                                         *)
(* A report is its reporter and its age in ticks of the clock; a reporter  *)
(* makes at most one in a tick, so that the age stands for observed_at and *)
(* expires_at, and everything that holds a report ages with the clock.     *)
(* The score itself is abstracted: an aggregate is the set of the reports  *)
(* it was computed from, as long as they are fresh (PeerDirectory has the  *)
(* score's arithmetic).  What a signature or a key says is left open.      *)
(* persist_server_score_report is cut at its awaits, and several of them   *)
(* run at one server; so is the table sync of a startup, which copies rows *)
(* of both tables from a peer.                                             *)
(***************************************************************************)
EXTENDS Naturals, FiniteSets

CONSTANTS
  Servers,     \* servers that are connected or not, without the target
  Neighbours,  \* per server, the servers it is connected to
  Reporters,   \* the servers that observe the target
  Ttl,         \* score_report_ttl_seconds, in ticks
  MaxAge,      \* score_default_max_report_age_seconds, in ticks
  GossipLimit, \* how many reports a cycle sends, 120
  Leavers,     \* bound: the servers that may leave
  MaxCalls,    \* bound: servers that run, and reports and rows that are on their way
  Syncers,     \* bound: the servers that start while the others run, and sync
  MaxSyncs     \* bound: rows that table syncs fetch

ASSUME NeighboursAssumption == Neighbours \in [Servers -> SUBSET Servers]
ASSUME ReportersAssumption  == Reporters \subseteq Servers /\ Leavers \subseteq Servers
                               /\ Syncers \subseteq Servers
ASSUME AgesAssumption       == Ttl \in Nat \ {0} /\ MaxAge \in Nat
ASSUME LimitsAssumption     == GossipLimit \in Nat \ {0} /\ MaxCalls \in Nat /\ MaxSyncs \in Nat

VARIABLES
  reports,    \* per server, the rows of ServerScoreReport
  aggregate,  \* per server, what its ServerScoreAggregate was computed from
  persists,   \* reports sent, and calls of persist_server_score_report
  fetched,    \* rows that a table sync has fetched and not yet written
  cycle,      \* per server, run_server_score_cycle: where it is and its batch
  stopped,    \* servers that have left
  syncs,      \* how many rows table syncs have fetched
  outdated    \* ghost: servers whose aggregate was read before another's write, or
              \* where a table sync has written since

scoreVars == <<reports, aggregate, persists, fetched, cycle, stopped, syncs, outdated>>

\* an expired report stays at age Ttl
Report  == [reporter: Reporters, age: 0..Ttl]
Persist == [at: Servers, report: Report, own: BOOLEAN, votes: SUBSET Report, late: BOOLEAN,
            pc: {"sent", "upsert", "trim", "write"}]
Fetched == [at: Servers, table: {"report", "aggregate"}, rows: SUBSET Report]
Idle    == [pc |-> "idle", batch |-> {}]

ScoresTypeOK ==
  /\ reports   \in [Servers -> SUBSET Report]
  /\ aggregate \in [Servers -> SUBSET Report]
  /\ persists  \subseteq Persist
  /\ fetched   \subseteq Fetched
  /\ cycle     \in [Servers -> [pc: {"idle", "persist", "gossip"}, batch: SUBSET Report]]
  /\ stopped   \subseteq Servers
  /\ syncs     \in 0..MaxSyncs
  /\ outdated  \subseteq Servers

ScoresInit ==
  /\ reports   = [s \in Servers |-> {}]
  /\ aggregate = [s \in Servers |-> {}]
  /\ persists  = {}
  /\ fetched   = {}
  /\ cycle     = [s \in Servers |-> Idle]
  /\ stopped   = {}
  /\ syncs     = 0
  /\ outdated  = {}

-----------------------------------------------------------------------------
Live(r)  == r.age < Ttl
Fresh(r) == Live(r) /\ r.age <= MaxAge

Newer(r, q) == r.reporter = q.reporter /\ r.age < q.age

\* compute_candidate_aggregates: the latest fresh report of each reporter
Votes(rows) ==
  {r \in rows : Fresh(r) /\ ~\E q \in rows : Newer(q, r)}

\* collect_reports_for_gossip: a cycle's own report, then the latest there are
Batches(s, own) ==
  LET known == {r \in Votes(reports[s]) : ~\E q \in own : q.reporter = r.reporter} IN
  {own \cup chosen : chosen \in {B \in SUBSET known :
     /\ Cardinality(own \cup B) <= GossipLimit
     /\ B = known \/ Cardinality(own \cup B) = GossipLimit
     /\ \A r \in B, q \in known \ B : r.age <= q.age}}

At(s) == {p \in persists : p.at = s}

MayCall == Cardinality(persists) + Cardinality(fetched) + Cardinality(Servers \ stopped) < MaxCalls

NewPersist(s, r, own) ==
  [at |-> s, report |-> r, own |-> own, votes |-> {}, late |-> FALSE, pc |-> "sent"]

Moves(p, pc) == persists' = (persists \ {p}) \cup {[p EXCEPT !.pc = pc]}

-----------------------------------------------------------------------------
\* generate_local_server_score_reports
CycleBegins(s) ==
  /\ s \in Reporters \ stopped /\ cycle[s] = Idle
  /\ MayCall
  /\ [reporter |-> s, age |-> 0] \notin reports[s]
  /\ cycle' = [cycle EXCEPT ![s] = [pc |-> "persist", batch |-> {[reporter |-> s, age |-> 0]}]]
  /\ persists' = persists \cup {NewPersist(s, [reporter |-> s, age |-> 0], TRUE)}
  /\ UNCHANGED <<reports, aggregate, fetched, stopped, syncs, outdated>>

\* a server that observes nothing has a cycle too
ForwardBegins(s) ==
  /\ s \in Servers \ (Reporters \cup stopped) /\ cycle[s] = Idle
  /\ \E batch \in Batches(s, {}) : cycle' = [cycle EXCEPT ![s] = [pc |-> "gossip", batch |-> batch]]
  /\ UNCHANGED <<reports, aggregate, persists, fetched, stopped, syncs, outdated>>

Collect(s) ==
  /\ cycle[s].pc = "persist" /\ ~\E p \in At(s) : p.own
  /\ \E batch \in Batches(s, cycle[s].batch) :
       cycle' = [cycle EXCEPT ![s] = [pc |-> "gossip", batch |-> batch]]
  /\ UNCHANGED <<reports, aggregate, persists, fetched, stopped, syncs, outdated>>

\* send_server_score_reports_to_peer: a peer gets the batches until one fails
Gossip(s, to, r) ==
  /\ cycle[s].pc = "gossip" /\ r \in cycle[s].batch
  /\ to \in Neighbours[s] \ stopped
  /\ MayCall
  /\ persists' = persists \cup {NewPersist(to, r, FALSE)}
  /\ UNCHANGED <<reports, aggregate, fetched, cycle, stopped, syncs, outdated>>

\* delete_expired_server_score_reports ends the cycle
CycleEnds(s) ==
  /\ cycle[s].pc = "gossip"
  /\ reports' = [reports EXCEPT ![s] = {r \in @ : Live(r)}]
  /\ cycle' = [cycle EXCEPT ![s] = Idle]
  /\ UNCHANGED <<aggregate, persists, fetched, stopped, syncs, outdated>>

ReportLost(p) ==
  /\ p \in persists /\ p.pc = "sent" /\ ~p.own
  /\ persists' = persists \ {p}
  /\ UNCHANGED <<reports, aggregate, fetched, cycle, stopped, syncs, outdated>>

\* the payload is not a report
ReportInvalid(p) ==
  /\ p \in persists /\ p.pc = "sent" /\ ~p.own
  /\ persists' = persists \ {p}
  /\ UNCHANGED <<reports, aggregate, fetched, cycle, stopped, syncs, outdated>>

\* the sender is gone, the key is not the one known of the reporter, or the
\* signature is not of that key
ReportRejected(p) ==
  /\ p \in persists /\ p.pc = "sent" /\ ~p.own
  /\ persists' = persists \ {p}
  /\ UNCHANGED <<reports, aggregate, fetched, cycle, stopped, syncs, outdated>>

\* handle_incoming_server_score_report ...
AcceptedAge(r) == Fresh(r)

\* ... and then persist_server_score_report, which gives way to a later report
Finds(p) ==
  /\ p \in persists /\ p.pc = "sent"
  /\ IF /\ p.own \/ AcceptedAge(p.report)
        /\ ~\E r \in reports[p.at] : Live(r) /\ Newer(r, p.report)
       THEN Moves(p, "upsert")
       ELSE persists' = persists \ {p}
  /\ UNCHANGED <<reports, aggregate, fetched, cycle, stopped, syncs, outdated>>

Restamped(r) == [r EXCEPT !.age = 0]   \* mutant

\* the row keeps observed_at and expires_at of the report
RowOf(r) == r

Upserts(p) ==
  /\ p \in persists /\ p.pc = "upsert"
  /\ reports' = [reports EXCEPT ![p.at] = @ \cup {RowOf(p.report)}]
  /\ Moves(p, "trim")
  /\ UNCHANGED <<aggregate, fetched, cycle, stopped, syncs, outdated>>

OthersOf(r, rows) == {q \in rows : q.reporter = r.reporter /\ q # r /\ Live(q)}   \* mutant

\* deleteMany: the reporter's older unexpired rows
Superseded(r, rows) == {q \in rows : Newer(r, q) /\ Live(q)}

\* recompute_score_aggregate_for_target reads at once: what another call does
\* between the two changes no vote
TrimsAndReads(p) ==
  LET left == reports[p.at] \ Superseded(p.report, reports[p.at]) IN
  /\ p \in persists /\ p.pc = "trim"
  /\ reports' = [reports EXCEPT ![p.at] = left]
  /\ persists' = (persists \ {p}) \cup {[p EXCEPT !.pc = "write", !.votes = Votes(left)]}
  /\ UNCHANGED <<aggregate, fetched, cycle, stopped, syncs, outdated>>

OnlyGrows(votes, old) == IF votes = {} THEN old ELSE votes \cup old   \* mutant

\* the aggregate is upserted, or deleted when there is no report
NewAggregate(votes, old) == votes

Writes(p) ==
  LET s == p.at IN
  /\ p \in persists /\ p.pc = "write"
  /\ aggregate' = [aggregate EXCEPT ![s] = NewAggregate(p.votes, @)]
  /\ persists' = {IF q.at = s /\ q.pc = "write" THEN [q EXCEPT !.late = TRUE] ELSE q
                    : q \in persists \ {p}}
  /\ outdated' = IF p.late THEN outdated \cup {s} ELSE outdated \ {s}
  /\ UNCHANGED <<reports, fetched, cycle, stopped, syncs>>

\* a table sync fetches a row of a peer's reports, or its aggregate
Fetches(s, t, table, rows) ==
  /\ syncs < MaxSyncs /\ MayCall
  /\ s \in Syncers \ stopped /\ t \in Neighbours[s] \ stopped
  /\ rows # {}
  /\ syncs' = syncs + 1
  /\ fetched' = fetched \cup {[at |-> s, table |-> table, rows |-> rows]}
  /\ UNCHANGED <<reports, aggregate, persists, cycle, stopped, outdated>>

\* apply_server_score_report: the row is upserted as it is, nothing is recomputed
ReportSynced(f) ==
  /\ f \in fetched /\ f.table = "report"
  /\ reports' = [reports EXCEPT ![f.at] = @ \cup f.rows]
  /\ persists' = {IF q.at = f.at /\ q.pc = "write" THEN [q EXCEPT !.late = TRUE] ELSE q
                    : q \in persists}
  /\ fetched' = fetched \ {f}
  /\ outdated' = outdated \cup {f.at}
  /\ UNCHANGED <<aggregate, cycle, stopped, syncs>>

\* apply_server_score_aggregate: nor is it computed from the reports there are
AggregateSynced(f) ==
  /\ f \in fetched /\ f.table = "aggregate"
  /\ aggregate' = [aggregate EXCEPT ![f.at] = f.rows]
  /\ fetched' = fetched \ {f}
  /\ outdated' = outdated \cup {f.at}
  /\ UNCHANGED <<reports, persists, cycle, stopped, syncs>>

\* the row there is newer, or the sync fails
SyncSkips(f) ==
  /\ f \in fetched
  /\ fetched' = fetched \ {f}
  /\ UNCHANGED <<reports, aggregate, persists, cycle, stopped, syncs, outdated>>

\* a server leaves with the calls it has under way
Stops(s) ==
  /\ s \in Leavers \ stopped
  /\ stopped' = stopped \cup {s}
  /\ persists' = persists \ At(s)
  /\ fetched' = {f \in fetched : f.at # s}
  /\ reports' = [reports EXCEPT ![s] = {}]
  /\ aggregate' = [aggregate EXCEPT ![s] = {}]
  /\ cycle' = [cycle EXCEPT ![s] = Idle]
  /\ UNCHANGED <<syncs, outdated>>

Aged(rs) == {[r EXCEPT !.age = IF @ < Ttl THEN @ + 1 ELSE @] : r \in rs}

\* what has been counted, without the reports that would no longer be
Faded(votes) == {r \in Aged(votes) : Fresh(r)}

Tick ==
  /\ reports'   = [s \in Servers |-> Aged(reports[s])]
  /\ aggregate' = [s \in Servers |-> Faded(aggregate[s])]
  /\ cycle'     = [s \in Servers |-> [cycle[s] EXCEPT !.batch = Aged(@)]]
  /\ persists'  = {[p EXCEPT !.report.age = IF @ < Ttl THEN @ + 1 ELSE @, !.votes = Faded(@)]
                     : p \in persists}
  /\ fetched'   = {[f EXCEPT !.rows = IF f.table = "report" THEN Aged(@) ELSE Faded(@)]
                     : f \in fetched}
  /\ UNCHANGED <<stopped, syncs, outdated>>

PersistStep(p) ==
  Finds(p) \/ Upserts(p) \/ TrimsAndReads(p) \/ Writes(p)

SyncStep(f) == ReportSynced(f) \/ AggregateSynced(f) \/ SyncSkips(f)

CycleStep(s) == CycleBegins(s) \/ ForwardBegins(s) \/ Collect(s) \/ CycleEnds(s)

ScoresNext ==
  \/ \E s \in Servers : CycleStep(s) \/ Stops(s)
  \/ \E s, to \in Servers : \E r \in cycle[s].batch : Gossip(s, to, r)
  \/ \E p \in persists :
       PersistStep(p) \/ ReportLost(p) \/ ReportInvalid(p) \/ ReportRejected(p)
  \/ \E s, t \in Servers : \/ \E r \in reports[t] : Fetches(s, t, "report", {r})
                            \/ Fetches(s, t, "aggregate", aggregate[t])
  \/ \E f \in fetched : SyncStep(f)
  \/ Tick

ScoresSpec == ScoresInit /\ [][ScoresNext]_scoreVars

\* the clock and the timer go on, and the database answers
ScoresFairSpec ==
  /\ ScoresSpec
  /\ WF_scoreVars(Tick)
  /\ WF_scoreVars(\E p \in persists : PersistStep(p))
  /\ WF_scoreVars(\E f \in fetched : SyncStep(f))
  /\ \A s \in Servers : WF_scoreVars(CycleStep(s))

-----------------------------------------------------------------------------
(* Properties.                                                             *)

\* Neither persist_server_score_report nor a table sync loses a report: a row that has
\* not expired goes away only when its server holds a newer one of the reporter,
\* although the newer one was looked for several awaits before the delete.
NewestKept ==
  [][\A s \in Servers \ stopped' : \A r \in reports[s] :
       Live(r) => \/ reports'[s] \cap ({r} \cup Aged({r})) # {}
                  \/ \E q \in reports'[s] : Newer(q, r)]_scoreVars

\* When no call is under way the aggregate is what the table says, but for reports
\* that have grown old since, unless the last one written was read before another
\* call wrote its own, or a table sync has written a report or an aggregate after it
\* was read: the next call that ends unraced makes up for both.
AggregateIsCurrent ==
  \A s \in Servers :
    (\A p \in At(s) : p.pc \notin {"trim", "write"}) /\ s \notin outdated
      => aggregate[s] = Votes(reports[s])

\* Forwarding does not keep a report alive: what a server that left has said is in
\* the end in nobody's table, although the others send it to each other and table
\* syncs copy it, expired or not; once these come to an end, which MaxSyncs makes them.
RumoursEnd ==
  <>[](\A t \in Servers : \A r \in reports[t] : r.reporter \notin stopped)
=============================================================================
