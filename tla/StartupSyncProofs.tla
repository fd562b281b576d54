--------------------------- MODULE StartupSyncProofs ---------------------------
(***************************************************************************)
(* Proofs about StartupSync: what the queue of weak rows holds and what an *)
(* execution that is logged as done has done, for any number of peers,     *)
(* tables and validators, any weights, and any number of connections,      *)
(* timeouts and changes of the peers' rows.                                *)
(***************************************************************************)
EXTENDS StartupSync, FiniteSetTheorems, FunctionTheorems, WellFoundedInduction, TLAPS

-----------------------------------------------------------------------------
(* The sum of weights.  WeightOf folds over a finite set; that it is what a *)
(* fold should be is proved by counting: a set weighs as many shares as its *)
(* members hold, the fold's equation has the count as a solution, and two   *)
(* solutions cannot differ, for there is no smallest set they differ on.    *)

\* the shares of the peers of S: as many of each as it weighs
Shares(S) == {share \in S \X (1..100) : share[2] <= Weight[share[1]]}

LEMMA PeerShares ==
  ASSUME NEW p \in Peers
  PROVE  IsFiniteSet(Shares({p})) /\ Cardinality(Shares({p})) = Weight[p]
  <1>1. Weight[p] \in 1..100
    BY WeightAssumption
  <1>2. IsFiniteSet(1..Weight[p]) /\ Cardinality(1..Weight[p]) = Weight[p]
    <2>1. PICK w \in 1..100 : w = Weight[p]
      BY <1>1
    <2>2. /\ IsFiniteSet(1..w)
          /\ Cardinality(1..w) = IF 1 > w THEN 0 ELSE w - 1 + 1
      BY FS_Interval, w \in Int, 1 \in Int
    <2>3. Cardinality(1..w) = w
      BY <2>2
    <2> QED BY <2>1, <2>2, <2>3
  <1>3. PICK number : number = [i \in 1..Weight[p] |-> <<p, i>>]
    OBVIOUS
  <1>4. number \in Bijection(1..Weight[p], Shares({p}))
    <2>0. \A i \in 1..Weight[p] : i \in 1..100 /\ i <= Weight[p]
      BY <1>1
    <2>1. number \in [1..Weight[p] -> Shares({p})]
      <3>1. ASSUME NEW i \in 1..Weight[p] PROVE <<p, i>> \in Shares({p})
        <4>1. <<p, i>> \in {p} \X (1..100)
          BY <2>0
        <4>2. <<p, i>>[1] = p /\ <<p, i>>[2] = i
          OBVIOUS
        <4> QED BY <2>0, <4>1, <4>2 DEF Shares
      <3> QED BY <1>3, <3>1
    <2>2. \A i, j \in 1..Weight[p] : number[i] = number[j] => i = j
      BY <1>3
    <2>3. \A share \in Shares({p}) : \E i \in 1..Weight[p] : number[i] = share
      <3> SUFFICES ASSUME NEW share \in Shares({p})
                   PROVE  \E i \in 1..Weight[p] : number[i] = share
        OBVIOUS
      <3>1. share \in {p} \X (1..100) /\ share[2] <= Weight[share[1]]
        BY DEF Shares
      <3>2. PICK i \in 1..100 : share = <<p, i>>
        BY <3>1
      <3>3. i \in 1..Weight[p]
        BY <1>1, <3>1, <3>2
      <3> QED BY <1>3, <3>2, <3>3
    <2> QED BY <2>1, <2>2, <2>3, Fun_IsBij
  <1> QED BY <1>2, <1>4, FS_Bijection DEF ExistsBijection

LEMMA SharesAdd ==
  ASSUME NEW S, NEW T, IsFiniteSet(Shares(S)), IsFiniteSet(Shares(T)), S \cap T = {}
  PROVE  /\ IsFiniteSet(Shares(S \cup T))
         /\ Cardinality(Shares(S \cup T)) = Cardinality(Shares(S)) + Cardinality(Shares(T))
  <1>1. Shares(S \cup T) = Shares(S) \cup Shares(T)
    BY DEF Shares
  <1>2. Shares(S) \cap Shares(T) = {}
    BY DEF Shares
  <1>3. Cardinality(Shares(S) \cap Shares(T)) = 0
    BY <1>2, FS_EmptySet
  <1>4. Cardinality(Shares(S)) \in Nat /\ Cardinality(Shares(T)) \in Nat
    BY FS_CardinalityType
  <1>5. PICK A, B : A = Shares(S) /\ B = Shares(T)
    OBVIOUS
  <1>6. /\ IsFiniteSet(A \cup B)
        /\ Cardinality(A \cup B) = Cardinality(A) + Cardinality(B) - Cardinality(A \cap B)
    BY <1>5, FS_Union
  <1>7. Cardinality(A) \in Nat /\ Cardinality(B) \in Nat /\ Cardinality(A \cap B) = 0
    BY <1>3, <1>4, <1>5
  <1>8. Cardinality(A \cup B) = Cardinality(A) + Cardinality(B)
    BY <1>6, <1>7
  <1> QED BY <1>1, <1>5, <1>6, <1>8

LEMMA SharesFinite ==
  ASSUME NEW S \in SUBSET Peers
  PROVE  IsFiniteSet(Shares(S)) /\ Cardinality(Shares(S)) \in Nat
  <1>1. IsFiniteSet(S)
    BY PeersAssumption, FS_Subset
  <1>2. IsFiniteSet(S \X (1..100))
    <2>1. IsFiniteSet(1..100)
      BY FS_Interval, 1 \in Int, 100 \in Int
    <2> QED BY <1>1, <2>1, FS_Product
  <1>3. Shares(S) \in SUBSET (S \X (1..100))
    BY DEF Shares
  <1> QED BY <1>2, <1>3, FS_Subset, FS_CardinalityType

\* the member the fold takes out of a set first
First(S) == CHOOSE p \in S : TRUE

\* g solves the fold's equation on the subsets of S
Folds(g, S) ==
  g = [s \in SUBSET S |-> IF s = {} THEN 0 ELSE Weight[First(s)] + g[s \ {First(s)}]]

LEMMA WeightIsFold ==
  ASSUME NEW S
  PROVE  WeightOf(S) = (CHOOSE g : Folds(g, S))[S]
  BY DEF WeightOf, MapThenSumSet, MapThenFoldSet, Folds, First

LEMMA CountFolds ==
  ASSUME NEW S \in SUBSET Peers
  PROVE  Folds([s \in SUBSET S |-> Cardinality(Shares(s))], S)
  <1>1. PICK g : g = [s \in SUBSET S |-> Cardinality(Shares(s))]
    OBVIOUS
  <1>2. ASSUME NEW s \in SUBSET S
        PROVE  g[s] = IF s = {} THEN 0 ELSE Weight[First(s)] + g[s \ {First(s)}]
    <2>1. CASE s = {}
      <3>1. Shares(s) = {}
        BY <2>1 DEF Shares
      <3> QED BY <1>1, <2>1, <3>1, FS_EmptySet
    <2>2. CASE s # {}
      <3>1. First(s) \in s
        BY <2>2 DEF First
      <3>2. PICK p \in Peers : p = First(s)
        BY <3>1
      <3>3. s \ {p} \in SUBSET Peers /\ s \ {p} \in SUBSET S
        OBVIOUS
      <3>4. IsFiniteSet(Shares({p})) /\ Cardinality(Shares({p})) = Weight[p]
        BY PeerShares
      <3>5. IsFiniteSet(Shares(s \ {p}))
        BY <3>3, SharesFinite
      <3>6. s = {p} \cup (s \ {p}) /\ {p} \cap (s \ {p}) = {}
        BY <3>1, <3>2
      <3>7. Cardinality(Shares(s)) = Weight[p] + Cardinality(Shares(s \ {p}))
        BY <3>4, <3>5, <3>6, SharesAdd
      <3> QED BY <1>1, <2>2, <3>2, <3>3, <3>7
    <2> QED BY <2>1, <2>2
  <1>3. g = [s \in SUBSET S |-> g[s]]
    BY <1>1
  <1>4. [s \in SUBSET S |-> g[s]] =
          [s \in SUBSET S |-> IF s = {} THEN 0 ELSE Weight[First(s)] + g[s \ {First(s)}]]
    BY <1>2
  <1> QED BY <1>1, <1>3, <1>4 DEF Folds

LEMMA FoldIsCount ==
  ASSUME NEW S \in SUBSET Peers, NEW g, Folds(g, S)
  PROVE  \A s \in SUBSET S : g[s] = Cardinality(Shares(s))
  <1>1. PICK h : h = [s \in SUBSET S |-> Cardinality(Shares(s))]
    OBVIOUS
  <1>2. Folds(h, S)
    BY <1>1, CountFolds
  <1>3. PICK D : D = {s \in SUBSET S : g[s] # h[s]}
    OBVIOUS
  <1>4. D \subseteq FiniteSubsetsOf(S)
    BY <1>3, PeersAssumption, FS_Subset DEF FiniteSubsetsOf
  <1>5. ASSUME D # {} PROVE FALSE
    <2>1. PICK s \in D : \A r \in D : ~(<<r, s>> \in StrictSubsetOrdering(S))
      BY <1>4, <1>5, FS_StrictSubsetOrderingWellFounded, WFMin
    <2>2. s \in SUBSET S /\ g[s] # h[s]
      BY <1>3, <2>1
    <2>3. s # {}
      BY <1>2, <2>2 DEF Folds
    <2>4. First(s) \in s
      BY <2>3 DEF First
    <2>5. <<s \ {First(s)}, s>> \in StrictSubsetOrdering(S)
      BY <2>2, <2>4 DEF StrictSubsetOrdering
    <2>6. g[s \ {First(s)}] = h[s \ {First(s)}]
      BY <1>3, <2>1, <2>2, <2>5
    <2>7. g[s] = Weight[First(s)] + g[s \ {First(s)}]
      BY <2>2, <2>3 DEF Folds
    <2>8. h[s] = Weight[First(s)] + h[s \ {First(s)}]
      BY <1>2, <2>2, <2>3 DEF Folds
    <2> QED BY <2>2, <2>6, <2>7, <2>8
  <1> QED BY <1>1, <1>3, <1>5

\* A set of peers weighs as many shares as its members hold.
LEMMA WeightCounts ==
  ASSUME NEW S \in SUBSET Peers
  PROVE  WeightOf(S) = Cardinality(Shares(S))
  <1>1. \E g : Folds(g, S)
    BY CountFolds
  <1>2. Folds(CHOOSE g : Folds(g, S), S)
    BY <1>1
  <1> QED BY <1>2, FoldIsCount, WeightIsFold

LEMMA WeightsAdd ==
  ASSUME NEW S \in SUBSET Peers, NEW T \in SUBSET Peers, S \cap T = {}
  PROVE  /\ WeightOf(S \cup T) = WeightOf(S) + WeightOf(T)
         /\ WeightOf(S) \in Nat /\ WeightOf(T) \in Nat
  <1>1. S \cup T \in SUBSET Peers
    OBVIOUS
  <1> QED BY <1>1, WeightCounts, SharesFinite, SharesAdd

\* What the code calls a strong consensus, more than half of the weight that voted, is a
\* majority of the weight over those that voted otherwise, whatever the weights are.
THEOREM StrongOutweighs ==
  ASSUME NEW votes, NEW v \in Versions, StrongConsensus(votes, v)
  PROVE  Outweighs(votes, v)
  <1>1. VotersFor(votes, v) \in SUBSET Peers /\ Voters(votes) \in SUBSET Peers
    BY DEF VotersFor, Voters
  <1>2. VotersFor(votes, v) \subseteq Voters(votes)
    BY DEF VotersFor, Voters, StrongConsensus
  <1>3. PICK rest \in SUBSET Peers : rest = Voters(votes) \ VotersFor(votes, v)
    BY <1>1
  <1>4. /\ Voters(votes) = VotersFor(votes, v) \cup rest
        /\ VotersFor(votes, v) \cap rest = {}
    BY <1>2, <1>3
  <1>5. /\ WeightOf(Voters(votes)) = WeightOf(VotersFor(votes, v)) + WeightOf(rest)
        /\ WeightOf(VotersFor(votes, v)) \in Nat /\ WeightOf(rest) \in Nat
    BY <1>1, <1>4, WeightsAdd
  <1>6. 2 * WeightOf(VotersFor(votes, v)) > WeightOf(Voters(votes)) /\ Cardinality(votes) > 1
    BY DEF StrongConsensus
  <1>7. WeightOf(VotersFor(votes, v)) > WeightOf(rest)
    BY <1>5, <1>6
  <1> QED BY <1>3, <1>6, <1>7 DEF Outweighs

-----------------------------------------------------------------------------
(* Executions and jobs.                                                    *)

JobPcs == {"none", "fetch", "vote", "refetch", "apply", "done", "failed"}

\* what a job is a record of: the fields the proofs speak of have their types
JobShape(j) ==
  j \in [pc: JobPcs, source: {j.source}, row: {j.row}, todo: {j.todo}, votes: {j.votes},
         pick: {j.pick}, strong: BOOLEAN, backed: BOOLEAN]

JobsAreJobs ==
  /\ job = [r \in Runs |-> [t \in Tables |-> job[r][t]]]
  /\ \A r \in Runs, t \in Tables : JobShape(job[r][t])

\* the same of the execution under way
ExecShape(e) ==
  e \in [pc: {"idle", "discover", "manifest", "table"}, run: Nat, peers: {e.peers},
         todo: {e.todo}, validators: {e.validators}, attempt: {e.attempt},
         table: Tables, partial: BOOLEAN]

Owed == (IF started THEN 1 ELSE 0) + count.moves

\* each run was asked for once: by the startup, or by a connection that opened
RunsAreAskedFor ==
  /\ started \in BOOLEAN /\ queued \in BOOLEAN /\ running \in BOOLEAN
  /\ count \in [moves: 0..MaxMoves, timeouts: {count.timeouts}, changes: {count.changes}]
  /\ exec.run + (IF queued THEN 1 ELSE 0) <= Owed
  /\ running <=> exec.pc # "idle"
  /\ exec.pc # "idle" => exec.run # 0
  /\ exec.pc \in {"discover", "manifest"} => exec.table = 1

JobsInv == JobsAreJobs /\ ExecShape(exec) /\ RunsAreAskedFor

-----------------------------------------------------------------------------
\* a version that goes on to be applied without a majority is in the queue already,
\* and a winner that is fetched again is known to have one or is queued when it arrives
ApplyingIsQueued ==
  \A r \in Runs, t \in Tables :
    /\ job[r][t].pc = "apply" /\ ~job[r][t].backed => t \in weak
    /\ job[r][t].pc = "refetch" /\ job[r][t].strong => job[r][t].backed

WeakInv == WeakIsQueued /\ ApplyingIsQueued

\* an outcome belongs to an execution that is over
DoneIsOver ==
  \A r \in Runs : outcome[r] = "DONE" => r < exec.run \/ (r = exec.run /\ exec.pc = "idle")

\* the loop over the tables has left no unfinished one behind unless it noted so
LoopIsComplete ==
  exec.pc = "table" /\ ~exec.partial =>
    \A t \in 1..(exec.table - 1) : job[exec.run][t].pc = "done"

Outcomes == {None, "SKIPPED", "FAILED", "PARTIAL", "DONE", "THROWN"}

DoneInv ==
  /\ outcome \in [Runs -> Outcomes]
  /\ DoneIsComplete
  /\ DoneIsOver
  /\ LoopIsComplete

\* One cell of a table of tables is replaced.
LEMMA CellMoves ==
  ASSUME NEW A, NEW B, NEW T, NEW f \in [A -> [B -> T]], NEW a \in A, NEW b \in B,
         NEW x \in T, NEW g, g = [f EXCEPT ![a] = [f[a] EXCEPT ![b] = x]]
  PROVE  /\ g \in [A -> [B -> T]]
         /\ g[a][b] = x
         /\ \A d \in A, j \in B : ~(d = a /\ j = b) => g[d][j] = f[d][j]
  <1>1. PICK row : row = [f[a] EXCEPT ![b] = x]
    OBVIOUS
  <1>2. row \in [B -> T] /\ row[b] = x /\ \A j \in B \ {b} : row[j] = f[a][j]
    BY <1>1
  <1>3. g = [f EXCEPT ![a] = row]
    BY <1>1
  <1> QED BY <1>2, <1>3

LEMMA JobBecomes ==
  ASSUME JobsAreJobs, NEW r \in Runs, NEW t \in Tables, NEW x, JobShape(x), Becomes(r, t, x)
  PROVE  /\ JobsAreJobs'
         /\ job'[r][t] = x
         /\ \A q \in Runs, u \in Tables : ~(q = r /\ u = t) => job'[q][u] = job[q][u]
  <1>0. PICK held : held = UNION {{job[q][u] : u \in Tables} : q \in Runs}
    OBVIOUS
  <1>1. PICK T : T = held \cup {x}
    OBVIOUS
  <1>2. ASSUME NEW q \in Runs, NEW u \in Tables
        PROVE  job[q][u] \in T
    <2>1. job[q][u] \in {job[q][w] : w \in Tables}
      OBVIOUS
    <2>2. {job[q][w] : w \in Tables} \in {{job[p][w] : w \in Tables} : p \in Runs}
      OBVIOUS
    <2> QED BY <1>0, <1>1, <2>1, <2>2
  <1>x. x \in T
    BY <1>1
  <1>3. [q \in Runs |-> [u \in Tables |-> job[q][u]]] \in [Runs -> [Tables -> T]]
    BY <1>2
  <1>4. job \in [Runs -> [Tables -> T]]
    BY <1>3 DEF JobsAreJobs
  <1>5. job' = [job EXCEPT ![r] = [job[r] EXCEPT ![t] = x]]
    BY DEF Becomes
  <1>6. /\ job' \in [Runs -> [Tables -> T]]
        /\ job'[r][t] = x
        /\ \A q \in Runs, u \in Tables : ~(q = r /\ u = t) => job'[q][u] = job[q][u]
    BY <1>4, <1>5, <1>x, CellMoves
  <1>7. job' = [q \in Runs |-> [u \in Tables |-> job'[q][u]]]
    BY <1>6
  <1>8. \A q \in Runs, u \in Tables : JobShape(job'[q][u])
    BY <1>6 DEF JobsAreJobs
  <1>9. JobsAreJobs'
    BY <1>7, <1>8 DEF JobsAreJobs, JobShape
  <1> QED BY <1>6, <1>9

LEMMA NewJobs ==
  /\ JobShape(NotBegun) /\ NotBegun.pc = "none"
  /\ \A how \in {"done", "failed"} :
       JobShape([NotBegun EXCEPT !.pc = how]) /\ [NotBegun EXCEPT !.pc = how].pc = how
  /\ \A p, s : /\ JobShape([NotBegun EXCEPT !.pc = "fetch", !.source = p, !.todo = s])
               /\ [NotBegun EXCEPT !.pc = "fetch", !.source = p, !.todo = s].pc = "fetch"
  BY DEF NotBegun, JobShape, JobPcs

\* The row of a job that goes on to apply.
LEMMA ApplyShape ==
  ASSUME NEW j, JobShape(j), NEW v, NEW backed \in BOOLEAN
  PROVE  /\ JobShape(ToApply(j, v, backed))
         /\ ToApply(j, v, backed).pc = "apply"
         /\ ToApply(j, v, backed).backed = backed
  BY DEF JobShape, JobPcs, ToApply

\* The steps that ask one peer more, or have the row to vote on.
LEMMA AskingShape ==
  ASSUME NEW j, JobShape(j), NEW s, NEW votes, NEW row
  PROVE  /\ JobShape([j EXCEPT !.todo = s, !.votes = votes])
         /\ [j EXCEPT !.todo = s, !.votes = votes].pc = j.pc
         /\ JobShape([j EXCEPT !.todo = s])
         /\ [j EXCEPT !.todo = s].pc = j.pc
         /\ [j EXCEPT !.todo = s].strong = j.strong
         /\ [j EXCEPT !.todo = s].backed = j.backed
         /\ JobShape([j EXCEPT !.pc = "vote", !.row = row])
         /\ [j EXCEPT !.pc = "vote", !.row = row].pc = "vote"
  BY DEF JobShape, JobPcs

\* A winner is a version, and one that somebody has unless it is 0.
LEMMA WinnersAreVersions ==
  ASSUME NEW votes, NEW v \in Winners(votes)
  PROVE  v \in Versions
  <1>1. 0 \in Versions
    BY BoundsAssumption DEF Versions
  <1> QED BY <1>1 DEF Winners

\* What any step of a job does: the job becomes another one that was not over, the
\* queue of weak rows grows, and what is applied without a majority is in it.
LEMMA JobMoves ==
  ASSUME JobsInv, ApplyingIsQueued, NEW r \in Runs, NEW t \in Tables, JobStep(r, t)
  PROVE  /\ UNCHANGED <<connected, started, runVars, count>>
         /\ job[r][t].pc \notin {"none", "done", "failed"}
         /\ weak \subseteq weak'
         /\ \/ disputed' \subseteq disputed
            \/ disputed' = disputed \cup {t} /\ t \in weak'
         /\ \E x : /\ JobShape(x) /\ Becomes(r, t, x)
                   /\ x.pc = "apply" /\ ~x.backed => t \in weak'
                   /\ x.pc = "refetch" /\ x.strong => x.backed
  <1>j. PICK j : j = job[r][t]
    OBVIOUS
  <1>s. JobShape(j)
    BY <1>j DEF JobsInv, JobsAreJobs
  <1>u. UNCHANGED <<connected, started, runVars, count>>
    BY DEF JobStep, Fetched, Voted, Refetched, RefetchFails, Applied, SyncThrows, peerVars
  <1>1. CASE Fetched(r, t)
    <2>1. UNCHANGED <<weak, disputed>> /\ j.pc = "fetch"
      BY <1>1, <1>j DEF Fetched
    <2>2. PICK row : row = RowOf(j.source, t)
      OBVIOUS
    <2>3. \/ Becomes(r, t, [NotBegun EXCEPT !.pc = "done"])
          \/ Becomes(r, t, [j EXCEPT !.pc = "vote", !.row = row])
      BY <1>1, <1>j, <2>2 DEF Fetched
    <2>4. CASE Becomes(r, t, [NotBegun EXCEPT !.pc = "done"])
      <3>1. PICK x : x = [NotBegun EXCEPT !.pc = "done"]
        OBVIOUS
      <3>2. JobShape(x) /\ x.pc = "done" /\ Becomes(r, t, x)
        BY <2>4, <3>1, NewJobs
      <3> QED BY <1>j, <1>u, <2>1, <3>2
    <2>5. CASE Becomes(r, t, [j EXCEPT !.pc = "vote", !.row = row])
      <3>1. PICK x : x = [j EXCEPT !.pc = "vote", !.row = row]
        OBVIOUS
      <3>2. JobShape(x) /\ x.pc = "vote" /\ Becomes(r, t, x)
        BY <1>s, <2>5, <3>1, AskingShape
      <3> QED BY <1>j, <1>u, <2>1, <3>2
    <2> QED BY <2>3, <2>4, <2>5
  <1>2. CASE Voted(r, t)
    <2>1. j.pc = "vote" /\ disputed' = disputed
      BY <1>2, <1>j DEF Voted
    <2>2. PICK votes : IF Len(j.todo) > 1
                         THEN /\ Becomes(r, t, [j EXCEPT !.todo = Tail(@), !.votes = votes])
                              /\ UNCHANGED weak
                         ELSE Resolved(r, t, votes)
      BY <1>2, <1>j DEF Voted
    <2>3. CASE Len(j.todo) > 1
      <3>1. PICK x : x = [j EXCEPT !.todo = Tail(@), !.votes = votes]
        OBVIOUS
      <3>2. x = [j EXCEPT !.todo = Tail(j.todo), !.votes = votes]
        BY <3>1
      <3>3. JobShape(x) /\ x.pc = "vote"
        BY <1>s, <2>1, <3>2 DEF JobShape, JobPcs
      <3>4. Becomes(r, t, x) /\ UNCHANGED weak
        BY <2>2, <2>3, <3>1
      <3> QED BY <1>j, <1>u, <2>1, <3>3, <3>4
    <2>4. CASE Resolved(r, t, votes)
      <3>1. PICK v \in Winners(votes) :
              IF v \in {0, j.row}
                THEN /\ EnqueuedIf(~StrongConsensus(votes, v), t)
                     /\ Becomes(r, t, ToApply(j, j.row, Outweighs(votes, j.row)))
                ELSE /\ UNCHANGED weak
                     /\ Becomes(r, t, [j EXCEPT !.pc = "refetch", !.pick = v, !.votes = {},
                          !.strong = StrongConsensus(votes, v), !.backed = Outweighs(votes, v),
                          !.todo = SelectSeq(Preference, LAMBDA p : p \in VotersFor(votes, v))])
        BY <1>j, <2>4 DEF Resolved
      <3>2. v \in Versions
        BY WinnersAreVersions
      <3>3. StrongConsensus(votes, v) => v # 0 /\ Outweighs(votes, v)
        BY <3>2, StrongOutweighs DEF StrongConsensus
      <3>4. CASE v \in {0, j.row}
        <4>1. PICK x : x = ToApply(j, j.row, Outweighs(votes, j.row))
          OBVIOUS
        <4>2. Outweighs(votes, j.row) \in BOOLEAN
          BY DEF Outweighs
        <4>3. JobShape(x) /\ x.pc = "apply" /\ x.backed = Outweighs(votes, j.row)
          BY <1>s, <4>1, <4>2, ApplyShape
        <4>4. weak \subseteq weak' /\ (~StrongConsensus(votes, v) => t \in weak')
          BY <3>1, <3>4 DEF EnqueuedIf
        <4>5. x.pc = "apply" /\ ~x.backed => t \in weak'
          BY <3>3, <3>4, <4>3, <4>4
        <4>6. Becomes(r, t, x)
          BY <3>1, <3>4, <4>1
        <4>7. ~(x.pc = "refetch")
          BY <4>3
        <4> QED BY <1>j, <1>u, <2>1, <4>3, <4>4, <4>5, <4>6, <4>7
      <3>5. CASE v \notin {0, j.row}
        <4>1. PICK s : s = SelectSeq(Preference, LAMBDA p : p \in VotersFor(votes, v))
          OBVIOUS
        <4>b. PICK strong \in BOOLEAN, backed \in BOOLEAN :
                strong = StrongConsensus(votes, v) /\ backed = Outweighs(votes, v)
          BY DEF Outweighs, StrongConsensus
        <4>2. PICK x : x = [j EXCEPT !.pc = "refetch", !.pick = v, !.votes = {},
                              !.strong = strong, !.backed = backed, !.todo = s]
          OBVIOUS
        <4>3. JobShape(x) /\ x.pc = "refetch" /\ x.strong = strong /\ x.backed = backed
          BY <1>s, <4>2 DEF JobShape, JobPcs
        <4>4. /\ JobShape(x) /\ x.pc = "refetch" /\ x.strong = StrongConsensus(votes, v)
              /\ x.backed = Outweighs(votes, v)
          BY <4>b, <4>3
        <4>5. x.strong => x.backed
          BY <3>3, <4>4
        <4>6. Becomes(r, t, x) /\ UNCHANGED weak
          BY <3>1, <3>5, <4>1, <4>2, <4>b
        <4>7. ~(x.pc = "apply")
          BY <4>4
        <4> QED BY <1>j, <1>u, <2>1, <4>4, <4>5, <4>6, <4>7
      <3> QED BY <3>4, <3>5
    <2> QED BY <2>2, <2>3, <2>4
  <1>3. CASE Refetched(r, t)
    <2>1. /\ j.pc = "refetch" /\ disputed' = disputed
          /\ EnqueuedIf(~j.strong, t)
          /\ Becomes(r, t, ToApply(j, j.pick, j.backed))
      BY <1>3, <1>j DEF Refetched
    <2>2. PICK x : x = ToApply(j, j.pick, j.backed)
      OBVIOUS
    <2>3. j.backed \in BOOLEAN
      BY <1>s DEF JobShape
    <2>4. JobShape(x) /\ x.pc = "apply" /\ x.backed = j.backed
      BY <1>s, <2>2, <2>3, ApplyShape
    <2>5. weak \subseteq weak' /\ (~j.strong => t \in weak')
      BY <2>1 DEF EnqueuedIf
    <2>6. j.strong => j.backed
      BY <1>j, <2>1 DEF ApplyingIsQueued
    <2>7. Becomes(r, t, x) /\ ~(x.pc = "refetch")
      BY <2>1, <2>2, <2>4
    <2>8. ~x.backed => t \in weak'
      BY <2>4, <2>5, <2>6
    <2> QED BY <1>j, <1>u, <2>1, <2>4, <2>5, <2>7, <2>8
  <1>4. CASE RefetchFails(r, t)
    <2>1. j.pc = "refetch" /\ disputed' = disputed
      BY <1>4, <1>j DEF RefetchFails
    <2>2. CASE Len(j.todo) > 1
      <3>1. PICK x : x = [j EXCEPT !.todo = Tail(@)]
        OBVIOUS
      <3>2. x = [j EXCEPT !.todo = Tail(j.todo)]
        BY <3>1
      <3>3. JobShape(x) /\ x.pc = "refetch" /\ x.strong = j.strong /\ x.backed = j.backed
        BY <1>s, <2>1, <3>2, AskingShape
      <3>4. Becomes(r, t, x) /\ UNCHANGED weak
        BY <1>4, <1>j, <2>2, <3>1 DEF RefetchFails
      <3>5. j.strong => j.backed
        BY <1>j, <2>1 DEF ApplyingIsQueued
      <3>6. x.strong => x.backed
        BY <3>3, <3>5
      <3>7. ~(x.pc = "apply")
        BY <3>3
      <3> QED BY <1>j, <1>u, <2>1, <3>3, <3>4, <3>6, <3>7
    <2>3. CASE ~(Len(j.todo) > 1)
      <3>1. PICK x : x = ToApply(j, j.row, FALSE)
        OBVIOUS
      <3>2. JobShape(x) /\ x.pc = "apply"
        BY <1>s, <3>1, ApplyShape
      <3>3. Becomes(r, t, x) /\ weak \subseteq weak' /\ t \in weak'
        BY <1>4, <1>j, <2>3, <3>1 DEF RefetchFails, EnqueuedIf
      <3>4. ~(x.pc = "refetch")
        BY <3>2
      <3> QED BY <1>j, <1>u, <2>1, <3>2, <3>3, <3>4
    <2> QED BY <2>2, <2>3
  <1>5. CASE Applied(r, t)
    <2>1. PICK x : x = [NotBegun EXCEPT !.pc = "done"]
      OBVIOUS
    <2>2. JobShape(x) /\ x.pc = "done"
      BY <2>1, NewJobs
    <2>3. Becomes(r, t, x) /\ UNCHANGED weak /\ j.pc = "apply"
      BY <1>5, <1>j, <2>1 DEF Applied, Ends
    <2>4. ~j.backed => t \in weak
      BY <1>j, <2>3 DEF ApplyingIsQueued
    <2>5. Upserted(t, j.backed) \/ disputed' = disputed
      BY <1>5, <1>j DEF Applied
    <2>6. \/ disputed' \subseteq disputed
          \/ disputed' = disputed \cup {t} /\ t \in weak'
      BY <2>3, <2>4, <2>5 DEF Upserted
    <2> QED BY <1>j, <1>u, <2>2, <2>3, <2>6
  <1>6. CASE SyncThrows(r, t)
    <2>1. PICK x : x = [NotBegun EXCEPT !.pc = "failed"]
      OBVIOUS
    <2>2. JobShape(x) /\ x.pc = "failed"
      BY <2>1, NewJobs
    <2>3. Becomes(r, t, x) /\ UNCHANGED <<weak, disputed>> /\ j.pc \in {"fetch", "apply"}
      BY <1>6, <1>j, <2>1 DEF SyncThrows, Ends
    <2> QED BY <1>j, <1>u, <2>2, <2>3
  <1> QED BY <1>1, <1>2, <1>3, <1>4, <1>5, <1>6 DEF JobStep

Resting(run) == [Idle EXCEPT !.run = run]

\* The shapes of an execution: one that begins, and none.
LEMMA ExecBegins ==
  ASSUME NEW run \in Nat, NEW peers, NEW e, e = Execution(run, peers)
  PROVE  ExecShape(e) /\ e.run = run /\ e.pc = "discover" /\ e.table = 1
  <1>1. PICK table \in Tables : table = 1
    BY TablesAssumption DEF Tables
  <1>2. PICK pc \in {"idle", "discover", "manifest", "table"}, partial \in BOOLEAN :
          pc = "discover" /\ partial = FALSE
    OBVIOUS
  <1>3. PICK none, attempt, known : none = <<>> /\ attempt = 1 /\ known = peers
    OBVIOUS
  <1>4. e = [pc |-> pc, run |-> run, peers |-> known, todo |-> none, validators |-> none,
             attempt |-> attempt, table |-> table, partial |-> partial]
    BY <1>1, <1>2, <1>3 DEF Execution, Idle
  <1>5. ExecShape(e) /\ e.run = run /\ e.pc = pc /\ e.table = table
    BY <1>4 DEF ExecShape
  <1> QED BY <1>1, <1>2, <1>5

LEMMA ExecIsIdle ==
  ASSUME NEW run \in Nat, NEW e, e = Resting(run)
  PROVE  ExecShape(e) /\ e.run = run /\ e.pc = "idle"
  <1>1. PICK table \in Tables : table = 1
    BY TablesAssumption DEF Tables
  <1>2. PICK pc \in {"idle", "discover", "manifest", "table"}, partial \in BOOLEAN :
          pc = "idle" /\ partial = FALSE
    OBVIOUS
  <1>3. PICK none, attempt, known : none = <<>> /\ attempt = 1 /\ known = {}
    OBVIOUS
  <1>4. e = [pc |-> pc, run |-> run, peers |-> known, todo |-> none, validators |-> none,
             attempt |-> attempt, table |-> table, partial |-> partial]
    BY <1>1, <1>2, <1>3 DEF Resting, Idle
  <1>5. ExecShape(e) /\ e.run = run /\ e.pc = pc
    BY <1>4 DEF ExecShape
  <1> QED BY <1>2, <1>5

LEMMA ExecInRuns ==
  ASSUME JobsInv, exec.pc # "idle"
  PROVE  exec.run \in Runs /\ exec.table \in Tables
  <1>1. exec.run \in Nat /\ exec.table \in Tables
    BY DEF JobsInv, ExecShape
  <1>2. PICK q \in {0, 1} : q = IF queued THEN 1 ELSE 0
    OBVIOUS
  <1>3. PICK s \in {0, 1} : s = IF started THEN 1 ELSE 0
    OBVIOUS
  <1>4. count.moves \in 0..MaxMoves
    BY DEF JobsInv, RunsAreAskedFor
  <1>5. exec.run + q <= s + count.moves /\ exec.run # 0
    BY <1>2, <1>3 DEF JobsInv, RunsAreAskedFor, Owed
  <1>6. MaxMoves \in Nat
    BY BoundsAssumption
  <1>7. exec.run \in 1..(MaxMoves + 1)
    BY <1>1, <1>4, <1>5, <1>6
  <1> QED BY <1>1, <1>7 DEF Runs

\* What DoneInv asks of the state, when the execution goes on.
LEMMA LoopGoesOn ==
  ASSUME JobsInv, DoneInv, exec.pc # "idle", exec'.pc # "idle", exec'.run = exec.run,
         outcome' = outcome,
         \A r \in Runs, t \in Tables :
           (r # exec.run /\ job[r][t].pc = "done") => job'[r][t].pc = "done",
         exec'.pc = "table" /\ ~exec'.partial =>
           \A t \in 1..(exec'.table - 1) : job'[exec.run][t].pc = "done"
  PROVE  DoneInv'
  <1>1. \A r \in Runs : outcome[r] = "DONE" => r < exec.run /\ r # exec.run
    <2> SUFFICES ASSUME NEW r \in Runs, outcome[r] = "DONE" PROVE r < exec.run /\ r # exec.run
      OBVIOUS
    <2>1. r < exec.run
      BY DEF DoneInv, DoneIsOver
    <2>2. r \in Nat /\ exec.run \in Nat
      BY DEF JobsInv, ExecShape, Runs
    <2> QED BY <2>1, <2>2
  <1>2. DoneIsComplete'
    BY <1>1 DEF DoneInv, DoneIsComplete
  <1>3. DoneIsOver'
    BY <1>1 DEF DoneIsOver
  <1>4. LoopIsComplete'
    BY DEF LoopIsComplete
  <1>5. outcome' \in [Runs -> Outcomes]
    BY DEF DoneInv
  <1> QED BY <1>2, <1>3, <1>4, <1>5 DEF DoneInv

\* An execution returns, and a queued one takes its place.
LEMMA ReturnsKeeps ==
  ASSUME JobsInv, DoneInv, exec.pc # "idle", NEW result \in Outcomes, Returns(result),
         UNCHANGED <<started, job>>,
         count'.moves = count.moves,
         count' \in [moves: 0..MaxMoves, timeouts: {count'.timeouts}, changes: {count'.changes}],
         result = "DONE" => \A t \in Tables : job[exec.run][t].pc = "done"
  PROVE  JobsInv' /\ DoneInv'
  <1>1. exec.run \in Runs /\ exec.run \in Nat
    BY ExecInRuns DEF JobsInv, ExecShape
  <1>2. /\ outcome' \in [Runs -> Outcomes]
        /\ outcome'[exec.run] = result
        /\ \A r \in Runs : r # exec.run => outcome'[r] = outcome[r]
    BY <1>1 DEF Returns, DoneInv
  <1>3. \A r \in Runs : outcome[r] = "DONE" => r < exec.run
    BY DEF DoneInv, DoneIsOver
  <1>4. DoneIsComplete'
    <2> SUFFICES ASSUME NEW r \in Runs, outcome'[r] = "DONE", NEW t \in Tables
                 PROVE  job[r][t].pc = "done"
      BY DEF DoneIsComplete
    <2>1. CASE r # exec.run
      BY <1>2, <2>1 DEF DoneInv, DoneIsComplete
    <2>2. CASE r = exec.run
      BY <1>2, <2>2
    <2> QED BY <2>1, <2>2
  <1>5. \A r \in Runs : outcome'[r] = "DONE" => r <= exec.run
    <2> SUFFICES ASSUME NEW r \in Runs, outcome'[r] = "DONE" PROVE r <= exec.run
      OBVIOUS
    <2>1. CASE r = exec.run
      BY <1>1, <2>1
    <2>2. CASE r # exec.run
      <3>1. r < exec.run
        BY <1>2, <1>3, <2>2
      <3> QED BY <1>1, <3>1 DEF Runs
    <2> QED BY <2>1, <2>2
  <1>6. CASE queued
    <2>1. exec' = Execution(exec.run + 1, exec.peers) /\ queued' = FALSE /\ running' = TRUE
      BY <1>6 DEF Returns, JobsInv, RunsAreAskedFor
    <2>2. /\ ExecShape(exec') /\ exec'.run = exec.run + 1
          /\ exec'.pc = "discover" /\ exec'.table = 1
      <3>1. PICK n \in Nat : n = exec.run + 1
        BY <1>1
      <3>2. PICK e : e = exec'
        OBVIOUS
      <3>3. e = Execution(n, exec.peers)
        BY <2>1, <3>1, <3>2
      <3>4. ExecShape(e) /\ e.run = n /\ e.pc = "discover" /\ e.table = 1
        BY <3>3, ExecBegins
      <3> QED BY <3>1, <3>2, <3>4
    <2>3. exec.run + 1 <= Owed
      BY <1>6 DEF JobsInv, RunsAreAskedFor
    <2>4. Owed' = Owed
      BY DEF Owed
    <2>5. RunsAreAskedFor'
      <3>1. exec'.run + (IF queued' THEN 1 ELSE 0) <= Owed'
        BY <1>1, <2>1, <2>2, <2>3, <2>4
      <3>2. exec'.run # 0
        BY <1>1, <2>2
      <3> QED BY <2>1, <2>2, <3>1, <3>2 DEF JobsInv, RunsAreAskedFor
    <2>6. JobsInv'
      BY <2>2, <2>5 DEF JobsInv, JobsAreJobs, JobShape
    <2>7. DoneIsOver'
      <3> SUFFICES ASSUME NEW r \in Runs, outcome'[r] = "DONE" PROVE r < exec'.run
        BY DEF DoneIsOver
      <3>1. r <= exec.run /\ r \in Nat
        BY <1>5 DEF Runs
      <3> QED BY <1>1, <2>2, <3>1
    <2>8. LoopIsComplete'
      BY <2>2 DEF LoopIsComplete
    <2> QED BY <1>2, <1>4, <2>6, <2>7, <2>8 DEF DoneInv
  <1>7. CASE ~queued
    <2>1. exec' = [Idle EXCEPT !.run = exec.run] /\ queued' = FALSE /\ running' = FALSE
      BY <1>7 DEF Returns, JobsInv, RunsAreAskedFor
    <2>2. ExecShape(exec') /\ exec'.run = exec.run /\ exec'.pc = "idle"
      BY <1>1, <2>1, ExecIsIdle DEF Resting
    <2>3. exec.run + 0 <= Owed
      BY <1>7 DEF JobsInv, RunsAreAskedFor
    <2>4. Owed' = Owed
      BY DEF Owed
    <2>5. RunsAreAskedFor'
      <3>1. exec'.run + (IF queued' THEN 1 ELSE 0) <= Owed'
        BY <1>1, <2>1, <2>2, <2>3, <2>4
      <3> QED BY <2>1, <2>2, <3>1 DEF JobsInv, RunsAreAskedFor
    <2>6. JobsInv'
      BY <2>2, <2>5 DEF JobsInv, JobsAreJobs, JobShape
    <2>7. DoneIsOver'
      <3> SUFFICES ASSUME NEW r \in Runs, outcome'[r] = "DONE"
                   PROVE  r < exec'.run \/ r = exec'.run
        BY <2>2 DEF DoneIsOver
      <3>1. r <= exec.run /\ r \in Nat
        BY <1>5 DEF Runs
      <3> QED BY <1>1, <2>2, <3>1
    <2>8. LoopIsComplete'
      BY <2>2 DEF LoopIsComplete
    <2> QED BY <1>2, <1>4, <2>6, <2>7, <2>8 DEF DoneInv
  <1> QED BY <1>6, <1>7

-----------------------------------------------------------------------------
(* The steps.                                                              *)

SyncInv == JobsInv /\ WeakInv /\ DoneInv

LEMMA SyncInit == Init => SyncInv
  <1> SUFFICES ASSUME Init PROVE SyncInv
    OBVIOUS
  <1>1. PICK new : new = NotBegun
    OBVIOUS
  <1>2. JobShape(new) /\ new.pc = "none"
    BY <1>1, NewJobs
  <1>3. job = [r \in Runs |-> [t \in Tables |-> new]]
    BY <1>1 DEF Init
  <1>4. \A r \in Runs, t \in Tables : job[r][t] = new
    BY <1>3
  <1>5. JobsAreJobs
    BY <1>2, <1>3, <1>4 DEF JobsAreJobs
  <1>6. 1 \in Tables /\ MaxMoves \in Nat
    BY TablesAssumption, BoundsAssumption DEF Tables
  <1>7. PICK first \in Tables : first = 1
    BY <1>6
  <1>8. exec = [pc |-> "idle", run |-> 0, peers |-> {}, todo |-> <<>>, validators |-> <<>>,
                attempt |-> 1, table |-> first, partial |-> FALSE]
    BY <1>7 DEF Init, Idle
  <1>9. ExecShape(exec) /\ exec.run = 0 /\ exec.pc = "idle"
    BY <1>8 DEF ExecShape
  <1>10. /\ count.moves = 0
         /\ count \in [moves: 0..MaxMoves, timeouts: {count.timeouts}, changes: {count.changes}]
    BY <1>6 DEF Init
  <1>11. ~started /\ ~queued /\ ~running /\ started \in BOOLEAN /\ queued \in BOOLEAN
         /\ running \in BOOLEAN
    BY DEF Init
  <1>12. RunsAreAskedFor
    BY <1>9, <1>10, <1>11 DEF RunsAreAskedFor, Owed
  <1>13. WeakInv
    BY <1>2, <1>4 DEF Init, WeakInv, WeakIsQueued, ApplyingIsQueued
  <1>14. outcome \in [Runs -> Outcomes] /\ \A r \in Runs : outcome[r] # "DONE"
    BY NoneAssumption DEF Init, Outcomes
  <1>15. DoneInv
    BY <1>9, <1>14 DEF DoneInv, DoneIsComplete, DoneIsOver, LoopIsComplete
  <1> QED BY <1>5, <1>9, <1>12, <1>13, <1>15 DEF SyncInv, JobsInv

\* A run is asked for: it begins, or the running one is to be followed by it.
LEMMA AskedKeeps ==
  ASSUME JobsInv, DoneInv, NEW peers, RunSync(peers), UNCHANGED <<outcome, job>>,
         started' \in BOOLEAN, Owed' = Owed + 1,
         count' \in [moves: 0..MaxMoves, timeouts: {count'.timeouts}, changes: {count'.changes}]
  PROVE  JobsInv' /\ DoneInv'
  <1>1. exec.run \in Nat /\ Owed \in Nat
    BY BoundsAssumption DEF JobsInv, ExecShape, RunsAreAskedFor, Owed
  <1>2. PICK q \in {0, 1} : q = IF queued THEN 1 ELSE 0
    OBVIOUS
  <1>3. exec.run + q <= Owed
    BY <1>2 DEF JobsInv, RunsAreAskedFor
  <1>4. JobsAreJobs'
    BY DEF JobsInv, JobsAreJobs, JobShape
  <1>5. CASE running
    <2>1. queued' = TRUE /\ UNCHANGED <<running, exec>>
      BY <1>5 DEF RunSync
    <2>2. exec'.run + (IF queued' THEN 1 ELSE 0) <= Owed'
      BY <1>1, <1>3, <2>1
    <2>3. RunsAreAskedFor'
      BY <2>1, <2>2 DEF JobsInv, RunsAreAskedFor
    <2>4. ExecShape(exec')
      BY <2>1 DEF JobsInv
    <2>5. DoneInv'
      BY <2>1 DEF DoneInv, DoneIsComplete, DoneIsOver, LoopIsComplete
    <2> QED BY <1>4, <2>3, <2>4, <2>5 DEF JobsInv
  <1>6. CASE ~running
    <2>1. running' = TRUE /\ exec' = Execution(exec.run + 1, peers) /\ UNCHANGED queued
      BY <1>6 DEF RunSync
    <2>2. PICK n \in Nat : n = exec.run + 1
      BY <1>1
    <2>3. /\ ExecShape(exec') /\ exec'.run = exec.run + 1
          /\ exec'.pc = "discover" /\ exec'.table = 1
      <3>1. PICK e : e = exec'
        OBVIOUS
      <3>2. e = Execution(n, peers)
        BY <2>1, <2>2, <3>1
      <3>3. ExecShape(e) /\ e.run = n /\ e.pc = "discover" /\ e.table = 1
        BY <3>2, ExecBegins
      <3> QED BY <2>2, <3>1, <3>3
    <2>4. exec'.run + q <= Owed'
      BY <1>1, <1>3, <2>3
    <2>5. exec'.run + (IF queued' THEN 1 ELSE 0) <= Owed'
      BY <1>2, <2>1, <2>4
    <2>6. exec'.run # 0
      BY <1>1, <2>3
    <2>7. RunsAreAskedFor'
      BY <2>1, <2>3, <2>5, <2>6 DEF JobsInv, RunsAreAskedFor
    <2>8. DoneIsOver'
      <3> SUFFICES ASSUME NEW r \in Runs, outcome[r] = "DONE" PROVE r < exec'.run
        BY DEF DoneIsOver
      <3>1. r <= exec.run /\ r \in Nat
        BY <1>1 DEF DoneInv, DoneIsOver, Runs
      <3> QED BY <1>1, <2>3, <3>1
    <2>9. LoopIsComplete'
      BY <2>3 DEF LoopIsComplete
    <2>10. DoneInv'
      BY <2>8, <2>9 DEF DoneInv, DoneIsComplete
    <2> QED BY <1>4, <2>3, <2>7, <2>10 DEF JobsInv
  <1> QED BY <1>5, <1>6

\* The execution goes on.
LEMMA GoesOnKeeps ==
  ASSUME JobsInv, exec.pc # "idle", exec'.pc # "idle", ExecShape(exec'),
         exec'.run = exec.run, exec'.pc # "table" => exec'.table = 1,
         UNCHANGED <<started, running, queued>>, count'.moves = count.moves,
         count' \in [moves: 0..MaxMoves, timeouts: {count'.timeouts}, changes: {count'.changes}],
         JobsAreJobs'
  PROVE  JobsInv'
  <1>1. Owed' = Owed
    BY DEF Owed
  <1>2. RunsAreAskedFor'
    BY <1>1 DEF JobsInv, RunsAreAskedFor
  <1> QED BY <1>2 DEF JobsInv

\* What the steps that leave the rows alone leave as it was.
LEMMA WeakStays ==
  ASSUME WeakInv, UNCHANGED dataVars
  PROVE  WeakInv'
  BY DEF WeakInv, WeakIsQueued, ApplyingIsQueued, dataVars

\* The sync of one more table begins.
LEMMA BeginsKeeps ==
  ASSUME JobsInv, WeakInv, exec.pc # "idle", NEW t \in Tables, NEW source,
         SyncBegins(t, source), UNCHANGED <<weak, disputed>>
  PROVE  /\ JobsAreJobs' /\ WeakInv'
         /\ \A q \in Runs, u \in Tables :
              ~(q = exec.run /\ u = t) => job'[q][u] = job[q][u]
  <1>1. exec.run \in Runs
    BY ExecInRuns
  <1>2. PICK x : x = [NotBegun EXCEPT !.pc = "fetch", !.source = source, !.todo = exec.validators]
    OBVIOUS
  <1>3. JobShape(x) /\ x.pc = "fetch"
    BY <1>2, NewJobs
  <1>4. Becomes(exec.run, t, x)
    BY <1>2 DEF SyncBegins, Becomes
  <1>5. /\ JobsAreJobs' /\ job'[exec.run][t] = x
        /\ \A q \in Runs, u \in Tables :
             ~(q = exec.run /\ u = t) => job'[q][u] = job[q][u]
    BY <1>1, <1>3, <1>4, JobBecomes DEF JobsInv
  <1>6. ApplyingIsQueued'
    BY <1>3, <1>5 DEF WeakInv, ApplyingIsQueued
  <1>7. WeakIsQueued'
    BY DEF WeakInv, WeakIsQueued
  <1> QED BY <1>5, <1>6, <1>7 DEF WeakInv

\* The bookkeeping of the bounds by an action that opens no connection.
LEMMA CountsStay ==
  ASSUME JobsInv, UNCHANGED count
  PROVE  /\ count'.moves = count.moves
         /\ count' \in [moves: 0..MaxMoves, timeouts: {count'.timeouts}, changes: {count'.changes}]
  BY DEF JobsInv, RunsAreAskedFor

LEMMA StartupKeeps == ASSUME SyncInv, Startup PROVE SyncInv'
  <1>1. Owed' = Owed + 1
    <2>1. ~started /\ started' = TRUE /\ count' = count
      BY DEF Startup
    <2>2. count.moves \in Nat
      BY BoundsAssumption DEF SyncInv, JobsInv, RunsAreAskedFor
    <2> QED BY <2>1, <2>2 DEF Owed
  <1>2. /\ RunSync(connected) /\ UNCHANGED <<outcome, job, count>> /\ started' \in BOOLEAN
        /\ UNCHANGED dataVars
    BY DEF Startup, dataVars
  <1>3. count' \in [moves: 0..MaxMoves, timeouts: {count'.timeouts}, changes: {count'.changes}]
    BY <1>2, CountsStay DEF SyncInv
  <1>4. JobsInv' /\ DoneInv'
    BY <1>1, <1>2, <1>3, AskedKeeps DEF SyncInv
  <1>5. WeakInv'
    BY <1>2, WeakStays DEF SyncInv
  <1> QED BY <1>4, <1>5 DEF SyncInv

LEMMA MovesCount ==
  ASSUME JobsInv, count.moves < MaxMoves, count' = [count EXCEPT !.moves = @ + 1]
  PROVE  /\ count.moves \in Nat /\ count'.moves = count.moves + 1
         /\ count' \in [moves: 0..MaxMoves, timeouts: {count'.timeouts}, changes: {count'.changes}]
  <1>1. count \in [moves: 0..MaxMoves, timeouts: {count.timeouts}, changes: {count.changes}]
    BY DEF JobsInv, RunsAreAskedFor
  <1>2. MaxMoves \in Nat
    BY BoundsAssumption
  <1>3. count.moves \in Nat /\ count.moves + 1 \in 0..MaxMoves
    BY <1>1, <1>2
  <1> QED BY <1>1, <1>3

LEMMA ConnectKeeps ==
  ASSUME SyncInv, NEW p \in Peers, PeerConnects(p)
  PROVE  SyncInv'
  <1>1. /\ count.moves < MaxMoves /\ count' = [count EXCEPT !.moves = @ + 1]
        /\ RunSync(connected') /\ UNCHANGED <<started, outcome, job>>
        /\ UNCHANGED dataVars
    BY DEF PeerConnects, dataVars
  <1>2. /\ count.moves \in Nat /\ count'.moves = count.moves + 1
        /\ count' \in [moves: 0..MaxMoves, timeouts: {count'.timeouts}, changes: {count'.changes}]
    BY <1>1, MovesCount DEF SyncInv
  <1>3. Owed' = Owed + 1
    <2>1. PICK s \in {0, 1} : s = IF started THEN 1 ELSE 0
      OBVIOUS
    <2>2. Owed = s + count.moves /\ Owed' = s + count'.moves
      BY <1>1, <2>1 DEF Owed
    <2> QED BY <1>2, <2>2
  <1>4. started' \in BOOLEAN
    BY <1>1 DEF SyncInv, JobsInv, RunsAreAskedFor
  <1>5. PICK peers : peers = connected'
    OBVIOUS
  <1>6. JobsInv' /\ DoneInv'
    BY <1>1, <1>2, <1>3, <1>4, <1>5, AskedKeeps DEF SyncInv
  <1>7. WeakInv'
    BY <1>1, WeakStays DEF SyncInv
  <1> QED BY <1>6, <1>7 DEF SyncInv

LEMMA DisconnectKeeps ==
  ASSUME SyncInv, NEW p \in Peers, PeerDisconnects(p)
  PROVE  SyncInv'
  <1>1. /\ count.moves < MaxMoves /\ count' = [count EXCEPT !.moves = @ + 1]
        /\ UNCHANGED <<started, running, queued, exec, outcome, job>>
        /\ UNCHANGED dataVars
    BY DEF PeerDisconnects, dataVars, runVars
  <1>2. /\ count.moves \in Nat /\ count'.moves = count.moves + 1
        /\ count' \in [moves: 0..MaxMoves, timeouts: {count'.timeouts}, changes: {count'.changes}]
    BY <1>1, MovesCount DEF SyncInv
  <1>3. PICK s \in {0, 1} : s = IF started THEN 1 ELSE 0
    OBVIOUS
  <1>4. PICK q \in {0, 1} : q = IF queued THEN 1 ELSE 0
    OBVIOUS
  <1>5. exec.run + q <= s + count.moves /\ exec.run \in Nat
    BY <1>3, <1>4 DEF SyncInv, JobsInv, RunsAreAskedFor, ExecShape, Owed
  <1>6. exec.run + q <= s + count'.moves
    BY <1>2, <1>5
  <1>7. exec'.run + (IF queued' THEN 1 ELSE 0) <= Owed'
    BY <1>1, <1>3, <1>4, <1>6 DEF Owed
  <1>8. RunsAreAskedFor'
    BY <1>1, <1>2, <1>7 DEF SyncInv, JobsInv, RunsAreAskedFor
  <1>9. JobsAreJobs' /\ ExecShape(exec')
    BY <1>1 DEF SyncInv, JobsInv, JobsAreJobs, JobShape, ExecShape
  <1>10. DoneInv'
    BY <1>1 DEF SyncInv, DoneInv, DoneIsComplete, DoneIsOver, LoopIsComplete
  <1>11. WeakInv'
    BY <1>1, WeakStays DEF SyncInv
  <1> QED BY <1>8, <1>9, <1>10, <1>11 DEF SyncInv, JobsInv

LEMMA RemoteKeeps ==
  ASSUME SyncInv, NEW p \in Peers, NEW t \in Tables, NEW v \in Versions, RemoteChanges(p, t, v)
  PROVE  SyncInv'
  <1>1. /\ count' = [count EXCEPT !.changes = @ + 1]
        /\ UNCHANGED <<started, running, queued, exec, outcome, job>>
        /\ UNCHANGED dataVars
    BY DEF RemoteChanges, dataVars, runVars
  <1>2. /\ count'.moves = count.moves
        /\ count' \in [moves: 0..MaxMoves, timeouts: {count'.timeouts}, changes: {count'.changes}]
    BY <1>1 DEF SyncInv, JobsInv, RunsAreAskedFor
  <1>3. RunsAreAskedFor'
    BY <1>1, <1>2 DEF SyncInv, JobsInv, RunsAreAskedFor, Owed
  <1>4. JobsAreJobs' /\ ExecShape(exec')
    BY <1>1 DEF SyncInv, JobsInv, JobsAreJobs, JobShape, ExecShape
  <1>5. DoneInv'
    BY <1>1 DEF SyncInv, DoneInv, DoneIsComplete, DoneIsOver, LoopIsComplete
  <1>6. WeakInv'
    BY <1>1, WeakStays DEF SyncInv
  <1> QED BY <1>3, <1>4, <1>5, <1>6 DEF SyncInv, JobsInv

LEMMA StutterKeeps == ASSUME SyncInv, UNCHANGED vars PROVE SyncInv'
  <1>1. /\ UNCHANGED <<started, running, queued, exec, outcome, job, count>>
        /\ UNCHANGED dataVars
    BY DEF vars, dataVars
  <1>2. RunsAreAskedFor'
    BY <1>1 DEF SyncInv, JobsInv, RunsAreAskedFor, Owed
  <1>3. JobsAreJobs' /\ ExecShape(exec')
    BY <1>1 DEF SyncInv, JobsInv, JobsAreJobs, JobShape, ExecShape
  <1>4. DoneInv'
    BY <1>1 DEF SyncInv, DoneInv, DoneIsComplete, DoneIsOver, LoopIsComplete
  <1>5. WeakInv'
    BY <1>1, WeakStays DEF SyncInv
  <1> QED BY <1>2, <1>3, <1>4, <1>5 DEF SyncInv, JobsInv

LEMMA ThrowKeeps == ASSUME SyncInv, DiscoverThrows PROVE SyncInv'
  <1>1. /\ exec.pc = "discover" /\ running' = FALSE
        /\ exec' = [Idle EXCEPT !.run = exec.run]
        /\ outcome' = [outcome EXCEPT ![exec.run] = "THROWN"]
        /\ UNCHANGED <<started, queued, job, count>> /\ UNCHANGED dataVars
    BY DEF DiscoverThrows, peerVars, dataVars
  <1>2. exec.run \in Runs /\ exec.run \in Nat
    BY <1>1, ExecInRuns DEF SyncInv, JobsInv, ExecShape
  <1>3. ExecShape(exec') /\ exec'.run = exec.run /\ exec'.pc = "idle"
    BY <1>1, <1>2, ExecIsIdle DEF Resting
  <1>4. RunsAreAskedFor'
    BY <1>1, <1>3 DEF SyncInv, JobsInv, RunsAreAskedFor, Owed
  <1>5. JobsAreJobs'
    BY <1>1 DEF SyncInv, JobsInv, JobsAreJobs, JobShape
  <1>6. /\ outcome' \in [Runs -> Outcomes]
        /\ \A r \in Runs : outcome'[r] = "DONE" => outcome[r] = "DONE"
    BY <1>1, <1>2 DEF SyncInv, DoneInv, Outcomes
  <1>7. DoneInv'
    <2>1. DoneIsComplete'
      BY <1>1, <1>6 DEF SyncInv, DoneInv, DoneIsComplete
    <2>2. DoneIsOver'
      BY <1>3, <1>6 DEF SyncInv, DoneInv, DoneIsOver
    <2>3. LoopIsComplete'
      BY <1>3 DEF LoopIsComplete
    <2> QED BY <1>6, <2>1, <2>2, <2>3 DEF DoneInv
  <1>8. WeakInv'
    BY <1>1, WeakStays DEF SyncInv
  <1> QED BY <1>3, <1>4, <1>5, <1>7, <1>8 DEF SyncInv, JobsInv

LEMMA DiscoverKeeps ==
  ASSUME SyncInv, NEW known, Discover(known)
  PROVE  SyncInv'
  <1>1. exec.pc = "discover" /\ UNCHANGED <<started, job, count>> /\ UNCHANGED dataVars
    BY DEF Discover, peerVars, dataVars
  <1>2. WeakInv'
    BY <1>1, WeakStays DEF SyncInv
  <1>3. /\ count'.moves = count.moves
        /\ count' \in [moves: 0..MaxMoves, timeouts: {count'.timeouts}, changes: {count'.changes}]
    BY <1>1, CountsStay DEF SyncInv
  <1>4. PICK s : s = FirstOf(SelectSeq(Preference, LAMBDA p : p \in known))
    OBVIOUS
  <1>5. CASE s = <<>>
    <2>1. Returns("SKIPPED")
      BY <1>4, <1>5 DEF Discover
    <2>2. JobsInv' /\ DoneInv'
      <3>1. "SKIPPED" \in Outcomes /\ "SKIPPED" # "DONE"
        BY DEF Outcomes
      <3> QED BY <1>1, <1>3, <2>1, <3>1, ReturnsKeeps DEF SyncInv
    <2> QED BY <1>2, <2>2 DEF SyncInv
  <1>6. CASE s # <<>>
    <2>1. /\ exec' = [exec EXCEPT !.pc = "manifest", !.todo = s, !.validators = s]
          /\ UNCHANGED <<running, queued, outcome>>
      BY <1>4, <1>6 DEF Discover
    <2>2. ExecShape(exec) /\ exec.table = 1
      BY <1>1 DEF SyncInv, JobsInv, RunsAreAskedFor
    <2>3. ExecShape(exec') /\ exec'.run = exec.run /\ exec'.pc = "manifest" /\ exec'.table = 1
      BY <2>1, <2>2 DEF ExecShape
    <2>4. JobsAreJobs'
      BY <1>1 DEF SyncInv, JobsInv, JobsAreJobs, JobShape
    <2>5. JobsInv'
      BY <1>1, <1>3, <2>1, <2>3, <2>4, GoesOnKeeps DEF SyncInv
    <2>6. DoneInv'
      BY <1>1, <2>1, <2>3, LoopGoesOn DEF SyncInv
    <2> QED BY <1>2, <2>5, <2>6 DEF SyncInv
  <1> QED BY <1>5, <1>6

LEMMA ManifestKeeps == ASSUME SyncInv, ManifestAnswered PROVE SyncInv'
  <1>1. /\ exec.pc = "manifest" /\ UNCHANGED <<started, running, queued, outcome, count>>
        /\ UNCHANGED <<weak, disputed>>
        /\ SyncBegins(1, Head(exec.todo))
        /\ exec' = [exec EXCEPT !.pc = "table", !.todo = <<Head(exec.todo)>>]
    BY DEF ManifestAnswered, peerVars
  <1>2. exec.table = 1 /\ ExecShape(exec)
    BY <1>1 DEF SyncInv, JobsInv, RunsAreAskedFor
  <1>3. ExecShape(exec') /\ exec'.run = exec.run /\ exec'.pc = "table" /\ exec'.table = 1
    <2>1. PICK s : s = <<Head(exec.todo)>>
      OBVIOUS
    <2>2. exec' = [exec EXCEPT !.pc = "table", !.todo = s]
      BY <1>1, <2>1
    <2> QED BY <1>2, <2>2 DEF ExecShape
  <1>4. 1 \in Tables
    BY TablesAssumption DEF Tables
  <1>5. /\ JobsAreJobs' /\ WeakInv'
        /\ \A q \in Runs, u \in Tables : ~(q = exec.run /\ u = 1) => job'[q][u] = job[q][u]
    BY <1>1, <1>4, BeginsKeeps DEF SyncInv
  <1>6. JobsInv'
    BY <1>1, <1>3, <1>5, CountsStay, GoesOnKeeps DEF SyncInv
  <1>7. \A t \in 1..(exec'.table - 1) : job'[exec.run][t].pc = "done"
    BY <1>3
  <1>8. DoneInv'
    BY <1>1, <1>3, <1>5, <1>7, LoopGoesOn DEF SyncInv
  <1> QED BY <1>5, <1>6, <1>8 DEF SyncInv

\* The next validator is asked for its manifest, or the same ones again.
LEMMA AnotherManifest ==
  ASSUME SyncInv, exec.pc = "manifest", UNCHANGED <<started, running, queued, outcome, count>>,
         UNCHANGED dataVars, NEW s, NEW n,
         exec' = [exec EXCEPT !.todo = s, !.attempt = n]
  PROVE  SyncInv'
  <1>1. exec.table = 1 /\ ExecShape(exec)
    BY DEF SyncInv, JobsInv, RunsAreAskedFor
  <1>2. ExecShape(exec') /\ exec'.run = exec.run /\ exec'.pc = "manifest" /\ exec'.table = 1
    BY <1>1 DEF ExecShape
  <1>3. job' = job
    BY DEF dataVars
  <1>4. JobsAreJobs'
    BY <1>3 DEF SyncInv, JobsInv, JobsAreJobs, JobShape
  <1>5. JobsInv'
    BY <1>2, <1>4, CountsStay, GoesOnKeeps DEF SyncInv
  <1>6. DoneInv'
    BY <1>2, <1>3, LoopGoesOn DEF SyncInv
  <1> QED BY <1>5, <1>6, WeakStays DEF SyncInv

LEMMA ManifestFailKeeps == ASSUME SyncInv, ManifestFails PROVE SyncInv'
  <1>1. exec.pc = "manifest" /\ UNCHANGED <<started, job, count>> /\ UNCHANGED dataVars
    BY DEF ManifestFails, peerVars, dataVars
  <1>s. ExecShape(exec)
    BY DEF SyncInv, JobsInv
  <1>2. CASE Len(exec.todo) > 1
    <2>1. exec' = [exec EXCEPT !.todo = Tail(@)] /\ UNCHANGED <<running, queued, outcome>>
      BY <1>2 DEF ManifestFails
    <2>2. PICK s, n : s = Tail(exec.todo) /\ n = exec.attempt
      OBVIOUS
    <2>3. exec' = [exec EXCEPT !.todo = s, !.attempt = n]
      BY <1>s, <2>1, <2>2 DEF ExecShape
    <2> QED BY <1>1, <2>1, <2>3, AnotherManifest
  <1>3. CASE ~(Len(exec.todo) > 1) /\ NextAttempt(exec.attempt) <= 3
    <2>1. /\ exec' = [exec EXCEPT !.todo = exec.validators, !.attempt = NextAttempt(@)]
          /\ UNCHANGED <<running, queued, outcome>>
      BY <1>3 DEF ManifestFails
    <2>2. PICK s, n : s = exec.validators /\ n = NextAttempt(exec.attempt)
      OBVIOUS
    <2>3. exec' = [exec EXCEPT !.todo = s, !.attempt = n]
      BY <2>1, <2>2
    <2> QED BY <1>1, <2>1, <2>3, AnotherManifest
  <1>4. CASE ~(Len(exec.todo) > 1) /\ ~(NextAttempt(exec.attempt) <= 3)
    <2>1. Returns("FAILED")
      BY <1>4 DEF ManifestFails
    <2>2. "FAILED" \in Outcomes /\ "FAILED" # "DONE"
      BY DEF Outcomes
    <2>3. JobsInv' /\ DoneInv'
      BY <1>1, <2>1, <2>2, CountsStay, ReturnsKeeps DEF SyncInv
    <2> QED BY <1>1, <2>3, WeakStays DEF SyncInv
  <1> QED BY <1>2, <1>3, <1>4

\* The table is left, finished or noted as partial.
LEMMA TableLeftKeeps ==
  ASSUME SyncInv, exec.pc = "table", NEW partial \in BOOLEAN, TableLeft(partial),
         ~partial => job[exec.run][exec.table].pc = "done",
         UNCHANGED <<started, weak, disputed>>, count'.moves = count.moves,
         count' \in [moves: 0..MaxMoves, timeouts: {count'.timeouts}, changes: {count'.changes}]
  PROVE  SyncInv'
  <1>1. exec.run \in Runs /\ exec.table \in Tables
    BY ExecInRuns DEF SyncInv
  <1>s. ExecShape(exec)
    BY DEF SyncInv, JobsInv
  <1>2. TableCount \in Nat /\ exec.table \in 1..TableCount
    BY <1>1, TablesAssumption DEF Tables
  <1>3. exec.partial \in BOOLEAN
    BY <1>s DEF ExecShape
  <1>4. PICK any \in BOOLEAN : any = Partial(partial)
    BY <1>3 DEF Partial
  <1>5. ~any => ~partial /\ ~exec.partial
    BY <1>4 DEF Partial
  <1>6. ~any => \A t \in 1..exec.table : job[exec.run][t].pc = "done"
    <2> SUFFICES ASSUME ~any, NEW t \in 1..exec.table PROVE job[exec.run][t].pc = "done"
      OBVIOUS
    <2>1. CASE t = exec.table
      BY <1>5, <2>1
    <2>2. CASE t # exec.table
      <3>1. t \in 1..(exec.table - 1)
        BY <1>2, <2>2
      <3> QED BY <1>5, <3>1 DEF SyncInv, DoneInv, LoopIsComplete
    <2> QED BY <2>1, <2>2
  <1>7. CASE exec.table < TableCount
    <2>1. PICK next : next = exec.table + 1
      OBVIOUS
    <2>2. next \in Tables /\ next - 1 = exec.table
      BY <1>2, <1>7, <2>1 DEF Tables
    <2>3. /\ exec' = [exec EXCEPT !.table = next, !.partial = any]
          /\ SyncBegins(next, Head(exec.todo))
          /\ UNCHANGED <<running, queued, outcome>>
      BY <1>4, <1>7, <2>1 DEF TableLeft
    <2>4. /\ ExecShape(exec') /\ exec'.run = exec.run /\ exec'.pc = "table"
          /\ exec'.table = next /\ exec'.partial = any
      BY <1>s, <2>2, <2>3 DEF ExecShape
    <2>5. /\ JobsAreJobs' /\ WeakInv'
          /\ \A q \in Runs, u \in Tables : ~(q = exec.run /\ u = next) => job'[q][u] = job[q][u]
      BY <2>2, <2>3, BeginsKeeps DEF SyncInv
    <2>6. JobsInv'
      BY <2>3, <2>4, <2>5, GoesOnKeeps DEF SyncInv
    <2>7. ~any => \A t \in 1..(next - 1) : job'[exec.run][t].pc = "done"
      <3> SUFFICES ASSUME ~any, NEW t \in 1..(next - 1)
                   PROVE  job'[exec.run][t].pc = "done"
        OBVIOUS
      <3>1. t \in Tables /\ t # next /\ t \in 1..exec.table
        BY <1>2, <2>1, <2>2 DEF Tables
      <3> QED BY <1>1, <1>6, <2>5, <3>1
    <2>8. DoneInv'
      BY <2>3, <2>4, <2>5, <2>7, LoopGoesOn DEF SyncInv
    <2> QED BY <2>5, <2>6, <2>8 DEF SyncInv
  <1>8. CASE ~(exec.table < TableCount)
    <2>1. PICK result : result = IF any THEN "PARTIAL" ELSE "DONE"
      OBVIOUS
    <2>2. Returns(result) /\ UNCHANGED job
      BY <1>4, <1>8, <2>1 DEF TableLeft
    <2>3. result \in Outcomes /\ (result = "DONE" => ~any)
      BY <2>1 DEF Outcomes
    <2>4. exec.table = TableCount
      BY <1>2, <1>8
    <2>5. result = "DONE" => \A t \in Tables : job[exec.run][t].pc = "done"
      BY <1>6, <2>3, <2>4 DEF Tables
    <2>6. JobsInv' /\ DoneInv'
      BY <2>2, <2>3, <2>5, ReturnsKeeps DEF SyncInv
    <2>7. WeakInv'
      BY <2>2, WeakStays DEF SyncInv, dataVars
    <2> QED BY <2>6, <2>7 DEF SyncInv
  <1> QED BY <1>7, <1>8

LEMMA TableEndKeeps == ASSUME SyncInv, TableEnds PROVE SyncInv'
  <1>1. PICK partial \in BOOLEAN : partial = (job[exec.run][exec.table].pc = "failed")
    OBVIOUS
  <1>2. /\ exec.pc = "table" /\ TableLeft(partial)
        /\ ~partial => job[exec.run][exec.table].pc = "done"
        /\ UNCHANGED <<started, weak, disputed, count>>
    BY <1>1 DEF TableEnds, peerVars
  <1>3. /\ count'.moves = count.moves
        /\ count' \in [moves: 0..MaxMoves, timeouts: {count'.timeouts}, changes: {count'.changes}]
    BY <1>2, CountsStay DEF SyncInv
  <1> QED BY <1>2, <1>3, TableLeftKeeps

LEMMA TimeoutKeeps == ASSUME SyncInv, TableTimesOut PROVE SyncInv'
  <1>1. /\ exec.pc = "table" /\ TableLeft(TRUE) /\ UNCHANGED <<started, weak, disputed>>
        /\ count' = [count EXCEPT !.timeouts = @ + 1]
    BY DEF TableTimesOut, peerVars
  <1>2. /\ count'.moves = count.moves
        /\ count' \in [moves: 0..MaxMoves, timeouts: {count'.timeouts}, changes: {count'.changes}]
    BY <1>1 DEF SyncInv, JobsInv, RunsAreAskedFor
  <1> QED BY <1>1, <1>2, TableLeftKeeps

LEMMA JobStepKeeps ==
  ASSUME SyncInv, NEW r \in Runs, NEW t \in Tables, JobStep(r, t)
  PROVE  SyncInv'
  <1>1. /\ UNCHANGED <<started, running, queued, exec, outcome, count>>
        /\ job[r][t].pc \notin {"none", "done", "failed"}
        /\ weak \subseteq weak'
        /\ \/ disputed' \subseteq disputed
           \/ disputed' = disputed \cup {t} /\ t \in weak'
    BY JobMoves DEF SyncInv, WeakInv, runVars
  <1>2. PICK x : /\ JobShape(x) /\ Becomes(r, t, x)
                 /\ x.pc = "apply" /\ ~x.backed => t \in weak'
                 /\ x.pc = "refetch" /\ x.strong => x.backed
    BY JobMoves DEF SyncInv, WeakInv
  <1>3. /\ JobsAreJobs' /\ job'[r][t] = x
        /\ \A q \in Runs, u \in Tables : ~(q = r /\ u = t) => job'[q][u] = job[q][u]
    BY <1>2, JobBecomes DEF SyncInv, JobsInv
  <1>4. \A q \in Runs, u \in Tables : job[q][u].pc = "done" => job'[q][u].pc = "done"
    BY <1>1, <1>3
  <1>5. ApplyingIsQueued'
    <2> SUFFICES ASSUME NEW q \in Runs, NEW u \in Tables
                 PROVE  /\ job'[q][u].pc = "apply" /\ ~job'[q][u].backed => u \in weak'
                        /\ job'[q][u].pc = "refetch" /\ job'[q][u].strong => job'[q][u].backed
      BY DEF ApplyingIsQueued
    <2>1. CASE q = r /\ u = t
      BY <1>2, <1>3, <2>1
    <2>2. CASE ~(q = r /\ u = t)
      <3>1. job'[q][u] = job[q][u]
        BY <1>3, <2>2
      <3>2. /\ job[q][u].pc = "apply" /\ ~job[q][u].backed => u \in weak
            /\ job[q][u].pc = "refetch" /\ job[q][u].strong => job[q][u].backed
        BY DEF SyncInv, WeakInv, ApplyingIsQueued
      <3> QED BY <1>1, <3>1, <3>2
    <2> QED BY <2>1, <2>2
  <1>6. WeakIsQueued'
    BY <1>1 DEF SyncInv, WeakInv, WeakIsQueued
  <1>7. RunsAreAskedFor' /\ ExecShape(exec')
    BY <1>1 DEF SyncInv, JobsInv, RunsAreAskedFor, Owed
  <1>8. DoneInv'
    <2>1. DoneIsComplete'
      BY <1>1, <1>4 DEF SyncInv, DoneInv, DoneIsComplete
    <2>2. DoneIsOver'
      BY <1>1 DEF SyncInv, DoneInv, DoneIsOver
    <2>3. LoopIsComplete'
      <3> SUFFICES ASSUME exec.pc = "table", ~exec.partial, NEW u \in 1..(exec.table - 1)
                   PROVE  job'[exec.run][u].pc = "done"
        BY <1>1 DEF LoopIsComplete
      <3>1. exec.run \in Runs /\ exec.table \in 1..TableCount /\ TableCount \in Nat
        BY ExecInRuns, TablesAssumption DEF SyncInv, Tables
      <3>2. u \in Tables
        BY <3>1 DEF Tables
      <3>3. job[exec.run][u].pc = "done"
        BY DEF SyncInv, DoneInv, LoopIsComplete
      <3> QED BY <1>4, <3>1, <3>2, <3>3
    <2> QED BY <1>1, <2>1, <2>2, <2>3 DEF SyncInv, DoneInv
  <1> QED BY <1>3, <1>5, <1>6, <1>7, <1>8 DEF SyncInv, JobsInv, WeakInv

LEMMA SyncStep == ASSUME SyncInv, [Next]_vars PROVE SyncInv'
  <1>1. CASE Startup
    BY <1>1, StartupKeeps
  <1>2. CASE \E p \in Peers : PeerConnects(p) \/ PeerDisconnects(p)
    BY <1>2, ConnectKeeps, DisconnectKeeps
  <1>3. CASE ExecStep
    BY <1>3, DiscoverKeeps, ManifestKeeps, ManifestFailKeeps, TableEndKeeps DEF ExecStep
  <1>4. CASE DiscoverThrows
    BY <1>4, ThrowKeeps
  <1>5. CASE TableTimesOut
    BY <1>5, TimeoutKeeps
  <1>6. CASE \E r \in Runs, t \in Tables : JobStep(r, t)
    BY <1>6, JobStepKeeps
  <1>7. CASE \E p \in Peers, t \in Tables, v \in Versions : RemoteChanges(p, t, v)
    BY <1>7, RemoteKeeps
  <1>8. CASE UNCHANGED vars
    BY <1>8, StutterKeeps
  <1> QED BY <1>1, <1>2, <1>3, <1>4, <1>5, <1>6, <1>7, <1>8 DEF Next

LEMMA SyncHolds == Spec => []SyncInv
  <1>1. Init => SyncInv
    BY SyncInit
  <1>2. SyncInv /\ [Next]_vars => SyncInv'
    BY SyncStep
  <1> QED BY <1>1, <1>2, PTL DEF Spec

\* A row taken from a peer without a majority of the weight that voted is
\* remembered in weak_consensus_queue, whatever the votes, the weights and the
\* changes between a vote and the fetch of the row that won.
THEOREM DisputedIsQueued == Spec => []WeakIsQueued
  <1>1. SyncInv => WeakIsQueued
    BY DEF SyncInv, WeakInv
  <1> QED BY <1>1, SyncHolds, PTL

\* An execution logged as DONE has synchronised every table, although the jobs of
\* the tables outlive its timeouts and other executions.
THEOREM DoneSyncedAll == Spec => []DoneIsComplete
  <1>1. SyncInv => DoneIsComplete
    BY DEF SyncInv, DoneInv
  <1> QED BY <1>1, SyncHolds, PTL
=============================================================================
