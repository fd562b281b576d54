----------------------------- MODULE BackendNodeProofs -----------------------------
(***************************************************************************)
(* Proofs about three parts of a backend node that share no state:         *)
(* ServerIdentity, for any number of stops and failed reads; SignedRequest,*)
(* for any number of requests, messages, dropped connections, stops, errors*)
(* and rows that others change; and Users, for any set of keys and texts   *)
(* and any number of requests and rows of the table sync.                  *)
(***************************************************************************)
EXTENDS ServerIdentity, SignedRequest, Users, FiniteSetTheorems, TLAPS

-----------------------------------------------------------------------------
(* ServerIdentity: the inductive invariant.                                *)

\* A pair is generated once per start, so that there is one more at most than stops.
OnePairPerStart ==
  /\ generated <= stops + 1
  /\ running \in {"down", "read"} => generated <= stops

\* The files are written while a pair is being stored; one whose write is over has it.
WritesStoreThePair ==
  \A f \in File :
    /\ writes[f] # "idle" => running = "write"
    /\ running = "write" => /\ generated # Unreadable
                            /\ writes[f] = "idle" => files[f] = generated

\* The pair in use is the one both files have.
UsedIsOnDisk == identity # NoIdentity => running = "up" /\ identity = files /\ PairOnDisk

\* Each known key but one was lost by a read that failed; that one is on disk, and no
\* pair is being stored over it.
KnownIsOnDisk ==
  /\ IsFiniteSet(known)
  /\ \/ Cardinality(known) <= misreads
     \/ /\ Cardinality(known) = 1 + misreads
        /\ PairOnDisk /\ files["public"] \in known /\ running # "write"

IdentityInv ==
  IdentityTypeOK /\ OnePairPerStart /\ WritesStoreThePair /\ UsedIsOnDisk /\ KnownIsOnDisk

-----------------------------------------------------------------------------
LEMMA IdentityInitInv == IdentityInit => IdentityInv
<1> SUFFICES ASSUME IdentityInit PROVE IdentityInv
  OBVIOUS
<1>1. KnownIsOnDisk
  BY FS_EmptySet DEF IdentityInit, KnownIsOnDisk
<1>2. QED
  BY <1>1, StopsAssumption
  DEF IdentityInit, IdentityInv, IdentityTypeOK, OnePairPerStart, WritesStoreThePair,
      UsedIsOnDisk, NoIdentity, Pair, Unreadable

\* A pair is read, and used as it is on disk.
LEMMA ReadKeepsInv == IdentityInv /\ IdentityRead => IdentityInv'
<1> SUFFICES ASSUME IdentityInv, IdentityRead PROVE IdentityInv'
  OBVIOUS
<1>1. UNCHANGED <<files, writes, generated, known, misreads, stops>>
  BY DEF IdentityRead
<1>2. KnownIsOnDisk'
  BY <1>1 DEF IdentityInv, IdentityRead, KnownIsOnDisk, PairOnDisk
<1>3. QED
  BY <1>1, <1>2 DEF IdentityInv, IdentityRead, IdentityTypeOK, OnePairPerStart,
                    WritesStoreThePair, UsedIsOnDisk, PairOnDisk

\* A pair is generated where the disk has none, or where it could not be read.
LEMMA GeneratedKeepsInv == IdentityInv /\ (IdentityGenerated \/ IdentityMisread) => IdentityInv'
<1> SUFFICES ASSUME IdentityInv, IdentityGenerated \/ IdentityMisread PROVE IdentityInv'
  OBVIOUS
<1> USE DEF IdentityInv
<1>1. Generated /\ running = "read" /\ misreads \in Nat /\ misreads' \in 0..MaxMisreads
  BY StopsAssumption DEF IdentityGenerated, IdentityMisread, IdentityTypeOK
<1>2. generated + 1 \in Pair /\ generated + 1 # Unreadable /\ generated + 1 <= stops + 1
  BY <1>1, StopsAssumption DEF IdentityTypeOK, OnePairPerStart, Pair, Unreadable
<1>3. NoIdentity \in [File -> Pair]
  BY StopsAssumption DEF NoIdentity, Pair, Unreadable
<1>4. IdentityTypeOK'
  BY <1>1, <1>2, <1>3 DEF IdentityTypeOK, Generated, UsedOnceWritten
<1>5. OnePairPerStart'
  BY <1>1, <1>2 DEF OnePairPerStart, Generated
<1>6. WritesStoreThePair'
  BY <1>1, <1>2 DEF WritesStoreThePair, Generated, Unreadable
<1>7. UsedIsOnDisk'
  BY <1>1 DEF UsedIsOnDisk, Generated, UsedOnceWritten, NoIdentity
<1>8. KnownIsOnDisk'
  <2>1. IsFiniteSet(known) /\ Cardinality(known) \in Nat
    BY FS_CardinalityType DEF KnownIsOnDisk
  <2>2. Cardinality(known) <= misreads'
    BY <1>1, <2>1 DEF KnownIsOnDisk, IdentityGenerated, IdentityMisread
  <2>3. known' = known
    BY <1>1 DEF Generated
  <2>4. QED BY <2>1, <2>2, <2>3 DEF KnownIsOnDisk
<1>9. QED BY <1>4, <1>5, <1>6, <1>7, <1>8

\* The files change while no pair is in use, and every known key is lost already.
LEMMA WrittenKeepsInv ==
  ASSUME IdentityInv, NEW f \in File, FileOpened(f) \/ FileFilled(f)
  PROVE  IdentityInv'
<1> USE DEF IdentityInv
<1>1. /\ running = "write"
      /\ UNCHANGED <<running, generated, identity, known, misreads, stops>>
  BY DEF FileOpened, FileFilled, WritesStoreThePair
<1>2. identity = NoIdentity
  BY <1>1 DEF UsedIsOnDisk
<1>3. IdentityTypeOK'
  <2>1. Unreadable \in Pair
    BY StopsAssumption DEF Pair, Unreadable
  <2>2. QED BY <1>1, <2>1 DEF IdentityTypeOK, FileOpened, FileFilled
<1>4. OnePairPerStart'
  BY <1>1 DEF OnePairPerStart
<1>5. WritesStoreThePair'
  BY <1>1 DEF WritesStoreThePair, IdentityTypeOK, FileOpened, FileFilled, Unreadable
<1>6. UsedIsOnDisk'
  BY <1>1, <1>2 DEF UsedIsOnDisk, NoIdentity, Unreadable
<1>7. KnownIsOnDisk'
  BY <1>1 DEF KnownIsOnDisk
<1>8. QED BY <1>3, <1>4, <1>5, <1>6, <1>7

\* Once both writes are over the disk has the pair.
LEMMA StoredKeepsInv == IdentityInv /\ IdentityStored => IdentityInv'
<1> SUFFICES ASSUME IdentityInv, IdentityStored PROVE IdentityInv'
  OBVIOUS
<1> USE DEF IdentityInv
<1>1. /\ generated # Unreadable
      /\ \A f \in File : files[f] = generated
  BY DEF WritesStoreThePair, IdentityStored, File
<1>2. [f \in File |-> generated] = files
  BY <1>1 DEF IdentityTypeOK
<1>3. PairOnDisk'
  BY <1>1 DEF PairOnDisk, File, IdentityStored, Unreadable
<1>4. IdentityTypeOK' /\ OnePairPerStart' /\ WritesStoreThePair'
  BY <1>2 DEF IdentityTypeOK, OnePairPerStart, WritesStoreThePair, IdentityStored
<1>5. UsedIsOnDisk' /\ KnownIsOnDisk'
  BY <1>1, <1>2, <1>3 DEF UsedIsOnDisk, KnownIsOnDisk, IdentityStored
<1>6. QED BY <1>4, <1>5

LEMMA UsedKeepsInv == IdentityInv /\ IdentityUsed => IdentityInv'
<1> SUFFICES ASSUME IdentityInv, IdentityUsed PROVE IdentityInv'
  OBVIOUS
<1> USE DEF IdentityInv
<1>1. /\ running = "up" /\ identity = files /\ PairOnDisk
      /\ known' = known \cup {files["public"]}
      /\ UNCHANGED <<running, files, writes, generated, identity, misreads, stops>>
  BY DEF UsedIsOnDisk, IdentityUsed
<1>2. files["public"] \in Pair
  BY DEF IdentityTypeOK, File
<1>3. IdentityTypeOK' /\ OnePairPerStart'
  BY <1>1, <1>2 DEF IdentityTypeOK, OnePairPerStart
<1>4. WritesStoreThePair' /\ UsedIsOnDisk'
  BY <1>1 DEF WritesStoreThePair, UsedIsOnDisk, PairOnDisk, NoIdentity, Unreadable
<1>5. KnownIsOnDisk'
  <2>1. IsFiniteSet(known) /\ misreads \in Nat
    BY StopsAssumption DEF KnownIsOnDisk, IdentityTypeOK
  <2>2. /\ IsFiniteSet(known') /\ Cardinality(known) \in Nat
        /\ Cardinality(known') = IF files["public"] \in known THEN Cardinality(known)
                                                             ELSE Cardinality(known) + 1
    BY <1>1, <2>1, FS_AddElement, FS_CardinalityType
  <2>3. Cardinality(known') <= misreads \/ Cardinality(known') = 1 + misreads
    BY <2>1, <2>2 DEF KnownIsOnDisk
  <2>4. PairOnDisk' /\ files'["public"] \in known' /\ running' # "write"
    BY <1>1 DEF PairOnDisk
  <2>5. QED BY <1>1, <2>2, <2>3, <2>4 DEF KnownIsOnDisk
<1>6. QED BY <1>3, <1>4, <1>5

LEMMA StopsKeepsInv == IdentityInv /\ (ServerStops \/ ServerStarts) => IdentityInv'
<1> SUFFICES ASSUME IdentityInv, ServerStops \/ ServerStarts PROVE IdentityInv'
  OBVIOUS
<1> USE DEF IdentityInv
<1>1. NoIdentity \in [File -> Pair]
  BY StopsAssumption DEF NoIdentity, Pair, Unreadable
<1>2. CASE ServerStops
  <2>1. stops' = stops + 1 /\ stops \in Nat /\ generated \in Nat /\ stops' \in 0..MaxStops
    BY <1>2, StopsAssumption DEF ServerStops, IdentityTypeOK, Pair
  <2>2. IdentityTypeOK'
    BY <1>1, <1>2, <2>1 DEF ServerStops, IdentityTypeOK
  <2>3. OnePairPerStart'
    BY <1>2, <2>1 DEF ServerStops, OnePairPerStart
  <2>4. WritesStoreThePair' /\ UsedIsOnDisk' /\ KnownIsOnDisk'
    BY <1>2 DEF ServerStops, WritesStoreThePair, UsedIsOnDisk, KnownIsOnDisk, PairOnDisk,
                NoIdentity, Unreadable
  <2>5. QED BY <2>2, <2>3, <2>4
<1>3. CASE ServerStarts
  BY <1>3 DEF ServerStarts, IdentityTypeOK, OnePairPerStart, WritesStoreThePair, UsedIsOnDisk,
              KnownIsOnDisk, PairOnDisk, NoIdentity, Unreadable
<1>4. QED BY <1>2, <1>3

LEMMA IdentityNextInv == IdentityInv /\ [IdentityNext]_identityVars => IdentityInv'
<1> SUFFICES ASSUME IdentityInv, [IdentityNext]_identityVars PROVE IdentityInv'
  OBVIOUS
<1>1. CASE UNCHANGED identityVars
  BY <1>1 DEF identityVars, IdentityInv, IdentityTypeOK, OnePairPerStart, WritesStoreThePair,
              UsedIsOnDisk, KnownIsOnDisk, PairOnDisk, NoIdentity, Unreadable
<1>2. ASSUME NEW f \in File, FileOpened(f) \/ FileFilled(f) PROVE IdentityInv'
  BY <1>2, WrittenKeepsInv
<1>3. QED BY <1>1, <1>2, ReadKeepsInv, GeneratedKeepsInv, StoredKeepsInv, UsedKeepsInv,
             StopsKeepsInv DEF IdentityNext

-----------------------------------------------------------------------------
\* Wherever the server stops, the halves it uses are of one pair.
THEOREM HalvesAlwaysMatch == IdentitySpec => []HalvesMatch
<1>1. IdentityInv => HalvesMatch
  <2>1. CASE identity = NoIdentity
    BY <2>1 DEF HalvesMatch, NoIdentity, File
  <2>2. CASE identity # NoIdentity
    BY <2>2 DEF IdentityInv, UsedIsOnDisk, PairOnDisk, HalvesMatch
  <2>3. QED BY <2>1, <2>2
<1>2. QED BY <1>1, IdentityInitInv, IdentityNextInv, PTL DEF IdentitySpec

\* However often it stops, a server loses a key that anyone knows only by a start that
\* fails to read it: a key is used when both files have it, and files that have a pair
\* are not written again by a start that reads them.
THEOREM KnownKeyIsKept == IdentitySpec => []KeysLost
<1>1. IdentityInv => KeysLost
  <2> SUFFICES ASSUME IdentityInv PROVE Cardinality(known) <= 1 + misreads
    BY DEF KeysLost
  <2>1. IsFiniteSet(known) /\ misreads \in Nat /\ Cardinality(known) \in Nat
    BY StopsAssumption, FS_CardinalityType DEF IdentityInv, KnownIsOnDisk, IdentityTypeOK
  <2>2. QED BY <2>1 DEF IdentityInv, KnownIsOnDisk
<1>2. QED BY <1>1, IdentityInitInv, IdentityNextInv, PTL DEF IdentitySpec

\* The two together: wherever the server stopped, what it starts with is one pair, and
\* the one that was given away if any was, unless it could not be read.
THEOREM ServerIdentityIsKept == IdentitySpec => []IdentityIsKept
BY HalvesAlwaysMatch, KnownKeyIsKept, PTL DEF IdentityIsKept

-----------------------------------------------------------------------------
(* SignedRequest: the inductive invariant.                                 *)

\* Message m is another's to lose: its delete was asked for, or it was removed or expired.
Gone(m) == ~Kept(m)

\* There is an answer to call d, on its way or read.
Answering(d) == calls[d].handler \in {"handled", "written"} \/ calls[d].caller = "answered"

\* A call that was not made has no answer; one that was answered has no handler left,
\* so that nothing takes its answer back.
CallsInOrder ==
  \A c \in Streams :
    /\ calls[c].caller = "new" => calls[c].handler = "none" /\ ~calls[c].answer.done
    /\ calls[c].caller = "answered" => calls[c].handler = "over"
    /\ calls[c].caller # "new" /\ calls[c].kind # "pull" => calls[c].message \in Messages

\* What a callback has said is stored is there while it is kept,
ReplicatedIsStored ==
  \A c \in Streams :
    calls[c].kind = "replicate" /\ calls[c].answer.done =>
      calls[c].message \in stored \/ Gone(calls[c].message)

\* so is what a caller had an ack of when it made a call,
SettledIsStored == \A c \in Streams : \A m \in settled[c] : m \in stored \/ Gone(m)

\* and a page that a callback made has it.
PageHasSettled ==
  \A c \in Streams : calls[c].kind = "pull" /\ Answering(c) =>
    \/ outcome[c] = "default"
    \/ \A m \in settled[c] \cap Covered(c) : m \in calls[c].answer.page \/ Gone(m)

RequestInv ==
  /\ RequestTypeOK /\ CallsInOrder
  /\ ReplicatedIsStored /\ SettledIsStored /\ PageHasSettled

-----------------------------------------------------------------------------
(* What every step keeps.                                                  *)

\* a message that is not kept stays so
GoneKept == \A m \in Messages : Gone(m) => Gone(m)'

\* a row goes only with a message that is not kept
RowsKept == \A m \in stored : m \in stored' \/ Gone(m)'

\* an ack is new, and its message stored, or it was there
AcksKept ==
  \A d \in Streams : calls'[d].kind = "replicate" /\ calls'[d].answer.done =>
    \/ calls'[d].message \in stored'
    \/ /\ calls[d].kind = "replicate" /\ calls[d].answer.done
       /\ calls'[d].message = calls[d].message

\* a page has the present rows that are kept, or it was there
PagesKept ==
  \A d \in Streams : calls'[d].kind = "pull" /\ Answering(d)' =>
    /\ settled'[d] = settled[d]
    /\ \/ outcome'[d] = "default"
       \/ \A m \in stored : m \in Covered(d)' => m \in calls'[d].answer.page \/ Gone(m)'
       \/ /\ calls[d].kind = "pull" /\ Answering(d) /\ outcome'[d] = outcome[d]
          /\ calls'[d].answer = calls[d].answer /\ calls'[d].message = calls[d].message

\* a caller knows of the acks it has read
SettledKept == \A d \in Streams : settled'[d] = settled[d] \/ settled'[d] = AckedMessages

LEMMA StepKeepsInv ==
  ASSUME RequestInv, RequestTypeOK', CallsInOrder',
         GoneKept, RowsKept, AcksKept, PagesKept, SettledKept
  PROVE  RequestInv'
<1>1. ReplicatedIsStored'
  <2> SUFFICES ASSUME NEW c \in Streams, NEW m, m = calls'[c].message,
                      calls'[c].kind = "replicate", calls'[c].answer.done
               PROVE  m \in stored' \/ Gone(m)'
    BY DEF ReplicatedIsStored
  <2>1. CASE calls'[c].message \in stored'
    BY <2>1
  <2>2. CASE /\ calls[c].kind = "replicate" /\ calls[c].answer.done
             /\ calls'[c].message = calls[c].message
    <3>1. m \in stored \/ Gone(m)
      BY <2>2 DEF RequestInv, ReplicatedIsStored
    <3>2. m \in Messages
      BY <2>2 DEF RequestInv, CallsInOrder
    <3>3. QED BY <3>1, <3>2 DEF RowsKept, GoneKept
  <2>3. QED BY <2>1, <2>2 DEF AcksKept
<1>2. SettledIsStored'
  <2> SUFFICES ASSUME NEW c \in Streams, NEW m \in settled'[c]
               PROVE  m \in stored' \/ Gone(m)'
    BY DEF SettledIsStored
  <2>1. m \in stored \/ Gone(m)
    <3>1. CASE settled'[c] = settled[c]
      BY <3>1 DEF RequestInv, SettledIsStored
    <3>2. CASE settled'[c] = AckedMessages
      BY <3>2 DEF RequestInv, ReplicatedIsStored, AckedMessages, Acked
    <3>3. QED BY <3>1, <3>2 DEF SettledKept
  <2>2. m \in Messages
    BY DEF RequestTypeOK
  <2>3. QED BY <2>1, <2>2 DEF RowsKept, GoneKept
<1>3. PageHasSettled'
  <2> SUFFICES ASSUME NEW c \in Streams, calls'[c].kind = "pull", Answering(c)',
                      outcome'[c] # "default", NEW m \in settled'[c], m \in Covered(c)',
                      ~Gone(m)'
               PROVE  m \in calls'[c].answer.page
    BY DEF PageHasSettled
  <2>1. m \in Messages /\ ~Gone(m)
    BY DEF RequestTypeOK, GoneKept
  <2>2. m \in settled[c]
    BY DEF PagesKept
  <2>3. CASE \A k \in stored : k \in Covered(c)' => k \in calls'[c].answer.page \/ Gone(k)'
    BY <2>1, <2>2, <2>3 DEF RequestInv, SettledIsStored
  <2>4. CASE /\ calls[c].kind = "pull" /\ Answering(c) /\ outcome'[c] = outcome[c]
             /\ calls'[c].answer = calls[c].answer /\ calls'[c].message = calls[c].message
    <3>1. m \in Covered(c)
      BY <2>4 DEF Covered
    <3>2. QED BY <2>1, <2>2, <2>4, <3>1 DEF RequestInv, PageHasSettled
  <2>5. QED BY <2>3, <2>4 DEF PagesKept
<1>4. QED BY <1>1, <1>2, <1>3 DEF RequestInv

\* Where calls keep what they are about and no fate is undone, what is gone stays gone.
LEMMA FatesKeepGone ==
  ASSUME \A d \in Streams : calls[d].caller # "new" =>
           /\ calls'[d].kind = calls[d].kind /\ calls'[d].message = calls[d].message
           /\ calls'[d].caller # "new",
         \A m \in Messages : fates[m] # "kept" => fates'[m] # "kept"
  PROVE  GoneKept
BY DEF GoneKept, Gone, Kept, DeletedMessages

-----------------------------------------------------------------------------
(* The steps.                                                              *)

LEMMA NoAnswerType == NoAnswer \in Answer /\ ~NoAnswer.done /\ NoAnswer.page = {}
BY DEF NoAnswer, Answer, Cursor

LEMMA RequestInitInv == RequestInit => RequestInv
<1> SUFFICES ASSUME RequestInit PROVE RequestInv
  OBVIOUS
<1>1. /\ phase = "up" /\ linked = FALSE /\ stored = {} /\ breaks = 0
      /\ fates = [m \in Messages |-> "kept"]
      /\ calls = [c \in Streams |-> [kind |-> "pull", message |-> 0, open |-> FALSE,
                    answer |-> NoAnswer, caller |-> "new", handler |-> "none"]]
      /\ outcome = [c \in Streams |-> "none"]
      /\ settled = [c \in Streams |-> {}]
  BY DEF RequestInit
<1>2. RequestTypeOK
  <2>1. [kind |-> "pull", message |-> 0, open |-> FALSE, answer |-> NoAnswer,
         caller |-> "new", handler |-> "none"] \in CallState
    BY NoAnswerType DEF CallState, Kinds, Cursor
  <2>2. calls \in [Streams -> CallState]
    BY <1>1, <2>1
  <2>3. 0 \in 0..MaxBreaks
    BY BreaksAssumption
  <2>4. /\ outcome \in [Streams -> {"none", "callback", "default"}]
        /\ settled \in [Streams -> SUBSET Messages]
        /\ fates \in [Messages -> {"kept", "removed", "expired"}]
    BY <1>1
  <2>5. QED BY <1>1, <2>2, <2>3, <2>4, Zenon DEF RequestTypeOK
<1>3. QED
  BY <1>1, <1>2, NoAnswerType
  DEF RequestInv, CallsInOrder, ReplicatedIsStored, SettledIsStored, PageHasSettled, Answering

\* A call is made, or its dial fails.
LEMMA RequestedKeepsInv ==
  ASSUME RequestInv, NEW c \in Streams, NEW kind \in Kinds, NEW m \in Subjects(kind),
         Requested(c, kind, m) \/ NotRequested(c, kind, m)
  PROVE  RequestInv'
<1> DEFINE made == calls'[c]
<1>1. /\ calls[c].caller = "new" /\ calls[c].handler = "none" /\ ~calls[c].answer.done
      /\ UNCHANGED <<stored, fates, outcome>>
  BY DEF RequestInv, CallsInOrder, Requested, NotRequested
<1>2. \A d \in Streams : d # c => calls'[d] = calls[d] /\ settled'[d] = settled[d]
  BY DEF RequestInv, RequestTypeOK, Requested, NotRequested
<1>3. m \in Cursor /\ (kind # "pull" => m \in Messages)
  BY DEF Subjects, Cursor
<1>4. /\ made \in CallState /\ calls' \in [Streams -> CallState]
      /\ made.answer = calls[c].answer /\ made.kind = kind /\ made.message = m
      /\ \/ made.caller = "waits" /\ made.handler = "sent"
         \/ made.caller = "failed" /\ made.handler = "none"
  <2>1. CASE Requested(c, kind, m)
    BY ZenonT(60), <2>1, <1>3 DEF RequestInv, RequestTypeOK, CallState, Requested
  <2>2. CASE NotRequested(c, kind, m)
    BY ZenonT(60), <2>2, <1>1, <1>3 DEF RequestInv, RequestTypeOK, CallState, NotRequested
  <2>3. QED BY <2>1, <2>2
<1>5. settled' \in [Streams -> SUBSET Messages] /\ SettledKept
  <2>1. AckedMessages \subseteq Messages
    BY DEF RequestInv, CallsInOrder, AckedMessages, Acked
  <2>2. QED BY <2>1 DEF RequestInv, RequestTypeOK, Requested, NotRequested, SettledKept
<1>6. RequestTypeOK'
  BY <1>4, <1>5 DEF RequestInv, RequestTypeOK, Requested, NotRequested
<1>7. CallsInOrder'
  BY <1>1, <1>2, <1>3, <1>4 DEF RequestInv, CallsInOrder
<1>8. GoneKept /\ RowsKept /\ AcksKept
  <2>1. GoneKept
    BY <1>1, <1>2, FatesKeepGone
  <2>2. QED BY <1>1, <1>2, <1>4, <2>1 DEF RowsKept, AcksKept
<1>9. PagesKept
  BY <1>1, <1>2, <1>4 DEF PagesKept, Answering
<1>10. QED BY <1>5, <1>6, <1>7, <1>8, <1>9, StepKeepsInv

\* What a callback's write leaves: a row goes only for a delete.
LEMMA RowsAfterKept ==
  ASSUME RequestInv, NEW c \in Streams, calls[c].caller # "new",
         stored' \in {stored, RowsAfter(c)}, fates' = fates,
         \A d \in Streams : /\ calls'[d].kind = calls[d].kind
                            /\ calls'[d].message = calls[d].message
                            /\ calls'[d].caller = calls[d].caller
  PROVE  stored' \subseteq Messages /\ GoneKept /\ RowsKept
<1>1. /\ calls[c].kind \in Kinds /\ stored \subseteq Messages
      /\ calls[c].kind # "pull" => calls[c].message \in Messages
  BY DEF RequestInv, RequestTypeOK, CallState, CallsInOrder
<1>2. GoneKept
  BY FatesKeepGone
<1>3. CASE calls[c].kind = "replicate"
  BY <1>1, <1>2, <1>3 DEF RowsAfter, RowsKept
<1>4. CASE calls[c].kind = "delete"
  <2>1. calls[c].message \in DeletedMessages'
    BY <1>4 DEF DeletedMessages
  <2>2. QED BY <1>1, <1>2, <1>4, <2>1 DEF RowsAfter, RowsKept, Gone, Kept
<1>5. CASE calls[c].kind = "pull"
  BY <1>1, <1>2, <1>5 DEF RowsAfter, RowsKept
<1>6. QED BY <1>1, <1>3, <1>4, <1>5 DEF Kinds

\* A page leaves no gap: what it covers of the rows that have not expired, it has.
LEMMA PageHasCovered ==
  ASSUME RequestTypeOK, NEW c \in Streams, calls[c].kind = "pull", NEW a \in AnswersTo(c),
         NEW m \in stored, fates[m] # "expired", calls[c].message < m,
         a.next = 0 \/ m <= a.next
  PROVE  m \in a.page
<1>1. a.page \subseteq Messages /\ m \in Nat \ {0} /\ Messages \subseteq Nat \ {0}
  BY MessagesAssumption DEF RequestTypeOK, AnswersTo, Answer
<1>2. FirstOf(a.page, Pending(c)) /\ EndsAt(a.page, a.next) /\ m \in Pending(c)
  BY DEF AnswersTo, Pending
<1>3. CASE Cardinality(a.page) = PageLimit
  <2>1. a.next \in a.page /\ a.next \in Nat \ {0}
    BY <1>1, <1>2, <1>3 DEF EndsAt
  <2>2. m \notin a.page => a.next < m
    BY <1>2, <2>1 DEF FirstOf
  <2>3. QED BY <1>1, <2>1, <2>2
<1>4. CASE Cardinality(a.page) # PageLimit
  BY <1>2, <1>4 DEF FirstOf
<1>5. QED BY <1>3, <1>4

\* The callback comes to its end.
LEMMA HandledKeepsInv ==
  ASSUME RequestInv, NEW c \in Streams, CallHandled(c)
  PROVE  RequestInv'
<1>1. PICK answer \in AnswersTo(c) :
        calls' = [calls EXCEPT ![c].handler = "handled", ![c].answer = answer]
  BY DEF CallHandled
<1>2. /\ calls[c].handler = "held" /\ calls[c].caller \notin {"new", "answered"}
      /\ stored' = RowsAfter(c)
      /\ outcome' = [outcome EXCEPT ![c] = "callback"]
      /\ UNCHANGED <<phase, linked, fates, settled, breaks>>
  BY DEF RequestInv, CallsInOrder, CallHandled
<1>3. answer \in Answer
  <2>1. Done \in Answer
    BY DEF Done, Answer, Cursor
  <2>2. CASE calls[c].kind = "pull"
    BY <2>2 DEF AnswersTo
  <2>3. CASE calls[c].kind # "pull"
    BY <2>1, <2>3 DEF AnswersTo
  <2>4. QED BY <2>2, <2>3
<1>4. /\ \A d \in Streams : d # c => calls'[d] = calls[d] /\ outcome'[d] = outcome[d]
      /\ outcome'[c] = "callback"
      /\ calls'[c].kind = calls[c].kind /\ calls'[c].message = calls[c].message
      /\ calls'[c].caller = calls[c].caller /\ calls'[c].handler = "handled"
      /\ calls'[c].answer = answer
  BY <1>1, <1>2 DEF RequestInv, RequestTypeOK, CallState
<1>5. stored' \subseteq Messages /\ GoneKept /\ RowsKept
  BY <1>2, <1>4, RowsAfterKept
<1>6. RequestTypeOK'
  <2>1. calls' \in [Streams -> CallState]
    <3>1. [calls[c] EXCEPT !.handler = "handled", !.answer = answer] \in CallState
      BY <1>3 DEF RequestInv, RequestTypeOK, CallState
    <3>2. QED BY <1>1, <3>1 DEF RequestInv, RequestTypeOK
  <2>2. QED BY <1>2, <1>5, <2>1 DEF RequestInv, RequestTypeOK
<1>7. CallsInOrder'
  BY ZenonT(60), <1>2, <1>4 DEF RequestInv, CallsInOrder
<1>8. SettledKept
  BY <1>2 DEF SettledKept
<1>9. AcksKept
  <2>1. calls[c].kind = "replicate" => calls[c].message \in stored'
    BY <1>2 DEF RowsAfter
  <2>2. QED BY <1>4, <2>1 DEF AcksKept
<1>10. PagesKept
  <2> SUFFICES ASSUME NEW d \in Streams, calls'[d].kind = "pull", Answering(d)'
               PROVE  /\ settled'[d] = settled[d]
                      /\ \/ \A m \in stored : m \in Covered(d)' =>
                              m \in calls'[d].answer.page \/ Gone(m)'
                         \/ /\ calls[d].kind = "pull" /\ Answering(d)
                            /\ outcome'[d] = outcome[d] /\ calls'[d].answer = calls[d].answer
                            /\ calls'[d].message = calls[d].message
    BY DEF PagesKept
  <2>1. CASE d = c
    <3> SUFFICES ASSUME NEW m \in stored, m \in Covered(d)', ~Gone(m)'
                 PROVE  m \in calls'[d].answer.page
      BY <1>2
    <3>1. m \in Messages /\ ~Gone(m)
      BY <1>5 DEF GoneKept, RequestInv, RequestTypeOK
    <3>2. fates[m] = "kept"
      BY <3>1 DEF Gone, Kept
    <3>3. calls[c].message < m /\ (answer.next = 0 \/ m <= answer.next)
      BY <1>4, <2>1 DEF Covered
    <3>4. QED BY <1>4, <2>1, <3>2, <3>3, PageHasCovered DEF RequestInv
  <2>2. CASE d # c
    BY <1>2, <1>4, <2>2 DEF Answering
  <2>3. QED BY <2>1, <2>2
<1>11. QED BY <1>5, <1>6, <1>7, <1>8, <1>9, <1>10, StepKeepsInv

\* The server answers for itself, or the callback refuses: what is answered acknowledges
\* nothing, and no pull is refused.
LEMMA NotHandledKeepsInv ==
  ASSUME RequestInv, NEW c \in Streams, CallNotHandled(c) \/ CallRefused(c)
  PROVE  RequestInv'
<1>1. /\ calls[c].handler = "held" /\ calls[c].caller \notin {"new", "answered"}
      /\ calls' = [calls EXCEPT ![c].handler = "handled", ![c].answer = NoAnswer]
      /\ outcome' \in [Streams -> {"none", "callback", "default"}]
      /\ calls[c].kind = "pull" => outcome'[c] = "default"
      /\ \A d \in Streams : d # c => outcome'[d] = outcome[d]
      /\ UNCHANGED <<phase, linked, stored, fates, settled, breaks>>
  <2>1. CASE CallNotHandled(c)
    BY <2>1 DEF RequestInv, RequestTypeOK, CallsInOrder, CallNotHandled, AnswerWithoutCallback
  <2>2. CASE CallRefused(c)
    BY <2>2 DEF RequestInv, RequestTypeOK, CallsInOrder, CallRefused
  <2>3. QED BY <2>1, <2>2
<1>2. /\ \A d \in Streams : d # c => calls'[d] = calls[d]
      /\ calls'[c].kind = calls[c].kind /\ calls'[c].message = calls[c].message
      /\ calls'[c].caller = calls[c].caller /\ calls'[c].handler = "handled"
      /\ ~calls'[c].answer.done
  BY <1>1, NoAnswerType DEF RequestInv, RequestTypeOK, CallState
<1>3. RequestTypeOK'
  <2>1. calls' \in [Streams -> CallState]
    <3>1. [calls[c] EXCEPT !.handler = "handled", !.answer = NoAnswer] \in CallState
      BY NoAnswerType DEF RequestInv, RequestTypeOK, CallState
    <3>2. QED BY <1>1, <3>1 DEF RequestInv, RequestTypeOK
  <2>2. QED BY <1>1, <2>1 DEF RequestInv, RequestTypeOK
<1>4. CallsInOrder'
  BY ZenonT(60), <1>1, <1>2 DEF RequestInv, CallsInOrder
<1>5. GoneKept
  BY <1>1, <1>2, FatesKeepGone
<1>6. RowsKept /\ SettledKept /\ AcksKept
  BY <1>1, <1>2 DEF RowsKept, SettledKept, AcksKept
<1>7. PagesKept
  BY <1>1, <1>2 DEF PagesKept, Answering
<1>8. QED BY <1>3, <1>4, <1>5, <1>6, <1>7, StepKeepsInv

\* Every other step moves calls that were made, and keeps or drops their answers.
Moved(d) ==
  /\ calls'[d].kind = calls[d].kind /\ calls'[d].message = calls[d].message
  /\ calls'[d].caller = "new" <=> calls[d].caller = "new"
  /\ calls[d].caller = "new" => calls'[d].handler = calls[d].handler
  /\ calls'[d].caller = "answered" => calls'[d].handler = "over"
  /\ Answering(d)' => Answering(d) /\ calls'[d].answer = calls[d].answer
  /\ calls'[d].answer \in {calls[d].answer, NoAnswer}

LEMMA MovedKeepsInv ==
  ASSUME RequestInv, RequestTypeOK', UNCHANGED <<fates, outcome, settled>>, RowsKept,
         \A d \in Streams : Moved(d)
  PROVE  RequestInv'
<1>1. CallsInOrder'
  BY NoAnswerType DEF RequestInv, CallsInOrder, Moved
<1>2. GoneKept
  BY FatesKeepGone DEF Moved
<1>3. SettledKept
  BY DEF SettledKept, Moved
<1>4. AcksKept
  BY NoAnswerType DEF AcksKept, Moved
<1>5. PagesKept
  BY DEF PagesKept, Moved
<1>6. QED BY <1>1, <1>2, <1>3, <1>4, <1>5, StepKeepsInv

\* Losing the answer of a call that was made is such a step.
LEMMA UnansweredMoves ==
  ASSUME RequestInv, NEW c \in Streams,
         calls[c].handler \in {"sent", "held", "handled", "written"},
         calls' = [calls EXCEPT ![c] = Unanswered(@)]
  PROVE  calls' \in [Streams -> CallState] /\ \A d \in Streams : Moved(d)
<1>1. /\ calls[c] \in CallState /\ calls \in [Streams -> CallState]
      /\ calls[c].caller = "new" => calls[c].handler = "none"
  BY DEF RequestInv, RequestTypeOK, CallsInOrder
<1>2. calls'[c] = Unanswered(calls[c]) /\ Unanswered(calls[c]) \in CallState
  BY <1>1, NoAnswerType DEF Unanswered, CallState
<1>3. Moved(c)
  <2>1. /\ calls'[c].kind = calls[c].kind /\ calls'[c].message = calls[c].message
        /\ calls'[c].caller = calls[c].caller /\ calls'[c].handler = "over"
        /\ calls'[c].answer = NoAnswer
    BY <1>1, <1>2 DEF Unanswered, CallState
  <2>2. calls[c].caller = "answered" => calls[c].handler = "over"
    BY DEF RequestInv, CallsInOrder
  <2>3. QED BY <1>1, <2>1, <2>2 DEF Moved, Answering
<1>4. \A d \in Streams : d # c => Moved(d)
  BY <1>1 DEF RequestInv, CallsInOrder, Moved, Answering
<1>5. QED BY <1>1, <1>2, <1>3, <1>4

LEMMA ThrownKeepsInv ==
  ASSUME RequestInv, NEW c \in Streams, CallThrown(c)
  PROVE  RequestInv'
<1>1. /\ calls[c].handler = "held" /\ calls[c].caller # "new"
      /\ stored' \in {stored, RowsAfter(c)}
      /\ calls' = [calls EXCEPT ![c] = Unanswered(@)]
      /\ UNCHANGED <<phase, linked, fates, outcome, settled>>
  BY DEF RequestInv, CallsInOrder, CallThrown
<1>2. calls' \in [Streams -> CallState] /\ \A d \in Streams : Moved(d)
  BY <1>1, UnansweredMoves
<1>3. \A d \in Streams : calls'[d].caller = calls[d].caller
  BY <1>1 DEF RequestInv, RequestTypeOK, CallState, Unanswered
<1>4. stored' \subseteq Messages /\ RowsKept
  BY <1>1, <1>2, <1>3, RowsAfterKept DEF Moved
<1>5. breaks' \in 0..MaxBreaks
  BY BreaksAssumption DEF RequestInv, RequestTypeOK, CallThrown
<1>6. RequestTypeOK'
  BY <1>1, <1>2, <1>4, <1>5 DEF RequestInv, RequestTypeOK
<1>7. QED BY <1>1, <1>2, <1>4, <1>6, MovedKeepsInv

LEMMA CallMovesKeepInv ==
  ASSUME RequestInv, NEW c \in Streams,
         \/ CallChecked(c) \/ CallLost(c) \/ AnswerWritten(c) \/ AnswerRead(c) \/ CallFails(c)
  PROVE  RequestInv'
<1>1. UNCHANGED <<phase, linked, stored, fates, outcome, settled, breaks>>
  BY DEF CallChecked, CallLost, AnswerWritten, AnswerRead, CallFails
<1>2. /\ calls[c] \in CallState /\ calls \in [Streams -> CallState]
      /\ calls[c].caller = "answered" => calls[c].handler = "over"
      /\ calls[c].caller = "new" => calls[c].handler = "none"
  BY DEF RequestInv, RequestTypeOK, CallsInOrder
<1>3. \A d \in Streams : calls'[d] = calls[d] => Moved(d)
  BY DEF RequestInv, CallsInOrder, Moved, Answering
<1>4. \A d \in Streams : d # c => calls'[d] = calls[d]
  BY <1>2 DEF CallChecked, CallLost, AnswerWritten, AnswerRead, CallFails
<1>5. calls' \in [Streams -> CallState] /\ \A d \in Streams : Moved(d)
  <2>1. CASE CallChecked(c)
    <3>1. calls'[c] = [calls[c] EXCEPT !.handler = IF linked THEN "held" ELSE "over"]
      BY <2>1, <1>2 DEF CallChecked
    <3>2. Moved(c)
      BY <2>1, <3>1, <1>2 DEF CallChecked, CallState, Moved, Answering
    <3>3. calls' \in [Streams -> CallState]
      BY <2>1, <1>2 DEF CallChecked, CallState
    <3>4. QED BY <3>2, <3>3, <1>3, <1>4
  <2>2. CASE CallLost(c) \/ AnswerWritten(c)
    <3>1. /\ calls[c].handler \in {"sent", "handled", "written"}
          /\ \/ calls' = [calls EXCEPT ![c] = Unanswered(@)]
             \/ /\ calls[c].handler = "handled"
                /\ calls' = [calls EXCEPT ![c] = [@ EXCEPT !.handler = "written"]]
      BY <2>2, <1>2 DEF CallLost, AnswerWritten
    <3>2. CASE calls' = [calls EXCEPT ![c] = Unanswered(@)]
      BY <3>1, <3>2, UnansweredMoves
    <3>3. CASE /\ calls[c].handler = "handled"
               /\ calls' = [calls EXCEPT ![c] = [@ EXCEPT !.handler = "written"]]
      <4>1. /\ calls'[c] = [calls[c] EXCEPT !.handler = "written"]
            /\ [calls[c] EXCEPT !.handler = "written"] \in CallState
        BY <3>3, <1>2 DEF CallState
      <4>2. Moved(c)
        BY <4>1, <3>3, <1>2 DEF CallState, Moved, Answering
      <4>3. QED BY <3>3, <4>1, <4>2, <1>2, <1>3, <1>4
    <3>4. QED BY <3>1, <3>2, <3>3
  <2>3. CASE AnswerRead(c)
    <3>1. calls' \in [Streams -> CallState]
      BY <2>3, <1>2 DEF AnswerRead, CallState
    <3>2. Moved(c)
      BY <2>3, <1>2 DEF AnswerRead, AnswerArrives, CallState, Moved, Answering
    <3>3. QED BY <3>1, <3>2, <1>3, <1>4
  <2>4. CASE CallFails(c)
    <3>1. calls' \in [Streams -> CallState]
      BY <2>4, <1>2 DEF CallFails, CallState
    <3>2. Moved(c)
      BY <2>4, <1>2 DEF CallFails, CallState, Moved, Answering
    <3>3. QED BY <3>1, <3>2, <1>3, <1>4
  <2>5. QED BY <2>1, <2>2, <2>3, <2>4
<1>6. RequestTypeOK' /\ RowsKept
  BY <1>1, <1>5 DEF RequestInv, RequestTypeOK, RowsKept
<1>7. QED BY <1>1, <1>5, <1>6, MovedKeepsInv

\* Rows come by the table sync, and go with messages that are not kept.
LEMMA RowsChangeKeepsInv == RequestInv /\ RowsChange => RequestInv'
<1> SUFFICES ASSUME RequestInv, RowsChange PROVE RequestInv'
  OBVIOUS
<1>1. PICK m \in Messages : RowRemoved(m) \/ RowExpires(m) \/ RowCopied(m)
  BY DEF RowsChange
<1>2. UNCHANGED <<phase, linked, calls, outcome, settled>> /\ breaks' \in 0..MaxBreaks
  BY BreaksAssumption DEF RowsChange, RequestInv, RequestTypeOK
<1>3. /\ stored' \subseteq Messages
      /\ fates' \in [Messages -> {"kept", "removed", "expired"}]
      /\ \A k \in Messages : fates[k] # "kept" => fates'[k] # "kept"
      /\ \A k \in stored : k \in stored' \/ fates'[k] # "kept"
  BY <1>1 DEF RowRemoved, RowExpires, RowCopied, RequestInv, RequestTypeOK
<1>4. RequestTypeOK' /\ CallsInOrder'
  BY <1>2, <1>3 DEF RequestInv, RequestTypeOK, CallsInOrder
<1>5. GoneKept
  BY <1>2, <1>3, FatesKeepGone
<1>6. RowsKept
  BY <1>3 DEF RowsKept, Gone, Kept
<1>7. AcksKept /\ PagesKept /\ SettledKept
  BY <1>2 DEF AcksKept, PagesKept, SettledKept, Answering
<1>8. QED BY <1>4, <1>5, <1>6, <1>7, StepKeepsInv

LEMMA LinksKeepInv ==
  ASSUME RequestInv,
         \/ ConnectionDrops \/ ConnectionReturns
         \/ OtherServerStops \/ HandlersRegistered \/ CallbacksRegistered
  PROVE  RequestInv'
<1>1. UNCHANGED <<stored, fates, outcome, settled>>
  BY DEF ConnectionDrops, ConnectionReturns, OtherServerStops, HandlersRegistered,
         CallbacksRegistered
<1>2. /\ breaks' \in 0..MaxBreaks
      /\ phase' \in {"down", "starting", "up"} /\ linked' \in BOOLEAN
  <2>1. /\ breaks \in 0..MaxBreaks /\ phase \in {"down", "starting", "up"}
        /\ linked \in BOOLEAN
    BY DEF RequestInv, RequestTypeOK
  <2>2. CASE ConnectionDrops
    <3>1. breaks' \in 0..MaxBreaks
      BY <2>1, <2>2, BreaksAssumption DEF ConnectionDrops
    <3>2. QED BY <2>1, <2>2, <3>1 DEF ConnectionDrops
  <2>3. CASE OtherServerStops
    <3>1. breaks' \in 0..MaxBreaks
      BY <2>1, <2>3, BreaksAssumption DEF OtherServerStops
    <3>2. QED BY <2>3, <3>1 DEF OtherServerStops
  <2>4. CASE ConnectionReturns \/ HandlersRegistered \/ CallbacksRegistered
    BY <2>1, <2>4 DEF ConnectionReturns, HandlersRegistered, CallbacksRegistered
  <2>5. QED BY <2>2, <2>3, <2>4
<1>3. calls' \in [Streams -> CallState] /\ \A d \in Streams : Moved(d)
  <2>1. ASSUME NEW over \in SUBSET {"sent", "held", "handled"}, calls' = StreamsBroken(over)
        PROVE  calls' \in [Streams -> CallState] /\ \A d \in Streams : Moved(d)
    <3>1. \A d \in Streams :
            /\ calls[d] \in CallState
            /\ calls[d].caller = "answered" => calls[d].handler = "over"
            /\ calls[d].caller = "new" => calls[d].handler = "none"
      BY DEF RequestInv, RequestTypeOK, CallsInOrder
    <3>2. \A d \in Streams :
            calls'[d] = [IF calls[d].handler \in over THEN Unanswered(calls[d]) ELSE calls[d]
                         EXCEPT !.open = FALSE]
      BY <2>1 DEF StreamsBroken
    <3>3. \A d \in Streams : calls'[d] \in CallState /\ Moved(d)
      <4> SUFFICES ASSUME NEW d \in Streams PROVE calls'[d] \in CallState /\ Moved(d)
        OBVIOUS
      <4>1. CASE calls[d].handler \in over
        <5>1. calls'[d] = [Unanswered(calls[d]) EXCEPT !.open = FALSE]
          BY <4>1, <3>2
        <5>2. calls'[d] = [calls[d] EXCEPT !.handler = "over", !.answer = NoAnswer,
                                           !.open = FALSE]
          BY <5>1, <3>1 DEF Unanswered, CallState
        <5>3. calls'[d] \in CallState
          BY <5>2, <3>1, NoAnswerType DEF CallState
        <5>4. Moved(d)
          BY <4>1, <5>2, <3>1 DEF CallState, Moved, Answering
        <5>5. QED BY <5>3, <5>4
      <4>2. CASE calls[d].handler \notin over
        <5>1. calls'[d] = [calls[d] EXCEPT !.open = FALSE]
          BY <4>2, <3>2
        <5>2. calls'[d] \in CallState
          BY <5>1, <3>1 DEF CallState
        <5>3. Moved(d)
          BY <5>1, <3>1 DEF CallState, Moved, Answering
        <5>4. QED BY <5>2, <5>3
      <4>3. QED BY <4>1, <4>2
    <3>4. QED BY <2>1, <3>3 DEF StreamsBroken
  <2>2. CASE ConnectionDrops
    BY <2>1, <2>2 DEF ConnectionDrops
  <2>3. CASE OtherServerStops
    BY <2>1, <2>3 DEF OtherServerStops
  <2>4. CASE ConnectionReturns \/ HandlersRegistered \/ CallbacksRegistered
    <3>1. calls' = calls
      BY <2>4 DEF ConnectionReturns, HandlersRegistered, CallbacksRegistered
    <3>2. QED BY <3>1 DEF RequestInv, RequestTypeOK, CallsInOrder, Moved, Answering
  <2>5. QED BY <2>2, <2>3, <2>4
<1>4. RequestTypeOK' /\ RowsKept
  BY <1>1, <1>2, <1>3 DEF RequestInv, RequestTypeOK, RowsKept
<1>5. QED BY <1>1, <1>3, <1>4, MovedKeepsInv

LEMMA RequestNextInv == RequestInv /\ [RequestNext]_requestVars => RequestInv'
<1> SUFFICES ASSUME RequestInv, [RequestNext]_requestVars PROVE RequestInv'
  OBVIOUS
<1>1. ASSUME NEW c \in Streams, CallStep(c) PROVE RequestInv'
  BY <1>1, RequestedKeepsInv, HandledKeepsInv, NotHandledKeepsInv, ThrownKeepsInv,
     CallMovesKeepInv DEF CallStep
<1>2. CASE \/ ConnectionDrops \/ ConnectionReturns
           \/ OtherServerStops \/ HandlersRegistered \/ CallbacksRegistered
  BY <1>2, LinksKeepInv
<1>3. CASE UNCHANGED requestVars
  BY <1>3 DEF requestVars, RequestInv, RequestTypeOK, CallsInOrder, ReplicatedIsStored,
              SettledIsStored, PageHasSettled, Answering, Gone, Kept, DeletedMessages, Covered
<1>4. QED BY <1>1, <1>2, <1>3, RowsChangeKeepsInv DEF RequestNext

-----------------------------------------------------------------------------
\* What a replicate was acked for is in the rows, whatever broke or stopped, until it is
\* deleted, removed or expired.
THEOREM AcksAreTrue == RequestSpec => []AckedIsStored
<1>1. RequestInv => AckedIsStored
  BY DEF RequestInv, ReplicatedIsStored, AckedIsStored, AckedMessages, Acked, Gone
<1>2. QED BY <1>1, RequestInitInv, RequestNextInv, PTL DEF RequestSpec

\* A pull answered by a callback has, of the ids it covers, all that was acked before it
\* and is kept: for any page limit, and any number of requests, breaks and stops.
THEOREM PullsFindAcked == RequestSpec => []PullFindsAcked
<1>1. RequestInv => PullFindsAcked
  BY DEF RequestInv, PageHasSettled, PullFindsAcked, Answering, Gone
<1>2. QED BY <1>1, RequestInitInv, RequestNextInv, PTL DEF RequestSpec

\* So a caller is told the truth: acks of what is stored, and pages, followed by their
\* cursors, of everything that was acked.
THEOREM CallersAreToldTheTruth == RequestSpec => []AnswersAreTrue
BY AcksAreTrue, PullsFindAcked, PTL DEF AnswersAreTrue

-----------------------------------------------------------------------------
(* Users: what a request makes of a row.                                   *)

\* A text that is left of a field of a body is one that the column takes.
LEMMA NormalizedType ==
  ASSUME NEW text \in Texts \cup {Omitted}, NEW old \in Names \cup {Null}
  PROVE  Normalized(text, old) \in Names \cup {Null}
BY DEF Normalized, Trim, Texts, Padded

LEMMA RowOfUserType ==
  ASSUME UsersTypeOK, NEW k \in UserKeys
  PROVE  RowOfUser(k) \in UserRow
BY DEF UsersTypeOK, RowOfUser, NoRow, UserRow

\* A request makes a row of the table's type, and what it has no field of is as it was.
RowIsAsked(r) ==
  /\ RowAfter(r) \in UserRow
  /\ r.kind # "box_key" => RowAfter(r).box_key = RowOfUser(r.key).box_key
  /\ r.kind # "profile" \/ r.username = Omitted =>
       RowAfter(r).username = RowOfUser(r.key).username
  /\ r.kind # "profile" \/ r.name = Omitted => RowAfter(r).name = RowOfUser(r.key).name

LEMMA RowAfterIsAsked ==
  ASSUME UsersTypeOK, NEW r \in UserRequest
  PROVE  r.key \in UserKeys /\ RowIsAsked(r)
<1>1. r.key \in UserKeys /\ r.kind \in {"public_key", "box_key", "profile"}
  BY DEF UserRequest, BoxKeyRequest, ProfileRequest
<1>2. PICK row \in UserRow : row = RowOfUser(r.key)
  BY <1>1, RowOfUserType
<1>3. CASE r.kind = "public_key"
  BY <1>1, <1>2, <1>3 DEF RowIsAsked, RowAfter
<1>4. CASE r.kind = "box_key"
  <2>1. r.box_key \in BoxKeys
    BY <1>4 DEF UserRequest, BoxKeyRequest, ProfileRequest
  <2>2. RowAfter(r) = [row EXCEPT !.box_key = r.box_key]
    BY <1>2, <1>4 DEF RowAfter
  <2>3. /\ RowAfter(r) \in UserRow
        /\ RowAfter(r).username = row.username /\ RowAfter(r).name = row.name
    BY <1>2, <2>1, <2>2 DEF UserRow
  <2> QED BY <1>1, <1>2, <1>4, <2>3 DEF RowIsAsked
<1>5. CASE r.kind = "profile"
  <2>1. r.username \in Texts \cup {Omitted} /\ r.name \in Texts \cup {Omitted}
    BY <1>5 DEF UserRequest, BoxKeyRequest, ProfileRequest
  <2>2. row.username \in Names \cup {Null} /\ row.name \in Names \cup {Null}
    BY <1>2 DEF UserRow
  <2>3. PICK u \in Names \cup {Null} : u = Normalized(r.username, row.username)
    BY <2>1, <2>2, NormalizedType
  <2>4. PICK m \in Names \cup {Null} : m = Normalized(r.name, row.name)
    BY <2>1, <2>2, NormalizedType
  <2>5. RowAfter(r) = [row EXCEPT !.username = u, !.name = m]
    BY <1>2, <1>5, <2>3, <2>4 DEF RowAfter, UserRow
  <2>6. /\ RowAfter(r) \in UserRow
        /\ RowAfter(r).username = u /\ RowAfter(r).name = m /\ RowAfter(r).box_key = row.box_key
    BY <1>2, <2>3, <2>4, <2>5 DEF UserRow
  <2>7. /\ r.username = Omitted => u = row.username
        /\ r.name = Omitted => m = row.name
    BY <2>3, <2>4, AbsenceAssumption DEF Normalized, Texts
  <2> QED BY <1>1, <1>2, <1>5, <2>6, <2>7 DEF RowIsAsked
<1> QED BY <1>1, <1>3, <1>4, <1>5

LEMMA UsersInitType == UsersInit => UsersTypeOK
BY DEF UsersInit, UsersTypeOK

LEMMA UsersNextType == UsersTypeOK /\ [UsersNext]_userVars => UsersTypeOK'
<1> SUFFICES ASSUME UsersTypeOK, [UsersNext]_userVars PROVE UsersTypeOK'
  OBVIOUS
<1>1. CASE UNCHANGED userVars
  BY <1>1 DEF userVars, UsersTypeOK
<1>2. CASE RequestStep
  <2>1. PICK r \in UserRequest :
          Asked(r) \/ Upserted(r) \/ Conflicted(r) \/ ProfileRefused(r) \/ BoxKeyRefused(r)
    BY <1>2 DEF RequestStep
  <2>2. CASE Upserted(r)
    BY <2>2, RowAfterIsAsked DEF Upserted, UsersTypeOK, RowIsAsked
  <2>3. CASE ~Upserted(r)
    BY <2>1, <2>3 DEF Asked, Conflicted, ProfileRefused, BoxKeyRefused, UsersTypeOK
  <2> QED BY <2>2, <2>3
<1>3. ASSUME NEW k \in UserKeys, NEW row \in UserRow, RowFetched(k, row) PROVE UsersTypeOK'
  <2>1. [key |-> k, row |-> row, pc |-> "read"] \in PeerRow
    BY DEF PeerRow
  <2> QED BY <1>3, <2>1 DEF RowFetched, UsersTypeOK
<1>4. ASSUME NEW f \in syncing, RowOlder(f) \/ RowNotOlder(f) \/ RowApplied(f) \/ RowClashes(f)
      PROVE  UsersTypeOK'
  <2>1. f \in PeerRow
    BY DEF UsersTypeOK
  <2>2. f.key \in UserKeys /\ f.row \in UserRow /\ [f EXCEPT !.pc = "write"] \in PeerRow
    BY <2>1 DEF PeerRow
  <2>3. CASE RowApplied(f)
    BY <2>2, <2>3 DEF RowApplied, UsersTypeOK
  <2>4. CASE ~RowApplied(f)
    BY <1>4, <2>2, <2>4 DEF RowOlder, RowNotOlder, RowClashes, UsersTypeOK
  <2> QED BY <2>3, <2>4
<1> QED BY <1>1, <1>2, <1>3, <1>4 DEF UsersNext, RowSyncStep

\* Of a step that changes a field of a row, the request is one that has the field, or the
\* row is one of a peer.
ChangeIsAsked ==
  \A k \in UserKeys, field \in {"username", "name", "box_key"} :
    RowOfUser(k)[field]' # RowOfUser(k)[field] =>
      (\E r \in requests : FieldAsked(r, k, field)) \/ Replaced(k)

LEMMA StepChangesAsked == UsersTypeOK /\ [UsersNext]_userVars => ChangeIsAsked
<1> SUFFICES ASSUME UsersTypeOK, [UsersNext]_userVars,
                    NEW k \in UserKeys, NEW field \in {"username", "name", "box_key"},
                    RowOfUser(k)[field]' # RowOfUser(k)[field]
             PROVE  (\E r \in requests : FieldAsked(r, k, field)) \/ Replaced(k)
  BY DEF ChangeIsAsked
<1>1. rows'[k] # rows[k]
  BY DEF RowOfUser
<1>2. (\E r \in UserRequest : Upserted(r)) \/ (\E f \in syncing : RowApplied(f))
  BY <1>1 DEF UsersNext, RequestStep, RowSyncStep, userVars, Asked, Conflicted, ProfileRefused,
              BoxKeyRefused, RowFetched, RowOlder, RowNotOlder, RowClashes
<1>3. CASE \E r \in UserRequest : Upserted(r)
  <2>1. PICK r \in UserRequest : Upserted(r)
    BY <1>3
  <2>2. r.key \in UserKeys /\ RowIsAsked(r)
    BY RowAfterIsAsked
  <2>3. r \in requests /\ rows' = [rows EXCEPT ![r.key] = RowAfter(r)]
    BY <2>1 DEF Upserted
  <2>4. r.key = k /\ rows'[k] = RowAfter(r)
    BY <1>1, <2>2, <2>3 DEF UsersTypeOK
  <2>5. RowOfUser(k)' = RowAfter(r)
    BY <2>2, <2>4, AbsenceAssumption DEF RowOfUser, RowIsAsked
  <2>6. RowAfter(r)[field] # RowOfUser(k)[field]
    BY <2>5
  <2>7. FieldAsked(r, k, field)
    BY <2>2, <2>4, <2>6 DEF FieldAsked, RowIsAsked
  <2> QED BY <2>3, <2>7
<1>4. CASE \E f \in syncing : RowApplied(f)
  <2>1. PICK f \in syncing : RowApplied(f)
    BY <1>4
  <2>2. f.key = k /\ rows'[k] = f.row
    BY <1>1, <2>1 DEF RowApplied, UsersTypeOK
  <2> QED BY <2>1, <2>2 DEF Replaced, RowApplied
<1> QED BY <1>2, <1>3, <1>4

\* A step changes a field of a user's row only by a request of that user that has the
\* field, whatever the order of sign-ins, box keys and profiles, or by a row of the table
\* sync that replaces all of it.
THEOREM OnlyAskedIsWritten == UsersSpec => OnlyAskedChanges
<1>1. UsersTypeOK /\ [UsersNext]_userVars => [ChangeIsAsked]_userVars
  BY StepChangesAsked
<1>2. QED
  BY <1>1, UsersInitType, UsersNextType, PTL DEF UsersSpec, OnlyAskedChanges, ChangeIsAsked
=============================================================================
