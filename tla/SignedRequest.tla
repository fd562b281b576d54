------------------------------ MODULE SignedRequest ------------------------------
(***************************************************************************)
(* A request between two servers: signed, written to a stream of its own,  *)
(* checked, handed to the direct-message service, answered the same way.   *)
(* The caller waits for a limited time; the connection may drop and come   *)
(* back; the other server may stop and start, and between its start and    *)
(* the moment its direct-message service registers its callbacks it        *)
(* answers for itself.                                                     *)
(*                                                                         *)
(* A call is a stream of its own and has a fresh event id, so that none is *)
(* delivered twice and the answer to a repeated event is never given.  The *)
(* rows of the other server also expire, are deleted by recipients, gossip *)
(* and rollbacks there, and come with its table sync.  Both servers keep   *)
(* their keys and names.                                                   *)
(***************************************************************************)
EXTENDS Naturals, FiniteSets

CONSTANTS
  Streams,     \* requests, each on a stream of its own, in no order
  Messages,    \* messages of one recipient, in the order of their ids
  PageLimit,   \* pull_batch_size
  MaxBreaks    \* bound: connections dropped, stops of the other server, errors in a
               \* callback, rows that others remove, that expire or that are copied

ASSUME MessagesAssumption == Messages \subseteq Nat \ {0} /\ PageLimit \in Nat \ {0}
ASSUME BreaksAssumption   == MaxBreaks \in Nat

VARIABLES
  phase,   \* the other server: "down", "starting" or "up", when it has its callbacks
  linked,  \* the two have a connection that is not closed
  stored,  \* direct_messages of the other server
  fates,   \* per message, whether it was removed there by others, or its expiresAt is over
  calls,   \* per call, its kind, its message or cursor, both sides of it, the answer
  outcome, \* ghost: per call, who made the answer
  settled, \* ghost: per call, the messages whose replicate was acked before the call
  breaks

requestVars == <<phase, linked, stored, fates, calls, outcome, settled, breaks>>

Kinds  == {"replicate", "pull", "delete"}
Cursor == Messages \cup {0}      \* 0 is none
Answer == [done: BOOLEAN, page: SUBSET Messages, next: Cursor]
NoAnswer == [done |-> FALSE, page |-> {}, next |-> 0]

CallState == [kind: Kinds, message: Cursor, open: BOOLEAN, answer: Answer,
         caller: {"new", "waits", "answered", "failed"},
         handler: {"none", "sent", "held", "handled", "written", "over"}]

RequestTypeOK ==
  /\ phase   \in {"down", "starting", "up"}
  /\ linked  \in BOOLEAN
  /\ stored  \subseteq Messages
  /\ fates   \in [Messages -> {"kept", "removed", "expired"}]
  /\ calls   \in [Streams -> CallState]
  /\ outcome \in [Streams -> {"none", "callback", "default"}]
  /\ settled \in [Streams -> SUBSET Messages]
  /\ breaks  \in 0..MaxBreaks

RequestInit ==
  /\ phase   = "up"
  /\ linked  = FALSE
  /\ stored  = {}
  /\ fates   = [m \in Messages |-> "kept"]
  /\ calls   = [c \in Streams |-> [kind |-> "pull", message |-> 0,
                                   open |-> FALSE, answer |-> NoAnswer,
                                   caller |-> "new", handler |-> "none"]]
  /\ outcome = [c \in Streams |-> "none"]
  /\ settled = [c \in Streams |-> {}]
  /\ breaks  = 0

-----------------------------------------------------------------------------
Acked(kind) == {c \in Streams : /\ calls[c].kind = kind /\ calls[c].caller = "answered"
                                /\ calls[c].answer.done}
AckedMessages   == {calls[c].message : c \in Acked("replicate")}
DeletedMessages == {calls[c].message : c \in {d \in Streams : calls[d].kind = "delete"
                                                    /\ calls[d].caller # "new"}}

\* nothing but calls of this caller has taken m from the other server
Kept(m) == fates[m] = "kept" /\ m \notin DeletedMessages

\* a pull begins without a cursor, or goes on where an earlier one ended
Subjects(kind) == IF kind = "pull" THEN Cursor ELSE Messages

Unanswered(call) == [call EXCEPT !.handler = "over", !.answer = NoAnswer]

\* request_signed_inter_server_dm_event: over the connection there is, or a new one
Requested(c, kind, m) ==
  /\ calls[c].caller = "new" /\ phase # "down"
  /\ linked' = TRUE
  /\ calls' = [calls EXCEPT ![c] = [@ EXCEPT !.kind = kind, !.message = m, !.open = TRUE,
                                             !.caller = "waits", !.handler = "sent"]]
  /\ settled' = [settled EXCEPT ![c] = AckedMessages]
  /\ UNCHANGED <<phase, stored, fates, outcome, breaks>>

\* the dial fails
NotRequested(c, kind, m) ==
  /\ calls[c].caller = "new" /\ phase = "down"
  /\ calls' = [calls EXCEPT ![c] = [@ EXCEPT !.kind = kind, !.message = m, !.caller = "failed"]]
  /\ UNCHANGED <<phase, linked, stored, fates, outcome, settled, breaks>>

\* verify_and_extract_signed_inter_server_dm_event, once the request is read: the
\* sender must still be connected, though not by the connection the stream is of
CallChecked(c) ==
  /\ calls[c].handler = "sent" /\ phase # "down"
  /\ calls' = [calls EXCEPT ![c].handler = IF linked THEN "held" ELSE "over"]
  /\ UNCHANGED <<phase, linked, stored, fates, outcome, settled, breaks>>

\* what was written is lost with the connection
CallLost(c) ==
  /\ calls[c].handler \in {"sent", "written"} /\ ~calls[c].open
  /\ calls' = [calls EXCEPT ![c] = Unanswered(@)]
  /\ UNCHANGED <<phase, linked, stored, fates, outcome, settled, breaks>>

\* what the callback's write leaves
RowsAfter(c) ==
  CASE calls[c].kind = "replicate" -> stored \cup {calls[c].message}
    [] calls[c].kind = "delete"    -> stored \ {calls[c].message}
    [] calls[c].kind = "pull"      -> stored

\* what a pull asks for: rows past its cursor that have not expired
Pending(c) == {m \in stored : fates[m] # "expired" /\ m > calls[c].message}

\* the first of them, as many as a page takes
FirstOf(page, rows) ==
  /\ page \subseteq rows /\ \A m \in page, k \in rows \ page : m < k
  /\ Cardinality(page) <= PageLimit
  /\ Cardinality(page) # PageLimit => page = rows

EndsAlways(page, next) == next = 0   \* mutant

\* the cursor of a full page is its last id
EndsAt(page, next) ==
  IF Cardinality(page) = PageLimit THEN next \in page /\ \A m \in page : m <= next
                                   ELSE next = 0

Done == [done |-> TRUE, page |-> {}, next |-> 0]
AnswersTo(c) ==
  IF calls[c].kind = "pull"
  THEN {a \in Answer : a.done /\ FirstOf(a.page, Pending(c)) /\ EndsAt(a.page, a.next)}
  ELSE {Done}

\* the callback answers when its rows are written
CallHandled(c) ==
  /\ calls[c].handler = "held" /\ phase = "up"
  /\ stored' = RowsAfter(c)
  /\ outcome' = [outcome EXCEPT ![c] = "callback"]
  /\ \E answer \in AnswersTo(c) :
       calls' = [calls EXCEPT ![c].handler = "handled", ![c].answer = answer]
  /\ UNCHANGED <<phase, linked, fates, settled, breaks>>

\* stored: false for a signature that is not of the message, deleted: false for a row of
\* another recipient or of other servers; nothing is written
CallRefused(c) ==
  /\ calls[c].handler = "held" /\ phase = "up"
  /\ \/ calls[c].kind = "replicate"
     \/ calls[c].kind = "delete" /\ calls[c].message \in stored
  /\ calls' = [calls EXCEPT ![c].handler = "handled", ![c].answer = NoAnswer]
  /\ outcome' = [outcome EXCEPT ![c] = "callback"]
  /\ UNCHANGED <<phase, linked, stored, fates, settled, breaks>>

\* stored: false, deleted: false, or a page that is empty and the last
AnswerWithoutCallback(c) == NoAnswer

CallNotHandled(c) ==
  /\ calls[c].handler = "held" /\ phase = "starting"
  /\ calls' = [calls EXCEPT ![c].handler = "handled", ![c].answer = AnswerWithoutCallback(c)]
  /\ outcome' = [outcome EXCEPT ![c] = "default"]
  /\ UNCHANGED <<phase, linked, stored, fates, settled, breaks>>

\* the callback throws, and the handler with it: before its write, or after
CallThrown(c) ==
  /\ calls[c].handler = "held" /\ phase = "up" /\ breaks < MaxBreaks
  /\ breaks' = breaks + 1
  /\ stored' \in {stored, RowsAfter(c)}
  /\ calls' = [calls EXCEPT ![c] = Unanswered(@)]
  /\ UNCHANGED <<phase, linked, fates, outcome, settled>>

AnswerWritten(c) ==
  /\ calls[c].handler = "handled"
  /\ calls' = [calls EXCEPT ![c] =
                 IF @.open THEN [@ EXCEPT !.handler = "written"] ELSE Unanswered(@)]
  /\ UNCHANGED <<phase, linked, stored, fates, outcome, settled, breaks>>

\* read_stream_payload gives a signed event, and not the end of the stream
AnswerArrives(c) == calls[c].handler = "written"

AnswerRead(c) ==
  /\ calls[c].caller = "waits" /\ AnswerArrives(c) /\ linked
  /\ calls' = [calls EXCEPT ![c].caller = "answered", ![c].handler = "over", ![c].open = FALSE]
  /\ UNCHANGED <<phase, linked, stored, fates, outcome, settled, breaks>>

\* the time is over, the stream ends without an answer, or the answer comes from a
\* peer that is no longer connected; the handler does not learn of it
CallFails(c) ==
  /\ calls[c].caller = "waits"
  /\ calls' = [calls EXCEPT ![c].caller = "failed"]
  /\ UNCHANGED <<phase, linked, stored, fates, outcome, settled, breaks>>

-----------------------------------------------------------------------------
StreamsBroken(over) ==
  [c \in Streams |-> [IF calls[c].handler \in over THEN Unanswered(calls[c]) ELSE calls[c]
                      EXCEPT !.open = FALSE]]

ConnectionDrops ==
  /\ linked /\ breaks < MaxBreaks
  /\ breaks' = breaks + 1
  /\ linked' = FALSE
  /\ calls' = StreamsBroken({})
  /\ UNCHANGED <<phase, stored, fates, outcome, settled>>

\* the other side dials
ConnectionReturns ==
  /\ ~linked /\ phase # "down"
  /\ linked' = TRUE
  /\ UNCHANGED <<phase, stored, fates, calls, outcome, settled, breaks>>

\* the other server stops: its rows stay, its handlers do not
OtherServerStops ==
  /\ phase # "down" /\ breaks < MaxBreaks
  /\ breaks' = breaks + 1
  /\ phase' = "down"
  /\ linked' = FALSE
  /\ calls' = StreamsBroken({"sent", "held", "handled"})
  /\ UNCHANGED <<stored, fates, outcome, settled>>

\* onModuleInit of the peer network registers the protocol handlers first; it has
\* dialled and run its startup sync before the direct-message service is initialised
HandlersRegistered ==
  /\ phase = "down"
  /\ phase' = "starting"
  /\ UNCHANGED <<linked, stored, fates, calls, outcome, settled, breaks>>

CallbacksRegistered ==
  /\ phase = "starting"
  /\ phase' = "up"
  /\ UNCHANGED <<linked, stored, fates, calls, outcome, settled, breaks>>

\* what else changes the rows of the other server: the recipient has one persisted,
\* its delete is gossiped, or a send of it is rolled back
RowRemoved(m) ==
  /\ m \in stored
  /\ stored' = stored \ {m}
  /\ fates' = [fates EXCEPT ![m] = IF @ = "kept" THEN "removed" ELSE @]

\* its time is over: a pull leaves it out from here on, and delete_expired_messages
\* removes the row (RowRemoved)
RowExpires(m) ==
  /\ fates[m] # "expired"
  /\ fates' = [fates EXCEPT ![m] = "expired"]
  /\ UNCHANGED stored

\* the table sync has it of another server
RowCopied(m) ==
  /\ m \notin stored
  /\ stored' = stored \cup {m}
  /\ UNCHANGED fates

RowsChange ==
  /\ breaks < MaxBreaks
  /\ breaks' = breaks + 1
  /\ \E m \in Messages : RowRemoved(m) \/ RowExpires(m) \/ RowCopied(m)
  /\ UNCHANGED <<phase, linked, calls, outcome, settled>>

CallStep(c) ==
  \/ \E kind \in Kinds : \E m \in Subjects(kind) :
       Requested(c, kind, m) \/ NotRequested(c, kind, m)
  \/ CallChecked(c) \/ CallLost(c) \/ CallHandled(c) \/ CallRefused(c)
  \/ CallNotHandled(c) \/ CallThrown(c)
  \/ AnswerWritten(c) \/ AnswerRead(c) \/ CallFails(c)

RequestNext ==
  \/ \E c \in Streams : CallStep(c)
  \/ RowsChange
  \/ ConnectionDrops \/ ConnectionReturns
  \/ OtherServerStops \/ HandlersRegistered \/ CallbacksRegistered

RequestSpec == RequestInit /\ [][RequestNext]_requestVars

-----------------------------------------------------------------------------
(* Properties.                                                             *)

\* What a replicate was acked for is in the other server's rows, whatever broke or
\* stopped since, until its delete is asked for or the other server removes it: no answer
\* of a server that is starting or refuses, and none of a handler that threw, is an ack.
AckedIsStored == \A m \in AckedMessages : Kept(m) => m \in stored

\* the ids that a pull was answered about: past its cursor, up to that of its answer
Covered(c) ==
  {m \in Messages : /\ calls[c].message < m
                    /\ calls[c].answer.next = 0 \/ m <= calls[c].answer.next}

\* A pull that a callback answers leaves no gap: of the ids it covers, every message
\* whose replicate was acked before it began is in the page, unless that is deleted,
\* removed or expired, so that pages that follow each other's cursors have them all.  A
\* server that answers before its callbacks are registered is the exception: its page is
\* empty and the last, and nothing tells the caller.
PullFindsAcked ==
  \A c \in Streams : \A m \in settled[c] \cap Covered(c) :
    calls[c].kind = "pull" /\ calls[c].caller = "answered" /\ outcome[c] # "default" =>
      m \in calls[c].answer.page \/ ~Kept(m)

\* What a server is told by another is so: acks of what is stored, and pages that have
\* what was acked.
AnswersAreTrue == AckedIsStored /\ PullFindsAcked
=============================================================================
