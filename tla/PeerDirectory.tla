----------------------------- MODULE PeerDirectory -----------------------------
(***************************************************************************)
(* What ONE server remembers of one remote peer: the observation its local *)
(* score comes from, in memory, and the peer's ServerNode row, in the      *)
(* database.  Peer events note the observation at once; the row is upserted*)
(* by touch_peer_node, which nobody awaits, so that several upserts are out*)
(* at a time and may take effect in any order, and by the table sync of a  *)
(* startup, with what another server's row says of the peer.               *)
(*                                                                         *)
(* Counters stop where the score no longer changes.  The score's weights   *)
(* are the code's.                                                         *)
(***************************************************************************)
EXTENDS Integers, Sequences, SequencesExt

CONSTANTS
  MaxTouches,  \* bound: upserts of the row that are out at a time
  MaxRestarts  \* bound: restarts of the server

ASSUME TouchesAssumption  == MaxTouches \in Nat \ {0}
ASSUME RestartsAssumption == MaxRestarts \in Nat

VARIABLES
  linked,      \* there is a connection to the peer
  dialling,    \* a dial is under way, or has succeeded and is not yet noted
  observation, \* local_peer_observations
  touches,     \* upserts that are out, in the order of their calls
  active,      \* is_active of the row
  done,        \* ghost: the last upsert that was called has taken effect
  overwritten, \* ghost: something else has been written after it, or may be missing
  restarts     \* how often the server was restarted

directoryVars == <<linked, dialling, observation, touches, active, done, overwritten, restarts>>

\* counters up to which connects, failures and disconnects change the score
Connects    == 0..5
Failures    == 0..4
Disconnects == 0..5

\* get_peer_observation creates an observation when there is none
NoObservation == [connects |-> 0, failures |-> 0, disconnects |-> 0,
                  current |-> FALSE, last |-> "none"]

DirectoryTypeOK ==
  /\ linked \in BOOLEAN /\ dialling \in BOOLEAN
  /\ observation \in [connects: Connects, failures: Failures, disconnects: Disconnects,
                      current: BOOLEAN, last: {"none", "never", "recent", "old"}]
  /\ touches \in Seq(BOOLEAN) /\ Len(touches) <= MaxTouches
  /\ active \in BOOLEAN /\ done \in BOOLEAN /\ overwritten \in BOOLEAN
  /\ restarts \in 0..MaxRestarts

DirectoryInit ==
  /\ linked = FALSE /\ dialling = FALSE
  /\ observation = NoObservation
  /\ touches = <<>> /\ active = FALSE
  /\ done = TRUE /\ overwritten = FALSE
  /\ restarts = 0

-----------------------------------------------------------------------------
Up(n, S) == IF n + 1 \in S THEN n + 1 ELSE n

AtMost(n, limit) == IF n < limit THEN n ELSE limit

\* the last line of compute_local_score_for_peer
Clamp(score) == IF score < 0 THEN 0 ELSE AtMost(score, 100)

\* compute_local_score_for_peer; without an observation it is 50
LocalScore(o) ==
  IF o.last = "none" THEN 50
  ELSE Clamp(70 + AtMost(o.connects * 4, 20)
                - AtMost(o.failures * 12, 45)
                - AtMost(o.disconnects * 5, 25)
                + (IF o.current THEN 10 ELSE 0)
                - (IF o.last = "old" THEN 10 ELSE 0))

-----------------------------------------------------------------------------
\* touch_peer_node is called
Touch(is_active) ==
  /\ Len(touches) < MaxTouches
  /\ touches' = Append(touches, is_active)
  /\ done' = FALSE

\* note_peer_connected, note_dial_success
NotedConnect == [observation EXCEPT !.connects = Up(@, Connects), !.current = TRUE,
                                    !.last = "recent"]

\* note_dial_attempt
DialBegins ==
  /\ ~dialling /\ ~linked
  /\ dialling' = TRUE
  /\ observation' = [observation EXCEPT !.last = IF @ = "none" THEN "never" ELSE @]
  /\ UNCHANGED <<linked, touches, active, done, overwritten, restarts>>

\* the dial's own continuation, after the peer:connect event
DialNoted ==
  /\ dialling /\ linked
  /\ dialling' = FALSE
  /\ observation' = NotedConnect
  /\ UNCHANGED <<linked, touches, active, done, overwritten, restarts>>

DialFails ==
  /\ dialling /\ ~linked
  /\ dialling' = FALSE
  /\ observation' = [observation EXCEPT !.failures = Up(@, Failures)]
  /\ UNCHANGED <<linked, touches, active, done, overwritten, restarts>>

\* peer:connect
PeerConnected ==
  /\ ~linked
  /\ linked' = TRUE
  /\ observation' = NotedConnect
  /\ Touch(TRUE)
  /\ UNCHANGED <<dialling, active, overwritten, restarts>>

DisconnectForgives == [observation EXCEPT !.disconnects = Up(@, Disconnects),   \* mutant
                                          !.current = FALSE, !.failures = 0]

\* note_peer_disconnected
NotedDisconnect == [observation EXCEPT !.disconnects = Up(@, Disconnects), !.current = FALSE]

TouchedWhenConnectedOnly == FALSE   \* mutant

\* the peer:disconnect handler's is_active: false
TouchesOnDisconnect == TRUE

\* peer:disconnect
PeerDisconnected ==
  /\ linked
  /\ linked' = FALSE
  /\ observation' = NotedDisconnect
  /\ IF TouchesOnDisconnect THEN Touch(FALSE) ELSE UNCHANGED <<touches, done>>
  /\ UNCHANGED <<dialling, active, overwritten, restarts>>

\* the hello handler, and a report the peer has made: active if it is connected
Heard ==
  /\ Touch(linked)
  /\ UNCHANGED <<linked, dialling, observation, active, overwritten, restarts>>

\* serverNode.upsert takes effect
Touched(i) ==
  /\ i \in DOMAIN touches
  /\ active' = touches[i]
  /\ touches' = RemoveAt(touches, i)
  /\ done' = (done \/ i = Len(touches))
  /\ overwritten' = IF i = Len(touches) /\ ~done THEN FALSE ELSE overwritten \/ done
  /\ UNCHANGED <<linked, dialling, observation, restarts>>

\* apply_server_node: a startup's table sync upserts another server's row, if that is
\* not older by its clock; a row that says the same changes nothing
RowSynced ==
  /\ active' = ~active
  /\ overwritten' = (overwritten \/ done)
  /\ UNCHANGED <<linked, dialling, observation, touches, done, restarts>>

\* three minutes without a connect
ConnectGrowsOld ==
  /\ observation.last = "recent"
  /\ observation' = [observation EXCEPT !.last = "old"]
  /\ UNCHANGED <<linked, dialling, touches, active, done, overwritten, restarts>>

\* the server dies, also because an upsert that nobody awaits fails; the row stays
ServerRestarts ==
  /\ restarts < MaxRestarts
  /\ restarts' = restarts + 1
  /\ linked' = FALSE /\ dialling' = FALSE
  /\ observation' = NoObservation
  /\ touches' = <<>> /\ done' = TRUE /\ overwritten' = TRUE
  /\ UNCHANGED active

DirectoryNext ==
  \/ DialBegins \/ DialNoted \/ DialFails
  \/ PeerConnected \/ PeerDisconnected \/ Heard
  \/ \E i \in DOMAIN touches : Touched(i)
  \/ RowSynced
  \/ ConnectGrowsOld
  \/ ServerRestarts

DirectorySpec == DirectoryInit /\ [][DirectoryNext]_directoryVars

-----------------------------------------------------------------------------
(* Properties.                                                             *)

\* What a server reports of a peer rises only when a connection to it succeeds:
\* time, failed dials and flapping never improve the score.
OnlyConnectsRaise ==
  [][(/\ observation.last # "none" /\ observation'.last # "none"
      /\ LocalScore(observation') > LocalScore(observation))
        => linked' /\ observation'.last = "recent"]_directoryVars

\* Once its upserts have taken effect the row says whether the peer is connected, unless
\* something was written after the upsert that was called last - an upsert called before
\* it, or a peer's row, by a table sync - or the server was restarted since, which leaves
\* rows active whose peers are gone.  The next connect, disconnect, hello or report of
\* the peer makes up for all of these.
RowSettles ==
  touches = <<>> /\ ~overwritten => active = linked
=============================================================================
