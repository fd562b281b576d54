------------------------------ MODULE DurableMessage ------------------------------
(***************************************************************************)
(* What a network of servers promises the sender of a message, without any *)
(* of its protocol: the servers the sender is not connected to collect     *)
(* copies, the message is accepted only when a quorum of them has one, and *)
(* no copy goes away before the message is released, that is, reported     *)
(* persisted by its recipient or past its retention.                       *)
(***************************************************************************)
CONSTANTS
  Servers,   \* the servers the sender is not connected to
  Quorums    \* the sets of them that are enough

VARIABLES
  copies,   \* servers that hold the message, unexpired
  status    \* what the sender and the recipient have been told of it

Init == copies = {} /\ status = "sent"

Store(p) == copies' = copies \cup {p} /\ UNCHANGED status

Accept ==
  /\ status = "sent" /\ \E q \in Quorums : q \subseteq copies
  /\ status' = "accepted" /\ UNCHANGED copies

Release ==
  /\ status # "released" /\ status' = "released"
  /\ copies' \in SUBSET copies

Drop(gone) ==
  /\ status = "released"
  /\ copies' = copies \ gone /\ UNCHANGED status

Next ==
  \/ \E p \in Servers : Store(p)
  \/ Accept
  \/ Release
  \/ \E gone \in SUBSET Servers : Drop(gone)

Spec == Init /\ [][Next]_<<copies, status>>
=============================================================================
