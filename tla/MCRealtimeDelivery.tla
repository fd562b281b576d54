--------------------------- MODULE MCRealtimeDelivery ---------------------------
(* A session whose two sockets reach different nodes. *)
EXTENDS RealtimeDelivery

CONSTANTS n1, n2, c1, c2, e1

TwoNodes   == {n1, n2}
TwoSockets == {c1, c2}
OneEvent   == {e1}
Placement  == [c \in Sockets |-> IF c = c1 THEN n1 ELSE n2]
=============================================================================
