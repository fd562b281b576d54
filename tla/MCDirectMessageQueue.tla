-------------------------- MODULE MCDirectMessageQueue --------------------------
(* Home server o; a and b are closest to the recipient, then c, then h.        *)
EXTENDS DirectMessageQueue

CONSTANTS o, a, b, c, h

HomeAndReplicas == {o, a, b}
ThreePeers      == {o, a, h}
FivePeers       == {o, a, b, c, h}
OneCall         == {1}
TwoCalls        == {1, 2}
Nobody          == {}
NoWindow        == {}
BothWindows     == {"arrival", "send_time"}
ArrivalWindow   == {"arrival"}
OutsideServer   == {h}
ReplicaServer   == {a}
ReplicaAndOutside == {a, h}
HomeServer      == {o}
HomeAndReplica  == {o, a}

\* the closest one, or two, other servers
ClosestOne == [p \in Peers |-> IF p = a THEN {h} ELSE {a}]
ClosestTwo == [p \in Peers |-> ({a, b} \ {p}) \cup (IF p \in {a, b} THEN {o} ELSE {})]

\* h has not heard of a, the closest server
Diverging == [p \in Peers |-> IF p = h THEN {b, c} ELSE {a, b} \ {p}]
=============================================================================
