------------------------------ MODULE MCStartupSync ------------------------------
(* Two validators of equal weight; each has a row of the first table of its *)
(* own, and neither has one of the second.                                 *)
EXTENDS StartupSync

CONSTANTS p, q

TwoPeers  == {p, q}
ByWeight  == <<p, q>>
SplitVote == [x \in Peers |-> 50]
Disagree  == [x \in Peers |-> [t \in Tables |-> IF t = 2 THEN 0 ELSE IF x = p THEN 2 ELSE 1]]
=============================================================================
