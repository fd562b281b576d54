--------------------------- MODULE MCRealtimeSession ---------------------------
(* Small instances: sockets c1 and c2 reach node n1, c3 reaches n2.            *)
EXTENDS RealtimeSession, TLC

CONSTANTS n1, n2, c1, c2, c3, s1, s2, u1, u2

OneNode      == {n1}
TwoNodes     == {n1, n2}
SameNode     == {c1, c2}
AcrossNodes  == {c1, c3}
OneSession   == {s1}
TwoSessions  == {s1, s2}
OneUser      == {u1}
TwoUsers     == {u1, u2}
NoQuerier    == {}
OneQuerier   == {n1}
OneFrame     == {1}
TwoFrames    == {1, 2}

Placement == [c \in Sockets |-> IF c = c3 THEN n2 ELSE n1]

\* sockets of one node, users and session ids are interchangeable
Interchangeable ==
  Permutations(SameNode) \cup Permutations(TwoUsers) \cup Permutations(TwoSessions)
=============================================================================
