------------------------------ MODULE MCBackendNode ------------------------------
(***************************************************************************)
(* The parts of a backend that share no state with each other: a behaviour *)
(* exercises one of them, chosen in the beginning, while the others stay   *)
(* as they are, so that their state spaces add up.  The queue is that of a *)
(* message whose recipient is on its home server.                          *)
(***************************************************************************)
EXTENDS MCDirectMessageQueue, RealtimeRooms, RealtimeChallenge, ServerIdentity, SignedRequest, Users,
        TLC

VARIABLE part   \* the part that is exercised

partVars == <<part, vars, roomVars, challengeVars, identityVars, requestVars, userVars>>

PartInit ==
  /\ part \in {"queue", "rooms", "challenge", "identity", "request", "users"}
  /\ Init /\ RoomsInit /\ ChallengeInit /\ IdentityInit /\ RequestInit /\ UsersInit

PartNext ==
  /\ UNCHANGED part
  /\ \/ /\ part = "queue" /\ Next
        /\ UNCHANGED <<roomVars, challengeVars, identityVars, requestVars, userVars>>
     \/ /\ part = "rooms" /\ RoomsNext
        /\ UNCHANGED <<vars, challengeVars, identityVars, requestVars, userVars>>
     \/ /\ part = "challenge" /\ ChallengeNext
        /\ UNCHANGED <<vars, roomVars, identityVars, requestVars, userVars>>
     \/ /\ part = "identity" /\ IdentityNext
        /\ UNCHANGED <<vars, roomVars, challengeVars, requestVars, userVars>>
     \/ /\ part = "request" /\ RequestNext
        /\ UNCHANGED <<vars, roomVars, challengeVars, identityVars, userVars>>
     \/ /\ part = "users" /\ UsersNext
        /\ UNCHANGED <<vars, roomVars, challengeVars, identityVars, requestVars>>

PartSpec == PartInit /\ [][PartNext]_partVars

\* the streams of requests and the nodes with the rooms are told apart by nothing
PartSymmetry == Permutations(Streams) \cup Permutations(Nodes)
=============================================================================
