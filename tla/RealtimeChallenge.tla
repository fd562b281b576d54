---------------------------- MODULE RealtimeChallenge ----------------------------
(***************************************************************************)
(* The challenge a client signs to open a realtime connection.  POST       *)
(* /realtime/challenge stores a record in Redis and answers; auth.connect  *)
(* takes the record out and checks it.  Frames are cut at their awaits, so *)
(* two sockets race for one challenge, and a request for a challenge is at *)
(* its signature while others are at theirs.                               *)
(*                                                                         *)
(* A signature is the key that made it: one over another message verifies  *)
(* under no key, and is one that Forged stands for.  All nodes read one    *)
(* clock.                                                                  *)
(***************************************************************************)
EXTENDS Naturals, FiniteSets

CONSTANTS
  Challenges,   \* challenge ids, one per request
  Frames,       \* auth.connect frames, one per attempt
  Keys,         \* public keys
  Forged,       \* a signature of no key in Keys, or over another message
  ChallengeTtl, \* challenge_ttl_seconds
  LastSecond    \* bound: the clock

ASSUME SomeAssumption   == Challenges # {} /\ Keys # {}
ASSUME ForgedAssumption == Forged \notin Keys
ASSUME ClockAssumption  == ChallengeTtl \in Nat /\ LastSecond \in Nat

VARIABLES
  now,
  issued,    \* per challenge, create_challenge: how far it is, and its record
  records,   \* per challenge, the second Redis drops its record; NoRecord when it has none
  frames,    \* per frame, handle_auth_connect: how far it is, and its payload
  taken      \* ghost: per challenge, the frames that GETDEL gave its record to

challengeVars == <<now, issued, records, frames, taken>>

NoRecord == LastSecond + ChallengeTtl + 1

Payload == [challenge: Challenges, key: Keys, signature: Keys \cup {Forged}]

ChallengeTypeOK ==
  /\ now     \in 0..LastSecond
  /\ issued  \in [Challenges -> [pc: {"new", "sign", "answered"}, key: Keys,
                                 expires: 0..(LastSecond + ChallengeTtl)]]
  /\ records \in [Challenges -> 0..NoRecord]
  /\ frames  \in [Frames -> [pc: {"new", "take", "verify", "accepted", "refused"},
                             payload: Payload, checked: 0..LastSecond]]
  /\ taken   \in [Challenges -> SUBSET Frames]

ChallengeInit ==
  LET k == CHOOSE k \in Keys : TRUE
      first == CHOOSE d \in Challenges : TRUE IN
  /\ now     = 0
  /\ issued  = [d \in Challenges |-> [pc |-> "new", key |-> k, expires |-> 0]]
  /\ records = [d \in Challenges |-> NoRecord]
  /\ frames  = [f \in Frames |-> [pc |-> "new", checked |-> 0,
                  payload |-> [challenge |-> first, key |-> k, signature |-> k]]]
  /\ taken   = [d \in Challenges |-> {}]

-----------------------------------------------------------------------------
\* create_challenge: the time it expires is set before the server signs it ...
ChallengeRequested(c, k) ==
  /\ issued[c].pc = "new"
  /\ issued' = [issued EXCEPT ![c] = [pc |-> "sign", key |-> k, expires |-> now + ChallengeTtl]]
  /\ UNCHANGED <<now, records, frames, taken>>

AnsweredUnstored(c) == records' = records   \* mutant

\* ... and Redis counts the TTL from the SET, so the record outlives it
StoresRecord(c) == records' = [records EXCEPT ![c] = now + ChallengeTtl]

ChallengeAnswered(c) ==
  /\ issued[c].pc = "sign"
  /\ StoresRecord(c)
  /\ issued' = [issued EXCEPT ![c].pc = "answered"]
  /\ UNCHANGED <<now, frames, taken>>

\* a second passes, and Redis drops what has had its time
Tick ==
  /\ now < LastSecond
  /\ now' = now + 1
  /\ records' = [c \in Challenges |-> IF records[c] <= now' THEN NoRecord ELSE records[c]]
  /\ UNCHANGED <<issued, frames, taken>>

\* auth.connect: a client names a challenge it was answered
ConnectReceived(f, p) ==
  /\ frames[f].pc = "new" /\ issued[p.challenge].pc = "answered"
  /\ frames' = [frames EXCEPT ![f] = [pc |-> "take", payload |-> p, checked |-> 0]]
  /\ UNCHANGED <<now, issued, records, taken>>

ReadOnly(c) == records' = records   \* mutant

\* what GETDEL leaves
Removes(c) == records' = [records EXCEPT ![c] = NoRecord]

\* the record is the payload's key's, and its time is not over
PassesChecks(f) ==
  LET r == issued[frames[f].payload.challenge] IN
  r.key = frames[f].payload.key /\ now <= r.expires

RecordTaken(f) ==
  LET challenge == frames[f].payload.challenge IN
  /\ frames[f].pc = "take" /\ records[challenge] # NoRecord
  /\ Removes(challenge)
  /\ taken' = [taken EXCEPT ![challenge] = @ \cup {f}]
  /\ frames' = [frames EXCEPT ![f].checked = now,
                              ![f].pc = IF PassesChecks(f) THEN "verify" ELSE "refused"]
  /\ UNCHANGED <<now, issued>>

\* invalid, expired, or already used
RecordMissing(f) ==
  /\ frames[f].pc = "take" /\ records[frames[f].payload.challenge] = NoRecord
  /\ frames' = [frames EXCEPT ![f].checked = now, ![f].pc = "refused"]
  /\ UNCHANGED <<now, issued, records, taken>>

\* verify_message_signature under the payload's key
Verified(f) ==
  /\ frames[f].pc = "verify"
  /\ frames' = [frames EXCEPT ![f].pc =
       IF frames[f].payload.signature = frames[f].payload.key THEN "accepted" ELSE "refused"]
  /\ UNCHANGED <<now, issued, records, taken>>

ChallengeNext ==
  \/ Tick
  \/ \E c \in Challenges : ChallengeAnswered(c) \/ \E k \in Keys : ChallengeRequested(c, k)
  \/ \E f \in Frames :
       RecordTaken(f) \/ RecordMissing(f) \/ Verified(f) \/ \E p \in Payload : ConnectReceived(f, p)

ChallengeSpec == ChallengeInit /\ [][ChallengeNext]_challengeVars

-----------------------------------------------------------------------------
(* Properties.                                                             *)

ChallengeOf(f) == issued[frames[f].payload.challenge]

\* However many sockets race for a challenge, it opens one connection: the record
\* is read and removed in one command.
OpensOnce ==
  \A f, g \in Frames :
    /\ frames[f].pc = "accepted" /\ frames[g].pc = "accepted"
    /\ frames[f].payload.challenge = frames[g].payload.challenge
    => f = g

\* A connection is opened for the key the challenge was given to, by a signature of
\* that key, and no later than the client was told: the record in Redis is still
\* there after that time, the longer the server took to sign.
OpensAsIssued ==
  \A f \in Frames : frames[f].pc = "accepted" =>
    /\ frames[f].payload.key = ChallengeOf(f).key
    /\ frames[f].payload.signature = ChallengeOf(f).key
    /\ frames[f].checked <= ChallengeOf(f).expires

\* A challenge that is stolen, replayed or raced for opens nothing but its owner's
\* connection, and that once.
OpensOnceAsIssued == OpensOnce /\ OpensAsIssued

\* A client that signs its own challenge and is served before the time it was told
\* is refused only when another frame, even a wrong one, had taken the challenge.
RefusedOnlyIfTaken ==
  \A f \in Frames :
    /\ frames[f].pc = "refused"
    /\ frames[f].payload.key = ChallengeOf(f).key
    /\ frames[f].payload.signature = ChallengeOf(f).key
    /\ frames[f].checked < ChallengeOf(f).expires
    => taken[frames[f].payload.challenge] \ {f} # {}
=============================================================================
