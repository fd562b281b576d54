----------------------------- MODULE ServerIdentity -----------------------------
(***************************************************************************)
(* The key pair of a server, kept in two files.  It is read when the       *)
(* server starts; when that gives no pair, one is generated and both files *)
(* are written at once, each truncated and then filled.  A read that fails *)
(* gives no pair either: whatever its error, it is caught, and the pair    *)
(* that the disk has is overwritten.  The server may stop between any two  *)
(* of these steps, or a write may fail, and it starts again.  The disk     *)
(* keeps what a finished write has written.                                *)
(***************************************************************************)
EXTENDS Naturals, FiniteSets

CONSTANTS
  MaxStops,    \* bound: times the server stops
  MaxMisreads  \* bound: starts at which the files cannot be read

ASSUME StopsAssumption == MaxStops \in Nat /\ MaxMisreads \in Nat

VARIABLES
  running,   \* "down", "read", "write" or "up": ensure_server_identity
  files,     \* server_public_key.json and server_private_key.json: the pair in it
  writes,    \* per file, its writeFile under way
  generated, \* pairs generated so far; the last one is being written
  identity,  \* server_identity: the pair each half is of
  known,     \* ghost: public keys that were answered or signed with
  misreads,
  stops

identityVars == <<running, files, writes, generated, identity, known, misreads, stops>>

File       == {"public", "private"}
Unreadable == 0                  \* no file, or one that JSON.parse refuses
Pair       == 0..(MaxStops + 1)
NoIdentity == [f \in File |-> Unreadable]

IdentityTypeOK ==
  /\ running   \in {"down", "read", "write", "up"}
  /\ files     \in [File -> Pair]
  /\ writes    \in [File -> {"idle", "open", "fill"}]
  /\ generated \in Pair
  /\ identity  \in [File -> Pair]
  /\ known     \subseteq Pair
  /\ misreads  \in 0..MaxMisreads
  /\ stops     \in 0..MaxStops

IdentityInit ==
  /\ running   = "read"
  /\ files     = NoIdentity
  /\ writes    = [f \in File |-> "idle"]
  /\ generated = 0
  /\ identity  = NoIdentity
  /\ known     = {}
  /\ misreads  = 0
  /\ stops     = 0

-----------------------------------------------------------------------------
\* read_existing_server_identity answers a pair: both files parse and are of one pair
PairOnDisk ==
  /\ \A f \in File : files[f] # Unreadable
  /\ files["public"] = files["private"]

IdentityRead ==
  /\ running = "read" /\ PairOnDisk
  /\ identity' = files
  /\ running' = "up"
  /\ UNCHANGED <<files, writes, generated, known, misreads, stops>>

UsedUnwritten == identity' = [f \in File |-> generated + 1]   \* mutant

\* server_identity is set when generate_and_store_server_identity has returned
UsedOnceWritten == identity' = NoIdentity

Generated ==
  /\ generated' = generated + 1
  /\ writes' = [f \in File |-> "open"]
  /\ running' = "write"
  /\ UsedOnceWritten
  /\ UNCHANGED <<files, known, stops>>

IdentityGenerated ==
  /\ running = "read" /\ ~PairOnDisk
  /\ Generated
  /\ UNCHANGED misreads

\* a readFile fails, for too many open files, the rights of a file or the disk, and the
\* catch-all takes that for a server that has no pair yet
IdentityMisread ==
  /\ running = "read" /\ misreads < MaxMisreads
  /\ misreads' = misreads + 1
  /\ Generated

FileOpened(f) ==
  /\ writes[f] = "open"
  /\ files' = [files EXCEPT ![f] = Unreadable]
  /\ writes' = [writes EXCEPT ![f] = "fill"]
  /\ UNCHANGED <<running, generated, identity, known, misreads, stops>>

FileFilled(f) ==
  /\ writes[f] = "fill"
  /\ files' = [files EXCEPT ![f] = generated]
  /\ writes' = [writes EXCEPT ![f] = "idle"]
  /\ UNCHANGED <<running, generated, identity, known, misreads, stops>>

IdentityStored ==
  /\ running = "write" /\ \A f \in File : writes[f] = "idle"
  /\ identity' = [f \in File |-> generated]
  /\ running' = "up"
  /\ UNCHANGED <<files, writes, generated, known, misreads, stops>>

\* get_public_key and sign_message
IdentityUsed ==
  /\ identity # NoIdentity
  /\ known' = known \cup {identity["public"]}
  /\ UNCHANGED <<running, files, writes, generated, identity, misreads, stops>>

\* the process dies, or a write fails and onModuleInit with it
ServerStops ==
  /\ running # "down" /\ stops < MaxStops
  /\ stops' = stops + 1
  /\ running' = "down"
  /\ writes' = [f \in File |-> "idle"]
  /\ identity' = NoIdentity
  /\ UNCHANGED <<files, generated, known, misreads>>

ServerStarts ==
  /\ running = "down"
  /\ running' = "read"
  /\ UNCHANGED <<files, writes, generated, identity, known, misreads, stops>>

IdentityNext ==
  \/ IdentityRead \/ IdentityGenerated \/ IdentityMisread \/ IdentityStored \/ IdentityUsed
  \/ \E f \in File : FileOpened(f) \/ FileFilled(f)
  \/ ServerStops \/ ServerStarts

IdentitySpec == IdentityInit /\ [][IdentityNext]_identityVars

-----------------------------------------------------------------------------
(* Properties.                                                             *)

\* A server signs with the private key of the public key it answers, though a stop
\* may leave the halves of two pairs on disk.
HalvesMatch == identity["public"] = identity["private"]

\* A public key that anyone was given stays the server's, through stops and writes cut
\* short, until a start fails to read the files: only that costs it its key, and one
\* such start no more than one key that is known.
KeysLost == Cardinality(known) <= 1 + misreads

\* A server never has half of another identity, and wherever it stops while the two
\* files are written, a key that was given away is lost by a failed read alone.
IdentityIsKept == HalvesMatch /\ KeysLost
=============================================================================
