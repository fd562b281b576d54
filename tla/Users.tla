---------------------------------- MODULE Users ----------------------------------
(***************************************************************************)
(* The users table: one row per public key, written by three requests and  *)
(* by the table sync.  A request checks a signature and then upserts, in   *)
(* one statement; requests of one client or of several reach the database  *)
(* in any order.  The table sync writes the whole row of a peer, nulls     *)
(* included, after a read that found the local row no newer; which of the  *)
(* two is newer is for the clocks of both servers and left open.  username *)
(* and x25519_public_key are unique columns; quote, phone and email are    *)
(* stored as name is.                                                      *)
(***************************************************************************)
EXTENDS Naturals, FiniteSets

CONSTANTS
  UserKeys,        \* public keys of users
  Names,       \* texts with no space around them
  BoxKeys,     \* x25519 keys
  Omitted,     \* a field the body does not have
  Blank,       \* a text of spaces, or of nothing
  Null,        \* a column without a value
  MaxRequests  \* bound: requests, and rows of the table sync, on their way

ASSUME UserRequestsAssumption == MaxRequests \in Nat

VARIABLES
  rows,       \* per public key, its row; Null when there is none
  requests,   \* requests that are on their way, or at their signature check
  syncing     \* rows of peers that the table sync is about to apply

userVars == <<rows, requests, syncing>>

Padded  == [padded: Names]               \* a text with space around it
Texts   == Names \cup Padded \cup {Blank}
BoxKeyRequest  == [kind: {"box_key"}, key: UserKeys, box_key: BoxKeys]
ProfileRequest == [kind: {"profile"}, key: UserKeys,
                   username: Texts \cup {Omitted}, name: Texts \cup {Omitted}]
UserRequest == [kind: {"public_key"}, key: UserKeys] \cup BoxKeyRequest \cup ProfileRequest
UserRow == [username: Names \cup {Null}, name: Names \cup {Null}, box_key: BoxKeys \cup {Null}]
PeerRow == [key: UserKeys, row: UserRow, pc: {"read", "write"}]

\* a row, and a field that a body has, are never the absence of one
ASSUME AbsenceAssumption == Null \notin UserRow /\ Omitted \notin Texts

UsersTypeOK ==
  /\ rows      \in [UserKeys -> UserRow \cup {Null}]
  /\ requests  \subseteq UserRequest
  /\ syncing   \subseteq PeerRow

UsersInit ==
  /\ rows      = [k \in UserKeys |-> Null]
  /\ requests  = {}
  /\ syncing   = {}

-----------------------------------------------------------------------------
NoRow == [username |-> Null, name |-> Null, box_key |-> Null]
RowOfUser(k) == IF rows[k] = Null THEN NoRow ELSE rows[k]

Trim(text) == IF text \in Padded THEN text.padded ELSE text

OmittedCleared(text, old) ==   \* mutant
  IF text \in {Omitted, Blank} THEN Null ELSE Trim(text)

\* normalize_optional_field: undefined leaves the column, blank text empties it
Normalized(text, old) ==
  CASE text = Omitted -> old
    [] text = Blank   -> Null
    [] OTHER          -> Trim(text)

\* what each upsert makes of the row
RowAfter(r) ==
  CASE r.kind = "public_key" -> RowOfUser(r.key)
    [] r.kind = "box_key"    -> [RowOfUser(r.key) EXCEPT !.box_key = r.box_key]
    [] r.kind = "profile"    -> [RowOfUser(r.key) EXCEPT !.username = Normalized(r.username, @),
                                                         !.name     = Normalized(r.name, @)]

\* a unique column has the value already: P2002
Taken(key, row) ==
  \E k \in UserKeys \ {key} :
    \/ row.username # Null /\ RowOfUser(k).username = row.username
    \/ row.box_key # Null /\ RowOfUser(k).box_key = row.box_key

Busy == Cardinality(requests) + Cardinality(syncing) >= MaxRequests

Asked(r) ==
  /\ ~Busy
  /\ requests' = requests \cup {r}
  /\ UNCHANGED <<rows, syncing>>

Upserted(r) ==
  /\ r \in requests /\ ~Taken(r.key, RowAfter(r))
  /\ rows' = [rows EXCEPT ![r.key] = RowAfter(r)]
  /\ requests' = requests \ {r}
  /\ UNCHANGED syncing

\* answered 409, or 500 for a box key: nothing of the request is written
Conflicted(r) ==
  /\ r \in requests /\ Taken(r.key, RowAfter(r))
  /\ requests' = requests \ {r}
  /\ UNCHANGED <<rows, syncing>>

\* the hash or the signature is not of the normalised body
ProfileRefused(r) ==
  /\ r \in requests /\ r.kind = "profile"
  /\ requests' = requests \ {r}
  /\ UNCHANGED <<rows, syncing>>

BoxKeyRefused(r) ==
  /\ r \in requests /\ r.kind = "box_key"
  /\ requests' = requests \ {r}
  /\ UNCHANGED <<rows, syncing>>

-----------------------------------------------------------------------------
\* the validators agree on a row of theirs
RowFetched(k, row) ==
  /\ ~Busy
  /\ syncing' = syncing \cup {[key |-> k, row |-> row, pc |-> "read"]}
  /\ UNCHANGED <<rows, requests>>

\* the local row is newer, and stays
RowOlder(f) ==
  /\ f \in syncing /\ f.pc = "read" /\ rows[f.key] # Null
  /\ syncing' = syncing \ {f}
  /\ UNCHANGED <<rows, requests>>

\* there is no local row, or none that is newer; requests may write it from here on
RowNotOlder(f) ==
  /\ f \in syncing /\ f.pc = "read"
  /\ syncing' = (syncing \ {f}) \cup {[f EXCEPT !.pc = "write"]}
  /\ UNCHANGED <<rows, requests>>

RowApplied(f) ==
  /\ f \in syncing /\ f.pc = "write" /\ ~Taken(f.key, f.row)
  /\ rows' = [rows EXCEPT ![f.key] = f.row]
  /\ syncing' = syncing \ {f}
  /\ UNCHANGED requests

\* the table's job fails, and no later row of its batch is applied
RowClashes(f) ==
  /\ f \in syncing /\ f.pc = "write" /\ Taken(f.key, f.row)
  /\ syncing' = syncing \ {f}
  /\ UNCHANGED <<rows, requests>>

RequestStep == \E r \in UserRequest :
  Asked(r) \/ Upserted(r) \/ Conflicted(r) \/ ProfileRefused(r) \/ BoxKeyRefused(r)

RowSyncStep ==
  \/ \E k \in UserKeys, row \in UserRow : RowFetched(k, row)
  \/ \E f \in syncing : RowOlder(f) \/ RowNotOlder(f) \/ RowApplied(f) \/ RowClashes(f)

UsersNext == RequestStep \/ RowSyncStep

UsersSpec == UsersInit /\ [][UsersNext]_userVars

-----------------------------------------------------------------------------
(* Properties.                                                             *)

FieldAsked(r, k, field) ==
  /\ r.key = k
  /\ IF field = "box_key" THEN r.kind = "box_key" ELSE r.kind = "profile" /\ r[field] # Omitted

\* the table sync replaces the row, all of it, by one that peers agree on
Replaced(k) == \E f \in syncing : f.pc = "write" /\ f.key = k /\ rows[k]' = f.row

\* What a user has stored is changed by a request of that user that has the field, or
\* with the whole row by the table sync, and by nothing else: to sign in again, to
\* register a box key or to send the other half of a profile keeps it, in whatever order
\* requests and rows of peers arrive, and a conflict with another user's row leaves both.
OnlyAskedChanges ==
  [][\A k \in UserKeys, field \in {"username", "name", "box_key"} :
       RowOfUser(k)[field]' # RowOfUser(k)[field] =>
         (\E r \in requests : FieldAsked(r, k, field)) \/ Replaced(k)]_userVars
=============================================================================
