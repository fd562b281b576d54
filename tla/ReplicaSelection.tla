---------------------------- MODULE ReplicaSelection ----------------------------
(***************************************************************************)
(* select_replica_peer_ids_for_user: the servers closest to a user's key,  *)
(* by the XOR of hashes, among those a server has heard of.  Direct-       *)
(* MessageQueue takes the selection as a constant (Selected); here servers *)
(* come to know of each other, and forget, step by step.                   *)
(*                                                                         *)
(* Hashes are short numbers, and different for different servers.  Of the  *)
(* XOR only that is taken which XOR with one and the same hash does: it    *)
(* keeps different hashes apart.  The limits of the database query and of  *)
(* the DHT walk only keep a server from hearing of another, which is       *)
(* possible here anyway.                                                   *)
(***************************************************************************)
EXTENDS Naturals, FiniteSets

CONSTANTS
  Hosts,         \* servers
  Selectors,     \* the servers that select here
  HashOf,        \* SHA-256 of their peer ids
  KeyHashes,     \* SHA-256 of the keys users may have
  XorOf(_, _),   \* the bytes of two hashes, XORed one by one
  ReplicaCount   \* replica_remote_count

ASSUME HashesAssumption == /\ HashOf \in [Hosts -> Nat] /\ KeyHashes \subseteq Nat
                           /\ \A p, q \in Hosts : HashOf[p] = HashOf[q] => p = q
ASSUME XorAssumption == \A p, q \in Hosts, hash \in KeyHashes :
                          /\ XorOf(HashOf[p], hash) \in Nat
                          /\ XorOf(HashOf[p], hash) = XorOf(HashOf[q], hash) => HashOf[p] = HashOf[q]
ASSUME HostsAssumption == IsFiniteSet(Hosts)
ASSUME ReplicasAssumption == ReplicaCount \in Nat /\ Selectors \subseteq Hosts

VARIABLES
  keyHash,  \* SHA-256 of the user's public key
  heardOf   \* per server, candidates: connected, active rows, found in the DHT

selectionVars == <<keyHash, heardOf>>

SelectionTypeOK ==
  /\ keyHash \in KeyHashes
  /\ heardOf \in [Selectors -> SUBSET Hosts]

SelectionInit ==
  /\ keyHash \in KeyHashes
  /\ heardOf = [p \in Selectors |-> {}]

\* create_xor_distance_hex
Distance(p, hash) == XorOf(HashOf[p], hash)

Closest(candidates, hash) ==
  {q \in candidates :
     Cardinality({r \in candidates : Distance(r, hash) < Distance(q, hash)}) < ReplicaCount}

ReplicasByOwnId(p) == Closest(heardOf[p] \ {p}, HashOf[p])   \* mutant

\* get_closest_peer_ids_for_key leaves the server itself out before it sorts
ReplicasOf(p) == Closest(heardOf[p] \ {p}, keyHash)

HearsOf(p, q) ==
  /\ q \notin heardOf[p]
  /\ heardOf' = [heardOf EXCEPT ![p] = @ \cup {q}]
  /\ UNCHANGED keyHash

Forgets(p, q) ==
  /\ q \in heardOf[p]
  /\ heardOf' = [heardOf EXCEPT ![p] = @ \ {q}]
  /\ UNCHANGED keyHash

SelectionNext == \E p \in Selectors, q \in Hosts : HearsOf(p, q) \/ Forgets(p, q)

SelectionSpec == SelectionInit /\ [][SelectionNext]_selectionVars

-----------------------------------------------------------------------------
(* Properties.                                                             *)

\* Servers that know the same network select the same replicas but for one, and
\* for each other: what a send replicates to is what a pull elsewhere asks.
SelectionsAgree ==
  \A p, q \in Selectors :
    heardOf[p] \cup {p} = heardOf[q] \cup {q}
      => Cardinality(ReplicasOf(p) \ (ReplicasOf(q) \cup {q})) <= 1
=============================================================================
