---------------------------- MODULE NonceCache ----------------------------
(***************************************************************************)
(* BasicHMAC (handler/auth_lib.go): signed requests carry a timestamp and  *)
(* a nonce; the server refuses timestamps that are off by more than a      *)
(* minute and pairs of timestamp and nonce it finds in an LRU cache.       *)
(*                                                                         *)
(* The clock is read first.  From the look into the cache to the result of *)
(* the signature check everything runs under noncesLock, released by the   *)
(* deferred Unlock: one step here.  The network may deliver a request any  *)
(* number of times and at any time.                                        *)
(*                                                                         *)
(* The LRU list of hashicorp/golang-lru is kept as a relation: newer[k] is *)
(* the set of keys used after k was last used.  The oldest key of the      *)
(* cache is the one all others are newer than.                             *)
(***************************************************************************)
EXTENDS Integers, FiniteSets

CONSTANTS Requests,     \* deliveries the server works on at once
          Nonces,
          Window,       \* how far a timestamp may be off
          Capacity,     \* of the cache
          MaxTime,      \* bound: the clock
          Nil

ASSUME CapacityAssumption == Capacity \in Nat \ {0}
ASSUME WindowAssumption == Window \in Nat /\ MaxTime \in Nat

Times == 0..MaxTime
Keys == [stamp : Times, nonce : Nonces]     \* nkey = reqTime + "-" + nonce

ASSUME NilAssumption == Nil \notin Keys

VARIABLES
  now,       \* the server's clock
  cache,     \* nonces: the keys it holds
  newer,     \* key -> the keys used since its last use
  req,       \* delivery -> the key of a request whose timestamp was good
  served     \* history: the keys of the requests this process let pass

vars == <<now, cache, newer, req, served>>

TypeOK ==
  /\ now \in Times
  /\ cache \in SUBSET Keys /\ Cardinality(cache) <= Capacity
  /\ newer \in [Keys -> SUBSET Keys]
  /\ req \in [Requests -> Keys \cup {Nil}]
  /\ served \in SUBSET Keys

Init ==
  /\ now = 0
  /\ cache = {}
  /\ newer = [k \in Keys |-> {}]
  /\ req = [r \in Requests |-> Nil]
  /\ served = {}

-----------------------------------------------------------------------------

InWindow(k) == now - k.stamp <= Window /\ k.stamp - now <= Window

(* Headers and timestamp are good.  A refresh passes here twice: the first *)
(* call of BasicHMAC has no secret and ends here.                          *)
Deliver(r, k) ==
  /\ req[r] = Nil
  /\ InWindow(k)
  /\ req' = [req EXCEPT ![r] = k]
  /\ UNCHANGED <<now, cache, newer, served>>

(* Get and Add both make the key the most recently used one. *)
Used(k) == [j \in Keys |-> IF j = k THEN {} ELSE newer[j] \cup {k}]

(* nonces.Get does not find the key. *)
AlwaysFresh(k) == TRUE
Fresh(k) == k \notin cache

(* A replay. *)
Refuse(r) ==
  /\ req[r] # Nil
  /\ ~ Fresh(req[r])
  /\ newer' = Used(req[r])
  /\ req' = [req EXCEPT ![r] = Nil]
  /\ UNCHANGED <<now, cache, served>>

(* The keys Add may leave: all, or all but the oldest when there is one too *)
(* many.                                                                    *)
AllLeft(k) == {cache \cup {k}}
Kept(k) ==
  IF Cardinality(cache) < Capacity THEN {cache \cup {k}}
  ELSE {(cache \ {j}) \cup {k} : j \in {i \in cache : cache \ {i} \subseteq newer[i]}}

(* nonces.Add, then the signature: only a request with a good one passes,  *)
(* but the key of the other is taken as well.                              *)
Record(r, good) ==
  /\ req[r] # Nil
  /\ Fresh(req[r])
  /\ cache' \in Kept(req[r])
  /\ newer' = Used(req[r])
  /\ served' = IF good THEN served \cup {req[r]} ELSE served
  /\ req' = [req EXCEPT ![r] = Nil]
  /\ UNCHANGED now

(* The cache is the process's: a restart forgets it. *)
Restart ==
  /\ cache' = {}
  /\ newer' = [k \in Keys |-> {}]
  /\ req' = [r \in Requests |-> Nil]
  /\ served' = {}
  /\ UNCHANGED now

Tick ==
  /\ now < MaxTime
  /\ now' = now + 1
  /\ UNCHANGED <<cache, newer, req, served>>

Next ==
  \/ \E r \in Requests, k \in Keys : Deliver(r, k)
  \/ \E r \in Requests : Refuse(r) \/ \E good \in BOOLEAN : Record(r, good)
  \/ Restart \/ Tick

Spec == Init /\ [][Next]_vars

-----------------------------------------------------------------------------
(* Properties. *)

(* A signed request is carried out a second time by the same process only   *)
(* if, since its nonce was last seen, as many others have been checked as   *)
(* the cache holds: whatever is delivered twice, in parallel or out of      *)
(* order, and although refused replays renew a key in the cache.            *)
ReplayNeedsEviction ==
  [][\A r \in Requests :
       Record(r, TRUE) /\ req[r] \in served =>
         Cardinality(newer[req[r]]) >= Capacity]_vars
=============================================================================
