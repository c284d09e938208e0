------------------------- MODULE NonceCache_proofs -------------------------
(***************************************************************************)
(* Proofs about NonceCache for any capacity, window, set of nonces and     *)
(* number of deliveries.                                                   *)
(***************************************************************************)
EXTENDS NonceCache, FiniteSetTheorems, TLAPS

(* A key that was let pass is in the cache, or the cache's worth of other  *)
(* keys has been used since.                                               *)
Remembered ==
  \A k \in served : k \in cache \/ Cardinality(newer[k]) >= Capacity

IInv ==
  /\ TypeOK
  /\ IsFiniteSet(cache)
  /\ \A k \in Keys : IsFiniteSet(newer[k])
  /\ Remembered

(* A use of a key makes it newer than every other and loses none.          *)
LEMMA UsedGrows ==
  ASSUME IInv, NEW k \in Keys, newer' = Used(k)
  PROVE  /\ newer' \in [Keys -> SUBSET Keys]
         /\ \A j \in Keys : IsFiniteSet(newer'[j])
         /\ \A j \in Keys \ {k} : /\ newer'[j] = newer[j] \cup {k}
                                  /\ Cardinality(newer'[j]) >= Cardinality(newer[j])
                                  /\ Cardinality(newer'[j]) \in Nat
                                  /\ Cardinality(newer[j]) \in Nat
<1>1. newer' \in [Keys -> SUBSET Keys]
  BY DEF IInv, TypeOK, Used
<1>2. newer'[k] = {} /\ IsFiniteSet(newer'[k])
  BY FS_EmptySet DEF Used
<1>3. ASSUME NEW j \in Keys \ {k}
      PROVE  /\ newer'[j] = newer[j] \cup {k}
             /\ IsFiniteSet(newer'[j])
             /\ Cardinality(newer'[j]) >= Cardinality(newer[j])
             /\ Cardinality(newer'[j]) \in Nat
             /\ Cardinality(newer[j]) \in Nat
  <2>1. newer'[j] = newer[j] \cup {k} /\ IsFiniteSet(newer[j])
    BY DEF IInv, Used
  <2>2. IsFiniteSet(newer'[j])
    BY <2>1, FS_AddElement
  <2>3. Cardinality(newer[j]) <= Cardinality(newer'[j])
    BY <2>1, <2>2, FS_Subset
  <2> QED BY <2>1, <2>2, <2>3, FS_CardinalityType
<1> QED BY <1>1, <1>2, <1>3

(* Recording a key keeps the cache within its capacity, and a key that     *)
(* leaves it has been followed by the cache's worth of others.             *)
LEMMA RecordKeeps ==
  ASSUME IInv, NEW r \in Requests, NEW good \in BOOLEAN, Record(r, good)
  PROVE  IInv'
<1> DEFINE k == req[r]
<1> USE CapacityAssumption
<1>1. k \in Keys /\ k \notin cache /\ IsFiniteSet(cache) /\ Cardinality(cache) \in Nat
      /\ Cardinality(cache) <= Capacity
  BY FS_CardinalityType DEF Record, Fresh, IInv, TypeOK
<1>2. /\ newer' \in [Keys -> SUBSET Keys]
      /\ \A j \in Keys : IsFiniteSet(newer'[j])
      /\ \A j \in Keys \ {k} : /\ newer'[j] = newer[j] \cup {k}
                               /\ Cardinality(newer'[j]) >= Cardinality(newer[j])
                               /\ Cardinality(newer'[j]) \in Nat
                               /\ Cardinality(newer[j]) \in Nat
  BY <1>1, UsedGrows DEF Record, Fresh
<1>3. ASSUME cache' = cache \cup {k}, Cardinality(cache) < Capacity
      PROVE  /\ cache' \in SUBSET Keys /\ IsFiniteSet(cache')
             /\ Cardinality(cache') <= Capacity
             /\ \A j \in cache : j \in cache'
  <2>1. IsFiniteSet(cache') /\ Cardinality(cache') = Cardinality(cache) + 1
    BY <1>1, <1>3, FS_AddElement
  <2> QED BY <1>1, <1>3, <2>1 DEF IInv, TypeOK
<1>4. ASSUME NEW i \in cache, cache \ {i} \subseteq newer[i],
             cache' = (cache \ {i}) \cup {k}, Cardinality(cache) >= Capacity
      PROVE  /\ cache' \in SUBSET Keys /\ IsFiniteSet(cache')
             /\ Cardinality(cache') <= Capacity
             /\ \A j \in cache : j \in cache' \/ Cardinality(newer'[j]) >= Capacity
  <2>1. IsFiniteSet(cache \ {i}) /\ Cardinality(cache \ {i}) = Cardinality(cache) - 1
    BY <1>1, FS_RemoveElement
  <2>2. IsFiniteSet(cache') /\ Cardinality(cache') = Cardinality(cache)
    <3>1. k \notin cache \ {i}
      BY <1>1
    <3>2. Cardinality(cache') = Cardinality(cache \ {i}) + 1 /\ IsFiniteSet(cache')
      BY <1>4, <2>1, <3>1, FS_AddElement
    <3> QED BY <1>1, <2>1, <3>2
  <2>3. i \in Keys \ {k}
    BY <1>1 DEF IInv, TypeOK
  <2>4. cache' \subseteq newer'[i]
    BY <1>2, <1>4, <2>3
  <2>5. Cardinality(cache') <= Cardinality(newer'[i])
    BY <1>2, <2>2, <2>3, <2>4, FS_Subset
  <2>6. Cardinality(newer'[i]) >= Capacity
    BY <1>1, <1>2, <1>4, <2>2, <2>3, <2>5
  <2> QED BY <1>1, <1>4, <2>2, <2>6 DEF IInv, TypeOK
<1>5. /\ cache' \in SUBSET Keys /\ IsFiniteSet(cache')
      /\ Cardinality(cache') <= Capacity
      /\ \A j \in cache : j \in cache' \/ Cardinality(newer'[j]) >= Capacity
      /\ k \in cache'
  <2>1. CASE Cardinality(cache) < Capacity
    BY <1>3, <2>1 DEF Record, Fresh, Kept
  <2>2. CASE ~ (Cardinality(cache) < Capacity)
    <3>1. Cardinality(cache) >= Capacity
      BY <1>1, <2>2
    <3>2. PICK i \in cache : /\ cache \ {i} \subseteq newer[i]
                             /\ cache' = (cache \ {i}) \cup {k}
      BY <2>2 DEF Record, Fresh, Kept
    <3> QED BY <1>4, <3>1, <3>2
  <2> QED BY <2>1, <2>2
<1>6. Remembered'
  <2> SUFFICES ASSUME NEW j \in served', j \notin cache'
               PROVE  Cardinality(newer'[j]) >= Capacity
    BY DEF Remembered
  <2>1. j \in served /\ j # k /\ j \in Keys
    BY <1>5 DEF Record, Fresh, IInv, TypeOK
  <2>2. CASE j \in cache
    BY <1>5, <2>2
  <2>3. CASE j \notin cache
    BY <1>2, <2>1, <2>3 DEF IInv, Remembered
  <2> QED BY <2>2, <2>3
<1>7. TypeOK'
  BY <1>1, <1>2, <1>5 DEF Record, Fresh, IInv, TypeOK
<1> QED BY <1>2, <1>5, <1>6, <1>7 DEF IInv

(* IInv is an invariant: what TLC finds on its instance holds for all. *)
THEOREM CacheInvariance == Spec => []IInv
<1> USE CapacityAssumption, NilAssumption
<1>1. Init => IInv
  <2> SUFFICES ASSUME Init PROVE IInv
    OBVIOUS
  <2>1. IsFiniteSet({}) /\ Cardinality({}) = 0
    BY FS_EmptySet
  <2> QED BY <2>1, WindowAssumption DEF Init, IInv, TypeOK, Remembered, Times
<1>2. IInv /\ [Next]_vars => IInv'
  <2> SUFFICES ASSUME IInv, [Next]_vars PROVE IInv'
    OBVIOUS
  <2>1. CASE UNCHANGED vars
    BY <2>1 DEF vars, IInv, TypeOK, Remembered
  <2>2. ASSUME NEW r \in Requests, NEW k \in Keys, Deliver(r, k) PROVE IInv'
    BY <2>2 DEF Deliver, IInv, TypeOK, Remembered
  <2>3. ASSUME NEW r \in Requests, Refuse(r) PROVE IInv'
    <3>1. req[r] \in Keys
      BY <2>3 DEF Refuse, IInv, TypeOK
    <3>2. /\ newer' \in [Keys -> SUBSET Keys]
          /\ \A j \in Keys : IsFiniteSet(newer'[j])
      BY <2>3, <3>1, UsedGrows DEF Refuse
    <3>3. \A j \in Keys \ {req[r]} : /\ Cardinality(newer'[j]) >= Cardinality(newer[j])
                                     /\ Cardinality(newer'[j]) \in Nat
                                     /\ Cardinality(newer[j]) \in Nat
      BY <2>3, <3>1, UsedGrows DEF Refuse
    <3>4. Remembered'
      BY <2>3, <3>3 DEF Refuse, Fresh, IInv, TypeOK, Remembered
    <3> QED BY <2>3, <3>2, <3>4 DEF Refuse, IInv, TypeOK
  <2>4. ASSUME NEW r \in Requests, NEW good \in BOOLEAN, Record(r, good) PROVE IInv'
    BY <2>4, RecordKeeps
  <2>5. CASE Restart
    <3>1. IsFiniteSet({}) /\ Cardinality({}) = 0
      BY FS_EmptySet
    <3> QED BY <2>5, <3>1 DEF Restart, IInv, TypeOK, Remembered
  <2>6. CASE Tick
    BY <2>6, WindowAssumption DEF Tick, IInv, TypeOK, Remembered, Times
  <2> QED BY <2>1, <2>2, <2>3, <2>4, <2>5, <2>6 DEF Next
<1> QED BY <1>1, <1>2, PTL DEF Spec

(* The cache never holds more than its capacity (TypeOK). *)
THEOREM CacheTypeCorrect == Spec => []TypeOK
<1>1. IInv => TypeOK
  BY DEF IInv
<1> QED BY CacheInvariance, <1>1, PTL

(* A request is carried out again by one process only after Capacity others  *)
(* have been checked (ReplayNeedsEviction).                                  *)
THEOREM NoEarlyReplay == Spec => ReplayNeedsEviction
<1>1. ASSUME IInv, NEW r \in Requests, Record(r, TRUE), req[r] \in served
      PROVE  Cardinality(newer[req[r]]) >= Capacity
  BY <1>1 DEF IInv, Remembered, Record, Fresh
<1>2. IInv => [\A r \in Requests :
                 Record(r, TRUE) /\ req[r] \in served =>
                   Cardinality(newer[req[r]]) >= Capacity]_vars
  BY <1>1
<1> QED BY CacheInvariance, <1>2, PTL DEF Spec, ReplayNeedsEviction

=============================================================================
