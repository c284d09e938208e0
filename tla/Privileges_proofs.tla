------------------------- MODULE Privileges_proofs -------------------------
(***************************************************************************)
(* The merge of the roles' privileges, for any number of roles, resources  *)
(* and actions.  The roles are merged one per step, so the invariant stands *)
(* where an induction over the list of roles would stand.                  *)
(***************************************************************************)
EXTENDS Privileges, TLAPS

(* Nothing, or an object of booleans. *)
Plain(n) == n # Absent => n \in Objects /\ \A a \in Actions : n[a] # Other

(* Merging nodes gives a node. *)
LEMMA MergeIsNode ==
  ASSUME NEW t \in Nodes, NEW s \in Nodes
  PROVE  MergeNode(t, s) \in Nodes
BY DEF MergeNode, MergeValue, Nodes, Objects

(* Whatever the two nodes hold, the merged one allows an action only if one  *)
(* of them does.                                                             *)
LEMMA MergeAddsNothing ==
  ASSUME NEW t \in Nodes, NEW s \in Nodes, NEW a \in Actions,
         MergeNode(t, s) \in Objects, MergeNode(t, s)[a] = Yes
  PROVE  (t \in Objects /\ t[a] = Yes) \/ (s \in Objects /\ s[a] = Yes)
<1>1. CASE t \in Objects /\ s \in Objects
  BY <1>1 DEF MergeNode, MergeValue
<1>2. CASE ~ (t \in Objects /\ s \in Objects)
  BY <1>2 DEF MergeNode, MergeValue
<1> QED BY <1>1, <1>2

(* Plain nodes: the merged one is plain and allows what either allows.       *)
LEMMA MergeIsUnion ==
  ASSUME NEW t \in Nodes, NEW s \in Nodes, Plain(t), Plain(s)
  PROVE  /\ Plain(MergeNode(t, s))
         /\ \A a \in Actions :
              (MergeNode(t, s) \in Objects /\ MergeNode(t, s)[a] = Yes)
              <=> (t \in Objects /\ t[a] = Yes) \/ (s \in Objects /\ s[a] = Yes)
<1> USE ValuesAssumption DEF Plain
<1>1. CASE t \in Objects /\ s \in Objects
  <2>1. MergeNode(t, s) = [a \in Actions |-> MergeValue(t[a], s[a])]
    BY <1>1 DEF MergeNode
  <2>2. MergeNode(t, s) \in Objects
    BY <1>1, <2>1 DEF MergeValue, Objects
  <2>3. ASSUME NEW a \in Actions
        PROVE  /\ MergeNode(t, s)[a] # Other
               /\ MergeNode(t, s)[a] = Yes <=> t[a] = Yes \/ s[a] = Yes
    <3>1. t[a] \in Values \cup {Absent} /\ s[a] \in Values \cup {Absent}
      BY <1>1 DEF Objects
    <3>2. t # Absent /\ s # Absent
      BY <1>1
    <3>3. t[a] # Other /\ s[a] # Other
      BY <3>2
    <3> QED BY <2>1, <3>1, <3>3 DEF MergeValue, Values
  <2> QED BY <1>1, <2>2, <2>3
<1>2. CASE t = Absent
  BY <1>2 DEF MergeNode, MergeValue
<1>3. CASE t # Absent /\ s = Absent
  BY <1>3 DEF MergeNode, MergeValue
<1> QED BY <1>1, <1>2, <1>3

IInv ==
  /\ TypeOK
  /\ NothingFromNowhere
  /\ GrantsAreUnion
  /\ (\A i \in Roles : WellFormed(docs[i])) => WellFormed(privs)

(* Merging one more role keeps the invariant. *)
LEMMA MergeStep ==
  ASSUME IInv, NEW i \in Roles, Merge(i)
  PROVE  IInv'
<1> USE DEF IInv
<1> DEFINE done == granted \ left
<1>1. /\ i \in left /\ i \in granted /\ docs' = docs /\ granted' = granted
      /\ (granted \ left)' = done \cup {i}
  BY DEF Merge, TypeOK
<1>2. ASSUME NEW x \in Resources
      PROVE  /\ privs[x] \in Nodes /\ docs[i][x] \in Nodes
             /\ privs'[x] = MergeNode(privs[x], docs[i][x])
  BY <1>1 DEF Merge, TypeOK, Documents
<1>3. TypeOK'
  <2>1. privs' \in Documents
    BY <1>2, MergeIsNode DEF Merge, Documents
  <2> QED BY <1>1, <2>1 DEF TypeOK, Merge
<1>4. NothingFromNowhere'
  <2> SUFFICES ASSUME NEW x \in Resources, NEW a \in Actions, Allows(privs', x, a)
               PROVE  \E j \in done \cup {i} : Allows(docs[j], x, a)
    BY <1>1 DEF NothingFromNowhere, AllowedBySome
  <2>1. Allows(privs, x, a) \/ Allows(docs[i], x, a)
    BY <1>2, MergeAddsNothing DEF Allows
  <2> QED BY <2>1 DEF NothingFromNowhere, AllowedBySome
<1>5. ASSUME \A j \in Roles : WellFormed(docs[j])
      PROVE  /\ WellFormed(privs')
             /\ \A x \in Resources, a \in Actions :
                  Allows(privs', x, a) <=> Allows(privs, x, a) \/ Allows(docs[i], x, a)
  <2>1. ASSUME NEW x \in Resources
        PROVE  /\ Plain(privs'[x])
               /\ \A a \in Actions :
                    Allows(privs', x, a) <=> Allows(privs, x, a) \/ Allows(docs[i], x, a)
    <3>1. Plain(privs[x]) /\ Plain(docs[i][x])
      BY <1>5 DEF WellFormed, Plain
    <3> QED BY <1>2, <3>1, MergeIsUnion DEF Allows
  <2> QED BY <2>1 DEF WellFormed, Plain
<1>6. GrantsAreUnion'
  <2> SUFFICES ASSUME \A j \in Roles : WellFormed(docs[j]),
                      NEW x \in Resources, NEW a \in Actions
               PROVE  Allows(privs', x, a) <=> \E j \in done \cup {i} : Allows(docs[j], x, a)
    BY <1>1 DEF GrantsAreUnion, AllowedBySome
  <2>1. Allows(privs, x, a) <=> \E j \in done : Allows(docs[j], x, a)
    BY DEF GrantsAreUnion, AllowedBySome
  <2> QED BY <1>5, <2>1
<1>7. ((\A j \in Roles : WellFormed(docs[j])) => WellFormed(privs))'
  BY <1>1, <1>5
<1> QED BY <1>3, <1>4, <1>6, <1>7

(* The inductive invariant holds in every reachable state. *)
THEOREM PrivilegesInvariance == Spec => []IInv
<1>1. Init => IInv
  <2> SUFFICES ASSUME Init PROVE IInv
    OBVIOUS
  <2>1. \A x \in Resources : privs[x] = Absent
    BY DEF Init
  <2>2. TypeOK
    BY ValuesAssumption DEF Init, TypeOK, Documents, Nodes
  <2>3. \A x \in Resources, a \in Actions : ~ Allows(privs, x, a)
    BY <2>1, ValuesAssumption DEF Allows
  <2>4. granted \ left = {}
    BY DEF Init
  <2> QED BY <2>1, <2>2, <2>3, <2>4
          DEF IInv, NothingFromNowhere, GrantsAreUnion, AllowedBySome, WellFormed
<1>2. IInv /\ [Next]_vars => IInv'
  <2> SUFFICES ASSUME IInv, [Next]_vars PROVE IInv'
    OBVIOUS
  <2>1. CASE UNCHANGED vars
    BY <2>1 DEF vars, IInv, TypeOK, NothingFromNowhere, GrantsAreUnion, AllowedBySome,
                Allows, WellFormed
  <2>2. CASE Next
    BY <2>2, MergeStep DEF Next
  <2> QED BY <2>1, <2>2
<1> QED BY <1>1, <1>2, PTL DEF Spec

(* The order of the roles does not matter and no role takes anything away    *)
(* (GrantsAreUnion).                                                         *)
THEOREM UnionOfGrants == Spec => []GrantsAreUnion
<1>1. IInv => GrantsAreUnion
  BY DEF IInv
<1> QED BY PrivilegesInvariance, <1>1, PTL

(* Malformed documents allow nothing beyond the well-formed parts of them    *)
(* (NothingFromNowhere).                                                     *)
THEOREM NoInventedGrant == Spec => []NothingFromNowhere
<1>1. IInv => NothingFromNowhere
  BY DEF IInv
<1> QED BY PrivilegesInvariance, <1>1, PTL
=============================================================================
