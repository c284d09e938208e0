---------------------------- MODULE Privileges ----------------------------
(***************************************************************************)
(* What a user may do: toLoginUser (handler/auth.go) merges the privileges *)
(* of the user's roles, one JSON document after the other and in the order *)
(* in which the database happens to return them; BasicAuthenticate looks   *)
(* for resource and action in the result.                                  *)
(*                                                                         *)
(* A document gives each resource a node: an object of actions, something  *)
(* else, or nothing.  Below an action nothing is looked at: what is not a  *)
(* boolean there is Other.                                                 *)
(***************************************************************************)
CONSTANTS Roles, Resources, Actions,
          Yes, No,      \* JSON true and false
          Other,        \* null, a number, a text, an array, a deeper object
          Absent,       \* no such key
          Docs          \* the documents roles have

Values == {Yes, No, Other}
Objects == [Actions -> Values \cup {Absent}]
Nodes == Objects \cup Values \cup {Absent}
Documents == [Resources -> Nodes]

ASSUME ValuesAssumption ==
  /\ Yes # No /\ Yes # Other /\ No # Other /\ Absent \notin Values
  /\ (Values \cup {Absent}) \cap Objects = {}
  /\ Docs \subseteq Documents

VARIABLES
  docs,     \* role -> its privileges, as the query returned them
  granted,  \* the roles of the user, as the query returned them
  left,     \* those not merged yet
  privs     \* mprivs

vars == <<docs, granted, left, privs>>

TypeOK ==
  /\ docs \in [Roles -> Documents]
  /\ granted \in SUBSET Roles /\ left \in SUBSET granted
  /\ privs \in Documents

Init ==
  /\ docs \in [Roles -> Docs]
  /\ granted \in SUBSET Roles
  /\ left = granted
  /\ privs = [x \in Resources |-> Absent]

-----------------------------------------------------------------------------

(* One key of mergeMap: what the target has, and what the source has there. *)
LastWins(t, s) == IF s = Absent THEN t ELSE s
Truthy(t, s) == IF s \in {Yes, Other} THEN Yes ELSE IF t = Absent THEN s ELSE t
MergeValue(t, s) ==
  IF t = Absent THEN s
  ELSE IF s \in {No, Absent} THEN t ELSE s

MergeNode(t, s) ==
  IF t \in Objects /\ s \in Objects
  THEN [a \in Actions |-> MergeValue(t[a], s[a])]
  ELSE MergeValue(t, s)

Merge(i) ==
  /\ i \in left
  /\ privs' = [x \in Resources |-> MergeNode(privs[x], docs[i][x])]
  /\ left' = left \ {i}
  /\ UNCHANGED <<docs, granted>>

(* BasicAuthenticate: an object, and in it the boolean true. *)
Allows(doc, x, a) == doc[x] \in Objects /\ doc[x][a] = Yes

Next == \E i \in Roles : Merge(i)

Spec == Init /\ [][Next]_vars

-----------------------------------------------------------------------------
(* Properties. *)

WellFormed(doc) ==
  \A x \in Resources :
    doc[x] # Absent => doc[x] \in Objects /\ \A a \in Actions : doc[x][a] # Other

AllowedBySome(S, x, a) == \E i \in S : Allows(docs[i], x, a)

(* When the documents hold nothing but objects of booleans, a user may do    *)
(* exactly what one of the roles allows: in whatever order the roles come, a *)
(* false of one never takes back the true of another.                        *)
GrantsAreUnion ==
  (\A i \in Roles : WellFormed(docs[i])) =>
    \A x \in Resources, a \in Actions :
      Allows(privs, x, a) <=> AllowedBySome(granted \ left, x, a)

(* Whatever the documents hold, a text or a number where an object or a      *)
(* boolean belongs, the merge allows nothing that no role allows.            *)
NothingFromNowhere ==
  \A x \in Resources, a \in Actions :
    Allows(privs, x, a) => AllowedBySome(granted \ left, x, a)
=============================================================================
