----------------------------- MODULE MC_RowStore -----------------------------
(* Keys c1 and c2, and C1 and C2, the same in upper case; any is a pattern   *)
(* that matches every text.                                                  *)
EXTENDS RowStore, TLC

CONSTANTS c1, c2, C1, C2, v1, v2, any

AllTexts == {c1, c2, C1, C2, v1, v2, any}
LowerCase == [t \in AllTexts |-> IF t = C1 THEN c1 ELSE IF t = C2 THEN c2 ELSE t]
Matches == {<<t, t>> : t \in AllTexts} \cup {<<t, any>> : t \in AllTexts}
ColumnKind == [id |-> "int", code |-> "lower", value |-> "text"]

By(field, op, value) == [field |-> field, op |-> op, value |-> value]
Lists ==
  {<<>>}
  \cup {<<By("code", "eq", c), By("value", "eq", v)>> : c \in {C1, C2}, v \in {v1, v2}}
  \cup {<<By("id", "gt", 1), By("code", "ilike", c), By("value", "like", any)>> : c \in {C1, C2}}
  \cup {<<By("code", "gt", c)>> : c \in {C1, C2}}

(* Swapping the keys, in both cases, the values and the requests.            *)
SwapCodes == c1 :> c2 @@ c2 :> c1 @@ C1 :> C2 @@ C2 :> C1
Interchangeable ==
  {p @@ q : p \in Permutations(Requests), q \in Permutations(Values)}
  \cup {SwapCodes @@ p @@ q : p \in Permutations(Requests), q \in Permutations(Values)}
=============================================================================
