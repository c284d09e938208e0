---------------------------- MODULE MC_Request ----------------------------
(* Two roles and one table.  A document gives it nothing, something that is  *)
(* no object, or an object; merging looks at one key at a time, so the       *)
(* objects have one value for reading and one for the three changes.         *)
EXTENDS Request, TLC

(* A key that is missing, true, false or another value. *)
MergedDocs ==
  LET object(read, change) == [a \in Actions |-> IF a = "read" THEN read ELSE change]
      nodes == {Absent, Yes, Other}
               \cup {object(r, c) : r \in {Yes, Absent}, c \in Values \cup {Absent}}
  IN {[x \in Resources |-> n] : n \in nodes}

Interchangeable == Permutations(Roles)
=============================================================================
