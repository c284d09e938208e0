---------------------------- MODULE MC_Migrate ----------------------------
(* Migrate on small instances: the last file refers to the first and to the *)
(* one before it, as app_user_role refers to app_user and app_role.         *)
EXTENDS Migrate, TLC

CONSTANTS a, b

RefsOf == [f \in Files |-> IF f = N THEN {1, N - 1} ELSE {}]

(* The last file may differ between the runs, or any file at all. *)
LastFileChanges == {d \in [Files -> Contents] : \A f \in 1..(N - 1) : d[f] = a}
AnyFileChanges == [Files -> Contents]

(* A changed file ends a run with --reapply as it ends one without, only     *)
(* later: runs with --drop have it here and the others not.                  *)
DropAndReapply == {f \in [drop : BOOLEAN, reapply : BOOLEAN] : f.drop = f.reapply}
EveryFlag == [drop : BOOLEAN, reapply : BOOLEAN]
=============================================================================
