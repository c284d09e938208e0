---------------------------- MODULE MC_UserStore ----------------------------
(* UserStore on small instances: see the cfg files. *)
EXTENDS UserStore, TLC

Interchangeable == Permutations(Requests) \cup Permutations(Emails) \cup Permutations(RoleIds)
=============================================================================
