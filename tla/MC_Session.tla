---------------------------- MODULE MC_Session ----------------------------
(* Session on small instances. *)
EXTENDS Session, TLC

Interchangeable == Permutations(Clients) \cup Permutations(Requests)
=============================================================================
