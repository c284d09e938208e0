--------------------------- MODULE MC_NonceCache ---------------------------
(* NonceCache on small instances. *)
EXTENDS NonceCache, TLC

Interchangeable == Permutations(Requests) \cup Permutations(Nonces)
=============================================================================
