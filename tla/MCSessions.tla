----------------------------- MODULE MCSessions -----------------------------
(* Small instances of Sessions. *)
EXTENDS Sessions, TLC

Interchangeable == Permutations(Tokens) \cup Permutations(Procs)
=============================================================================
