----------------------------- MODULE MCApiKeys -----------------------------
(* Small instances of ApiKeys. *)
EXTENDS ApiKeys, TLC

Interchangeable == Permutations(Keys) \cup Permutations(Procs)
=============================================================================
