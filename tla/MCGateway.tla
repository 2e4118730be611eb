----------------------------- MODULE MCGateway -----------------------------
(* Small instances of Gateway. *)
EXTENDS Gateway, TLC

CONSTANTS a, b

TwoProviders == [p \in {a, b} |-> IF p = a THEN 2 ELSE 1]

\* Requests are interchangeable.
AnyRequest == Permutations(Requests)
=============================================================================
