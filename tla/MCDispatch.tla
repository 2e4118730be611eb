----------------------------- MODULE MCDispatch -----------------------------
(* Small instances of Dispatch. *)
EXTENDS Dispatch

CONSTANTS a, b, c

ThreeProviders ==
    [p \in {a, b, c} |-> CASE p = a -> 3 [] p = b -> 2 [] p = c -> 1]
=============================================================================
