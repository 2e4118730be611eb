----------------------------- MODULE MCBilling -----------------------------
(* Small instances of Billing. *)
EXTENDS Billing

CONSTANTS u1, k1, k2, k3

On(op, user, amount, key) ==
    [op |-> op, user |-> user, amount |-> amount, key |-> key]

\* One user and keys enough for a call to lose its row to others MaxAttempts
\* times; two keys each carried by two different calls; an empty recharge.
MixedCalls ==
    {On("open", u1, 0, k1),
     On("recharge", u1, 2, k1),
     On("freeze", u1, 2, k2), On("gift", u1, 1, k2),
     On("settle", u1, 1, k3), On("rollback", u1, 1, k3),
     On("recharge", u1, 0, k3)}

\* Every key belongs to one call, which a caller may repeat.
RepeatedCalls ==
    {On("open", u1, 0, k1),
     On("recharge", u1, 2, k1),
     On("freeze", u1, 2, k2),
     On("gift", u1, 1, k3)}

OneUser == {u1}
ThreeKeys == {k1, k2, k3}
=============================================================================
