------------------------------ MODULE MCAdmin ------------------------------
(* Small instances of Admin. *)
EXTENDS Admin

CONSTANTS u1, u2, k1, k2, k3

On(op, user, amount, key) ==
    [op |-> op, user |-> user, amount |-> amount, key |-> key]

\* Two users; one key is used for both, so a call can wait for, and then
\* collide with, the record of the other user.
TwoUserCalls ==
    {On("open", u1, 0, k1),
     On("recharge", u1, 2, k1),
     On("freeze", u1, 1, k2), On("gift", u2, 1, k2),
     On("settle", u1, 1, k3), On("gift", u1, 1, k3)}

TwoUsers == {u1, u2}
ThreeKeys == {k1, k2, k3}
UpAndDown == {[user |-> u1, amount |-> -1], [user |-> u2, amount |-> 1]}
=============================================================================
