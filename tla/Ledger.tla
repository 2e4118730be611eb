------------------------------- MODULE Ledger -------------------------------
(***************************************************************************)
(* What the billing service promises the services that call it: every      *)
(* user has at most one token account, and a call moves tokens between its *)
(* columns once per idempotency key, in one indivisible step, however many *)
(* requests carry that key and however they interleave.                    *)
(***************************************************************************)
EXTENDS Integers

CONSTANTS
    Users,  \* the users that may own an account
    Keys,   \* idempotency keys
    Calls   \* the calls other services may issue

\* The five fund operations of BillingService, and createAccount.
FundOps == {"freeze", "settle", "rollback", "recharge", "gift"}
Ops == FundOps \cup {"open"}

Call == [op: Ops, user: Users, amount: Int, key: Keys]

VARIABLES
    open,     \* the users whose account exists
    account,  \* what each account holds, by column
    applied   \* the idempotency keys whose call has taken effect

vars == <<open, account, applied>>

Columns == [balance: Int, frozen: Int,
            totalRecharged: Int, totalConsumed: Int, totalGifted: Int]

Empty == [balance |-> 0, frozen |-> 0,
          totalRecharged |-> 0, totalConsumed |-> 0, totalGifted |-> 0]

-----------------------------------------------------------------------------
\* A freeze needs that much balance, a settlement or a rollback that much
\* frozen; a recharge or a gift needs nothing.
Covered(c, a) ==
    /\ c.op = "freeze" => c.amount <= a.balance
    /\ c.op \in {"settle", "rollback"} => c.amount <= a.frozen

\* The account once call c has moved c.amount tokens.
Moved(c, a) ==
    CASE c.op = "freeze" ->
            [a EXCEPT !.balance = @ - c.amount, !.frozen = @ + c.amount]
      [] c.op = "settle" ->
            [a EXCEPT !.frozen = @ - c.amount, !.totalConsumed = @ + c.amount]
      [] c.op = "rollback" ->
            [a EXCEPT !.frozen = @ - c.amount, !.balance = @ + c.amount]
      [] c.op = "recharge" ->
            [a EXCEPT !.balance = @ + c.amount, !.totalRecharged = @ + c.amount]
      [] c.op = "gift" ->
            [a EXCEPT !.balance = @ + c.amount, !.totalGifted = @ + c.amount]

-----------------------------------------------------------------------------
Init ==
    /\ open = {}
    /\ account = [u \in Users |-> Empty]
    /\ applied = {}

Open(u) ==
    /\ u \notin open
    /\ open' = open \cup {u}
    /\ account' = [account EXCEPT ![u] = Empty]
    /\ UNCHANGED applied

Apply(c) ==
    /\ c.op \in FundOps
    /\ c.amount > 0
    /\ c.user \in open
    /\ c.key \notin applied
    /\ Covered(c, account[c.user])
    /\ account' = [account EXCEPT ![c.user] = Moved(c, @)]
    /\ applied' = applied \cup {c.key}
    /\ UNCHANGED open

Next ==
    \/ \E u \in Users : Open(u)
    \/ \E c \in Calls : Apply(c)

Spec == Init /\ [][Next]_vars
=============================================================================
