---------------------------- MODULE MCPayments ----------------------------
(* Small instances of Payments. *)
EXTENDS Payments, TLC

CONSTANTS u1, o1, r1

Sold(mode, channel) ==
    [o \in {o1} |-> [user |-> u1, mode |-> mode, tokens |-> 2, channel |-> channel]]

Subscription == Sold("subscription", "stripe")
Package == Sold("one_time", "paypal")

OneRenewal == [r \in {r1} |-> o1]
NoRenewals == [r \in {} |-> o1]

On(kind, bill, copy) == [kind |-> kind, bill |-> bill, copy |-> copy]

\* What Stripe sends about a subscription: its first payment or a renewal may
\* be reported twice.
SubscriptionEvents ==
    {On("checkout", o1, 1), On("checkout", o1, 2),
     On("renewal", r1, 1), On("renewal", r1, 2),
     On("deleted", o1, 1)}

\* What PayPal sends about a package: its capture may be reported twice.
PackageEvents ==
    {On("other", o1, 1), On("capture", o1, 1), On("capture", o1, 2)}

\* Two states alike in this have the same future but for acked and processed,
\* which are left out: a delivery that finishes writes nothing else, and an event
\* that has a row is not handled again.
WhatMatters ==
    <<charged, asked, ended, sent, acked \ recorded, status, linked, subs, invoices,
      recorded, pc, [p \in Procs |-> IF pc[p] = "finish" THEN None ELSE job[p]],
      [p \in Procs |-> IF pc[p] = "cancelSub" THEN target[p] ELSE None],
      cancellations, faults, ledger>>

\* Deliveries are alike: which one takes up an event makes no difference.
DeliveriesAlike == Permutations(Procs)
=============================================================================
