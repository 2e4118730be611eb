------------------------------ MODULE Payments ------------------------------
(***************************************************************************)
(* Orders, subscriptions and payment webhooks (tokenfusionserver,          *)
(* modules/order): OrderService, StripeService, PayPalService and          *)
(* OrderController, on top of the ledger BillingService promises.          *)
(*                                                                         *)
(* Stripe and PayPal take the money, send events, and send each one again  *)
(* until it is acknowledged.  Deliveries run at once, in any order, and    *)
(* meet in the tables.  Every statement is a step; an error in a handler   *)
(* is caught, logged, and the event acknowledged all the same.             *)
(***************************************************************************)
EXTENDS Integers, FiniteSetsExt

CONSTANTS
    Users,
    Orders,     \* the orders that may be placed
    Renewals,   \* the invoices a provider may issue for later periods
    Terms,      \* what each order buys, for whom, and how often
    RenewalOf,  \* the subscription order each renewal belongs to
    Events,     \* the webhook events the providers may send
    MaxCopies,  \* bound on the things reported twice
    Procs,      \* deliveries the server can have in flight
    Faults,     \* what may go wrong
    MaxFaults,  \* bound on how often
    None

\* Whatever is billed: an order's first payment, or a renewal.
Bills == Orders \cup Renewals

Kinds == {"checkout",  \* Stripe checkout.session.completed
          "capture",   \* PayPal PAYMENT.CAPTURE.COMPLETED
          "renewal",   \* Stripe invoice.paid after the first period
          "deleted",   \* Stripe customer.subscription.deleted
          "other"}     \* whatever is only logged, as a first invoice.paid

\* A provider may report one thing twice, as two events.
Event == [kind: Kinds, bill: Bills, copy: {1, 2}]

Term == [user: Users, mode: {"one_time", "subscription"}, tokens: Nat,
         channel: {"stripe", "paypal"}]

OrderOf(b) == IF b \in Orders THEN b ELSE RenewalOf[b]
TermsOf(b) == Terms[OrderOf(b)]
ChannelOf(b) == TermsOf(b).channel

\* The tokens each bill buys, and the bills of S that buy for user u.
Tokens == [b \in Bills |-> TermsOf(b).tokens]
BillsOf(u, S) == {b \in S : TermsOf(b).user = u}

ASSUME TermsAssumption ==
    /\ Terms \in [Orders -> Term]
    /\ RenewalOf \in [Renewals -> Orders]
    /\ Orders \cap Renewals = {}
ASSUME EventsAssumption ==
    /\ Events \subseteq Event
    /\ None \notin Events
    /\ \A e \in Events : (e.kind = "renewal") = (e.bill \in Renewals)
    /\ \A e \in Events :
         /\ e.kind \in {"checkout", "renewal", "deleted"} => ChannelOf(e.bill) = "stripe"
         /\ e.kind = "capture" => ChannelOf(e.bill) = "paypal"
ASSUME FaultsAssumption ==
    /\ Faults \subseteq {"verify", "insert", "error", "reply", "drop"}
    /\ MaxFaults \in Nat
    /\ MaxCopies \in Nat

VARIABLES
    \* external: what the providers know
    charged,  \* the bills they were paid
    asked,    \* the subscriptions they were asked to cancel
    ended,    \* the subscriptions they have ended
    sent,     \* the events they send
    acked,    \* the events the server acknowledged
    \* the server's tables
    status,    \* orders.status; "none" before the row exists
    linked,    \* orders.subscription_id
    subs,      \* subscriptions: the row each event created, and its status
    invoices,  \* invoices: how many were issued for each bill
    recorded,  \* payment_events: the events that have a row
    processed, \* payment_events.processed
    \* the requests in flight
    pc,        \* where each delivery is
    job,       \* the event it handles
    target,    \* the subscription row it found
    checkout,  \* where the checkout of each order is
    cancelPc,  \* where the user's cancellation of each order is
    cancelRow, \* the subscription row that cancellation found
    faults,    \* how often something went wrong
    \* BillingService
    open, account, applied

providers == <<charged, asked, ended, sent, acked>>
tables == <<status, linked, subs, invoices, recorded, processed>>
deliveries == <<pc, job, target>>
cancellations == <<checkout, cancelPc, cancelRow>>
ledger == <<open, account, applied>>
vars == <<providers, tables, deliveries, cancellations, faults, ledger>>

\* Mutant of KeyOf: one key per event.
KeyByEvent(e) == e

\* The idempotency key of a recharge names the order, or the subscription and
\* the provider's invoice: the bill.
KeyOf(e) == e.bill

RechargeOf(e) == [op |-> "recharge", user |-> TermsOf(e.bill).user,
                  amount |-> TermsOf(e.bill).tokens, key |-> KeyOf(e)]

Billing == INSTANCE Ledger WITH
    Keys <- Bills, Calls <- {RechargeOf(e) : e \in Events}

-----------------------------------------------------------------------------
Init ==
    /\ charged = {} /\ asked = {} /\ ended = {} /\ sent = {} /\ acked = {}
    /\ status = [o \in Orders |-> "none"]
    /\ linked = [o \in Orders |-> None]
    /\ subs = [e \in Events |-> "none"]
    /\ invoices = [b \in Bills |-> 0]
    /\ recorded = {}
    /\ processed = {}
    /\ pc = [p \in Procs |-> "idle"]
    /\ job = [p \in Procs |-> None]
    /\ target = [p \in Procs |-> None]
    /\ checkout = [o \in Orders |-> "idle"]
    /\ cancelPc = [o \in Orders |-> "idle"]
    /\ cancelRow = [o \in Orders |-> None]
    /\ faults = 0
    /\ Billing!Init

Fault(kind) ==
    /\ kind \in Faults
    /\ faults < MaxFaults
    /\ faults' = faults + 1

Send(kinds, b) ==
    sent' = sent \cup {e \in Events : e.kind \in kinds /\ e.bill = b /\ e.copy = 1}

-----------------------------------------------------------------------------
(* The providers, external *)

\* The buyer of an order pays, where the session sent them.
Pay(o) ==
    /\ checkout[o] = "open"
    /\ o \notin charged
    /\ charged' = charged \cup {o}
    /\ Send({"checkout", "capture", "other"}, o)
    /\ UNCHANGED <<asked, ended, acked, tables, deliveries, cancellations,
                   faults, ledger>>

\* Another period of a subscription is paid.
Renew(r) ==
    /\ RenewalOf[r] \in charged \ ended
    /\ r \notin charged
    /\ charged' = charged \cup {r}
    /\ Send({"renewal"}, r)
    /\ UNCHANGED <<asked, ended, acked, tables, deliveries, cancellations,
                   faults, ledger>>

\* A subscription ends: cancelled at the end of its period, or deleted.
End(o) ==
    /\ o \in charged \ ended
    /\ Terms[o].mode = "subscription"
    /\ ended' = ended \cup {o}
    /\ Send({"deleted"}, o)
    /\ UNCHANGED <<charged, asked, acked, tables, deliveries, cancellations,
                   faults, ledger>>

\* A provider reports again, as another event, what it has reported.
SendCopy(e) ==
    /\ e.copy = 2
    /\ [e EXCEPT !.copy = 1] \in sent
    /\ e \notin sent
    /\ Cardinality({c \in sent : c.copy = 2}) < MaxCopies
    /\ sent' = sent \cup {e}
    /\ UNCHANGED <<charged, asked, ended, acked, tables, deliveries,
                   cancellations, faults, ledger>>

-----------------------------------------------------------------------------
(* OrderController: checkout and cancellation *)

\* OrderService.createOrder: a pending order.
CreateOrder(o) ==
    /\ status[o] = "none"
    /\ status' = [status EXCEPT ![o] = "pending"]
    /\ checkout' = [checkout EXCEPT ![o] = "order"]
    /\ UNCHANGED <<providers, linked, subs, invoices, recorded, processed,
                   deliveries, cancelPc, cancelRow, faults, ledger>>

\* Then a session at the provider in which to pay it.
OpenSession(o, channel) ==
    /\ checkout[o] = "order"
    /\ Terms[o].channel = channel
    /\ checkout' = [checkout EXCEPT ![o] = "session"]
    /\ UNCHANGED <<providers, tables, deliveries, cancelPc, cancelRow, faults, ledger>>

\* StripeService.createCheckoutSession: paid once, or period by period.
StripeSession(o) == OpenSession(o, "stripe")

\* PayPalService.createOrder: paid once, whatever was bought.
PayPalOrder(o) == OpenSession(o, "paypal")

\* The session is noted in the order, and its address answered.
AnswerCheckout(o) ==
    /\ checkout[o] = "session"
    /\ checkout' = [checkout EXCEPT ![o] = "open"]
    /\ UNCHANGED <<providers, tables, deliveries, cancelPc, cancelRow, faults, ledger>>

\* Whatever fails leaves the order pending, and nobody to pay it.
CheckoutDrop(o) ==
    /\ checkout[o] \in {"order", "session"}
    /\ Fault("drop")
    /\ checkout' = [checkout EXCEPT ![o] = "failed"]
    /\ UNCHANGED <<providers, tables, deliveries, cancelPc, cancelRow, ledger>>

\* The user cancels the subscription of an order: the order names its row.
ReadCancelled(o) ==
    /\ cancelPc[o] = "idle"
    /\ linked[o] # None
    /\ cancelRow' = [cancelRow EXCEPT ![o] = linked[o]]
    /\ cancelPc' = [cancelPc EXCEPT ![o] = "find"]
    /\ UNCHANGED <<providers, tables, deliveries, checkout, faults, ledger>>

\* getSubscriptionWithChannel: the row is there, as none is ever deleted, and
\* the channel is that of an order linked to it.  By now there may be no such
\* order, and then no provider is asked.
FindChannel(o) ==
    /\ cancelPc[o] = "find"
    /\ LET found == \E d \in Orders : linked[d] = cancelRow[o] IN
       cancelPc' = [cancelPc EXCEPT ![o] = IF found THEN "ask" ELSE "local"]
    /\ UNCHANGED <<providers, tables, deliveries, checkout, cancelRow, faults, ledger>>

\* Mutant of AskProvider: the local row is cancelled first.
AskProviderLast(o) ==
    /\ cancelPc[o] = "ask"
    /\ subs' = [subs EXCEPT ![cancelRow[o]] = "cancelled"]
    /\ cancelPc' = [cancelPc EXCEPT ![o] = "local"]
    /\ UNCHANGED <<providers, status, linked, invoices, recorded, processed,
                   deliveries, checkout, cancelRow, faults, ledger>>

\* The provider is asked first, when there is one to ask.
AskProvider(o) ==
    /\ cancelPc[o] = "ask"
    /\ asked' = asked \cup {o}
    /\ cancelPc' = [cancelPc EXCEPT ![o] = "local"]
    /\ UNCHANGED <<charged, ended, sent, acked, tables, deliveries, checkout,
                   cancelRow, faults, ledger>>

\* Then the local row is marked cancelled.
CancelLocally(o) ==
    /\ cancelPc[o] = "local"
    /\ subs' = [subs EXCEPT ![cancelRow[o]] = "cancelled"]
    /\ cancelPc' = [cancelPc EXCEPT ![o] = "idle"]
    /\ cancelRow' = [cancelRow EXCEPT ![o] = None]
    /\ UNCHANGED <<providers, status, linked, invoices, recorded, processed,
                   deliveries, checkout, faults, ledger>>

\* The server dies, or the provider refuses, or does not answer what it did.
CancelDrop(o) ==
    /\ cancelPc[o] # "idle"
    /\ Fault("drop")
    /\ \/ cancelPc[o] = "ask" /\ asked' = asked \cup {o}
       \/ UNCHANGED asked
    /\ cancelPc' = [cancelPc EXCEPT ![o] = "idle"]
    /\ cancelRow' = [cancelRow EXCEPT ![o] = None]
    /\ UNCHANGED <<charged, ended, sent, acked, tables, deliveries, checkout, ledger>>

-----------------------------------------------------------------------------
(* handleWebhook *)

GoTo(p, label) ==
    /\ pc' = [pc EXCEPT ![p] = label]
    /\ UNCHANGED <<job, target>>

\* The request is over.
Leave(p) ==
    /\ pc' = [pc EXCEPT ![p] = "idle"]
    /\ job' = [job EXCEPT ![p] = None]
    /\ target' = [target EXCEPT ![p] = None]

\* The handler of each kind of event starts with this statement.
FirstStep(kind) ==
    CASE kind = "checkout" -> "findOrder"
      [] kind = "capture" -> "askPayPal"
      [] kind \in {"renewal", "deleted"} -> "findSub"
      [] kind = "other" -> "finish"

\* A provider delivers an event that was not acknowledged, again if need be.
\* Before the event is inserted nothing is read: event_id is UNIQUE.
Receive(p, e) ==
    /\ pc[p] = "idle"
    /\ e \in sent \ acked
    /\ e \notin recorded
    /\ recorded' = recorded \cup {e}
    /\ pc' = [pc EXCEPT ![p] = FirstStep(e.kind)]
    /\ job' = [job EXCEPT ![p] = e]
    /\ UNCHANGED <<providers, status, linked, subs, invoices, processed, target,
                   cancellations, faults, ledger>>

\* The signature of an event cannot be verified: PayPal, which is asked to,
\* does not answer.  It is told so, and delivers the event again.
RefuseSignature(e) ==
    /\ e \in sent \ acked
    /\ ChannelOf(e.bill) = "paypal"
    /\ Fault("verify")
    /\ UNCHANGED <<providers, tables, deliveries, cancellations, ledger>>

\* Mutant of SkipEvent: a duplicate is answered with an error.
RefuseDuplicate(e) ==
    /\ e \in sent \ acked
    /\ e \notin recorded
    /\ Fault("insert")
    /\ acked' = acked \cup {e}
    /\ UNCHANGED <<charged, asked, ended, sent, tables, deliveries,
                   cancellations, ledger>>

\* Whatever makes the insert fail is taken for a duplicate, and acknowledged.
SkipEvent(e) ==
    /\ e \in sent \ acked
    /\ \/ e \in recorded /\ UNCHANGED faults
       \/ e \notin recorded /\ Fault("insert")
    /\ acked' = acked \cup {e}
    /\ UNCHANGED <<charged, asked, ended, sent, tables, deliveries,
                   cancellations, ledger>>

\* Mark the event processed and acknowledge it; the answer may be lost.
Finish(p) ==
    /\ pc[p] = "finish"
    /\ processed' = processed \cup {job[p]}
    /\ \/ acked' = acked \cup {job[p]} /\ UNCHANGED faults
       \/ Fault("reply") /\ UNCHANGED acked
    /\ Leave(p)
    /\ UNCHANGED <<charged, asked, ended, sent, status, linked, subs, invoices,
                   recorded, cancellations, ledger>>

\* A statement of the handler fails: the error is logged and swallowed.
Swallow(p) ==
    /\ pc[p] \notin {"idle", "finish"}
    /\ Fault("error")
    /\ GoTo(p, "finish")
    /\ UNCHANGED <<providers, tables, cancellations, ledger>>

\* The server dies, or answers with an error.
Drop(p) ==
    /\ pc[p] # "idle"
    /\ Fault("drop")
    /\ Leave(p)
    /\ UNCHANGED <<providers, tables, cancellations, ledger>>

-----------------------------------------------------------------------------
(* handleCheckoutSessionCompleted, handlePaymentCaptureCompleted *)

\* The event names a capture; PayPal is asked whose order it is.
AskPayPal(p) ==
    /\ pc[p] = "askPayPal"
    /\ GoTo(p, "findOrder")
    /\ UNCHANGED <<providers, tables, cancellations, faults, ledger>>

\* Find the order; a Stripe subscription without a local row needs one.
FindOrder(p) ==
    /\ pc[p] = "findOrder"
    /\ LET o == job[p].bill IN
       IF /\ job[p].kind = "checkout"
          /\ Terms[o].mode = "subscription"
          /\ linked[o] = None
       THEN GoTo(p, "createSub")
       ELSE GoTo(p, "readOrder")
    /\ UNCHANGED <<providers, tables, cancellations, faults, ledger>>

CreateSub(p) ==
    /\ pc[p] = "createSub"
    /\ subs' = [subs EXCEPT ![job[p]] = "active"]
    /\ GoTo(p, "linkSub")
    /\ UNCHANGED <<providers, status, linked, invoices, recorded, processed,
                   cancellations, faults, ledger>>

LinkSub(p) ==
    /\ pc[p] = "linkSub"
    /\ linked' = [linked EXCEPT ![job[p].bill] = job[p]]
    /\ GoTo(p, "readOrder")
    /\ UNCHANGED <<providers, status, subs, invoices, recorded, processed,
                   cancellations, faults, ledger>>

-----------------------------------------------------------------------------
(* handlePaymentSuccess *)

\* An order that is not pending is left alone.
ReadOrder(p) ==
    /\ pc[p] = "readOrder"
    /\ GoTo(p, IF status[job[p].bill] = "pending" THEN "markPaid" ELSE "finish")
    /\ UNCHANGED <<providers, tables, cancellations, faults, ledger>>

\* Mutants of MarkPaid: the UPDATE does not ask for a pending order; a failed
\* transaction does not stop the recharge; the test of the affected rows is
\* the wrong way round.
MarkPaidAgain(p) ==
    /\ pc[p] = "markPaid"
    /\ status' = [status EXCEPT ![job[p].bill] = "paid"]
    /\ invoices' = [invoices EXCEPT ![job[p].bill] = @ + 1]
    /\ GoTo(p, "openAccount")
    /\ UNCHANGED <<providers, linked, subs, recorded, processed,
                   cancellations, faults, ledger>>

MarkPaidOrNot(p) ==
    /\ pc[p] = "markPaid"
    /\ \/ /\ status[job[p].bill] = "pending"
          /\ status' = [status EXCEPT ![job[p].bill] = "paid"]
          /\ invoices' = [invoices EXCEPT ![job[p].bill] = @ + 1]
          /\ UNCHANGED faults
       \/ Fault("error") /\ UNCHANGED <<status, invoices>>
    /\ GoTo(p, "openAccount")
    /\ UNCHANGED <<providers, linked, subs, recorded, processed,
                   cancellations, ledger>>

MarkPaidInverted(p) ==
    /\ pc[p] = "markPaid"
    /\ LET o == job[p].bill IN
       \/ /\ status[o] = "pending"
          /\ status' = [status EXCEPT ![o] = "paid"]
          /\ GoTo(p, "finish")
          /\ UNCHANGED invoices
       \/ /\ status[o] # "pending"
          /\ invoices' = [invoices EXCEPT ![o] = @ + 1]
          /\ GoTo(p, "openAccount")
          /\ UNCHANGED status
    /\ UNCHANGED <<providers, linked, subs, recorded, processed,
                   cancellations, faults, ledger>>

\* One transaction: UPDATE ... WHERE status = pending, whose row lock keeps
\* every other one out, and the invoice.  Its COMMIT may take effect and be
\* reported as failed, and then nothing is recharged.
MarkPaid(p) ==
    /\ pc[p] = "markPaid"
    /\ LET o == job[p].bill IN
       \/ /\ status[o] = "pending"
          /\ status' = [status EXCEPT ![o] = "paid"]
          /\ invoices' = [invoices EXCEPT ![o] = @ + 1]
          /\ \/ GoTo(p, "openAccount") /\ UNCHANGED faults
             \/ GoTo(p, "finish") /\ Fault("error")
       \/ /\ status[o] # "pending"
          /\ GoTo(p, "finish")
          /\ UNCHANGED <<status, invoices, faults>>
    /\ UNCHANGED <<providers, linked, subs, recorded, processed,
                   cancellations, ledger>>

\* createAccount, then rechargeTokens, of BillingService.
OpenAccount(p) ==
    /\ pc[p] = "openAccount"
    /\ LET u == TermsOf(job[p].bill).user IN
       Billing!Open(u) \/ (u \in open /\ UNCHANGED ledger)
    /\ GoTo(p, "recharge")
    /\ UNCHANGED <<providers, tables, cancellations, faults>>

\* A key that was recharged answers with its record; an amount of zero is
\* refused, as one for a missing account is, and the refusal swallowed.
Recharge(p) ==
    /\ pc[p] = "recharge"
    /\ LET c == RechargeOf(job[p]) IN
       \/ Billing!Apply(c)
       \/ /\ c.key \in applied \/ c.amount = 0 \/ c.user \notin open
          /\ UNCHANGED ledger
    /\ GoTo(p, "finish")
    /\ UNCHANGED <<providers, tables, cancellations, faults>>

-----------------------------------------------------------------------------
(* handleInvoicePaid, handleSubscriptionDeleted *)

\* Any one of the rows that carry the provider's subscription id; an event of
\* a subscription that has none is skipped.
FindSub(p) ==
    /\ pc[p] = "findSub"
    /\ LET rows == {e \in Events : /\ subs[e] # "none"
                                   /\ e.bill = OrderOf(job[p].bill)} IN
       \/ /\ rows = {}
          /\ GoTo(p, "finish")
       \/ \E row \in rows :
            /\ target' = [target EXCEPT ![p] = row]
            /\ pc' = [pc EXCEPT ![p] = IF job[p].kind = "renewal"
                                       THEN "invoice" ELSE "cancelSub"]
            /\ UNCHANGED job
    /\ UNCHANGED <<providers, tables, cancellations, faults, ledger>>

\* A renewal's invoice is a statement of its own, before the recharge.
IssueInvoice(p) ==
    /\ pc[p] = "invoice"
    /\ invoices' = [invoices EXCEPT ![job[p].bill] = @ + 1]
    /\ GoTo(p, IF TermsOf(job[p].bill).tokens > 0 THEN "openAccount" ELSE "finish")
    /\ UNCHANGED <<providers, status, linked, subs, recorded, processed,
                   cancellations, faults, ledger>>

CancelSub(p) ==
    /\ pc[p] = "cancelSub"
    /\ subs' = [subs EXCEPT ![target[p]] = "cancelled"]
    /\ GoTo(p, "finish")
    /\ UNCHANGED <<providers, status, linked, invoices, recorded, processed,
                   cancellations, faults, ledger>>

-----------------------------------------------------------------------------
Handle(p) ==
    \/ AskPayPal(p) \/ FindOrder(p) \/ CreateSub(p) \/ LinkSub(p)
    \/ ReadOrder(p) \/ MarkPaid(p) \/ OpenAccount(p) \/ Recharge(p)
    \/ FindSub(p) \/ IssueInvoice(p) \/ CancelSub(p)
    \/ Finish(p)

Deliver(e) == SkipEvent(e) \/ \E p \in Procs : Receive(p, e)

Next ==
    \/ \E o \in Orders :
          \/ CreateOrder(o) \/ StripeSession(o) \/ PayPalOrder(o)
          \/ AnswerCheckout(o) \/ CheckoutDrop(o)
          \/ Pay(o) \/ End(o)
          \/ ReadCancelled(o) \/ FindChannel(o) \/ AskProvider(o)
          \/ CancelLocally(o) \/ CancelDrop(o)
    \/ \E r \in Renewals : Renew(r)
    \/ \E e \in Events : SendCopy(e) \/ RefuseSignature(e) \/ Deliver(e)
    \/ \E p \in Procs : Handle(p) \/ Swallow(p) \/ Drop(p)

Spec == Init /\ [][Next]_vars

\* The event loop runs every delivery it took up; a provider sends an event
\* until it is acknowledged.  Nobody has to order, pay, renew or cancel.
Fairness ==
    /\ \A p \in Procs : WF_vars(Handle(p))
    /\ \A e \in Events : SF_vars(Deliver(e))

FairSpec == Spec /\ Fairness

-----------------------------------------------------------------------------
(* Properties *)

TypeOK ==
    /\ charged \subseteq Bills /\ asked \subseteq Orders /\ ended \subseteq Orders
    /\ acked \subseteq sent /\ sent \subseteq Events
    /\ status \in [Orders -> {"none", "pending", "paid"}]
    /\ linked \in [Orders -> Events \cup {None}]
    /\ subs \in [Events -> {"none", "active", "cancelled"}]
    /\ invoices \in [Bills -> Nat]
    /\ processed \subseteq recorded /\ recorded \subseteq sent
    /\ pc \in [Procs -> {"idle", "finish", "askPayPal", "findOrder", "createSub",
                         "linkSub", "readOrder", "markPaid", "openAccount",
                         "recharge", "findSub", "invoice", "cancelSub"}]
    /\ job \in [Procs -> Events \cup {None}]
    /\ target \in [Procs -> Events \cup {None}]
    /\ checkout \in [Orders -> {"idle", "order", "session", "open", "failed"}]
    /\ \A o \in Orders : checkout[o] # "idle" <=> status[o] # "none"
    /\ cancelPc \in [Orders -> {"idle", "find", "ask", "local"}]
    /\ cancelRow \in [Orders -> Events \cup {None}]
    /\ faults \in 0 .. MaxFaults
    /\ open \subseteq Users /\ applied \subseteq Bills
    /\ account \in [Users -> Billing!Columns]

\* However many events report a payment, and however their handlers
\* interleave, fail or die, an order has one invoice when it is paid, and none
\* before (order.service.ts, handlePaymentSuccess).
OneInvoicePerOrder ==
    \A o \in Orders : invoices[o] = IF status[o] = "paid" THEN 1 ELSE 0

\* Tokens are credited only for what the tables say was sold: an order that is
\* marked paid, a renewal that has an invoice.
CreditedIsInvoiced ==
    \A b \in applied : invoices[b] > 0

\* No user is credited more than was paid for them, in whatever order and
\* number payment and renewal events come.
NeverOverCredited ==
    \A u \in Users :
        account[u].totalRecharged <= SumFunctionOnSet(Tokens, BillsOf(u, charged))

\* Another row took the place of row e in its order: two checkout events each
\* made one.
Replaced(e) == linked[e.bill] \notin {e, None}

\* "First the third party, then the local row" (order.service.ts:296): a
\* subscription shown as cancelled is one the provider will not charge on.  The
\* code keeps this but for a row that was replaced in its order while it was
\* being cancelled: no order leads to a provider any more, and none is asked.
CancelledIsStopped ==
    \A e \in Events :
        subs[e] = "cancelled" => e.bill \in asked \cup ended \/ Replaced(e)

\* An acknowledged event was processed, not merely received: an event is
\* skipped only when its row says processed (payment-event.entity.ts:20).
AcknowledgedIsProcessed == acked \subseteq processed

\* The provider is told of every event, so that it stops sending it.
EveryEventIsAcknowledged ==
    \A e \in Events : e \in sent ~> e \in acked

\* Unless something fails, whoever paid an order gets its tokens.
PaidIsCredited ==
    \A o \in Orders :
        Terms[o].tokens > 0 /\ o \in charged ~> o \in applied \/ faults > 0
=============================================================================
