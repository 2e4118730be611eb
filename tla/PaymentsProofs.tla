--------------------------- MODULE PaymentsProofs ---------------------------
(***************************************************************************)
(* Payments, for any number of orders, renewals, events, copies of events, *)
(* deliveries in flight and faults: one invoice per paid order, credit     *)
(* only for what was invoiced and paid, and a subscription shown as        *)
(* cancelled only when the provider was asked to stop it, or has, or its   *)
(* row was replaced.                                                       *)
(***************************************************************************)
EXTENDS Payments, SumProofs

Labels == {"idle", "finish", "askPayPal", "findOrder", "createSub", "linkSub",
           "readOrder", "markPaid", "openAccount", "recharge", "findSub",
           "invoice", "cancelSub"}

\* What the providers know is of this instance, and they report what happened:
\* an end of what has ended, or else something that was paid.
ProvidersOK ==
    /\ charged \subseteq Bills /\ asked \subseteq Orders /\ ended \subseteq Orders
    /\ acked \subseteq sent /\ sent \subseteq Events
    /\ \A e \in sent : IF e.kind = "deleted" THEN e.bill \in ended
                                              ELSE e.bill \in charged

\* An event has a row once it was sent, and is processed once it has a row.
EventsOK == processed \subseteq recorded /\ recorded \subseteq sent

\* An order has one invoice when it is paid, an invoice is of a bill that was
\* paid, and the order exists once its checkout has begun.
OrdersOK ==
    /\ status \in [Orders -> {"none", "pending", "paid"}]
    /\ invoices \in [Bills -> Nat]
    /\ \A o \in Orders : invoices[o] = IF status[o] = "paid" THEN 1 ELSE 0
    /\ \A b \in Bills : invoices[b] > 0 => b \in charged
    /\ checkout \in [Orders -> {"idle", "order", "session", "open", "failed"}]
    /\ \A o \in Orders : checkout[o] # "idle" <=> status[o] # "none"

\* An order is linked to a row of its own, the row its cancellation finds.
SubscriptionsOK ==
    /\ linked \in [Orders -> Events \cup {None}]
    /\ subs \in [Events -> {"none", "active", "cancelled"}]
    /\ cancelPc \in [Orders -> {"idle", "find", "ask", "local"}]
    /\ cancelRow \in [Orders -> Events \cup {None}]
    /\ \A o \in Orders :
         /\ linked[o] # None => linked[o].bill = o
         /\ cancelPc[o] # "idle" => cancelRow[o] \in Events /\ cancelRow[o].bill = o

\* A delivery handles an event that has a row, at a statement of the handler
\* of its kind; it recharges what has an invoice, and cancels the subscription
\* the event is of.
DeliveryOK(p) ==
    /\ pc[p] # "idle" => job[p] \in recorded
    /\ pc[p] \in {"findOrder", "askPayPal", "readOrder", "markPaid",
                  "createSub", "linkSub"} => job[p].kind \in {"checkout", "capture"}
    /\ pc[p] = "findSub" => job[p].kind \in {"renewal", "deleted"}
    /\ pc[p] = "invoice" => job[p].kind = "renewal"
    /\ pc[p] = "cancelSub" => /\ job[p].kind = "deleted"
                             /\ target[p] \in Events /\ target[p].bill = job[p].bill
    /\ pc[p] \in {"openAccount", "recharge"} => invoices[job[p].bill] > 0

DeliveriesOK ==
    /\ pc \in [Procs -> Labels]
    /\ job \in [Procs -> Events \cup {None}]
    /\ target \in [Procs -> Events \cup {None}]
    /\ \A p \in Procs : DeliveryOK(p)

\* A credit is of a bill with an invoice.
LedgerOK ==
    /\ faults \in 0 .. MaxFaults
    /\ open \subseteq Users /\ applied \subseteq Bills
    /\ account \in [Users -> Billing!Columns]
    /\ \A b \in applied : invoices[b] > 0

Inv == /\ ProvidersOK /\ EventsOK /\ OrdersOK /\ SubscriptionsOK
       /\ DeliveriesOK /\ LedgerOK

-----------------------------------------------------------------------------
\* An event is of a bill, and every kind but a renewal of an order.
LEMMA EventIsOf ==
    ASSUME NEW e \in Events
    PROVE  /\ e.bill \in Bills /\ e.kind \in Kinds
           /\ e.kind # "renewal" => e.bill \in Orders
           /\ e.kind = "renewal" => e.bill \in Renewals
BY EventsAssumption DEF Event, Bills

\* A bill is of an order, whose terms name a user and a number of tokens.
LEMMA TermsOfBill ==
    ASSUME NEW b \in Bills
    PROVE  /\ OrderOf(b) \in Orders
           /\ b \in Orders => OrderOf(b) = b
           /\ TermsOf(b).user \in Users /\ TermsOf(b).tokens \in Nat
<1>1. OrderOf(b) \in Orders
  BY TermsAssumption DEF OrderOf, Bills
<1>2. Terms[OrderOf(b)] \in Term
  BY <1>1, TermsAssumption
<1> QED
  BY <1>1, <1>2 DEF OrderOf, TermsOf, Term

\* A delivery that this step does not touch stays where it is allowed to be:
\* no row of an event goes, and no invoice.
LEMMA Elsewhere ==
    ASSUME NEW q \in Procs, DeliveryOK(q),
           pc'[q] = pc[q], job'[q] = job[q], target'[q] = target[q],
           recorded \subseteq Events, recorded \subseteq recorded',
           \A b \in Bills : invoices[b] > 0 => invoices'[b] > 0
    PROVE  DeliveryOK(q)'
<1>1. pc[q] \in {"openAccount", "recharge"} => job[q].bill \in Bills
  BY EventIsOf DEF DeliveryOK
<1> QED
  BY <1>1 DEF DeliveryOK

\* Deliveries that are not touched stay where they are allowed to be.
LEMMA DeliveriesKept ==
    ASSUME Inv, UNCHANGED deliveries, recorded \subseteq recorded',
           \A b \in Bills : invoices[b] > 0 => invoices'[b] > 0
    PROVE  DeliveriesOK'
BY Elsewhere DEF Inv, ProvidersOK, EventsOK, DeliveriesOK, deliveries

\* Nor does anything else change with them.
LEMMA RestKept ==
    ASSUME Inv, UNCHANGED <<providers, tables, cancellations, ledger>>,
           faults' \in 0 .. MaxFaults
    PROVE  /\ ProvidersOK' /\ EventsOK' /\ OrdersOK' /\ SubscriptionsOK' /\ LedgerOK'
BY DEF Inv, ProvidersOK, EventsOK, OrdersOK, SubscriptionsOK, LedgerOK,
       providers, tables, cancellations, ledger

\* Delivery p goes on to another statement of the same handler.
LEMMA Goes ==
    ASSUME Inv, NEW p \in Procs, pc[p] # "idle", NEW label \in Labels, GoTo(p, label),
           recorded' = recorded,
           \A b \in Bills : invoices[b] > 0 => invoices'[b] > 0,
           label \in {"findOrder", "askPayPal", "readOrder", "markPaid", "createSub",
                      "linkSub"} => job[p].kind \in {"checkout", "capture"},
           label \notin {"findSub", "invoice", "cancelSub"},
           label \in {"openAccount", "recharge"} => invoices'[job[p].bill] > 0
    PROVE  DeliveriesOK'
<1>1. DeliveryOK(p)'
  BY DEF Inv, DeliveriesOK, DeliveryOK, GoTo
<1>2. ASSUME NEW q \in Procs, q # p PROVE DeliveryOK(q)'
  BY <1>2, Elsewhere DEF Inv, ProvidersOK, EventsOK, DeliveriesOK, GoTo
<1>3. pc' \in [Procs -> Labels] /\ UNCHANGED <<job, target>>
  BY DEF Inv, DeliveriesOK, GoTo
<1> QED
  BY <1>1, <1>2, <1>3 DEF Inv, DeliveriesOK

\* A delivery that is over leaves nothing to be allowed.
LEMMA Leaves ==
    ASSUME Inv, NEW p \in Procs, Leave(p), UNCHANGED <<recorded, invoices>>
    PROVE  DeliveriesOK'
<1>1. DeliveryOK(p)'
  BY DEF Inv, DeliveriesOK, DeliveryOK, Leave
<1>2. ASSUME NEW q \in Procs, q # p PROVE DeliveryOK(q)'
  BY <1>2, Elsewhere DEF Inv, ProvidersOK, EventsOK, DeliveriesOK, Leave
<1>3. /\ pc' \in [Procs -> Labels]
      /\ job' \in [Procs -> Events \cup {None}]
      /\ target' \in [Procs -> Events \cup {None}]
  BY DEF Inv, DeliveriesOK, Leave, Labels
<1> QED
  BY <1>1, <1>2, <1>3 DEF DeliveriesOK

\* Something goes wrong once more, within the bound.
LEMMA Faulted ==
    ASSUME Inv, NEW kind, UNCHANGED faults \/ Fault(kind)
    PROVE  faults' \in 0 .. MaxFaults
BY FaultsAssumption DEF Inv, LedgerOK, Fault

-----------------------------------------------------------------------------
(* The providers *)

\* What a payment, or the end of a subscription, has the provider report is
\* true of it; nothing else is disturbed.
LEMMA PayKeeps ==
    ASSUME Inv, NEW o \in Orders, Pay(o)
    PROVE  Inv'
<1>1. ProvidersOK'
  <2>1. \A e \in sent' : e \in sent \/ (e \in Events /\ e.bill = o /\ e.kind # "deleted")
    BY DEF Pay, Send
  <2>2. charged' = charged \cup {o} /\ UNCHANGED <<asked, ended, acked>>
    BY DEF Pay
  <2>3. sent \subseteq sent'
    BY DEF Pay, Send
  <2> QED
    BY <2>1, <2>2, <2>3 DEF Inv, ProvidersOK, Bills
<1>2. EventsOK' /\ OrdersOK'
  BY DEF Inv, EventsOK, OrdersOK, Pay, Send, tables, cancellations
<1>3. SubscriptionsOK' /\ LedgerOK'
  BY DEF Inv, SubscriptionsOK, LedgerOK, Pay, tables, cancellations, ledger
<1>4. DeliveriesOK'
  BY DeliveriesKept DEF Pay, tables
<1> QED
  BY <1>1, <1>2, <1>3, <1>4 DEF Inv

\* A provider's next charge of a subscription keeps the invariant.
LEMMA RenewKeeps ==
    ASSUME Inv, NEW r \in Renewals, Renew(r)
    PROVE  Inv'
<1>1. ProvidersOK'
  <2>1. \A e \in sent' : e \in sent \/ (e \in Events /\ e.bill = r /\ e.kind # "deleted")
    BY DEF Renew, Send
  <2>2. charged' = charged \cup {r} /\ UNCHANGED <<asked, ended, acked>>
    BY DEF Renew
  <2>3. sent \subseteq sent'
    BY DEF Renew, Send
  <2> QED
    BY <2>1, <2>2, <2>3 DEF Inv, ProvidersOK, Bills
<1>2. EventsOK' /\ OrdersOK'
  BY DEF Inv, EventsOK, OrdersOK, Renew, Send, tables, cancellations
<1>3. SubscriptionsOK' /\ LedgerOK'
  BY DEF Inv, SubscriptionsOK, LedgerOK, Renew, tables, cancellations, ledger
<1>4. DeliveriesOK'
  BY DeliveriesKept DEF Renew, tables
<1> QED
  BY <1>1, <1>2, <1>3, <1>4 DEF Inv

\* The end of a subscription at its provider keeps the invariant.
LEMMA EndKeeps ==
    ASSUME Inv, NEW o \in Orders, End(o)
    PROVE  Inv'
<1>1. ProvidersOK' /\ EventsOK'
  BY DEF Inv, ProvidersOK, EventsOK, End, Send, tables
<1>2. OrdersOK' /\ SubscriptionsOK' /\ LedgerOK'
  BY DEF Inv, OrdersOK, SubscriptionsOK, LedgerOK, End, tables, cancellations, ledger
<1>3. DeliveriesOK'
  BY DeliveriesKept DEF End, tables
<1> QED
  BY <1>1, <1>2, <1>3 DEF Inv

\* A second report says what the first one said.
LEMMA SendCopyKeeps ==
    ASSUME Inv, NEW e \in Events, SendCopy(e)
    PROVE  Inv'
<1>1. [e EXCEPT !.copy = 1].bill = e.bill /\ [e EXCEPT !.copy = 1].kind = e.kind
  BY EventsAssumption DEF Event
<1>2. ProvidersOK' /\ EventsOK'
  BY <1>1 DEF Inv, ProvidersOK, EventsOK, SendCopy, tables
<1>3. OrdersOK' /\ SubscriptionsOK' /\ LedgerOK'
  BY DEF Inv, OrdersOK, SubscriptionsOK, LedgerOK, SendCopy, tables, cancellations, ledger
<1>4. DeliveriesOK'
  BY DeliveriesKept DEF SendCopy, tables
<1> QED
  BY <1>2, <1>3, <1>4 DEF Inv

-----------------------------------------------------------------------------
(* Checkout and cancellation *)

\* An order begins pending, with its checkout; a checkout goes on or fails.
LEMMA CheckoutKeeps ==
    ASSUME Inv, NEW o \in Orders,
           \/ CreateOrder(o) \/ StripeSession(o) \/ PayPalOrder(o)
           \/ AnswerCheckout(o) \/ CheckoutDrop(o)
    PROVE  Inv'
<1> USE DEF OpenSession, StripeSession, PayPalOrder
<1>1. OrdersOK'
  BY DEF Inv, OrdersOK, providers, tables,
         CreateOrder, AnswerCheckout, CheckoutDrop
<1>2. UNCHANGED <<linked, subs, invoices, recorded, processed, providers, deliveries,
                  cancelPc, cancelRow, ledger>>
  BY DEF CreateOrder, AnswerCheckout, CheckoutDrop, tables
<1>3. faults' \in 0 .. MaxFaults
  BY Faulted DEF CreateOrder, AnswerCheckout, CheckoutDrop
<1>4. ProvidersOK' /\ EventsOK' /\ SubscriptionsOK' /\ LedgerOK'
  BY <1>2, <1>3 DEF Inv, ProvidersOK, EventsOK, SubscriptionsOK, LedgerOK, providers, ledger
<1>5. DeliveriesOK'
  BY <1>2, DeliveriesKept
<1> QED
  BY <1>1, <1>4, <1>5 DEF Inv

\* A cancellation marks the row it read from its order.
LEMMA CancellationKeeps ==
    ASSUME Inv, NEW o \in Orders,
           \/ ReadCancelled(o) \/ FindChannel(o) \/ AskProvider(o)
           \/ CancelLocally(o) \/ CancelDrop(o)
    PROVE  Inv'
<1> USE DEF ReadCancelled, FindChannel, AskProvider, CancelLocally, CancelDrop
<1>1. UNCHANGED <<charged, ended, sent, acked, status, linked, invoices, recorded,
                  processed, deliveries, checkout, ledger>>
  BY DEF providers, tables
<1>2. asked \subseteq asked' /\ asked' \subseteq asked \cup {o}
  BY DEF providers
<1>3. faults' \in 0 .. MaxFaults
  BY Faulted
<1>4. SubscriptionsOK'
  <2>1. cancelPc[o] # "idle" => cancelRow[o] \in Events /\ cancelRow[o].bill = o
    BY DEF Inv, SubscriptionsOK
  <2>2. CASE ReadCancelled(o) \/ FindChannel(o)
    BY <2>1, <2>2 DEF Inv, SubscriptionsOK, providers, tables
  <2>3. CASE AskProvider(o)
    BY <2>1, <2>3 DEF Inv, SubscriptionsOK, tables
  <2>4. CASE CancelLocally(o)
    BY <2>1, <2>4 DEF Inv, SubscriptionsOK, providers
  <2>5. CASE CancelDrop(o)
    BY <2>1, <2>5 DEF Inv, SubscriptionsOK, tables
  <2> QED
    BY <2>2, <2>3, <2>4, <2>5
<1>5. ProvidersOK' /\ EventsOK' /\ OrdersOK' /\ LedgerOK'
  BY <1>1, <1>2, <1>3 DEF Inv, ProvidersOK, EventsOK, OrdersOK, LedgerOK, ledger
<1>6. DeliveriesOK'
  BY <1>1, DeliveriesKept
<1> QED
  BY <1>4, <1>5, <1>6 DEF Inv

-----------------------------------------------------------------------------
(* Deliveries *)

\* A delivery begins with its event's row, at the handler of its kind.
LEMMA ReceiveKeeps ==
    ASSUME Inv, NEW p \in Procs, NEW e \in Events, Receive(p, e)
    PROVE  Inv'
<1>1. FirstStep(e.kind) \in Labels \ {"idle"}
  BY EventIsOf DEF FirstStep, Kinds, Labels
<1>2. DeliveryOK(p)'
  BY EventIsOf DEF Inv, DeliveriesOK, DeliveryOK, Receive, FirstStep, Kinds
<1>3. ASSUME NEW q \in Procs, q # p PROVE DeliveryOK(q)'
  BY <1>3, Elsewhere DEF Inv, ProvidersOK, EventsOK, DeliveriesOK, Receive
<1>4. DeliveriesOK'
  BY <1>1, <1>2, <1>3 DEF Inv, DeliveriesOK, Receive
<1>5. ProvidersOK' /\ EventsOK' /\ LedgerOK'
  BY DEF Inv, ProvidersOK, EventsOK, LedgerOK, Receive, providers, ledger
<1>6. OrdersOK' /\ SubscriptionsOK'
  BY DEF Inv, OrdersOK, SubscriptionsOK, Receive, providers, cancellations
<1> QED
  BY <1>4, <1>5, <1>6 DEF Inv

\* An event that is skipped, refused or finished changes what is acknowledged.
LEMMA AnswerKeeps ==
    ASSUME Inv, \/ \E e \in Events : RefuseSignature(e) \/ SkipEvent(e)
                \/ \E p \in Procs : Finish(p)
    PROVE  Inv'
<1> USE DEF RefuseSignature, SkipEvent, Finish
<1>1. UNCHANGED <<charged, asked, ended, sent, status, linked, subs, invoices,
                  recorded, cancellations, ledger>>
  BY DEF providers, tables
<1>2. acked' \subseteq sent /\ processed' \subseteq recorded
  BY DEF Inv, ProvidersOK, EventsOK, DeliveriesOK, DeliveryOK, providers, tables
<1>3. faults' \in 0 .. MaxFaults
  BY Faulted
<1>4. ProvidersOK' /\ EventsOK' /\ LedgerOK'
  BY <1>1, <1>2, <1>3 DEF Inv, ProvidersOK, EventsOK, LedgerOK, ledger
<1>5. OrdersOK' /\ SubscriptionsOK'
  BY <1>1 DEF Inv, OrdersOK, SubscriptionsOK, cancellations
<1>6. DeliveriesOK'
  BY <1>1, DeliveriesKept, Leaves
<1> QED
  BY <1>4, <1>5, <1>6 DEF Inv

\* A statement that only reads: PayPal is asked, the order is found or is not
\* pending, the handler fails, or the server dies.
LEMMA ReadKeeps ==
    ASSUME Inv, NEW p \in Procs,
           \/ AskPayPal(p) \/ FindOrder(p) \/ ReadOrder(p) \/ FindSub(p)
           \/ Swallow(p) \/ Drop(p)
    PROVE  Inv'
<1> USE DEF AskPayPal, FindOrder, ReadOrder, FindSub, Swallow, Drop
<1>1. UNCHANGED <<providers, tables, cancellations, ledger>>
  OBVIOUS
<1>2. faults' \in 0 .. MaxFaults
  BY Faulted
<1>3. DeliveryOK(p) /\ UNCHANGED <<recorded, invoices>>
  BY <1>1 DEF Inv, DeliveriesOK, tables
<1>4. DeliveriesOK'
  <2>1. CASE AskPayPal(p)
    BY <2>1, <1>3, Goes DEF DeliveryOK, Labels
  <2>2. CASE FindOrder(p)
    BY <2>2, <1>3, Goes DEF DeliveryOK, Labels
  <2>3. CASE ReadOrder(p)
    BY <2>3, <1>3, Goes DEF DeliveryOK, Labels
  <2>4. CASE FindSub(p) /\ GoTo(p, "finish")
    BY <2>4, <1>3, Goes DEF Labels
  <2>5. CASE FindSub(p) /\ ~GoTo(p, "finish")
    <3>1. PICK row \in Events :
             /\ row.bill = OrderOf(job[p].bill)
             /\ target' = [target EXCEPT ![p] = row]
             /\ pc' = [pc EXCEPT ![p] = IF job[p].kind = "renewal"
                                        THEN "invoice" ELSE "cancelSub"]
             /\ UNCHANGED job
      BY <2>5
    <3>2. job[p] \in Events /\ job[p].kind \in {"renewal", "deleted"}
      BY <2>5, <1>3 DEF Inv, ProvidersOK, EventsOK, DeliveryOK
    <3>3. job[p].kind = "deleted" => OrderOf(job[p].bill) = job[p].bill
      BY <3>2, EventIsOf, TermsOfBill
    <3>4. DeliveryOK(p)'
      BY <3>1, <3>2, <3>3, <1>3, <2>5 DEF Inv, DeliveriesOK, DeliveryOK
    <3>5. ASSUME NEW q \in Procs, q # p PROVE DeliveryOK(q)'
      BY <3>1, <3>5, <1>3, Elsewhere DEF Inv, ProvidersOK, EventsOK, DeliveriesOK
    <3> QED
      BY <3>1, <3>4, <3>5 DEF Inv, DeliveriesOK, Labels
  <2>6. CASE Swallow(p)
    BY <2>6, <1>3, Goes DEF Labels
  <2>7. CASE Drop(p)
    BY <2>7, <1>3, Leaves
  <2> QED
    BY <2>1, <2>2, <2>3, <2>4, <2>5, <2>6, <2>7
<1> QED
  BY <1>1, <1>2, <1>4, RestKept DEF Inv

\* The row of a subscription is created and linked by an event of its order,
\* and cancelled by the event of its end.
LEMMA SubscriptionKeeps ==
    ASSUME Inv, NEW p \in Procs, CreateSub(p) \/ LinkSub(p) \/ CancelSub(p)
    PROVE  Inv'
<1> USE DEF CreateSub, LinkSub, CancelSub
<1>1. /\ DeliveryOK(p) /\ UNCHANGED <<providers, status, invoices, recorded, processed,
                                      cancellations, faults, ledger>>
      /\ job[p] \in recorded /\ job[p] \in sent /\ job[p] \in Events
  BY DEF Inv, ProvidersOK, EventsOK, DeliveriesOK, DeliveryOK
<1>2. SubscriptionsOK'
  <2>1. CASE CreateSub(p)
    BY <2>1, <1>1 DEF Inv, SubscriptionsOK, providers, cancellations
  <2>2. CASE LinkSub(p)
    BY <2>2, <1>1 DEF Inv, SubscriptionsOK, providers, cancellations
  <2>3. CASE CancelSub(p)
    <3>1. target[p] \in Events /\ target[p].bill \in ended
      BY <2>3, <1>1 DEF Inv, ProvidersOK, DeliveryOK
    <3> QED
      BY <2>3, <3>1, <1>1 DEF Inv, SubscriptionsOK, providers, cancellations
  <2> QED
    BY <2>1, <2>2, <2>3
<1>3. DeliveriesOK'
  BY <1>1, Goes DEF DeliveryOK, Labels
<1>4. ProvidersOK' /\ EventsOK' /\ OrdersOK' /\ LedgerOK'
  BY <1>1 DEF Inv, ProvidersOK, EventsOK, OrdersOK, LedgerOK, providers, cancellations, ledger
<1> QED
  BY <1>2, <1>3, <1>4 DEF Inv

\* Only a pending order, which has no invoice, gets one; a renewal is no order.
\* Both were paid.
LEMMA InvoiceKeeps ==
    ASSUME Inv, NEW p \in Procs, MarkPaid(p) \/ IssueInvoice(p)
    PROVE  Inv'
<1> USE DEF MarkPaid, IssueInvoice
<1>1. /\ DeliveryOK(p) /\ job[p] \in sent /\ job[p] \in Events
      /\ UNCHANGED <<providers, linked, subs, recorded, processed, cancellations, ledger>>
  BY DEF Inv, ProvidersOK, EventsOK, DeliveriesOK, DeliveryOK
<1>2. job[p].bill \in Bills /\ job[p].bill \in charged
  BY <1>1, EventIsOf DEF Inv, ProvidersOK, DeliveryOK
<1>3. \A b \in Bills : invoices[b] > 0 => invoices'[b] > 0
  BY <1>2 DEF Inv, OrdersOK
<1>4. pc'[p] \in {"openAccount", "recharge"} => invoices'[job[p].bill] > 0
  BY <1>1, <1>2 DEF Inv, OrdersOK, DeliveriesOK, GoTo
<1>5. OrdersOK'
  <2>1. CASE MarkPaid(p)
    <3>1. job[p].bill \in Orders
      BY <2>1, <1>1, EventIsOf DEF DeliveryOK
    <3>2. UNCHANGED <<charged, checkout>>
      BY <1>1 DEF providers, cancellations
    <3>3. CASE status[job[p].bill] = "pending"
      <4>1. /\ status' = [status EXCEPT ![job[p].bill] = "paid"]
            /\ invoices' = [invoices EXCEPT ![job[p].bill] = @ + 1]
        BY <2>1, <3>3
      <4> QED
        BY <4>1, <3>1, <3>2, <3>3, <1>2 DEF Inv, OrdersOK, Bills
    <3>4. CASE status[job[p].bill] # "pending"
      <4>1. UNCHANGED <<status, invoices>>
        BY <2>1, <3>4
      <4> QED
        BY <4>1, <3>2 DEF Inv, OrdersOK
    <3> QED
      BY <3>3, <3>4
  <2>2. CASE IssueInvoice(p)
    <3>1. job[p].bill \notin Orders
      BY <2>2, <1>1, EventIsOf, TermsAssumption DEF DeliveryOK
    <3> QED
      BY <2>2, <3>1, <1>1, <1>2 DEF Inv, OrdersOK, providers, cancellations
  <2> QED
    BY <2>1, <2>2
<1>6. faults' \in 0 .. MaxFaults
  BY Faulted
<1>7. DeliveriesOK'
  <2>1. GoTo(p, "openAccount") \/ GoTo(p, "finish")
    OBVIOUS
  <2>2. GoTo(p, "openAccount") => pc'[p] = "openAccount"
    BY DEF GoTo, Inv, DeliveriesOK
  <2> QED
    BY <2>1, <2>2, <1>1, <1>3, <1>4, Goes DEF Labels
<1>8. ProvidersOK' /\ EventsOK' /\ SubscriptionsOK'
  BY <1>1 DEF Inv, ProvidersOK, EventsOK, SubscriptionsOK, providers, cancellations
<1>9. LedgerOK'
  BY <1>1, <1>3, <1>6 DEF Inv, LedgerOK, ledger
<1> QED
  BY <1>5, <1>7, <1>8, <1>9 DEF Inv

\* A recharge adds to two columns of the account.
LEMMA RechargedColumns ==
    ASSUME NEW e \in Events, NEW a \in Billing!Columns
    PROVE  Billing!Moved(RechargeOf(e), a) \in Billing!Columns
<1>1. RechargeOf(e).op = "recharge" /\ RechargeOf(e).amount \in Int
  BY EventIsOf, TermsOfBill DEF RechargeOf
<1>2. Billing!Moved(RechargeOf(e), a) =
         [a EXCEPT !.balance = @ + RechargeOf(e).amount,
                   !.totalRecharged = @ + RechargeOf(e).amount]
  BY <1>1 DEF Billing!Moved
<1>3. ASSUME NEW n \in Int
      PROVE  [a EXCEPT !.balance = @ + n, !.totalRecharged = @ + n] \in Billing!Columns
  <2> DEFINE b == [a EXCEPT !.balance = @ + n]
  <2>1. a.balance + n \in Int /\ a.totalRecharged + n \in Int
    BY DEF Billing!Columns
  <2>2. b \in Billing!Columns
    BY <2>1 DEF Billing!Columns
  <2>3. [b EXCEPT !.totalRecharged = a.totalRecharged + n] \in Billing!Columns
    BY <2>1, <2>2 DEF Billing!Columns
  <2> QED
    BY <2>3
<1>4. [a EXCEPT !.balance = @ + RechargeOf(e).amount,
                !.totalRecharged = @ + RechargeOf(e).amount] \in Billing!Columns
  BY <1>1, <1>3
<1> QED
  BY <1>2, <1>4

\* The account is opened, and credited once, for a bill that has an invoice.
LEMMA CreditKeeps ==
    ASSUME Inv, NEW p \in Procs, OpenAccount(p) \/ Recharge(p)
    PROVE  Inv'
<1> USE DEF OpenAccount, Recharge
<1>1. DeliveryOK(p) /\ job[p] \in Events
  BY DEF Inv, ProvidersOK, EventsOK, DeliveriesOK, DeliveryOK
<1>2. UNCHANGED <<providers, tables, cancellations, faults>>
  OBVIOUS
<1>3. LedgerOK'
  <2>1. TermsOf(job[p].bill).user \in Users /\ job[p].bill \in Bills
    BY <1>1, EventIsOf, TermsOfBill
  <2>2. CASE OpenAccount(p)
    BY <2>1, <2>2, <1>2 DEF Inv, LedgerOK, Billing!Open, Billing!Empty, Billing!Columns,
                            ledger, tables
  <2>3. CASE Recharge(p)
    <3>1. invoices[job[p].bill] > 0
      BY <2>3, <1>1 DEF DeliveryOK
    <3>2. RechargeOf(job[p]).user \in Users /\ RechargeOf(job[p]).key = job[p].bill
      BY <2>1 DEF RechargeOf, KeyOf
    <3>3. account[RechargeOf(job[p]).user] \in Billing!Columns
      BY <3>2 DEF Inv, LedgerOK
    <3>4. Billing!Moved(RechargeOf(job[p]), account[RechargeOf(job[p]).user])
             \in Billing!Columns
      BY <3>3, <1>1, RechargedColumns
    <3>5. CASE Billing!Apply(RechargeOf(job[p]))
      BY <3>1, <3>2, <3>4, <3>5, <2>1, <1>2 DEF Inv, LedgerOK, Billing!Apply, tables
    <3>6. CASE UNCHANGED ledger
      BY <3>6, <1>2 DEF Inv, LedgerOK, ledger, tables
    <3> QED
      BY <2>3, <3>5, <3>6
  <2> QED
    BY <2>2, <2>3
<1>4. DeliveriesOK'
  BY <1>1, <1>2, Goes DEF DeliveryOK, Labels, tables
<1>5. ProvidersOK' /\ EventsOK' /\ OrdersOK' /\ SubscriptionsOK'
  BY <1>2 DEF Inv, ProvidersOK, EventsOK, OrdersOK, SubscriptionsOK,
              providers, tables, cancellations
<1> QED
  BY <1>3, <1>4, <1>5 DEF Inv

-----------------------------------------------------------------------------
\* Nobody has paid anything, nothing was sent and no delivery is in flight.
LEMMA InitInv == Init => Inv
<1> SUFFICES ASSUME Init PROVE Inv
  OBVIOUS
<1> USE DEF Init
<1>1. ProvidersOK /\ EventsOK
  BY DEF ProvidersOK, EventsOK
<1>2. OrdersOK
  <2>1. \A b \in Bills : invoices[b] = 0
    OBVIOUS
  <2>2. \A o \in Orders : status[o] = "none" /\ checkout[o] = "idle" /\ o \in Bills
    BY DEF Bills
  <2>3. \A o \in Orders : invoices[o] = 0
    BY <2>1, <2>2
  <2> QED
    BY <2>1, <2>2, <2>3 DEF OrdersOK
<1>3. SubscriptionsOK
  BY DEF SubscriptionsOK
<1>4. DeliveriesOK
  BY DEF DeliveriesOK, DeliveryOK, Labels
<1>5. LedgerOK
  BY FaultsAssumption DEF LedgerOK, Billing!Init, Billing!Empty, Billing!Columns
<1> QED
  BY <1>1, <1>2, <1>3, <1>4, <1>5 DEF Inv

\* Every step of the providers, the users and the deliveries keeps Inv.
LEMMA NextInv == Inv /\ [Next]_vars => Inv'
<1> SUFFICES ASSUME Inv, [Next]_vars PROVE Inv'
  OBVIOUS
<1>1. CASE \E o \in Orders : Pay(o) \/ End(o)
  BY <1>1, PayKeeps, EndKeeps
<1>2. CASE \E r \in Renewals : Renew(r)
  BY <1>2, RenewKeeps
<1>3. CASE \E e \in Events : SendCopy(e)
  BY <1>3, SendCopyKeeps
<1>4. CASE \E o \in Orders : \/ CreateOrder(o) \/ StripeSession(o) \/ PayPalOrder(o)
                             \/ AnswerCheckout(o) \/ CheckoutDrop(o)
  BY <1>4, CheckoutKeeps
<1>5. CASE \E o \in Orders : \/ ReadCancelled(o) \/ FindChannel(o) \/ AskProvider(o)
                             \/ CancelLocally(o) \/ CancelDrop(o)
  BY <1>5, CancellationKeeps
<1>6. CASE \E e \in Events : RefuseSignature(e) \/ SkipEvent(e)
  BY <1>6, AnswerKeeps
<1>7. CASE \E e \in Events, p \in Procs : Receive(p, e)
  BY <1>7, ReceiveKeeps
<1>8. CASE \E p \in Procs : Handle(p) \/ Swallow(p) \/ Drop(p)
  BY <1>8, ReadKeeps, SubscriptionKeeps, InvoiceKeeps, CreditKeeps, AnswerKeeps DEF Handle
<1>9. CASE UNCHANGED vars
  <2>1. ProvidersOK' /\ EventsOK' /\ OrdersOK' /\ SubscriptionsOK' /\ LedgerOK'
    BY <1>9, RestKept DEF Inv, LedgerOK, vars
  <2>2. DeliveriesOK'
    BY <1>9, DeliveriesKept DEF vars, tables
  <2> QED
    BY <2>1, <2>2 DEF Inv
<1> QED
  BY <1>1, <1>2, <1>3, <1>4, <1>5, <1>6, <1>7, <1>8, <1>9 DEF Next, Deliver

\* Inv holds in every state.
LEMMA InvHolds == Spec => []Inv
BY InitInv, NextInv, PTL DEF Spec

-----------------------------------------------------------------------------
\* Every variable keeps to its type, whatever the providers send and however
\* the handlers of order.service.ts interleave.
THEOREM TypeCorrect == Spec => []TypeOK
<1>1. Inv => TypeOK
  BY DEF Inv, TypeOK, ProvidersOK, EventsOK, OrdersOK, SubscriptionsOK, DeliveriesOK,
         LedgerOK, Labels
<1> QED
  BY <1>1, InvHolds, PTL

\* However many events report a payment and however many handle it at once, an
\* order that is paid has one invoice (handlePaymentSuccess).
THEOREM OneInvoice == Spec => []OneInvoicePerOrder
<1>1. Inv => OneInvoicePerOrder
  BY DEF Inv, OrdersOK, OneInvoicePerOrder
<1> QED
  BY <1>1, InvHolds, PTL

\* Tokens are credited only for a bill that has an invoice, whatever fails
\* between the invoice and the recharge.
THEOREM CreditIsSold == Spec => []CreditedIsInvoiced
<1>1. Inv => CreditedIsInvoiced
  BY DEF Inv, LedgerOK, CreditedIsInvoiced
<1> QED
  BY <1>1, InvHolds, PTL

\* Nothing is credited, and nothing invoiced, that a provider was not paid for.
THEOREM CreditIsPaid == Spec => [](applied \subseteq charged)
<1>1. Inv => applied \subseteq charged
  BY DEF Inv, LedgerOK, OrdersOK
<1> QED
  BY <1>1, InvHolds, PTL

-----------------------------------------------------------------------------
(* What is cancelled is stopped *)

\* Delivery p may still link its event's row to an order.
Linking(p) == pc[p] \in {"askPayPal", "findOrder", "createSub", "linkSub"}

\* Event e was not handled, or is being handled, and its row not linked.
Unlinked(e) == e \notin recorded \/ \E p \in Procs : Linking(p) /\ job[p] = e

\* No two deliveries handle one event.
OneDeliveryEach ==
    \A p, q \in Procs : p # q /\ pc[p] # "idle" /\ pc[q] # "idle" => job[p] # job[q]

\* A row that an order was once linked to is linked by nobody again; so a
\* cancellation that finds its row without an order finds it replaced, and
\* leaves it so.
Stops ==
    /\ OneDeliveryEach
    /\ \A o \in Orders :
         /\ cancelPc[o] # "idle" => linked[o] # None
         /\ cancelPc[o] = "local" => o \in asked \/ Replaced(cancelRow[o])
    /\ \A e \in Events : Unlinked(e) =>
         /\ \A o \in Orders : linked[o] # e /\ cancelRow[o] # e
         /\ subs[e] = "cancelled" => e.bill \in asked \cup ended
    /\ CancelledIsStopped

\* A step that neither links a row nor goes on with a cancellation, and cancels
\* only the rows of what has ended.
LEMMA StopsKept ==
    ASSUME Inv, Stops, OneDeliveryEach',
           UNCHANGED <<linked, cancelPc, cancelRow>>,
           asked \subseteq asked', ended \subseteq ended',
           \A e \in Events : Unlinked(e)' => Unlinked(e),
           \A e \in Events :
             subs'[e] = "cancelled" => subs[e] = "cancelled" \/ e.bill \in ended
    PROVE  Stops'
<1>1. CancelledIsStopped'
  BY DEF Stops, CancelledIsStopped, Replaced
<1>2. ASSUME NEW o \in Orders, cancelPc'[o] = "local"
      PROVE  o \in asked' \/ Replaced(cancelRow[o])'
  BY <1>2 DEF Stops, Replaced
<1> QED
  BY <1>1, <1>2 DEF Stops

\* A delivery moves within the handler of its event, or leaves it.
LEMMA MovesOn ==
    ASSUME Inv, Stops, NEW p \in Procs, pc[p] # "idle", UNCHANGED recorded,
           \/ \E label \in Labels : GoTo(p, label)
           \/ Leave(p)
           \/ UNCHANGED job /\ \E label \in Labels : pc' = [pc EXCEPT ![p] = label],
           Linking(p)' => Linking(p)
    PROVE  OneDeliveryEach' /\ \A e \in Events : Unlinked(e)' => Unlinked(e)
<1>1. \A q \in Procs \ {p} : pc'[q] = pc[q] /\ job'[q] = job[q]
  BY DEF GoTo, Leave, Inv, DeliveriesOK
<1>2. pc'[p] # "idle" => job'[p] = job[p]
  BY DEF GoTo, Leave, Inv, DeliveriesOK
<1>3. OneDeliveryEach'
  BY <1>1, <1>2 DEF Stops, OneDeliveryEach
<1>4. Linking(p)' => pc'[p] # "idle"
  BY DEF Linking
<1>5. ASSUME NEW e \in Events, Unlinked(e)' PROVE Unlinked(e)
  <2>1. \A q \in Procs : Linking(q)' /\ job'[q] = e => Linking(q) /\ job[q] = e
    BY <1>1, <1>2, <1>4 DEF Linking
  <2> QED
    BY <1>5, <2>1 DEF Unlinked
<1> QED
  BY <1>3, <1>5

\* A row is linked by the delivery of its event, which then links it no more.
LEMMA LinkStops ==
    ASSUME Inv, Stops, NEW p \in Procs, LinkSub(p)
    PROVE  Stops'
<1>0. PICK d : d = job[p]
  OBVIOUS
<1>1. /\ DeliveryOK(p) /\ Linking(p) /\ d \in recorded /\ d \in Events
      /\ d.bill \in Orders /\ Unlinked(d)
  BY <1>0, EventIsOf DEF Inv, ProvidersOK, EventsOK, DeliveriesOK, DeliveryOK, LinkSub,
                         Linking, Unlinked
<1>2. /\ linked' = [linked EXCEPT ![d.bill] = d] /\ GoTo(p, "readOrder")
      /\ UNCHANGED <<providers, subs, recorded, cancelPc, cancelRow>>
  BY <1>0 DEF LinkSub, cancellations
<1>3. pc'[p] = "readOrder" /\ ~Linking(p)'
  BY <1>2 DEF GoTo, Inv, DeliveriesOK, Linking
<1>4. OneDeliveryEach' /\ \A e \in Events : Unlinked(e)' => Unlinked(e)
  BY <1>2, <1>3, MovesOn DEF LinkSub, Labels
<1>5. ~Unlinked(d)'
  <2>1. \A q \in Procs \ {p} : Linking(q)' => pc[q] # "idle" /\ job'[q] = job[q]
    BY <1>2 DEF GoTo, Linking, Inv, DeliveriesOK
  <2>2. \A q \in Procs \ {p} : Linking(q)' => job'[q] # d
    BY <1>0, <2>1 DEF Stops, OneDeliveryEach, LinkSub
  <2> QED
    BY <1>1, <1>2, <1>3, <2>2 DEF Unlinked
<1>6. \A o \in Orders : linked'[o] = linked[o] \/ (linked'[o] = d /\ d.bill = o)
  BY <1>2 DEF Inv, SubscriptionsOK
<1>7. ASSUME NEW e \in Events, Unlinked(e)'
      PROVE  /\ \A o \in Orders : linked'[o] # e /\ cancelRow'[o] # e
             /\ subs'[e] = "cancelled" => e.bill \in asked' \cup ended'
  BY <1>2, <1>4, <1>5, <1>6, <1>7 DEF Stops, providers
<1>8. ASSUME NEW e \in Events, e # d, Replaced(e) PROVE Replaced(e)'
  BY <1>1, <1>2, <1>8, EventsAssumption DEF Replaced, Inv, SubscriptionsOK
<1>9. ASSUME NEW o \in Orders
      PROVE  /\ cancelPc'[o] # "idle" => linked'[o] # None
             /\ cancelPc'[o] = "local" => o \in asked' \/ Replaced(cancelRow[o])'
  <2>1. cancelPc[o] # "idle" => cancelRow[o] \in Events /\ cancelRow[o] # d
    BY <1>1 DEF Inv, SubscriptionsOK, Stops
  <2>2. Replaced(cancelRow[o])' <=> linked'[cancelRow[o].bill] \notin {cancelRow[o], None}
    BY <1>2 DEF Replaced
  <2>3. cancelPc[o] = "local" /\ Replaced(cancelRow[o]) => Replaced(cancelRow[o])'
    BY <1>2, <2>1, <1>8 DEF Replaced
  <2>4. linked[o] # None => linked'[o] # None
    BY <1>1, <1>6, EventsAssumption
  <2> QED
    BY <1>2, <2>3, <2>4 DEF Stops, providers
<1>10. CancelledIsStopped'
  <2> SUFFICES ASSUME NEW e \in Events, subs[e] = "cancelled"
               PROVE  e.bill \in asked \cup ended \/ Replaced(e)'
    BY <1>2 DEF CancelledIsStopped, providers
  <2>1. CASE e = d
    BY <1>1, <2>1 DEF Stops
  <2>2. CASE e # d
    BY <1>8, <2>2 DEF Stops, CancelledIsStopped
  <2> QED
    BY <2>1, <2>2
<1> QED
  BY <1>4, <1>7, <1>9, <1>10 DEF Stops

\* A cancellation asks the provider, unless the row it read was replaced.
LEMMA CancellationStops ==
    ASSUME Inv, Stops, NEW o \in Orders,
           \/ ReadCancelled(o) \/ FindChannel(o) \/ AskProvider(o)
           \/ CancelLocally(o) \/ CancelDrop(o)
    PROVE  Stops'
<1> USE DEF ReadCancelled, FindChannel, AskProvider, CancelLocally, CancelDrop
<1>1. UNCHANGED <<ended, linked, recorded, deliveries>> /\ asked \subseteq asked'
  BY DEF providers, tables
<1>2. OneDeliveryEach' /\ \A e \in Events : Unlinked(e)' <=> Unlinked(e)
  BY <1>1 DEF Stops, OneDeliveryEach, Unlinked, Linking, deliveries
<1>3. \A e \in Events : Replaced(e)' <=> Replaced(e)
  BY <1>1 DEF Replaced
<1>4. \A d \in Orders \ {o} : cancelPc'[d] = cancelPc[d] /\ cancelRow'[d] = cancelRow[d]
  BY DEF Inv, SubscriptionsOK
<1>5. cancelPc[o] # "idle" =>
         /\ cancelRow[o] \in Events /\ cancelRow[o].bill = o /\ ~Unlinked(cancelRow[o])
         /\ linked[o] # None
  BY DEF Inv, SubscriptionsOK, Stops
<1>6. /\ cancelRow'[o] \in {cancelRow[o], linked[o], None}
      /\ cancelPc'[o] # "idle" => cancelRow'[o] \in Events /\ linked[o] # None
  BY <1>5 DEF Inv, SubscriptionsOK
<1>7. cancelPc'[o] = "local" => o \in asked' \/ Replaced(cancelRow'[o])
  BY <1>1, <1>3, <1>5 DEF Inv, SubscriptionsOK, Stops, Replaced
<1>8. ASSUME NEW e \in Events, subs'[e] = "cancelled", subs[e] # "cancelled"
      PROVE  ~Unlinked(e) /\ (e.bill \in asked \/ Replaced(e))
  BY <1>5, <1>8 DEF Inv, SubscriptionsOK, Stops, tables
<1>9. ASSUME NEW e \in Events, Unlinked(e)'
      PROVE  /\ \A d \in Orders : linked'[d] # e /\ cancelRow'[d] # e
             /\ subs'[e] = "cancelled" => e.bill \in asked' \cup ended'
  BY <1>1, <1>2, <1>4, <1>6, <1>8, <1>9, EventsAssumption DEF Stops
<1>10. CancelledIsStopped'
  BY <1>1, <1>3, <1>8 DEF Stops, CancelledIsStopped
<1>11. ASSUME NEW d \in Orders
       PROVE  /\ cancelPc'[d] # "idle" => linked'[d] # None
              /\ cancelPc'[d] = "local" => d \in asked' \/ Replaced(cancelRow[d])'
  <2>1. CASE d = o
    BY <1>1, <1>6, <1>7, <2>1 DEF Replaced
  <2>2. CASE d # o
    BY <1>1, <1>4, <2>2 DEF Stops, Replaced
  <2> QED
    BY <2>1, <2>2
<1> QED
  BY <1>2, <1>9, <1>10, <1>11 DEF Stops

\* Whatever else happens leaves rows linked and cancellations where they are.
LEMMA StepStops ==
    ASSUME Inv, Stops, [Next]_vars
    PROVE  Stops'
<1>1. CASE \E o \in Orders : \/ ReadCancelled(o) \/ FindChannel(o) \/ AskProvider(o)
                             \/ CancelLocally(o) \/ CancelDrop(o)
  BY <1>1, CancellationStops
<1>2. CASE \E p \in Procs : LinkSub(p)
  BY <1>2, LinkStops
<1>3. CASE \/ \E o \in Orders : \/ CreateOrder(o) \/ StripeSession(o) \/ PayPalOrder(o)
                                \/ AnswerCheckout(o) \/ CheckoutDrop(o) \/ Pay(o) \/ End(o)
           \/ \E r \in Renewals : Renew(r)
           \/ \E e \in Events : SendCopy(e) \/ RefuseSignature(e) \/ SkipEvent(e)
           \/ UNCHANGED vars
  <2>1. /\ UNCHANGED <<linked, cancelPc, cancelRow, subs, recorded, deliveries>>
        /\ asked \subseteq asked' /\ ended \subseteq ended'
    BY <1>3 DEF CreateOrder, StripeSession, PayPalOrder, OpenSession, AnswerCheckout,
                CheckoutDrop, Pay, End, Renew, SendCopy, RefuseSignature, SkipEvent,
                vars, providers, tables, cancellations
  <2>2. OneDeliveryEach' /\ \A e \in Events : Unlinked(e)' => Unlinked(e)
    BY <2>1 DEF Stops, OneDeliveryEach, Unlinked, Linking, deliveries
  <2> QED
    BY <2>1, <2>2, StopsKept
<1>4. ASSUME NEW p \in Procs, NEW e \in Events, Receive(p, e) PROVE Stops'
  <2>1. /\ e \notin recorded /\ recorded' = recorded \cup {e}
        /\ UNCHANGED <<linked, cancelPc, cancelRow, subs, asked, ended>>
        /\ pc' = [pc EXCEPT ![p] = FirstStep(e.kind)] /\ job' = [job EXCEPT ![p] = e]
    BY <1>4 DEF Receive, providers, cancellations
  <2>2. job'[p] = e /\ \A q \in Procs \ {p} : pc'[q] = pc[q] /\ job'[q] = job[q]
    BY <2>1 DEF Inv, DeliveriesOK
  <2>3. \A q \in Procs : pc[q] # "idle" => job[q] # e
    BY <2>1 DEF Inv, DeliveriesOK, DeliveryOK
  <2>4. OneDeliveryEach'
    BY <2>2, <2>3 DEF Stops, OneDeliveryEach
  <2>5. \A d \in Events : Unlinked(d)' => Unlinked(d)
    BY <2>1, <2>2 DEF Unlinked, Linking
  <2> QED
    BY <2>1, <2>4, <2>5, StopsKept
<1>5. ASSUME NEW p \in Procs,
             \/ AskPayPal(p) \/ FindOrder(p) \/ CreateSub(p) \/ ReadOrder(p) \/ MarkPaid(p)
             \/ OpenAccount(p) \/ Recharge(p) \/ IssueInvoice(p) \/ CancelSub(p)
             \/ FindSub(p) \/ Finish(p) \/ Swallow(p) \/ Drop(p)
      PROVE  Stops'
  <2> USE DEF AskPayPal, FindOrder, CreateSub, ReadOrder, MarkPaid, OpenAccount, Recharge,
              IssueInvoice, CancelSub, FindSub, Finish, Swallow, Drop
  <2>1. /\ UNCHANGED <<linked, cancelPc, cancelRow, asked, ended, recorded>>
        /\ pc[p] # "idle"
    BY <1>5 DEF providers, tables, cancellations
  <2>2. \/ \E label \in Labels : GoTo(p, label)
        \/ Leave(p)
        \/ UNCHANGED job /\ \E label \in Labels : pc' = [pc EXCEPT ![p] = label]
    BY <1>5 DEF Labels
  <2>3. Linking(p)' => Linking(p)
    BY <1>5 DEF GoTo, Leave, Linking, Inv, DeliveriesOK
  <2>4. \A e \in Events :
          subs'[e] = "cancelled" => subs[e] = "cancelled" \/ e.bill \in ended
    <3>1. CASE CancelSub(p)
      <4>1. target[p] \in Events /\ target[p].bill \in ended
        BY <3>1 DEF Inv, ProvidersOK, EventsOK, DeliveriesOK, DeliveryOK
      <4> QED
        BY <3>1, <4>1 DEF Inv, SubscriptionsOK
    <3>2. CASE CreateSub(p)
      BY <3>2 DEF Inv, SubscriptionsOK
    <3>3. CASE ~CancelSub(p) /\ ~CreateSub(p)
      BY <1>5, <3>3 DEF tables
    <3> QED
      BY <3>1, <3>2, <3>3
  <2> QED
    BY <2>1, <2>2, <2>3, <2>4, MovesOn, StopsKept
<1> QED
  BY <1>1, <1>2, <1>3, <1>4, <1>5 DEF Next, Deliver, Handle

\* A subscription that is shown as cancelled is one the provider was asked to
\* stop, or has ended, or a row that another one replaced in its order while it
\* was being cancelled (cancelSubscription, handleSubscriptionDeleted).
THEOREM CancelledStops == Spec => []CancelledIsStopped
<1>1. Init => Stops
  <2> SUFFICES ASSUME Init PROVE Stops
    OBVIOUS
  <2>1. \A e \in Events : e # None /\ subs[e] = "none"
    BY EventsAssumption DEF Init
  <2>2. \A o \in Orders : linked[o] = None /\ cancelPc[o] = "idle" /\ cancelRow[o] = None
    BY DEF Init
  <2>3. \A p \in Procs : pc[p] = "idle"
    BY DEF Init
  <2> QED
    BY <2>1, <2>2, <2>3 DEF Stops, OneDeliveryEach, CancelledIsStopped
<1>2. Stops => CancelledIsStopped
  BY DEF Stops
<1> QED
  BY <1>1, <1>2, InitInv, NextInv, StepStops, PTL DEF Spec

-----------------------------------------------------------------------------
(* What a user is credited, to the token *)

\* A user was credited the tokens of the bills that were applied, neither more
\* nor less, and only after the account was opened, which starts it at zero.
Credited ==
    /\ IsFiniteSet(charged)
    /\ \A b \in applied : TermsOf(b).user \in open
    /\ \A u \in Users :
         account[u].totalRecharged = SumFunctionOnSet(Tokens, BillsOf(u, applied))

\* Bills that were paid, or applied, are finitely many, and so are a user's.
LEMMA BillsAreFinite ==
    ASSUME Inv, Credited, NEW u
    PROVE  /\ applied \subseteq charged
           /\ IsFiniteSet(BillsOf(u, charged)) /\ IsFiniteSet(BillsOf(u, applied))
<1>1. applied \subseteq charged
  BY DEF Inv, LedgerOK, OrdersOK
<1>2. BillsOf(u, charged) \subseteq charged /\ BillsOf(u, applied) \subseteq charged
  BY <1>1 DEF BillsOf
<1> QED
  BY <1>1, <1>2, FS_Subset DEF Credited

\* Every bill is for a number of tokens.
LEMMA TokensOfBill ==
    ASSUME NEW b \in Bills
    PROVE  Tokens[b] = TermsOf(b).tokens /\ Tokens[b] \in Nat
BY TermsOfBill DEF Tokens

\* An account that is opened holds nothing, and none of its bills was applied.
LEMMA OpenCredits ==
    ASSUME Inv, Credited, NEW v \in Users, Billing!Open(v), UNCHANGED charged
    PROVE  Credited'
<1>1. /\ v \notin open /\ open' = open \cup {v} /\ applied' = applied
      /\ account' = [account EXCEPT ![v] = Billing!Empty]
  BY DEF Billing!Open
<1>2. ASSUME NEW u \in Users
      PROVE  account'[u].totalRecharged = SumFunctionOnSet(Tokens, BillsOf(u, applied))
  <2>1. CASE u = v
    <3>1. BillsOf(u, applied) = {}
      BY <1>1, <2>1 DEF Credited, BillsOf
    <3>2. account'[u].totalRecharged = 0
      BY <1>1, <2>1 DEF Inv, LedgerOK, Billing!Empty
    <3> QED
      BY <3>1, <3>2, SumEmpty
  <2>2. CASE u # v
    BY <1>1, <2>2 DEF Inv, LedgerOK, Credited
  <2> QED
    BY <2>1, <2>2
<1> QED
  BY <1>1, <1>2 DEF Credited, BillsOf

\* A recharge adds its bill's tokens to those of the bills applied before.
LEMMA RechargeCredits ==
    ASSUME Inv, Credited, NEW e \in Events, Billing!Apply(RechargeOf(e)),
           UNCHANGED charged
    PROVE  Credited'
<1> DEFINE b == e.bill
           v == TermsOf(b).user
<1>1. b \in Bills /\ v \in Users /\ TermsOf(b).tokens \in Nat
  BY EventIsOf, TermsOfBill
<1>2. /\ RechargeOf(e).op = "recharge" /\ RechargeOf(e).user = v
      /\ RechargeOf(e).amount = TermsOf(b).tokens /\ RechargeOf(e).key = b
  BY DEF RechargeOf, KeyOf
<1>3. /\ b \notin applied /\ applied' = applied \cup {b} /\ open' = open /\ v \in open
      /\ account' = [account EXCEPT ![v] = Billing!Moved(RechargeOf(e), @)]
  BY <1>2 DEF Billing!Apply
<1>4. /\ account[v] \in Billing!Columns
      /\ Billing!Moved(RechargeOf(e), account[v]).totalRecharged
           = account[v].totalRecharged + TermsOf(b).tokens
  <2>1. account[v] \in Billing!Columns
    BY <1>1 DEF Inv, LedgerOK
  <2>2. Billing!Moved(RechargeOf(e), account[v])
          = [account[v] EXCEPT !.balance = @ + TermsOf(b).tokens,
                               !.totalRecharged = @ + TermsOf(b).tokens]
    BY <1>2 DEF Billing!Moved
  <2> QED
    BY <2>1, <2>2 DEF Billing!Columns
<1>5. ASSUME NEW u \in Users
      PROVE  account'[u].totalRecharged = SumFunctionOnSet(Tokens, BillsOf(u, applied'))
  <2>1. CASE u = v
    <3>1. BillsOf(u, applied') = BillsOf(u, applied) \cup {b}
      BY <1>3, <2>1 DEF BillsOf
    <3>2. b \notin BillsOf(u, applied) /\ IsFiniteSet(BillsOf(u, applied))
      BY <1>3, BillsAreFinite DEF BillsOf
    <3>3. \A x \in BillsOf(u, applied) : Tokens[x] \in Int
      BY TokensOfBill DEF BillsOf, Inv, LedgerOK
    <3>4. Tokens[b] = TermsOf(b).tokens /\ Tokens[b] \in Int
      BY <1>1, TokensOfBill
    <3>5. SumFunctionOnSet(Tokens, BillsOf(u, applied'))
            = Tokens[b] + SumFunctionOnSet(Tokens, BillsOf(u, applied))
      BY <3>1, <3>2, <3>3, <3>4, SumPut
    <3>6. account'[u].totalRecharged = account[u].totalRecharged + TermsOf(b).tokens
      BY <1>1, <1>3, <1>4, <2>1 DEF Inv, LedgerOK
    <3>7. account[u].totalRecharged = SumFunctionOnSet(Tokens, BillsOf(u, applied))
      BY DEF Credited
    <3>8. account[u].totalRecharged \in Int
      BY <1>4, <2>1 DEF Billing!Columns
    <3> QED
      BY <3>4, <3>5, <3>6, <3>7, <3>8
  <2>2. CASE u # v
    <3>1. BillsOf(u, applied') = BillsOf(u, applied)
      BY <1>3, <2>2 DEF BillsOf
    <3>2. account'[u] = account[u]
      BY <1>3, <2>2 DEF Inv, LedgerOK
    <3> QED
      BY <3>1, <3>2 DEF Credited
  <2> QED
    BY <2>1, <2>2
<1> QED
  BY <1>1, <1>3, <1>5 DEF Credited, BillsOf

\* A step charges at most one bill more, and moves tokens as the ledger
\* promises, or not at all.
LEMMA LedgerSteps ==
    ASSUME Inv, [Next]_vars
    PROVE  /\ \E x : charged' = charged \cup {x} \/ charged' = charged
           /\ \/ UNCHANGED ledger
              \/ UNCHANGED charged /\ \E u \in Users : Billing!Open(u)
              \/ UNCHANGED charged /\ \E e \in Events : Billing!Apply(RechargeOf(e))
<1>1. CASE \E o \in Orders : \/ CreateOrder(o) \/ StripeSession(o) \/ PayPalOrder(o)
                             \/ AnswerCheckout(o) \/ CheckoutDrop(o)
  BY <1>1 DEF CreateOrder, StripeSession, PayPalOrder, OpenSession, AnswerCheckout,
              CheckoutDrop, providers
<1>2. CASE \E o \in Orders : Pay(o) \/ End(o)
  BY <1>2 DEF Pay, End
<1>3. CASE \E o \in Orders : \/ ReadCancelled(o) \/ FindChannel(o) \/ AskProvider(o)
                             \/ CancelLocally(o) \/ CancelDrop(o)
  BY <1>3 DEF ReadCancelled, FindChannel, AskProvider, CancelLocally, CancelDrop, providers
<1>4. CASE \E r \in Renewals : Renew(r)
  BY <1>4 DEF Renew
<1>5. CASE \E e \in Events : SendCopy(e) \/ RefuseSignature(e) \/ SkipEvent(e)
  BY <1>5 DEF SendCopy, RefuseSignature, SkipEvent, providers
<1>6. CASE \E p \in Procs, e \in Events : Receive(p, e)
  BY <1>6 DEF Receive, providers
<1>7. CASE \E p \in Procs : \/ AskPayPal(p) \/ FindOrder(p) \/ CreateSub(p) \/ LinkSub(p)
                            \/ ReadOrder(p) \/ MarkPaid(p) \/ FindSub(p) \/ IssueInvoice(p)
                            \/ CancelSub(p) \/ Finish(p) \/ Swallow(p) \/ Drop(p)
  BY <1>7 DEF AskPayPal, FindOrder, CreateSub, LinkSub, ReadOrder, MarkPaid, FindSub,
              IssueInvoice, CancelSub, Finish, Swallow, Drop, providers
<1>8. CASE \E p \in Procs : OpenAccount(p) \/ Recharge(p)
  <2>1. PICK p \in Procs : OpenAccount(p) \/ Recharge(p)
    BY <1>8
  <2>2. job[p] \in Events /\ TermsOf(job[p].bill).user \in Users
    <3>1. pc[p] # "idle"
      BY <2>1 DEF OpenAccount, Recharge
    <3>2. job[p] \in Events
      BY <3>1 DEF Inv, ProvidersOK, EventsOK, DeliveriesOK, DeliveryOK
    <3> QED
      BY <3>2, EventIsOf, TermsOfBill
  <2> QED
    BY <2>1, <2>2 DEF OpenAccount, Recharge, providers
<1>9. CASE UNCHANGED vars
  BY <1>9 DEF vars, providers
<1> QED
  BY <1>1, <1>2, <1>3, <1>4, <1>5, <1>6, <1>7, <1>8, <1>9 DEF Next, Deliver, Handle

\* Nothing was paid, and nothing credited.
LEMMA InitCredited == Init => Credited
<1> SUFFICES ASSUME Init PROVE Credited
  OBVIOUS
<1>1. charged = {} /\ applied = {} /\ account = [u \in Users |-> Billing!Empty]
  BY DEF Init, Billing!Init
<1>2. ASSUME NEW u \in Users
      PROVE  account[u].totalRecharged = SumFunctionOnSet(Tokens, BillsOf(u, applied))
  <2>1. BillsOf(u, applied) = {}
    BY <1>1 DEF BillsOf
  <2> QED
    BY <1>1, <2>1, SumEmpty DEF Billing!Empty
<1> QED
  BY <1>1, <1>2, FS_EmptySet DEF Credited

\* Every step keeps the credit equal to the bills applied.
LEMMA NextCredited == Inv /\ Credited /\ [Next]_vars => Credited'
<1> SUFFICES ASSUME Inv, Credited, [Next]_vars PROVE Credited'
  OBVIOUS
<1>1. CASE UNCHANGED ledger
  <2>1. IsFiniteSet(charged')
    BY LedgerSteps, FS_AddElement DEF Credited
  <2> QED
    BY <1>1, <2>1 DEF Credited, BillsOf, ledger
<1>2. CASE UNCHANGED charged /\ \E u \in Users : Billing!Open(u)
  BY <1>2, OpenCredits
<1>3. CASE UNCHANGED charged /\ \E e \in Events : Billing!Apply(RechargeOf(e))
  BY <1>3, RechargeCredits
<1> QED
  BY <1>1, <1>2, <1>3, LedgerSteps

\* Both invariants hold in every state.
LEMMA CreditedHolds == Spec => [](Inv /\ Credited)
<1>1. Init => Inv /\ Credited
  BY InitInv, InitCredited
<1>2. (Inv /\ Credited) /\ [Next]_vars => (Inv /\ Credited)'
  BY NextInv, NextCredited
<1> QED
  BY <1>1, <1>2, PTL DEF Spec

\* A user is never credited more than was paid, in whatever order and number
\* the events of payments and renewals come (order.service.ts, rechargeTokens).
THEOREM CreditIsBounded == Spec => []NeverOverCredited
<1>1. Inv /\ Credited => NeverOverCredited
  <2> SUFFICES ASSUME Inv, Credited, NEW u \in Users
               PROVE  account[u].totalRecharged
                        <= SumFunctionOnSet(Tokens, BillsOf(u, charged))
    BY DEF NeverOverCredited
  <2>1. BillsOf(u, applied) \subseteq BillsOf(u, charged)
    BY BillsAreFinite DEF BillsOf
  <2>2. \A b \in BillsOf(u, charged) : Tokens[b] \in Nat
    BY TokensOfBill DEF BillsOf, Inv, ProvidersOK
  <2>3. SumFunctionOnSet(Tokens, BillsOf(u, applied))
          <= SumFunctionOnSet(Tokens, BillsOf(u, charged))
    BY <2>1, <2>2, BillsAreFinite, SumGrows
  <2> QED
    BY <2>3 DEF Credited
<1> QED
  BY <1>1, CreditedHolds, PTL

\* What the order service does to accounts is what the billing service
\* promises: it opens each once, and recharges once per bill.
THEOREM PaymentsUseTheLedger == Spec => Billing!Spec
<1>1. Init => Billing!Init
  BY DEF Init
<1>2. Inv /\ [Next]_vars => [Billing!Next]_(Billing!vars)
  <2> SUFFICES ASSUME Inv, [Next]_vars PROVE Billing!Next \/ UNCHANGED ledger
    BY DEF Billing!vars, ledger
  <2> QED
    BY LedgerSteps DEF Billing!Next
<1> QED
  BY <1>1, <1>2, InvHolds, PTL DEF Spec, Billing!Spec

-----------------------------------------------------------------------------
(* What a delivery owes, while nothing fails *)

\* The events that report the first payment of an order.
IsPayment(e) == e.kind \in {"checkout", "capture"}

\* A delivery that has marked its order paid, and has yet to credit it.
Crediting(p) == pc[p] \in {"openAccount", "recharge"}

\* A delivery takes its event to the end: it recharges an account that exists,
\* and ends with the order of a payment paid.
DeliveryServes(p) ==
    /\ pc[p] = "recharge" => TermsOf(job[p].bill).user \in open
    /\ pc[p] = "finish" /\ IsPayment(job[p]) => status[job[p].bill] = "paid"

\* Every event is processed or in a delivery's hands, and every paid order is
\* credited or in the hands of the one delivery that marked it.
Served ==
    /\ acked \subseteq recorded
    /\ \A e \in recorded \ processed : \E p \in Procs : pc[p] # "idle" /\ job[p] = e
    /\ \A e \in processed : IsPayment(e) => status[e.bill] = "paid"
    /\ \A p \in Procs : DeliveryServes(p)
    /\ \A o \in Orders : status[o] = "paid" /\ Tokens[o] > 0 =>
         o \in applied \/ \E p \in Procs : Crediting(p) /\ job[p].bill = o

\* Who was asked for money had an order before; the rest holds until something
\* fails.
Owing ==
    /\ \A o \in Orders : o \in charged => status[o] # "none"
    /\ faults = 0 => Served

\* A payment that has a row is of an order that exists.
LEMMA PaymentHasOrder ==
    ASSUME Inv, Owing, NEW e \in recorded, IsPayment(e)
    PROVE  e.bill \in Orders /\ status[e.bill] \in {"pending", "paid"}
<1>1. e \in sent /\ e \in Events
  BY DEF Inv, ProvidersOK, EventsOK
<1>2. e.bill \in Orders /\ e.bill \in charged
  BY <1>1, EventIsOf DEF IsPayment, Inv, ProvidersOK
<1> QED
  BY <1>2 DEF Owing, Inv, OrdersOK

\* A step counts the fault it commits.
LEMMA FaultCounts == ASSUME Inv, NEW kind, Fault(kind) PROVE faults' # 0
BY FaultsAssumption DEF Inv, LedgerOK, Fault

\* No step makes an order paid for, but of one whose checkout is open, and no
\* order ever disappears.
LEMMA OrdersStay ==
    ASSUME Inv, Owing, [Next]_vars
    PROVE  \A o \in Orders : o \in charged' => status'[o] # "none"
<1>1. CASE \E o \in Orders : \/ CreateOrder(o) \/ StripeSession(o) \/ PayPalOrder(o)
                             \/ AnswerCheckout(o) \/ CheckoutDrop(o)
  BY <1>1 DEF CreateOrder, StripeSession, PayPalOrder, OpenSession, AnswerCheckout,
              CheckoutDrop, providers, tables, Inv, OrdersOK, Owing
<1>2. CASE \E o \in Orders : Pay(o) \/ End(o)
  BY <1>2 DEF Pay, End, tables, Inv, OrdersOK, Owing
<1>3. CASE \E o \in Orders : \/ ReadCancelled(o) \/ FindChannel(o) \/ AskProvider(o)
                             \/ CancelLocally(o) \/ CancelDrop(o)
  BY <1>3 DEF ReadCancelled, FindChannel, AskProvider, CancelLocally, CancelDrop,
              providers, tables, Owing
<1>4. CASE \E r \in Renewals : Renew(r)
  BY <1>4, TermsAssumption DEF Renew, tables, Owing
<1>5. CASE \E e \in Events : SendCopy(e) \/ RefuseSignature(e) \/ SkipEvent(e)
  BY <1>5 DEF SendCopy, RefuseSignature, SkipEvent, providers, tables, Owing
<1>6. CASE \E p \in Procs, e \in Events : Receive(p, e)
  BY <1>6 DEF Receive, providers, Owing
<1>7. CASE \E p \in Procs : MarkPaid(p)
  BY <1>7 DEF MarkPaid, providers, Inv, OrdersOK, Owing
<1>8. CASE \E p \in Procs : \/ AskPayPal(p) \/ FindOrder(p) \/ CreateSub(p) \/ LinkSub(p)
                            \/ ReadOrder(p) \/ FindSub(p) \/ IssueInvoice(p)
                            \/ OpenAccount(p) \/ Recharge(p)
                            \/ CancelSub(p) \/ Finish(p) \/ Swallow(p) \/ Drop(p)
  BY <1>8 DEF AskPayPal, FindOrder, CreateSub, LinkSub, ReadOrder, FindSub, OpenAccount,
              IssueInvoice, Recharge, CancelSub, Finish, Swallow, Drop,
              providers, tables, Owing
<1>9. CASE UNCHANGED vars
  BY <1>9 DEF vars, providers, tables, Owing
<1> QED
  BY <1>1, <1>2, <1>3, <1>4, <1>5, <1>6, <1>7, <1>8, <1>9 DEF Next, Deliver, Handle

\* A step that no delivery takes, and that acknowledges nothing but recorded
\* events, leaves every event in the hands it is in.
LEMMA ServedKept ==
    ASSUME Inv, Served, UNCHANGED <<deliveries, recorded, processed, ledger>>,
           acked' \subseteq recorded,
           \A o \in Orders : status'[o] = "paid" <=> status[o] = "paid"
    PROVE  Served'
<1>1. \A e \in recorded : IsPayment(e) => e.bill \in Orders
  BY EventIsOf DEF Inv, ProvidersOK, EventsOK, IsPayment
<1>2. processed \subseteq recorded /\ \A p \in Procs : pc[p] # "idle" => job[p] \in recorded
  BY DEF Inv, EventsOK, DeliveriesOK, DeliveryOK
<1>3. \A p \in Procs : DeliveryServes(p)'
  BY <1>1, <1>2 DEF Served, DeliveryServes, deliveries, ledger
<1> QED
  BY <1>1, <1>2, <1>3 DEF Served, Crediting, deliveries, ledger

\* Delivery p goes on to another statement: it keeps its event, and goes to the
\* end only with the order of a payment paid.  An order it has marked paid it
\* goes on to credit.
LEMMA ServedGoes ==
    ASSUME Inv, Served, NEW p \in Procs, pc[p] # "idle",
           NEW label \in Labels \ {"idle"}, pc' = [pc EXCEPT ![p] = label],
           UNCHANGED <<job, recorded, processed, acked>>,
           open \subseteq open', applied \subseteq applied',
           \A o \in Orders : status[o] = "paid" => status'[o] = "paid",
           label = "recharge" => TermsOf(job[p].bill).user \in open',
           label = "finish" /\ IsPayment(job[p]) => status'[job[p].bill] = "paid",
           \A o \in Orders : status'[o] = "paid" /\ Tokens[o] > 0 =>
             \/ o \in applied'
             \/ label \in {"openAccount", "recharge"} /\ job[p].bill = o
             \/ status[o] = "paid" /\ ~(Crediting(p) /\ job[p].bill = o)
    PROVE  Served'
<1>1. \A e \in recorded : IsPayment(e) => e.bill \in Orders
  BY EventIsOf DEF Inv, ProvidersOK, EventsOK, IsPayment
<1>2. processed \subseteq recorded /\ \A q \in Procs : pc[q] # "idle" => job[q] \in recorded
  BY DEF Inv, EventsOK, DeliveriesOK, DeliveryOK
<1>3. pc'[p] = label /\ \A q \in Procs \ {p} : pc'[q] = pc[q]
  BY DEF Inv, DeliveriesOK
<1>4. ASSUME NEW q \in Procs PROVE DeliveryServes(q)'
  <2>1. CASE q = p
    BY <2>1, <1>3 DEF DeliveryServes
  <2>2. CASE q # p
    BY <2>2, <1>1, <1>2, <1>3 DEF Served, DeliveryServes
  <2> QED
    BY <2>1, <2>2
<1>5. ASSUME NEW e \in recorded \ processed
      PROVE  \E q \in Procs : pc'[q] # "idle" /\ job'[q] = e
  BY <1>3 DEF Served
<1>6. ASSUME NEW o \in Orders, status'[o] = "paid", Tokens[o] > 0, o \notin applied'
      PROVE  \E q \in Procs : Crediting(q)' /\ job'[q].bill = o
  <2>1. CASE label \in {"openAccount", "recharge"} /\ job[p].bill = o
    BY <2>1, <1>3 DEF Crediting
  <2>2. CASE status[o] = "paid" /\ ~(Crediting(p) /\ job[p].bill = o)
    <3>1. PICK q \in Procs : Crediting(q) /\ job[q].bill = o
      BY <1>6, <2>2 DEF Served
    <3>2. q # p
      BY <2>2, <3>1
    <3> QED
      BY <1>3, <3>1, <3>2 DEF Crediting
  <2> QED
    BY <1>6, <2>1, <2>2
<1>7. \A e \in processed : IsPayment(e) => status'[e.bill] = "paid"
  BY <1>1, <1>2 DEF Served
<1>8. acked' \subseteq recorded'
  BY DEF Served
<1> QED
  BY <1>4, <1>5, <1>6, <1>7, <1>8 DEF Served

\* A delivery that only reads its way, or writes what is not owed.
LEMMA WalkServes ==
    ASSUME Inv, Owing, Served, faults' = 0, NEW p \in Procs,
           \/ AskPayPal(p) \/ FindOrder(p) \/ CreateSub(p) \/ LinkSub(p) \/ ReadOrder(p)
           \/ FindSub(p) \/ IssueInvoice(p) \/ CancelSub(p)
    PROVE  Served'
<1> USE DEF AskPayPal, FindOrder, CreateSub, LinkSub, ReadOrder, FindSub, IssueInvoice,
            CancelSub
<1>1. DeliveryOK(p) /\ ~Crediting(p) /\ pc[p] # "idle" /\ job[p] \in recorded
  BY DEF Inv, DeliveriesOK, DeliveryOK, Crediting
<1>2. UNCHANGED <<job, status, recorded, processed, acked, open, applied>>
  BY DEF GoTo, providers, tables, ledger
<1>3. PICK label \in Labels \ {"idle", "recharge"} : pc' = [pc EXCEPT ![p] = label]
  BY DEF GoTo, Labels
<1>4. pc'[p] = label
  BY <1>3 DEF Inv, DeliveriesOK
<1>5. label = "finish" /\ IsPayment(job[p]) => status'[job[p].bill] = "paid"
  BY <1>1, <1>2, <1>4, PaymentHasOrder
     DEF DeliveryOK, IsPayment, GoTo, Inv, DeliveriesOK
<1> QED
  BY <1>1, <1>2, <1>3, <1>5, ServedGoes

\* An order that is marked paid is the marking delivery's to credit.
LEMMA MarkServes ==
    ASSUME Inv, Owing, Served, faults' = 0, NEW p \in Procs, MarkPaid(p)
    PROVE  Served'
<1>1. /\ DeliveryOK(p) /\ ~Crediting(p) /\ pc[p] # "idle" /\ job[p] \in recorded
      /\ IsPayment(job[p])
  BY DEF Inv, DeliveriesOK, DeliveryOK, Crediting, MarkPaid, IsPayment
<1>2. job[p].bill \in Orders /\ status[job[p].bill] \in {"pending", "paid"}
  BY <1>1, PaymentHasOrder
<1>3. UNCHANGED <<job, recorded, processed, acked, open, applied>>
  BY DEF MarkPaid, GoTo, providers, ledger
<1>4. CASE status[job[p].bill] = "pending"
  <2>1. /\ status' = [status EXCEPT ![job[p].bill] = "paid"]
        /\ GoTo(p, "openAccount")
    BY <1>4, FaultCounts DEF MarkPaid
  <2>2. \A o \in Orders : status'[o] = "paid" => status[o] = "paid" \/ o = job[p].bill
    BY <2>1 DEF Inv, OrdersOK
  <2>3. \A o \in Orders : status[o] = "paid" => status'[o] = "paid"
    BY <2>1, <1>2 DEF Inv, OrdersOK
  <2>4. "openAccount" \in Labels \ {"idle"} /\ pc' = [pc EXCEPT ![p] = "openAccount"]
    BY <2>1 DEF Labels, GoTo
  <2> QED
    BY <2>2, <2>3, <2>4, <1>1, <1>3, ServedGoes
<1>5. CASE status[job[p].bill] # "pending"
  <2>1. UNCHANGED status /\ GoTo(p, "finish")
    BY <1>5 DEF MarkPaid
  <2>2. "finish" \in Labels \ {"idle"} /\ pc' = [pc EXCEPT ![p] = "finish"]
    BY <2>1 DEF Labels, GoTo
  <2> QED
    BY <2>1, <2>2, <1>1, <1>2, <1>3, <1>5, ServedGoes
<1> QED
  BY <1>4, <1>5

\* The account is opened, and then credited: nothing refuses the recharge but
\* that it was made, or is of nothing.
LEMMA CreditServes ==
    ASSUME Inv, Owing, Served, NEW p \in Procs, OpenAccount(p) \/ Recharge(p)
    PROVE  Served'
<1> USE DEF OpenAccount, Recharge
<1>1. DeliveryOK(p) /\ pc[p] # "idle" /\ job[p] \in recorded /\ job[p] \in Events
  BY DEF Inv, ProvidersOK, EventsOK, DeliveriesOK, DeliveryOK
<1>2. UNCHANGED <<job, status, recorded, processed, acked>>
  BY DEF GoTo, providers, tables
<1>3. job[p].bill \in Bills
  BY <1>1, EventIsOf
<1>4. CASE OpenAccount(p)
  <2>1. TermsOf(job[p].bill).user \in open' /\ open \subseteq open' /\ applied' = applied
    BY <1>4 DEF Billing!Open, ledger
  <2>2. "recharge" \in Labels \ {"idle"} /\ pc' = [pc EXCEPT ![p] = "recharge"]
    BY <1>4 DEF Labels, GoTo
  <2> QED
    BY <1>1, <1>2, <2>1, <2>2, ServedGoes
<1>5. CASE Recharge(p)
  <2>1. /\ RechargeOf(job[p]).user \in open /\ RechargeOf(job[p]).key = job[p].bill
        /\ RechargeOf(job[p]).amount = Tokens[job[p].bill]
    BY <1>3, <1>5, TokensOfBill DEF Served, DeliveryServes, RechargeOf, KeyOf
  <2>2. /\ open' = open /\ applied \subseteq applied'
        /\ job[p].bill \in applied' \/ Tokens[job[p].bill] = 0
    BY <1>5, <2>1 DEF Billing!Apply, ledger
  <2>3. IsPayment(job[p]) => status'[job[p].bill] = "paid"
    <3>1. invoices[job[p].bill] > 0
      BY <1>1, <1>5 DEF DeliveryOK
    <3>2. IsPayment(job[p]) => job[p].bill \in Orders
      BY <1>1, EventIsOf DEF IsPayment
    <3> QED
      BY <1>2, <3>1, <3>2 DEF Inv, OrdersOK
  <2>4. "finish" \in Labels \ {"idle"} /\ pc' = [pc EXCEPT ![p] = "finish"]
    BY <1>5 DEF Labels, GoTo
  <2>5. \A o \in Orders : status'[o] = "paid" /\ Tokens[o] > 0 =>
          o \in applied' \/ (status[o] = "paid" /\ ~(Crediting(p) /\ job[p].bill = o))
    BY <1>2, <2>2
  <2> QED
    BY <1>1, <1>2, <2>2, <2>3, <2>4, <2>5, ServedGoes
<1> QED
  BY <1>4, <1>5

\* A delivery takes an event into its hands, and lets go of it as processed.
LEMMA HandsServe ==
    ASSUME Inv, Owing, Served, faults' = 0, NEW p \in Procs,
           Finish(p) \/ \E e \in Events : Receive(p, e)
    PROVE  Served'
<1>1. processed \subseteq recorded /\ \A q \in Procs : pc[q] # "idle" => job[q] \in recorded
  BY DEF Inv, EventsOK, DeliveriesOK, DeliveryOK
<1>2. ASSUME NEW e \in Events, Receive(p, e) PROVE Served'
  <2>1. /\ pc' = [pc EXCEPT ![p] = FirstStep(e.kind)] /\ job' = [job EXCEPT ![p] = e]
        /\ pc[p] = "idle" /\ recorded' = recorded \cup {e}
        /\ UNCHANGED <<status, processed, acked, open, applied>>
    BY <1>2 DEF Receive, providers, ledger
  <2>2. /\ pc'[p] = FirstStep(e.kind) /\ job'[p] = e
        /\ \A q \in Procs \ {p} : pc'[q] = pc[q] /\ job'[q] = job[q]
    BY <2>1 DEF Inv, DeliveriesOK
  <2>3. /\ FirstStep(e.kind) \notin {"idle", "recharge"}
        /\ FirstStep(e.kind) = "finish" => ~IsPayment(e)
    BY EventIsOf DEF FirstStep, Kinds, IsPayment
  <2>4. ASSUME NEW q \in Procs PROVE DeliveryServes(q)'
    BY <2>1, <2>2, <2>3 DEF Served, DeliveryServes
  <2>5. ASSUME NEW d \in recorded' \ processed'
        PROVE  \E q \in Procs : pc'[q] # "idle" /\ job'[q] = d
    BY <2>1, <2>2, <2>3 DEF Served
  <2>6. ASSUME NEW o \in Orders, status'[o] = "paid", Tokens[o] > 0, o \notin applied'
        PROVE  \E q \in Procs : Crediting(q)' /\ job'[q].bill = o
    <3>1. PICK q \in Procs : Crediting(q) /\ job[q].bill = o
      BY <2>1, <2>6 DEF Served
    <3>2. q # p
      BY <2>1, <3>1 DEF Crediting
    <3> QED
      BY <2>2, <3>1, <3>2 DEF Crediting
  <2>7. acked' \subseteq recorded'
    BY <2>1 DEF Served
  <2> QED
    BY <2>1, <2>4, <2>5, <2>6, <2>7 DEF Served
<1>3. ASSUME Finish(p) PROVE Served'
  <2>1. /\ pc[p] = "finish" /\ Leave(p) /\ processed' = processed \cup {job[p]}
        /\ acked' \subseteq acked \cup {job[p]}
        /\ UNCHANGED <<status, recorded, open, applied>>
    BY <1>3 DEF Finish, ledger
  <2>2. /\ pc'[p] = "idle" /\ job[p] \in recorded
        /\ \A q \in Procs \ {p} : pc'[q] = pc[q] /\ job'[q] = job[q]
    BY <1>1, <2>1 DEF Leave, Inv, DeliveriesOK
  <2>3. ASSUME NEW q \in Procs PROVE DeliveryServes(q)'
    BY <2>1, <2>2 DEF Served, DeliveryServes
  <2>4. \A e \in processed' : IsPayment(e) => status'[e.bill] = "paid"
    BY <2>1 DEF Served, DeliveryServes
  <2>5. ASSUME NEW d \in recorded' \ processed'
        PROVE  \E q \in Procs : pc'[q] # "idle" /\ job'[q] = d
    <3>1. PICK q \in Procs : pc[q] # "idle" /\ job[q] = d
      BY <2>1, <2>5 DEF Served
    <3>2. q # p
      BY <2>1, <2>5, <3>1
    <3> QED
      BY <2>2, <3>1, <3>2
  <2>6. ASSUME NEW o \in Orders, status'[o] = "paid", Tokens[o] > 0, o \notin applied'
        PROVE  \E q \in Procs : Crediting(q)' /\ job'[q].bill = o
    <3>1. PICK q \in Procs : Crediting(q) /\ job[q].bill = o
      BY <2>1, <2>6 DEF Served
    <3>2. q # p
      BY <2>1, <3>1 DEF Crediting
    <3> QED
      BY <2>2, <3>1, <3>2 DEF Crediting
  <2>7. acked' \subseteq recorded'
    BY <2>1, <2>2 DEF Served
  <2> QED
    BY <2>3, <2>4, <2>5, <2>6, <2>7 DEF Served
<1> QED
  BY <1>2, <1>3

\* Every step that commits no fault keeps every event served.
LEMMA StepServes ==
    ASSUME Inv, Owing, Served, faults' = 0, [Next]_vars
    PROVE  Served'
<1>0. acked \subseteq recorded
  BY DEF Served
<1>1. CASE \E o \in Orders : \/ CreateOrder(o) \/ StripeSession(o) \/ PayPalOrder(o)
                             \/ AnswerCheckout(o) \/ CheckoutDrop(o)
  <2>1. UNCHANGED <<deliveries, recorded, processed, ledger, acked>>
    BY <1>1 DEF CreateOrder, StripeSession, PayPalOrder, OpenSession, AnswerCheckout,
                CheckoutDrop, providers, tables
  <2>2. \A o \in Orders : status'[o] = "paid" <=> status[o] = "paid"
    BY <1>1 DEF CreateOrder, StripeSession, PayPalOrder, OpenSession, AnswerCheckout,
                CheckoutDrop, tables, Inv, OrdersOK
  <2> QED
    BY <1>0, <2>1, <2>2, ServedKept
<1>2. CASE \E o \in Orders : \/ Pay(o) \/ End(o) \/ ReadCancelled(o)
                             \/ FindChannel(o) \/ AskProvider(o) \/ CancelLocally(o) \/ CancelDrop(o)
  <2>1. UNCHANGED <<deliveries, recorded, processed, ledger, acked, status>>
    BY <1>2 DEF Pay, End, ReadCancelled, FindChannel, AskProvider, CancelLocally, CancelDrop,
                providers, tables
  <2> QED
    BY <1>0, <2>1, ServedKept
<1>3. CASE \/ \E r \in Renewals : Renew(r)
           \/ \E e \in Events : SendCopy(e) \/ RefuseSignature(e)
           \/ UNCHANGED vars
  <2>1. UNCHANGED <<deliveries, recorded, processed, ledger, acked, status>>
    BY <1>3 DEF Renew, SendCopy, RefuseSignature, vars, providers, tables
  <2> QED
    BY <1>0, <2>1, ServedKept
<1>4. CASE \E e \in Events : SkipEvent(e)
  <2>1. UNCHANGED <<deliveries, recorded, processed, ledger, status>>
    BY <1>4 DEF SkipEvent, tables
  <2>2. acked' \subseteq recorded
    BY <1>0, <1>4, FaultCounts DEF SkipEvent
  <2> QED
    BY <2>1, <2>2, ServedKept
<1>5. CASE \E p \in Procs : \/ AskPayPal(p) \/ FindOrder(p) \/ CreateSub(p) \/ LinkSub(p)
                            \/ ReadOrder(p) \/ FindSub(p) \/ IssueInvoice(p) \/ CancelSub(p)
  BY <1>5, WalkServes
<1>6. CASE \E p \in Procs : MarkPaid(p)
  BY <1>6, MarkServes
<1>7. CASE \E p \in Procs : OpenAccount(p) \/ Recharge(p)
  BY <1>7, CreditServes
<1>8. CASE \E p \in Procs : Finish(p) \/ \E e \in Events : Receive(p, e)
  BY <1>8, HandsServe
<1>9. CASE \E p \in Procs : Swallow(p) \/ Drop(p)
  BY <1>9, FaultCounts DEF Swallow, Drop
<1> QED
  BY <1>1, <1>2, <1>3, <1>4, <1>5, <1>6, <1>7, <1>8, <1>9 DEF Next, Deliver, Handle

\* A fault that was committed stays counted.
LEMMA FaultsStay == ASSUME Inv, [Next]_vars, faults' = 0 PROVE faults = 0
<1>1. faults' = faults \/ \E kind \in {"verify", "insert", "error", "reply", "drop"} : Fault(kind)
  <2>1. CASE \E o \in Orders : \/ CreateOrder(o) \/ StripeSession(o) \/ PayPalOrder(o)
                               \/ AnswerCheckout(o) \/ CheckoutDrop(o) \/ Pay(o) \/ End(o)
    BY <2>1 DEF CreateOrder, StripeSession, PayPalOrder, OpenSession, AnswerCheckout,
                CheckoutDrop, Pay, End
  <2>2. CASE \E o \in Orders : \/ ReadCancelled(o) \/ FindChannel(o) \/ AskProvider(o)
                               \/ CancelLocally(o) \/ CancelDrop(o)
    BY <2>2 DEF ReadCancelled, FindChannel, AskProvider, CancelLocally, CancelDrop
  <2>3. CASE \/ \E r \in Renewals : Renew(r)
             \/ \E e \in Events : \/ SendCopy(e) \/ RefuseSignature(e) \/ SkipEvent(e)
                                  \/ \E p \in Procs : Receive(p, e)
             \/ UNCHANGED vars
    BY <2>3 DEF Renew, SendCopy, RefuseSignature, SkipEvent, Receive, vars
  <2>4. CASE \E p \in Procs : \/ AskPayPal(p) \/ FindOrder(p) \/ CreateSub(p) \/ LinkSub(p)
                              \/ ReadOrder(p) \/ MarkPaid(p) \/ OpenAccount(p) \/ Recharge(p)
    BY <2>4 DEF AskPayPal, FindOrder, CreateSub, LinkSub, ReadOrder, MarkPaid, OpenAccount,
                Recharge
  <2>5. CASE \E p \in Procs : \/ FindSub(p) \/ IssueInvoice(p) \/ CancelSub(p) \/ Finish(p)
                              \/ Swallow(p) \/ Drop(p)
    BY <2>5 DEF FindSub, IssueInvoice, CancelSub, Finish, Swallow, Drop
  <2> QED
    BY <2>1, <2>2, <2>3, <2>4, <2>5 DEF Next, Deliver, Handle
<1> QED
  BY <1>1, FaultCounts

\* All three invariants hold in every state.
LEMMA OwingHolds == Spec => [](Inv /\ Owing)
<1>1. Init => Inv /\ Owing
  <2> SUFFICES ASSUME Init PROVE Owing
    BY InitInv
  <2>1. /\ acked = {} /\ recorded = {} /\ processed = {} /\ charged = {}
        /\ status = [o \in Orders |-> "none"] /\ pc = [p \in Procs |-> "idle"]
    BY DEF Init
  <2> QED
    BY <2>1 DEF Owing, Served, DeliveryServes
<1>2. (Inv /\ Owing) /\ [Next]_vars => (Inv /\ Owing)'
  <2> SUFFICES ASSUME Inv, Owing, [Next]_vars PROVE Owing'
    BY NextInv
  <2>1. faults' = 0 => Served'
    BY FaultsStay, StepServes DEF Owing
  <2> QED
    BY <2>1, OrdersStay DEF Owing
<1> QED
  BY <1>1, <1>2, PTL DEF Spec

\* Unless something failed, no event is forgotten and no payment is owed once
\* the deliveries are over: every event that was recorded, or acknowledged, is
\* processed, and every order a payment was reported for is paid and credited.
NothingIsOwed ==
    faults = 0 /\ (\A p \in Procs : pc[p] = "idle") =>
        \A e \in recorded \cup acked :
            /\ e \in processed
            /\ IsPayment(e) => /\ status[e.bill] = "paid"
                               /\ Tokens[e.bill] > 0 => e.bill \in applied

\* However many deliveries of however many copies of its events interleave, a
\* payment is credited when they are over (handleWebhook, handlePaymentSuccess):
\* only a failure can make the system forget one.
THEOREM PaymentsAreSettled == Spec => []NothingIsOwed
<1>1. Inv /\ Owing => NothingIsOwed
  <2> SUFFICES ASSUME Inv, Owing, faults = 0, \A p \in Procs : pc[p] = "idle",
                      NEW e \in recorded \cup acked
               PROVE  /\ e \in processed
                      /\ IsPayment(e) => /\ status[e.bill] = "paid"
                                         /\ Tokens[e.bill] > 0 => e.bill \in applied
    BY DEF NothingIsOwed
  <2>1. e \in processed /\ e \in recorded
    BY DEF Owing, Served
  <2>2. ASSUME IsPayment(e)
        PROVE  status[e.bill] = "paid" /\ (Tokens[e.bill] > 0 => e.bill \in applied)
    <3>1. e.bill \in Orders /\ status[e.bill] = "paid"
      BY <2>1, <2>2, PaymentHasOrder DEF Owing, Served
    <3> QED
      BY <3>1 DEF Owing, Served, Crediting
  <2> QED
    BY <2>1, <2>2
<1> QED
  BY <1>1, OwingHolds, PTL
=============================================================================
