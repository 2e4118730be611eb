SPECIFICATION Spec
CONSTANTS
    u1 = u1
    o1 = o1
    r1 = r1
    None = None
    Users = {u1}
    Orders = {o1}
    Renewals = {r1}
    Terms <- Subscription
    RenewalOf <- OneRenewal
    Events <- SubscriptionEvents
    MaxCopies = 1
    Procs = {p1, p2}
    Faults = {"insert", "error", "drop"}
    MaxFaults = 2
INVARIANTS
    OneInvoicePerOrder
    CreditedIsInvoiced
    NeverOverCredited
    CancelledIsStopped
SYMMETRY DeliveriesAlike
VIEW WhatMatters
CHECK_DEADLOCK FALSE
