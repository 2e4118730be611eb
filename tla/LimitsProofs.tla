---------------------------- MODULE LimitsProofs ----------------------------
(***************************************************************************)
(* The gates of the gateway, for any number of requests, subjects and       *)
(* addresses, any limit and whatever Redis does not answer: no counter lets *)
(* more pass than its limit, and one that will not end has had a fault.     *)
(***************************************************************************)
EXTENDS Limits, TLAPS

\* From each stage of a kind of request the next one is a stage of it, or the
\* end; those two that a request is sent to on the way are not among them.
LEMMA NextStage ==
    ASSUME NEW kind \in Kinds, NEW s \in DOMAIN Stages[kind]
    PROVE  /\ Stages[kind][s] \in Labels \ {"expire", "trip"}
           /\ Stages[kind][s] = "idle" \/ Stages[kind][s] \in DOMAIN Stages[kind]
<1>1. kind \in {"device", "user", "tagged", "key", "poll"}
  BY LimitsAssumption DEF Stages
<1>2. CASE kind = "device"
  BY <1>2 DEF Stages, Labels
<1>3. CASE kind = "user"
  BY <1>3 DEF Stages, Labels
<1>4. CASE kind = "tagged"
  BY <1>4 DEF Stages, Labels
<1>5. CASE kind = "key"
  BY <1>5 DEF Stages, Labels
<1>6. CASE kind = "poll"
  BY <1>6 DEF Stages, Labels
<1> QED
  BY <1>1, <1>2, <1>3, <1>4, <1>5, <1>6

\* Each kind of request begins at a stage of its kind.
LEMMA FirstIsStage ==
    ASSUME NEW kind \in Kinds
    PROVE  FirstStage(kind) \in {"signature", "credentials"} \cap DOMAIN Stages[kind]
<1>1. kind \in {"device", "user", "tagged", "key", "poll"}
  BY LimitsAssumption DEF Stages
<1> QED
  BY <1>1 DEF Stages, FirstStage

-----------------------------------------------------------------------------

\* What TypeOK says of the requests.
RequestsOK ==
    /\ pc \in [Procs -> Labels]
    /\ req \in [Procs -> [kind : Kinds \cup {None}, subject : Subjects \cup {None},
                          address : Addresses \cup {None}, late : BOOLEAN]]
    /\ \A p \in Procs : pc[p] # "idle" =>
         /\ req[p].kind \in Kinds /\ req[p].subject \in Subjects
         /\ req[p].address \in Addresses
         /\ pc[p] = "expire" => "rate" \in DOMAIN Stages[req[p].kind]
         /\ pc[p] \notin {"expire", "trip"} => pc[p] \in DOMAIN Stages[req[p].kind]

\* A request that goes on to a stage of its kind, or to its end.
LEMMA WentOn ==
    ASSUME RequestsOK, NEW p \in Procs, pc[p] # "idle", NEW label \in Labels,
           label = "expire" => "rate" \in DOMAIN Stages[req[p].kind],
           label \notin {"idle", "expire", "trip"} => label \in DOMAIN Stages[req[p].kind],
           GoTo(p, label)
    PROVE  RequestsOK'
<1>1. CASE label = "idle"
  BY <1>1 DEF RequestsOK, GoTo, Nothing
<1>2. CASE label # "idle"
  <2>1. pc' = [pc EXCEPT ![p] = label] /\ req' = [req EXCEPT ![p] = [@ EXCEPT !.late = FALSE]]
    BY <1>2 DEF GoTo
  <2>2. [req[p] EXCEPT !.late = FALSE] \in
           [kind : Kinds \cup {None}, subject : Subjects \cup {None},
            address : Addresses \cup {None}, late : BOOLEAN]
    BY DEF RequestsOK
  <2>3. /\ req'[p].kind = req[p].kind /\ req'[p].subject = req[p].subject
        /\ req'[p].address = req[p].address /\ pc'[p] = label
    BY <2>1, <2>2 DEF RequestsOK
  <2>4. \A q \in Procs : q # p => pc'[q] = pc[q] /\ req'[q] = req[q]
    BY <2>1 DEF RequestsOK
  <2> QED
    BY <1>2, <2>1, <2>2, <2>3, <2>4 DEF RequestsOK
<1> QED
  BY <1>1, <1>2

\* A request that passes a stage goes on to one of its kind, or to its end.
LEMMA PassedOn ==
    ASSUME RequestsOK, NEW p \in Procs, pc[p] \notin {"idle", "expire", "trip"}, Pass(p)
    PROVE  RequestsOK'
<1>1. req[p].kind \in Kinds /\ pc[p] \in DOMAIN Stages[req[p].kind]
  BY DEF RequestsOK
<1> QED
  BY <1>1, NextStage, WentOn DEF Pass

\* A request that is refused or has passed everything is idle.
LEMMA Ended ==
    ASSUME RequestsOK, NEW p \in Procs, pc[p] # "idle", Reject(p)
    PROVE  RequestsOK'
BY WentOn DEF Reject, Labels

\* So is one that the two limits of the rate let pass.
LEMMA RatePassed ==
    ASSUME RequestsOK, NEW p \in Procs, pc[p] = "expire", AfterRate(p)
    PROVE  RequestsOK'
<1>1. req[p].kind \in Kinds /\ "rate" \in DOMAIN Stages[req[p].kind]
  BY DEF RequestsOK
<1> QED
  BY <1>1, NextStage, WentOn DEF AfterRate

\* Counted stages count on a counter; the one of risk control is of a window.
LEMMA Keyed ==
    ASSUME RequestsOK, NEW p \in Procs
    PROVE  /\ pc[p] \in {"global", "ip", "user", "daily", "hourly", "quota", "rate"}
                 => KeyOf(p) \in Counters
           /\ pc[p] \in {"rate", "expire"} => RateKey(p) \in WindowKeys
           /\ pc[p] = "rate" => KeyOf(p) = RateKey(p)
<1>1. ASSUME pc[p] # "idle" PROVE req[p].subject \in Subjects /\ req[p].address \in Addresses
  BY <1>1 DEF RequestsOK
<1>2. pc[p] = "global" => KeyOf(p) \in Counters
  BY DEF KeyOf, Counters, WindowKeys
<1>3. pc[p] = "ip" => KeyOf(p) \in Counters
  BY <1>1 DEF KeyOf, Counters, WindowKeys
<1>4. pc[p] \in {"daily", "hourly"} => KeyOf(p) \in Counters
  BY DEF KeyOf, Counters, DatedKeys
<1>5. pc[p] \in {"user", "rate"} => KeyOf(p) \in Counters
  BY <1>1 DEF KeyOf, Counters, WindowKeys
<1>6. pc[p] = "quota" => KeyOf(p) \in Counters
  BY <1>1 DEF KeyOf, Counters, DatedKeys
<1>7. pc[p] \in {"rate", "expire"} => RateKey(p) \in WindowKeys
  BY <1>1 DEF RateKey, WindowKeys
<1>8. pc[p] = "rate" => KeyOf(p) = RateKey(p)
  BY DEF KeyOf, RateKey
<1> QED
  BY <1>2, <1>3, <1>4, <1>5, <1>6, <1>7, <1>8

-----------------------------------------------------------------------------

\* What is known of the counters: as many were let pass as were counted, up to
\* the limit; and a counter of a window has an end, or a request is about to
\* give it one, or that was lost.
CountersOK ==
    /\ count \in [Counters -> Nat] /\ passed \in [Counters -> Nat]
    /\ ttl \subseteq WindowKeys /\ lost \subseteq WindowKeys
    /\ \A k \in Counters : passed[k] <= count[k]

\* The inductive invariant.
Inv ==
    /\ RequestsOK /\ CountersOK
    /\ open \in BOOLEAN /\ faults \in Nat
    /\ WithinLimits /\ StuckHadFault

\* The request is counted on k, and let pass if it is within the limit.
LEMMA CountedOK ==
    ASSUME CountersOK, WithinLimits, NEW k \in Counters,
           Counted(k, Incremented(count[k])), UNCHANGED <<lost>>, ttl' \subseteq WindowKeys
    PROVE  CountersOK' /\ WithinLimits'
<1> DEFINE n == Incremented(count[k])
<1>1. MaxCount \in Nat /\ count[k] \in Nat /\ passed[k] \in Nat
      /\ passed[k] <= count[k] /\ passed[k] <= MaxCount
  BY LimitsAssumption DEF CountersOK, WithinLimits
<1>2. n \in Nat /\ passed[k] <= n /\ (~Over(n) => passed[k] + 1 <= n /\ n <= MaxCount)
  BY <1>1 DEF Incremented, Over
<1>3. count' = [count EXCEPT ![k] = n]
      /\ passed' = [passed EXCEPT ![k] = IF Over(n) THEN passed[k] ELSE passed[k] + 1]
  BY DEF Counted
<1>4. passed'[k] \in Nat /\ passed'[k] <= n /\ passed'[k] <= MaxCount
  BY <1>1, <1>2, <1>3 DEF CountersOK
<1> HIDE DEF n
<1> QED
  BY <1>1, <1>2, <1>3, <1>4 DEF CountersOK, WithinLimits

\* A count that is not the first was not nought before.
LEMMA NotFirst ==
    ASSUME NEW c \in Nat, Incremented(c) # 1
    PROVE  c > 0
BY LimitsAssumption DEF Incremented

\* Nothing is counted at the start.
LEMMA InitInv == Init => Inv
<1> SUFFICES ASSUME Init PROVE Inv
  OBVIOUS
<1>1. RequestsOK
  BY DEF Init, RequestsOK, Labels, Nothing
<1>2. CountersOK /\ WithinLimits
  BY LimitsAssumption DEF Init, CountersOK, WithinLimits
<1>3. StuckHadFault
  BY DEF Init, StuckHadFault, Counters
<1> QED
  BY <1>1, <1>2, <1>3 DEF Init, Inv

\* A step that leaves the counters alone, and no request that was to give one
\* its end.
LEMMA KeysUnchanged ==
    ASSUME Inv, RequestsOK', open' \in BOOLEAN, faults' \in Nat, UNCHANGED keys,
           \A p \in Procs : pc[p] = "expire" =>
               pc'[p] = "expire" /\ req'[p].subject = req[p].subject
    PROVE  Inv'
<1>1. CountersOK' /\ WithinLimits'
  BY DEF Inv, CountersOK, WithinLimits, keys
<1>2. \A p \in Procs : pc[p] = "expire" => pc'[p] = "expire" /\ RateKey(p)' = RateKey(p)
  BY DEF RateKey
<1>3. StuckHadFault'
  BY <1>2 DEF Inv, StuckHadFault, keys
<1> QED
  BY <1>1, <1>3 DEF Inv

\* Where a step of p that goes on leaves the others.
LEMMA Others ==
    ASSUME RequestsOK, NEW p \in Procs, NEW label \in Labels, GoTo(p, label)
    PROVE  /\ \A q \in Procs : q # p => pc'[q] = pc[q] /\ req'[q] = req[q]
           /\ label # "idle" => req'[p].subject = req[p].subject
           /\ pc'[p] = label
BY DEF RequestsOK, GoTo

\* Every step of a request preserves it.
LEMMA StepInv ==
    ASSUME Inv, NEW p \in Procs, Step(p) \/ Die(p)
    PROVE  Inv'
<1> USE DEF Inv
<1>0. pc[p] # "idle" => req[p].kind \in Kinds
  BY DEF RequestsOK
<1>1. CASE Skip(p)
  <2>1. pc[p] \in {"global", "ip", "user"}
    BY <1>1, LimitsAssumption DEF Skip
  <2>2. RequestsOK'
    BY <1>1, <2>1, PassedOn DEF Skip
  <2>3. Stages[req[p].kind][pc[p]] \in Labels
    BY <1>0, <2>1, NextStage DEF RequestsOK
  <2> QED
    BY <1>1, <2>1, <2>2, <2>3, KeysUnchanged, Others DEF Skip, Pass
<1>2. CASE Take(p)
  <2> DEFINE k == KeyOf(p)
             n == Incremented(count[k])
  <2>1. /\ pc[p] \in {"global", "ip", "user", "daily", "hourly", "quota"}
        /\ Counted(k, n)
        /\ ttl' = IF k \in WindowKeys /\ n = 1 THEN ttl \cup {k} ELSE ttl
        /\ Pass(p) \/ GoTo(p, "trip") \/ Reject(p)
        /\ UNCHANGED <<open, faults, lost>>
    BY <1>2 DEF Take, EndsAfter
  <2>2. k \in Counters
    BY <2>1, Keyed
  <2>3. CountersOK' /\ WithinLimits'
    BY <2>1, <2>2, CountedOK DEF CountersOK
  <2>4. RequestsOK'
    BY <2>1, PassedOn, Ended, WentOn DEF Labels
  <2>5. Stages[req[p].kind][pc[p]] \in Labels
    BY <1>0, <2>1, NextStage DEF RequestsOK
  <2>6. \A q \in Procs : pc[q] = "expire" => pc'[q] = "expire" /\ RateKey(q)' = RateKey(q)
    BY <2>1, <2>5, Others DEF Pass, Reject, Labels, RateKey
  <2>7. StuckHadFault'
    <3> SUFFICES ASSUME NEW j \in WindowKeys, count'[j] > 0, j \notin ttl'
                 PROVE  j \in lost \/ \E q \in Procs : pc[q] = "expire" /\ RateKey(q) = j
      BY <2>1, <2>6 DEF StuckHadFault
    <3>1. j \in Counters /\ count[j] \in Nat /\ j \notin ttl
      BY <2>1 DEF Counters, CountersOK
    <3>2. count[j] > 0
      <4>1. CASE j = k
        BY <2>1, <3>1, <4>1, NotFirst
      <4>2. CASE j # k
        BY <2>1, <2>2, <3>1, <4>2 DEF Counted, CountersOK
      <4> QED
        BY <4>1, <4>2
    <3> QED
      BY <3>1, <3>2 DEF StuckHadFault
  <2> QED
    BY <2>1, <2>3, <2>4, <2>7
<1>3. CASE TakeLate(p)
  <2>1. pc[p] = "hourly" /\ (Pass(p) \/ GoTo(p, "trip")) /\ UNCHANGED <<keys, open, faults>>
    BY <1>3 DEF TakeLate
  <2>2. RequestsOK'
    BY <2>1, PassedOn, WentOn DEF Labels
  <2>3. Stages[req[p].kind][pc[p]] \in Labels
    BY <1>0, <2>1, NextStage DEF RequestsOK
  <2> QED
    BY <2>1, <2>2, <2>3, KeysUnchanged, Others DEF Pass, Labels
<1>4. CASE Rate(p)
  <2> DEFINE k == RateKey(p)
             n == Incremented(count[k])
  <2>1. /\ pc[p] = "rate"
        /\ Counted(k, n)
        /\ IF n = 1 THEN GoTo(p, "expire") ELSE Pass(p) \/ Reject(p)
        /\ UNCHANGED <<ttl, lost, open, faults>>
    BY <1>4, Keyed DEF Rate
  <2>2. k \in WindowKeys /\ k \in Counters
    BY <2>1, Keyed DEF Counters
  <2>3. CountersOK' /\ WithinLimits'
    BY <2>1, <2>2, CountedOK DEF CountersOK
  <2>4. "rate" \in DOMAIN Stages[req[p].kind]
    BY <2>1 DEF RequestsOK
  <2>5. RequestsOK'
    BY <2>1, <2>4, PassedOn, Ended, WentOn DEF Labels
  <2>6. Stages[req[p].kind][pc[p]] \in Labels
    BY <1>0, <2>1, <2>4, NextStage
  <2>7. \A q \in Procs : pc[q] = "expire" => pc'[q] = "expire" /\ RateKey(q)' = RateKey(q)
    BY <2>1, <2>6, Others DEF Pass, Reject, Labels, RateKey
  <2>8. n = 1 => pc'[p] = "expire" /\ RateKey(p)' = k
    BY <2>1, Others DEF Labels, RateKey
  <2>9. StuckHadFault'
    <3> SUFFICES ASSUME NEW j \in WindowKeys, count'[j] > 0, j \notin ttl, ~(j = k /\ n = 1)
                 PROVE  j \in lost \/ \E q \in Procs : pc[q] = "expire" /\ RateKey(q) = j
      BY <2>1, <2>7, <2>8 DEF StuckHadFault
    <3>1. j \in Counters /\ count[j] \in Nat
      BY DEF Counters, CountersOK
    <3>2. count[j] > 0
      <4>1. CASE j = k
        BY <3>1, <4>1, NotFirst
      <4>2. CASE j # k
        BY <2>1, <2>2, <3>1, <4>2 DEF Counted, CountersOK
      <4> QED
        BY <4>1, <4>2
    <3> QED
      BY <3>1, <3>2 DEF StuckHadFault
  <2> QED
    BY <2>1, <2>3, <2>5, <2>9
<1>5. CASE Expire(p) \/ LoseExpire(p)
  <2>1. /\ pc[p] = "expire" /\ AfterRate(p)
        /\ UNCHANGED <<count, passed, open>>
        /\ faults' \in Nat
        /\ \/ ttl' = ttl \cup {RateKey(p)} /\ lost' = lost
           \/ lost' = lost \cup {RateKey(p)} /\ ttl' = ttl
    BY <1>5 DEF Expire, LoseExpire
  <2>2. RateKey(p) \in WindowKeys
    BY <2>1, Keyed
  <2>3. CountersOK' /\ WithinLimits'
    BY <2>1, <2>2 DEF CountersOK, WithinLimits
  <2>4. RequestsOK'
    BY <2>1, RatePassed
  <2>5. Stages[req[p].kind]["rate"] \in Labels
    BY <1>0, <2>1, NextStage DEF RequestsOK
  <2>6. \A q \in Procs : q # p /\ pc[q] = "expire" => pc'[q] = "expire" /\ RateKey(q)' = RateKey(q)
    BY <2>1, <2>5, Others DEF AfterRate, RateKey
  <2>7. StuckHadFault'
    BY <2>1, <2>6 DEF StuckHadFault
  <2> QED
    BY <2>1, <2>3, <2>4, <2>7
<1>6. CASE Breaker(p) \/ Signature(p) \/ Authenticate(p) \/ Ban(p) \/ Unanswered(p)
  <2>1. /\ pc[p] \notin {"idle", "expire", "trip"}
        /\ Pass(p) \/ Reject(p)
        /\ UNCHANGED <<keys, open>>
        /\ faults' \in Nat
    BY <1>6 DEF Breaker, Signature, Authenticate, Ban, Unanswered, Unchanging
  <2>2. RequestsOK'
    BY <2>1, PassedOn, Ended
  <2>3. Stages[req[p].kind][pc[p]] \in Labels
    BY <1>0, <2>1, NextStage DEF RequestsOK
  <2> QED
    BY <2>1, <2>2, <2>3, KeysUnchanged, Others DEF Pass, Reject, Labels
<1>7. CASE Trip(p)
  <2>1. pc[p] = "trip" /\ Reject(p) /\ UNCHANGED keys /\ faults' \in Nat
    BY <1>7 DEF Trip
  <2>3. open' \in BOOLEAN
    BY <1>7 DEF Trip
  <2>2. RequestsOK'
    BY <2>1, Ended
  <2> QED
    BY <2>1, <2>2, <2>3, KeysUnchanged, Others DEF Reject, Labels
<1>8. CASE Die(p)
  <2>1. /\ pc[p] # "idle" /\ Reject(p) /\ UNCHANGED <<count, passed, ttl, open>>
        /\ faults' \in Nat
        /\ lost' = IF pc[p] = "expire" THEN lost \cup {RateKey(p)} ELSE lost
    BY <1>8 DEF Die
  <2>2. RequestsOK'
    BY <2>1, Ended
  <2>3. lost \subseteq lost' /\ lost' \subseteq WindowKeys
    BY <2>1, Keyed DEF CountersOK
  <2>4. CountersOK' /\ WithinLimits'
    BY <2>1, <2>3 DEF CountersOK, WithinLimits
  <2>5. \A q \in Procs : q # p /\ pc[q] = "expire" => pc'[q] = "expire" /\ RateKey(q)' = RateKey(q)
    BY <2>1, Others DEF Reject, RateKey, Labels
  <2>6. StuckHadFault'
    BY <2>1, <2>3, <2>5 DEF StuckHadFault
  <2> QED
    BY <2>1, <2>2, <2>4, <2>6
<1>9. CASE CountedUnanswered(p)
  <2> DEFINE k == KeyOf(p)
             n == Incremented(count[k])
  <2>1. /\ pc[p] \in {"global", "ip", "user", "daily", "hourly", "quota", "rate"}
        /\ count' = [count EXCEPT ![k] = n]
        /\ ttl' = IF pc[p] # "rate" /\ k \in WindowKeys /\ n = 1 THEN ttl \cup {k} ELSE ttl
        /\ lost' = IF pc[p] = "rate" /\ n = 1 THEN lost \cup {k} ELSE lost
        /\ Pass(p) \/ UNCHANGED <<pc, req>>
        /\ faults' \in Nat /\ UNCHANGED <<passed, open>>
    BY <1>9 DEF CountedUnanswered, EndsAfter
  <2>2. k \in Counters /\ (pc[p] = "rate" => k \in WindowKeys)
    BY <2>1, Keyed
  <2>3. CountersOK' /\ WithinLimits'
    <3>1. count[k] \in Nat /\ n \in Nat /\ count[k] <= n
      BY <2>2 DEF CountersOK, Incremented
    <3>2. lost' \subseteq WindowKeys /\ ttl' \subseteq WindowKeys
      BY <2>1, <2>2 DEF CountersOK
    <3>3. \A j \in Counters : passed[j] \in Nat /\ count[j] \in Nat /\ passed[j] <= count[j]
      BY DEF CountersOK
    <3> HIDE DEF n
    <3>4. \A j \in Counters : count'[j] \in Nat /\ passed[j] <= count'[j]
      BY <2>1, <2>2, <3>1, <3>3 DEF CountersOK
    <3>5. count' \in [Counters -> Nat]
      BY <2>1, <3>1 DEF CountersOK
    <3> QED
      BY <2>1, <3>2, <3>4, <3>5 DEF CountersOK, WithinLimits
  <2>4. RequestsOK'
    BY <2>1, PassedOn DEF RequestsOK
  <2>5. Stages[req[p].kind][pc[p]] \in Labels
    BY <1>0, <2>1, NextStage DEF RequestsOK
  <2>6. \A q \in Procs : pc[q] = "expire" => pc'[q] = "expire" /\ RateKey(q)' = RateKey(q)
    BY <2>1, <2>5, Others DEF Pass, RateKey
  <2>7. StuckHadFault'
    <3> SUFFICES ASSUME NEW j \in WindowKeys, count'[j] > 0, j \notin ttl', j \notin lost'
                 PROVE  \E q \in Procs : pc[q] = "expire" /\ RateKey(q) = j
      BY <2>1, <2>6 DEF StuckHadFault
    <3>1. j \in Counters /\ count[j] \in Nat /\ j \notin ttl /\ j \notin lost
      BY <2>1 DEF Counters, CountersOK
    <3>2. count[j] > 0
      <4>1. CASE j = k
        BY <2>1, <3>1, <4>1, NotFirst
      <4>2. CASE j # k
        BY <2>1, <2>2, <3>1, <4>2 DEF CountersOK
      <4> QED
        BY <4>1, <4>2
    <3> QED
      BY <3>1, <3>2 DEF StuckHadFault
  <2> QED
    BY <2>1, <2>3, <2>4, <2>7
<1> QED
  BY <1>1, <1>2, <1>3, <1>4, <1>5, <1>6, <1>7, <1>8, <1>9 DEF Step

\* ... and so does everything else.
LEMMA NextInv == Inv /\ [Next]_vars => Inv'
<1> SUFFICES ASSUME Inv, [Next]_vars PROVE Inv'
  OBVIOUS
<1> USE DEF Inv
<1>1. ASSUME NEW p \in Procs, NEW kind \in Kinds, NEW s \in Subjects, NEW a \in Addresses,
             Arrive(p, kind, s, a)
      PROVE  Inv'
  <2>1. RequestsOK'
    BY <1>1, FirstIsStage DEF Arrive, RequestsOK, Labels
  <2> QED
    BY <1>1, <2>1, KeysUnchanged DEF Arrive, RequestsOK
<1>2. ASSUME NEW k \in WindowKeys, EndWindow(k) PROVE Inv'
  <2>1. CountersOK' /\ WithinLimits'
    BY <1>2, LimitsAssumption DEF EndWindow, Zero, CountersOK, WithinLimits
  <2>2. RequestsOK'
    BY <1>2 DEF EndWindow, RequestsOK
  <2>3. \A q \in Procs : RateKey(q)' = RateKey(q)
    BY <1>2 DEF EndWindow, RateKey
  <2>4. StuckHadFault'
    BY <1>2, <2>3 DEF EndWindow, Zero, StuckHadFault, Counters
  <2> QED
    BY <1>2, <2>1, <2>2, <2>4 DEF EndWindow
<1>3. ASSUME NEW K, NewHour(K) PROVE Inv'
  <2>1. CountersOK' /\ WithinLimits'
    BY <1>3, LimitsAssumption DEF NewHour, Zero, CountersOK, WithinLimits
  <2> DEFINE R == [kind : Kinds \cup {None}, subject : Subjects \cup {None},
                   address : Addresses \cup {None}, late : BOOLEAN]
  <2>2. \A q \in Procs : /\ req'[q].subject = req[q].subject /\ req'[q].kind = req[q].kind
                         /\ req'[q].address = req[q].address /\ req'[q] \in R
    <3> SUFFICES ASSUME NEW q \in Procs
                 PROVE  /\ req'[q].subject = req[q].subject /\ req'[q].kind = req[q].kind
                        /\ req'[q].address = req[q].address /\ req'[q] \in R
      OBVIOUS
    <3>1. req[q] \in R
      BY DEF RequestsOK
    <3>2. req'[q] = req[q] \/ req'[q] = [req[q] EXCEPT !.late = TRUE]
      BY <1>3 DEF NewHour
    <3> QED
      BY <3>1, <3>2
  <2>3. req' \in [Procs -> R]
    BY <1>3, <2>2 DEF NewHour
  <2>4. RequestsOK'
    <3>1. pc' = pc
      BY <1>3 DEF NewHour
    <3> QED
      BY <2>2, <2>3, <3>1 DEF RequestsOK
  <2>5. \A q \in Procs : RateKey(q)' = RateKey(q)
    BY <2>2 DEF RateKey
  <2>6. StuckHadFault'
    BY <1>3, <2>5 DEF NewHour, Zero, StuckHadFault, Counters
  <2> QED
    BY <1>3, <2>1, <2>4, <2>6 DEF NewHour
<1>4. CASE CloseBreaker
  BY <1>4, KeysUnchanged DEF CloseBreaker, RequestsOK
<1>5. CASE UNCHANGED vars
  BY <1>5, KeysUnchanged DEF vars, keys, RequestsOK
<1> QED
  BY <1>1, <1>2, <1>3, <1>4, <1>5, StepInv DEF Next, Time

\* Every variable keeps its type, and a request is at a stage of its kind.
THEOREM TypeCorrect == Spec => []TypeOK
<1>1. Inv => TypeOK
  BY DEF Inv, RequestsOK, CountersOK, TypeOK
<1> QED
  BY <1>1, InitInv, NextInv, PTL DEF Spec

\* No counter lets more requests pass than its limit, for any limit and any
\* number of requests at once.
THEOREM LimitsHold == Spec => []WithinLimits
<1>1. Inv => WithinLimits
  BY DEF Inv
<1> QED
  BY <1>1, InitInv, NextInv, PTL DEF Spec

\* A counter that will not end has lost its EXPIRE to a fault, or the answer to
\* the INCR that was to be followed by it.
THEOREM StuckByFault == Spec => []StuckHadFault
<1>1. Inv => StuckHadFault
  BY DEF Inv
<1> QED
  BY <1>1, InitInv, NextInv, PTL DEF Spec
=============================================================================
