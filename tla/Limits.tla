------------------------------- MODULE Limits -------------------------------
(***************************************************************************)
(* What a request of the gateway passes before its handler does any work    *)
(* (tokenfusiongateway): the three rate limits, the circuit breaker for     *)
(* requests without login, and the checks of the risk service.  All of      *)
(* their state is in Redis, and when Redis does not answer a check, the     *)
(* request passes it.                                                       *)
(*                                                                          *)
(* One action is one command to Redis, or one check that changes nothing    *)
(* another request sees.                                                    *)
(***************************************************************************)
EXTENDS Naturals, FiniteSets

CONSTANTS
    Subjects,    \* device ids and users
    Addresses,   \* IP addresses of clients
    Procs,       \* requests in flight
    None,
    Kinds,       \* the kinds of requests that come
    Unlimited,   \* the rate limits that are switched off
    MaxCount,    \* the limit of every other counter
    MaxFaults    \* bound on the commands that Redis does not answer

\* The stages of a request, in order, for each kind of it: sent without login;
\* with a login; with a login from a client that names its device as well; to
\* the compatible API, with a key; asking how a video is getting on.
Stages ==
    [device |-> [signature |-> "global", global |-> "ip", ip |-> "breaker",
                 breaker |-> "daily", daily |-> "hourly", hourly |-> "credentials",
                 credentials |-> "ban", ban |-> "rate", rate |-> "quota", quota |-> "idle"],
     user   |-> [signature |-> "global", global |-> "ip", ip |-> "credentials",
                 credentials |-> "ban", ban |-> "rate", rate |-> "idle"],
     tagged |-> [signature |-> "global", global |-> "ip", ip |-> "breaker",
                 breaker |-> "daily", daily |-> "hourly", hourly |-> "credentials",
                 credentials |-> "ban", ban |-> "rate", rate |-> "idle"],
     key    |-> [credentials |-> "global", global |-> "ip", ip |-> "user",
                 user |-> "ban", ban |-> "rate", rate |-> "idle"],
     poll   |-> [signature |-> "global", global |-> "ip", ip |-> "breaker",
                 breaker |-> "daily", daily |-> "hourly", hourly |-> "idle"]]

FirstStage(kind) == IF kind = "key" THEN "credentials" ELSE "signature"

\* The counters: their keys in Redis.  Those of a window go some time after they
\* were made; those of a date are left behind when it has passed.
WindowKeys == {<<"global">>} \cup ({"ip"} \X Addresses) \cup ({"user", "rate"} \X Subjects)
DatedKeys == {<<"daily">>, <<"hourly">>} \cup ({"quota"} \X Subjects)
Counters == WindowKeys \cup DatedKeys

ASSUME LimitsAssumption ==
    /\ Kinds \subseteq DOMAIN Stages
    /\ Unlimited \subseteq {"global", "ip", "user"}
    /\ MaxCount \in Nat \ {0} /\ MaxFaults \in Nat
    /\ None \notin Subjects \cup Addresses \cup Kinds

VARIABLES
    count,    \* the counters; all counts above the limit are alike
    ttl,      \* counters of a window that will expire
    open,     \* circuit:open:device
    pc,       \* the stage each request has come to
    req,      \* its kind, subject, address; whether its hour has passed
    faults,
    \* auxiliary:
    passed,   \* requests that each counter has let pass in this window
    lost      \* counters whose EXPIRE was lost, or the answer that leads to it

vars == <<count, ttl, open, pc, req, faults, passed, lost>>
keys == <<count, ttl, passed, lost>>

Nothing == [kind |-> None, subject |-> None, address |-> None, late |-> FALSE]

Init ==
    /\ count = [k \in Counters |-> 0]
    /\ ttl = {}
    /\ open = FALSE
    /\ pc = [p \in Procs |-> "idle"]
    /\ req = [p \in Procs |-> Nothing]
    /\ faults = 0
    /\ passed = [k \in Counters |-> 0]
    /\ lost = {}

Arrive(p, kind, s, a) ==
    /\ pc[p] = "idle"
    /\ pc' = [pc EXCEPT ![p] = FirstStage(kind)]
    /\ req' = [req EXCEPT ![p] = [kind |-> kind, subject |-> s, address |-> a, late |-> FALSE]]
    /\ UNCHANGED <<keys, open, faults>>

GoTo(p, label) ==
    /\ pc' = [pc EXCEPT ![p] = label]
    /\ req' = [req EXCEPT ![p] =
                  IF label = "idle" THEN Nothing ELSE [@ EXCEPT !.late = FALSE]]

Pass(p) == GoTo(p, Stages[req[p].kind][pc[p]])
Reject(p) == GoTo(p, "idle")

-----------------------------------------------------------------------------
(* Counters.                                                                *)

KeyOf(p) ==
    CASE pc[p] = "global"              -> <<"global">>
      [] pc[p] = "ip"                  -> <<"ip", req[p].address>>
      [] pc[p] \in {"daily", "hourly"} -> <<pc[p]>>
      [] OTHER                         -> <<pc[p], req[p].subject>>

Incremented(n) == IF n > MaxCount THEN n ELSE n + 1

\* Mutant: the limit is compared with the count before the request.
OverBefore(n) == n - 1 > MaxCount

Over(n) == n > MaxCount

\* The request is the n-th; if it is among the first, k has let it pass.
Counted(k, n) ==
    /\ count' = [count EXCEPT ![k] = n]
    /\ passed' = [passed EXCEPT ![k] = IF Over(n) THEN @ ELSE @ + 1]

\* A script gives a counter of a window its end with its first count.
EndsAfter(p, n) ==
    IF pc[p] # "rate" /\ KeyOf(p) \in WindowKeys /\ n = 1 THEN ttl \cup {KeyOf(p)} ELSE ttl

\* A rate limit that is not set counts nothing.
Skip(p) ==
    /\ pc[p] \in Unlimited
    /\ Pass(p)
    /\ UNCHANGED <<keys, open, faults>>

\* RateLimiter.incr, CircuitBreaker.incr: INCR and PEXPIRE in one script.  Also
\* CheckDeviceQuota's INCR: the key has the date in it, so that its EXPIRE only
\* tidies up.
Take(p) ==
    LET k == KeyOf(p)
        n == Incremented(count[k])
    IN /\ pc[p] \in {"global", "ip", "user", "daily", "hourly", "quota"} \ Unlimited
       /\ ~req[p].late
       /\ Counted(k, n)
       /\ ttl' = EndsAfter(p, n)
       /\ IF ~Over(n) THEN Pass(p)
          ELSE IF pc[p] \in {"daily", "hourly"} THEN GoTo(p, "trip")
          ELSE Reject(p)
       /\ UNCHANGED <<open, faults, lost>>

\* The hour for which p looks at its counter has passed meanwhile.
TakeLate(p) ==
    /\ pc[p] = "hourly" /\ req[p].late
    /\ Pass(p) \/ GoTo(p, "trip")
    /\ UNCHANGED <<keys, open, faults>>

\* RiskService.RateLimit: INCR; the first request sends EXPIRE in a command of
\* its own.
Rate(p) ==
    LET k == KeyOf(p)
        n == Incremented(count[k])
    IN /\ pc[p] = "rate"
       /\ Counted(k, n)
       /\ IF n = 1 THEN GoTo(p, "expire") ELSE IF Over(n) THEN Reject(p) ELSE Pass(p)
       /\ UNCHANGED <<ttl, lost, open, faults>>

\* Redis does not answer the command at which p has come: it passes.
Unanswered(p) ==
    /\ pc[p] \notin {"idle", "expire", "trip", "credentials"}
    /\ faults < MaxFaults
    /\ faults' = faults + 1
    /\ Pass(p)
    /\ UNCHANGED <<keys, open>>

\* Redis counts, but its answer is lost: p passes without having been told its
\* number, or the client counts again.  The first of RiskService.RateLimit is
\* then told that it is the first by nobody, and sends no EXPIRE.
CountedUnanswered(p) ==
    LET k == KeyOf(p)
        n == Incremented(count[k])
    IN /\ pc[p] \in {"global", "ip", "user", "daily", "hourly", "quota", "rate"} \ Unlimited
       /\ ~req[p].late
       /\ faults < MaxFaults
       /\ faults' = faults + 1
       /\ count' = [count EXCEPT ![k] = n]
       /\ ttl' = EndsAfter(p, n)
       /\ lost' = IF pc[p] = "rate" /\ n = 1 THEN lost \cup {k} ELSE lost
       /\ Pass(p) \/ UNCHANGED <<pc, req>>
       /\ UNCHANGED <<passed, open>>

AfterRate(p) == GoTo(p, Stages[req[p].kind]["rate"])

RateKey(p) == <<"rate", req[p].subject>>

\* Mutant: the count is given an end when it is over the limit.
ExpireOverLimit(p) ==
    /\ pc[p] = "expire"
    /\ ttl' = IF Over(count[RateKey(p)]) THEN ttl \cup {RateKey(p)} ELSE ttl
    /\ AfterRate(p)
    /\ UNCHANGED <<count, passed, lost, open, faults>>

Expire(p) ==
    /\ pc[p] = "expire"
    /\ ttl' = ttl \cup {RateKey(p)}
    /\ AfterRate(p)
    /\ UNCHANGED <<count, passed, lost, open, faults>>

\* The EXPIRE is lost: Redis does not answer it, or the client has gone, and
\* its context with it.  That is only logged.
LoseExpire(p) ==
    /\ pc[p] = "expire"
    /\ faults < MaxFaults
    /\ faults' = faults + 1
    /\ lost' = lost \cup {RateKey(p)}
    /\ AfterRate(p)
    /\ UNCHANGED <<count, passed, ttl, open>>

-----------------------------------------------------------------------------
(* The breaker, and the checks that only read.                              *)

\* isOpen.  Nothing in the program opens circuit:open:global.
Breaker(p) ==
    /\ pc[p] = "breaker"
    /\ IF open THEN Reject(p) ELSE Pass(p)
    /\ UNCHANGED <<keys, open, faults>>

\* open, and the request is refused, whether Redis answers or not.
Trip(p) ==
    /\ pc[p] = "trip"
    /\ \/ open' = TRUE /\ UNCHANGED faults
       \/ faults < MaxFaults /\ faults' = faults + 1 /\ UNCHANGED open
    /\ Reject(p)
    /\ UNCHANGED <<keys>>

\* Its time to live has passed, or an operator calls Close.
CloseBreaker ==
    /\ open
    /\ open' = FALSE
    /\ UNCHANGED <<keys, pc, req, faults>>

Unchanging == UNCHANGED <<keys, open, faults>>

\* The signature and its time; the nonce is the request's own.
Signature(p) == pc[p] = "signature" /\ (Reject(p) \/ Pass(p)) /\ Unchanging

\* The API key, asked of the server, or the access token, from itself.
Authenticate(p) == pc[p] = "credentials" /\ (Reject(p) \/ Pass(p)) /\ Unchanging

\* CheckBan, CheckIPBan, CheckRegion: as the blacklists say, which no part of
\* the program writes.
Ban(p) == pc[p] = "ban" /\ (Reject(p) \/ Pass(p)) /\ Unchanging

-----------------------------------------------------------------------------
(* Time.                                                                    *)

Zero(K) ==
    /\ count' = [k \in Counters |-> IF k \in K THEN 0 ELSE count[k]]
    /\ passed' = [k \in Counters |-> IF k \in K THEN 0 ELSE passed[k]]

\* The window of k is over.
EndWindow(k) ==
    /\ k \in ttl
    /\ Zero({k})
    /\ ttl' = ttl \ {k}
    /\ UNCHANGED <<lost, open, pc, req, faults>>

\* The hour is over, and perhaps the day.  CircuitBreaker.Middleware has made
\* both of its keys before it counts the first.
NewHour(K) ==
    /\ <<"hourly">> \in K /\ (K = {<<"hourly">>} \/ K = DatedKeys)
    /\ Zero(K)
    /\ req' = [p \in Procs |-> IF pc[p] = "hourly" THEN [req[p] EXCEPT !.late = TRUE]
                                                    ELSE req[p]]
    /\ UNCHANGED <<ttl, lost, open, pc, faults>>

\* A gateway dies with p in it.
Die(p) ==
    /\ pc[p] # "idle"
    /\ faults < MaxFaults
    /\ faults' = faults + 1
    /\ lost' = IF pc[p] = "expire" THEN lost \cup {RateKey(p)} ELSE lost
    /\ Reject(p)
    /\ UNCHANGED <<count, passed, ttl, open>>

Step(p) ==
    \/ Skip(p) \/ Take(p) \/ TakeLate(p) \/ Rate(p) \/ Expire(p) \/ LoseExpire(p)
    \/ Breaker(p) \/ Trip(p) \/ Signature(p) \/ Authenticate(p) \/ Ban(p) \/ Unanswered(p)
    \/ CountedUnanswered(p)

Time ==
    \/ \E k \in WindowKeys : EndWindow(k)
    \/ \E K \in {{<<"hourly">>}, DatedKeys} : NewHour(K)
    \/ CloseBreaker

Next ==
    \/ \E p \in Procs :
         \/ \E kind \in Kinds, s \in Subjects, a \in Addresses : Arrive(p, kind, s, a)
         \/ Step(p) \/ Die(p)
    \/ Time

Spec == Init /\ [][Next]_vars

\* The counters of the limits that are not switched off; no other one counts.
Limiting == {k \in WindowKeys : k[1] \notin Unlimited}

\* Redis ends what has a time to live, and the call of EXPIRE returns.
FairSpec ==
    /\ Spec
    /\ \A k \in Limiting : WF_vars(EndWindow(k))
    /\ \A p \in Procs : WF_vars(Expire(p))

-----------------------------------------------------------------------------
(* Properties.                                                              *)

Labels == {"idle", "signature", "credentials", "global", "ip", "user", "breaker", "daily", "hourly", "trip",
           "ban", "rate", "expire", "quota"}

\* Type correctness; a request is at a stage of its kind.
TypeOK ==
    /\ count \in [Counters -> Nat] /\ passed \in [Counters -> Nat]
    /\ ttl \subseteq WindowKeys /\ lost \subseteq WindowKeys
    /\ open \in BOOLEAN
    /\ pc \in [Procs -> Labels]
    /\ req \in [Procs -> [kind : Kinds \cup {None}, subject : Subjects \cup {None},
                          address : Addresses \cup {None}, late : BOOLEAN]]
    /\ \A p \in Procs : pc[p] # "idle" =>
         /\ req[p].kind \in Kinds /\ req[p].subject \in Subjects
         /\ req[p].address \in Addresses
         /\ pc[p] = "expire" => "rate" \in DOMAIN Stages[req[p].kind]
         /\ pc[p] \notin {"expire", "trip"} => pc[p] \in DOMAIN Stages[req[p].kind]
    /\ faults \in Nat

\* No counter lets more requests pass in its window than its limit
\* (ratelimit.go:116-164, circuit.go:94-153, risk.go:172-206, 301-341), however
\* many run at once, over all the routes that share it, and whether or not the
\* breaker was closed in between: only requests whose command Redis did not
\* answer come on top.
WithinLimits == \A k \in Counters : passed[k] <= MaxCount

\* A counter ends (risk.go:171, 188): one that will not, while no request is
\* about to give it its end, has lost to a fault its EXPIRE, or the answer to
\* the INCR that was to be followed by it.
StuckHadFault ==
    \A k \in WindowKeys : count[k] > 0 /\ k \notin ttl =>
        k \in lost \/ \E p \in Procs : pc[p] = "expire" /\ RateKey(p) = k

\* Whoever is over a limit is let in again (risk.go:188, ratelimit.go:61-71): its
\* counter goes back to zero, however often it tries meanwhile, but for one that
\* such a fault has left without an end.
LimitedRecovers ==
    \A k \in Limiting : count[k] > MaxCount ~> (count[k] = 0 \/ k \in lost)
=============================================================================
