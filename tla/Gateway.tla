------------------------------ MODULE Gateway ------------------------------
(***************************************************************************)
(* Generation requests in the gateway (tokenfusiongateway,                 *)
(* internal/handler): chat, image, video and code, and the OpenAI routes.  *)
(* Each request freezes tokens at the billing backend, lets Dispatch pick  *)
(* a provider, calls it, and settles or gives back what it froze.  Every   *)
(* call carries the context of the client's HTTP request, which ends when  *)
(* the client disconnects.                                                 *)
(*                                                                         *)
(* The backend is external, as billing.go speaks to it: an order for every *)
(* freeze, which is settled or rolled back by its id.                      *)
(***************************************************************************)
EXTENDS Dispatch

CONSTANTS
    Requests,  \* requests the gateway can have in flight
    Streams,   \* the providers that implement ChatStreamProvider
    Mishaps    \* what may go wrong besides providers and clients

Kinds == {"sync",          \* HandleChat and HandleCode, HandleImage, and
                           \* OpenAI chat: one call, one answer
          "openaiImage",   \* OpenAI images: failures are not audited
          "stream",        \* HandleChat with stream = true
          "openaiStream",  \* OpenAI chat with stream = true
          "video"}         \* HandleVideo

ASSUME GatewayAssumption ==
    Streams \subseteq Providers /\ Mishaps \subseteq {"billing", "redis", "crash"}

VARIABLES
    pc,       \* where each request is
    kind,     \* what it asks for
    here,     \* its client is connected, its context alive
    via,      \* the provider chosen for it
    outcome,  \* how its handler ends
    task,     \* video:task:<id> in Redis: its video task was saved
    audited,  \* audit:logs in Redis: the status of its entry
    order,    \* external: its order at the billing backend
    trouble   \* auxiliary: a call of its to the backend or to Redis failed, or
              \* the gateway died

handlers == <<pc, kind, via, outcome>>
stores == <<task, audited, order>>
vars == <<dispatch, handlers, stores, here, trouble>>

None == "none"

Outcomes == {None, "success", "notFrozen", "noProvider", "notWritten",
             "providerFailed", "streamFailed", "notSaved", "died"}

Init ==
    /\ DispatchInit
    /\ pc = [r \in Requests |-> "idle"]
    /\ kind = [r \in Requests |-> None]
    /\ here = [r \in Requests |-> TRUE]
    /\ via = [r \in Requests |-> None]
    /\ outcome = [r \in Requests |-> None]
    /\ task = [r \in Requests |-> FALSE]
    /\ audited = [r \in Requests |-> None]
    /\ order = [r \in Requests |-> None]
    /\ trouble = [r \in Requests |-> FALSE]

GoTo(r, label) ==
    /\ pc' = [pc EXCEPT ![r] = label]
    /\ UNCHANGED <<kind, via, outcome>>

\* The handler will end with outcome o, after the steps from label on.
End(r, o, label) ==
    /\ pc' = [pc EXCEPT ![r] = label]
    /\ outcome' = [outcome EXCEPT ![r] = o]
    /\ UNCHANGED <<kind, via>>

\* The handler returns, and its local variables are gone.
Finish(r) ==
    /\ pc' = [pc EXCEPT ![r] = "idle"]
    /\ kind' = [kind EXCEPT ![r] = None]
    /\ via' = [via EXCEPT ![r] = None]

\* A call with the request's context succeeds only while that is alive.
Succeeds(r) == here[r] /\ UNCHANGED trouble

\* It fails when the context ends, or by a mishap: refused, timed out, lost.
\* Whoever was called may have done what was asked all the same.
Fails(r, mishap) ==
    \/ ~here[r] /\ UNCHANGED trouble
    \/ mishap \in Mishaps /\ trouble' = [trouble EXCEPT ![r] = TRUE]

-----------------------------------------------------------------------------
\* A request comes in, is authenticated and passes risk control.
Arrive(r, k) ==
    /\ pc[r] = "idle"
    /\ pc' = [pc EXCEPT ![r] = "freeze"]
    /\ kind' = [kind EXCEPT ![r] = k]
    /\ here' = [here EXCEPT ![r] = TRUE]
    /\ outcome' = [outcome EXCEPT ![r] = None]
    /\ task' = [task EXCEPT ![r] = FALSE]
    /\ audited' = [audited EXCEPT ![r] = None]
    /\ order' = [order EXCEPT ![r] = None]
    /\ trouble' = [trouble EXCEPT ![r] = FALSE]
    /\ UNCHANGED <<dispatch, via>>

\* The client closes its connection.
Leave(r) ==
    /\ pc[r] # "idle"
    /\ here[r]
    /\ here' = [here EXCEPT ![r] = FALSE]
    /\ UNCHANGED <<dispatch, handlers, stores, trouble>>

\* The gateway dies, or is shut down and waits no longer than five seconds:
\* the requests in flight stop where they are.
Crash ==
    /\ "crash" \in Mishaps
    /\ pc' = [r \in Requests |-> "idle"]
    /\ kind' = [r \in Requests |-> None]
    /\ via' = [r \in Requests |-> None]
    /\ outcome' = [r \in Requests |-> IF pc[r] = "idle" THEN outcome[r] ELSE "died"]
    /\ trouble' = [r \in Requests |-> trouble[r] \/ pc[r] # "idle"]
    /\ Restart
    /\ UNCHANGED <<stores, here>>

-----------------------------------------------------------------------------
\* Mutant of Freeze: an error of the backend lets the request through.
FreezeIgnored(r) ==
    /\ pc[r] = "freeze"
    /\ \/ Succeeds(r) /\ order' = [order EXCEPT ![r] = "frozen"]
       \/ Fails(r, "billing") /\ UNCHANGED order
    /\ GoTo(r, "select")
    /\ UNCHANGED <<dispatch, task, audited, here>>

\* Freeze the estimate.  A refusal for lack of tokens and every error end the
\* request without an audit entry.
Freeze(r) ==
    /\ pc[r] = "freeze"
    /\ \/ /\ Succeeds(r)
          /\ order' = [order EXCEPT ![r] = "frozen"]
          /\ GoTo(r, "select")
       \/ /\ Succeeds(r)
          /\ outcome' = [outcome EXCEPT ![r] = "notFrozen"]
          /\ Finish(r)
          /\ UNCHANGED order
       \/ /\ Fails(r, "billing")
          /\ order' \in {order, [order EXCEPT ![r] = "frozen"]}
          /\ outcome' = [outcome EXCEPT ![r] = "notFrozen"]
          /\ Finish(r)
    /\ UNCHANGED <<dispatch, task, audited, here>>

\* Mutant of SelectProvider: nothing is given back when there is no provider.
SelectAndForget(r) ==
    /\ pc[r] = "select"
    /\ \/ /\ NoProvider
          /\ End(r, "noProvider", "audit")
          /\ UNCHANGED dispatch
       \/ \E p \in Providers :
            /\ Select(p)
            /\ via' = [via EXCEPT ![r] = p]
            /\ pc' = [pc EXCEPT ![r] =
                         IF kind[r] = "openaiStream" THEN "firstChunk" ELSE "call"]
            /\ UNCHANGED <<kind, outcome>>
    /\ UNCHANGED <<stores, here, trouble>>

\* Without a provider the request is over; the tokens go back.
SelectProvider(r) ==
    /\ pc[r] = "select"
    /\ \/ /\ NoProvider
          /\ End(r, "noProvider", "rollback")
          /\ UNCHANGED dispatch
       \/ \E p \in Providers :
            /\ Select(p)
            /\ via' = [via EXCEPT ![r] = p]
            /\ pc' = [pc EXCEPT ![r] =
                         IF kind[r] = "openaiStream" THEN "firstChunk" ELSE "call"]
            /\ UNCHANGED <<kind, outcome>>
    /\ UNCHANGED <<stores, here, trouble>>

\* An OpenAI stream writes its first chunk before the provider is called.
FirstChunk(r) ==
    /\ pc[r] = "firstChunk"
    /\ \/ GoTo(r, "call")
       \/ ~here[r] /\ End(r, "notWritten", "rollback")
    /\ UNCHANGED <<dispatch, stores, here, trouble>>

\* Call the provider.  A streaming one returns a channel, from any other the
\* whole answer is cut into chunks.  Whatever error ends the call, the end of
\* the client's context as well, the provider is marked unavailable.
CallProvider(r) ==
    /\ pc[r] = "call"
    /\ \/ /\ here[r]
          /\ IF kind[r] = "video" THEN GoTo(r, "save")
             ELSE IF kind[r] \in {"stream", "openaiStream"} /\ via[r] \in Streams
             THEN GoTo(r, "chunks")
             ELSE End(r, "success", "settle")
          /\ UNCHANGED dispatch
       \/ /\ MarkUnavailable(via[r])
          /\ End(r, "providerFailed", "rollback")
    /\ UNCHANGED <<stores, here, trouble>>

\* Mutant of ReadChunks: an error ends the loop, not the handler.
ReadChunksAndSettle(r) ==
    /\ pc[r] = "chunks"
    /\ End(r, "streamFailed", "settle")
    /\ UNCHANGED <<dispatch, stores, here, trouble>>

\* Copy the chunks to the client until the last one or the end of the channel.
\* An error in between rolls back, although part was delivered; the provider
\* stays available.
ReadChunks(r) ==
    /\ pc[r] = "chunks"
    /\ \/ End(r, "success", "settle")
       \/ End(r, "streamFailed", "rollback")
    /\ UNCHANGED <<dispatch, stores, here, trouble>>

\* saveVideoTask: the provider works on it; keep the task for those who ask.
SaveTask(r) ==
    /\ pc[r] = "save"
    /\ \/ /\ Succeeds(r)
          /\ task' = [task EXCEPT ![r] = TRUE]
          /\ End(r, "success", "settle")
       \/ /\ Fails(r, "redis")
          /\ task' \in {task, [task EXCEPT ![r] = TRUE]}
          /\ End(r, "notSaved", "rollback")
    /\ UNCHANGED <<dispatch, audited, order, here>>

-----------------------------------------------------------------------------
\* Mutant of Settle: a failed settlement is rolled back.
SettleOrRollback(r) ==
    /\ pc[r] = "settle"
    /\ \/ /\ Succeeds(r)
          /\ order' = [order EXCEPT ![r] = "settled"]
          /\ GoTo(r, "audit")
       \/ /\ Fails(r, "billing")
          /\ order' \in {order, [order EXCEPT ![r] = "settled"]}
          /\ GoTo(r, "rollback")
    /\ UNCHANGED <<dispatch, task, audited, here>>

\* Settle what was used.  A failure is logged, and the content delivered.
Settle(r) ==
    /\ pc[r] = "settle"
    /\ \/ /\ Succeeds(r)
          /\ order' = [order EXCEPT ![r] = "settled"]
       \/ /\ Fails(r, "billing")
          /\ order' \in {order, [order EXCEPT ![r] = "settled"]}
    /\ GoTo(r, "audit")
    /\ UNCHANGED <<dispatch, task, audited, here>>

\* Give the tokens back; a failure is ignored.
Rollback(r) ==
    /\ pc[r] = "rollback"
    /\ \/ /\ Succeeds(r)
          /\ order' = [order EXCEPT ![r] = "returned"]
       \/ /\ Fails(r, "billing")
          /\ order' \in {order, [order EXCEPT ![r] = "returned"]}
    /\ GoTo(r, "audit")
    /\ UNCHANGED <<dispatch, task, audited, here>>

\* Failures that leave no audit entry.
Unaudited(r) ==
    \/ outcome[r] \in {"notSaved", "notWritten"}
    \/ kind[r] = "openaiImage" /\ outcome[r] # "success"

\* Mutant of Audit: the status is not told apart.
AuditSuccess(r) ==
    /\ pc[r] = "audit"
    /\ \/ /\ here[r]
          /\ audited' = [audited EXCEPT ![r] = "success"]
          /\ UNCHANGED trouble
       \/ Fails(r, "redis") /\ UNCHANGED audited
    /\ Finish(r)
    /\ UNCHANGED <<dispatch, outcome, task, order, here>>

\* Answer the client, and push the audit entry to a Redis list.
Audit(r) ==
    /\ pc[r] = "audit"
    /\ LET logged == [audited EXCEPT ![r] =
                         IF outcome[r] = "success" THEN "success" ELSE "failed"]
       IN  \/ Unaudited(r) /\ UNCHANGED <<audited, trouble>>
           \/ ~Unaudited(r) /\ Succeeds(r) /\ audited' = logged
           \/ ~Unaudited(r) /\ Fails(r, "redis") /\ audited' \in {audited, logged}
    /\ Finish(r)
    /\ UNCHANGED <<dispatch, outcome, task, order, here>>

-----------------------------------------------------------------------------
Handle(r) ==
    \/ Freeze(r) \/ SelectProvider(r) \/ FirstChunk(r) \/ CallProvider(r)
    \/ ReadChunks(r) \/ SaveTask(r)
    \/ Settle(r) \/ Rollback(r) \/ Audit(r)

Next ==
    \/ \E r \in Requests :
          \/ \E k \in Kinds : Arrive(r, k)
          \/ Handle(r) \/ Leave(r)
    \/ Crash
    \/ \E p \in Providers :
          Recover(p) /\ UNCHANGED <<handlers, stores, here, trouble>>

Spec == Init /\ [][Next]_vars

-----------------------------------------------------------------------------
(* Properties *)

RequestsTypeOK ==
    /\ pc \in [Requests -> {"idle", "freeze", "select", "firstChunk", "call",
                            "chunks", "save", "settle", "rollback", "audit"}]
    /\ kind \in [Requests -> Kinds \cup {None}]
    /\ here \in [Requests -> BOOLEAN]
    /\ via \in [Requests -> Providers \cup {None}]
    /\ outcome \in [Requests -> Outcomes]
    /\ task \in [Requests -> BOOLEAN]
    /\ audited \in [Requests -> {None, "success", "failed"}]
    /\ order \in [Requests -> {None, "frozen", "settled", "returned"}]
    /\ trouble \in [Requests -> BOOLEAN]

TypeOK == DispatchTypeOK /\ RequestsTypeOK

\* The request is over, and nothing but a provider's failure came between.
Smooth(r) == pc[r] = "idle" /\ here[r] /\ ~trouble[r]

\* Tokens are frozen before a provider works for the request, and stay so
\* until it is known what it made of them (billing.go:27).
FrozenWhileWorking ==
    \A r \in Requests :
        pc[r] \in {"select", "firstChunk", "call", "chunks", "save", "settle",
                   "rollback"} =>
            order[r] = "frozen"

\* The bill agrees with the answer, even when calls fail: nobody is told of a
\* failure and charged, nobody served and given the tokens back.
BilledAsAnswered ==
    \A r \in Requests : pc[r] \in {"audit", "idle"} =>
        /\ order[r] = "settled" => outcome[r] \in {"success", "died"}
        /\ order[r] = "returned" => outcome[r] \notin {None, "success"}

\* Frozen tokens are those of requests in flight: whatever provider fails, at
\* whatever step, nothing stays frozen when the request is over (chat.go:31).
NothingStaysFrozen ==
    \A r \in Requests : Smooth(r) => order[r] # "frozen"

\* The audit log serves reconciliation (audit.go:37): an entry of success
\* stands for a settled order, one of failure for one that was given back.
AuditReconciles ==
    \A r \in Requests : Smooth(r) =>
        /\ (audited[r] = "success") = (order[r] = "settled")
        /\ audited[r] = "failed" => order[r] = "returned"

\* An order is settled or rolled back, once: what it became it stays.
ResolvedOnce ==
    [][\A r \in Requests :
            order[r] \in {"settled", "returned"} /\ order'[r] # order[r] =>
                pc[r] = "idle"]_vars

\* What the handler already knows where it is: settled is only what succeeded,
\* rolled back only what failed, and an order exists once it was frozen.
OutcomeKnown ==
    \A r \in Requests :
        /\ pc[r] = "settle" => outcome[r] = "success"
        /\ pc[r] = "rollback" => outcome[r] \notin {None, "success"}
        /\ pc[r] = "freeze" => order[r] = None

\* What holds of a request all of whose own calls were answered: its order is
\* what its outcome says before it is audited, and what was logged afterwards.
Untroubled ==
    \A r \in Requests :
        /\ pc[r] # "idle" => audited[r] = None
        /\ here[r] /\ ~trouble[r] =>
            /\ pc[r] = "audit" =>
                 order[r] = (IF outcome[r] = "success" THEN "settled" ELSE "returned")
            /\ pc[r] = "idle" =>
                 /\ order[r] # "frozen"
                 /\ (audited[r] = "success") = (order[r] = "settled")
                 /\ audited[r] = "failed" => order[r] = "returned"
=============================================================================
