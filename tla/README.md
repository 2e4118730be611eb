# TokenFusionAI in TLA+

TokenFusionAI sells access to AI models by the token. A NestJS server keeps
users, token accounts, orders and subscriptions in PostgreSQL; a Go gateway
takes generation requests, freezes tokens at the server, calls an AI provider
and settles; a Next.js client talks to both. The repository has neither tests
nor design documents, so everything here is translated from the code. Where a
comment, an entity's documentation or a migration says something the code does
not do, section 6 says so, and two runs show it.

All paths below are relative to the repository. `server` is
`tokenfusionserver/src`, `gateway` is `tokenfusiongateway/internal`, `web` is
`tokenfusionweb`.

## 1. Inventory

| Component | State | Operations | Called by | What is hard |
|---|---|---|---|---|
| Billing ledger (`server/modules/billing`) | `token_accounts` (five columns and a version), `token_records` (unique key) | createAccount, freeze, settle, rollback, recharge, gift; balance and statement are read | gateway over HTTP, orders and registration in process | many requests on one row; duplicates; lost replies; an error after the first of two statements |
| Administration (`server/modules/admin`) | the same accounts, audit logs | adjustTokens, handleUserAction, listings | an administrator | writes balances outside the version protocol |
| Orders and payments (`server/modules/order`) | orders, subscriptions, invoices, payment_events | checkout, two webhooks, renewal, deletion, cancellation | users, Stripe, PayPal | events that are lost, repeated, reordered or handled at once; swallowed errors |
| Accounts, sessions, devices (`server/modules/auth`, `user`) | users, auths, refresh tokens, devices, verification codes (Redis or memory) | register, login, refresh, logout, reset, bind | client, gateway | refresh against logout or reset; a store that falls back per call |
| API keys (`server/modules/apikey`) | api_keys | create (at most five), enable and disable, delete, validate, book usage | user, gateway | a count before an insert; a read-modify-write beside increments |
| Generation history (`server/modules/generation`) | rows of one user | insert, list, delete | client | a list that was read before a deletion |
| Invitations (`server/modules/invite`) | an entity | none | nobody | |
| Gateway handlers and billing client (`gateway/handler`, `service/billing.go`, `audit.go`) | one request's freeze; video tasks in Redis | chat, image, video, code, the OpenAI routes | client | the request's context ends with the client's connection; a failed settlement is only logged |
| Dispatch (`gateway/service/dispatch.go`) | weights, current weights, unavailability per provider | Select, MarkUnavailable, health check | handlers | fairness of a rotation whose members come and go |
| Limits (`gateway/middleware/ratelimit.go`, `circuit.go`, `service/risk.go`) | windows and breaker states in Redis | count, open, half open, close | every request | counters with an expiry set in a second call |
| Gateway authentication (`gateway/service/auth.go`, `middleware/signature.go`) | caches of keys and nonces | verify | every request | cached answers that are stale |
| Web client (`web/hooks`, `web/lib`, `web/components`, `web/app`) | messages, abort controllers, polling timers; lists; the user and tokens of each tab and of localStorage | send, stop, poll, cancel; turn, filter, delete; sign in, register | the user | late and reordered answers; loops that outlive their panel; tabs that share tokens and not users |
| Guards, filters, interceptors (`server/common`) | none | wrap and check messages | every request | what they change in an answer the gateway parses |

Interactions: the gateway and the webhook handlers change tokens only through
BillingService, by a call with an idempotency key; the administrator writes
the same rows directly. BillingService calls nobody. Orders call createAccount
and rechargeTokens after their own transaction has committed. Providers call
the server (webhooks) and are called by it (checkout, cancellation).

What makes each component correct:

* Billing: an idempotency key takes effect once; no update is lost; no column
  is negative; every change has its record; tokens move, they are not made;
  a caller gives up only because others succeeded; nobody waits for ever.
* Administration: what it may disturb of that, and what it may not.
* Payments: an order is invoiced and credited once however it is reported;
  nobody gets more than was paid for, and whoever paid gets it; what the user
  is shown as cancelled is one its provider was told of; events are acknowledged.
* Sessions: an exchanged refresh token is spent; a logout or a reset ends every
  session; a reset shuts the old password out; a reset link works once,
  but for what section 6 says.
* API keys: no more than the limit, but for creations in flight; usage is not
  lost; what is deleted stays deleted.
* Gateway: a provider works only for frozen tokens; what is frozen is settled
  or given back, once, and the bill agrees with the answer.
* Dispatch: the rotation stays balanced whoever leaves it; nobody starves.
* Limits: no counter lets more pass than its limit; a window ends.
* Web client: one stream, which the stop button stops; a panel that says it is
  polling does; polling ends; lists are current once nothing is under way; a
  tab shows one account; the form lets through only what the server accepts.

`PROJECT.json` lists the components, and under `hazards` every place where
these can go wrong, by line, with the properties that watch it.

## 2. Modules

| Module | Models |
|---|---|
| `Ledger` | what BillingService promises: calls applied once per key, in one step |
| `Billing` | BillingService statement by statement; refines `Ledger` (`Promise`) |
| `BillingProofs` | the theorems about `Billing` and `Admin` |
| `Admin` | `Billing` and AdminService.adjustTokens on the same accounts |
| `Payments` | orders, subscriptions, webhooks and cancellation, over an instance of `Ledger` |
| `PaymentsProofs` | the theorems about `Payments` |
| `Dispatch` | DispatchService: the weighted rotation over the available providers |
| `Gateway` | generation requests from freeze to audit entry, over `Dispatch` |
| `GatewayProofs` | the theorems about `Dispatch` and `Gateway` |
| `Limits` | rate limits, circuit breaker and risk control: what a request passes first |
| `LimitsProofs` | the theorems about `Limits` |
| `Sessions` | accounts, refresh tokens, codes and links, password reset, bans |
| `SessionsProofs` | the theorems about `Sessions` |
| `ApiKeys` | the keys of one user |
| `ApiKeysProofs` | the theorems about `ApiKeys` |
| `Generations` | the four generation panels of the web client |
| `Pages` | its pages that list rows, and the server's side of the lists |
| `Forms` | what its registration form lets through, and what the server accepts |
| `SignIn` | its tabs, their stores and localStorage, over `Forms` |
| `Web` | `Generations`, `Pages` and `SignIn`: one browser |
| `WebProofs` | the theorems about `Web` |
| `SumProofs` | what a sum over a finite set is, for the proofs that count tokens, weights and credit |
| `MC*` | the small instances |

### Ledger and Billing

`Ledger` has three variables (who has an account, what its columns hold, which
keys were applied) and two actions. `Billing` has the two tables and, for each
request in flight (`Procs`), where it is in `executeWithOptimisticLock` or
`createAccount`, the call it serves, its loop counter and the account its
current transaction loaded. One action is one statement, because between two
statements the server's event loop runs other requests and PostgreSQL other
transactions:

| Code (billing.service.ts) | Action |
|---|---|
| 201-206 an amount that is not positive | `Refuse` |
| 427-434 look the key up | `PreCheck` |
| 443-456 begin, load, check | `LoadAccount` |
| 458-463 UPDATE ... WHERE id AND version | `UpdateAccount`; no row: `Conflict` |
| 464-496 roll back, try again, give up | `Conflict` |
| 469-481 INSERT the record | `InsertRecord`; unique key taken: `KeyTaken` |
| 482 COMMIT | `Commit` |
| 498-513 look the duplicate up | `Lookup` |
| 82-117 createAccount | `FindAccount`, `SaveAccount`, `SaveConflict`, `RefindAccount` |

The database is PostgreSQL at READ COMMITTED, its default, which the code does
not change. What an open transaction has written is visible to nobody, so it
is not in the tables: `Commit` makes the account and the record visible. What
others do see of it are its locks. An updated row is locked until the end of
the transaction (`RowLocked`), and so is an inserted key (`KeyReserved`): a
statement that needs either waits, and goes on with what is then committed.
That is why `UpdateAccount` can compare the committed version.

`Drop` is a server that dies or a connection that is lost, at any step: the
transaction is rolled back and the caller hears nothing. `Commit` may also
take effect and be reported as failed, which is the case idempotency keys are
there for. A caller may call again with the same key at any time; nothing in
the model makes it wait for an answer first.

`ColumnsAreText` chooses the type of the columns. The migrations
(`1719488000000-InitUsersAndAuth.ts:92`) make them BIGINT, which the pg driver
hands to JavaScript as text, so `account.balance + amount` appends digits
(`Plus`); comparisons and subtractions convert. The entities declare
integers. Both readings are checked: with text columns what survives, with
numeric columns everything.

`began` is the only auxiliary variable: the version of the account when a call
came in, for `ExhaustedByOthers`.

### Admin

An administrator's request (`Admins`) reads the account (`AdjustFind`),
creates it if it is missing (`AdjustSave`: a lost race is an error there), and
writes a balance computed from the one it read, by id (`AdjustWrite`), waiting
only for the row's lock. Next to it run the requests of `Billing`, unchanged.
Bans are in `Sessions`.

### Payments

The first group of variables is external: what was paid, what the providers
were asked to cancel and have ended, which events they send and which were
acknowledged. The second is the server's tables, the third the deliveries and
checkouts and cancellations in flight, the last the ledger: BillingService appears as what
it was shown to promise. A subscription row is named after the event that
created it, since two events may create two rows for one subscription (the
column is not unique).

| Code | Action |
|---|---|
| order.service.ts:67-125 createOrder | `CreateOrder` |
| stripe.service.ts:82-158, paypal.service.ts:85-149 | `StripeSession`, `PayPalOrder`, `AnswerCheckout`; any failure: `CheckoutDrop` |
| paypal.service.ts:188-233 verifyWebhookSignature fails | `RefuseSignature` |
| stripe.service.ts:209-254, paypal.service.ts:235-271, insert the event | `Receive`; any failed insert: `SkipEvent` |
| paypal.service.ts:302-325 whose capture it is | `AskPayPal` |
| stripe.service.ts:288-335, 422-442 | `FindOrder`, `CreateSub`, `LinkSub` |
| order.service.ts:179-289 handlePaymentSuccess | `ReadOrder`, `MarkPaid`, `OpenAccount`, `Recharge` |
| stripe.service.ts:337-396 invoice.paid | `FindSub`, `IssueInvoice`, `OpenAccount`, `Recharge` |
| stripe.service.ts:398-420 subscription deleted | `FindSub`, `CancelSub` |
| stripe.service.ts:270-286 the catch, and processed = true | `Swallow`, `Finish` |
| order.controller.ts:115-147, order.service.ts:291-355 the user's cancellation: which row, which channel, the provider if there is one, the row | `ReadCancelled`, `FindChannel`, `AskProvider`, `CancelLocally`; any failure: `CancelDrop` |

At PayPal only a capture leads to handlePaymentSuccess; a subscription row is
only ever made by a Stripe checkout, so the user's cancellation asks Stripe, or
nobody: the channel is that of an order linked to the row, and a second
checkout event may link the order to another row between the cancellation's
first read and its last. `Pay` takes a PayPal package as captured when it is
paid; how the capture comes about is PayPal's side (section 5).

`Faults` names what may go wrong and `MaxFaults` how often: a verification that
PayPal does not answer, an insert of the
event that fails, a handler's statement that fails (or a COMMIT whose reply is
lost), an answer to the provider that is lost, a server that dies.

### Dispatch and Gateway

Every method of DispatchService holds its mutex throughout, so each is one
step: `Select`, `MarkUnavailable`, and `Recover` for the half minute that
passes (the health check clears only what has passed). `Up` are the available
providers. List ranges over a Go map, so among equals any may come first.

A request of `Gateway` goes through its handler (`pc`); `kind` tells the five
shapes of handler apart.

| Code | Action |
|---|---|
| parsing, authentication and risk control passed | `Arrive` |
| billing.go:98 Freeze | `Freeze` |
| dispatch.go:76 Select, or no provider | `SelectProvider` |
| openai.go:254 the first chunk | `FirstChunk` |
| the provider's Chat, ChatStream, Image, Video or Code | `CallProvider` |
| chat.go:204, openai.go:274 the chunks | `ReadChunks` |
| video.go:215 saveVideoTask | `SaveTask` |
| billing.go:128, router.go:228 | `Settle`, `Rollback` |
| the answer, and audit.go:68 Log | `Audit` |
| the client disconnects; the process ends (main.go:134) | `Leave`, `Crash` |

`here` says that the client is connected, which is that the request's context
is alive: all of the calls carry that context, none succeeds after it ended,
and any may have taken effect although it failed. `Mishaps` names what else may
go wrong: calls to the billing backend, calls to Redis, the process. Providers
may always fail. `trouble` records that one of them touched the request, so
that a property can speak of the requests none touched.

The backend is external, as billing.go speaks to it: a freeze makes an order,
which is settled or rolled back by its id. Amounts are not in `Gateway`: they
are the ledger's. The repository's own server does not speak this protocol:
billing.go:105 takes code 0 for success and reads `data.order_id`, while the
server's interceptor answers code 200 and its validation refuses the
gateway's field names; and main.go registers no provider. What is shown here is
what the handlers do against the protocol they were written for.

The SSE writer's initialisation cannot fail under gin, whose writer flushes;
those branches are left out. A saved video task is only read afterwards.

### Limits

A request goes through the stages of its kind (`Stages`), each one command to
Redis or one check; five kinds of request meet different stages in different
orders (router.go:64-103, and which handler asks risk control for what).

| Code | Action |
|---|---|
| the request comes; router.go:178-201 | `Arrive` |
| signature.go:70-136, auth.go:85-262 | `Signature`, `Authenticate`: pass or refuse |
| ratelimit.go:31-72, 116-190, circuit.go:33-62, 117-149, risk.go:294-341 INCR | `Take`; the counter of the hour that began meanwhile: `TakeLate` |
| circuit.go:94-149 the breaker's state | `Breaker`, `Trip`; an administrator closes it: `CloseBreaker` |
| risk.go:114-167 the blacklists | `Ban` |
| risk.go:169-206 INCR, then EXPIRE | `Rate`, `Expire`, `LoseExpire` |
| a limit is switched off | `Skip` |
| Redis does not answer, and has not counted, or has: the request passes, or the client sends the command again | `Unanswered`, `CountedUnanswered` |
| time passes | `EndWindow`, `Zero`, `NewHour` |
| the gateway dies | `Die` |

The windows of ratelimit.go are counted by one script, so counting and its
expiry are one step; risk.go sends them as two commands, and a client that
disconnects in between is enough to lose the second (risk.go:189 uses the
request's context). Nor is it sent when the answer to the first INCR is lost
(risk.go:182-186): the next request is told that it is the second. `lost` names
the counters that either has happened to. `passed` is auxiliary: the requests a counter let pass in
its window. Requests are computed signatures and credentials apart: the mark of
a nonce in Redis is the request's own, and the caches only repeat answers.

### Sessions

One action is one statement on PostgreSQL or one call to the store of codes,
which is Redis, or the process's memory when Redis does not answer: per call
(auth.service.ts:53-110), so `Flip` between two calls makes them meet
different stores. A call may also go unanswered by itself: a get is then served
from memory (`Reads`), and a set or a del takes effect in memory alone or, when
only its answer was lost, in both stores (`Writes`). So a link or a code is in
any set of stores. Rows of `refresh_tokens` carry, besides the code's columns,
the secret and the era they were opened in: these are auxiliary, as are `era`,
`late`, `cut`, `doubled` and `shaken`, and let the properties speak of what a logout or a
reset should have ended.

| Code (auth.service.ts unless said) | Action |
|---|---|
| user.service.ts:42-111 | `Register`, `InsertUser` |
| 242-292 verification code | `AskCode`, `SendCode`, `Verify`, `MarkVerified`, `DeleteCode` |
| 119-163 login | `Login`, `Issue`, `FindDevice`, `Bind` |
| 171-214 refresh | `Refresh`, `RevokeOld`, `Issue` |
| 225-240, 333-340 logout | `Logout`, `LogoutDevice`, `RevokeAll` |
| 297-331, user.service.ts:173-190 reset | `Forgot`, `Reset`, `SetPassword`, `DeleteLink`, `RevokeAll` |
| admin.service.ts:159-195 | `Ban` |
| a token's or a code's end | `Expire`, `ExpireCode`, `ExpireLink` |
| a statement fails, the server starts anew | `Fail`, `Restart` |

### ApiKeys

| Code (apikey.service.ts) | Action |
|---|---|
| 86-139 the count, then the INSERT | `Create`, `Insert` |
| 173-194 findOne, then save: read again, write what differs | `Toggle`, `Save`, `Update` |
| 202-214 | `Delete`, `Remove` |
| 227-315 validate, add usage, set the time | `Validate`, `Book`, `Stamp` |
| a request dies between two statements | `Fail` |

TypeORM's `save` reads the row again and writes the columns that differ
(`Differing`): a toggle writes back whatever was booked between the two reads
(`raced`). `Stamp` takes the date when the row is written; the code takes it
before it sends the update (apikey.service.ts:310-313), so two bookings may
write their dates out of order, which no property asks about.

### The web client

`Generations` follows one panel from its mount on; a panel starts afresh when
it is shown. One action is one event with all that is settled by it: a click,
the headers of an answer, a piece of a stream, a timer. `Pages` follows one of
the three pages with a list, and the serving of its requests by the server in
any order. `SignIn` follows a browser's tabs.

| Code | Action |
|---|---|
| useGeneration.ts:140-249 sendMessage | `Send`, `Headers`, `Chunk` (sse.ts:37-173), `EndChat` |
| useGeneration.ts:251-271 | `Stop`, `Clear` |
| useGeneration.ts:392-513 the video task and its loop | `Submit`, `Submitted`, `SubmitFailed`, `Answered`, `Fire` |
| useGeneration.ts:515-531 | `Cancel`, `Leave` |
| useGeneration.ts:326-366, 575-597 image and code | `Generate`, `Generated` |
| the pages' effects and fetches, e.g. history/page.tsx:85-137 | `Mount`, `Turn`, `Choose`, `Deliver`, `FetchFails`, `Retry`, `Confirm`, `Confirmed`, `Refused` |
| generation.service.ts:73-157 | `Serve`, `Apply` |
| layout.tsx of (dashboard) and (admin), Navbar.tsx | `Visit`, `Open`, with `Arrive` and `Landing` |
| LoginForm.tsx, useAuth.ts:31-56, authStore.ts | `SubmitLogin`, `LoggedIn`, `LoginFails` |
| RegisterForm.tsx, ForgotPasswordForm.tsx | `SubmitRegister`, `Registered`, `SubmitForgot`, `ForgotAnswered` |
| request.ts:26-142 | `Ask`, `Answer` |
| validation.ts:102-252, register.dto.ts, temp-email.util.ts | `registerSchema`, `getPasswordStrength`, `ServerAccepts` |

`stopped` and `disowned` are auxiliary. Stopping ends as an error, and reading
an error's body may be refused later than the next message is sent; the
`finally` clause then clears `abortRef` although it is the next one's. In
`Pages`, `outdated` says that the last request was for a page no longer chosen,
or that a change was made of which the page did not learn. In `SignIn`,
`behind` are the tabs behind whose back another tab signed in as somebody else.

`SignIn` takes answers as lib/api/auth.ts declares them, lets redirections take
no time, and takes the two libraries to agree on what an address is. What the
server answers is wrapped (section 6).

## 3. Runs

| Run | Instance | Question |
|---|---|---|
| `Billing_numbers` | 1 user, 2 requests, 2 attempts, 3 keys, 7 calls | does the executor do what it promises? |
| `Billing_text` | the same with text columns | does a statement add up? (no) |
| `Admin_text` | 2 users, 2 requests and 1 administrator, text columns | what survives both? |
| `Payments_webhooks` | a Stripe subscription with one renewal, 2 deliveries, one copy, two faults | safety |
| `Payments_progress` | a PayPal package, 2 deliveries, one copy, two faults | liveness |
| `Payments_redelivery` | one delivery at a time, one crash | is an acknowledged event processed? (no) |
| `Dispatch_rotation` | 3 providers of weights 3, 2, 1 | is the rotation balanced, bounded and fair? |
| `Gateway_requests` | 2 requests, 2 providers (one streams), every mishap | are requests billed as answered? |
| `Limits_gates` | 2 requests at a time, for ever, of 2 kinds, one subject and address, limit 1, one fault | do counters hold, and end? |
| `Sessions_requests` | 2 requests at a time, 4 in all, 2 users (one registered), 1 device, 3 tokens, 1 link, Redis lost, back or silent twice | what does a rotation, a logout, a reset end? |
| `ApiKeys_requests` | 3 requests at a time, 6 in all, 3 keys, limit 1 | is the limit kept, is usage exact, is deletion final? |
| `Web_visits` | 3 generations; or 4 list requests, 2 changes, 2 pages; or 2 tabs, 2 accounts, 2 logins | does the client show what it should? |

What the properties say, and the code they are about:

* `Coherent` (`Billing`): between its statements, what a transaction knows of
  the tables is true, and a row or key has one writer. `TypeOK` needs it: a
  check made on an account loaded earlier keeps a column above zero only
  because the version stands for the columns.
* `OneEffectPerKey`, `VersionsAreRecorded`, `AnsweredIsRecorded`,
  `ChangesAreRecorded`: the idempotency and bookkeeping of the executor.
* `AccountsAreBooked`, `StatementAddsUp`, `ImplementsLedger`: what the amounts
  are. The first sums, for each of the five columns, what the records of a user
  moved: an account can be audited from its records. That tokens are neither
  made nor lost between the columns (`Conservation`) is a theorem of its own.
* `ExhaustedByOthers`, `EveryCallIsAnswered`: a failed call had as many
  successful rivals as it had attempts; no request waits for ever, although
  row and key locks are both taken (the row first, by every transaction).
* `OneInvoicePerOrder`, `CreditedIsInvoiced`, `NeverOverCredited`,
  `CancelledIsStopped`, `EveryEventIsAcknowledged`, `PaidIsCredited`: see
  their comments in `Payments`. `CancelledIsStopped` has one exception, which is
  the code's (section 6): a row that a second checkout event replaced while it
  was being cancelled. Whoever paid gets the tokens only if nothing
  failed: the handlers swallow their errors and acknowledge.
* `NoDrift`, `NobodyStarves` (`Dispatch`): the current weights sum to zero, and
  none is further from it than half the total weight for each other provider
  (`Allowance` is that, doubled); an available provider is passed over at most
  (n - 1) * W / w times, where w is its weight, W the total and n the number of
  providers. Providers leave and return between any two selections with the
  weight they had. That no current weight reaches the total, which holds while
  all are available, is then false: with weights 1, 1, 1, 1 and 5 and the right
  absences, one of the lightest comes to -10.
* `FrozenWhileWorking`, `BilledAsAnswered`, `ResolvedOnce` (`Gateway`): what
  holds whatever fails. `NothingStaysFrozen`, `AuditReconciles`: what holds for
  a request that only providers failed; a client that left, a failed call or a
  crash can leave tokens frozen.
* `WithinLimits`, `StuckHadFault`, `LimitedRecovers` (`Limits`): however many
  requests count at once, and whatever the breaker does meanwhile, no counter
  lets more than its limit pass; one that never ends lost to a fault its EXPIRE,
  or the answer to the INCR that was to be followed by it; whoever is over any
  other is let in again.
* `SpentIsRevoked`, `EndedSessionsAreOver`, `OldPasswordIsShutOut`,
  `UsedLinkIsGone` (`Sessions`): each names the exceptions the code leaves open
  by their causes, and says there is no other: a request that was under way at
  that moment; for a link, a SET whose answer was lost, so that both stores keep
  it, and a store that changed, or left a call unanswered, between the kvGet and
  the kvDel of its reset.
* `OvershootIsConcurrent`, `UsageIsExact`, `DeletedStaysDeleted` (`ApiKeys`): by
  how much the limit can be passed, which bookings can be lost, and that a
  late write does not bring a row back.
* `OneStream`, `PollingShown`, `PollingEnds` (`Generations`), `ListIsCurrent`
  (`Pages`), `OneAccount`, `AcceptedByServer` (`SignIn`): see section 1, and the
  exceptions their comments name.

Bounds, and why they are enough. Two requests are the smallest number that
interleaves, and the row lock admits one writer at a time: a third request
repeats what a second does to the first, except for exhausting attempts, which
two requests do by succeeding again and again (`MaxAttempts` is 2 there, so
that one request can lose twice; the keys suffice for that). Every
key is carried by two different calls, so a taken key is met by its own call
and by another. In `Admin_text` one key is used for two users, so that a
transaction that holds one row waits for the key of another. Amounts are 1 and
2: enough for a freeze to fail, to be settled in part and to be rolled back;
on text columns an amount has at most five digits (`AmountBound`), so that the
concatenations fit TLC's integers. The number of records is bounded by the
keys, and so is every balance. Payments bounds copies (`MaxCopies`) and faults
(`MaxFaults`); both events that may be doubled are, the deletion races both,
and with two faults a redelivery can fail again. Requests
of `Billing` are not made symmetric: the liveness runs forbid it, and the others
are small.

`Dispatch` needs no bound: its state space is finite, and that is `NoDrift`.
Three providers let one leave while two rotate. Requests of `Gateway` meet only
in `Dispatch`, so two are enough for one to take away the other's provider, and
two providers, one of them streaming, for every branch of a handler. A mishap
may strike at every call, any number of times; an idle request may come again,
of any kind. Requests are symmetric there: no liveness is checked, and no
definition names one.

`Limits`: a limit of 1 is passed by the second request, which is the first that
may race; the two kinds together pass every counter and the breaker, and share
the global one; a request that ended may come again, so windows end and fill
without bound. Faults are bounded by one, since each property excuses what one
fault can do. `Sessions`: four requests are a login, what ends its session, and
two more that race them, such as a refresh and a reset with its link; three
tokens are a session, its successor and a rival of it; one fault of Redis is what
it takes to keep a link in both stores, or to save to one store and delete from
the other, and two to read from memory beside a Redis that is there. Tokens and processes
are symmetric. `ApiKeys`: three requests at once pass a limit of one by two;
one tells a toggle, a booking and a deletion of one key apart; keys and
processes are symmetric. `Payments_webhooks` makes deliveries symmetric, as no
liveness is checked there, and compares states by `WhatMatters`, a VIEW: it
leaves out `processed`, which no guard reads, `acked` for events that have a row
and are not handled again, and what a delivery holds of an event or a row once it
does not use it any more. Two states alike in the rest have the same future but
for these, and the properties of that run name none of them. `Web`: three generations are a stopped one, its
successor, and the one that clears it again; loops of three tasks share a timer
and a count (`MaxPolls` 2); four requests for a list are the mount, two
overlapping ones and the refetch of a change; the form's inputs lie on both
sides of every length the rules name. The three parts read nothing of each
other, so `Web_visits` follows one at a time (`Web!Init`); it is one run because
the question is one.

Deadlock is checked for `Billing`, `Admin`, `Dispatch` and `Gateway`, where a
new call is always possible. It is not for the others (`CHECK_DEADLOCK FALSE`):
in `Payments` once everything is paid, delivered and cancelled nothing is left
to do; `Sessions`, `ApiKeys` and `Web` stop at the bounds on their requests; in
`Limits` a counter that lost its end at its limit may leave nothing to pass.

Fairness. `Billing`: weak fairness of every step that waits for nobody, since
Node's event loop runs each ready request; strong fairness of the steps that
wait for a lock, since PostgreSQL queues waiters and grants a lock in turn, but
others may take it in between. Calls, crashes and lost replies are not fair:
nobody has to call. `Payments`: weak fairness of a handler's steps; strong
fairness of delivering an event that is not acknowledged, since Stripe and
PayPal send it again, and a server may be busy or the event in flight in
between. Nobody has to order, pay, renew or cancel. `Limits`: weak fairness of
the end of a window, which is time passing, and of `Expire`, the next command of
a request that is running (its death or its fault is another action). `Web`:
weak fairness of the answer to a poll, which the browser's time limit gives if
nobody else does, and of a timer that is set. The others assume no fairness.

Each property of a passing run is broken by a mutant: a plausible bug, written
next to the definition it mutates and named in `PROJECT.json`.

## 4. Theorems

`BillingProofs` proves, for any users, keys, calls, number of requests and
attempts:

| Theorem | Statement |
|---|---|
| `Coherence`, `TypeCorrect` | `Spec => []Coherent`, `Spec => []TypeOK` |
| `EffectOncePerKey` | `Spec => []OneEffectPerKey` |
| `EveryVersionRecorded` | `Spec => []VersionsAreRecorded` |
| `EveryChangeRecorded` | `Spec => ChangesAreRecorded` |
| `SuccessIsDurable` | `Spec => []AnsweredIsRecorded` |
| `ExhaustedFairly` | `Spec => []ExhaustedByOthers` |
| `CallsComeToAnEnd` | `Spec => CallsEnd`: each step of a request in flight counts down what it has left, at most `2 * MaxAttempts + 4` steps |
| `BooksBalance`, `NothingIsLost`, `StatementsAddUp`, `ServiceIsLedger` | `AccountsAreBooked`, `Conservation`, `StatementAddsUp` and `ImplementsLedger`, assuming `~ColumnsAreText` |

All but the last four hold for text columns too. The assumptions are those
declared in `Billing`: the calls are calls (and short, on text columns), there
is at least one attempt, and the columns are one or the other.

The argument. `Inv` is `TypeOK /\ Coherent`, and it is inductive. `TypeOK`
alone is not: `Commit` writes `seen.balance - amount`, and only `SnapshotsHold`
says that the amount was covered by `seen`. `OneEffectPerKey` is not either:
`Commit` adds a record, and only `KeysHaveOneWriter` says that its key is new,
which `InsertRecord` establishes and the reservation keeps.
`VersionsAreRecorded` needs `RowsHaveOneWriter`: the version a commit writes is
the next one. With `Inv`, `TablesChange` reduces every step to one of three: a
commit, whose effect `CommitEffect` describes, a new empty account, or nothing;
each theorem is then one invariant over these three cases. `ExhaustedByOthers`
needs a second inductive invariant, `AttemptsAreLost`, which counts the
versions a request has lost its attempts to. The arithmetic of the five
operations is in `PlusType`, `UpdatedType` and `NumbersMove`. `BooksBalance`
needs that a commit's record is a new one, of the one user whose row it writes:
its sums then grow by one term (`OneMoreBooked`), which is what the columns
moved (`ColumnsMove`), and the sums of the others stay.

`CallsComeToAnEnd` is what `EveryCallIsAnswered` says but for fairness: a
request cannot retry, or be sent round its labels, for ever; what remains for
liveness is that a statement that waits for a row or a key is let through.

`GatewayProofs` proves, for any providers and positive weights, requests and
mishaps:

| Theorem | Statement |
|---|---|
| `DebtsAreBounded` | `DispatchSpec => []NoDrift` |
| `EveryTurnComes` | `DispatchSpec => []NobodyStarves` |
| `GatewayRotates` | `Spec => DispatchSpec` |
| `RequestsShareFairly` | `Spec => [](NoDrift /\ NobodyStarves)` |
| `TypeCorrect` | `Spec => []TypeOK` |
| `FrozenFirst` | `Spec => []FrozenWhileWorking` |
| `BillAgrees` | `Spec => []BilledAsAnswered` |
| `OrdersResolveOnce` | `Spec => ResolvedOnce` |
| `NothingFrozen` | `Spec => []NothingStaysFrozen` |
| `LogReconciles` | `Spec => []AuditReconciles` |

`NoDrift` bounds single providers, and is not inductive: one that is passed over
while at the bound might pass it. `Balance` bounds every group S of the n
providers: twice what they are owed together is at most |S| (n - |S|) W. A group
that has the chosen provider pays for the rest, so its sum does not rise. In any
other, take a member `a` that was passed over, and compare the group without `a`
with the group and the chosen one: `a` is owed no more than the chosen one was,
and since |S| (n - |S|) is concave their two bounds add up to twice the bound of
S less the turn that S gains. That uses the new bound of a smaller group, so the
argument is about a smallest group for which the bound fails. `Owed` ties how
often a provider was passed over to what it is owed, and `NobodyStarves`
follows.
`GatewayRotates` is the refinement: whatever requests do, their selections,
failures and restarts are steps of `Dispatch`, so that the bounds hold in
`Gateway` as well.

The invariant of the requests adds to their two properties the types and
`OutcomeKnown`: a request that is about to settle has succeeded, one about to
roll back has failed, and one that has not frozen has no order. Without it `Settle` could charge a
failure as far as `BilledAsAnswered` knows. The last two theorems need a second
inductive invariant, `Untroubled`: what an order and an audit entry are, at each
end of a request whose own calls were all answered.

`BillingProofs` also proves, of `Admin`'s `SystemSpec`, for any administrators
and adjustments beside any requests:

| Theorem | Statement |
|---|---|
| `AdminTypeCorrect` | `SystemSpec => []AdminTypeOK` |
| `AdminEffectOncePerKey` | `SystemSpec => []OneEffectPerKey` |
| `AdminEveryVersionRecorded` | `SystemSpec => []VersionsAreRecorded` |
| `AdminSuccessIsDurable` | `SystemSpec => []AnsweredIsRecorded` |

`Coherent` is `Orderly /\ SnapshotsAgree`: an adjustment writes a balance without
counting the version up, so that a snapshot of the present version need not be
the account, and `SnapshotsAgree` is lost, and with it `AccountsAreBooked`,
`StatementAddsUp`, `Conservation` and `ChangesAreRecorded`. `Base`, the types with `Orderly`, is
inductive without it (`NextBase`), and the steps of the three properties that
survive (`OneEffectStep`, `VersionsStep`, `AnsweredStep`) need only `Base`, and serve
both specifications. What is left is that an adjustment keeps `Base` (`AdminBase`).

`PaymentsProofs` proves, for any orders, renewals, events, copies, deliveries in
flight and faults:

| Theorem | Statement |
|---|---|
| `TypeCorrect` | `Spec => []TypeOK` |
| `OneInvoice` | `Spec => []OneInvoicePerOrder` |
| `CreditIsSold` | `Spec => []CreditedIsInvoiced` |
| `CreditIsPaid` | `Spec => [](applied \subseteq charged)` |
| `CreditIsBounded` | `Spec => []NeverOverCredited` |
| `CancelledStops` | `Spec => []CancelledIsStopped` |
| `PaymentsUseTheLedger` | `Spec => Billing!Spec`, the instance of `Ledger` |
| `PaymentsAreSettled` | `Spec => []NothingIsOwed` |

`CancelledStops` has an invariant of its own on top (`Stops`): no two deliveries
handle one event, so a row that an order was once linked to is linked by nobody
again; a cancellation that finds its row without an order finds it replaced, and
leaves it so.

The invariant of the others ties each delivery to its event (`DeliveryOK`): it has a row, and
is at a statement of the handler of its kind, so that only a checkout or a
capture marks an order paid and only a renewal gets an invoice beside it; a
recharge is of a bill with an invoice; a cancellation of the subscription the
event is of. `ProvidersOK` says that events are true: a deletion of something
that ended, every other of something that was paid. `SubscriptionsOK` ties an
order to a row of its own, and the cancellation of it to what the provider was
asked.

`CreditIsBounded` sums: an account was recharged what the bills applied to it
bought (`Credited`), which are among those that were charged. A recharge adds
one bill to the sum, once. `PaymentsUseTheLedger` is the other half of what
`ServiceIsLedger` shows of `Billing`: payments need no more of BillingService
than the ledger, and move tokens by nothing else. `PaymentsAreSettled` is
`PaidIsCredited` and `EveryEventIsAcknowledged` but for fairness: unless
something failed, when no delivery is under way every event that was recorded or
acknowledged is processed, and every order whose payment was reported is paid
and credited (`NothingIsOwed`). Its invariant (`Owing`) says who still owes the
rest: the delivery that holds an event's row is at a statement before the one
that does it.

`SessionsProofs` (`TypeCorrect`, `RotationSpends`, `SessionsEnd`,
`OldPasswordEnds`, `LinkIsUsedUp`, `SpentTokensStaySpent`), for any users,
devices, tokens, links and requests. `Rotation` says that a request about to insert a successor has
revoked, or found expired, its parent. `SessionsCurrent` and `RequestsCurrent`
say of every live session and of every request that will open one that it is of
the present era and password (`Current`), or of a user with a reset under way
(`HalfReset`), or was under way when the sessions ended; they imply two of the
properties, which are not inductive because a request carries what it read
before. `LinkInv` is an invariant on top: a link is in one store unless `doubled`
(`OneStore`), and a reset that nothing has `shaken` has its link in the store
that answers (`HeldHere`), where it will delete it. `LinkWasSent` is needed for the types of a reset. `SpentTokensStaySpent`
is about steps: nothing brings a spent token back, no request takes one up, and
each request that had found it unspent exchanges it for one new token at most.

`ApiKeysProofs` (`TypeCorrect`, `LimitHolds`, `UsageExact`, `DeletedForGood`), for
any number of requests, keys and any limit. `LimitHolds` counts: an insert moves
one from the requests inserting to the keys, by the library's theorems about
cardinalities, and `Create` begins only below the limit. `Copies` says what a
toggle holds of the row, as long as nothing was booked between its two reads.

`LimitsProofs` (`TypeCorrect`, `LimitsHold`, `StuckByFault`), for any requests,
subjects, addresses and limits: `CountersOK` bounds what passed by what was
counted, and that by the limit. What `StuckByFault` says is a conjunct of that
invariant: only an INCR makes a counter, and it either sets its end, leaves that
to its request, or was not answered.

`WebProofs` (`StreamsOneByOne`, `ShownIsPolled`, `QuietIsCurrent`,
`ShowsOwnAccount`, `RegistrationAgrees`, `TypeCorrect`, and `NeverWeak` about the
password meter), for any generations, requests, pages, tabs, accounts and
inputs. `VideoJobs` keeps tasks on the video panel. `GoodAnswer` says of every
request of a list, served or not, that its arguments are those of the page or
`outdated` is set, and that it was served the present version or some change is
still under way; `Numbered` and `InOrder` that the last one sent is the one with
the highest number. `OwnToken` says that a tab that is not behind has asked only
with its own account's token, so no answer shows rows of another.

Sums and cardinalities. The library's induction theorem for finite sets takes
an operator as a parameter, which the installed provers cannot instantiate.
`SumProofs` goes another way: strict inclusion is well founded on the subsets of
a finite set, which the library states of first-order relations; so if an
equation about sums failed for some subset, it would fail for a smallest one,
and taking one member away (`SumTake`) contradicts that.

Every invariant and every action property a run checks is stated by a theorem.
Only model-checked is liveness (`EveryCallIsAnswered`,
`EveryEventIsAcknowledged`, `PaidIsCredited`, `LimitedRecovers`, `PollingEnds`),
which the prover cannot derive from fairness; for the first and the third the
theorems above prove the part that needs none.

## 5. Not modelled, and why

* getBalance, getRecords, listings, statistics and the dashboards only read, and
  no property is about two of their reads; the generation history's list is in
  `Pages` because a page changes it. Its `create` is one insert of an internal
  route that nothing in the repository calls.
* capturePayment and giftTokens have no caller in the repository. The gift is
  in the ledger because it is an operation of the service. A PayPal order is
  created with the intent CAPTURE (paypal.service.ts:117), and capturePayment
  (166-188) is the only code that would capture it: `Pay` therefore assumes that
  the capture is made outside the repository, and models what follows from its
  event. Without it no PayPal package is ever paid. Nor have
  `resetQuota`, AddToBlacklist, MarkAvailable, useAuth's refreshToken and logout,
  or the `clear` of the image and code hooks.
* Password hashes, access tokens (which nothing revokes), the arithmetic of
  signatures, the numbers drawn for orders and invoices, and the wording of
  answers. Signatures and credentials are stages of `Limits` that pass or refuse.
* free_quota_rules and invitations: entities no code uses.
* Guards, filters and interceptors keep no state. What they do to a message is
  in section 6.
* The comment at billing.service.ts:60 says at most three retries; the code
  makes three attempts, two retries. The model has the code's number.
* The amounts a settlement names: when they differ from the estimate, the
  repository has no code on the gateway's side that reconciles the rest.
* In the client: layout, texts and figures, the administrator's pages, the
  fingerprint of a device, the payments page (it opens the address the server
  answers).
* Composition of gateway, server and client: they do not speak the same
  protocols (section 6), so each is modelled against the one it was written for.

## 6. Where the code and its words differ

Two runs violate the property they check; the traces are TLC's.

* `Billing_text`: with the BIGINT columns of the migrations a recharge of 1 on
  a balance of 2 writes 21 (billing.service.ts:348). This takes the production
  setting: PostgreSQL, whose tables the migrations make, and its driver, which
  returns BIGINT as text. The entity declares integers
  (token-account.entity.ts:27), and in the development setting
  (DB_TYPE=sqlite, database.config.ts:29) the tables are made from it: the
  columns arrive as numbers, which is what `Billing_numbers` and the theorems
  about amounts assume.
* `Payments_redelivery`: an event whose handler died is taken for a processed
  duplicate when it is delivered again (stripe.service.ts:249; the entity says
  it is skipped when processed is true).

Others were met while modelling, and are what the models do:

* A duplicate that passes the pre-check, and loads after its first instance
  committed, is refused for lack of tokens, or gives up, though its record
  exists (billing.service.ts:58 says it gets the record).
* An adjustment changes a balance without a record (admin.service.ts:255;
  billing.service.ts:61 says every change has one).
* A cancellation may ask no provider: when a second checkout event links the
  order to a row of its own after order.controller.ts:126 read the first one, no
  order is linked to that one, the channel is null (order.service.ts:349-352),
  no provider is asked (order.controller.ts:139-143), and the row is marked
  cancelled all the same, while the subscription goes on. order.service.ts:296
  says 先第三方、后本地, the third party first, then the local row.
  `CancelledIsStopped` excepts just such rows (`Replaced`); without the
  exception TLC finds this trace.
* A deletion delivered before the first payment's event is forgotten, and the
  subscription created later stays active (stripe.service.ts:408).
* A provider call that ends with the client's connection takes the rollback's
  context with it, and the tokens stay frozen (chat.go:123; billing.go:150 says
  they are returned). The provider, which did nothing wrong, is also marked
  unavailable for half a minute.
* The rate limit of risk control counts and sets the end in two commands with
  the request's context: a client that disconnects in between leaves a counter
  that never ends (risk.go:188), and so does a first INCR that Redis served and
  whose answer was lost (risk.go:182).
* A reset link that both stores were given works a second time, from the one
  that did not forget it (auth.service.ts:63-67, 331).
* A toggle of an API key writes back the usage it read (apikey.service.ts:188).
* Cancelling a video while it is submitted has no effect, and cancelling or
  leaving while a poll is on its way does not stop the loop
  (useGeneration.ts:421, 515); the loops share one count of polls.
* A password of letters, digits and an underscore is refused as not mixed, and
  the meter may call it strong (validation.ts:114, 235).
* Components that do not fit: the gateway's claims name `user_id` where the
  server signs `sub`, so that risk control refuses every logged-in request; the
  gateway checks an API key at a route of the server that wants a JWT, and never
  calls the server's internal routes for keys; it takes code 0 for success where
  the server's interceptor answers 200, and its fields are refused by the
  server's validation; the client's paths differ from the server's
  (`/api-keys`, `/apikeys`), it does not unwrap `{code, data}`, and it waits for
  the status 'succeeded' where the gateway writes 'success'.

## 7. State of the plan

Everything planned is done: each component with state of its own has a module,
a run and theorems. What could still be added:

1. The safety halves of the other liveness properties, as for `Billing` and
   `Payments`: that a loop of polls, a limited subject and a repeated delivery
   have a measure that only goes down.
2. `Gateway` over the columns of `Ledger`, when the repository has code that
   reconciles a settlement with its freeze; and over the server, when both speak
   one protocol.
3. The quota of a key and its end, when something sets them.
