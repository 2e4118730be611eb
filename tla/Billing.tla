------------------------------ MODULE Billing ------------------------------
(***************************************************************************)
(* BillingService (tokenfusionserver, modules/billing/billing.service.ts)  *)
(* on PostgreSQL at READ COMMITTED.  Any number of requests run the        *)
(* optimistic-lock executor at once; they meet only in the two tables      *)
(* token_accounts and token_records.  An UPDATE keeps its row locked, and  *)
(* an INSERT its unique key reserved, until the transaction ends.          *)
(***************************************************************************)
EXTENDS Integers, FiniteSetsExt

CONSTANTS
    Users,          \* rows token_accounts may hold, one per user
    Keys,           \* idempotency keys
    Calls,          \* the calls other services may issue
    Procs,          \* requests the server can have in flight
    MaxAttempts,    \* MAX_OPTIMISTIC_RETRIES
    ColumnsAreText  \* TRUE: the BIGINT columns of the migrations, which the
                    \* pg driver returns as text.  FALSE: the INTEGER columns
                    \* the entity declares, which arrive as numbers.

FundOps == {"freeze", "settle", "rollback", "recharge", "gift"}
Ops == FundOps \cup {"open"}
Call == [op: Ops, user: Users, amount: Int, key: Keys]

\* On text columns amounts keep to five digits, so that balances of a few
\* concatenated amounts fit TLC's integers.
AmountBound == 100000

ASSUME CallsAssumption ==
    /\ Calls # {}
    /\ Calls \subseteq Call
    /\ ColumnsAreText => \A c \in Calls : c.amount < AmountBound
ASSUME AttemptsAssumption == MaxAttempts \in Nat \ {0}
ASSUME ColumnsAssumption == ColumnsAreText \in BOOLEAN

VARIABLES
    open,      \* token_accounts: the users that have a row
    accounts,  \* token_accounts: the committed columns of each row
    records,   \* token_records: the committed rows
    pc,        \* where each request is
    call,      \* the call it serves
    attempt,   \* the loop counter of executeWithOptimisticLock
    seen,      \* the account its current transaction loaded
    reply,     \* what it answered last
    began      \* auxiliary: the version of the account when the call came in

tables == <<open, accounts, records>>
requests == <<pc, call, attempt, seen, reply, began>>
vars == <<tables, requests>>

Account == [balance: Nat, frozen: Nat, totalRecharged: Nat,
            totalConsumed: Nat, totalGifted: Nat, version: Nat]

NewAccount == [balance |-> 0, frozen |-> 0, totalRecharged |-> 0,
               totalConsumed |-> 0, totalGifted |-> 0, version |-> 0]

\* seq is the place of the row among its account's rows; the code orders them
\* by the serial id.
Record == [key: Keys, user: Users, op: FundOps, amount: Int,
           balanceAfter: Nat, seq: Nat]

Labels == {"idle", "precheck", "load", "update", "insert", "commit", "lookup",
           "findAccount", "saveAccount", "refindAccount"}

Replies == {"none", "applied", "existing", "rejected", "notFound",
            "exhausted", "error", "lost"}

-----------------------------------------------------------------------------
PowersOfTen == {10, 100, 1000, 10000, 100000}

\* JavaScript's x + n for a column x and an amount n >= 1: on text it appends
\* n's digits, and PostgreSQL reads the result back as one number.
Plus(x, n) ==
    IF ColumnsAreText THEN x * Min({s \in PowersOfTen : n < s}) + n
                      ELSE x + n

\* Mutant of Covered: settlements and rollbacks are not checked.
CoveredIfFreeze(c, a) == c.op = "freeze" => c.amount <= a.balance

\* The checks the five operations make on the account they loaded.
Covered(c, a) ==
    /\ c.op = "freeze" => c.amount <= a.balance
    /\ c.op \in {"settle", "rollback"} => c.amount <= a.frozen

\* The row after the UPDATE of call c: only the columns the operation names
\* are set, each computed from the account a the transaction loaded.
Updated(c, a, row) ==
    LET n == c.amount IN
    CASE c.op = "freeze" ->
            [row EXCEPT !.balance = a.balance - n,
                        !.frozen = Plus(a.frozen, n),
                        !.version = a.version + 1]
      [] c.op = "settle" ->
            [row EXCEPT !.frozen = a.frozen - n,
                        !.totalConsumed = Plus(a.totalConsumed, n),
                        !.version = a.version + 1]
      [] c.op = "rollback" ->
            [row EXCEPT !.frozen = a.frozen - n,
                        !.balance = Plus(a.balance, n),
                        !.version = a.version + 1]
      [] c.op = "recharge" ->
            [row EXCEPT !.balance = Plus(a.balance, n),
                        !.totalRecharged = Plus(a.totalRecharged, n),
                        !.version = a.version + 1]
      [] c.op = "gift" ->
            [row EXCEPT !.balance = Plus(a.balance, n),
                        !.totalGifted = Plus(a.totalGifted, n),
                        !.version = a.version + 1]

\* Mutant of RecordOf: the balance of the account before the call.
RecordBefore(c, a) ==
    [key |-> c.key, user |-> c.user, op |-> c.op,
     amount |-> IF c.op \in {"freeze", "settle"} THEN -c.amount ELSE c.amount,
     balanceAfter |-> a.balance,
     seq |-> a.version + 1]

\* The token_records row of call c: negative for what leaves the balance or
\* is consumed, and the balance computed from the loaded account.
RecordOf(c, a) ==
    [key |-> c.key, user |-> c.user, op |-> c.op,
     amount |-> IF c.op \in {"freeze", "settle"} THEN -c.amount ELSE c.amount,
     balanceAfter |-> Updated(c, a, a).balance,
     seq |-> a.version + 1]

Recorded(k) == \E r \in records : r.key = k

\* Requests whose transaction has updated the row of user u.
Writers(u) == {p \in Procs : /\ pc[p] \in {"insert", "commit"}
                             /\ call[p].user = u}

RowLocked(u) == Writers(u) # {}

KeyReserved(k) == \E p \in Procs : pc[p] = "commit" /\ call[p].key = k

-----------------------------------------------------------------------------
GoTo(p, label) ==
    /\ pc' = [pc EXCEPT ![p] = label]
    /\ UNCHANGED reply

\* The call returns or throws: the executor's local variables are gone.
Answer(p, r) ==
    /\ pc' = [pc EXCEPT ![p] = "idle"]
    /\ reply' = [reply EXCEPT ![p] = r]
    /\ attempt' = [attempt EXCEPT ![p] = 1]
    /\ seen' = [seen EXCEPT ![p] = NewAccount]

Init ==
    /\ open = {}
    /\ accounts = [u \in Users |-> NewAccount]
    /\ records = {}
    /\ pc = [p \in Procs |-> "idle"]
    /\ call = [p \in Procs |-> CHOOSE c \in Calls : TRUE]
    /\ attempt = [p \in Procs |-> 1]
    /\ seen = [p \in Procs |-> NewAccount]
    /\ reply = [p \in Procs |-> "none"]
    /\ began = [p \in Procs |-> 0]

\* A service calls BillingService.
Issue(p, c) ==
    /\ pc[p] = "idle"
    /\ c.op \in FundOps => c.amount > 0
    /\ pc' = [pc EXCEPT ![p] = IF c.op = "open" THEN "findAccount"
                                                ELSE "precheck"]
    /\ call' = [call EXCEPT ![p] = c]
    /\ reply' = [reply EXCEPT ![p] = "none"]
    /\ began' = [began EXCEPT ![p] = accounts[c.user].version]
    /\ UNCHANGED <<tables, attempt, seen>>

\* An amount that is not positive is refused before the database is asked.
Refuse(p, c) ==
    /\ pc[p] = "idle"
    /\ c.op \in FundOps
    /\ c.amount <= 0
    /\ call' = [call EXCEPT ![p] = c]
    /\ began' = [began EXCEPT ![p] = accounts[c.user].version]
    /\ Answer(p, "rejected")
    /\ UNCHANGED tables

-----------------------------------------------------------------------------
(* executeWithOptimisticLock *)

\* 1. Look the key up before any transaction.
PreCheck(p) ==
    /\ pc[p] = "precheck"
    /\ IF Recorded(call[p].key)
       THEN Answer(p, "existing")
       ELSE GoTo(p, "load") /\ UNCHANGED <<attempt, seen>>
    /\ UNCHANGED <<tables, call, began>>

\* Mutant of LoadAccount: the call's check is skipped.
LoadUnchecked(p) ==
    /\ pc[p] = "load"
    /\ IF call[p].user \in open
       THEN /\ seen' = [seen EXCEPT ![p] = accounts[call[p].user]]
            /\ GoTo(p, "update")
            /\ UNCHANGED attempt
       ELSE Answer(p, "notFound")
    /\ UNCHANGED <<tables, call, began>>

\* 2a, 2b. Begin a transaction, load the account, check it.
LoadAccount(p) ==
    /\ pc[p] = "load"
    /\ \/ /\ call[p].user \notin open
          /\ Answer(p, "notFound")
       \/ /\ call[p].user \in open
          /\ ~Covered(call[p], accounts[call[p].user])
          /\ Answer(p, "rejected")
       \/ /\ call[p].user \in open
          /\ Covered(call[p], accounts[call[p].user])
          /\ seen' = [seen EXCEPT ![p] = accounts[call[p].user]]
          /\ GoTo(p, "update")
          /\ UNCHANGED attempt
    /\ UNCHANGED <<tables, call, began>>

\* Mutants of UpdateAccount: the version is not in the WHERE clause; the row
\* is not locked; the update runs outside the transaction.
UpdateUnchecked(p) ==
    /\ pc[p] = "update"
    /\ ~RowLocked(call[p].user)
    /\ GoTo(p, "insert")
    /\ UNCHANGED <<tables, call, attempt, seen, began>>

UpdateUnlocked(p) ==
    /\ pc[p] = "update"
    /\ accounts[call[p].user].version = seen[p].version
    /\ GoTo(p, "insert")
    /\ UNCHANGED <<tables, call, attempt, seen, began>>

UpdateAtOnce(p) ==
    /\ pc[p] = "update"
    /\ ~RowLocked(call[p].user)
    /\ accounts[call[p].user].version = seen[p].version
    /\ accounts' = [accounts EXCEPT ![call[p].user] =
                        Updated(call[p], seen[p], @)]
    /\ GoTo(p, "insert")
    /\ UNCHANGED <<open, records, call, attempt, seen, began>>

\* 2c. UPDATE ... WHERE id AND version, once no other transaction holds the
\* row: it matches while the version is the one loaded.
UpdateAccount(p) ==
    /\ pc[p] = "update"
    /\ ~RowLocked(call[p].user)
    /\ accounts[call[p].user].version = seen[p].version
    /\ GoTo(p, "insert")
    /\ UNCHANGED <<tables, call, attempt, seen, began>>

\* Mutant of Conflict: one attempt too few.
ConflictOffByOne(p) ==
    /\ pc[p] = "update"
    /\ ~RowLocked(call[p].user)
    /\ accounts[call[p].user].version # seen[p].version
    /\ IF attempt[p] + 1 < MaxAttempts
       THEN /\ GoTo(p, "load")
            /\ attempt' = [attempt EXCEPT ![p] = @ + 1]
            /\ UNCHANGED seen
       ELSE Answer(p, "exhausted")
    /\ UNCHANGED <<tables, call, began>>

\* 3a. No row matched: roll back, and retry while attempts are left.
Conflict(p) ==
    /\ pc[p] = "update"
    /\ ~RowLocked(call[p].user)
    /\ accounts[call[p].user].version # seen[p].version
    /\ IF attempt[p] < MaxAttempts
       THEN /\ GoTo(p, "load")
            /\ attempt' = [attempt EXCEPT ![p] = @ + 1]
            /\ UNCHANGED seen
       ELSE Answer(p, "exhausted")
    /\ UNCHANGED <<tables, call, began>>

\* Mutants of InsertRecord: idempotency_key is not UNIQUE; the transaction is
\* not awaited, and never commits.
InsertAnyKey(p) ==
    /\ pc[p] = "insert"
    /\ GoTo(p, "commit")
    /\ UNCHANGED <<tables, call, attempt, seen, began>>

InsertNotAwaited(p) ==
    /\ pc[p] = "insert"
    /\ Answer(p, "applied")
    /\ UNCHANGED <<tables, call, began>>

\* 2d. INSERT the record, once no other transaction holds its key.
InsertRecord(p) ==
    /\ pc[p] = "insert"
    /\ ~Recorded(call[p].key)
    /\ ~KeyReserved(call[p].key)
    /\ GoTo(p, "commit")
    /\ UNCHANGED <<tables, call, attempt, seen, began>>

\* Mutant of KeyTaken: a taken key is retried like a conflict.
KeyTakenRetries(p) ==
    /\ pc[p] = "insert"
    /\ Recorded(call[p].key)
    /\ GoTo(p, "load")
    /\ UNCHANGED <<tables, call, attempt, seen, began>>

\* 3b. The key is already there: the transaction rolls back, the account with it.
KeyTaken(p) ==
    /\ pc[p] = "insert"
    /\ Recorded(call[p].key)
    /\ GoTo(p, "lookup")
    /\ UNCHANGED <<tables, call, attempt, seen, began>>

\* COMMIT makes the account and the record visible together.  When its
\* acknowledgement is lost the call fails although it took effect.
Commit(p) ==
    /\ pc[p] = "commit"
    /\ LET u == call[p].user IN
       /\ accounts' = [accounts EXCEPT ![u] = Updated(call[p], seen[p], @)]
       /\ records' = records \cup {RecordOf(call[p], seen[p])}
    /\ \E r \in {"applied", "error"} : Answer(p, r)
    /\ UNCHANGED <<open, call, began>>

\* 3b. Answer with the record the key already has.
Lookup(p) ==
    /\ pc[p] = "lookup"
    /\ Answer(p, IF Recorded(call[p].key) THEN "existing" ELSE "error")
    /\ UNCHANGED <<tables, call, began>>

-----------------------------------------------------------------------------
(* createAccount *)

FindAccount(p) ==
    /\ pc[p] = "findAccount"
    /\ IF call[p].user \in open
       THEN Answer(p, "existing")
       ELSE GoTo(p, "saveAccount") /\ UNCHANGED <<attempt, seen>>
    /\ UNCHANGED <<tables, call, began>>

SaveAccount(p) ==
    /\ pc[p] = "saveAccount"
    /\ call[p].user \notin open
    /\ open' = open \cup {call[p].user}
    /\ accounts' = [accounts EXCEPT ![call[p].user] = NewAccount]
    /\ Answer(p, "applied")
    /\ UNCHANGED <<records, call, began>>

\* user_id is UNIQUE: the insert fails when another request was first.
SaveConflict(p) ==
    /\ pc[p] = "saveAccount"
    /\ call[p].user \in open
    /\ GoTo(p, "refindAccount")
    /\ UNCHANGED <<tables, call, attempt, seen, began>>

RefindAccount(p) ==
    /\ pc[p] = "refindAccount"
    /\ Answer(p, IF call[p].user \in open THEN "existing" ELSE "error")
    /\ UNCHANGED <<tables, call, began>>

-----------------------------------------------------------------------------
\* The server process dies, or the request loses its database connection:
\* PostgreSQL rolls the open transaction back.
Drop(p) ==
    /\ pc[p] # "idle"
    /\ Answer(p, "lost")
    /\ UNCHANGED <<tables, call, began>>

\* Steps that wait for a lock another transaction may hold.
Acquire(p) == UpdateAccount(p) \/ Conflict(p) \/ InsertRecord(p) \/ KeyTaken(p)

\* Steps that wait for nobody.
Advance(p) ==
    \/ PreCheck(p) \/ LoadAccount(p) \/ Commit(p) \/ Lookup(p)
    \/ FindAccount(p) \/ SaveAccount(p) \/ SaveConflict(p) \/ RefindAccount(p)

Next ==
    \E p \in Procs :
        \/ \E c \in Calls : Issue(p, c) \/ Refuse(p, c)
        \/ Acquire(p)
        \/ Advance(p)
        \/ Drop(p)

Spec == Init /\ [][Next]_vars

\* The event loop runs every ready request; PostgreSQL grants a row or key
\* lock to its waiters in turn.  Nothing makes a caller call or a server die.
Fairness == \A p \in Procs : WF_vars(Advance(p)) /\ SF_vars(Acquire(p))

FairSpec == Spec /\ Fairness

-----------------------------------------------------------------------------
(* Properties *)

\* Among the rest: no freeze, settlement or rollback, each checked against an
\* account loaded earlier, drives a column below zero.
TypeOK ==
    /\ open \subseteq Users
    /\ accounts \in [Users -> Account]
    /\ records \subseteq Record
    /\ pc \in [Procs -> Labels]
    /\ call \in [Procs -> Calls]
    /\ attempt \in [Procs -> 1 .. MaxAttempts]
    /\ seen \in [Procs -> Account]
    /\ reply \in [Procs -> Replies]
    /\ began \in [Procs -> Nat]

\* "The same operation repeated takes effect once" (billing.dto.ts): an
\* idempotency key has one record, whatever duplicates, retries and lost
\* replies do.
OneEffectPerKey ==
    \A r, s \in records : r.key = s.key => r = s

\* No update is lost and none goes unrecorded: the records of an account are
\* numbered 1 to its version, one record for every version.
VersionsAreRecorded ==
    /\ \A r, s \in records : r.user = s.user /\ r.seq = s.seq => r = s
    /\ \A r \in records : r.seq \in 1 .. accounts[r.user].version
    /\ \A u \in Users : \A n \in 1 .. accounts[u].version :
            \E r \in records : r.user = u /\ r.seq = n

\* What a record says moved the available balance.
BalanceDelta(r) == IF r.op = "settle" THEN 0 ELSE r.amount

\* The statement a user reads adds up: each balanceAfter is the one before
\* plus the amount, starting from nothing and ending at the balance.
StatementAddsUp ==
    /\ \A r \in records : r.seq = 1 => r.balanceAfter = BalanceDelta(r)
    /\ \A r, s \in records : r.user = s.user /\ r.seq = s.seq + 1 =>
            r.balanceAfter = s.balanceAfter + BalanceDelta(r)
    /\ \A r \in records : r.seq = accounts[r.user].version =>
            r.balanceAfter = accounts[r.user].balance

\* What each record moved, column by column.
BalanceMoves == [r \in Record |-> BalanceDelta(r)]
FrozenMoves == [r \in Record |-> CASE r.op = "settle" -> r.amount
                                   [] r.op \in {"freeze", "rollback"} -> -r.amount
                                   [] OTHER -> 0]
RechargeMoves == [r \in Record |-> IF r.op = "recharge" THEN r.amount ELSE 0]
ConsumeMoves == [r \in Record |-> IF r.op = "settle" THEN -r.amount ELSE 0]
GiftMoves == [r \in Record |-> IF r.op = "gift" THEN r.amount ELSE 0]

\* What the records of user u moved in all.
Booked(moves, u) == SumFunctionOnSet(moves, {r \in records : r.user = u})

\* The books balance: every column of an account is the sum of what the records
\* of its user moved, so that an account can be audited from its records, and
\* no token is moved without one (billing.service.ts:61).
AccountsAreBooked ==
    \A u \in Users : LET a == accounts[u] IN
        /\ a.balance = Booked(BalanceMoves, u)
        /\ a.frozen = Booked(FrozenMoves, u)
        /\ a.totalRecharged = Booked(RechargeMoves, u)
        /\ a.totalConsumed = Booked(ConsumeMoves, u)
        /\ a.totalGifted = Booked(GiftMoves, u)

\* Tokens are neither made nor lost between the columns: what came in by
\* recharge or gift is available, frozen or consumed.
Conservation ==
    \A u \in Users : LET a == accounts[u] IN
        a.balance + a.frozen + a.totalConsumed = a.totalRecharged + a.totalGifted

\* A success is durable: the record of an applied call is there, and is that
\* call's; a call answered with an existing record has one for its key.
AnsweredIsRecorded ==
    \A p \in Procs :
        /\ reply[p] = "applied" /\ call[p].op \in FundOps =>
               \E r \in records : /\ r.key = call[p].key
                                  /\ r.user = call[p].user
                                  /\ r.op = call[p].op
        /\ reply[p] = "existing" /\ call[p].op \in FundOps =>
               Recorded(call[p].key)
        /\ reply[p] \in {"applied", "existing"} /\ call[p].op = "open" =>
               call[p].user \in open

\* Retries run out only under real contention: MaxAttempts other calls have
\* taken effect on the account since this one came in.
ExhaustedByOthers ==
    \A p \in Procs :
        reply[p] = "exhausted" =>
            accounts[call[p].user].version >= began[p] + MaxAttempts

\* "Every account change comes with a record" (billing.service.ts:61): a step
\* that changes an existing account adds a record of that user with the new
\* balance.
ChangesAreRecorded ==
    [][\A u \in open : accounts'[u] # accounts[u] =>
            \E r \in records' \ records :
                /\ r.user = u
                /\ r.balanceAfter = accounts'[u].balance]_vars

\* Every call is answered: no request waits for a lock for ever.
EveryCallIsAnswered ==
    \A p \in Procs : pc[p] # "idle" ~> pc[p] = "idle"

-----------------------------------------------------------------------------
(* Why it works: what holds between the steps of the requests in flight *)

InTransaction == {"update", "insert", "commit"}

\* The executor serves fund operations with a positive amount, createAccount
\* the others; a request outside the retry loop has made no retry.
RequestsFit ==
    \A p \in Procs :
        /\ pc[p] \in {"precheck", "load", "lookup"} \cup InTransaction =>
               call[p].op \in FundOps /\ call[p].amount > 0
        /\ pc[p] \in {"findAccount", "saveAccount", "refindAccount"} =>
               call[p].op = "open"

\* The account a transaction loaded exists, covered the call, and has not gone
\* back to an earlier version since.
SnapshotsHold ==
    \A p \in Procs : pc[p] \in InTransaction =>
        /\ call[p].user \in open
        /\ Covered(call[p], seen[p])
        /\ seen[p].version <= accounts[call[p].user].version

\* While the version is the one a transaction loaded, so is the account: the
\* version stands for every column the executor writes.
SnapshotsAgree ==
    \A p \in Procs : pc[p] \in InTransaction =>
        LET a == accounts[call[p].user] IN
        seen[p].version = a.version => seen[p] = a

\* A row has one writer, and its version is the one that writer loaded.
RowsHaveOneWriter ==
    /\ \A p \in Procs : pc[p] \in {"insert", "commit"} =>
            seen[p].version = accounts[call[p].user].version
    /\ \A u \in Users : \A p, q \in Writers(u) : p = q

\* Only one transaction is about to commit a key, and nobody has before.
KeysHaveOneWriter ==
    /\ \A p \in Procs : pc[p] = "commit" => ~Recorded(call[p].key)
    /\ \A p, q \in Procs : pc[p] = "commit" /\ pc[q] = "commit"
                              /\ call[p].key = call[q].key => p = q

\* An account nobody created is empty.
ClosedAreNew == \A u \in Users \ open : accounts[u] = NewAccount

\* What holds even beside a writer that does not count the version up.
Orderly ==
    /\ RequestsFit
    /\ SnapshotsHold
    /\ RowsHaveOneWriter
    /\ KeysHaveOneWriter
    /\ ClosedAreNew

Coherent == Orderly /\ SnapshotsAgree

\* Each attempt but the first was lost to a version counted up since the call
\* came in.
AttemptsAreLost ==
    \A p \in Procs :
        LET version == accounts[call[p].user].version IN
        /\ began[p] <= version
        /\ pc[p] \in {"idle", "precheck"} => attempt[p] = 1
        /\ pc[p] = "load" => began[p] + attempt[p] - 1 <= version
        /\ pc[p] \in InTransaction =>
               began[p] + attempt[p] - 1 <= seen[p].version

-----------------------------------------------------------------------------
\* Billing implements the ledger it promises.
Promise == INSTANCE Ledger WITH
    account <- [u \in Users |->
        [balance |-> accounts[u].balance,
         frozen |-> accounts[u].frozen,
         totalRecharged |-> accounts[u].totalRecharged,
         totalConsumed |-> accounts[u].totalConsumed,
         totalGifted |-> accounts[u].totalGifted]],
    applied <- {r.key : r \in records}

\* Every behaviour of the service is one of the abstract ledger.
ImplementsLedger == Promise!Spec
=============================================================================
