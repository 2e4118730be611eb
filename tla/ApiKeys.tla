------------------------------ MODULE ApiKeys ------------------------------
(***************************************************************************)
(* The API keys of one user (tokenfusionserver, modules/apikey): creation   *)
(* under a limit, enabling and disabling, deletion, the check of a key and  *)
(* the booking of what was used with it.                                    *)
(*                                                                          *)
(* One action is one statement on the database.  A request that is refused  *)
(* by what it reads first changes nothing and is not a step.                *)
(***************************************************************************)
EXTENDS Naturals, FiniteSets

CONSTANTS
    Keys,      \* the rows the user may come to have
    Procs,     \* requests in flight
    MaxKeys,   \* MAX_KEYS_PER_USER
    None,
    MaxUsed,   \* bound on the tokens one call books
    MaxCalls   \* bound on the requests made

ASSUME ApiKeysAssumption ==
    /\ IsFiniteSet(Procs) /\ IsFiniteSet(Keys)
    /\ MaxKeys \in Nat \ {0} /\ MaxUsed \in Nat /\ MaxCalls \in Nat
    /\ None \notin Keys

VARIABLES
    key,      \* api_keys: the columns that change
    pc,       \* the next statement of each request
    req,      \* what each request has read, and is to write
    calls,
    \* auxiliary:
    told,     \* the usage booked on each key
    stamps,   \* how often the time of the last use was set
    raced     \* keys used between the two reads of a toggle

vars == <<key, pc, req, calls, told, stamps, raced>>
ghosts == <<told, stamps, raced>>

States == {"unused", "enabled", "disabled", "deleted"}

\* quota_used, and last_used_at as the number of the stamp.
Row == [state : States, used : Nat, last : Nat]
Columns == {"state", "used", "last"}
Fresh == [state |-> "unused", used |-> 0, last |-> 0]

\* A request: its key, the row it has read, the columns it will write.
Request == [key : Keys \cup {None}, row : Row, cols : SUBSET Columns]
Nothing == [key |-> None, row |-> Fresh, cols |-> {}]

Existing == {k \in Keys : key[k].state \in {"enabled", "disabled"}}

Init ==
    /\ key = [k \in Keys |-> Fresh]
    /\ pc = [p \in Procs |-> "idle"]
    /\ req = [p \in Procs |-> Nothing]
    /\ calls = 0
    /\ told = [k \in Keys |-> 0]
    /\ stamps = [k \in Keys |-> 0]
    /\ raced = {}

Begin(p, r, label) ==
    /\ pc[p] = "idle"
    /\ calls < MaxCalls
    /\ calls' = calls + 1
    /\ req' = [req EXCEPT ![p] = r]
    /\ pc' = [pc EXCEPT ![p] = label]

\* p answers, or throws.
Return(p) ==
    /\ pc' = [pc EXCEPT ![p] = "idle"]
    /\ req' = [req EXCEPT ![p] = Nothing]

-----------------------------------------------------------------------------
(* Creation.                                                                *)

\* Mutant: the limit itself still passes.
AtMost == Cardinality(Existing) <= MaxKeys

BelowLimit == Cardinality(Existing) < MaxKeys

\* create: the keys are counted.
Create(p) ==
    /\ BelowLimit
    /\ Begin(p, Nothing, "insert")
    /\ UNCHANGED <<key, ghosts>>

Insert(p, k) ==
    /\ pc[p] = "insert"
    /\ key[k].state = "unused"
    /\ key' = [key EXCEPT ![k] = [Fresh EXCEPT !.state = "enabled"]]
    /\ Return(p)
    /\ UNCHANGED <<calls, ghosts>>

-----------------------------------------------------------------------------
(* Enabling, disabling, deletion: findOne, then a statement on the row.     *)

\* toggle: the whole row is read, but for its hash; the state is set in it.
Toggle(p, k, s) ==
    /\ k \in Existing
    /\ Begin(p, [Nothing EXCEPT !.key = k, !.row = [key[k] EXCEPT !.state = s]], "save")
    /\ UNCHANGED <<key, ghosts>>

\* Mutant: an insert that succeeds where the row is gone.
FoundAnyway(p) == req[p].key # None

Found(p) == req[p].key \in Existing

\* Mutant: save trusts the copy, and writes all of it.
AllColumns(p) == Columns

\* The columns in which the row differs from the copy read before.
Differing(p) ==
    LET now == key[req[p].key]
        row == req[p].row
    IN {c \in Columns : now[c] # row[c]}

\* TypeORM's save reads the row again.  If it is gone, save tries an insert,
\* which has no key_hash and fails.
Save(p) ==
    /\ pc[p] = "save"
    /\ IF Found(p)
       THEN /\ pc' = [pc EXCEPT ![p] = "update"]
            /\ req' = [req EXCEPT ![p].cols = Differing(p)]
       ELSE Return(p)
    /\ UNCHANGED <<key, calls, ghosts>>

\* UPDATE of these columns; no row, no effect.
Update(p) ==
    LET r == req[p] IN
    /\ pc[p] = "update"
    /\ key' = IF Found(p)
              THEN [key EXCEPT ![r.key] =
                     [c \in Columns |-> IF c \in r.cols THEN r.row[c] ELSE @[c]]]
              ELSE key
    /\ Return(p)
    /\ UNCHANGED <<calls, ghosts>>

Delete(p, k) ==
    /\ k \in Existing
    /\ Begin(p, [Nothing EXCEPT !.key = k], "delete")
    /\ UNCHANGED <<key, ghosts>>

\* DELETE; of a row that is gone already, no effect.
Remove(p) ==
    /\ pc[p] = "delete"
    /\ key' = [key EXCEPT ![req[p].key].state = "deleted"]
    /\ Return(p)
    /\ UNCHANGED <<calls, ghosts>>

-----------------------------------------------------------------------------
(* The caller's side: a key is checked, and what was used with it booked.   *)

\* validate: no key has a quota or an end.  It only reads.
Validate(p, k) ==
    /\ key[k].state = "enabled"
    /\ Begin(p, [Nothing EXCEPT !.key = k], "book")
    /\ UNCHANGED <<key, ghosts>>

\* Toggles that have read the row and not yet read it again.
Holding(k) == {p \in Procs : pc[p] = "save" /\ req[p].key = k}

\* updateUsage: increment, one statement.
Book(p, n) ==
    LET k == req[p].key IN
    /\ pc[p] = "book"
    /\ IF Found(p)
       THEN /\ key' = [key EXCEPT ![k].used = @ + n]
            /\ told' = [told EXCEPT ![k] = @ + n]
            /\ raced' = IF Holding(k) # {} THEN raced \cup {k} ELSE raced
       ELSE UNCHANGED <<key, told, raced>>
    /\ pc' = [pc EXCEPT ![p] = "stamp"]
    /\ UNCHANGED <<req, calls, stamps>>

\* ... and last_used_at, another. The date is taken here, as the row is written,
\* and in the code before the update is sent: no property asks for its order.
Stamp(p) ==
    LET k == req[p].key IN
    /\ pc[p] = "stamp"
    /\ IF Found(p)
       THEN /\ key' = [key EXCEPT ![k].last = stamps[k] + 1]
            /\ stamps' = [stamps EXCEPT ![k] = @ + 1]
            /\ raced' = IF Holding(k) # {} THEN raced \cup {k} ELSE raced
       ELSE UNCHANGED <<key, stamps, raced>>
    /\ Return(p)
    /\ UNCHANGED <<calls, told>>

\* A statement of p fails, or the server dies with p in it.
Fail(p) ==
    /\ pc[p] # "idle"
    /\ Return(p)
    /\ UNCHANGED <<key, calls, ghosts>>

Step(p) ==
    \/ \E k \in Keys : Insert(p, k)
    \/ Save(p) \/ Update(p) \/ Remove(p)
    \/ \E n \in 0 .. MaxUsed : Book(p, n)
    \/ Stamp(p) \/ Fail(p)

Arrive(p) ==
    \/ Create(p)
    \/ \E k \in Keys, s \in {"enabled", "disabled"} : Toggle(p, k, s)
    \/ \E k \in Keys : Delete(p, k) \/ Validate(p, k)

Next == \E p \in Procs : Arrive(p) \/ Step(p)

Spec == Init /\ [][Next]_vars

-----------------------------------------------------------------------------
(* Properties.                                                              *)

Labels == {"idle", "insert", "save", "update", "delete", "book", "stamp"}

\* Type correctness; a request on a key knows which, and a key that a request
\* has read was once created.
TypeOK ==
    /\ key \in [Keys -> Row]
    /\ pc \in [Procs -> Labels]
    /\ req \in [Procs -> Request]
    /\ \A p \in Procs : pc[p] \notin {"idle", "insert"} =>
         /\ req[p].key \in Keys
         /\ key[req[p].key].state # "unused"
    /\ \A p \in Procs : pc[p] \in {"save", "update"} =>
         req[p].row.state \in {"enabled", "disabled"}
    /\ calls \in Nat
    /\ told \in [Keys -> Nat] /\ stamps \in [Keys -> Nat]
    /\ raced \subseteq Keys

Inserting == {p \in Procs : pc[p] = "insert"}

\* A user has at most five keys (apikey.service.ts:42, 100-110): the keys are
\* counted before the insert, so that creations in flight at once may pass the
\* limit, by one each but the first, and by no more whatever else happens.
OvershootIsConcurrent ==
    Cardinality(Existing) + Cardinality(Inserting) < MaxKeys + Cardinality(Procs)

\* The usage of a key is all that was booked on it, and its last use the latest
\* (apikey.service.ts:295-315).  A toggle writes back what it read before its
\* save reads the row again (apikey.service.ts:178-189): a use booked between
\* the two is lost, and no other.
UsageIsExact ==
    \A k \in Existing : k \notin raced => key[k].used = told[k] /\ key[k].last = stamps[k]

\* A deleted key stays deleted (apikey.service.ts:202-214): neither a toggle
\* that has read it before nor a late booking brings the row back.
DeletedStaysDeleted ==
    [][\A k \in Keys : key[k].state = "deleted" => key'[k].state = "deleted"]_vars
=============================================================================
