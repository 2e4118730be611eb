--------------------------- MODULE BillingProofs ---------------------------
(***************************************************************************)
(* What holds of Billing for any users, keys, calls and requests.  Inv is  *)
(* the inductive invariant: the types, and Coherent, what the row locks,   *)
(* the reserved keys and the version column guarantee between the steps of *)
(* requests in flight.  Every property of the tables then has one step to  *)
(* consider, Commit, which CommitEffect describes.                         *)
(***************************************************************************)
EXTENDS Admin, SumProofs

\* JavaScript's addition of an amount to a column is a natural number,
\* whatever the column's type.
LEMMA PlusType ==
    ASSUME NEW x \in Nat, NEW n \in Nat, n > 0,
           ColumnsAreText => n < AmountBound
    PROVE  Plus(x, n) \in Nat
<1>1. CASE ~ColumnsAreText
  BY <1>1 DEF Plus
<1>2. CASE ColumnsAreText
  <2> DEFINE Above == {s \in PowersOfTen : n < s}
  <2>1. \E s \in Above : \A t \in Above : t >= s
    BY <1>2 DEF PowersOfTen, AmountBound
  <2>2. Min(Above) \in Above
    BY <2>1 DEF Min
  <2>3. Min(Above) \in Nat
    BY <2>2 DEF PowersOfTen
  <2> HIDE DEF Above
  <2>4. x * Min(Above) + n \in Nat
    BY <2>3
  <2> QED BY <2>4, <1>2 DEF Plus, Above
<1> QED BY <1>1, <1>2, ColumnsAssumption

\* What a call that was checked against the account it loaded writes is again
\* an account, one version on.
LEMMA UpdatedType ==
    ASSUME NEW c \in Calls, NEW a \in Account, NEW row \in Account,
           c.op \in FundOps, c.amount > 0, Covered(c, a)
    PROVE  /\ Updated(c, a, row) \in Account
           /\ Updated(c, a, row).version = a.version + 1
<1>1. /\ c.amount \in Nat /\ c.amount > 0
      /\ ColumnsAreText => c.amount < AmountBound
  BY CallsAssumption DEF Call
<1>2. /\ Plus(a.balance, c.amount) \in Nat
      /\ Plus(a.frozen, c.amount) \in Nat
      /\ Plus(a.totalRecharged, c.amount) \in Nat
      /\ Plus(a.totalConsumed, c.amount) \in Nat
      /\ Plus(a.totalGifted, c.amount) \in Nat
  BY <1>1, PlusType DEF Account
<1>3. CASE c.op = "freeze"
  <2>1. Updated(c, a, row) =
            [balance |-> a.balance - c.amount,
             frozen |-> Plus(a.frozen, c.amount),
             totalRecharged |-> row.totalRecharged,
             totalConsumed |-> row.totalConsumed,
             totalGifted |-> row.totalGifted,
             version |-> a.version + 1]
    BY <1>3 DEF Updated, Account
  <2>2. a.balance - c.amount \in Nat
    BY <1>1, <1>3 DEF Covered, Account
  <2> QED BY <1>2, <2>1, <2>2 DEF Account
<1>4. CASE c.op = "settle"
  <2>1. Updated(c, a, row) =
            [balance |-> row.balance,
             frozen |-> a.frozen - c.amount,
             totalRecharged |-> row.totalRecharged,
             totalConsumed |-> Plus(a.totalConsumed, c.amount),
             totalGifted |-> row.totalGifted,
             version |-> a.version + 1]
    BY <1>4 DEF Updated, Account
  <2>2. a.frozen - c.amount \in Nat
    BY <1>1, <1>4 DEF Covered, Account
  <2> QED BY <1>2, <2>1, <2>2 DEF Account
<1>5. CASE c.op = "rollback"
  <2>1. Updated(c, a, row) =
            [balance |-> Plus(a.balance, c.amount),
             frozen |-> a.frozen - c.amount,
             totalRecharged |-> row.totalRecharged,
             totalConsumed |-> row.totalConsumed,
             totalGifted |-> row.totalGifted,
             version |-> a.version + 1]
    BY <1>5 DEF Updated, Account
  <2>2. a.frozen - c.amount \in Nat
    BY <1>1, <1>5 DEF Covered, Account
  <2> QED BY <1>2, <2>1, <2>2 DEF Account
<1>6. CASE c.op = "recharge"
  <2>1. Updated(c, a, row) =
            [balance |-> Plus(a.balance, c.amount),
             frozen |-> row.frozen,
             totalRecharged |-> Plus(a.totalRecharged, c.amount),
             totalConsumed |-> row.totalConsumed,
             totalGifted |-> row.totalGifted,
             version |-> a.version + 1]
    BY <1>6 DEF Updated, Account
  <2> QED BY <1>2, <2>1 DEF Account
<1>7. CASE c.op = "gift"
  <2>1. Updated(c, a, row) =
            [balance |-> Plus(a.balance, c.amount),
             frozen |-> row.frozen,
             totalRecharged |-> row.totalRecharged,
             totalConsumed |-> row.totalConsumed,
             totalGifted |-> Plus(a.totalGifted, c.amount),
             version |-> a.version + 1]
    BY <1>7 DEF Updated, Account
  <2> QED BY <1>2, <2>1 DEF Account
<1> QED BY <1>3, <1>4, <1>5, <1>6, <1>7 DEF FundOps

\* The record of such a call is a row of token_records, numbered after the
\* version the call writes.
LEMMA RecordType ==
    ASSUME NEW c \in Calls, NEW a \in Account,
           c.op \in FundOps, c.amount > 0, Covered(c, a)
    PROVE  /\ RecordOf(c, a) \in Record
           /\ RecordOf(c, a).key = c.key
           /\ RecordOf(c, a).user = c.user
           /\ RecordOf(c, a).op = c.op
           /\ RecordOf(c, a).seq = a.version + 1
<1>1. Updated(c, a, a).balance \in Nat
  BY UpdatedType DEF Account
<1> QED BY <1>1, CallsAssumption DEF RecordOf, Record, Call, Account

-----------------------------------------------------------------------------
\* The inductive invariant, and the part of it that no adjustment outside the
\* version protocol can disturb.
Base == TypeOK /\ Orderly
Inv == TypeOK /\ Coherent

\* Inv adds to Base that snapshots agree.
LEMMA InvParts == Inv <=> Base /\ SnapshotsAgree
BY DEF Inv, Base, Coherent

\* The row createAccount inserts is an account.
LEMMA NewIsAccount == NewAccount \in Account
BY DEF NewAccount, Account

\* The empty tables, with no request in flight, satisfy the invariant.
LEMMA InitInv == Init => Inv
<1> SUFFICES ASSUME Init PROVE Inv
  OBVIOUS
<1>1. (CHOOSE c \in Calls : TRUE) \in Calls
  BY CallsAssumption
<1>3. TypeOK
  BY <1>1, NewIsAccount, AttemptsAssumption DEF Init, TypeOK, Labels, Replies
<1>4. Coherent
  BY NewIsAccount DEF Init, Coherent, Orderly, RequestsFit, SnapshotsHold,
     SnapshotsAgree, RowsHaveOneWriter, KeysHaveOneWriter, ClosedAreNew, Writers, InTransaction, Recorded
<1> QED BY <1>3, <1>4 DEF Inv

\* Every step of every request preserves Base.
LEMMA NextBase == Base /\ [Next]_vars => Base'
<1> SUFFICES ASSUME Base, [Next]_vars PROVE Base'
  OBVIOUS
<1> USE DEF Base, Orderly, InTransaction
<1>0. CASE UNCHANGED vars
  BY <1>0 DEF vars, tables, requests, TypeOK, RequestsFit, SnapshotsHold,
     RowsHaveOneWriter, KeysHaveOneWriter, ClosedAreNew, Writers, Recorded
<1>1. ASSUME NEW p \in Procs, NEW c \in Calls, Issue(p, c) PROVE Base'
  <2>1. TypeOK'
    BY <1>1, CallsAssumption DEF Issue, TypeOK, tables, Labels, Replies, Account, Call
  <2>2. RequestsFit'
    BY <1>1, CallsAssumption DEF Issue, TypeOK, tables, RequestsFit, Call, Ops
  <2>3. SnapshotsHold' /\ RowsHaveOneWriter' /\ KeysHaveOneWriter' /\ ClosedAreNew'
    BY <1>1 DEF Issue, TypeOK, tables, SnapshotsHold, RowsHaveOneWriter,
       KeysHaveOneWriter, ClosedAreNew, Writers, Recorded
  <2> QED BY <2>1, <2>2, <2>3
<1>2. ASSUME NEW p \in Procs, NEW c \in Calls, Refuse(p, c) PROVE Base'
  <2>1. TypeOK'
    BY <1>2, NewIsAccount, AttemptsAssumption, CallsAssumption
       DEF Refuse, Answer, TypeOK, tables, Labels, Replies, Account, Call
  <2>2. RequestsFit'
    BY <1>2 DEF Refuse, Answer, TypeOK, tables, RequestsFit
  <2>3. SnapshotsHold' /\ RowsHaveOneWriter' /\ KeysHaveOneWriter' /\ ClosedAreNew'
    BY <1>2 DEF Refuse, Answer, TypeOK, tables, SnapshotsHold, RowsHaveOneWriter,
       KeysHaveOneWriter, ClosedAreNew, Writers, Recorded
  <2> QED BY <2>1, <2>2, <2>3
<1>3. ASSUME NEW p \in Procs, PreCheck(p) PROVE Base'
  <2>1. TypeOK'
    BY <1>3, NewIsAccount, AttemptsAssumption
       DEF PreCheck, Answer, GoTo, TypeOK, tables, Labels, Replies
  <2>2. RequestsFit'
    BY <1>3 DEF PreCheck, Answer, GoTo, TypeOK, tables, RequestsFit
  <2>3. SnapshotsHold'
    BY <1>3 DEF PreCheck, Answer, GoTo, TypeOK, tables, SnapshotsHold, Account
  <2>4. RowsHaveOneWriter'
    BY <1>3 DEF PreCheck, Answer, GoTo, TypeOK, tables, RowsHaveOneWriter, Writers,
       RowLocked
  <2>5. KeysHaveOneWriter' /\ ClosedAreNew'
    BY <1>3 DEF PreCheck, Answer, GoTo, TypeOK, tables, KeysHaveOneWriter,
       ClosedAreNew, Recorded, KeyReserved
  <2> QED BY <2>1, <2>2, <2>3, <2>4, <2>5
<1>4. ASSUME NEW p \in Procs, LoadAccount(p) PROVE Base'
  <2>1. TypeOK'
    BY <1>4, NewIsAccount, AttemptsAssumption
       DEF LoadAccount, Answer, GoTo, TypeOK, tables, Labels, Replies
  <2>2. RequestsFit'
    BY <1>4 DEF LoadAccount, Answer, GoTo, TypeOK, tables, RequestsFit
  <2>3. SnapshotsHold'
    BY <1>4 DEF LoadAccount, Answer, GoTo, TypeOK, tables, SnapshotsHold, Account
  <2>4. RowsHaveOneWriter'
    BY <1>4 DEF LoadAccount, Answer, GoTo, TypeOK, tables, RowsHaveOneWriter, Writers,
       RowLocked
  <2>5. KeysHaveOneWriter' /\ ClosedAreNew'
    BY <1>4 DEF LoadAccount, Answer, GoTo, TypeOK, tables, KeysHaveOneWriter,
       ClosedAreNew, Recorded, KeyReserved
  <2> QED BY <2>1, <2>2, <2>3, <2>4, <2>5
<1>5. ASSUME NEW p \in Procs, UpdateAccount(p) PROVE Base'
  <2>1. TypeOK'
    BY <1>5, NewIsAccount, AttemptsAssumption
       DEF UpdateAccount, Answer, GoTo, TypeOK, tables, Labels, Replies
  <2>2. RequestsFit'
    BY <1>5 DEF UpdateAccount, Answer, GoTo, TypeOK, tables, RequestsFit
  <2>3. SnapshotsHold'
    BY <1>5 DEF UpdateAccount, Answer, GoTo, TypeOK, tables, SnapshotsHold, Account
  <2>4. RowsHaveOneWriter'
    BY <1>5 DEF UpdateAccount, Answer, GoTo, TypeOK, tables, RowsHaveOneWriter, Writers,
       RowLocked
  <2>5. KeysHaveOneWriter' /\ ClosedAreNew'
    BY <1>5 DEF UpdateAccount, Answer, GoTo, TypeOK, tables, KeysHaveOneWriter,
       ClosedAreNew, Recorded, KeyReserved
  <2> QED BY <2>1, <2>2, <2>3, <2>4, <2>5
<1>6. ASSUME NEW p \in Procs, Conflict(p) PROVE Base'
  <2>1. TypeOK'
    BY <1>6, NewIsAccount, AttemptsAssumption
       DEF Conflict, Answer, GoTo, TypeOK, tables, Labels, Replies
  <2>2. RequestsFit'
    BY <1>6 DEF Conflict, Answer, GoTo, TypeOK, tables, RequestsFit
  <2>3. SnapshotsHold'
    BY <1>6 DEF Conflict, Answer, GoTo, TypeOK, tables, SnapshotsHold, Account
  <2>4. RowsHaveOneWriter'
    BY <1>6 DEF Conflict, Answer, GoTo, TypeOK, tables, RowsHaveOneWriter, Writers,
       RowLocked
  <2>5. KeysHaveOneWriter' /\ ClosedAreNew'
    BY <1>6 DEF Conflict, Answer, GoTo, TypeOK, tables, KeysHaveOneWriter,
       ClosedAreNew, Recorded, KeyReserved
  <2> QED BY <2>1, <2>2, <2>3, <2>4, <2>5
<1>7. ASSUME NEW p \in Procs, InsertRecord(p) PROVE Base'
  <2>1. TypeOK'
    BY <1>7, NewIsAccount, AttemptsAssumption
       DEF InsertRecord, Answer, GoTo, TypeOK, tables, Labels, Replies
  <2>2. RequestsFit'
    BY <1>7 DEF InsertRecord, Answer, GoTo, TypeOK, tables, RequestsFit
  <2>3. SnapshotsHold'
    BY <1>7 DEF InsertRecord, Answer, GoTo, TypeOK, tables, SnapshotsHold, Account
  <2>4. RowsHaveOneWriter'
    BY <1>7 DEF InsertRecord, Answer, GoTo, TypeOK, tables, RowsHaveOneWriter, Writers,
       RowLocked
  <2>5. KeysHaveOneWriter' /\ ClosedAreNew'
    BY <1>7 DEF InsertRecord, Answer, GoTo, TypeOK, tables, KeysHaveOneWriter,
       ClosedAreNew, Recorded, KeyReserved
  <2> QED BY <2>1, <2>2, <2>3, <2>4, <2>5
<1>8. ASSUME NEW p \in Procs, KeyTaken(p) PROVE Base'
  <2>1. TypeOK'
    BY <1>8, NewIsAccount, AttemptsAssumption
       DEF KeyTaken, Answer, GoTo, TypeOK, tables, Labels, Replies
  <2>2. RequestsFit'
    BY <1>8 DEF KeyTaken, Answer, GoTo, TypeOK, tables, RequestsFit
  <2>3. SnapshotsHold'
    BY <1>8 DEF KeyTaken, Answer, GoTo, TypeOK, tables, SnapshotsHold, Account
  <2>4. RowsHaveOneWriter'
    BY <1>8 DEF KeyTaken, Answer, GoTo, TypeOK, tables, RowsHaveOneWriter, Writers,
       RowLocked
  <2>5. KeysHaveOneWriter' /\ ClosedAreNew'
    BY <1>8 DEF KeyTaken, Answer, GoTo, TypeOK, tables, KeysHaveOneWriter,
       ClosedAreNew, Recorded, KeyReserved
  <2> QED BY <2>1, <2>2, <2>3, <2>4, <2>5
<1>9. ASSUME NEW p \in Procs, Lookup(p) PROVE Base'
  <2>1. TypeOK'
    BY <1>9, NewIsAccount, AttemptsAssumption
       DEF Lookup, Answer, GoTo, TypeOK, tables, Labels, Replies
  <2>2. RequestsFit'
    BY <1>9 DEF Lookup, Answer, GoTo, TypeOK, tables, RequestsFit
  <2>3. SnapshotsHold'
    BY <1>9 DEF Lookup, Answer, GoTo, TypeOK, tables, SnapshotsHold, Account
  <2>4. RowsHaveOneWriter'
    BY <1>9 DEF Lookup, Answer, GoTo, TypeOK, tables, RowsHaveOneWriter, Writers,
       RowLocked
  <2>5. KeysHaveOneWriter' /\ ClosedAreNew'
    BY <1>9 DEF Lookup, Answer, GoTo, TypeOK, tables, KeysHaveOneWriter,
       ClosedAreNew, Recorded, KeyReserved
  <2> QED BY <2>1, <2>2, <2>3, <2>4, <2>5
<1>10. ASSUME NEW p \in Procs, FindAccount(p) PROVE Base'
  <2>1. TypeOK'
    BY <1>10, NewIsAccount, AttemptsAssumption
       DEF FindAccount, Answer, GoTo, TypeOK, tables, Labels, Replies
  <2>2. RequestsFit'
    BY <1>10 DEF FindAccount, Answer, GoTo, TypeOK, tables, RequestsFit
  <2>3. SnapshotsHold'
    BY <1>10 DEF FindAccount, Answer, GoTo, TypeOK, tables, SnapshotsHold, Account
  <2>4. RowsHaveOneWriter'
    BY <1>10 DEF FindAccount, Answer, GoTo, TypeOK, tables, RowsHaveOneWriter, Writers,
       RowLocked
  <2>5. KeysHaveOneWriter' /\ ClosedAreNew'
    BY <1>10 DEF FindAccount, Answer, GoTo, TypeOK, tables, KeysHaveOneWriter,
       ClosedAreNew, Recorded, KeyReserved
  <2> QED BY <2>1, <2>2, <2>3, <2>4, <2>5
<1>11. ASSUME NEW p \in Procs, SaveConflict(p) PROVE Base'
  <2>1. TypeOK'
    BY <1>11, NewIsAccount, AttemptsAssumption
       DEF SaveConflict, Answer, GoTo, TypeOK, tables, Labels, Replies
  <2>2. RequestsFit'
    BY <1>11 DEF SaveConflict, Answer, GoTo, TypeOK, tables, RequestsFit
  <2>3. SnapshotsHold'
    BY <1>11 DEF SaveConflict, Answer, GoTo, TypeOK, tables, SnapshotsHold, Account
  <2>4. RowsHaveOneWriter'
    BY <1>11 DEF SaveConflict, Answer, GoTo, TypeOK, tables, RowsHaveOneWriter, Writers,
       RowLocked
  <2>5. KeysHaveOneWriter' /\ ClosedAreNew'
    BY <1>11 DEF SaveConflict, Answer, GoTo, TypeOK, tables, KeysHaveOneWriter,
       ClosedAreNew, Recorded, KeyReserved
  <2> QED BY <2>1, <2>2, <2>3, <2>4, <2>5
<1>12. ASSUME NEW p \in Procs, RefindAccount(p) PROVE Base'
  <2>1. TypeOK'
    BY <1>12, NewIsAccount, AttemptsAssumption
       DEF RefindAccount, Answer, GoTo, TypeOK, tables, Labels, Replies
  <2>2. RequestsFit'
    BY <1>12 DEF RefindAccount, Answer, GoTo, TypeOK, tables, RequestsFit
  <2>3. SnapshotsHold'
    BY <1>12 DEF RefindAccount, Answer, GoTo, TypeOK, tables, SnapshotsHold, Account
  <2>4. RowsHaveOneWriter'
    BY <1>12 DEF RefindAccount, Answer, GoTo, TypeOK, tables, RowsHaveOneWriter, Writers,
       RowLocked
  <2>5. KeysHaveOneWriter' /\ ClosedAreNew'
    BY <1>12 DEF RefindAccount, Answer, GoTo, TypeOK, tables, KeysHaveOneWriter,
       ClosedAreNew, Recorded, KeyReserved
  <2> QED BY <2>1, <2>2, <2>3, <2>4, <2>5
<1>13. ASSUME NEW p \in Procs, Drop(p) PROVE Base'
  <2>1. TypeOK'
    BY <1>13, NewIsAccount, AttemptsAssumption
       DEF Drop, Answer, GoTo, TypeOK, tables, Labels, Replies
  <2>2. RequestsFit'
    BY <1>13 DEF Drop, Answer, GoTo, TypeOK, tables, RequestsFit
  <2>3. SnapshotsHold'
    BY <1>13 DEF Drop, Answer, GoTo, TypeOK, tables, SnapshotsHold, Account
  <2>4. RowsHaveOneWriter'
    BY <1>13 DEF Drop, Answer, GoTo, TypeOK, tables, RowsHaveOneWriter, Writers,
       RowLocked
  <2>5. KeysHaveOneWriter' /\ ClosedAreNew'
    BY <1>13 DEF Drop, Answer, GoTo, TypeOK, tables, KeysHaveOneWriter,
       ClosedAreNew, Recorded, KeyReserved
  <2> QED BY <2>1, <2>2, <2>3, <2>4, <2>5
<1>14. ASSUME NEW p \in Procs, SaveAccount(p) PROVE Base'
  <2>1. TypeOK'
    BY <1>14, NewIsAccount, AttemptsAssumption, CallsAssumption
       DEF SaveAccount, Answer, TypeOK, Labels, Replies, Call
  <2>2. RequestsFit'
    BY <1>14 DEF SaveAccount, Answer, TypeOK, RequestsFit
  <2>3. accounts' = accounts
    BY <1>14, CallsAssumption DEF SaveAccount, TypeOK, ClosedAreNew, Call
  <2>4. SnapshotsHold' /\ ClosedAreNew'
    BY <1>14, <2>3 DEF SaveAccount, Answer, TypeOK, SnapshotsHold, ClosedAreNew
  <2>5. RowsHaveOneWriter' /\ KeysHaveOneWriter'
    BY <1>14, <2>3 DEF SaveAccount, Answer, TypeOK, RowsHaveOneWriter,
       KeysHaveOneWriter, Writers, Recorded
  <2> QED BY <2>1, <2>2, <2>4, <2>5
<1>15. ASSUME NEW p \in Procs, Commit(p) PROVE Base'
  <2> DEFINE u == call[p].user
             new == Updated(call[p], seen[p], accounts[u])
             rec == RecordOf(call[p], seen[p])
  <2>1. /\ call[p] \in Calls /\ u \in Users /\ u \in open
        /\ call[p].op \in FundOps /\ call[p].amount > 0
        /\ seen[p] \in Account /\ accounts[u] \in Account
        /\ Covered(call[p], seen[p])
        /\ seen[p].version = accounts[u].version
    BY <1>15, CallsAssumption DEF Commit, TypeOK, RequestsFit, SnapshotsHold,
       RowsHaveOneWriter, Call
  <2>2. new \in Account /\ new.version = accounts[u].version + 1
    BY <2>1, UpdatedType
  <2>3. rec \in Record /\ rec.key = call[p].key
    BY <2>1, RecordType
  <2>4. /\ accounts' = [accounts EXCEPT ![u] = new]
        /\ records' = records \cup {rec}
        /\ pc[p] = "commit" /\ pc' = [pc EXCEPT ![p] = "idle"]
        /\ seen' = [seen EXCEPT ![p] = NewAccount]
        /\ attempt' = [attempt EXCEPT ![p] = 1]
        /\ \E r \in Replies : reply' = [reply EXCEPT ![p] = r]
        /\ UNCHANGED <<open, call, began>>
    BY <1>15 DEF Commit, Answer, Replies
  <2> HIDE DEF u, new, rec
  <2>5. TypeOK'
    BY <2>1, <2>2, <2>3, <2>4, NewIsAccount, AttemptsAssumption
       DEF TypeOK, Labels
  <2>6. RequestsFit' /\ ClosedAreNew'
    BY <2>1, <2>4 DEF TypeOK, RequestsFit, ClosedAreNew
  <2>7. SnapshotsHold'
    BY <2>1, <2>2, <2>4 DEF TypeOK, SnapshotsHold, Account
  <2>8. RowsHaveOneWriter'
    BY <2>1, <2>2, <2>4 DEF TypeOK, RowsHaveOneWriter, Writers, u
  <2>9. KeysHaveOneWriter'
    BY <2>3, <2>4 DEF TypeOK, KeysHaveOneWriter, Recorded
  <2> QED BY <2>5, <2>6, <2>7, <2>8, <2>9
<1> QED BY <1>0, <1>1, <1>2, <1>3, <1>4, <1>5, <1>6, <1>7, <1>8, <1>9, <1>10, <1>11, <1>12, <1>13, <1>14, <1>15
       DEF Next, Acquire, Advance

\* A commit counts the version up for every transaction that loaded the row
\* before it, and nobody else writes.
LEMMA NextAgree == Inv /\ [Next]_vars => SnapshotsAgree'
<1> SUFFICES ASSUME Inv, [Next]_vars PROVE SnapshotsAgree'
  OBVIOUS
<1> USE DEF Inv, Coherent, InTransaction
<1>1. CASE UNCHANGED vars
  BY <1>1 DEF vars, tables, requests, SnapshotsAgree
<1>2. ASSUME NEW p \in Procs, Commit(p) PROVE SnapshotsAgree'
  <2> DEFINE u == call[p].user
             new == Updated(call[p], seen[p], accounts[u])
  <2>1. call[p] \in Calls /\ u \in Users /\ accounts[u] \in Account
    BY CallsAssumption DEF TypeOK, Call
  <2>2. new.version = accounts[u].version + 1
    BY <1>2, <2>1, UpdatedType DEF Commit, TypeOK, Orderly, RequestsFit, SnapshotsHold,
       RowsHaveOneWriter
  <2>3. /\ accounts' = [accounts EXCEPT ![u] = new]
        /\ pc' = [pc EXCEPT ![p] = "idle"]
        /\ seen' = [seen EXCEPT ![p] = NewAccount]
        /\ call' = call
    BY <1>2 DEF Commit, Answer
  <2>4. \A q \in Procs : /\ pc[q] \in InTransaction => seen[q].version <= accounts[call[q].user].version
                         /\ call[q].user \in Users
    BY CallsAssumption DEF Orderly, SnapshotsHold, TypeOK, Call
  <2> HIDE DEF u, new
  <2> QED BY <2>1, <2>2, <2>3, <2>4 DEF TypeOK, SnapshotsAgree, Account
<1>3. ASSUME NEW p \in Procs, SaveAccount(p) PROVE SnapshotsAgree'
  <2>1. accounts' = accounts
    BY <1>3, CallsAssumption DEF SaveAccount, TypeOK, Orderly, ClosedAreNew, Call
  <2> QED BY <1>3, <2>1 DEF SaveAccount, Answer, TypeOK, SnapshotsAgree
<1>4. ASSUME NEW p \in Procs, LoadAccount(p) PROVE SnapshotsAgree'
  BY <1>4 DEF LoadAccount, Answer, GoTo, TypeOK, tables, SnapshotsAgree
<1>5. ASSUME NEW p \in Procs, NEW c \in Calls, Issue(p, c) \/ Refuse(p, c)
      PROVE  SnapshotsAgree'
  BY <1>5 DEF Issue, Refuse, Answer, TypeOK, tables, SnapshotsAgree
<1>6. ASSUME NEW p \in Procs, Acquire(p) PROVE SnapshotsAgree'
  BY <1>6 DEF Acquire, UpdateAccount, Conflict, InsertRecord, KeyTaken, Answer, GoTo,
     TypeOK, tables, SnapshotsAgree
<1>7. ASSUME NEW p \in Procs, PreCheck(p) \/ Lookup(p) \/ Drop(p) PROVE SnapshotsAgree'
  BY <1>7 DEF PreCheck, Lookup, Drop, Answer, GoTo, TypeOK, tables, SnapshotsAgree
<1>8. ASSUME NEW p \in Procs, FindAccount(p) \/ SaveConflict(p) \/ RefindAccount(p)
      PROVE  SnapshotsAgree'
  BY <1>8 DEF FindAccount, SaveConflict, RefindAccount, Answer, GoTo, TypeOK, tables,
     SnapshotsAgree
<1> QED BY <1>1, <1>2, <1>3, <1>4, <1>5, <1>6, <1>7, <1>8 DEF Next, Advance

\* Every step of every request preserves the invariant.
LEMMA NextInv == Inv /\ [Next]_vars => Inv'
<1> SUFFICES ASSUME Inv, [Next]_vars PROVE Inv'
  OBVIOUS
<1>1. Base'
  BY InvParts, NextBase
<1>2. SnapshotsAgree'
  BY NextAgree
<1> QED BY <1>1, <1>2 DEF Inv, Base, Coherent

\* Between the steps of requests in flight: a transaction that matched its
\* version is the row's only writer and works on the row as it is committed,
\* and a key about to be committed is new.
THEOREM Coherence == Spec => []Coherent
<1>1. Inv => Coherent
  BY DEF Inv
<1> QED BY <1>1, InitInv, NextInv, PTL DEF Spec

\* The executor keeps every column of an account a natural number: no check
\* made on an account loaded earlier lets a column fall below zero.
THEOREM TypeCorrect == Spec => []TypeOK
<1>1. Inv => TypeOK
  BY DEF Inv
<1> QED BY <1>1, InitInv, NextInv, PTL DEF Spec

-----------------------------------------------------------------------------
\* A commit writes what its call makes of the account it loaded, one version on,
\* and adds a record with a key that is new.
LEMMA CommitWrites ==
    ASSUME Base, NEW p \in Procs, Commit(p)
    PROVE  LET c == call[p]
               u == call[p].user
               a == accounts[call[p].user]
           IN  /\ c \in Calls /\ c.op \in FundOps /\ c.amount \in Nat /\ c.amount > 0
               /\ u \in Users /\ u \in open /\ a \in Account /\ Covered(c, seen[p])
               /\ seen[p].version = a.version
               /\ Updated(c, seen[p], a) \in Account
               /\ Updated(c, seen[p], a).version = a.version + 1
               /\ accounts' = [accounts EXCEPT ![u] = Updated(c, seen[p], a)]
               /\ RecordOf(c, seen[p]) \in Record
               /\ RecordOf(c, seen[p]).key = c.key
               /\ RecordOf(c, seen[p]).user = u
               /\ RecordOf(c, seen[p]).op = c.op
               /\ RecordOf(c, seen[p]).seq = a.version + 1
               /\ records' = records \cup {RecordOf(c, seen[p])}
               /\ ~Recorded(c.key)
               /\ open' = open
<1> DEFINE c == call[p]
           u == call[p].user
           a == accounts[call[p].user]
<1> USE DEF Base, Orderly
<1>1. /\ c \in Calls /\ c.op \in FundOps /\ c.amount \in Nat /\ c.amount > 0
      /\ u \in Users /\ u \in open /\ a \in Account /\ seen[p] \in Account
      /\ Covered(c, seen[p]) /\ ~Recorded(c.key)
      /\ seen[p].version = a.version
  BY CallsAssumption DEF Commit, TypeOK, RequestsFit, SnapshotsHold, InTransaction,
     RowsHaveOneWriter, KeysHaveOneWriter, Call
<1>2. Updated(c, seen[p], a) \in Account /\ Updated(c, seen[p], a).version = a.version + 1
  BY <1>1, UpdatedType
<1>3. /\ RecordOf(c, seen[p]) \in Record
      /\ RecordOf(c, seen[p]).key = c.key
      /\ RecordOf(c, seen[p]).user = u
      /\ RecordOf(c, seen[p]).op = c.op
      /\ RecordOf(c, seen[p]).seq = a.version + 1
  BY <1>1, RecordType
<1>4. /\ accounts' = [accounts EXCEPT ![u] = Updated(c, seen[p], a)]
      /\ records' = records \cup {RecordOf(c, seen[p])}
      /\ open' = open
  BY DEF Commit
<1> QED BY <1>1, <1>2, <1>3, <1>4

\* Where snapshots agree, it applies its call to the account as it stands.
LEMMA CommitEffect ==
    ASSUME Inv, NEW p \in Procs, Commit(p)
    PROVE  LET c == call[p]
               u == call[p].user
               a == accounts[call[p].user]
           IN  /\ c \in Calls /\ c.op \in FundOps /\ c.amount \in Nat /\ c.amount > 0
               /\ u \in Users /\ u \in open /\ a \in Account /\ Covered(c, a)
               /\ Updated(c, a, a) \in Account
               /\ Updated(c, a, a).version = a.version + 1
               /\ accounts' = [accounts EXCEPT ![u] = Updated(c, a, a)]
               /\ RecordOf(c, a) \in Record
               /\ RecordOf(c, a).key = c.key
               /\ RecordOf(c, a).user = u
               /\ RecordOf(c, a).op = c.op
               /\ RecordOf(c, a).seq = a.version + 1
               /\ RecordOf(c, a).balanceAfter = Updated(c, a, a).balance
               /\ records' = records \cup {RecordOf(c, a)}
               /\ ~Recorded(c.key)
               /\ open' = open
<1> DEFINE c == call[p]
           a == accounts[call[p].user]
<1>1. Base /\ SnapshotsAgree
  BY InvParts
<1>2. seen[p] = a
  BY <1>1, CommitWrites DEF Commit, SnapshotsAgree, InTransaction
<1>3. RecordOf(c, a).balanceAfter = Updated(c, a, a).balance
  BY DEF RecordOf
<1> QED BY <1>1, <1>2, <1>3, CommitWrites

\* The tables change in two ways only: a commit, or a new, empty account.
LEMMA TablesChange ==
    ASSUME Base, [Next]_vars
    PROVE  \/ UNCHANGED tables
           \/ \E p \in Procs : Commit(p)
           \/ /\ UNCHANGED <<accounts, records>>
              /\ \E u \in Users \ open : open' = open \cup {u}
<1>1. CASE UNCHANGED vars
  BY <1>1 DEF vars
<1>2. CASE Next
  <2>1. PICK p \in Procs : \/ \E c \in Calls : Issue(p, c) \/ Refuse(p, c)
                           \/ Acquire(p)
                           \/ Advance(p)
                           \/ Drop(p)
    BY <1>2 DEF Next
  <2>2. CASE \E c \in Calls : Issue(p, c) \/ Refuse(p, c)
    BY <2>2 DEF Issue, Refuse
  <2>3. CASE Acquire(p)
    BY <2>3 DEF Acquire, UpdateAccount, Conflict, InsertRecord, KeyTaken
  <2>4. CASE Drop(p)
    BY <2>4 DEF Drop
  <2>5. CASE SaveAccount(p)
    <3>1. call[p].user \in Users \ open
      BY <2>5, CallsAssumption DEF SaveAccount, Base, TypeOK, Call
    <3>2. accounts' = accounts
      BY <2>5, <3>1 DEF SaveAccount, Base, TypeOK, Orderly, ClosedAreNew
    <3> QED BY <2>5, <3>1, <3>2 DEF SaveAccount
  <2>6. CASE Advance(p) /\ ~SaveAccount(p) /\ ~Commit(p)
    BY <2>6 DEF Advance, PreCheck, LoadAccount, Lookup, FindAccount, SaveConflict,
       RefindAccount
  <2> QED BY <2>1, <2>2, <2>3, <2>4, <2>5, <2>6
<1> QED BY <1>1, <1>2

-----------------------------------------------------------------------------
\* A step of the executor adds at most one record, whose key is new.
LEMMA OneEffectStep ==
    ASSUME Base, OneEffectPerKey, [Next]_vars
    PROVE  OneEffectPerKey'
<1>1. CASE UNCHANGED records
  BY <1>1 DEF OneEffectPerKey
<1>2. ASSUME NEW p \in Procs, Commit(p) PROVE OneEffectPerKey'
  BY <1>2, CommitWrites DEF OneEffectPerKey, Recorded
<1> QED BY <1>1, <1>2, TablesChange DEF tables

\* An operation repeated with the same key takes effect once.
THEOREM EffectOncePerKey == Spec => []OneEffectPerKey
<1>1. Init => OneEffectPerKey
  BY DEF Init, OneEffectPerKey
<1>2. Inv /\ OneEffectPerKey /\ [Next]_vars => OneEffectPerKey'
  BY OneEffectStep, InvParts
<1> QED BY <1>1, <1>2, InitInv, NextInv, PTL DEF Spec

\* A step of the executor counts a version up with the record of that number.
LEMMA VersionsStep ==
    ASSUME Base, VersionsAreRecorded, [Next]_vars
    PROVE  VersionsAreRecorded'
<1>1. CASE UNCHANGED <<accounts, records>>
  BY <1>1 DEF VersionsAreRecorded
<1>2. ASSUME NEW p \in Procs, Commit(p) PROVE VersionsAreRecorded'
  <2> DEFINE u == call[p].user
             n == accounts[u].version
             rec == RecordOf(call[p], seen[p])
  <2>1. /\ u \in Users /\ n \in Nat
        /\ rec.user = u /\ rec.seq = n + 1
        /\ records' = records \cup {rec}
    BY <1>2, CommitWrites DEF Account
  <2>2. /\ accounts'[u].version = n + 1
        /\ \A v \in Users \ {u} : accounts'[v] = accounts[v]
    BY <1>2, CommitWrites DEF Base, TypeOK
  <2>3. \A r \in records : r.user \in Users /\ r.seq \in Nat
    BY DEF Base, TypeOK, Record
  <2>4. \A v \in Users : accounts[v].version \in Nat
    BY DEF Base, TypeOK, Account
  <2> HIDE DEF u, n, rec
  <2>5. \A r \in records : r.user = u => r.seq \in 1 .. n
    BY DEF VersionsAreRecorded, n
  <2>6. \A r, s \in records' : r.user = s.user /\ r.seq = s.seq => r = s
    BY <2>1, <2>3, <2>5 DEF VersionsAreRecorded
  <2>7. \A r \in records' : r.seq \in 1 .. accounts'[r.user].version
    <3> TAKE r \in records'
    <3>1. CASE r = rec
      BY <3>1, <2>1, <2>2
    <3>2. CASE r \in records /\ r.user = u
      BY <3>2, <2>1, <2>2, <2>5
    <3>3. CASE r \in records /\ r.user # u
      BY <3>3, <2>2, <2>3 DEF VersionsAreRecorded
    <3> QED BY <3>1, <3>2, <3>3, <2>1
  <2>8. \A v \in Users : \A m \in 1 .. accounts'[v].version :
            \E r \in records' : r.user = v /\ r.seq = m
    <3> SUFFICES ASSUME NEW v \in Users, NEW m \in 1 .. accounts'[v].version
                 PROVE  \E r \in records' : r.user = v /\ r.seq = m
      OBVIOUS
    <3>1. CASE v = u /\ m = n + 1
      BY <3>1, <2>1
    <3>2. CASE ~(v = u /\ m = n + 1)
      <4>1. m \in 1 .. accounts[v].version
        BY <3>2, <2>1, <2>2, <2>4 DEF n
      <4> QED BY <4>1, <2>1 DEF VersionsAreRecorded
    <3> QED BY <3>1, <3>2
  <2> QED BY <2>6, <2>7, <2>8 DEF VersionsAreRecorded
<1> QED BY <1>1, <1>2, TablesChange DEF tables

\* No update is lost: an account's records are numbered 1 to its version.
THEOREM EveryVersionRecorded == Spec => []VersionsAreRecorded
<1>1. Init => VersionsAreRecorded
  BY DEF Init, VersionsAreRecorded, NewAccount
<1>2. Inv /\ VersionsAreRecorded /\ [Next]_vars => VersionsAreRecorded'
  BY VersionsStep, InvParts
<1> QED BY <1>1, <1>2, InitInv, NextInv, PTL DEF Spec

\* A step that changes an account adds the record of that change.
THEOREM EveryChangeRecorded == Spec => ChangesAreRecorded
<1> DEFINE Change == \A u \in open : accounts'[u] # accounts[u] =>
            \E r \in records' \ records :
                /\ r.user = u
                /\ r.balanceAfter = accounts'[u].balance
<1>1. Inv /\ [Next]_vars => Change
  <2> SUFFICES ASSUME Inv, [Next]_vars, NEW v \in open, accounts'[v] # accounts[v]
               PROVE  \E r \in records' \ records :
                          /\ r.user = v
                          /\ r.balanceAfter = accounts'[v].balance
    OBVIOUS
  <2>1. PICK p \in Procs : Commit(p)
    BY InvParts, TablesChange DEF tables
  <2> DEFINE u == call[p].user
             rec == RecordOf(call[p], accounts[u])
  <2>2. u = v
    BY <2>1, CommitEffect DEF Inv, TypeOK
  <2>3. rec.user = v /\ rec.balanceAfter = accounts'[v].balance
    BY <2>1, <2>2, CommitEffect DEF Inv, TypeOK
  <2>4. rec \in records' \ records
    BY <2>1, CommitEffect DEF Recorded
  <2> QED BY <2>3, <2>4
<1>2. ChangesAreRecorded <=> [][Change]_vars
  BY DEF ChangesAreRecorded
<1>3. Inv /\ [Next]_vars => [Change]_vars
  BY <1>1
<1> HIDE DEF Change
<1> QED BY <1>2, <1>3, InitInv, NextInv, PTL DEF Spec

-----------------------------------------------------------------------------
\* Records and accounts are never removed, and versions only count up.
LEMMA TablesGrow ==
    ASSUME Base, [Next]_vars
    PROVE  /\ open \subseteq open'
           /\ records \subseteq records'
           /\ \A u \in Users : accounts[u].version <= accounts'[u].version
<1>1. \A u \in Users : accounts[u].version \in Nat
  BY DEF Base, TypeOK, Account
<1>2. CASE UNCHANGED tables
  BY <1>1, <1>2 DEF tables
<1>3. ASSUME NEW p \in Procs, Commit(p)
      PROVE  /\ open \subseteq open'
             /\ records \subseteq records'
             /\ \A u \in Users : accounts[u].version <= accounts'[u].version
  BY <1>1, <1>3, CommitWrites DEF Base, TypeOK
<1>4. CASE /\ UNCHANGED <<accounts, records>>
           /\ \E u \in Users \ open : open' = open \cup {u}
  BY <1>1, <1>4
<1> QED BY <1>2, <1>3, <1>4, TablesChange

\* A step of the executor answers for what the tables then hold, and takes
\* nothing from them that an earlier answer was for.
LEMMA AnsweredStep ==
    ASSUME Base, AnsweredIsRecorded, [Next]_vars
    PROVE  AnsweredIsRecorded'
<1> USE DEF Base
<1>0. open \subseteq open' /\ records \subseteq records'
  BY TablesGrow
<1>1. CASE UNCHANGED vars
  BY <1>0, <1>1 DEF vars, requests, AnsweredIsRecorded, Recorded
<1>2. ASSUME NEW p \in Procs, NEW c \in Calls, Issue(p, c) \/ Refuse(p, c)
      PROVE  AnsweredIsRecorded'
  BY <1>0, <1>2 DEF Issue, Refuse, Answer, AnsweredIsRecorded, Recorded, TypeOK
<1>3. ASSUME NEW p \in Procs, Acquire(p) PROVE AnsweredIsRecorded'
  BY <1>0, <1>3 DEF Acquire, UpdateAccount, Conflict, InsertRecord, KeyTaken, GoTo,
     Answer, AnsweredIsRecorded, Recorded, TypeOK
<1>4. ASSUME NEW p \in Procs, PreCheck(p) PROVE AnsweredIsRecorded'
  <2>1. call[p].op \in FundOps
    BY <1>4 DEF PreCheck, Orderly, RequestsFit
  <2> QED BY <1>0, <1>4, <2>1 DEF PreCheck, GoTo, Answer, AnsweredIsRecorded,
             Recorded, FundOps, TypeOK
<1>5. ASSUME NEW p \in Procs, LoadAccount(p) PROVE AnsweredIsRecorded'
  BY <1>0, <1>5 DEF LoadAccount, GoTo, Answer, AnsweredIsRecorded, Recorded, TypeOK
<1>6. ASSUME NEW p \in Procs, Lookup(p) PROVE AnsweredIsRecorded'
  <2>1. call[p].op \in FundOps
    BY <1>6 DEF Lookup, Orderly, RequestsFit
  <2> QED BY <1>0, <1>6, <2>1 DEF Lookup, Answer, AnsweredIsRecorded, Recorded,
             FundOps, TypeOK
<1>7. ASSUME NEW p \in Procs, FindAccount(p) \/ RefindAccount(p)
      PROVE  AnsweredIsRecorded'
  <2>1. call[p].op = "open"
    BY <1>7 DEF FindAccount, RefindAccount, Orderly, RequestsFit
  <2> QED BY <1>0, <1>7, <2>1 DEF FindAccount, RefindAccount, GoTo, Answer,
             AnsweredIsRecorded, Recorded, FundOps, TypeOK
<1>8. ASSUME NEW p \in Procs, SaveAccount(p) \/ SaveConflict(p)
      PROVE  AnsweredIsRecorded'
  <2>1. call[p].op = "open"
    BY <1>8 DEF SaveAccount, SaveConflict, Orderly, RequestsFit
  <2> QED BY <1>0, <1>8, <2>1 DEF SaveAccount, SaveConflict, GoTo, Answer,
             AnsweredIsRecorded, Recorded, FundOps, TypeOK
<1>9. ASSUME NEW p \in Procs, Commit(p) PROVE AnsweredIsRecorded'
  <2> DEFINE rec == RecordOf(call[p], seen[p])
  <2>1. /\ rec \in records' /\ rec.key = call[p].key
        /\ rec.user = call[p].user /\ rec.op = call[p].op
        /\ call[p].op \in FundOps
    BY <1>9, CommitWrites
  <2>2. /\ call' = call
        /\ \A q \in Procs \ {p} : reply'[q] = reply[q]
        /\ reply'[p] # "existing"
    BY <1>9 DEF Commit, Answer, TypeOK
  <2> HIDE DEF rec
  <2> QED BY <1>0, <2>1, <2>2 DEF AnsweredIsRecorded, Recorded, FundOps
<1>10. ASSUME NEW p \in Procs, Drop(p) PROVE AnsweredIsRecorded'
  BY <1>0, <1>10 DEF Drop, Answer, AnsweredIsRecorded, Recorded, TypeOK
<1> QED BY <1>1, <1>2, <1>3, <1>4, <1>5, <1>6, <1>7, <1>8, <1>9, <1>10
        DEF Next, Advance

\* A success is durable: what an answer says took effect is in the tables, and
\* stays there.
THEOREM SuccessIsDurable == Spec => []AnsweredIsRecorded
<1>1. Init => AnsweredIsRecorded
  BY DEF Init, AnsweredIsRecorded
<1>2. Inv /\ AnsweredIsRecorded /\ [Next]_vars => AnsweredIsRecorded'
  BY AnsweredStep, InvParts
<1> QED BY <1>1, <1>2, InitInv, NextInv, PTL DEF Spec

-----------------------------------------------------------------------------
\* Each retry of a request was paid for by a version another one counted up.
LEMMA AttemptsInv ==
    Inv /\ AttemptsAreLost /\ ExhaustedByOthers /\ [Next]_vars
        => AttemptsAreLost' /\ ExhaustedByOthers'
<1> SUFFICES ASSUME Inv, AttemptsAreLost, ExhaustedByOthers, [Next]_vars
             PROVE  AttemptsAreLost' /\ ExhaustedByOthers'
  OBVIOUS
<1> DEFINE version(q) == accounts[call[q].user].version
<1>0. /\ \A u \in Users : /\ accounts[u].version \in Nat
                          /\ accounts'[u].version \in Nat
                          /\ accounts[u].version <= accounts'[u].version
      /\ \A q \in Procs : /\ call[q].user \in Users
                          /\ began[q] \in Nat /\ attempt[q] \in 1 .. MaxAttempts
                          /\ seen[q].version \in Nat
      /\ \A c \in Calls : c.user \in Users
      /\ MaxAttempts \in Nat \ {0}
  <2>1. Inv'
    BY NextInv
  <2> QED BY <2>1, InvParts, TablesGrow, CallsAssumption, AttemptsAssumption
          DEF Inv, TypeOK, Account, Call
<1> USE DEF InTransaction
<1>1. CASE UNCHANGED vars
  BY <1>1 DEF vars, tables, requests, AttemptsAreLost, ExhaustedByOthers
<1>2. ASSUME NEW p \in Procs, NEW c \in Calls, Issue(p, c) \/ Refuse(p, c)
      PROVE  AttemptsAreLost' /\ ExhaustedByOthers'
  BY <1>0, <1>2 DEF Issue, Refuse, Answer, tables, AttemptsAreLost,
     ExhaustedByOthers, Inv, TypeOK
<1>3. ASSUME NEW p \in Procs, Conflict(p)
      PROVE  AttemptsAreLost' /\ ExhaustedByOthers'
  <2>1. began[p] + attempt[p] <= accounts[call[p].user].version
    <3>1. /\ seen[p].version <= accounts[call[p].user].version
          /\ seen[p].version # accounts[call[p].user].version
      BY <1>3 DEF Conflict, Inv, Coherent, Orderly, SnapshotsHold
    <3> QED BY <1>0, <1>3, <3>1 DEF Conflict, AttemptsAreLost
  <2>2. CASE attempt[p] < MaxAttempts
    BY <1>0, <1>3, <2>1, <2>2 DEF Conflict, GoTo, tables, AttemptsAreLost,
       ExhaustedByOthers, Inv, TypeOK
  <2>3. CASE attempt[p] = MaxAttempts
    BY <1>0, <1>3, <2>1, <2>3 DEF Conflict, Answer, tables, AttemptsAreLost,
       ExhaustedByOthers, Inv, TypeOK
  <2> QED BY <1>0, <2>2, <2>3
<1>4. ASSUME NEW p \in Procs, UpdateAccount(p) \/ InsertRecord(p) \/ KeyTaken(p)
      PROVE  AttemptsAreLost' /\ ExhaustedByOthers'
  BY <1>0, <1>4 DEF UpdateAccount, InsertRecord, KeyTaken, GoTo, tables,
     AttemptsAreLost, ExhaustedByOthers, Inv, TypeOK
<1>5. ASSUME NEW p \in Procs, LoadAccount(p)
      PROVE  AttemptsAreLost' /\ ExhaustedByOthers'
  BY <1>0, <1>5 DEF LoadAccount, GoTo, Answer, tables, AttemptsAreLost,
     ExhaustedByOthers, Inv, TypeOK
<1>6. ASSUME NEW p \in Procs, PreCheck(p) \/ Lookup(p)
      PROVE  AttemptsAreLost' /\ ExhaustedByOthers'
  BY <1>0, <1>6 DEF PreCheck, Lookup, GoTo, Answer, tables, AttemptsAreLost,
     ExhaustedByOthers, Inv, TypeOK
<1>7. ASSUME NEW p \in Procs,
             FindAccount(p) \/ SaveAccount(p) \/ SaveConflict(p) \/ RefindAccount(p)
      PROVE  AttemptsAreLost' /\ ExhaustedByOthers'
  BY <1>0, <1>7 DEF FindAccount, SaveAccount, SaveConflict, RefindAccount, GoTo,
     Answer, tables, AttemptsAreLost, ExhaustedByOthers, Inv, TypeOK
<1>8. ASSUME NEW p \in Procs, Commit(p)
      PROVE  AttemptsAreLost' /\ ExhaustedByOthers'
  <2>1. /\ pc' = [pc EXCEPT ![p] = "idle"]
        /\ attempt' = [attempt EXCEPT ![p] = 1]
        /\ seen' = [seen EXCEPT ![p] = NewAccount]
        /\ \E r \in {"applied", "error"} : reply' = [reply EXCEPT ![p] = r]
        /\ UNCHANGED <<call, began>>
    BY <1>8 DEF Commit, Answer
  <2> QED BY <1>0, <2>1 DEF AttemptsAreLost, ExhaustedByOthers, Inv, TypeOK
<1>9. ASSUME NEW p \in Procs, Drop(p)
      PROVE  AttemptsAreLost' /\ ExhaustedByOthers'
  BY <1>0, <1>9 DEF Drop, Answer, tables, AttemptsAreLost, ExhaustedByOthers,
     Inv, TypeOK
<1> QED BY <1>1, <1>2, <1>3, <1>4, <1>5, <1>6, <1>7, <1>8, <1>9
        DEF Next, Acquire, Advance

\* A call gives up only when MaxAttempts others took effect on its account
\* since it came in.
THEOREM ExhaustedFairly == Spec => []ExhaustedByOthers
<1>1. Init => AttemptsAreLost /\ ExhaustedByOthers
  <2>1. (CHOOSE c \in Calls : TRUE) \in Calls
    BY CallsAssumption
  <2> QED BY <2>1, CallsAssumption DEF Init, AttemptsAreLost, ExhaustedByOthers,
          InTransaction, NewAccount, Call
<1> QED BY <1>1, InitInv, NextInv, AttemptsInv, PTL DEF Spec

-----------------------------------------------------------------------------
\* How many of its steps a request has ahead of it at each label, if it is
\* not sent back to load its account again.
StepsAhead == [idle |-> 0, precheck |-> 6, load |-> 5, update |-> 4, insert |-> 3,
               commit |-> 2, lookup |-> 2,
               findAccount |-> 3, saveAccount |-> 2, refindAccount |-> 1]

\* ... and with the attempts it has left, each of which costs two more.
StepsLeft(p) == IF pc[p] = "idle" THEN 0
                ELSE 2 * (MaxAttempts - attempt[p]) + StepsAhead[pc[p]]

\* A request comes to its end in 2 * MaxAttempts + 4 steps of its own at most,
\* whatever the others do meanwhile (billing.service.ts:436-521): every step
\* of it counts the steps it has left down, and nobody else's counts them up.
CallsEnd ==
    [][\A p \in Procs : pc[p] # "idle" =>
        /\ StepsLeft(p) \in 1 .. 2 * MaxAttempts + 4
        /\ \/ UNCHANGED <<pc[p], attempt[p]>>
           \/ StepsLeft(p)' < StepsLeft(p)]_vars

\* The same as a fact of one step.
StepCounts ==
    \A q \in Procs : pc[q] # "idle" =>
        \/ pc'[q] = pc[q] /\ attempt'[q] = attempt[q]
        \/ pc'[q] = "idle"
        \/ /\ pc'[q] # "idle"
           /\ 2 * (MaxAttempts - attempt'[q]) + StepsAhead[pc'[q]]
                < 2 * (MaxAttempts - attempt[q]) + StepsAhead[pc[q]]

\* A step of one request, from a label to the next or to its answer.
LEMMA StepCountsOne ==
    ASSUME TypeOK, NEW p \in Procs, pc[p] # "idle",
           pc' \in [Procs -> Labels],
           \A q \in Procs : q # p => pc'[q] = pc[q] /\ attempt'[q] = attempt[q],
           \/ pc'[p] = "idle"
           \/ attempt'[p] = attempt[p] /\ StepsAhead[pc'[p]] < StepsAhead[pc[p]]
           \/ /\ attempt'[p] = attempt[p] + 1
              /\ StepsAhead[pc'[p]] <= StepsAhead[pc[p]] + 1
    PROVE  StepCounts
<1>1. \A l \in Labels : StepsAhead[l] \in Nat
  BY DEF StepsAhead, Labels
<1>2. /\ StepsAhead[pc[p]] \in Nat /\ StepsAhead[pc'[p]] \in Nat
      /\ attempt[p] \in Int /\ MaxAttempts \in Int
  BY <1>1, AttemptsAssumption DEF TypeOK
<1> QED BY <1>2 DEF StepCounts

\* Every step is such a step, or of a request that is not in flight.
LEMMA StepsCount == TypeOK /\ TypeOK' /\ [Next]_vars => StepCounts
<1> SUFFICES ASSUME TypeOK, TypeOK', [Next]_vars PROVE StepCounts
  OBVIOUS
<1>0. pc \in [Procs -> Labels] /\ pc' \in [Procs -> Labels] /\ attempt \in [Procs -> 1 .. MaxAttempts]
  BY DEF TypeOK
<1>1. CASE UNCHANGED vars
  BY <1>1 DEF vars, requests, StepCounts
<1>2. ASSUME NEW p \in Procs, NEW c \in Calls, Issue(p, c) \/ Refuse(p, c)
      PROVE  StepCounts
  BY <1>0, <1>2 DEF Issue, Refuse, Answer, StepCounts
<1>3. ASSUME NEW p \in Procs, Conflict(p)
      PROVE  StepCounts
  <2>1. CASE attempt[p] < MaxAttempts
    BY <1>0, <1>3, <2>1, StepCountsOne DEF Conflict, GoTo, StepsAhead
  <2>2. CASE ~(attempt[p] < MaxAttempts)
    BY <1>0, <1>3, <2>2, StepCountsOne DEF Conflict, Answer
  <2> QED BY <2>1, <2>2
<1>4. ASSUME NEW p \in Procs, UpdateAccount(p) \/ InsertRecord(p) \/ KeyTaken(p)
      PROVE  StepCounts
  BY <1>0, <1>4, StepCountsOne DEF UpdateAccount, InsertRecord, KeyTaken, GoTo, StepsAhead
<1>5. ASSUME NEW p \in Procs, LoadAccount(p) \/ PreCheck(p)
      PROVE  StepCounts
  BY <1>0, <1>5, StepCountsOne DEF LoadAccount, PreCheck, GoTo, Answer, StepsAhead
<1>6. ASSUME NEW p \in Procs, FindAccount(p) \/ SaveConflict(p)
      PROVE  StepCounts
  BY <1>0, <1>6, StepCountsOne DEF FindAccount, SaveConflict, GoTo, Answer, StepsAhead
<1>7. ASSUME NEW p \in Procs,
             Lookup(p) \/ SaveAccount(p) \/ RefindAccount(p) \/ Drop(p) \/ Commit(p)
      PROVE  StepCounts
  <2>1. /\ pc[p] # "idle"
        /\ pc' = [pc EXCEPT ![p] = "idle"]
        /\ attempt' = [attempt EXCEPT ![p] = 1]
    BY <1>7 DEF Lookup, SaveAccount, RefindAccount, Drop, Commit, Answer
  <2> QED BY <1>0, <2>1, StepCountsOne
<1> QED BY <1>1, <1>2, <1>3, <1>4, <1>5, <1>6, <1>7 DEF Next, Acquire, Advance

\* What EveryCallIsAnswered needs beside fairness.
THEOREM CallsComeToAnEnd == Spec => CallsEnd
<1>1. ASSUME Inv, [Next]_vars, NEW p \in Procs, pc[p] # "idle"
      PROVE  /\ StepsLeft(p) \in 1 .. 2 * MaxAttempts + 4
             /\ \/ UNCHANGED <<pc[p], attempt[p]>>
                \/ StepsLeft(p)' < StepsLeft(p)
  <2>1. TypeOK /\ TypeOK'
    BY <1>1, NextInv DEF Inv
  <2>2. /\ pc[p] \in Labels \ {"idle"}
        /\ attempt[p] \in 1 .. MaxAttempts /\ MaxAttempts \in Nat \ {0}
    BY <1>1, <2>1, AttemptsAssumption DEF TypeOK
  <2>3. StepsAhead[pc[p]] \in 1 .. 6
    BY <2>2 DEF Labels, StepsAhead
  <2>4. StepsLeft(p) \in 1 .. 2 * MaxAttempts + 4
    BY <2>2, <2>3 DEF StepsLeft
  <2>5. StepCounts
    BY <1>1, <2>1, StepsCount
  <2>6. UNCHANGED <<pc[p], attempt[p]>> \/ StepsLeft(p)' < StepsLeft(p)
    BY <1>1, <2>4, <2>5 DEF StepCounts, StepsLeft
  <2> QED BY <2>4, <2>6
<1>2. Inv /\ [Next]_vars
        => [\A p \in Procs : pc[p] # "idle" =>
                /\ StepsLeft(p) \in 1 .. 2 * MaxAttempts + 4
                /\ \/ UNCHANGED <<pc[p], attempt[p]>>
                   \/ StepsLeft(p)' < StepsLeft(p)]_vars
  BY <1>1
<1> QED BY <1>2, InitInv, NextInv, PTL DEF Spec, CallsEnd

-----------------------------------------------------------------------------
\* On numeric columns a call moves exactly its amount: between two columns, or
\* into the balance, as the ledger says; and the statement reports it.
LEMMA NumbersMove ==
    ASSUME ~ColumnsAreText, NEW c \in Calls, NEW a \in Account,
           c.op \in FundOps, c.amount \in Nat,
           NEW b, b = Updated(c, a, a), NEW rec, rec = RecordOf(c, a)
    PROVE  /\ b.balance + b.frozen + b.totalConsumed
                  - (b.totalRecharged + b.totalGifted)
              = a.balance + a.frozen + a.totalConsumed
                  - (a.totalRecharged + a.totalGifted)
           /\ b.balance = a.balance + BalanceDelta(rec)
<1> DEFINE n == c.amount
<1>1. /\ rec.op = c.op
      /\ rec.amount = IF c.op \in {"freeze", "settle"} THEN -n ELSE n
  BY DEF RecordOf
<1>2. /\ a.balance \in Nat /\ a.frozen \in Nat /\ a.totalConsumed \in Nat
      /\ a.totalRecharged \in Nat /\ a.totalGifted \in Nat
  BY DEF Account
<1>3. CASE c.op = "freeze"
  <2>1. /\ b.balance = a.balance - n
        /\ b.frozen = a.frozen + n
        /\ b.totalRecharged = a.totalRecharged
        /\ b.totalConsumed = a.totalConsumed
        /\ b.totalGifted = a.totalGifted
    BY <1>3 DEF Updated, Plus, Account
  <2>2. BalanceDelta(rec) = -n
    BY <1>1, <1>3 DEF BalanceDelta
  <2> HIDE DEF n
  <2> QED BY <1>2, <2>1, <2>2 DEF n
<1>4. CASE c.op = "settle"
  <2>1. /\ b.balance = a.balance
        /\ b.frozen = a.frozen - n
        /\ b.totalRecharged = a.totalRecharged
        /\ b.totalConsumed = a.totalConsumed + n
        /\ b.totalGifted = a.totalGifted
    BY <1>4 DEF Updated, Plus, Account
  <2>2. BalanceDelta(rec) = 0
    BY <1>1, <1>4 DEF BalanceDelta
  <2> HIDE DEF n
  <2> QED BY <1>2, <2>1, <2>2 DEF n
<1>5. CASE c.op = "rollback"
  <2>1. /\ b.balance = a.balance + n
        /\ b.frozen = a.frozen - n
        /\ b.totalRecharged = a.totalRecharged
        /\ b.totalConsumed = a.totalConsumed
        /\ b.totalGifted = a.totalGifted
    BY <1>5 DEF Updated, Plus, Account
  <2>2. BalanceDelta(rec) = n
    BY <1>1, <1>5 DEF BalanceDelta
  <2> HIDE DEF n
  <2> QED BY <1>2, <2>1, <2>2 DEF n
<1>6. CASE c.op = "recharge"
  <2>1. /\ b.balance = a.balance + n
        /\ b.frozen = a.frozen
        /\ b.totalRecharged = a.totalRecharged + n
        /\ b.totalConsumed = a.totalConsumed
        /\ b.totalGifted = a.totalGifted
    BY <1>6 DEF Updated, Plus, Account
  <2>2. BalanceDelta(rec) = n
    BY <1>1, <1>6 DEF BalanceDelta
  <2> HIDE DEF n
  <2> QED BY <1>2, <2>1, <2>2 DEF n
<1>7. CASE c.op = "gift"
  <2>1. /\ b.balance = a.balance + n
        /\ b.frozen = a.frozen
        /\ b.totalRecharged = a.totalRecharged
        /\ b.totalConsumed = a.totalConsumed
        /\ b.totalGifted = a.totalGifted + n
    BY <1>7 DEF Updated, Plus, Account
  <2>2. BalanceDelta(rec) = n
    BY <1>1, <1>7 DEF BalanceDelta
  <2> HIDE DEF n
  <2> QED BY <1>2, <2>1, <2>2 DEF n
<1> QED BY <1>3, <1>4, <1>5, <1>6, <1>7 DEF FundOps

\* With the numeric columns the entities declare, tokens are neither made nor
\* lost: what came in is available, frozen or consumed.
THEOREM NothingIsLost ==
    ASSUME ~ColumnsAreText PROVE Spec => []Conservation
<1>1. Init => Conservation
  BY DEF Init, Conservation, NewAccount
<1>2. Inv /\ Conservation /\ [Next]_vars => Conservation'
  <2> SUFFICES ASSUME Inv, Conservation, [Next]_vars PROVE Conservation'
    OBVIOUS
  <2>1. CASE UNCHANGED accounts
    BY <2>1 DEF Conservation
  <2>2. ASSUME NEW p \in Procs, Commit(p) PROVE Conservation'
    <3> DEFINE u == call[p].user
               a == accounts[u]
               b == Updated(call[p], a, a)
    <3>1. /\ u \in Users /\ a \in Account /\ b \in Account
          /\ accounts' = [accounts EXCEPT ![u] = b]
      BY <2>2, CommitEffect
    <3>2. b.balance + b.frozen + b.totalConsumed
              - (b.totalRecharged + b.totalGifted)
          = a.balance + a.frozen + a.totalConsumed
              - (a.totalRecharged + a.totalGifted)
      BY <2>2, CommitEffect, NumbersMove
    <3>3. b.balance + b.frozen + b.totalConsumed = b.totalRecharged + b.totalGifted
      <4>1. a.balance + a.frozen + a.totalConsumed
                = a.totalRecharged + a.totalGifted
        BY <3>1 DEF Conservation
      <4>2. \A x \in Account : /\ x.balance \in Nat /\ x.frozen \in Nat
                               /\ x.totalConsumed \in Nat
                               /\ x.totalRecharged \in Nat /\ x.totalGifted \in Nat
        BY DEF Account
      <4> HIDE DEF a, b
      <4> QED BY <3>1, <3>2, <4>1, <4>2
    <3> HIDE DEF u, b
    <3> QED BY <3>1, <3>3 DEF Conservation, Inv, TypeOK
  <2> QED BY <2>1, <2>2, InvParts, TablesChange DEF tables
<1> QED BY <1>1, <1>2, InitInv, NextInv, PTL DEF Spec

\* With numeric columns, the records of an account in order of their versions
\* are a statement that adds up, from nothing to the present balance.
THEOREM StatementsAddUp ==
    ASSUME ~ColumnsAreText PROVE Spec => []StatementAddsUp
<1> DEFINE J == VersionsAreRecorded /\ StatementAddsUp
                /\ \A u \in Users : accounts[u].version = 0 =>
                       accounts[u].balance = 0
<1>1. Init => J
  BY DEF Init, StatementAddsUp, VersionsAreRecorded, NewAccount
<1>2. Inv /\ J /\ VersionsAreRecorded' /\ [Next]_vars => J'
  <2> SUFFICES ASSUME Inv, J, VersionsAreRecorded', [Next]_vars PROVE J'
    OBVIOUS
  <2>1. CASE UNCHANGED <<accounts, records>>
    BY <2>1 DEF StatementAddsUp
  <2>2. ASSUME NEW p \in Procs, Commit(p) PROVE J'
    <3> DEFINE u == call[p].user
               a == accounts[u]
               b == Updated(call[p], a, a)
               rec == RecordOf(call[p], a)
    <3>1. /\ u \in Users /\ a \in Account /\ b \in Account
          /\ b.version = a.version + 1
          /\ accounts' = [accounts EXCEPT ![u] = b]
          /\ rec \in Record
          /\ rec.user = u /\ rec.seq = a.version + 1
          /\ rec.balanceAfter = b.balance
          /\ records' = records \cup {rec}
      BY <2>2, CommitEffect
    <3>2. b.balance = a.balance + BalanceDelta(rec)
      BY <2>2, CommitEffect, NumbersMove
    <3>3. /\ \A r \in records : /\ r.user \in Users /\ r.seq \in Nat
                                /\ r.seq \in 1 .. accounts[r.user].version
                                /\ r.balanceAfter \in Nat
                                /\ BalanceDelta(r) \in Int
          /\ BalanceDelta(rec) \in Int
      BY <3>1 DEF Inv, TypeOK, Record, BalanceDelta, VersionsAreRecorded
    <3>4. a.version = 0 => a.balance = 0
      BY <3>1
    <3>5. /\ \A r \in records : r.seq = 1 => r.balanceAfter = BalanceDelta(r)
          /\ \A r, s \in records : r.user = s.user /\ r.seq = s.seq + 1 =>
                 r.balanceAfter = s.balanceAfter + BalanceDelta(r)
          /\ \A r \in records : r.seq = accounts[r.user].version =>
                 r.balanceAfter = accounts[r.user].balance
      BY DEF StatementAddsUp
    <3>6. /\ accounts'[u] = b
          /\ \A v \in Users : v # u => accounts'[v] = accounts[v]
          /\ a.version \in Nat /\ a.balance \in Nat
      BY <3>1 DEF Inv, TypeOK, Account
    <3>7. \A r \in records : r.user = u => r.seq <= a.version
      BY <3>3, <3>6
    <3>8. \A s \in records : s.user = u /\ s.seq = a.version =>
              s.balanceAfter = a.balance
      BY <3>5
    <3> HIDE DEF u, a, b, rec
    <3>9. \A r \in records' : r.seq = 1 => r.balanceAfter = BalanceDelta(r)
      BY <3>1, <3>2, <3>3, <3>4, <3>5, <3>6
    <3>10. \A r, s \in records' : r.user = s.user /\ r.seq = s.seq + 1 =>
               r.balanceAfter = s.balanceAfter + BalanceDelta(r)
      <4> SUFFICES ASSUME NEW r \in records', NEW s \in records',
                          r.user = s.user, r.seq = s.seq + 1
                   PROVE  r.balanceAfter = s.balanceAfter + BalanceDelta(r)
        OBVIOUS
      <4>1. CASE r = rec /\ s = rec
        BY <4>1, <3>1, <3>6
      <4>2. CASE r = rec /\ s \in records
        BY <4>2, <3>1, <3>2, <3>3, <3>6, <3>8
      <4>3. CASE r \in records /\ s = rec
        BY <4>3, <3>1, <3>3, <3>6, <3>7
      <4>4. CASE r \in records /\ s \in records
        BY <4>4, <3>5
      <4> QED BY <4>1, <4>2, <4>3, <4>4, <3>1
    <3>11. \A r \in records' : r.seq = accounts'[r.user].version =>
               r.balanceAfter = accounts'[r.user].balance
      <4> TAKE r \in records'
      <4>1. CASE r = rec
        BY <4>1, <3>1, <3>6
      <4>2. CASE r \in records /\ r.user = u
        BY <4>2, <3>1, <3>3, <3>6, <3>7
      <4>3. CASE r \in records /\ r.user # u
        BY <4>3, <3>3, <3>5, <3>6
      <4> QED BY <4>1, <4>2, <4>3, <3>1
    <3>12. \A v \in Users : accounts'[v].version = 0 => accounts'[v].balance = 0
      BY <3>1, <3>6
    <3> QED BY <3>9, <3>10, <3>11, <3>12 DEF StatementAddsUp
  <2> QED BY <2>1, <2>2, InvParts, TablesChange DEF tables
<1>3. J => StatementAddsUp
  OBVIOUS
<1> HIDE DEF J
<1> QED BY <1>1, <1>2, <1>3, EveryVersionRecorded, InitInv, NextInv, PTL DEF Spec

-----------------------------------------------------------------------------
\* On numeric columns, a call moves in each column what its record says.
LEMMA ColumnsMove ==
    ASSUME ~ColumnsAreText, NEW c \in Calls, NEW a \in Account,
           c.op \in FundOps, c.amount \in Nat,
           NEW b, b = Updated(c, a, a), NEW rec \in Record, rec = RecordOf(c, a)
    PROVE  /\ b.balance = a.balance + BalanceMoves[rec]
           /\ b.frozen = a.frozen + FrozenMoves[rec]
           /\ b.totalRecharged = a.totalRecharged + RechargeMoves[rec]
           /\ b.totalConsumed = a.totalConsumed + ConsumeMoves[rec]
           /\ b.totalGifted = a.totalGifted + GiftMoves[rec]
<1> DEFINE n == c.amount
<1>1. /\ rec.op = c.op
      /\ rec.amount = IF c.op \in {"freeze", "settle"} THEN -n ELSE n
  BY DEF RecordOf
<1>2. /\ a.balance \in Nat /\ a.frozen \in Nat /\ a.totalConsumed \in Nat
      /\ a.totalRecharged \in Nat /\ a.totalGifted \in Nat /\ n \in Nat
  BY DEF Account
<1>3. BalanceMoves[rec] = IF c.op = "settle" THEN 0 ELSE rec.amount
  BY <1>1 DEF BalanceMoves, BalanceDelta
<1>4. FrozenMoves[rec] = IF c.op = "settle" THEN rec.amount
                         ELSE IF c.op \in {"freeze", "rollback"} THEN -rec.amount ELSE 0
  BY <1>1 DEF FrozenMoves
<1>5. /\ RechargeMoves[rec] = (IF c.op = "recharge" THEN rec.amount ELSE 0)
      /\ ConsumeMoves[rec] = (IF c.op = "settle" THEN -rec.amount ELSE 0)
      /\ GiftMoves[rec] = (IF c.op = "gift" THEN rec.amount ELSE 0)
  BY <1>1 DEF RechargeMoves, ConsumeMoves, GiftMoves
<1>6. b.balance = a.balance + BalanceMoves[rec]
  <2>1. b.balance = CASE c.op = "freeze" -> a.balance - n
                      [] c.op = "settle" -> a.balance
                      [] c.op \in {"rollback", "recharge", "gift"} -> a.balance + n
    BY DEF Updated, Plus, Account, FundOps
  <2> HIDE DEF n
  <2> QED BY <1>1, <1>2, <1>3, <2>1 DEF FundOps
<1>7. b.frozen = a.frozen + FrozenMoves[rec]
  <2>1. b.frozen = CASE c.op = "freeze" -> a.frozen + n
                     [] c.op \in {"settle", "rollback"} -> a.frozen - n
                     [] c.op \in {"recharge", "gift"} -> a.frozen
    BY DEF Updated, Plus, Account, FundOps
  <2> HIDE DEF n
  <2> QED BY <1>1, <1>2, <1>4, <2>1 DEF FundOps
<1>8. /\ b.totalRecharged = a.totalRecharged + RechargeMoves[rec]
      /\ b.totalConsumed = a.totalConsumed + ConsumeMoves[rec]
      /\ b.totalGifted = a.totalGifted + GiftMoves[rec]
  <2>1. /\ b.totalRecharged = IF c.op = "recharge" THEN a.totalRecharged + n
                                                   ELSE a.totalRecharged
        /\ b.totalConsumed = IF c.op = "settle" THEN a.totalConsumed + n
                                                ELSE a.totalConsumed
        /\ b.totalGifted = IF c.op = "gift" THEN a.totalGifted + n ELSE a.totalGifted
    BY DEF Updated, Plus, Account, FundOps
  <2> HIDE DEF n
  <2> QED BY <1>1, <1>2, <1>5, <2>1
<1> QED BY <1>6, <1>7, <1>8

\* The functions that say what records move, each a function to the integers.
Moves == {BalanceMoves, FrozenMoves, RechargeMoves, ConsumeMoves, GiftMoves}

\* A record moves whole numbers of tokens.
LEMMA MovesType == ASSUME NEW f \in Moves, NEW r \in Record PROVE f[r] \in Int
<1>1. r.amount \in Int /\ -r.amount \in Int
  BY DEF Record
<1>2. FrozenMoves[r] = IF r.op = "settle" THEN r.amount
                       ELSE IF r.op \in {"freeze", "rollback"} THEN -r.amount ELSE 0
  BY DEF FrozenMoves
<1>3. BalanceMoves[r] \in Int /\ FrozenMoves[r] \in Int
  BY <1>1, <1>2 DEF BalanceMoves, BalanceDelta
<1>4. RechargeMoves[r] \in Int /\ ConsumeMoves[r] \in Int /\ GiftMoves[r] \in Int
  BY <1>1 DEF RechargeMoves, ConsumeMoves, GiftMoves
<1> QED BY <1>3, <1>4 DEF Moves

\* One more record adds what it moved to the books of its user, and nothing to
\* those of others.
LEMMA OneMoreBooked ==
    ASSUME IsFiniteSet(records), records \subseteq Record,
           NEW rec \in Record, rec \notin records, records' = records \cup {rec},
           NEW f \in Moves, NEW u
    PROVE  /\ Booked(f, u) \in Int
           /\ rec.user = u => SumFunctionOnSet(f, {r \in records' : r.user = u})
                                = Booked(f, u) + f[rec]
           /\ rec.user # u => SumFunctionOnSet(f, {r \in records' : r.user = u})
                                = Booked(f, u)
<1> DEFINE Mine == {r \in records : r.user = u}
           Now == {r \in records' : r.user = u}
<1>1. IsFiniteSet(Mine)
  BY FS_Subset
<1>2. \A r \in Mine : f[r] \in Int
  BY MovesType
<1>3. f[rec] \in Int /\ rec \notin Mine
  BY MovesType
<1>4. Booked(f, u) = SumFunctionOnSet(f, Mine)
  BY DEF Booked
<1>5. rec.user = u => Now = Mine \cup {rec}
  OBVIOUS
<1>6. rec.user # u => Now = Mine
  OBVIOUS
<1> HIDE DEF Mine, Now
<1>7. SumFunctionOnSet(f, Mine) \in Int
  BY <1>1, <1>2, SumTake
<1>8. SumFunctionOnSet(f, Mine \cup {rec}) = f[rec] + SumFunctionOnSet(f, Mine)
  BY <1>1, <1>2, <1>3, SumPut
<1>9. /\ SumFunctionOnSet(f, Mine) \in Int
      /\ rec.user = u => SumFunctionOnSet(f, Now) = SumFunctionOnSet(f, Mine) + f[rec]
      /\ rec.user # u => SumFunctionOnSet(f, Now) = SumFunctionOnSet(f, Mine)
  <2>1. CASE rec.user = u
    <3>1. SumFunctionOnSet(f, Now) = f[rec] + SumFunctionOnSet(f, Mine)
      BY <1>5, <1>8, <2>1
    <3> QED BY <1>3, <1>7, <2>1, <3>1
  <2>2. CASE rec.user # u
    BY <1>6, <1>7, <2>2
  <2> QED BY <2>1, <2>2
<1>10. SumFunctionOnSet(f, {r \in records' : r.user = u}) = SumFunctionOnSet(f, Now)
  BY DEF Now
<1> QED BY <1>4, <1>9, <1>10

\* With numeric columns every column of every account is the sum of what the
\* user's records moved, whatever conflicts, duplicates and crashes there were
\* (executeWithOptimisticLock).
THEOREM BooksBalance ==
    ASSUME ~ColumnsAreText PROVE Spec => []AccountsAreBooked
<1> DEFINE J == IsFiniteSet(records) /\ AccountsAreBooked
<1>1. Init => J
  <2> SUFFICES ASSUME Init PROVE J
    OBVIOUS
  <2>1. records = {} /\ \A u \in Users : accounts[u] = NewAccount
    BY DEF Init
  <2>2. \A f, u : Booked(f, u) = 0
    <3>1. \A u : {r \in records : r.user = u} = {}
      BY <2>1
    <3> QED BY <3>1, SumEmpty DEF Booked
  <2> QED BY <2>1, <2>2, FS_EmptySet DEF AccountsAreBooked, NewAccount
<1>2. Inv /\ J /\ [Next]_vars => J'
  <2> SUFFICES ASSUME Inv, J, [Next]_vars PROVE J'
    OBVIOUS
  <2>1. CASE UNCHANGED <<accounts, records>>
    BY <2>1 DEF AccountsAreBooked, Booked
  <2>2. ASSUME NEW p \in Procs, Commit(p) PROVE J'
    <3> DEFINE u == call[p].user
               a == accounts[u]
               b == Updated(call[p], a, a)
               rec == RecordOf(call[p], a)
    <3>1. /\ u \in Users /\ a \in Account /\ b \in Account
          /\ accounts' = [accounts EXCEPT ![u] = b]
          /\ rec \in Record /\ rec.user = u /\ rec \notin records
          /\ records' = records \cup {rec} /\ records \subseteq Record
      BY <2>2, CommitEffect DEF Recorded, Inv, TypeOK
    <3>2. /\ b.balance = a.balance + BalanceMoves[rec]
          /\ b.frozen = a.frozen + FrozenMoves[rec]
          /\ b.totalRecharged = a.totalRecharged + RechargeMoves[rec]
          /\ b.totalConsumed = a.totalConsumed + ConsumeMoves[rec]
          /\ b.totalGifted = a.totalGifted + GiftMoves[rec]
      BY <2>2, CommitEffect, ColumnsMove
    <3>3. accounts'[u] = b /\ \A v \in Users \ {u} : accounts'[v] = accounts[v]
      BY <3>1 DEF Inv, TypeOK
    <3> HIDE DEF u, b, rec
    <3>4. IsFiniteSet(records')
      BY <3>1, FS_AddElement
    <3>5. ASSUME NEW f \in Moves, NEW v
          PROVE  /\ v = u => Booked(f, v)' = Booked(f, v) + f[rec]
                 /\ v # u => Booked(f, v)' = Booked(f, v)
      <4>1. Booked(f, v)' = SumFunctionOnSet(f, {r \in records' : r.user = v})
        BY DEF Booked
      <4> QED BY <3>1, <3>5, <4>1, OneMoreBooked
    <3>6. /\ BalanceMoves \in Moves /\ FrozenMoves \in Moves /\ RechargeMoves \in Moves
          /\ ConsumeMoves \in Moves /\ GiftMoves \in Moves
      BY DEF Moves
    <3>7. ASSUME NEW v \in Users
          PROVE  /\ accounts'[v].balance = Booked(BalanceMoves, v)'
                 /\ accounts'[v].frozen = Booked(FrozenMoves, v)'
                 /\ accounts'[v].totalRecharged = Booked(RechargeMoves, v)'
                 /\ accounts'[v].totalConsumed = Booked(ConsumeMoves, v)'
                 /\ accounts'[v].totalGifted = Booked(GiftMoves, v)'
      <4>1. /\ accounts[v].balance = Booked(BalanceMoves, v)
            /\ accounts[v].frozen = Booked(FrozenMoves, v)
            /\ accounts[v].totalRecharged = Booked(RechargeMoves, v)
            /\ accounts[v].totalConsumed = Booked(ConsumeMoves, v)
            /\ accounts[v].totalGifted = Booked(GiftMoves, v)
        BY DEF AccountsAreBooked
      <4>2. CASE v = u
        BY <3>2, <3>3, <3>5, <3>6, <4>1, <4>2
      <4>3. CASE v # u
        BY <3>3, <3>5, <3>6, <4>1, <4>3
      <4> QED BY <4>2, <4>3
    <3> QED BY <3>4, <3>7 DEF AccountsAreBooked
  <2> QED BY <2>1, <2>2, InvParts, TablesChange DEF tables
<1>3. J => AccountsAreBooked
  OBVIOUS
<1> HIDE DEF J
<1> QED BY <1>1, <1>2, <1>3, InitInv, NextInv, PTL DEF Spec

-----------------------------------------------------------------------------
\* With numeric columns every step of the service is a step of the ledger it
\* promises: a commit applies its call, a saved account opens, and nothing
\* else is visible.
THEOREM ServiceIsLedger ==
    ASSUME ~ColumnsAreText PROVE Spec => ImplementsLedger
<1>1. Init => Promise!Init
  BY DEF Init, Promise!Init, Promise!Empty, NewAccount
<1>2. Inv /\ [Next]_vars => [Promise!Next]_Promise!vars
  <2> SUFFICES ASSUME Inv, [Next]_vars PROVE [Promise!Next]_Promise!vars
    OBVIOUS
  <2>1. CASE UNCHANGED tables
    BY <2>1 DEF tables, Promise!vars
  <2>2. ASSUME NEW p \in Procs, Commit(p) PROVE Promise!Next
    <3> DEFINE c == call[p]
               u == call[p].user
               a == accounts[u]
               b == Updated(c, a, a)
               Columns(x) == [balance |-> x.balance, frozen |-> x.frozen,
                              totalRecharged |-> x.totalRecharged,
                              totalConsumed |-> x.totalConsumed,
                              totalGifted |-> x.totalGifted]
    <3>1. /\ c \in Calls /\ c.op \in FundOps /\ c.amount \in Nat /\ c.amount > 0
          /\ u \in Users /\ u \in open /\ a \in Account /\ Covered(c, a)
          /\ accounts' = [accounts EXCEPT ![u] = b]
          /\ records' = records \cup {RecordOf(c, a)}
          /\ RecordOf(c, a).key = c.key
          /\ ~Recorded(c.key)
          /\ open' = open
      BY <2>2, CommitEffect
    <3>2. Columns(b) = Promise!Moved(c, Columns(a))
      BY <3>1 DEF Updated, Plus, Promise!Moved, Account, FundOps
    <3>3. Promise!Covered(c, Columns(a))
      BY <3>1 DEF Covered, Promise!Covered
    <3>4. accounts'[u] = b /\ \A v \in Users \ {u} : accounts'[v] = accounts[v]
      BY <3>1 DEF Inv, TypeOK
    <3> HIDE DEF a, b
    <3>5. [v \in Users |-> Columns(accounts'[v])] =
              [[v \in Users |-> Columns(accounts[v])] EXCEPT ![u] =
                   Promise!Moved(c, @)]
      BY <3>1, <3>2, <3>4 DEF a
    <3>6. {r.key : r \in records'} = {r.key : r \in records} \cup {c.key}
      BY <3>1
    <3>7. c.key \notin {r.key : r \in records}
      BY <3>1 DEF Recorded
    <3>8. Promise!Apply(c)
      BY <3>1, <3>3, <3>5, <3>6, <3>7 DEF Promise!Apply, FundOps, Promise!FundOps, a
    <3>9. c \in Calls
      BY <3>1
    <3> HIDE DEF c
    <3> QED BY <3>8, <3>9 DEF Promise!Next, Promise!Apply
  <2>3. CASE /\ UNCHANGED <<accounts, records>>
             /\ \E u \in Users \ open : open' = open \cup {u}
    <3>1. PICK u \in Users \ open : open' = open \cup {u}
      BY <2>3
    <3>2. accounts[u] = NewAccount
      BY DEF Inv, Coherent, Orderly, ClosedAreNew
    <3>3. Promise!Open(u)
      BY <2>3, <3>1, <3>2 DEF Promise!Open, Promise!Empty, NewAccount, Inv, TypeOK
    <3> QED BY <3>3 DEF Promise!Next
  <2> QED BY <2>1, <2>2, <2>3, InvParts, TablesChange
<1> QED BY <1>1, <1>2, InitInv, NextInv, PTL DEF Spec, ImplementsLedger, Promise!Spec

-----------------------------------------------------------------------------
(***************************************************************************)
(* What of Billing survives an administrator who writes balances outside   *)
(* its version protocol, for any users, calls, requests and adjustments:   *)
(* Base, all of its invariant but that a snapshot is the account as it     *)
(* stands, and with it whatever speaks of keys, versions and answers.      *)
(***************************************************************************)

\* The inductive invariant: an adjustment is written to an account that exists.
AdminInv ==
    /\ Base
    /\ adminPc \in [Admins -> {"idle", "find", "save", "write"}]
    /\ adjustment \in [Admins -> Adjustments]
    /\ balanceBefore \in [Admins -> Nat]
    /\ adjusted \in 0 .. MaxAdjustments
    /\ \A a \in Admins : adminPc[a] = "write" => adjustment[a].user \in open

\* A balance that is cut off at zero is a natural number.
LEMMA CutOff ==
    ASSUME NEW n \in Int
    PROVE  Max({0, n}) \in Nat
<1>1. \E m \in {0, n} : \A k \in {0, n} : m >= k
  OBVIOUS
<1>2. Max({0, n}) \in {0, n} /\ \A k \in {0, n} : Max({0, n}) >= k
  BY <1>1 DEF Max
<1> QED
  BY <1>2

\* What an administrator's step does to the tables of Billing, if anything: it
\* opens an account, or writes the balance of one that is open.
LEMMA AdminWrites ==
    ASSUME AdminInv, AdminNext
    PROVE  /\ UNCHANGED <<records, requests>>
           /\ \/ UNCHANGED <<open, accounts>>
              \/ \E u \in Users \ open : /\ open' = open \cup {u}
                                         /\ accounts' = accounts
              \/ /\ open' = open
                 /\ \E u \in open, n \in Nat : accounts' = [accounts EXCEPT ![u].balance = n]
<1>1. PICK a \in Admins : \/ \E t \in Adjustments : Adjust(a, t)
                          \/ AdjustFind(a) \/ AdjustSave(a) \/ AdjustWrite(a)
                          \/ AdjustDrop(a)
  BY DEF AdminNext
<1>2. adjustment[a].user \in Users /\ adjustment[a].amount \in Int
  BY AdjustmentsAssumption DEF AdminInv, Adjustment
<1>3. CASE (\E t \in Adjustments : Adjust(a, t)) \/ AdjustFind(a) \/ AdjustDrop(a)
  BY <1>3 DEF Adjust, AdjustFind, AdjustDrop, vars, tables
<1>4. CASE AdjustSave(a)
  BY <1>2, <1>4 DEF AdjustSave, AdminInv, Base, TypeOK, Orderly, ClosedAreNew
<1>5. CASE AdjustWrite(a)
  <2>1. Max({0, balanceBefore[a] + adjustment[a].amount}) \in Nat
    BY <1>2, CutOff DEF AdminInv
  <2> QED
    BY <1>5, <2>1 DEF AdjustWrite, AdminInv
<1> QED
  BY <1>1, <1>3, <1>4, <1>5

\* What is so written is an account, of the version it had.
LEMMA BalanceWritten ==
    ASSUME Base, NEW u \in open, NEW n \in Nat,
           accounts' = [accounts EXCEPT ![u].balance = n]
    PROVE  /\ accounts' \in [Users -> Account]
           /\ \A v \in Users : accounts'[v].version = accounts[v].version
           /\ \A v \in Users \ {u} : accounts'[v] = accounts[v]
<1> DEFINE b == [accounts[u] EXCEPT !.balance = n]
<1>1. u \in Users /\ accounts \in [Users -> Account] /\ accounts[u] \in Account
  BY DEF Base, TypeOK
<1>2. b \in Account /\ b.version = accounts[u].version
  BY <1>1 DEF Account
<1>3. accounts' = [accounts EXCEPT ![u] = b]
  OBVIOUS
<1> HIDE DEF b
<1> QED
  BY <1>1, <1>2, <1>3

\* Base asks of an account only its type and its version, and of one that is
\* not open that it is empty.
LEMMA AdminBase ==
    ASSUME AdminInv, AdminNext
    PROVE  Base' /\ \A v \in Users : accounts'[v].version = accounts[v].version
<1>1. UNCHANGED <<records, requests>> /\ Base
  BY AdminWrites DEF AdminInv
<1> USE DEF Base, Orderly, TypeOK, requests
<1>2. CASE UNCHANGED <<open, accounts>>
  BY <1>1, <1>2 DEF RequestsFit, SnapshotsHold, RowsHaveOneWriter, KeysHaveOneWriter,
     ClosedAreNew, Writers, Recorded
<1>3. ASSUME NEW u \in Users \ open, open' = open \cup {u}, accounts' = accounts
      PROVE  Base' /\ \A v \in Users : accounts'[v].version = accounts[v].version
  BY <1>1, <1>3 DEF RequestsFit, SnapshotsHold, RowsHaveOneWriter, KeysHaveOneWriter,
     ClosedAreNew, Writers, Recorded
<1>4. ASSUME open' = open, NEW u \in open, NEW n \in Nat,
             accounts' = [accounts EXCEPT ![u].balance = n]
      PROVE  Base' /\ \A v \in Users : accounts'[v].version = accounts[v].version
  <2>1. /\ accounts' \in [Users -> Account]
        /\ \A v \in Users : accounts'[v].version = accounts[v].version
        /\ \A v \in Users \ {u} : accounts'[v] = accounts[v]
    BY <1>1, <1>4, BalanceWritten
  <2>2. TypeOK'
    BY <1>1, <1>4, <2>1
  <2>3. \A p \in Procs : call[p].user \in Users
    BY <1>1, CallsAssumption DEF Call
  <2>4. RequestsFit' /\ SnapshotsHold' /\ ClosedAreNew'
    BY <1>1, <1>4, <2>1, <2>3 DEF RequestsFit, SnapshotsHold, ClosedAreNew
  <2>5. RowsHaveOneWriter' /\ KeysHaveOneWriter'
    BY <1>1, <2>1, <2>3 DEF RowsHaveOneWriter, KeysHaveOneWriter, Writers, Recorded
  <2> QED
    BY <2>1, <2>2, <2>4, <2>5
<1> QED
  BY <1>2, <1>3, <1>4, AdminWrites

\* Nobody asked for an adjustment yet.
LEMMA AdminInitInv == AdminInit => AdminInv
<1> SUFFICES ASSUME AdminInit PROVE AdminInv
  OBVIOUS
<1>1. Base
  BY InitInv, InvParts DEF AdminInit
<1>2. (CHOOSE t \in Adjustments : TRUE) \in Adjustments
  BY AdjustmentsAssumption
<1> QED
  BY <1>1, <1>2, BoundAssumption DEF AdminInit, AdminInv

\* Every step of the executor and of an administrator keeps AdminInv.
LEMMA SystemInv == AdminInv /\ [SystemNext]_allVars => AdminInv'
<1> SUFFICES ASSUME AdminInv, [SystemNext]_allVars PROVE AdminInv'
  OBVIOUS
<1>1. CASE [Next]_vars /\ UNCHANGED adminVars
  <2>1. Base'
    BY <1>1, NextBase DEF AdminInv
  <2>2. open \subseteq open'
    BY <1>1, TablesGrow DEF AdminInv
  <2> QED
    BY <1>1, <2>1, <2>2 DEF AdminInv, adminVars
<1>2. CASE AdminNext
  <2>1. Base'
    BY <1>2, AdminBase
  <2>2. open \subseteq open'
    BY <1>2, AdminWrites
  <2>3. PICK a \in Admins : \/ \E t \in Adjustments : Adjust(a, t)
                            \/ AdjustFind(a) \/ AdjustSave(a) \/ AdjustWrite(a)
                            \/ AdjustDrop(a)
    BY <1>2 DEF AdminNext
  <2>4. CASE \E t \in Adjustments : Adjust(a, t)
    BY <2>1, <2>2, <2>4, BoundAssumption DEF Adjust, AdminGoTo, AdminInv
  <2>5. CASE AdjustFind(a)
    <3>1. adjustment[a].user \in open => accounts[adjustment[a].user].balance \in Nat
      BY DEF AdminInv, Base, TypeOK, Account
    <3> QED
      BY <2>1, <2>2, <2>5, <3>1 DEF AdjustFind, AdminGoTo, AdminInv
  <2>6. CASE AdjustSave(a)
    BY <2>1, <2>2, <2>6 DEF AdjustSave, AdminGoTo, AdminInv
  <2>7. CASE AdjustWrite(a) \/ AdjustDrop(a)
    BY <2>1, <2>2, <2>7 DEF AdjustWrite, AdjustDrop, AdminGoTo, AdminInv
  <2> QED
    BY <2>3, <2>4, <2>5, <2>6, <2>7
<1> QED
  BY <1>1, <1>2 DEF SystemNext, allVars

-----------------------------------------------------------------------------
\* Every variable of the executor and of the administrators keeps to its type:
\* no adjustment (admin.service.ts) drives a column below zero either.
THEOREM AdminTypeCorrect == SystemSpec => []AdminTypeOK
<1>1. AdminInv => AdminTypeOK
  BY DEF AdminInv, Base, AdminTypeOK
<1> QED
  BY <1>1, AdminInitInv, SystemInv, PTL DEF SystemSpec

\* An operation repeated with one key takes effect once, whatever an
\* administrator does to the account meanwhile.
THEOREM AdminEffectOncePerKey == SystemSpec => []OneEffectPerKey
<1>1. AdminInit => OneEffectPerKey
  BY DEF AdminInit, Init, OneEffectPerKey
<1>2. AdminInv /\ OneEffectPerKey /\ [SystemNext]_allVars => OneEffectPerKey'
  <2> SUFFICES ASSUME AdminInv, OneEffectPerKey, [SystemNext]_allVars
               PROVE  OneEffectPerKey'
    OBVIOUS
  <2>1. CASE [Next]_vars
    BY <2>1, OneEffectStep DEF AdminInv
  <2>2. CASE AdminNext
    BY <2>2, AdminWrites DEF OneEffectPerKey
  <2> QED
    BY <2>1, <2>2 DEF SystemNext, allVars
<1> QED
  BY <1>1, <1>2, AdminInitInv, SystemInv, PTL DEF SystemSpec

\* The records of an account are numbered 1 to its version: an adjustment
\* counts none up, and hides none.
THEOREM AdminEveryVersionRecorded == SystemSpec => []VersionsAreRecorded
<1>1. AdminInit => VersionsAreRecorded
  BY DEF AdminInit, Init, VersionsAreRecorded, NewAccount
<1>2. AdminInv /\ VersionsAreRecorded /\ [SystemNext]_allVars => VersionsAreRecorded'
  <2> SUFFICES ASSUME AdminInv, VersionsAreRecorded, [SystemNext]_allVars
               PROVE  VersionsAreRecorded'
    OBVIOUS
  <2>1. CASE [Next]_vars
    BY <2>1, VersionsStep DEF AdminInv
  <2>2. CASE AdminNext
    <3>1. records' = records /\ \A v \in Users : accounts'[v].version = accounts[v].version
      BY <2>2, AdminWrites, AdminBase
    <3>2. \A r \in records : r.user \in Users
      BY DEF AdminInv, Base, TypeOK, Record
    <3> QED
      BY <3>1, <3>2 DEF VersionsAreRecorded
  <2> QED
    BY <2>1, <2>2 DEF SystemNext, allVars
<1> QED
  BY <1>1, <1>2, AdminInitInv, SystemInv, PTL DEF SystemSpec

\* What an answer says took effect is in the tables, and stays there.
THEOREM AdminSuccessIsDurable == SystemSpec => []AnsweredIsRecorded
<1>1. AdminInit => AnsweredIsRecorded
  BY DEF AdminInit, Init, AnsweredIsRecorded
<1>2. AdminInv /\ AnsweredIsRecorded /\ [SystemNext]_allVars => AnsweredIsRecorded'
  <2> SUFFICES ASSUME AdminInv, AnsweredIsRecorded, [SystemNext]_allVars
               PROVE  AnsweredIsRecorded'
    OBVIOUS
  <2>1. CASE [Next]_vars
    BY <2>1, AnsweredStep DEF AdminInv
  <2>2. CASE AdminNext
    <3>1. UNCHANGED <<records, requests>> /\ open \subseteq open'
      BY <2>2, AdminWrites
    <3> QED
      BY <3>1 DEF AnsweredIsRecorded, Recorded, requests
  <2> QED
    BY <2>1, <2>2 DEF SystemNext, allVars
<1> QED
  BY <1>1, <1>2, AdminInitInv, SystemInv, PTL DEF SystemSpec
=============================================================================
