--------------------------- MODULE ApiKeysProofs ---------------------------
(***************************************************************************)
(* The API keys of a user, for any number of keys and of requests in        *)
(* flight: the limit is passed by concurrent creations only, usage is lost  *)
(* only to a toggle that overlaps it, and a deleted key stays deleted.      *)
(***************************************************************************)
EXTENDS ApiKeys, FiniteSetTheorems, TLAPS

\* What a toggle has read is what the row holds, and what it is to write is
\* the state alone, unless the key was used between its two reads.
Copies ==
    \A p \in Procs :
        LET k == req[p].key IN
        k \in Existing /\ k \notin raced =>
            /\ pc[p] = "save" => /\ req[p].row.used = key[k].used
                                 /\ req[p].row.last = key[k].last
            /\ pc[p] = "update" => req[p].cols \subseteq {"state"}

\* Nothing was booked on a key that has not been created.
UnusedIsUnbooked ==
    \A k \in Keys : key[k].state = "unused" => told[k] = 0 /\ stamps[k] = 0

\* The inductive invariant of the usage.
Inv == TypeOK /\ Copies /\ UnusedIsUnbooked /\ UsageIsExact

\* A row with another state is a row, and its counters are the same.
LEMMA Switched ==
    ASSUME NEW r \in Row, NEW s \in States
    PROVE  LET x == [r EXCEPT !.state = s] IN
           x \in Row /\ x.state = s /\ x.used = r.used /\ x.last = r.last
BY DEF Row, States

\* So is a request that holds a copy of it a request.
LEMMA Holds ==
    ASSUME NEW k \in Keys, NEW row \in Row
    PROVE  LET x == [Nothing EXCEPT !.key = k, !.row = row] IN
           x \in Request /\ x.key = k /\ x.row = row
BY DEF Nothing, Request, Columns

\* What an insert writes.
LEMMA Created ==
    [Fresh EXCEPT !.state = "enabled"] = [state |-> "enabled", used |-> 0, last |-> 0]
BY DEF Fresh

\* The rows are unused and every request idle at the start.
LEMMA InitType == Init => TypeOK
BY ApiKeysAssumption
   DEF Init, TypeOK, Row, States, Fresh, Labels, Request, Nothing, Columns

\* Each step leaves every variable in its type, and no key that a request has
\* read goes back to being unused.
LEMMA NextType == TypeOK /\ [Next]_vars => TypeOK'
<1> SUFFICES ASSUME TypeOK, [Next]_vars PROVE TypeOK'
  OBVIOUS
<1> USE ApiKeysAssumption DEF TypeOK, Row, States, Fresh, Labels, Request, Nothing,
                              Columns, Return, Begin, Existing, ghosts
<1>1. ASSUME NEW p \in Procs, Create(p) PROVE TypeOK'
  BY <1>1 DEF Create
<1>2. ASSUME NEW p \in Procs, NEW k \in Keys, Insert(p, k) PROVE TypeOK'
  BY <1>2 DEF Insert
<1>3. ASSUME NEW p \in Procs, NEW k \in Keys, NEW s \in {"enabled", "disabled"},
             Toggle(p, k, s) PROVE TypeOK'
  <2> DEFINE row == [key[k] EXCEPT !.state = s]
             r == [Nothing EXCEPT !.key = k, !.row = row]
  <2>1. row \in Row /\ row.state = s
    <3>1. key[k] \in Row /\ s \in States
      OBVIOUS
    <3> QED
      BY <3>1, Switched DEF row
  <2>3. r \in Request /\ r.key = k /\ r.row = row
    <3> HIDE DEF row, Nothing, Request, Row
    <3> QED
      BY <2>1, Holds
  <2>4. /\ req' = [req EXCEPT ![p] = r]
        /\ pc' = [pc EXCEPT ![p] = "save"]
        /\ calls' = calls + 1
        /\ k \in Existing
        /\ UNCHANGED <<key, told, stamps, raced>>
    BY <1>3 DEF Toggle
  <2> HIDE DEF row, r
  <2> QED
    BY <2>1, <2>3, <2>4
<1>4. ASSUME NEW p \in Procs, Save(p) PROVE TypeOK'
  <2>1. CASE Found(p)
    <3>1. Differing(p) \in SUBSET Columns
      BY DEF Differing
    <3>2. /\ pc[p] = "save"
          /\ pc' = [pc EXCEPT ![p] = "update"]
          /\ req' = [req EXCEPT ![p].cols = Differing(p)]
          /\ UNCHANGED <<key, calls, told, stamps, raced>>
      BY <1>4, <2>1 DEF Save
    <3> QED
      BY <3>1, <3>2
  <2>2. CASE ~Found(p)
    <3>1. Return(p) /\ UNCHANGED <<key, calls, told, stamps, raced>>
      BY <1>4, <2>2 DEF Save
    <3> QED
      BY <3>1
  <2> QED
    BY <2>1, <2>2
<1>5. ASSUME NEW p \in Procs, Update(p) PROVE TypeOK'
  BY <1>5 DEF Update, Found
<1>6. ASSUME NEW p \in Procs, NEW k \in Keys, Delete(p, k) PROVE TypeOK'
  BY <1>6 DEF Delete
<1>7. ASSUME NEW p \in Procs, Remove(p) PROVE TypeOK'
  BY <1>7 DEF Remove
<1>8. ASSUME NEW p \in Procs, NEW k \in Keys, Validate(p, k) PROVE TypeOK'
  BY <1>8 DEF Validate
<1>9. ASSUME NEW p \in Procs, NEW n \in 0 .. MaxUsed, Book(p, n) PROVE TypeOK'
  <2>1. raced' \subseteq Keys
    BY <1>9 DEF Book, Found
  <2>2. CASE Found(p)
    <3>1. /\ req[p].key \in Keys /\ pc' = [pc EXCEPT ![p] = "stamp"]
          /\ key' = [key EXCEPT ![req[p].key].used = @ + n]
          /\ told' = [told EXCEPT ![req[p].key] = @ + n]
          /\ UNCHANGED <<req, calls, stamps>>
      BY <1>9, <2>2 DEF Book, Found
    <3>2. key' \in [Keys -> Row] /\ \A k \in Keys : key'[k].state = key[k].state
      BY <3>1
    <3>3. told' \in [Keys -> Nat]
      BY <3>1
    <3> QED
      BY <1>9, <2>1, <3>1, <3>2, <3>3 DEF Book
  <2>3. CASE ~Found(p)
    BY <1>9, <2>1, <2>3 DEF Book
  <2> QED
    BY <2>2, <2>3
<1>10. ASSUME NEW p \in Procs, Stamp(p) PROVE TypeOK'
  <2>1. raced' \subseteq Keys
    BY <1>10 DEF Stamp, Found
  <2>2. CASE Found(p)
    <3>1. /\ req[p].key \in Keys /\ Return(p)
          /\ key' = [key EXCEPT ![req[p].key].last = stamps[req[p].key] + 1]
          /\ stamps' = [stamps EXCEPT ![req[p].key] = @ + 1]
          /\ UNCHANGED <<calls, told>>
      BY <1>10, <2>2 DEF Stamp, Found
    <3>2. key' \in [Keys -> Row] /\ \A k \in Keys : key'[k].state = key[k].state
      BY <3>1
    <3>3. stamps' \in [Keys -> Nat]
      BY <3>1
    <3> QED
      BY <2>1, <3>1, <3>2, <3>3
  <2>3. CASE ~Found(p)
    BY <1>10, <2>1, <2>3 DEF Stamp
  <2> QED
    BY <2>2, <2>3
<1>11. ASSUME NEW p \in Procs, Fail(p) PROVE TypeOK'
  BY <1>11 DEF Fail
<1>12. CASE UNCHANGED vars
  BY <1>12 DEF vars
<1> QED
  BY <1>1, <1>2, <1>3, <1>4, <1>5, <1>6, <1>7, <1>8, <1>9, <1>10, <1>11, <1>12
     DEF Next, Arrive, Step

\* Every variable keeps its type, and a request that is on its way has read a
\* row that exists.
THEOREM TypeCorrect == Spec => []TypeOK
BY InitType, NextType, PTL DEF Spec

-----------------------------------------------------------------------------

\* Creations that have counted and not yet inserted, with the keys there are:
\* only a count below the limit adds to them.
LEMMA NextOvershoot ==
    TypeOK /\ OvershootIsConcurrent /\ [Next]_vars => OvershootIsConcurrent'
<1> SUFFICES ASSUME TypeOK, OvershootIsConcurrent, [Next]_vars
             PROVE  OvershootIsConcurrent'
  OBVIOUS
<1>1. /\ IsFiniteSet(Existing) /\ IsFiniteSet(Existing')
      /\ IsFiniteSet(Inserting) /\ IsFiniteSet(Inserting')
      /\ Cardinality(Inserting') <= Cardinality(Procs)
  BY FS_Subset, ApiKeysAssumption DEF Existing, Inserting
<1>2. /\ Cardinality(Existing) \in Nat /\ Cardinality(Existing') \in Nat
      /\ Cardinality(Inserting) \in Nat /\ Cardinality(Inserting') \in Nat
      /\ Cardinality(Procs) \in Nat
      /\ MaxKeys \in Nat
  BY <1>1, FS_CardinalityType, ApiKeysAssumption
<1>3. ASSUME NEW p \in Procs, Create(p) PROVE OvershootIsConcurrent'
  <2>1. Existing' = Existing /\ Cardinality(Existing) < MaxKeys
    BY <1>3 DEF Create, Existing, BelowLimit
  <2> QED
    BY <2>1, <1>1, <1>2 DEF OvershootIsConcurrent
<1>4. ASSUME NEW p \in Procs, NEW k \in Keys, Insert(p, k) PROVE OvershootIsConcurrent'
  <2>1. k \notin Existing /\ Existing' = Existing \cup {k}
    BY <1>4 DEF Insert, Existing, TypeOK, Fresh, Row
  <2>2. p \in Inserting /\ Inserting' = Inserting \ {p}
    BY <1>4 DEF Insert, Inserting, Return, TypeOK
  <2>3. Cardinality(Existing') = Cardinality(Existing) + 1
    BY <2>1, <1>1, FS_AddElement
  <2>4. Cardinality(Inserting') = Cardinality(Inserting) - 1
    BY <2>2, <1>1, FS_RemoveElement
  <2> QED
    BY <2>3, <2>4, <1>2 DEF OvershootIsConcurrent
<1>5. ASSUME Existing' \subseteq Existing, Inserting' \subseteq Inserting
      PROVE  OvershootIsConcurrent'
  <2>1. /\ Cardinality(Existing') <= Cardinality(Existing)
        /\ Cardinality(Inserting') <= Cardinality(Inserting)
    BY <1>5, <1>1, FS_Subset
  <2> QED
    BY <2>1, <1>2 DEF OvershootIsConcurrent
<1>6. ASSUME NEW p \in Procs, NEW k \in Keys, NEW s \in {"enabled", "disabled"},
             Toggle(p, k, s) \/ Delete(p, k) \/ Validate(p, k)
      PROVE  OvershootIsConcurrent'
  BY <1>5, <1>6 DEF Toggle, Delete, Validate, Begin, Existing, Inserting, TypeOK
<1>7. ASSUME NEW p \in Procs, Save(p) \/ Fail(p) PROVE OvershootIsConcurrent'
  BY <1>5, <1>7 DEF Save, Fail, Return, Existing, Inserting, TypeOK
<1>8. ASSUME NEW p \in Procs, Update(p) \/ Remove(p) PROVE OvershootIsConcurrent'
  <2>1. Inserting' \subseteq Inserting
    BY <1>8 DEF Update, Remove, Return, Inserting, TypeOK
  <2>2. Existing' \subseteq Existing
    BY <1>8 DEF Update, Remove, Found, Existing, TypeOK, Row
  <2> QED
    BY <2>1, <2>2, <1>5
<1>9. ASSUME NEW p \in Procs, Stamp(p) \/ \E n \in 0 .. MaxUsed : Book(p, n)
      PROVE  OvershootIsConcurrent'
  <2>1. Inserting' \subseteq Inserting
    BY <1>9 DEF Book, Stamp, Return, Inserting, TypeOK
  <2>2. Existing' \subseteq Existing
    BY <1>9 DEF Book, Stamp, Found, Existing, TypeOK, Row
  <2> QED
    BY <2>1, <2>2, <1>5
<1>10. CASE UNCHANGED vars
  BY <1>5, <1>10 DEF vars, Existing, Inserting
<1>11. CASE Next
  <2>1. PICK p \in Procs : Arrive(p) \/ Step(p)
    BY <1>11 DEF Next
  <2>2. CASE Arrive(p)
    BY <2>2, <1>3, <1>6 DEF Arrive
  <2>3. CASE Step(p)
    BY <2>3, <1>4, <1>7, <1>8, <1>9 DEF Step
  <2> QED
    BY <2>1, <2>2, <2>3
<1> QED
  BY <1>10, <1>11

\* The limit of keys is passed by concurrent creations only, and by no more
\* than their number, for any limit and any number of requests.
THEOREM LimitHolds == Spec => []OvershootIsConcurrent
<1>1. Init => OvershootIsConcurrent
  <2> SUFFICES ASSUME Init PROVE OvershootIsConcurrent
    OBVIOUS
  <2>1. Existing = {} /\ Inserting = {}
    BY DEF Init, Existing, Inserting, Fresh
  <2>2. Cardinality(Procs) \in Nat
    BY FS_CardinalityType, ApiKeysAssumption
  <2> QED
    BY <2>1, <2>2, FS_EmptySet, ApiKeysAssumption DEF OvershootIsConcurrent
<1> QED
  BY <1>1, InitType, NextType, NextOvershoot, PTL DEF Spec

-----------------------------------------------------------------------------

\* A step changes the counters of a row only by booking or stamping it, which
\* makes it raced if a toggle holds a copy, or by a toggle's UPDATE, which
\* writes its state alone if it is not raced.
LEMMA NextInv == Inv /\ [Next]_vars => Inv'
<1> SUFFICES ASSUME Inv, [Next]_vars PROVE Copies' /\ UnusedIsUnbooked' /\ UsageIsExact'
  BY NextType DEF Inv
<1> USE DEF Inv, TypeOK, Copies, UnusedIsUnbooked, UsageIsExact, Row, States, Request,
            Columns, Existing, ghosts
<1>0. TypeOK'
  BY NextType
<1>1. ASSUME NEW p \in Procs, Create(p) PROVE Copies' /\ UnusedIsUnbooked' /\ UsageIsExact'
  BY <1>1 DEF Create, Begin
<1>2. ASSUME NEW p \in Procs, NEW k \in Keys, Insert(p, k)
      PROVE  Copies' /\ UnusedIsUnbooked' /\ UsageIsExact'
  <2>1. /\ key' = [key EXCEPT ![k] = [state |-> "enabled", used |-> 0, last |-> 0]]
        /\ key[k].state = "unused"
        /\ UNCHANGED <<told, stamps, raced>>
    BY <1>2, Created DEF Insert
  <2>2. UnusedIsUnbooked' /\ UsageIsExact'
    BY <2>1
  <2>3. \A q \in Procs : q # p => req'[q] = req[q] /\ pc'[q] = pc[q]
    BY <1>2 DEF Insert, Return
  <2>4. pc'[p] = "idle"
    BY <1>2 DEF Insert, Return
  <2>5. Copies'
    BY <2>1, <2>3, <2>4
  <2> QED
    BY <2>2, <2>5
<1>3. ASSUME NEW p \in Procs, NEW k \in Keys, NEW s \in {"enabled", "disabled"}, Toggle(p, k, s)
      PROVE  Copies' /\ UnusedIsUnbooked' /\ UsageIsExact'
  <2>1. /\ pc' = [pc EXCEPT ![p] = "save"]
        /\ \A q \in Procs : q # p => req'[q] = req[q]
        /\ req'[p].key = k /\ req'[p].row = [key[k] EXCEPT !.state = s]
        /\ UNCHANGED <<key, told, stamps, raced>>
    BY <1>3 DEF Toggle, Begin, Nothing
  <2> QED
    BY <2>1
<1>4. ASSUME NEW p \in Procs, Save(p)
      PROVE  Copies' /\ UnusedIsUnbooked' /\ UsageIsExact'
  <2>1. CASE Found(p)
    <3>1. /\ pc[p] = "save" /\ pc' = [pc EXCEPT ![p] = "update"]
          /\ req' = [req EXCEPT ![p].cols = Differing(p)]
          /\ UNCHANGED <<key, told, stamps, raced>>
      BY <1>4, <2>1 DEF Save
    <3>2. req[p].key \notin raced => Differing(p) \subseteq {"state"}
      BY <2>1, <3>1 DEF Found, Differing
    <3>3. req'[p].cols = Differing(p) /\ req'[p].key = req[p].key
      BY <3>1
    <3>4. \A q \in Procs : q # p => req'[q] = req[q] /\ pc'[q] = pc[q]
      BY <3>1
    <3> HIDE DEF Differing
    <3> QED
      BY <3>1, <3>2, <3>3, <3>4
  <2>2. CASE ~Found(p)
    BY <1>4, <2>2 DEF Save, Return
  <2> QED
    BY <2>1, <2>2
<1>5. ASSUME NEW p \in Procs, Update(p)
      PROVE  Copies' /\ UnusedIsUnbooked' /\ UsageIsExact'
  <2> DEFINE j == req[p].key
  <2>1. /\ pc[p] = "update" /\ UNCHANGED <<told, stamps, raced>>
        /\ pc'[p] = "idle"
        /\ \A q \in Procs : q # p => req'[q] = req[q] /\ pc'[q] = pc[q]
    BY <1>5 DEF Update, Return
  <2>2. CASE Found(p)
    <3>1. /\ j \in Existing
          /\ key' = [key EXCEPT ![j] = [c \in Columns |->
                         IF c \in req[p].cols THEN req[p].row[c] ELSE key[j][c]]]
      BY <1>5, <2>2 DEF Update, Found
    <3>2. key'[j].state \in {"enabled", "disabled"}
      BY <2>1, <3>1
    <3>3. \A k \in Keys : k # j => key'[k] = key[k]
      BY <3>1
    <3>4. j \notin raced => key'[j].used = key[j].used /\ key'[j].last = key[j].last
      <4> SUFFICES ASSUME j \notin raced
                   PROVE  key'[j].used = key[j].used /\ key'[j].last = key[j].last
        OBVIOUS
      <4>1. req[p].cols \subseteq {"state"}
        BY <2>1, <3>1
      <4> QED
        BY <3>1, <4>1
    <3>5. Existing' = Existing
      BY <3>1, <3>2, <3>3
    <3>6. \A k \in Keys : (key'[k].state = "unused") <=> (key[k].state = "unused")
      BY <3>1, <3>2, <3>3
    <3>7. \A k \in Existing \ raced : key'[k].used = key[k].used /\ key'[k].last = key[k].last
      BY <3>3, <3>4
    <3> HIDE DEF j
    <3>8. UnusedIsUnbooked'
      BY <2>1, <3>6
    <3>9. UsageIsExact'
      <4> HIDE DEF Existing
      <4> QED
        BY <2>1, <3>5, <3>7
    <3>10. Copies'
      <4> HIDE DEF Existing
      <4> QED
        BY <2>1, <3>5, <3>7
    <3> QED
      BY <3>8, <3>9, <3>10
  <2>3. CASE ~Found(p)
    <3>1. key' = key
      BY <1>5, <2>3 DEF Update
    <3> QED
      BY <2>1, <3>1
  <2> QED
    BY <2>2, <2>3
<1>6. ASSUME NEW p \in Procs, NEW k \in Keys, Delete(p, k) \/ Validate(p, k)
      PROVE  Copies' /\ UnusedIsUnbooked' /\ UsageIsExact'
  BY <1>6 DEF Delete, Validate, Begin
<1>7. ASSUME NEW p \in Procs, Remove(p)
      PROVE  Copies' /\ UnusedIsUnbooked' /\ UsageIsExact'
  <2>1. /\ key' = [key EXCEPT ![req[p].key].state = "deleted"]
        /\ req[p].key \in Keys
        /\ pc'[p] = "idle"
        /\ \A q \in Procs : q # p => req'[q] = req[q] /\ pc'[q] = pc[q]
        /\ UNCHANGED <<told, stamps, raced>>
    BY <1>7 DEF Remove, Return
  <2>2. \A k \in Existing' : k \in Existing /\ key'[k] = key[k]
    BY <2>1
  <2> QED
    BY <2>1, <2>2
<1>8. ASSUME NEW p \in Procs, NEW n \in 0 .. MaxUsed, Book(p, n)
      PROVE  Copies' /\ UnusedIsUnbooked' /\ UsageIsExact'
  <2>1. UNCHANGED <<req, stamps>> /\ pc[p] = "book" /\ pc' = [pc EXCEPT ![p] = "stamp"]
    BY <1>8 DEF Book
  <2>2. CASE Found(p)
    <3>1. /\ req[p].key \in Existing
          /\ key' = [key EXCEPT ![req[p].key].used = @ + n]
          /\ told' = [told EXCEPT ![req[p].key] = @ + n]
          /\ raced \subseteq raced'
          /\ Holding(req[p].key) # {} => req[p].key \in raced'
      BY <1>8, <2>2 DEF Book, Found
    <3>2. UnusedIsUnbooked' /\ UsageIsExact'
      BY <2>1, <3>1
    <3>3. Copies'
      BY <2>1, <3>1 DEF Holding
    <3> QED
      BY <3>2, <3>3
  <2>3. CASE ~Found(p)
    BY <1>8, <2>1, <2>3 DEF Book
  <2> QED
    BY <2>2, <2>3
<1>9. ASSUME NEW p \in Procs, Stamp(p)
      PROVE  Copies' /\ UnusedIsUnbooked' /\ UsageIsExact'
  <2>1. /\ pc[p] = "stamp" /\ pc'[p] = "idle" /\ UNCHANGED told
        /\ \A q \in Procs : q # p => req'[q] = req[q] /\ pc'[q] = pc[q]
    BY <1>9 DEF Stamp, Return
  <2>2. CASE Found(p)
    <3>1. /\ req[p].key \in Existing
          /\ key' = [key EXCEPT ![req[p].key].last = stamps[req[p].key] + 1]
          /\ stamps' = [stamps EXCEPT ![req[p].key] = @ + 1]
          /\ raced \subseteq raced'
          /\ Holding(req[p].key) # {} => req[p].key \in raced'
      BY <1>9, <2>2 DEF Stamp, Found
    <3>2. UnusedIsUnbooked' /\ UsageIsExact'
      BY <2>1, <3>1
    <3>3. Copies'
      BY <2>1, <3>1 DEF Holding
    <3> QED
      BY <3>2, <3>3
  <2>3. CASE ~Found(p)
    <3>1. UNCHANGED <<key, stamps, raced>>
      BY <1>9, <2>3 DEF Stamp
    <3> QED
      BY <2>1, <3>1
  <2> QED
    BY <2>2, <2>3
<1>10. ASSUME NEW p \in Procs, Fail(p)
       PROVE  Copies' /\ UnusedIsUnbooked' /\ UsageIsExact'
  BY <1>10 DEF Fail, Return
<1>11. CASE UNCHANGED vars
  BY <1>11 DEF vars
<1> QED
  BY <1>1, <1>2, <1>3, <1>4, <1>5, <1>6, <1>7, <1>8, <1>9, <1>10, <1>11
     DEF Next, Arrive, Step

\* Usage is lost only to a toggle that read the key before it was booked and
\* saved it afterwards, for any number of keys and requests.
THEOREM UsageExact == Spec => []UsageIsExact
<1>1. Init => Inv
  BY InitType DEF Init, Inv, Copies, UnusedIsUnbooked, UsageIsExact, Existing, Fresh
<1>2. Inv => UsageIsExact
  BY DEF Inv
<1> QED
  BY <1>1, <1>2, NextInv, PTL DEF Spec

\* A deleted key stays deleted, whatever was read before it was.
THEOREM DeletedForGood == Spec => DeletedStaysDeleted
<1>1. TypeOK /\ [Next]_vars =>
          [\A k \in Keys : key[k].state = "deleted" => key'[k].state = "deleted"]_vars
  <2> SUFFICES ASSUME TypeOK, Next, NEW k \in Keys, key[k].state = "deleted"
               PROVE  key'[k].state = "deleted"
    BY DEF vars
  <2> USE DEF TypeOK, Row, Existing
  <2>1. PICK p \in Procs : Arrive(p) \/ Step(p)
    BY DEF Next
  <2>2. CASE Arrive(p)
    BY <2>2 DEF Arrive, Create, Toggle, Delete, Validate
  <2>3. CASE \E i \in Keys : Insert(p, i)
    BY <2>3 DEF Insert
  <2>4. CASE Update(p) \/ Remove(p) \/ Save(p) \/ Fail(p)
    BY <2>4 DEF Update, Remove, Save, Fail, Found
  <2>5. CASE Stamp(p) \/ \E n \in 0 .. MaxUsed : Book(p, n)
    BY <2>5 DEF Stamp, Book, Found
  <2> QED
    BY <2>1, <2>2, <2>3, <2>4, <2>5 DEF Step
<1> QED
  BY <1>1, InitType, NextType, PTL DEF Spec, DeletedStaysDeleted
=============================================================================
