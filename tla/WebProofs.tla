----------------------------- MODULE WebProofs -----------------------------
(***************************************************************************)
(* The web client, for any number of generations, tabs, accounts, requests  *)
(* and changes: one stream at a time, a polling panel polls, a quiet list   *)
(* is current, a tab shows the account it asks for, and what the            *)
(* registration form lets through the server accepts.                       *)
(***************************************************************************)
EXTENDS Web, TLAPS

-----------------------------------------------------------------------------
(* Generations.                                                             *)

JobLabels == {"new", "fetching", "refused", "reading", "submitting", "polling",
              "waiting", "loading", "over"}

\* The types of the panel; a stream is that of a generation, and
\* a task is polled once there is one.
GenTypeOK ==
    /\ panel \in Panels \cup {None}
    /\ mounted \in BOOLEAN
    /\ job \in [Jobs -> JobLabels]
    /\ streaming \in BOOLEAN
    /\ abortRef \in Jobs \cup {None}
    /\ streaming => abortRef \in Jobs
    /\ stopped \subseteq Jobs /\ disowned \subseteq Jobs
    /\ listed \subseteq Jobs /\ growing \subseteq Jobs
    /\ text \in [Jobs -> Nat]
    /\ isPolling \in BOOLEAN
    /\ timerRef \in Jobs \cup {None}
    /\ pollCount \in Nat
    /\ currentTask \in Jobs \cup {None}
    /\ isPolling => currentTask \in Jobs
    /\ status \in {"idle", "loading", "success", "error"}

\* Tasks are of the video panel.
VideoJobs ==
    \A j \in Jobs : job[j] \in {"submitting", "polling", "waiting"} => panel = "video"

GenInv == GenTypeOK /\ VideoJobs /\ OneStream /\ PollingShown

\* Nothing is under way at the start.
LEMMA GenStart == GenInit => GenInv
<1> SUFFICES ASSUME GenInit PROVE GenInv
  OBVIOUS
<1>1. \A j \in Jobs : job[j] = "new"
  BY DEF GenInit
<1>2. job \in [Jobs -> JobLabels] /\ text \in [Jobs -> Nat]
  BY DEF GenInit, JobLabels
<1>3. GenTypeOK
  BY <1>2 DEF GenInit, GenTypeOK
<1> QED
  BY <1>1, <1>3 DEF GenInit, GenInv, VideoJobs, OneStream, PollingShown, InChat

\* Every event of the panel keeps its types ...
LEMMA GenTypeStep == GenTypeOK /\ GenNext => GenTypeOK'
<1> SUFFICES ASSUME GenTypeOK, GenNext PROVE GenTypeOK'
  OBVIOUS
<1> USE DEF GenTypeOK, JobLabels, Becomes, chatVars, videoVars
<1>1. ASSUME NEW j \in Jobs, Send(j) PROVE GenTypeOK'
  BY <1>1 DEF Send
<1>2. ASSUME NEW j \in Jobs, Headers(j) PROVE GenTypeOK'
  BY <1>2 DEF Headers
<1>3. ASSUME NEW j \in Jobs, Chunk(j) PROVE GenTypeOK'
  BY <1>3 DEF Chunk
<1>4. ASSUME NEW j \in Jobs, EndChat(j) PROVE GenTypeOK'
  BY <1>4 DEF EndChat, Settled
<1>5. ASSUME NEW j \in Jobs, Submit(j) PROVE GenTypeOK'
  BY <1>5 DEF Submit
<1>6. ASSUME NEW j \in Jobs, Submitted(j) PROVE GenTypeOK'
  BY <1>6 DEF Submitted
<1>7. ASSUME NEW j \in Jobs, SubmitFailed(j) PROVE GenTypeOK'
  BY <1>7 DEF SubmitFailed
<1>a. NextCount \in Nat
  BY DEF NextCount
<1>8. ASSUME NEW j \in Jobs, Pending(j) PROVE GenTypeOK'
  BY <1>8, <1>a DEF Pending
<1>9. ASSUME NEW j \in Jobs, GiveUp(j) PROVE GenTypeOK'
  BY <1>9, <1>a DEF GiveUp
<1>10. ASSUME NEW j \in Jobs, Done(j) PROVE GenTypeOK'
  BY <1>10 DEF Done
<1>11. ASSUME NEW j \in Jobs, Fire(j) PROVE GenTypeOK'
  BY <1>11 DEF Fire
<1>12. ASSUME NEW j \in Jobs, Generate(j) PROVE GenTypeOK'
  BY <1>12 DEF Generate
<1>13. ASSUME NEW j \in Jobs, Generated(j) PROVE GenTypeOK'
  BY <1>13 DEF Generated
<1>14. CASE Stop
  <2>1. job' \in [Jobs -> JobLabels] /\ abortRef' \in Jobs \cup {None}
    BY <1>14 DEF Stop
  <2>2. stopped' \subseteq Jobs
    BY <1>14 DEF Stop
  <2> QED
    BY <1>14, <2>1, <2>2 DEF Stop
<1>15. CASE Clear
  BY <1>15 DEF Clear
<1>16. CASE Cancel
  <2>1. job' \in [Jobs -> JobLabels]
    BY <1>16 DEF Cancel, TimerStopped
  <2> QED
    BY <1>16, <2>1 DEF Cancel
<1>17. CASE Leave
  <2>1. job' \in [Jobs -> JobLabels]
    BY <1>17 DEF Leave, TimerStopped
  <2> QED
    BY <1>17, <2>1 DEF Leave
<1> QED
  BY <1>1, <1>2, <1>3, <1>4, <1>5, <1>6, <1>7, <1>8, <1>9, <1>10, <1>11, <1>12,
     <1>13, <1>14, <1>15, <1>16, <1>17 DEF GenNext, Answered

\* ... and the two invariants.  What a stopped request leaves behind is where
\* they could fail.
LEMMA GenStep == GenInv /\ GenNext => GenInv'
<1> SUFFICES ASSUME GenInv, GenNext PROVE GenInv'
  OBVIOUS
<1>0. GenTypeOK /\ GenTypeOK'
  BY GenTypeStep DEF GenInv
<1> DEFINE Own(j) == job[j] \in InChat /\ j \notin stopped \cup disowned
<1>1. OneStream'
  <2> USE DEF InChat
  <2>1. ASSUME NEW k \in Jobs, job'[k] \in InChat, k \notin stopped' \cup disowned',
               NEW j \in Jobs,
               \/ Send(j) \/ Headers(j) \/ Chunk(j) \/ Submit(j) \/ Submitted(j)
               \/ SubmitFailed(j) \/ Answered(j) \/ Fire(j) \/ Generate(j) \/ Generated(j)
        PROVE  streaming' /\ abortRef' = k
    <3>1. CASE Send(j)
      <4>1. k = j \/ Own(k)
        BY <1>0, <2>1, <3>1 DEF GenTypeOK, Becomes, Send
      <4>2. streaming' /\ abortRef' = j /\ ~streaming
        BY <3>1 DEF Send
      <4> QED
        BY <4>1, <4>2 DEF GenInv, OneStream
    <3>2. CASE ~Send(j)
      <4>1. /\ UNCHANGED <<streaming, abortRef, stopped, disowned>>
            /\ job[j] \notin InChat => job'[j] \notin InChat
            /\ \A i \in Jobs : i # j => job'[i] = job[i]
        <5>1. CASE Headers(j) \/ Chunk(j)
          BY <1>0, <5>1 DEF GenTypeOK, Becomes, chatVars, Headers, Chunk
        <5>2. CASE Submit(j) \/ Submitted(j) \/ SubmitFailed(j)
          BY <1>0, <5>2 DEF GenTypeOK, Becomes, chatVars, Submit, Submitted, SubmitFailed
        <5>3. CASE Answered(j) \/ Fire(j)
          BY <1>0, <5>3
             DEF GenTypeOK, Becomes, chatVars, Answered, Pending, GiveUp, Done, Fire
        <5>4. CASE Generate(j) \/ Generated(j)
          BY <1>0, <5>4 DEF GenTypeOK, Becomes, chatVars, Generate, Generated
        <5> QED
          BY <2>1, <3>2, <5>1, <5>2, <5>3, <5>4
      <4>2. Own(k)
        BY <2>1, <4>1
      <4> QED
        BY <4>1, <4>2 DEF GenInv, OneStream
    <3> QED
      BY <3>1, <3>2
  <2>2. ASSUME NEW k \in Jobs, job'[k] \in InChat, k \notin stopped' \cup disowned',
               NEW j \in Jobs, EndChat(j)
        PROVE  FALSE
    <3>1. k # j /\ job[k] \in InChat /\ k \notin stopped \cup disowned
      <4>1. k # j /\ job[k] \in InChat
        BY <1>0, <2>2 DEF EndChat, Becomes, GenTypeOK
      <4>2. k \notin stopped
        BY <2>2, <4>1 DEF EndChat
      <4>3. k \notin disowned
        BY <2>2, <4>1, GenerationsAssumption DEF EndChat, GenerationsAssumption
      <4> QED
        BY <4>1, <4>2, <4>3
    <3>2. abortRef = k
      BY <3>1 DEF GenInv, OneStream
    <3>3. j \in stopped \cup disowned
      BY <2>2, <3>1, <3>2 DEF EndChat, GenInv, OneStream
    <3>4. k \in disowned'
      BY <1>0, <2>2, <3>1, <3>2, <3>3, GenerationsAssumption DEF EndChat, GenerationsAssumption
    <3> QED
      BY <2>2, <3>4
  <2>3. ASSUME NEW k \in Jobs, job'[k] \in InChat, k \notin stopped' \cup disowned', Stop
        PROVE  FALSE
    <3>1. abortRef \in Jobs /\ disowned' = disowned /\ stopped \subseteq stopped'
      BY <1>0, <2>3 DEF Stop, GenTypeOK
    <3>2. CASE Becomes(abortRef, "over")
      <4>1. Own(k)
        BY <1>0, <2>3, <3>1, <3>2 DEF Becomes, GenTypeOK
      <4>2. k = abortRef
        BY <4>1 DEF GenInv, OneStream
      <4> QED
        BY <1>0, <2>3, <3>2, <4>2 DEF Becomes, GenTypeOK
    <3>3. CASE stopped' = stopped \cup {abortRef} /\ UNCHANGED job
      BY <2>3, <3>1, <3>3 DEF GenInv, OneStream
    <3> QED
      BY <2>3, <3>2, <3>3 DEF Stop
  <2>4. ASSUME NEW k \in Jobs, job'[k] \in InChat, k \notin stopped' \cup disowned',
               Clear \/ Cancel \/ Leave
        PROVE  streaming' /\ abortRef' = k
    <3>1. Own(k) /\ UNCHANGED <<streaming, abortRef>>
      BY <1>0, <2>4 DEF Clear, Cancel, Leave, TimerStopped, chatVars, GenTypeOK
    <3> QED
      BY <3>1 DEF GenInv, OneStream
  <2> QED
    BY <2>1, <2>2, <2>3, <2>4 DEF OneStream, GenNext
<1>2. PollingShown'
  <2> SUFFICES ASSUME isPolling', mounted' PROVE job'[currentTask'] \in {"polling", "waiting"}
    BY DEF PollingShown
  <2>1. isPolling => currentTask \in Jobs
    BY <1>0 DEF GenTypeOK
  <2>2. isPolling /\ mounted => job[currentTask] \in {"polling", "waiting"}
    BY DEF GenInv, PollingShown
  <2>3. CASE \E j \in Jobs : Submitted(j)
    BY <1>0, <2>3 DEF Submitted, Becomes, GenTypeOK
  <2>4. CASE \E j \in Jobs : Send(j) \/ Headers(j) \/ Chunk(j) \/ EndChat(j) \/ Submit(j)
                             \/ SubmitFailed(j) \/ Generate(j) \/ Generated(j)
    <3>1. UNCHANGED <<isPolling, mounted, currentTask>>
      BY <2>4 DEF Send, Headers, Chunk, EndChat, Submit, SubmitFailed, Generate, Generated, videoVars
    <3>2. PICK j \in Jobs : job[j] \notin {"polling", "waiting"} /\ \A k \in Jobs : k # j => job'[k] = job[k]
      BY <1>0, <2>4
         DEF Send, Headers, Chunk, EndChat, Submit, SubmitFailed, Generate, Generated,
             Becomes, InChat, GenTypeOK
    <3> QED
      BY <2>1, <2>2, <3>1, <3>2
  <2>5. CASE \E j \in Jobs : Answered(j) \/ Fire(j)
    <3>1. PICK j \in Jobs : Pending(j) \/ Fire(j)
      BY <2>5 DEF Answered, GiveUp, Done
    <3>2. /\ UNCHANGED <<isPolling, mounted, currentTask>>
          /\ job'[j] \in {"polling", "waiting"} /\ \A k \in Jobs : k # j => job'[k] = job[k]
      BY <1>0, <3>1 DEF Pending, Fire, videoVars, Becomes, GenTypeOK
    <3> QED
      BY <2>1, <2>2, <3>2
  <2>6. CASE Stop
    <3>1. UNCHANGED <<isPolling, mounted, currentTask>>
      BY <2>6 DEF Stop, videoVars
    <3>2. panel = "chat"
      BY <2>6 DEF Stop, On
    <3> QED
      BY <2>1, <2>2, <3>1, <3>2 DEF GenInv, VideoJobs
  <2>7. CASE Clear
    BY <2>2, <2>7 DEF Clear, videoVars
  <2>8. CASE Cancel \/ Leave
    BY <2>8 DEF Cancel, Leave
  <2> QED
    BY <2>3, <2>4, <2>5, <2>6, <2>7, <2>8 DEF GenNext
<1>3. VideoJobs'
  <2>1. ASSUME NEW k \in Jobs, job'[k] \in {"submitting", "polling", "waiting"}
        PROVE  panel' = "video"
    <3>1. panel' = panel
      BY DEF GenNext, Send, Headers, Chunk, EndChat, Submit, Submitted, SubmitFailed,
             Answered, Pending, GiveUp, Done, Fire, Generate, Generated, Stop, Clear,
             Cancel, Leave
    <3>2. ASSUME NEW j \in Jobs, Submit(j) PROVE panel = "video"
      BY <3>2 DEF Submit, On
    <3>3. job[k] \in {"submitting", "polling", "waiting"} \/ \E j \in Jobs : Submit(j)
      <4>1. CASE \E j \in Jobs : Send(j) \/ Headers(j) \/ Chunk(j) \/ EndChat(j)
                                 \/ Generate(j) \/ Generated(j)
        BY <1>0, <2>1, <4>1
           DEF GenTypeOK, Becomes, Send, Headers, Chunk, EndChat, Generate, Generated
      <4>2. CASE \E j \in Jobs : Submitted(j) \/ SubmitFailed(j) \/ Answered(j) \/ Fire(j)
        BY <1>0, <2>1, <4>2
           DEF GenTypeOK, Becomes, Submitted, SubmitFailed, Answered, Pending, GiveUp, Done, Fire
      <4>3. CASE Stop \/ Clear \/ Cancel \/ Leave
        BY <1>0, <2>1, <4>3
           DEF GenTypeOK, Becomes, Stop, Clear, Cancel, Leave, TimerStopped
      <4> QED
        BY <4>1, <4>2, <4>3 DEF GenNext
    <3> QED
      BY <3>1, <3>2, <3>3 DEF GenInv, VideoJobs
  <2> QED
    BY <2>1 DEF VideoJobs
<1> QED
  BY <1>0, <1>1, <1>2, <1>3 DEF GenInv

-----------------------------------------------------------------------------
(* The registration form and the meter below it.                            *)

\* Whatever the form lets through the server accepts (validation.ts:9).
LEMMA FormAgrees == ASSUME NEW f, registerSchema(f) PROVE ServerAccepts(f)
BY DEF registerSchema, ServerAccepts, RegisterDto, passwordField, Mixed, isTempEmail, TempEmail

\* A password that the form lets through never shows as weak.
THEOREM NeverWeak ==
    ASSUME NEW p \in Password, passwordField(p)
    PROVE  getPasswordStrength(p) \in {"medium", "strong"}
<1>1. p.length >= 8 /\ p.length \in Nat /\ "digit" \in p.has /\ p.has \cap Letters # {}
  BY DEF passwordField, Mixed, Password
<1>2. "lower" \in p.has \/ "upper" \in p.has
  BY <1>1 DEF Letters
<1> DEFINE l == Point("lower" \in p.has)
           u == Point("upper" \in p.has)
           o == Point(p.has \cap {"underscore", "other"} # {})
<1>3. l \in {0, 1} /\ u \in {0, 1} /\ o \in {0, 1} /\ l + u >= 1
  BY <1>2 DEF Point
<1>4. Score(p) = 1 + l + u + 1 + o
  BY <1>1 DEF Score, Point
<1> HIDE DEF l, u, o
<1>5. Score(p) \in Nat /\ Score(p) >= 3
  BY <1>3, <1>4
<1> QED
  BY <1>5 DEF getPasswordStrength

-----------------------------------------------------------------------------
(* Signing in.                                                              *)

\* A tab that is not behind asks with its own account's token only; what was
\* entered went through the form.
OwnToken ==
    \A t \in Tabs \ behind : store[t] # Nobody => asked[t] \subseteq {store[t]}

Passed == \A t \in Tabs : registration[t] # Nobody => registerSchema(registration[t])

SignInInv == SignInTypeOK /\ OneAccount /\ OwnToken /\ Passed

\* Nobody has signed in at the start.
LEMMA SignInStart == SignInInit => SignInInv
<1> SUFFICES ASSUME SignInInit PROVE SignInInv
  OBVIOUS
<1>1. SignInTypeOK
  BY DEF SignInInit, SignInTypeOK, Untried, Dashboard, Logins
<1> QED
  BY <1>1 DEF SignInInit, SignInInv, OneAccount, OwnToken, Passed

\* A page that is shown, of a tab whose store holds s by then: what it leaves
\* of the tab, and of the others.
LEMMA Arrived ==
    ASSUME SignInTypeOK, NEW t \in Tabs, NEW q \in Routes, NEW s \in Accounts \cup {Nobody},
           Arrive(t, q, s), q = "lists" /\ s # Nobody => stored # Nobody
    PROVE  /\ store' \in [Tabs -> Accounts \cup {Nobody}]
           /\ route' \in [Tabs -> Routes \cup {"closed"}]
           /\ form' \in [Tabs -> {"idle", "busy", "done"}]
           /\ awaited' \in [Tabs -> {0} \cup Logins]
           /\ registration' \in [Tabs -> Form \cup {Nobody}]
           /\ asked' \in [Tabs -> SUBSET Accounts]
           /\ rows' \in [Tabs -> Accounts \cup {Nobody}]
           /\ \A x \in Tabs : x # t => /\ store'[x] = store[x] /\ route'[x] = route[x]
                                       /\ registration'[x] = registration[x]
                                       /\ asked'[x] = asked[x] /\ rows'[x] = rows[x]
           /\ store'[t] = s /\ registration'[t] = Nobody /\ rows'[t] = Nobody
           /\ asked'[t] \in {{}, {stored}}
           /\ asked'[t] # {} => q = "lists"
           /\ route'[t] \in Dashboard => s # Nobody
<1>1. Landing(q, s) \in Routes
  BY DEF Landing, Routes
<1>2. /\ Landing(q, s) \in Dashboard => s # Nobody
      /\ Landing(q, s) = "lists" => q = "lists" /\ s # Nobody
  BY DEF Landing, Dashboard
<1> DEFINE a == IF Landing(q, s) = "lists" THEN {stored} ELSE {}
<1>3. a \in SUBSET Accounts /\ a \in {{}, {stored}} /\ (a # {} => q = "lists")
  BY <1>2 DEF SignInTypeOK
<1>4. asked' = [asked EXCEPT ![t] = a]
  BY DEF Arrive
<1> HIDE DEF a
<1>5. /\ asked' \in [Tabs -> SUBSET Accounts] /\ asked'[t] = a
      /\ \A x \in Tabs : x # t => asked'[x] = asked[x]
  BY <1>3, <1>4 DEF SignInTypeOK
<1>6. /\ route' \in [Tabs -> Routes \cup {"closed"}] /\ route'[t] = Landing(q, s)
      /\ \A x \in Tabs : x # t => route'[x] = route[x]
  BY <1>1 DEF Arrive, SignInTypeOK
<1>7. /\ store' \in [Tabs -> Accounts \cup {Nobody}] /\ rows' \in [Tabs -> Accounts \cup {Nobody}]
      /\ registration' \in [Tabs -> Form \cup {Nobody}]
      /\ store'[t] = s /\ registration'[t] = Nobody /\ rows'[t] = Nobody
      /\ \A x \in Tabs : x # t => /\ store'[x] = store[x] /\ rows'[x] = rows[x]
                                  /\ registration'[x] = registration[x]
  BY DEF Arrive, SignInTypeOK
<1>8. form' \in [Tabs -> {"idle", "busy", "done"}] /\ awaited' \in [Tabs -> {0} \cup Logins]
  BY DEF Arrive, SignInTypeOK
<1> QED
  BY <1>2, <1>3, <1>5, <1>6, <1>7, <1>8

\* Whoever is given s by a page, or by a login that makes stored s: the
\* invariant follows from what the others are left with.
LEMMA ArrivedInv ==
    ASSUME SignInInv, NEW t \in Tabs, NEW q \in Routes, NEW s \in Accounts \cup {Nobody},
           Arrive(t, q, s), q = "lists" /\ s # Nobody => stored # Nobody,
           stored' \in Accounts \cup {Nobody}, stored # Nobody => stored' # Nobody,
           s # Nobody => stored' # Nobody,
           t \notin behind' /\ s # Nobody => stored' = s /\ (q = "lists" => stored = s),
           \A x \in Tabs : x # t /\ x \notin behind' =>
               x \notin behind /\ (store[x] # Nobody => stored' = stored),
           behind' \subseteq Tabs,
           login' \in [Logins -> [state : {"new", "sent", "over"}, tab : Tabs \cup {Nobody},
                                  account : Accounts \cup {Nobody}]],
           \A n \in Logins : login'[n].state = "sent" =>
               login'[n].tab \in Tabs /\ login'[n].account \in Accounts
    PROVE  SignInInv'
<1>0. SignInTypeOK
  BY DEF SignInInv
<1> DEFINE Left == /\ \A x \in Tabs : x # t => /\ store'[x] = store[x] /\ route'[x] = route[x]
                                               /\ registration'[x] = registration[x]
                                               /\ asked'[x] = asked[x] /\ rows'[x] = rows[x]
                   /\ store'[t] = s /\ registration'[t] = Nobody /\ rows'[t] = Nobody
                   /\ asked'[t] \in {{}, {stored}}
                   /\ asked'[t] # {} => q = "lists"
                   /\ route'[t] \in Dashboard => s # Nobody
<1>1. Left
  BY <1>0, Arrived
<1>2. SignInTypeOK'
  <2>1. \A x \in Tabs : route'[x] \in Dashboard \/ store'[x] # Nobody => stored' # Nobody
    BY <1>0, <1>1 DEF SignInTypeOK
  <2>2. /\ store' \in [Tabs -> Accounts \cup {Nobody}]
        /\ route' \in [Tabs -> Routes \cup {"closed"}]
        /\ form' \in [Tabs -> {"idle", "busy", "done"}]
        /\ awaited' \in [Tabs -> {0} \cup Logins]
        /\ registration' \in [Tabs -> Form \cup {Nobody}]
        /\ asked' \in [Tabs -> SUBSET Accounts]
        /\ rows' \in [Tabs -> Accounts \cup {Nobody}]
    BY <1>0, Arrived
  <2> QED
    BY <2>1, <2>2 DEF SignInTypeOK
<1>3. OneAccount'
  <2>1. ASSUME NEW x \in Tabs, x \notin behind', store'[x] # Nobody
        PROVE  stored' = store'[x] /\ rows'[x] \in {Nobody, store'[x]}
    <3>1. CASE x = t
      BY <1>1, <2>1, <3>1
    <3>2. CASE x # t
      BY <1>1, <2>1, <3>2 DEF SignInInv, OneAccount
    <3> QED
      BY <3>1, <3>2
  <2> QED
    BY <2>1 DEF OneAccount
<1>4. OwnToken'
  <2>1. ASSUME NEW x \in Tabs, x \notin behind', store'[x] # Nobody
        PROVE  asked'[x] \subseteq {store'[x]}
    <3>1. CASE x = t
      BY <1>1, <2>1, <3>1
    <3>2. CASE x # t
      BY <1>1, <2>1, <3>2 DEF SignInInv, OwnToken
    <3> QED
      BY <3>1, <3>2
  <2> QED
    BY <2>1 DEF OwnToken
<1>5. Passed'
  BY <1>1 DEF SignInInv, Passed
<1> QED
  BY <1>2, <1>3, <1>4, <1>5 DEF SignInInv

\* Every event of the tabs preserves it.
LEMMA SignInStep == SignInInv /\ SignInNext => SignInInv'
<1> SUFFICES ASSUME SignInInv, SignInNext PROVE SignInInv'
  OBVIOUS
<1>0. SignInTypeOK /\ OneAccount /\ OwnToken /\ Passed
  BY DEF SignInInv
<1>1. ASSUME NEW t \in Tabs, NEW q \in Routes, Visit(t, q) PROVE SignInInv'
  <2>0. store[t] \in Accounts \cup {Nobody} /\ stored \in Accounts \cup {Nobody}
        /\ (store[t] # Nobody => stored # Nobody)
    BY <1>0 DEF SignInTypeOK
  <2>1. UNCHANGED <<stored, login>>
    BY <1>1 DEF Visit
  <2>2. CASE Restores(route[t], q)
    <3>1. Arrive(t, q, Restored(store[t])) /\ behind' = behind \ {t}
      BY <1>1, <2>2 DEF Visit
    <3>2. /\ Restored(store[t]) \in Accounts \cup {Nobody}
          /\ Restored(store[t]) # Nobody => stored = Restored(store[t]) /\ stored # Nobody
      BY <2>0 DEF Restored
    <3> QED
      BY <1>0, <2>0, <2>1, <3>1, <3>2, ArrivedInv DEF SignInTypeOK
  <2>3. CASE ~Restores(route[t], q)
    <3>1. Arrive(t, q, store[t]) /\ UNCHANGED behind
      BY <1>1, <2>3 DEF Visit
    <3>2. t \notin behind /\ store[t] # Nobody => stored = store[t]
      BY <1>0 DEF OneAccount
    <3> QED
      BY <1>0, <2>0, <2>1, <3>1, <3>2, ArrivedInv DEF SignInTypeOK
  <2> QED
    BY <2>2, <2>3
<1>2. ASSUME NEW t \in Tabs, NEW q \in Routes, Open(t, q) PROVE SignInInv'
  <2> DEFINE s == IF Restores("closed", q) THEN stored ELSE Nobody
  <2>1. /\ Arrive(t, q, s) /\ UNCHANGED stored /\ behind' = behind \ {t}
        /\ login' = [n \in Logins |-> IF login[n].tab = t
                                  THEN [Untried EXCEPT !.state = "over"] ELSE login[n]]
    BY <1>2 DEF Open
  <2>2. s \in Accounts \cup {Nobody} /\ (s # Nobody => stored = s)
    BY <1>0 DEF SignInTypeOK
  <2>3. /\ login' \in [Logins -> [state : {"new", "sent", "over"}, tab : Tabs \cup {Nobody},
                                  account : Accounts \cup {Nobody}]]
        /\ \A n \in Logins : login'[n].state = "sent" =>
               login'[n].tab \in Tabs /\ login'[n].account \in Accounts
    BY <1>0, <2>1 DEF SignInTypeOK, Untried
  <2> HIDE DEF s
  <2> QED
    BY <1>0, <2>1, <2>2, <2>3, ArrivedInv DEF SignInTypeOK
<1>3. ASSUME NEW n \in Logins, LoggedIn(n) PROVE SignInInv'
  <2> DEFINE t == login[n].tab
             a == login[n].account
  <2>1. /\ t \in Tabs /\ a \in Accounts
        /\ stored' = a /\ Arrive(t, "dashboard", a)
        /\ behind' = (behind \cup {s \in Tabs : store[s] \notin {Nobody, a}}) \ {t}
        /\ login' = [login EXCEPT ![n] = [Untried EXCEPT !.state = "over"]]
    BY <1>0, <1>3 DEF LoggedIn, SignInTypeOK
  <2>2. /\ login' \in [Logins -> [state : {"new", "sent", "over"}, tab : Tabs \cup {Nobody},
                                  account : Accounts \cup {Nobody}]]
        /\ \A m \in Logins : login'[m].state = "sent" =>
               login'[m].tab \in Tabs /\ login'[m].account \in Accounts
    BY <1>0, <2>1 DEF SignInTypeOK, Untried
  <2>3. a # Nobody
    BY <2>1, SignInAssumption DEF SignInAssumption
  <2>4. \A x \in Tabs : x # t /\ x \notin behind' =>
               x \notin behind /\ (store[x] # Nobody => stored' = stored)
    BY <1>0, <2>1 DEF OneAccount
  <2>5. behind' \subseteq Tabs
    BY <1>0, <2>1 DEF SignInTypeOK
  <2> HIDE DEF t, a
  <2> QED
    BY <1>0, <2>1, <2>2, <2>3, <2>4, <2>5, ArrivedInv DEF SignInTypeOK, Routes
<1>4. ASSUME NEW t \in Tabs, NEW n \in Logins, NEW a \in Accounts, SubmitLogin(t, n, a)
      PROVE  SignInInv'
  <2>1. SignInTypeOK'
    BY <1>0, <1>4 DEF SubmitLogin, SignInTypeOK
  <2> QED
    BY <1>0, <1>4, <2>1 DEF SubmitLogin, SignInInv, OneAccount, OwnToken, Passed
<1>5. ASSUME NEW n \in Logins, LoginFails(n) PROVE SignInInv'
  <2>1. SignInTypeOK'
    <3>1. /\ login' \in [Logins -> [state : {"new", "sent", "over"}, tab : Tabs \cup {Nobody},
                                    account : Accounts \cup {Nobody}]]
          /\ \A m \in Logins : login'[m].state = "sent" =>
                 login'[m].tab \in Tabs /\ login'[m].account \in Accounts
      BY <1>0, <1>5 DEF LoginFails, SignInTypeOK, Untried
    <3>2. form' \in [Tabs -> {"idle", "busy", "done"}] /\ awaited' \in [Tabs -> {0} \cup Logins]
      BY <1>0, <1>5 DEF LoginFails, SignInTypeOK
    <3> QED
      BY <1>0, <1>5, <3>1, <3>2 DEF LoginFails, SignInTypeOK
  <2> QED
    BY <1>0, <1>5, <2>1 DEF LoginFails, SignInInv, OneAccount, OwnToken, Passed
<1>6. ASSUME NEW t \in Tabs, NEW f \in Entered, SubmitRegister(t, f) PROVE SignInInv'
  <2>1. SignInTypeOK'
    BY <1>0, <1>6, SignInAssumption DEF SubmitRegister, SignInTypeOK, SignInAssumption
  <2>2. Passed'
    BY <1>0, <1>6 DEF SubmitRegister, Passed, SignInTypeOK
  <2> QED
    BY <1>0, <1>6, <2>1, <2>2 DEF SubmitRegister, SignInInv, OneAccount, OwnToken
<1>7. ASSUME NEW t \in Tabs, Registered(t) \/ SubmitForgot(t) \/ ForgotAnswered(t)
      PROVE  SignInInv'
  <2>1. /\ form' \in [Tabs -> {"idle", "busy", "done"}]
        /\ registration' \in [Tabs -> Form \cup {Nobody}]
        /\ UNCHANGED <<stored, store, login, behind, route, awaited, asked, rows>>
        /\ \A x \in Tabs : registration'[x] # Nobody => registration'[x] = registration[x]
    BY <1>0, <1>7 DEF Registered, SubmitForgot, ForgotAnswered, SignInTypeOK
  <2>2. SignInTypeOK'
    BY <1>0, <2>1 DEF SignInTypeOK
  <2> QED
    BY <1>0, <2>1, <2>2 DEF SignInInv, OneAccount, OwnToken, Passed
<1>8. ASSUME NEW t \in Tabs, Ask(t) PROVE SignInInv'
  <2>1. stored \in Accounts
    BY <1>0, <1>8 DEF Ask, SignInTypeOK, Dashboard
  <2>2. /\ asked' \in [Tabs -> SUBSET Accounts]
        /\ \A x \in Tabs : asked'[x] = IF x = t THEN asked[t] \cup {stored} ELSE asked[x]
        /\ UNCHANGED <<stored, store, login, behind, route, form, awaited, registration, rows>>
    BY <1>0, <1>8, <2>1 DEF Ask, SignInTypeOK
  <2>3. SignInTypeOK'
    BY <1>0, <2>2 DEF SignInTypeOK
  <2>4. OwnToken'
    BY <1>0, <2>2 DEF OwnToken, OneAccount
  <2> QED
    BY <1>0, <2>2, <2>3, <2>4 DEF SignInInv, OneAccount, Passed
<1>9. ASSUME NEW t \in Tabs, NEW a \in Accounts, Answer(t, a) PROVE SignInInv'
  <2>1. /\ rows' \in [Tabs -> Accounts \cup {Nobody}] /\ asked' \in [Tabs -> SUBSET Accounts]
        /\ \A x \in Tabs : asked'[x] \subseteq asked[x]
        /\ \A x \in Tabs : rows'[x] = rows[x] \/ rows'[x] \in asked[x]
        /\ UNCHANGED <<stored, store, login, behind, route, form, awaited, registration>>
    BY <1>0, <1>9 DEF Answer, SignInTypeOK
  <2>2. SignInTypeOK'
    BY <1>0, <2>1 DEF SignInTypeOK
  <2>3. OwnToken' /\ OneAccount'
    BY <1>0, <2>1 DEF OwnToken, OneAccount
  <2> QED
    BY <1>0, <2>1, <2>2, <2>3 DEF SignInInv, Passed
<1> QED
  BY <1>1, <1>2, <1>3, <1>4, <1>5, <1>6, <1>7, <1>8, <1>9 DEF SignInNext

-----------------------------------------------------------------------------
(* Lists.                                                                   *)

Asked == [state : {"new", "over", "sent", "served"}, no : Nat, page : Nat,
          filter : Filters, version : Nat]
Made == [state : {"new", "sent", "made", "over"}, page : Nat, filter : Filters]

PagesTypeOK ==
    /\ page \in Nat /\ filter \in Filters /\ totalPages \in Nat
    /\ request \in [Requests -> Asked] /\ shown \in Asked
    /\ change \in [Changes -> Made]
    /\ version \in Nat /\ sent \in Nat /\ outdated \in BOOLEAN

\* The answer x, once it has come, is for page p and type f as they are now.
Answers(x) ==
    /\ x.page = page \/ (screen = "billing" /\ page = 1)
    /\ x.filter = filter

\* No change is made of which the page has yet to learn.
Learnt == \A c \in Changes : change[c].state # "made"

\* The request sent last is for what is chosen, and an answer that was read is
\* of the table as it is, but for changes that are yet to be answered.
GoodAnswer(x) ==
    x.no = sent /\ sent > 0 /\ ~outdated =>
        /\ x.state \in {"sent", "served"}
        /\ Answers(x)
        /\ x.state = "served" /\ Learnt => x.version = version

\* Requests are numbered as they are sent.
Numbered ==
    /\ \A r \in Requests : request[r].no \in {0, r} /\ (r > sent => request[r].no = 0)
    /\ \A r \in Requests : request[r].state \in {"sent", "served"} => request[r].no = r
    /\ shown.no <= sent
    /\ shown.no > 0 => shown.state = "served"
    /\ sent = 0 => page = 1 /\ filter = "all"

\* So are changes.
InOrder == confirmed \in Nat /\ \A c \in Changes : c > confirmed => change[c].state = "new"

LastIsGood == GoodAnswer(shown) /\ \A r \in Requests : GoodAnswer(request[r])

PagesInv == PagesTypeOK /\ Numbered /\ InOrder /\ LastIsGood

\* Nothing is asked for at the start.
LEMMA PagesStart == PagesInit => PagesInv
<1> SUFFICES ASSUME PagesInit PROVE PagesInv
  OBVIOUS
<1>1. Blank \in Asked /\ Blank.no = 0 /\ Blank.state = "new" /\ Unmade \in Made
  BY DEF Blank, Asked, Unmade, Made, Filters
<1> USE DEF PagesInit
<1>2. PagesTypeOK
  BY <1>1 DEF PagesTypeOK, Filters
<1>3. Numbered
  BY <1>1 DEF Numbered
<1>4. InOrder
  <2>1. \A c \in Changes : change[c] = Unmade
    OBVIOUS
  <2> QED
    BY <2>1 DEF InOrder, Unmade
<1>5. LastIsGood
  BY DEF LastIsGood, GoodAnswer
<1> QED
  BY <1>2, <1>3, <1>4, <1>5 DEF PagesInv

\* A request is sent, for the page and type that are chosen or out of date.
LEMMA Fetched ==
    ASSUME PagesInv, NEW p \in Nat, NEW f \in Filters, Fetch(p, f),
           page' \in Nat, filter' \in Filters, totalPages' \in Nat, outdated' \in BOOLEAN,
           change' \in [Changes -> Made], UNCHANGED <<shown, version, screen>>,
           outdated' \/ (p = page' /\ f = filter'), InOrder'
    PROVE  PagesInv'
<1> DEFINE n == sent + 1
           x == [state |-> "sent", no |-> n, page |-> p, filter |-> f, version |-> 0]
<1>0. PagesTypeOK /\ Numbered
  BY DEF PagesInv
<1>1. /\ n \in Requests /\ n \in Nat /\ n > sent /\ sent' = n
      /\ request' = [request EXCEPT ![n] = x]
  BY <1>0, PagesAssumption DEF Fetch, PagesTypeOK, Requests, PagesAssumption
<1>2. x \in Asked /\ x.state = "sent" /\ x.no = n /\ x.page = p /\ x.filter = f
  BY <1>1 DEF Asked
<1> HIDE DEF x
<1>3. /\ request' \in [Requests -> Asked] /\ request'[n] = x
      /\ \A r \in Requests : r # n => request'[r] = request[r]
  BY <1>0, <1>1, <1>2 DEF PagesTypeOK
<1>4. PagesTypeOK'
  BY <1>0, <1>1, <1>3 DEF PagesTypeOK
<1>5. Numbered'
  <2>1. \A r \in Requests : r \in Nat
    BY DEF Requests
  <2>2. shown.no \in Nat /\ sent \in Nat
    BY <1>0 DEF PagesTypeOK, Asked
  <2> HIDE DEF n
  <2>3. ASSUME NEW r \in Requests
        PROVE  /\ request'[r].no \in {0, r} /\ (r > n => request'[r].no = 0)
               /\ request'[r].state \in {"sent", "served"} => request'[r].no = r
    <3>1. CASE r = n
      BY <1>1, <1>2, <1>3, <2>1, <3>1
    <3>2. CASE r # n
      BY <1>0, <1>1, <1>3, <2>1, <2>2, <3>2 DEF Numbered
    <3> QED
      BY <3>1, <3>2
  <2>4. shown'.no <= n /\ (shown'.no > 0 => shown'.state = "served")
    BY <1>0, <1>1, <2>2 DEF Numbered
  <2>5. sent' # 0
    BY <1>1, <2>2 DEF n
  <2> QED
    BY <1>1, <2>3, <2>4, <2>5 DEF Numbered
<1>6. LastIsGood'
  <2>1. shown'.no # n
    BY <1>0, <1>1 DEF Numbered, PagesTypeOK, Asked
  <2>2. \A r \in Requests : r # n => request'[r].no # n
    BY <1>0, <1>1, <1>3 DEF Numbered, Requests
  <2> HIDE DEF n
  <2>4. GoodAnswer(shown)'
    BY <1>1, <2>1 DEF GoodAnswer
  <2>5. ASSUME NEW r \in Requests PROVE GoodAnswer(request[r])'
    <3>1. CASE r = n
      BY <1>1, <1>2, <1>3, <3>1 DEF GoodAnswer, Answers
    <3>2. CASE r # n
      BY <1>1, <2>2, <3>2 DEF GoodAnswer
    <3> QED
      BY <3>1, <3>2
  <2> QED
    BY <2>4, <2>5 DEF LastIsGood
<1> QED
  BY <1>4, <1>5, <1>6 DEF PagesInv

\* A request that is over, or that has not been sent, answers nothing.
LEMMA GoneAnswers == Gone \in Asked /\ Gone.no = 0 /\ Gone.state = "over"
BY DEF Gone, Blank, Asked, Filters

\* Changes that begin, are made or end keep the types and numbers.
LEMMA ChangeStep ==
    ASSUME PagesInv, UNCHANGED <<screen, page, filter, totalPages, request, shown, sent>>,
           change' \in [Changes -> Made], version' \in Nat, outdated' \in BOOLEAN,
           InOrder', ~outdated' => ~outdated,
           ~outdated' /\ Learnt' => Learnt /\ version' = version
    PROVE  PagesInv'
<1>1. PagesTypeOK' /\ Numbered'
  BY DEF PagesInv, PagesTypeOK, Numbered
<1>2. LastIsGood'
  <2>1. GoodAnswer(shown)'
    BY DEF PagesInv, LastIsGood, GoodAnswer, Answers
  <2>2. ASSUME NEW r \in Requests PROVE GoodAnswer(request[r])'
    BY DEF PagesInv, LastIsGood, GoodAnswer, Answers
  <2> QED
    BY <2>1, <2>2 DEF LastIsGood
<1> QED
  BY <1>1, <1>2 DEF PagesInv

\* A change is confirmed, made, and answered.
LEMMA OrderStep == PagesInv /\ PagesNext => InOrder'
<1> SUFFICES ASSUME PagesInv, PagesNext PROVE InOrder'
  OBVIOUS
<1>0. PagesTypeOK /\ InOrder
  BY DEF PagesInv
<1>1. CASE UNCHANGED <<change, confirmed>>
  BY <1>0, <1>1 DEF InOrder
<1>2. ASSUME NEW c \in Changes, Confirm(c) PROVE InOrder'
  <2>1. /\ c = confirmed + 1 /\ confirmed' = c /\ c \in Nat
        /\ \A k \in Changes : k # c => change'[k] = change[k]
    BY <1>0, <1>2 DEF Confirm, Changes, PagesTypeOK
  <2> QED
    BY <1>0, <2>1 DEF InOrder, Changes
<1>3. ASSUME NEW c \in Changes, Apply(c) \/ Confirmed(c) \/ Refused(c) PROVE InOrder'
  <2>1. /\ change[c].state # "new" /\ confirmed' = confirmed
        /\ \A k \in Changes : k # c => change'[k] = change[k]
    BY <1>0, <1>3 DEF Apply, Confirmed, Refused, Busy, Settle, PagesTypeOK
  <2> QED
    BY <1>0, <2>1 DEF InOrder
<1> QED
  BY <1>1, <1>2, <1>3
     DEF PagesNext, Mount, Retry, Serve, Deliver, FetchFails, Turn, Choose

\* Every event of the page preserves it.
LEMMA PagesStep == PagesInv /\ PagesNext => PagesInv'
<1> SUFFICES ASSUME PagesInv, PagesNext PROVE PagesInv'
  OBVIOUS
<1>0. PagesTypeOK /\ Numbered /\ InOrder /\ LastIsGood /\ InOrder'
  BY OrderStep DEF PagesInv
<1>1. CASE Mount
  <2>1. /\ Fetch(1, "all") /\ 1 \in Nat /\ "all" \in Filters
        /\ UNCHANGED <<screen, page, filter, totalPages, shown, change, version, outdated>>
    BY <1>1 DEF Mount, Filters
  <2>2. page = 1 /\ filter = "all"
    BY <1>0, <1>1 DEF Mount, Numbered
  <2> QED
    BY <1>0, <2>1, <2>2, Fetched DEF PagesTypeOK
<1>2. CASE Retry
  <2>1. /\ Fetch(page, filter) /\ outdated' = FALSE
        /\ UNCHANGED <<screen, page, filter, totalPages, shown, change, version>>
    BY <1>2 DEF Retry
  <2> QED
    BY <1>0, <2>1, Fetched DEF PagesTypeOK
<1>3. ASSUME NEW r \in Requests, Serve(r) PROVE PagesInv'
  <2> DEFINE x == [request[r] EXCEPT !.state = "served", !.version = version]
  <2>1. request[r] \in Asked /\ request[r].no = r
    BY <1>0, <1>3 DEF PagesTypeOK, Numbered, Serve
  <2>2. /\ x \in Asked /\ x.state = "served" /\ x.no = request[r].no
        /\ x.page = request[r].page /\ x.filter = request[r].filter /\ x.version = version
    BY <1>0, <2>1 DEF Asked, PagesTypeOK
  <2>3. /\ request' = [request EXCEPT ![r] = x]
        /\ UNCHANGED <<screen, page, filter, totalPages, shown, change, version, sent, outdated>>
    BY <1>3 DEF Serve
  <2> HIDE DEF x
  <2>4. /\ request' \in [Requests -> Asked] /\ request'[r] = x
        /\ \A k \in Requests : k # r => request'[k] = request[k]
    BY <1>0, <2>2, <2>3 DEF PagesTypeOK
  <2>5. PagesTypeOK' /\ Numbered'
    BY <1>0, <2>1, <2>2, <2>3, <2>4 DEF PagesTypeOK, Numbered
  <2>6. LastIsGood'
    <3>1. GoodAnswer(shown)'
      BY <1>0, <2>3 DEF LastIsGood, GoodAnswer, Answers, Learnt
    <3>2. ASSUME NEW k \in Requests PROVE GoodAnswer(request[k])'
      <4>1. CASE k # r
        BY <1>0, <2>3, <2>4, <4>1 DEF LastIsGood, GoodAnswer, Answers, Learnt
      <4>2. CASE k = r
        BY <1>0, <2>2, <2>3, <2>4, <4>2 DEF LastIsGood, GoodAnswer, Answers, Learnt
      <4> QED
        BY <4>1, <4>2
    <3> QED
      BY <3>1, <3>2 DEF LastIsGood
  <2> QED
    BY <1>0, <2>5, <2>6 DEF PagesInv
<1>4. ASSUME NEW r \in Requests, Deliver(r) \/ FetchFails(r) PROVE PagesInv'
  <2>1. /\ request' = [request EXCEPT ![r] = Gone]
        /\ UNCHANGED <<screen, page, filter, change, version, sent, outdated>>
    BY <1>4 DEF Deliver, FetchFails
  <2>2. /\ request' \in [Requests -> Asked] /\ request'[r] = Gone
        /\ \A k \in Requests : k # r => request'[k] = request[k]
    BY <1>0, <2>1, GoneAnswers DEF PagesTypeOK
  <2>3. totalPages' \in Nat
    BY <1>0, <1>4, PagesAssumption DEF Deliver, FetchFails, PagesTypeOK, PagesAssumption
  <2>4. request[r].no = r /\ r \in Nat /\ r <= sent /\ request[r] \in Asked
    BY <1>0, <1>4 DEF Deliver, FetchFails, Numbered, PagesTypeOK, Requests
  <2>5. shown' = shown \/ (shown' = request[r] /\ request[r].state = "served")
    BY <1>4 DEF Deliver, FetchFails
  <2>6. PagesTypeOK' /\ Numbered'
    <3>1. PagesTypeOK'
      BY <1>0, <2>1, <2>2, <2>3, <2>4, <2>5 DEF PagesTypeOK
    <3>2. shown'.no <= sent /\ (shown'.no > 0 => shown'.state = "served")
      BY <1>0, <2>4, <2>5 DEF Numbered
    <3> QED
      BY <1>0, <2>1, <2>2, <3>1, <3>2, GoneAnswers DEF Numbered
  <2>7. LastIsGood'
    <3>1. GoodAnswer(shown)'
      BY <1>0, <2>1, <2>5 DEF LastIsGood, GoodAnswer, Answers, Learnt
    <3>2. ASSUME NEW k \in Requests PROVE GoodAnswer(request[k])'
      <4>1. CASE k # r
        BY <1>0, <2>1, <2>2, <4>1 DEF LastIsGood, GoodAnswer, Answers, Learnt
      <4>2. CASE k = r
        BY <1>0, <2>1, <2>2, <4>2, GoneAnswers DEF GoodAnswer, PagesTypeOK
      <4> QED
        BY <4>1, <4>2
    <3> QED
      BY <3>1, <3>2 DEF LastIsGood
  <2> QED
    BY <1>0, <2>6, <2>7 DEF PagesInv
<1>5. ASSUME NEW p \in 1 .. MaxPages, Turn(p) PROVE PagesInv'
  <2>1. p \in Nat /\ page' = p /\ UNCHANGED <<screen, filter, totalPages, shown, change, version>>
    BY <1>5 DEF Turn
  <2>2. CASE Refetches(p)
    <3>1. Fetch(p, filter) /\ outdated' = FALSE
      BY <1>5, <2>2 DEF Turn
    <3> QED
      BY <1>0, <2>1, <3>1, Fetched DEF PagesTypeOK
  <2>3. CASE ~Refetches(p)
    <3>1. UNCHANGED <<request, sent, outdated>> /\ screen = "billing" /\ page' = 1
      BY <1>5, <2>1, <2>3 DEF Turn, Refetches
    <3>2. PagesTypeOK' /\ Numbered'
      BY <1>0, <2>1, <3>1 DEF PagesTypeOK, Numbered
    <3>3. LastIsGood'
      BY <1>0, <2>1, <3>1 DEF LastIsGood, GoodAnswer, Answers, Learnt
    <3> QED
      BY <1>0, <3>2, <3>3 DEF PagesInv
  <2> QED
    BY <2>2, <2>3
<1>6. ASSUME NEW f \in Filters, Choose(f) PROVE PagesInv'
  <2>1. /\ Fetch(1, f) /\ outdated' = FALSE /\ filter' = f /\ page' = 1
        /\ UNCHANGED <<screen, totalPages, shown, change, version>>
    BY <1>6 DEF Choose
  <2> QED
    BY <1>0, <2>1, Fetched DEF PagesTypeOK
<1>7. ASSUME NEW c \in Changes, Confirm(c) PROVE PagesInv'
  <2> DEFINE m == [state |-> "sent", page |-> page, filter |-> filter]
  <2>1. m \in Made /\ m.state = "sent"
    BY <1>0 DEF Made, PagesTypeOK
  <2>2. /\ change' = [change EXCEPT ![c] = m]
        /\ UNCHANGED <<screen, page, filter, totalPages, request, shown, version, sent, outdated>>
    BY <1>7 DEF Confirm
  <2>3. change[c].state # "made"
    BY <1>0, <1>7 DEF Confirm, InOrder, Changes
  <2> HIDE DEF m
  <2>4. change' \in [Changes -> Made] /\ (Learnt' => Learnt)
    BY <1>0, <2>1, <2>2, <2>3 DEF PagesTypeOK, Learnt
  <2> QED
    BY <1>0, <2>2, <2>4, ChangeStep DEF PagesTypeOK
<1>8. ASSUME NEW c \in Changes, Apply(c) PROVE PagesInv'
  <2> DEFINE m == [change[c] EXCEPT !.state = "made"]
  <2>1. m \in Made /\ m.state = "made"
    BY <1>0 DEF Made, PagesTypeOK
  <2>2. /\ change' = [change EXCEPT ![c] = m] /\ version' = version + 1
        /\ UNCHANGED <<screen, page, filter, totalPages, request, shown, sent, outdated>>
    BY <1>8 DEF Apply
  <2> HIDE DEF m
  <2>3. change' \in [Changes -> Made] /\ ~Learnt'
    BY <1>0, <2>1, <2>2 DEF PagesTypeOK, Learnt
  <2> QED
    BY <1>0, <2>2, <2>3, ChangeStep DEF PagesTypeOK
<1>9. ASSUME NEW c \in Changes, Confirmed(c) PROVE PagesInv'
  <2>1. Unmade \in Made /\ [Unmade EXCEPT !.state = "over"] \in Made
    BY DEF Unmade, Made, Filters
  <2>2. change' \in [Changes -> Made]
    BY <1>0, <1>9, <2>1 DEF Confirmed, Settle, PagesTypeOK
  <2>3. change[c].page \in Nat /\ change[c].filter \in Filters
    BY <1>0 DEF PagesTypeOK, Made
  <2>4. /\ Fetch(change[c].page, change[c].filter)
        /\ outdated' = (<<change[c].page, change[c].filter>> # <<page, filter>>)
        /\ UNCHANGED <<screen, page, filter, totalPages, shown, version>>
    BY <1>9 DEF Confirmed
  <2> QED
    BY <1>0, <2>2, <2>3, <2>4, Fetched DEF PagesTypeOK
<1>10. ASSUME NEW c \in Changes, Refused(c) PROVE PagesInv'
  <2> DEFINE m == [Unmade EXCEPT !.state = "over"]
  <2>1. m \in Made /\ m.state = "over"
    BY DEF Unmade, Made, Filters
  <2>2. /\ change' = [change EXCEPT ![c] = m]
        /\ outdated' = (outdated \/ change[c].state = "made")
        /\ UNCHANGED <<screen, page, filter, totalPages, request, shown, version, sent>>
    BY <1>10 DEF Refused, Settle
  <2> HIDE DEF m
  <2>3. change' \in [Changes -> Made] /\ (~outdated' /\ Learnt' => Learnt)
    BY <1>0, <2>1, <2>2 DEF PagesTypeOK, Learnt
  <2> QED
    BY <1>0, <2>2, <2>3, ChangeStep DEF PagesTypeOK
<1> QED
  BY <1>1, <1>2, <1>3, <1>4, <1>5, <1>6, <1>7, <1>8, <1>9, <1>10 DEF PagesNext

-----------------------------------------------------------------------------
(* The theorems.                                                            *)

Inv == GenInv /\ SignInInv /\ PagesInv

\* The three parts keep their invariants, whichever of them takes a step.
LEMMA Invariant == Spec => []Inv
<1>1. Init => Inv
  BY GenStart, SignInStart, PagesStart DEF Init, Inv
<1>2. Inv /\ [Next]_webVars => Inv'
  <2> SUFFICES ASSUME Inv, [Next]_webVars PROVE Inv'
    OBVIOUS
  <2>1. ASSUME UNCHANGED genVars PROVE GenInv'
    BY <2>1 DEF genVars, chatVars, videoVars, Inv, GenInv, GenTypeOK, VideoJobs, OneStream,
                PollingShown
  <2>2. ASSUME UNCHANGED pageVars PROVE PagesInv'
    BY <2>2 DEF pageVars, Inv, PagesInv, PagesTypeOK, Numbered, InOrder, LastIsGood,
                GoodAnswer, Answers, Learnt
  <2>3. ASSUME UNCHANGED signVars PROVE SignInInv'
    BY <2>3 DEF signVars, pageOf, Inv, SignInInv, SignInTypeOK, OneAccount, OwnToken, Passed
  <2> QED
    BY <2>1, <2>2, <2>3, GenStep, SignInStep, PagesStep DEF Inv, Next, webVars
<1> QED
  BY <1>1, <1>2, PTL DEF Spec

\* Every variable of the three parts keeps its type.
THEOREM TypeCorrect == Spec => [](GenTypeOK /\ SignInTypeOK /\ PagesTypeOK)
<1>1. Inv => GenTypeOK /\ SignInTypeOK /\ PagesTypeOK
  BY DEF Inv, GenInv, SignInInv, PagesInv
<1> QED
  BY <1>1, Invariant, PTL

\* The stop button aborts the stream that is open, for any number of messages,
\* stops, clears and failures (useGeneration.ts:136-262).
THEOREM StreamsOneByOne == Spec => []OneStream
<1>1. Inv => OneStream
  BY DEF Inv, GenInv
<1> QED
  BY <1>1, Invariant, PTL

\* A panel that says it is polling polls the last task (useGeneration.ts:418-528).
THEOREM ShownIsPolled == Spec => []PollingShown
<1>1. Inv => PollingShown
  BY DEF Inv, GenInv
<1> QED
  BY <1>1, Invariant, PTL

\* A quiet list whose last answer was the last one asked for is current, for
\* any number of pages, requests and changes.
THEOREM QuietIsCurrent == Spec => []ListIsCurrent
<1>1. Inv => ListIsCurrent
  <2> SUFFICES ASSUME Inv PROVE ListIsCurrent
    OBVIOUS
  <2>1. Quiet => Learnt
    BY DEF Quiet, Learnt, Busy
  <2>2. GoodAnswer(shown) /\ (shown.no > 0 => shown.state = "served")
    BY DEF Inv, PagesInv, LastIsGood, Numbered
  <2> QED
    BY <2>1, <2>2 DEF ListIsCurrent, GoodAnswer, Answers
<1> QED
  BY <1>1, Invariant, PTL

\* A tab shows the account whose rows it asks for, unless another one has
\* signed in behind its back (authStore.ts:69-99, request.ts:30-33).
THEOREM ShowsOwnAccount == Spec => []OneAccount
<1>1. Inv => OneAccount
  BY DEF Inv, SignInInv
<1> QED
  BY <1>1, Invariant, PTL

\* The server refuses no registration for its form that the client has let
\* through (validation.ts:9), for any length and any characters.
THEOREM RegistrationAgrees == Spec => []AcceptedByServer
<1>1. Inv => AcceptedByServer
  BY FormAgrees DEF Inv, SignInInv, Passed, AcceptedByServer
<1> QED
  BY <1>1, Invariant, PTL
=============================================================================
