--------------------------- MODULE SessionsProofs ---------------------------
(***************************************************************************)
(* Accounts and sessions, for any number of users, tokens, links and        *)
(* requests: a spent token is revoked, a logout or a reset ends all that    *)
(* was not under way, and a used link is gone.                              *)
(***************************************************************************)
EXTENDS Sessions, TLAPS

\* The inductive invariant, beside the types.

\* What a request that exchanges a token knows of it.
Rotation ==
    \A p \in Procs :
        /\ pc[p] = "revoke old" => token[req[p].parent].state # "unused"
        /\ pc[p] = "issue" /\ req[p].parent # None =>
               token[req[p].parent].state \in {"revoked", "expired"}

\* A reset of u has set the password and has not ended the sessions.
HalfReset(u) == u \in cut \/ \E p \in Procs : pc[p] \in Unfinished /\ req[p].user = u

\* What was opened with secret s, after the sessions of u were ended e times,
\* may go on.
Current(u, e, s) == e = era[u] /\ (s = password[u] \/ HalfReset(u))

SessionsCurrent ==
    \A t \in Tokens : Live(t) /\ ~token[t].late =>
        Current(token[t].user, token[t].era, token[t].secret)

RequestsCurrent ==
    \A p \in Procs : pc[p] \in {"revoke old", "issue"} /\ p \notin late /\ ~req[p].late =>
        Current(req[p].user, req[p].era, req[p].secret)

Resetting == {"set password", "delete link", "end sessions"}

\* The link of a reset is a link that was sent.
LinkWasSent ==
    \A p \in Procs : pc[p] \in Resetting => link[req[p].link].user \in Users

Inv == /\ TypeOK /\ SpentIsRevoked /\ Rotation
       /\ SessionsCurrent /\ RequestsCurrent
       /\ LinkWasSent

-----------------------------------------------------------------------------
(* Types, in three parts.                                                   *)

\* What TypeOK says of what a request has read.
Requests == [user : Users \cup {None}, device : Devices \cup {None},
             parent : Tokens \cup {None}, secret : Nat, era : Nat,
             late : BOOLEAN, link : Links \cup {None}]

TokensOK ==
    /\ token \in [Tokens -> Row]
    /\ \A t \in Tokens : token[t].state # "unused" => token[t].user \in Users

\* What a request needs at its label.
Ready(label, r) ==
    /\ label # "idle" => r.user \in Users
    /\ label = "revoke old" => r.parent \in Tokens
    /\ label \in {"find device", "bind", "rebind"} => r.device \in Devices
    /\ label \in Resetting => r.link \in Links

RequestsOK ==
    /\ pc \in [Procs -> Labels] /\ req \in [Procs -> Requests] /\ late \subseteq Procs
    /\ \A p \in Procs : Ready(pc[p], req[p])

LinksOK ==
    /\ link \in [Links -> [user : Users \cup {None}, at : SUBSET Stores]]
    /\ \A l \in Links : link[l].at # {} => link[l].user \in Users
    /\ doubled \subseteq Links /\ shaken \subseteq Procs

TablesOK ==
    /\ status \in [Users -> {"absent", "active", "banned"}]
    /\ password \in [Users -> Nat] /\ verified \in [Users -> BOOLEAN]
    /\ device \in [Devices -> Users \cup {None}]
    /\ code \in [Users -> SUBSET Stores] /\ redis \in BOOLEAN
    /\ calls \in Nat /\ flips \in Nat /\ era \in [Users -> Nat] /\ cut \subseteq Users

\* TypeOK is these parts.
LEMMA Parts == TypeOK <=> TokensOK /\ RequestsOK /\ LinksOK /\ TablesOK
BY DEF TypeOK, TokensOK, RequestsOK, LinksOK, TablesOK, Ready, Resetting, Requests

\* ... in the next state too.
LEMMA PartsNext == TokensOK' /\ RequestsOK' /\ LinksOK' /\ TablesOK' => TypeOK'
BY DEF TypeOK, TokensOK, RequestsOK, LinksOK, TablesOK, Ready, Resetting, Requests

\* One more for one user.
LEMMA OneMore ==
    ASSUME NEW f \in [Users -> Nat], NEW u \in Users
    PROVE  LET g == [f EXCEPT ![u] = @ + 1] IN
           g \in [Users -> Nat] /\ \A v \in Users : g[v] = IF v = u THEN f[v] + 1 ELSE f[v]
<1>1. f[u] + 1 \in Nat
  OBVIOUS
<1> QED
  BY <1>1

\* A request that has read nothing.
LEMMA NothingIsRequest == Nothing \in Requests
BY DEF Nothing, Requests

\* A request that is taken up.
LEMMA Begun ==
    ASSUME RequestsOK, NEW p \in Procs, NEW r \in Requests, NEW label \in Labels,
           Ready(label, r), Begin(p, r, label), UNCHANGED late
    PROVE  RequestsOK' /\ calls' = calls + 1
BY DEF RequestsOK, Begin, GoTo, Called

\* A request that goes on with what it has read.
LEMMA WentOn ==
    ASSUME RequestsOK, NEW p \in Procs, NEW label \in Labels,
           Ready(label, req[p]), GoTo(p, label), UNCHANGED <<req, late>>
    PROVE  RequestsOK'
BY DEF RequestsOK, GoTo

\* A request that ends.
LEMMA Returned ==
    ASSUME RequestsOK, NEW p \in Procs,
           pc' = [pc EXCEPT ![p] = "idle"], req' = [req EXCEPT ![p] = Nothing],
           late' \subseteq Procs
    PROVE  RequestsOK'
<1>1. Ready("idle", Nothing) /\ "idle" \in Labels
  BY DEF Ready, Resetting, Labels
<1> QED
  BY <1>1, NothingIsRequest DEF RequestsOK

\* A row with another state is otherwise the same.
LEMMA Restated ==
    ASSUME NEW r \in Row, NEW s \in {"revoked", "expired"}
    PROVE  LET x == [r EXCEPT !.state = s] IN
           /\ x \in Row /\ x.state = s
           /\ x.user = r.user /\ x.device = r.device /\ x.parent = r.parent
           /\ x.secret = r.secret /\ x.era = r.era /\ x.late = r.late
BY DEF Row

\* The statements that end sessions: of the tokens of S, those that are live.
\* Nothing but the state changes.
LEMMA Ends ==
    ASSUME TokensOK, NEW S, token' = Revoked(S)
    PROVE  /\ TokensOK'
           /\ \A t \in Tokens :
                /\ token'[t].state = IF t \in S /\ Live(t) THEN "revoked" ELSE token[t].state
                /\ token'[t].user = token[t].user /\ token'[t].parent = token[t].parent
                /\ token'[t].secret = token[t].secret /\ token'[t].era = token[t].era
                /\ token'[t].late = token[t].late
<1> DEFINE ended(t) == t \in S /\ Live(t)
           new(t) == IF ended(t) THEN [token[t] EXCEPT !.state = "revoked"] ELSE token[t]
<1>1. token' = [t \in Tokens |-> new(t)]
  BY DEF Revoked
<1>2. ASSUME NEW t \in Tokens
      PROVE  /\ new(t) \in Row
             /\ new(t).state = IF ended(t) THEN "revoked" ELSE token[t].state
             /\ new(t).user = token[t].user /\ new(t).parent = token[t].parent
             /\ new(t).secret = token[t].secret /\ new(t).era = token[t].era
             /\ new(t).late = token[t].late
  <2>1. token[t] \in Row
    BY DEF TokensOK
  <2>2. CASE ended(t)
    <3> DEFINE x == [token[t] EXCEPT !.state = "revoked"]
    <3>1. /\ x \in Row /\ x.state = "revoked"
          /\ x.user = token[t].user /\ x.parent = token[t].parent
          /\ x.secret = token[t].secret /\ x.era = token[t].era
          /\ x.late = token[t].late
      BY <2>1, Restated
    <3>2. new(t) = x
      BY <2>2
    <3> HIDE DEF x, new, ended
    <3> QED
      BY <3>1, <3>2, <2>2
  <2>3. CASE ~ended(t)
    <3>1. new(t) = token[t]
      BY <2>3
    <3> HIDE DEF new, ended
    <3> QED
      BY <2>1, <2>3, <3>1
  <2> QED
    BY <2>2, <2>3
<1>3. \A t \in Tokens : ended(t) => token[t].state # "unused"
  BY DEF Live
<1> HIDE DEF new
<1>4. token' \in [Tokens -> Row] /\ \A t \in Tokens : token'[t] = new(t)
  BY <1>1, <1>2
<1> HIDE DEF ended
<1>5. \A t \in Tokens : token'[t].state # "unused" => token'[t].user \in Users
  BY <1>2, <1>3, <1>4 DEF TokensOK
<1> QED
  BY <1>2, <1>4, <1>5 DEF TokensOK, ended

\* One token that was issued is revoked, or expires.
LEMMA EndsOne ==
    ASSUME TokensOK, NEW k \in Tokens, token[k].state # "unused",
           NEW s \in {"revoked", "expired"}, token' = [token EXCEPT ![k].state = s]
    PROVE  /\ TokensOK'
           /\ token'[k].state = s
           /\ \A t \in Tokens :
                /\ t # k => token'[t] = token[t]
                /\ token'[t].user = token[t].user /\ token'[t].parent = token[t].parent
                /\ token'[t].secret = token[t].secret /\ token'[t].era = token[t].era
                /\ token'[t].late = token[t].late
<1> DEFINE x == [token[k] EXCEPT !.state = s]
<1>1. token[k] \in Row
  BY DEF TokensOK
<1>2. /\ x \in Row /\ x.state = s
      /\ x.user = token[k].user /\ x.device = token[k].device
      /\ x.parent = token[k].parent /\ x.secret = token[k].secret
      /\ x.era = token[k].era /\ x.late = token[k].late
  BY <1>1, Restated
<1>3. token' = [token EXCEPT ![k] = x]
  OBVIOUS
<1> HIDE DEF x
<1>4. /\ token' \in [Tokens -> Row]
      /\ \A t \in Tokens : token'[t] = IF t = k THEN x ELSE token[t]
  BY <1>2, <1>3 DEF TokensOK
<1> QED
  BY <1>2, <1>4 DEF TokensOK

\* A new token: its row was unused, and holds what the request has read.
LEMMA Issues ==
    ASSUME TokensOK, RequestsOK, NEW p \in Procs, NEW t \in Tokens, Issue(p, t)
    PROVE  /\ TokensOK' /\ RequestsOK'
           /\ \A u \in Tokens : u # t => token'[u] = token[u]
           /\ token[t].state = "unused" /\ token'[t].state = "live"
           /\ token'[t].user = req[p].user /\ token'[t].parent = req[p].parent
           /\ token'[t].secret = req[p].secret /\ token'[t].era = req[p].era
           /\ token'[t].late = (req[p].late \/ p \in late)
<1> DEFINE r == req[p]
           x == [state |-> "live", user |-> r.user, device |-> r.device,
                 parent |-> r.parent, secret |-> r.secret, era |-> r.era,
                 late |-> r.late \/ p \in late]
<1>1. r \in Requests /\ r.user \in Users /\ pc[p] = "issue"
  BY DEF RequestsOK, Ready, Issue
<1>2. x \in Row /\ x.user \in Users /\ x.state = "live"
  BY <1>1 DEF Requests, Row
<1>3. token' = [token EXCEPT ![t] = x] /\ token[t].state = "unused"
  BY DEF Issue
<1>4. RequestsOK'
  <2>1. CASE Binds(r)
    <3>1. GoTo(p, "find device") /\ UNCHANGED <<req, late>>
      BY <2>1 DEF Issue
    <3>2. Ready("find device", r) /\ "find device" \in Labels
      BY <1>1, <2>1 DEF Ready, Resetting, Labels, Binds, Requests
    <3> QED
      BY <3>1, <3>2, WentOn
  <2>2. CASE ~Binds(r)
    <3>1. Return(p)
      BY <2>2 DEF Issue
    <3> QED
      BY <3>1, Returned DEF Return, GoTo, RequestsOK
  <2> QED
    BY <2>1, <2>2
<1>5. /\ x.user = req[p].user /\ x.parent = req[p].parent
      /\ x.secret = req[p].secret /\ x.era = req[p].era
      /\ x.late = (req[p].late \/ p \in late)
  OBVIOUS
<1> HIDE DEF x, r
<1>6. TokensOK' /\ token'[t] = x /\ \A u \in Tokens : u # t => token'[u] = token[u]
  BY <1>2, <1>3 DEF TokensOK
<1> QED
  BY <1>2, <1>3, <1>4, <1>5, <1>6

\* A link that some stores forget is otherwise the same.
LEMMA Without ==
    ASSUME LinksOK, NEW l \in Links, NEW S
    PROVE  LET x == [link[l] EXCEPT !.at = @ \ S] IN
           /\ x \in [user : Users \cup {None}, at : SUBSET Stores]
           /\ x.user = link[l].user /\ x.at = link[l].at \ S
<1>1. link[l] \in [user : Users \cup {None}, at : SUBSET Stores]
  BY DEF LinksOK
<1> QED
  BY <1>1

\* A link is forgotten by some stores, or all are by one: each stays its
\* user's, and comes into no store.
LEMMA Unlinked ==
    ASSUME LinksOK, NEW S,
           \/ \E l \in Links : link' = [link EXCEPT ![l].at = @ \ S]
           \/ link' = [l \in Links |-> [link[l] EXCEPT !.at = @ \ S]]
    PROVE  /\ link' \in [Links -> [user : Users \cup {None}, at : SUBSET Stores]]
           /\ \A l \in Links : link'[l].at # {} => link'[l].user \in Users
           /\ \A l \in Links : /\ link'[l].user = link[l].user
                               /\ link'[l].at \in {link[l].at, link[l].at \ S}
<1> DEFINE x(k) == [link[k] EXCEPT !.at = @ \ S]
<1>1. \A k \in Links : /\ x(k) \in [user : Users \cup {None}, at : SUBSET Stores]
                      /\ x(k).user = link[k].user /\ x(k).at = link[k].at \ S
  BY Without
<1>2. \/ \E l \in Links : link' = [link EXCEPT ![l] = x(l)]
      \/ link' = [l \in Links |-> x(l)]
  OBVIOUS
<1>3. link \in [Links -> [user : Users \cup {None}, at : SUBSET Stores]]
  BY DEF LinksOK
<1> HIDE DEF x
<1>4. \A k \in Links : link'[k] \in {link[k], x(k)}
  BY <1>2, <1>3
<1>5. link' \in [Links -> [user : Users \cup {None}, at : SUBSET Stores]]
  BY <1>1, <1>2, <1>3
<1> QED
  BY <1>1, <1>4, <1>5 DEF LinksOK

\* A call of the store counts the faults, and reaches some store.
LEMMA Reaches ==
    ASSUME TablesOK
    PROVE  /\ \A S : Writes(S) => S \subseteq Stores /\ flips' \in Nat
           /\ \A s : Reads(s) => s \in Stores /\ flips' \in Nat
BY DEF TablesOK, Writes, Reads, Unanswered, Store, Stores

\* The accounts are there at the start, and nothing else.
LEMMA InitType == Init => TypeOK
<1> SUFFICES ASSUME Init PROVE TypeOK
  OBVIOUS
<1>1. TokensOK
  BY DEF Init, NoToken, Row, TokensOK
<1>2. RequestsOK
  BY NothingIsRequest DEF Init, RequestsOK, Labels, Ready, Resetting
<1>3. LinksOK
  BY DEF Init, LinksOK, NoLink
<1>4. TablesOK
  BY SessionsAssumption DEF Init, TablesOK, Stores
<1> QED
  BY <1>1, <1>2, <1>3, <1>4, Parts

\* A request that comes in.
LEMMA ArriveType ==
    ASSUME TypeOK, NEW p \in Procs, Arrive(p)
    PROVE  TypeOK'
<1>0. TokensOK /\ RequestsOK /\ LinksOK /\ TablesOK
  BY Parts
<1>1. ASSUME NEW r \in Requests, NEW label \in Labels, Ready(label, r),
             Begin(p, r, label), flips' \in Nat, shaken' \subseteq Procs,
             UNCHANGED <<accounts, link, code, redis, doubled, sessions>>
      PROVE  TypeOK'
  <2>1. RequestsOK' /\ calls' = calls + 1
    BY <1>0, <1>1, Begun DEF sessions
  <2>2. /\ UNCHANGED <<status, password, verified, link, code, redis, doubled>>
        /\ UNCHANGED <<token, device, era, late, cut>>
    BY <1>1 DEF accounts, sessions
  <2>3. TokensOK' /\ LinksOK' /\ TablesOK'
    BY <1>0, <1>1, <2>1, <2>2 DEF TokensOK, LinksOK, TablesOK
  <2> QED
    BY <2>1, <2>3, PartsNext
<1>b. UNCHANGED codes => /\ flips' \in Nat /\ shaken' \subseteq Procs
                         /\ UNCHANGED <<link, code, redis, doubled>>
  BY <1>0 DEF codes, LinksOK, TablesOK
<1>2. ASSUME NEW u \in Users, Register(p, u) \/ Verify(p, u) PROVE TypeOK'
  <2> DEFINE r == [Nothing EXCEPT !.user = u]
  <2>1. r \in Requests /\ r.user = u
    BY DEF Nothing, Requests
  <2>2. Ready("insert user", r) /\ Ready("mark verified", r)
    BY <2>1 DEF Ready, Resetting
  <2>3. /\ flips' \in Nat /\ shaken' \subseteq Procs
        /\ UNCHANGED <<accounts, link, code, redis, doubled, sessions>>
    BY <1>0, <1>2, <1>b, Reaches DEF Register, Verify, LinksOK
  <2>4. Begin(p, r, "insert user") \/ Begin(p, r, "mark verified")
    BY <1>2 DEF Register, Verify
  <2> HIDE DEF r
  <2> QED
    BY <1>1, <2>1, <2>2, <2>3, <2>4 DEF Labels
<1>3. ASSUME NEW u \in Users, NEW d \in Devices \cup {None}, Login(p, u, d) PROVE TypeOK'
  <2> DEFINE r == [Nothing EXCEPT !.user = u, !.device = d,
                                  !.secret = password[u], !.era = era[u]]
  <2>1. password[u] \in Nat /\ era[u] \in Nat
    BY <1>0 DEF TablesOK
  <2>2. r \in Requests /\ r.user = u
    BY <2>1 DEF Nothing, Requests
  <2>3. Begin(p, r, "issue") /\ UNCHANGED <<accounts, codes, sessions>>
    BY <1>3 DEF Login
  <2> HIDE DEF r
  <2>4. Ready("issue", r) /\ "issue" \in Labels
    BY <2>2 DEF Ready, Resetting, Labels
  <2> QED
    BY <1>1, <1>b, <2>2, <2>3, <2>4
<1>4. ASSUME NEW t \in Tokens, NEW d \in Devices \cup {None}, Refresh(p, t, d) PROVE TypeOK'
  <2> DEFINE r == [user |-> token[t].user, device |-> d, parent |-> t,
                   secret |-> token[t].secret, era |-> token[t].era,
                   late |-> token[t].late, link |-> None]
  <2>1. token[t] \in Row /\ token[t].user \in Users
    BY <1>0, <1>4 DEF TokensOK, Refresh, Live
  <2>2. r \in Requests /\ r.user \in Users /\ r.parent = t
    BY <2>1 DEF Row, Requests
  <2>3. Begin(p, r, "revoke old") /\ UNCHANGED <<accounts, codes, sessions>>
    BY <1>4 DEF Refresh
  <2> HIDE DEF r
  <2>4. Ready("revoke old", r) /\ "revoke old" \in Labels
    BY <2>2 DEF Ready, Resetting, Labels
  <2> QED
    BY <1>1, <1>b, <2>2, <2>3, <2>4
<1>5. ASSUME NEW l \in Links, Reset(p, l) PROVE TypeOK'
  <2> DEFINE r == [Nothing EXCEPT !.user = link[l].user, !.link = l]
  <2>1. link[l].user \in Users
    BY <1>0, <1>5 DEF Reset, LinksOK
  <2>2. r \in Requests /\ r.user \in Users /\ r.link = l
    BY <2>1 DEF Nothing, Requests
  <2>3. /\ Begin(p, r, "set password") /\ flips' \in Nat /\ shaken' \subseteq Procs
        /\ UNCHANGED <<accounts, link, code, redis, doubled, sessions>>
    BY <1>0, <1>5, Reaches DEF Reset, LinksOK
  <2> HIDE DEF r
  <2>4. Ready("set password", r) /\ "set password" \in Labels
    BY <2>2 DEF Ready, Resetting, Labels
  <2> QED
    BY <1>1, <2>2, <2>3, <2>4
<1> QED
  BY <1>2, <1>3, <1>4, <1>5 DEF Arrive

\* A step of a request.
LEMMA StepType ==
    ASSUME TypeOK, Rotation, NEW p \in Procs, Step(p)
    PROVE  TypeOK'
<1>0. TokensOK /\ RequestsOK /\ LinksOK /\ TablesOK
  BY Parts
<1>a. ASSUME Return(p) PROVE RequestsOK'
  BY <1>0, <1>a, Returned DEF Return, GoTo, RequestsOK
<1>1. CASE InsertUser(p)
  <2>1. /\ status' \in [Users -> {"absent", "active", "banned"}]
        /\ pc[p] = "insert user"
        /\ UNCHANGED <<password, verified, codes, token, device, era, cut, calls>>
    BY <1>0, <1>1 DEF InsertUser, TablesOK
  <2>2. TokensOK' /\ LinksOK' /\ TablesOK'
    BY <1>0, <2>1 DEF TokensOK, LinksOK, TablesOK, codes
  <2>3. CASE GoTo(p, "send code") /\ UNCHANGED <<req, late>>
    <3>1. Ready("send code", req[p]) /\ "send code" \in Labels
      BY <1>0, <2>1 DEF RequestsOK, Ready, Resetting, Labels
    <3> QED
      BY <1>0, <2>2, <2>3, <3>1, WentOn, PartsNext
  <2> QED
    BY <1>1, <1>a, <2>2, <2>3, PartsNext DEF InsertUser
<1>2. CASE SendCode(p) \/ DeleteCode(p)
  <2>1. /\ pc[p] # "idle" /\ Return(p)
        /\ UNCHANGED <<accounts, link, redis, doubled, shaken, token, device, era, cut, calls>>
    BY <1>2 DEF SendCode, DeleteCode
  <2>2. /\ flips' \in Nat
        /\ \E S \in SUBSET Stores :
              \/ code' = [code EXCEPT ![req[p].user] = @ \cup S]
              \/ code' = [code EXCEPT ![req[p].user] = @ \ S]
    BY <1>0, <1>2, Reaches DEF SendCode, DeleteCode, NewCode
  <2>3. code' \in [Users -> SUBSET Stores]
    BY <1>0, <2>2 DEF TablesOK
  <2>4. TokensOK' /\ LinksOK' /\ TablesOK'
    BY <1>0, <2>1, <2>2, <2>3 DEF TokensOK, LinksOK, TablesOK, accounts
  <2> QED
    BY <1>a, <2>1, <2>4, PartsNext
<1>3. CASE MarkVerified(p)
  <2>1. TokensOK' /\ LinksOK' /\ TablesOK'
    BY <1>0, <1>3 DEF MarkVerified, TokensOK, LinksOK, TablesOK, codes, sessions
  <2>2. Ready("delete code", req[p]) /\ "delete code" \in Labels
    BY <1>0, <1>3 DEF MarkVerified, RequestsOK, Ready, Resetting, Labels
  <2>3. RequestsOK'
    BY <1>0, <1>3, <2>2, WentOn DEF MarkVerified, sessions
  <2> QED
    BY <2>1, <2>3, PartsNext
<1>4. CASE RevokeOld(p)
  <2>1. req[p].parent \in Tokens /\ token[req[p].parent].state # "unused"
    BY <1>0, <1>4 DEF RevokeOld, RequestsOK, Ready, Rotation
  <2>2. TokensOK'
    BY <1>0, <1>4, <2>1, EndsOne DEF RevokeOld
  <2>3. LinksOK' /\ TablesOK'
    BY <1>0, <1>4 DEF RevokeOld, LinksOK, TablesOK, codes, accounts
  <2>4. Ready("issue", req[p]) /\ "issue" \in Labels
    BY <1>0, <1>4 DEF RevokeOld, RequestsOK, Ready, Resetting, Labels
  <2>5. RequestsOK'
    BY <1>0, <1>4, <2>4, WentOn DEF RevokeOld
  <2> QED
    BY <2>2, <2>3, <2>5, PartsNext
<1>5. ASSUME NEW t \in Tokens, Issue(p, t) PROVE TypeOK'
  <2>1. TokensOK' /\ RequestsOK'
    BY <1>0, <1>5, Issues
  <2>2. LinksOK' /\ TablesOK'
    BY <1>0, <1>5 DEF Issue, LinksOK, TablesOK, codes, accounts
  <2> QED
    BY <2>1, <2>2, PartsNext
<1>6. CASE FindDevice(p)
  <2>1. TokensOK' /\ LinksOK' /\ TablesOK'
    BY <1>0, <1>6 DEF FindDevice, TokensOK, LinksOK, TablesOK, accounts, codes, sessions
  <2>2. PICK label \in {"bind", "rebind"} : GoTo(p, label)
    BY <1>6 DEF FindDevice
  <2>3. Ready(label, req[p]) /\ label \in Labels
    BY <1>0, <1>6 DEF FindDevice, RequestsOK, Ready, Resetting, Labels
  <2>4. RequestsOK'
    BY <1>0, <1>6, <2>2, <2>3, WentOn DEF FindDevice, sessions
  <2> QED
    BY <2>1, <2>4, PartsNext
<1>7. CASE Bind(p)
  <2>1. /\ Return(p)
        /\ UNCHANGED <<accounts, codes, token, era, cut, calls>>
    BY <1>7 DEF Bind
  <2>2. device' \in [Devices -> Users \cup {None}]
    BY <1>0, <1>7 DEF Bind, TablesOK, RequestsOK, Ready
  <2>3. TokensOK' /\ LinksOK' /\ TablesOK'
    BY <1>0, <2>1, <2>2 DEF TokensOK, LinksOK, TablesOK, accounts, codes
  <2> QED
    BY <1>a, <2>1, <2>3, PartsNext
<1>8. CASE SetPassword(p)
  <2>1. req[p].user \in Users /\ req[p].link \in Links
    BY <1>0, <1>8 DEF SetPassword, RequestsOK, Ready, Resetting
  <2>2. TokensOK' /\ LinksOK' /\ TablesOK'
    <3>1. password' \in [Users -> Nat]
      BY <1>0, <1>8, <2>1, OneMore DEF SetPassword, TablesOK
    <3>2. UNCHANGED <<status, verified, codes, sessions, calls>>
      BY <1>8 DEF SetPassword
    <3> QED
      BY <1>0, <3>1, <3>2 DEF TokensOK, LinksOK, TablesOK, codes, sessions
  <2>3. Ready("delete link", req[p]) /\ "delete link" \in Labels
    BY <2>1 DEF Ready, Labels
  <2>4. RequestsOK'
    BY <1>0, <1>8, <2>3, WentOn DEF SetPassword, sessions
  <2> QED
    BY <2>2, <2>4, PartsNext
<1>9. CASE DeleteLink(p)
  <2>1. req[p].user \in Users /\ req[p].link \in Links
    BY <1>0, <1>9 DEF DeleteLink, RequestsOK, Ready, Resetting
  <2>2. PICK S \in SUBSET Stores :
            Writes(S) /\ Deleted(req[p].link, S) /\ shaken' \in {shaken, shaken \cup {p}}
    BY <1>9 DEF DeleteLink, Forgotten
  <2>a. UNCHANGED <<code, redis, doubled>> /\ flips' \in Nat
    BY <1>0, <1>9, <2>2, Reaches DEF DeleteLink, Forgotten
  <2>3. LinksOK'
    BY <1>0, <2>1, <2>2, <2>a, Unlinked DEF LinksOK, Deleted
  <2>4. TokensOK' /\ TablesOK'
    BY <1>0, <1>9, <2>a DEF DeleteLink, TokensOK, TablesOK, accounts, sessions
  <2>5. Ready("end sessions", req[p]) /\ "end sessions" \in Labels
    BY <2>1 DEF Ready, Labels
  <2>6. RequestsOK'
    BY <1>0, <1>9, <2>5, WentOn DEF DeleteLink, sessions
  <2> QED
    BY <2>3, <2>4, <2>6, PartsNext
<1>10. CASE RevokeAll(p)
  <2>1. req[p].user \in Users
    BY <1>0, <1>10 DEF RevokeAll, RequestsOK, Ready
  <2>2. TokensOK'
    BY <1>0, <1>10, Ends DEF RevokeAll, EndSessions
  <2>3. RequestsOK'
    BY <1>0, <1>10, Returned DEF RevokeAll, GoTo, RequestsOK, UnderWay
  <2>4. LinksOK' /\ TablesOK'
    <3>1. era' \in [Users -> Nat]
      BY <1>0, <1>10, <2>1, OneMore DEF RevokeAll, EndSessions, TablesOK
    <3>2. cut' \subseteq Users /\ UNCHANGED <<accounts, codes, device, calls>>
      BY <1>0, <1>10 DEF RevokeAll, TablesOK
    <3> QED
      BY <1>0, <3>1, <3>2 DEF LinksOK, TablesOK, accounts, codes
  <2> QED
    BY <2>2, <2>3, <2>4, PartsNext
<1>11. CASE Fail(p)
  <2>1. Return(p) /\ UNCHANGED <<accounts, codes, token, device, era, calls>>
    BY <1>11 DEF Fail
  <2>2. cut' \subseteq Users
    BY <1>0, <1>11 DEF Fail, TablesOK, RequestsOK, Ready
  <2>3. TokensOK' /\ LinksOK' /\ TablesOK'
    BY <1>0, <2>1, <2>2 DEF TokensOK, LinksOK, TablesOK, accounts, codes
  <2> QED
    BY <1>a, <2>1, <2>3, PartsNext
<1> QED
  BY <1>1, <1>2, <1>3, <1>4, <1>5, <1>6, <1>7, <1>8, <1>9, <1>10, <1>11 DEF Step

\* What one statement does.
LEMMA AtOnceType ==
    ASSUME TypeOK, AtOnce
    PROVE  TypeOK'
<1>0. TokensOK /\ RequestsOK /\ LinksOK /\ TablesOK
  BY Parts
<1>1. ASSUME NEW u \in Users, AskCode(u) PROVE TypeOK'
  <2>1. /\ calls' \in Nat
        /\ UNCHANGED <<accounts, sessions, link, redis, doubled, shaken, pc, req>>
    BY <1>0, <1>1 DEF AskCode, Called, TablesOK
  <2>2. flips' \in Nat /\ \E S \in SUBSET Stores : code' = [code EXCEPT ![u] = @ \cup S]
    BY <1>0, <1>1, Reaches DEF AskCode, NewCode
  <2>3. code' \in [Users -> SUBSET Stores]
    BY <1>0, <2>2 DEF TablesOK
  <2>4. TokensOK' /\ RequestsOK' /\ LinksOK' /\ TablesOK'
    BY <1>0, <2>1, <2>2, <2>3
       DEF TokensOK, RequestsOK, LinksOK, TablesOK, accounts, sessions
  <2> QED
    BY <2>4, PartsNext
<1>2. ASSUME NEW u \in Users, Logout(u) PROVE TypeOK'
  <2>1. TokensOK'
    BY <1>0, <1>2, Ends DEF Logout, EndSessions
  <2>2. era' \in [Users -> Nat]
    BY <1>0, <1>2, OneMore DEF Logout, EndSessions, TablesOK
  <2>3. calls' \in Nat /\ UNCHANGED <<accounts, codes, device, cut, pc, req>>
    BY <1>0, <1>2 DEF Logout, Called, TablesOK
  <2>4. late' \subseteq Procs
    BY <1>0, <1>2 DEF Logout, UnderWay, RequestsOK
  <2>5. RequestsOK' /\ LinksOK' /\ TablesOK'
    BY <1>0, <2>2, <2>3, <2>4 DEF RequestsOK, LinksOK, TablesOK, accounts, codes
  <2> QED
    BY <2>1, <2>5, PartsNext
<1>3. ASSUME NEW u \in Users, Ban(u) PROVE TypeOK'
  <2>1. /\ status' \in [Users -> {"absent", "active", "banned"}]
        /\ calls' \in Nat /\ UNCHANGED <<password, verified, codes, sessions, pc, req>>
    BY <1>0, <1>3 DEF Ban, Called, TablesOK
  <2>2. TokensOK' /\ RequestsOK' /\ LinksOK' /\ TablesOK'
    BY <1>0, <2>1 DEF TokensOK, RequestsOK, LinksOK, TablesOK, codes, sessions
  <2> QED
    BY <2>2, PartsNext
<1>4. ASSUME NEW u \in Users, NEW d \in Devices, LogoutDevice(u, d) PROVE TypeOK'
  <2>1. TokensOK'
    BY <1>0, <1>4, Ends DEF LogoutDevice
  <2>2. calls' \in Nat /\ UNCHANGED <<accounts, codes, device, era, late, cut, pc, req>>
    BY <1>0, <1>4 DEF LogoutDevice, Called, TablesOK
  <2>3. RequestsOK' /\ LinksOK' /\ TablesOK'
    BY <1>0, <2>2 DEF RequestsOK, LinksOK, TablesOK, accounts, codes
  <2> QED
    BY <2>1, <2>3, PartsNext
<1>5. ASSUME NEW u \in Users, NEW l \in Links, Forgot(u, l) PROVE TypeOK'
  <2>1. LinksOK'
    BY <1>0, <1>5 DEF Forgot, LinksOK
  <2>2. /\ calls' \in Nat /\ flips' \in Nat
        /\ UNCHANGED <<accounts, sessions, code, redis, pc, req>>
    BY <1>0, <1>5, Reaches DEF Forgot, Called, TablesOK
  <2>3. TokensOK' /\ RequestsOK' /\ TablesOK'
    BY <1>0, <2>2 DEF TokensOK, RequestsOK, TablesOK, accounts, sessions
  <2> QED
    BY <2>1, <2>3, PartsNext
<1>6. ASSUME NEW t \in Tokens, Expire(t) PROVE TypeOK'
  <2>1. TokensOK'
    BY <1>0, <1>6, EndsOne DEF Expire, Live
  <2>2. RequestsOK' /\ LinksOK' /\ TablesOK'
    BY <1>0, <1>6 DEF Expire, RequestsOK, LinksOK, TablesOK, accounts, codes
  <2> QED
    BY <2>1, <2>2, PartsNext
<1>7. ASSUME NEW l \in Links, NEW s \in Stores, ExpireLink(l, s) PROVE TypeOK'
  <2>1. LinksOK'
    BY <1>0, <1>7, Unlinked DEF ExpireLink, LinksOK
  <2>2. TokensOK' /\ RequestsOK' /\ TablesOK'
    BY <1>0, <1>7 DEF ExpireLink, TokensOK, RequestsOK, TablesOK, accounts, sessions
  <2> QED
    BY <2>1, <2>2, PartsNext
<1>8. ASSUME NEW u \in Users, NEW s \in Stores, ExpireCode(u, s) PROVE TypeOK'
  <2>1. code' \in [Users -> SUBSET Stores]
    BY <1>0, <1>8 DEF ExpireCode, TablesOK
  <2>2. TokensOK' /\ RequestsOK' /\ LinksOK' /\ TablesOK'
    BY <1>0, <1>8, <2>1
       DEF ExpireCode, TokensOK, RequestsOK, LinksOK, TablesOK, accounts, sessions
  <2> QED
    BY <2>2, PartsNext
<1>9. CASE Flip
  <2>1. redis' \in BOOLEAN
    BY <1>9, Zenon DEF Flip
  <2>2. flips' \in Nat /\ shaken' \subseteq Procs
    <3>1. flips' = flips + 1 /\ shaken' = shaken \cup Holding
      BY <1>9, Zenon DEF Flip
    <3>2. flips \in Nat
      BY <1>0 DEF TablesOK
    <3>3. shaken \subseteq Procs /\ Holding \subseteq Procs
      BY <1>0 DEF LinksOK, Holding
    <3> QED
      BY <3>1, <3>2, <3>3
  <2>3. UNCHANGED <<accounts, sessions, link, code, doubled, pc, req, calls>>
    BY <1>9 DEF Flip
  <2>4. TokensOK' /\ RequestsOK' /\ LinksOK' /\ TablesOK'
    BY <1>0, <2>1, <2>2, <2>3
       DEF TokensOK, RequestsOK, LinksOK, TablesOK, accounts, sessions
  <2> QED
    BY <2>4, PartsNext
<1>10. CASE Restart
  <2>1. LinksOK'
    BY <1>0, <1>10, Unlinked DEF Restart, LinksOK
  <2>2. code' \in [Users -> SUBSET Stores]
    BY <1>0, <1>10 DEF Restart, TablesOK
  <2>3. TokensOK' /\ RequestsOK' /\ TablesOK'
    BY <1>0, <1>10, <2>2
       DEF Restart, TokensOK, RequestsOK, TablesOK, accounts, sessions
  <2> QED
    BY <2>1, <2>3, PartsNext
<1> QED
  BY <1>1, <1>2, <1>3, <1>4, <1>5, <1>6, <1>7, <1>8, <1>9, <1>10 DEF AtOnce

-----------------------------------------------------------------------------
(* Most steps do nothing that the invariant is about.                       *)

Working == {"revoke old", "issue"} \cup Resetting

\* Tokens and passwords stay as they are, and so do the requests that work on
\* them; a link that was sent stays that user's.
Elsewhere ==
    /\ UNCHANGED <<token, era, password, cut>>
    /\ \A q \in Procs : \/ pc'[q] = pc[q] /\ req'[q] = req[q] /\ (q \in late' <=> q \in late)
                        \/ pc[q] \notin Working /\ pc'[q] \notin Working
    /\ \A l \in Links : link[l].user \in Users => link'[l].user = link[l].user

\* Such a step keeps the invariant.
LEMMA ElsewhereInv == Inv /\ TypeOK' /\ Elsewhere => Inv'
<1> SUFFICES ASSUME Inv, TypeOK', Elsewhere PROVE Inv'
  OBVIOUS
<1>1. ASSUME NEW q \in Procs, pc'[q] \in Working
      PROVE  pc'[q] = pc[q] /\ req'[q] = req[q] /\ (q \in late' <=> q \in late)
  BY <1>1 DEF Elsewhere
<1>2. ASSUME NEW q \in Procs, pc[q] \in Working
      PROVE  pc'[q] = pc[q] /\ req'[q] = req[q] /\ (q \in late' <=> q \in late)
  BY <1>2 DEF Elsewhere
<1>3. SpentIsRevoked' /\ Rotation'
  BY <1>1 DEF Elsewhere, Inv, SpentIsRevoked, Rotation, Working
<1>4. \A u, e, s : Current(u, e, s) => Current(u, e, s)'
  BY <1>2 DEF Elsewhere, Current, HalfReset, Working, Resetting, Unfinished
<1>5. SessionsCurrent'
  BY <1>4 DEF Elsewhere, Inv, SessionsCurrent, Live
<1>6. RequestsCurrent'
  BY <1>1, <1>4 DEF Inv, RequestsCurrent, Working
<1>7. LinkWasSent'
  <2>1. ASSUME NEW q \in Procs, pc'[q] \in Resetting
        PROVE  /\ req'[q] = req[q] /\ req[q].link \in Links
               /\ link[req[q].link].user \in Users
    BY <1>1, <2>1 DEF Working, Inv, LinkWasSent, TypeOK, Resetting
  <2> QED
    BY <2>1 DEF Elsewhere, LinkWasSent
<1> QED
  BY <1>3, <1>5, <1>6, <1>7 DEF Inv

\* The steps of requests that are of that kind.
LEMMA StepElsewhere ==
    ASSUME TypeOK, NEW p \in Procs,
           \/ InsertUser(p) \/ SendCode(p) \/ MarkVerified(p) \/ DeleteCode(p)
           \/ FindDevice(p) \/ Bind(p)
    PROVE  Elsewhere
<1>1. /\ pc[p] \notin Working
      /\ UNCHANGED <<token, era, password, cut, link>>
  BY DEF InsertUser, SendCode, MarkVerified, DeleteCode, FindDevice, Bind,
         accounts, codes, sessions, Working, Resetting
<1>2. \/ \E label \in {"send code", "delete code", "bind", "rebind"} :
            GoTo(p, label) /\ UNCHANGED <<req, late>>
      \/ Return(p)
  BY DEF InsertUser, SendCode, MarkVerified, DeleteCode, FindDevice, Bind, sessions
<1>3. \A q \in Procs : \/ pc'[q] = pc[q] /\ req'[q] = req[q] /\ (q \in late' <=> q \in late)
                       \/ pc[q] \notin Working /\ pc'[q] \notin Working
  BY <1>1, <1>2 DEF GoTo, Return, Working, Resetting, TypeOK
<1> QED
  BY <1>1, <1>3 DEF Elsewhere

\* The requests that come in and do not ask for a session.
LEMMA ArriveElsewhere ==
    ASSUME TypeOK, NEW p \in Procs, NEW u \in Users, Register(p, u) \/ Verify(p, u)
    PROVE  Elsewhere
<1>1. \E r : \E label \in {"insert user", "mark verified"} : Begin(p, r, label)
  BY DEF Register, Verify
<1>2. UNCHANGED <<token, era, password, cut, link, late>>
  BY DEF Register, Verify, accounts, codes, sessions
<1> QED
  BY <1>1, <1>2 DEF Elsewhere, Begin, GoTo, Working, Resetting, TypeOK

\* What one statement does to codes, links and the status of users.
LEMMA AtOnceElsewhere ==
    ASSUME TypeOK, SessionsAssumption,
           \/ \E u \in Users : AskCode(u) \/ Ban(u) \/ \E l \in Links : Forgot(u, l)
           \/ \E l \in Links, s \in Stores : ExpireLink(l, s)
           \/ \E u \in Users, s \in Stores : ExpireCode(u, s)
           \/ Flip \/ Restart
           \/ UNCHANGED vars
    PROVE  Elsewhere
<1>1. UNCHANGED <<token, era, password, cut, pc, req, late>>
  BY DEF AskCode, Ban, Forgot, ExpireLink, ExpireCode, Flip, Restart, vars,
         accounts, codes, sessions
<1>2. \/ UNCHANGED link
      \/ \E l \in Links, u \in Users : Forgot(u, l)
      \/ \E S : \/ \E l \in Links : link' = [link EXCEPT ![l].at = @ \ S]
               \/ link' = [l \in Links |-> [link[l] EXCEPT !.at = @ \ S]]
  BY DEF AskCode, Ban, ExpireLink, ExpireCode, Flip, Restart, vars,
         accounts, codes, sessions
<1>3. \A l \in Links : link[l].user \in Users => link'[l].user = link[l].user
  <2>1. CASE \E l \in Links, u \in Users : Forgot(u, l)
    <3>1. PICK k \in Links, u \in Users : Forgot(u, k)
      BY <2>1
    <3>2. link[k].user = None
      BY <3>1 DEF Forgot, NoLink
    <3>3. None \notin Users
      BY DEF SessionsAssumption
    <3>4. \A l \in Links : l # k => link'[l] = link[l]
      BY <3>1 DEF Forgot, TypeOK
    <3> QED
      BY <3>2, <3>3, <3>4
  <2>2. CASE UNCHANGED link
    BY <2>2
  <2>3. CASE \E S : \/ \E l \in Links : link' = [link EXCEPT ![l].at = @ \ S]
                  \/ link' = [l \in Links |-> [link[l] EXCEPT !.at = @ \ S]]
    BY <2>3, Unlinked, Parts
  <2> QED
    BY <1>2, <2>1, <2>2, <2>3
<1> QED
  BY <1>1, <1>3 DEF Elsewhere

-----------------------------------------------------------------------------
(* Rotation.                                                                *)

\* What stays true of tokens as they end: they were issued, their parents stay,
\* and what was spent stays so.
TokensEnd ==
    \A t \in Tokens :
        /\ token'[t].parent = token[t].parent
        /\ token[t].state # "unused" => token'[t].state # "unused"
        /\ token[t].state \in {"revoked", "expired"} =>
               token'[t].state \in {"revoked", "expired"}

\* Ended tokens leave the rotation as it is, if no request comes to exchange one.
LEMMA EndRotation ==
    ASSUME TypeOK, SpentIsRevoked, Rotation, TokensEnd,
           \A q \in Procs : pc'[q] \in {"revoke old", "issue"} =>
               pc'[q] = pc[q] /\ req'[q] = req[q]
    PROVE  SpentIsRevoked' /\ Rotation'
<1>1. SpentIsRevoked'
  BY DEF SpentIsRevoked, TokensEnd
<1>2. ASSUME NEW q \in Procs, pc'[q] = "revoke old"
      PROVE  token'[req'[q].parent].state # "unused"
  <2>1. pc[q] = "revoke old" /\ req'[q] = req[q] /\ req[q].parent \in Tokens
    BY <1>2 DEF TypeOK
  <2> QED
    BY <2>1 DEF Rotation, TokensEnd
<1>3. ASSUME NEW q \in Procs, pc'[q] = "issue", req'[q].parent # None
      PROVE  token'[req'[q].parent].state \in {"revoked", "expired"}
  <2>1. pc[q] = "issue" /\ req'[q] = req[q] /\ req[q].parent # None
    BY <1>3
  <2>2. req[q].parent \in Tokens
    BY <2>1 DEF TypeOK
  <2> QED
    BY <2>1, <2>2 DEF Rotation, TokensEnd
<1> QED
  BY <1>1, <1>2, <1>3 DEF Rotation

-----------------------------------------------------------------------------
(* What is current stays so, except for a user whose sessions end.          *)

\* HalfReset and Current after the step, of a user known before it.
HalfResetNext(u) ==
    u \in cut' \/ \E p \in Procs : pc'[p] \in Unfinished /\ req'[p].user = u

CurrentNext(u, e, s) == e = era'[u] /\ (s = password'[u] \/ HalfResetNext(u))

\* A step that leaves the sessions, passwords and half done resets of u, or
\* begins a reset.
Spares(u) ==
    /\ era'[u] = era[u]
    /\ password'[u] = password[u] \/ HalfResetNext(u)
    /\ HalfReset(u) => HalfResetNext(u)

\* Then what was current is.
LEMMA StaysCurrent ==
    ASSUME NEW u, NEW e, NEW s, Spares(u), Current(u, e, s)
    PROVE  CurrentNext(u, e, s)
BY DEF Spares, Current, CurrentNext

\* Of tokens ...
LEMMA SessionsNext ==
    ASSUME \A t \in Tokens : token'[t].state = "live" /\ ~token'[t].late =>
               CurrentNext(token'[t].user, token'[t].era, token'[t].secret)
    PROVE  SessionsCurrent'
BY DEF SessionsCurrent, Live, CurrentNext, Current, HalfResetNext, HalfReset

\* ... and of requests.
LEMMA RequestsNext ==
    ASSUME \A q \in Procs : pc'[q] \in {"revoke old", "issue"} /\ q \notin late' /\ ~req'[q].late =>
               CurrentNext(req'[q].user, req'[q].era, req'[q].secret)
    PROVE  RequestsCurrent'
BY DEF RequestsCurrent, CurrentNext, Current, HalfResetNext, HalfReset

\* Tokens that go on, and requests that do, belong to users whom the step
\* spares.
LEMMA KeepsCurrent ==
    ASSUME Inv,
           \A t \in Tokens : token'[t].state = "live" /\ ~token'[t].late =>
               /\ token[t].state = "live" /\ ~token[t].late
               /\ token'[t].user = token[t].user /\ token'[t].era = token[t].era
               /\ token'[t].secret = token[t].secret
               /\ Spares(token[t].user),
           \A q \in Procs : pc'[q] \in {"revoke old", "issue"} /\ q \notin late' /\ ~req'[q].late =>
               /\ pc[q] \in {"revoke old", "issue"} /\ q \notin late
               /\ req'[q] = req[q]
               /\ Spares(req[q].user)
    PROVE  SessionsCurrent' /\ RequestsCurrent'
<1>1. ASSUME NEW t \in Tokens, token'[t].state = "live", ~token'[t].late
      PROVE  CurrentNext(token'[t].user, token'[t].era, token'[t].secret)
  <2>1. /\ token[t].state = "live" /\ ~token[t].late
        /\ token'[t].user = token[t].user /\ token'[t].era = token[t].era
        /\ token'[t].secret = token[t].secret
        /\ Spares(token[t].user)
    BY <1>1
  <2>2. Current(token[t].user, token[t].era, token[t].secret)
    BY <2>1 DEF Inv, SessionsCurrent, Live
  <2> QED
    BY <2>1, <2>2, StaysCurrent
<1>2. ASSUME NEW q \in Procs, pc'[q] \in {"revoke old", "issue"}, q \notin late', ~req'[q].late
      PROVE  CurrentNext(req'[q].user, req'[q].era, req'[q].secret)
  <2>1. /\ pc[q] \in {"revoke old", "issue"} /\ q \notin late
        /\ req'[q] = req[q] /\ ~req[q].late
        /\ Spares(req[q].user)
    BY <1>2
  <2>2. Current(req[q].user, req[q].era, req[q].secret)
    BY <2>1 DEF Inv, RequestsCurrent
  <2> QED
    BY <2>1, <2>2, StaysCurrent
<1> QED
  BY <1>1, <1>2, SessionsNext, RequestsNext

\* No step but SetPassword and the ends of sessions touches any user, if it
\* leaves resets half done.
LEMMA SparesAll ==
    ASSUME UNCHANGED <<era, password>>, cut \subseteq cut',
           \A q \in Procs : pc[q] \in Unfinished =>
               \/ pc'[q] \in Unfinished /\ req'[q] = req[q]
               \/ req[q].user \in cut'
    PROVE  \A u : Spares(u)
BY DEF Spares, HalfReset, HalfResetNext

\* Links stay their users', and so do resets with theirs.
LEMMA LinksKeep ==
    ASSUME Inv, \A l \in Links : link'[l].user = link[l].user,
           \A q \in Procs : pc'[q] \in Resetting =>
               pc[q] \in Resetting /\ req'[q].link = req[q].link
    PROVE  LinkWasSent'
<1>1. ASSUME NEW q \in Procs, pc'[q] \in Resetting
      PROVE  link'[req'[q].link].user \in Users
  <2>1. pc[q] \in Resetting /\ req'[q].link = req[q].link /\ req[q].link \in Links
    BY <1>1 DEF Inv, TypeOK, Resetting
  <2> QED
    BY <2>1 DEF Inv, LinkWasSent
<1> QED
  BY <1>1 DEF LinkWasSent

-----------------------------------------------------------------------------
(* The steps the invariant is about, one by one.                            *)

\* A request for a session comes in: a login has just read the password, and
\* an exchange a token that is still good.
LEMMA AsksInv ==
    ASSUME Inv, TypeOK', NEW p \in Procs,
           \/ \E u \in Users, d \in Devices \cup {None} : Login(p, u, d)
           \/ \E t \in Tokens, d \in Devices \cup {None} : Refresh(p, t, d)
    PROVE  Inv'
<1>1. /\ pc[p] = "idle" /\ pc'[p] \in {"revoke old", "issue"}
      /\ \A q \in Procs : q # p => pc'[q] = pc[q] /\ req'[q] = req[q]
      /\ UNCHANGED <<token, era, password, cut, late, link>>
  BY DEF Login, Refresh, Begin, GoTo, Inv, TypeOK, accounts, codes, sessions
<1>2. \/ \E u \in Users :
            /\ pc'[p] = "issue" /\ req'[p].parent = None /\ req'[p].user = u
            /\ req'[p].secret = password[u] /\ req'[p].era = era[u]
      \/ \E t \in Tokens :
            /\ Live(t)
            /\ pc'[p] = "revoke old" /\ req'[p].parent = t
            /\ req'[p].user = token[t].user /\ req'[p].secret = token[t].secret
            /\ req'[p].era = token[t].era /\ req'[p].late = token[t].late
  <2>1. CASE \E u \in Users, d \in Devices \cup {None} : Login(p, u, d)
    <3>1. PICK u \in Users, d \in Devices \cup {None} : Login(p, u, d)
      BY <2>1
    <3> DEFINE r == [Nothing EXCEPT !.user = u, !.device = d,
                                    !.secret = password[u], !.era = era[u]]
    <3>2. pc' = [pc EXCEPT ![p] = "issue"] /\ req' = [req EXCEPT ![p] = r]
      BY <3>1 DEF Login, Begin, GoTo
    <3>3. /\ r.parent = None /\ r.user = u
          /\ r.secret = password[u] /\ r.era = era[u]
      BY DEF Nothing
    <3> HIDE DEF r
    <3>4. pc \in [Procs -> Labels] /\ req \in [Procs -> Requests]
      BY Parts DEF Inv, RequestsOK
    <3>5. pc'[p] = "issue" /\ req'[p] = r
      BY <3>2, <3>4
    <3> QED
      BY <3>3, <3>5
  <2>2. CASE \E t \in Tokens, d \in Devices \cup {None} : Refresh(p, t, d)
    <3>1. PICK t \in Tokens, d \in Devices \cup {None} : Refresh(p, t, d)
      BY <2>2
    <3> DEFINE r == [user |-> token[t].user, device |-> d, parent |-> t,
                     secret |-> token[t].secret, era |-> token[t].era,
                     late |-> token[t].late, link |-> None]
    <3>2. Live(t) /\ pc' = [pc EXCEPT ![p] = "revoke old"] /\ req' = [req EXCEPT ![p] = r]
      BY <3>1 DEF Refresh, Begin, GoTo
    <3>3. /\ r.parent = t /\ r.user = token[t].user /\ r.secret = token[t].secret
          /\ r.era = token[t].era /\ r.late = token[t].late
      OBVIOUS
    <3> HIDE DEF r
    <3>4. pc \in [Procs -> Labels] /\ req \in [Procs -> Requests]
      BY Parts DEF Inv, RequestsOK
    <3>5. pc'[p] = "revoke old" /\ req'[p] = r
      BY <3>2, <3>4
    <3> QED
      BY <3>2, <3>3, <3>5
  <2> QED
    BY <2>1, <2>2
<1>3. SpentIsRevoked'
  BY <1>1 DEF Inv, SpentIsRevoked
<1>4. Rotation'
  BY <1>1, <1>2 DEF Inv, Rotation, Live
<1>5. \A u : Spares(u)
  BY <1>1, SparesAll DEF Unfinished
<1>6. SessionsCurrent'
  <2>1. ASSUME NEW t \in Tokens, token'[t].state = "live", ~token'[t].late
        PROVE  CurrentNext(token'[t].user, token'[t].era, token'[t].secret)
    BY <1>1, <1>5, <2>1, StaysCurrent DEF Inv, SessionsCurrent, Live
  <2> QED
    BY <2>1, SessionsNext
<1>7. RequestsCurrent'
  <2>1. ASSUME NEW q \in Procs, pc'[q] \in {"revoke old", "issue"}, q \notin late', ~req'[q].late
        PROVE  CurrentNext(req'[q].user, req'[q].era, req'[q].secret)
    <3>1. CASE q # p
      BY <1>1, <1>5, <2>1, <3>1, StaysCurrent DEF Inv, RequestsCurrent
    <3>2. CASE q = p
      <4>1. Current(req'[p].user, req'[p].era, req'[p].secret)
        BY <1>2, <2>1, <3>2 DEF Current, Inv, SessionsCurrent
      <4> QED
        BY <1>5, <3>2, <4>1, StaysCurrent
    <3> QED
      BY <3>1, <3>2
  <2> QED
    BY <2>1, RequestsNext
<1>8. LinkWasSent'
  BY <1>1 DEF Inv, LinkWasSent, Resetting
<1> QED
  BY <1>3, <1>4, <1>6, <1>7, <1>8 DEF Inv

\* A reset comes in, with a link that was sent.
LEMMA ResetInv ==
    ASSUME Inv, TypeOK', NEW p \in Procs, NEW l \in Links, Reset(p, l)
    PROVE  Inv'
<1>1. /\ pc[p] = "idle" /\ pc'[p] = "set password" /\ req'[p].link = l
      /\ \A q \in Procs : q # p => pc'[q] = pc[q] /\ req'[q] = req[q]
      /\ UNCHANGED <<token, era, password, cut, late, link>>
  <2>1. /\ pc[p] = "idle" /\ pc' = [pc EXCEPT ![p] = "set password"]
        /\ req' = [req EXCEPT ![p] = [Nothing EXCEPT !.user = link[l].user, !.link = l]]
        /\ UNCHANGED <<accounts, link, sessions>>
    BY DEF Reset, Begin, GoTo
  <2>2. req'[p] = [Nothing EXCEPT !.user = link[l].user, !.link = l]
    BY <2>1 DEF Inv, TypeOK
  <2>3. req'[p].link = l
    BY <2>2 DEF Nothing
  <2> QED
    BY <2>1, <2>3 DEF Inv, TypeOK, accounts, sessions
<1>2. link[l].user \in Users
  <2>1. link[l].at # {}
    BY DEF Reset
  <2> QED
    BY <2>1 DEF Inv, TypeOK
<1>3. SpentIsRevoked' /\ Rotation'
  BY <1>1 DEF Inv, SpentIsRevoked, Rotation
<1>4. \A u : Spares(u)
  BY <1>1, SparesAll DEF Unfinished
<1>5. SessionsCurrent' /\ RequestsCurrent'
  <2>1. \A t \in Tokens : token'[t] = token[t]
    BY <1>1
  <2>2. \A q \in Procs : pc'[q] \in {"revoke old", "issue"} =>
            pc'[q] = pc[q] /\ req'[q] = req[q] /\ late' = late
    BY <1>1
  <2> QED
    BY <1>4, <2>1, <2>2, KeepsCurrent
<1>6. LinkWasSent'
  BY <1>1, <1>2 DEF Inv, LinkWasSent, Resetting
<1> QED
  BY <1>3, <1>5, <1>6 DEF Inv

\* The old token is revoked.
LEMMA RevokeOldInv ==
    ASSUME Inv, TypeOK', NEW p \in Procs, RevokeOld(p)
    PROVE  Inv'
<1> DEFINE k == req[p].parent
<1>0. TokensOK /\ k \in Tokens /\ token[k].state # "unused"
  BY Parts DEF Inv, TypeOK, Rotation, RevokeOld
<1>1. /\ pc[p] = "revoke old" /\ pc'[p] = "issue"
      /\ \A q \in Procs : q # p => pc'[q] = pc[q]
      /\ UNCHANGED <<req, era, password, cut, late, link>>
  BY DEF RevokeOld, GoTo, Inv, TypeOK, accounts, codes
<1>2. /\ token'[k].state = "revoked"
      /\ \A t \in Tokens :
           /\ t # k => token'[t] = token[t]
           /\ token'[t].user = token[t].user /\ token'[t].parent = token[t].parent
           /\ token'[t].secret = token[t].secret /\ token'[t].era = token[t].era
           /\ token'[t].late = token[t].late
  BY <1>0, EndsOne DEF RevokeOld
<1> HIDE DEF k
<1>3. TokensEnd
  BY <1>0, <1>2 DEF TokensEnd
<1>4. SpentIsRevoked'
  BY <1>3 DEF Inv, SpentIsRevoked, TokensEnd
<1>5. Rotation'
  <2>1. ASSUME NEW q \in Procs, pc'[q] = "revoke old"
        PROVE  token'[req'[q].parent].state # "unused"
    <3>1. pc[q] = "revoke old" /\ req'[q] = req[q] /\ req[q].parent \in Tokens
      BY <1>1, <2>1 DEF Inv, TypeOK
    <3> QED
      BY <1>3, <3>1 DEF Inv, Rotation, TokensEnd
  <2>2. ASSUME NEW q \in Procs, pc'[q] = "issue", req'[q].parent # None
        PROVE  token'[req'[q].parent].state \in {"revoked", "expired"}
    <3>1. CASE q = p
      BY <1>1, <1>2, <3>1 DEF k
    <3>2. CASE q # p
      <4>1. pc[q] = "issue" /\ req'[q] = req[q] /\ req[q].parent # None
        BY <1>1, <2>2, <3>2
      <4>2. req[q].parent \in Tokens
        BY <4>1 DEF Inv, TypeOK
      <4> QED
        BY <1>3, <4>1, <4>2 DEF Inv, Rotation, TokensEnd
    <3> QED
      BY <3>1, <3>2
  <2> QED
    BY <2>1, <2>2 DEF Rotation
<1>6. \A u : Spares(u)
  BY <1>1, SparesAll DEF Unfinished
<1>7. SessionsCurrent' /\ RequestsCurrent'
  <2>1. \A t \in Tokens : token'[t].state = "live" => token[t].state = "live"
    BY <1>2
  <2>2. \A q \in Procs : pc'[q] \in {"revoke old", "issue"} => pc[q] \in {"revoke old", "issue"}
    BY <1>1
  <2> QED
    BY <1>1, <1>2, <1>6, <2>1, <2>2, KeepsCurrent
<1>8. LinkWasSent'
  <2>1. \A q \in Procs : pc'[q] \in Resetting => pc'[q] = pc[q]
    BY <1>1 DEF Resetting
  <2> QED
    BY <1>1, <2>1, LinksKeep
<1> QED
  BY <1>4, <1>5, <1>7, <1>8 DEF Inv

\* The new token is issued.
LEMMA IssueInv ==
    ASSUME Inv, TypeOK', NEW p \in Procs, NEW k \in Tokens, Issue(p, k)
    PROVE  Inv'
<1>0. TokensOK /\ RequestsOK
  BY Parts DEF Inv
<1>1. /\ pc[p] = "issue" /\ pc'[p] \in {"find device", "idle"}
      /\ \A q \in Procs : q # p => pc'[q] = pc[q] /\ req'[q] = req[q]
      /\ \A q \in Procs : q # p => (q \in late' <=> q \in late)
      /\ UNCHANGED <<era, password, cut, link>>
  BY DEF Issue, Return, GoTo, Inv, TypeOK, accounts, codes
<1>2. /\ \A t \in Tokens : t # k => token'[t] = token[t]
      /\ token[k].state = "unused" /\ token'[k].state = "live"
      /\ token'[k].user = req[p].user /\ token'[k].parent = req[p].parent
      /\ token'[k].secret = req[p].secret /\ token'[k].era = req[p].era
      /\ token'[k].late = (req[p].late \/ p \in late)
  BY <1>0, Issues
<1>3. SpentIsRevoked'
  <2>1. ASSUME NEW t \in Tokens, NEW c \in Tokens, token'[c].parent = t
        PROVE  token'[t].state \in {"revoked", "expired"}
    <3>1. CASE c # k
      BY <1>2, <2>1, <3>1 DEF Inv, SpentIsRevoked
    <3>2. CASE c = k
      <4>1. req[p].parent = t /\ t # None
        BY <1>2, <2>1, <3>2, SessionsAssumption DEF SessionsAssumption
      <4>2. token[t].state \in {"revoked", "expired"}
        BY <1>1, <4>1 DEF Inv, Rotation
      <4> QED
        BY <1>2, <4>2
    <3> QED
      BY <3>1, <3>2
  <2> QED
    BY <2>1 DEF SpentIsRevoked
<1>4. Rotation'
  <2>1. \A q \in Procs : pc'[q] \in {"revoke old", "issue"} =>
            q # p /\ pc'[q] = pc[q] /\ req'[q] = req[q]
    BY <1>1
  <2>2. TokensEnd \/ \A t \in Tokens : token[t].state # "unused" => token'[t] = token[t]
    BY <1>2
  <2>3. ASSUME NEW q \in Procs, pc'[q] = "revoke old"
        PROVE  token'[req'[q].parent].state # "unused"
    <3>1. pc[q] = "revoke old" /\ req'[q] = req[q] /\ req[q].parent \in Tokens
      BY <2>1, <2>3 DEF Inv, TypeOK
    <3> QED
      BY <1>2, <3>1 DEF Inv, Rotation
  <2>4. ASSUME NEW q \in Procs, pc'[q] = "issue", req'[q].parent # None
        PROVE  token'[req'[q].parent].state \in {"revoked", "expired"}
    <3>1. pc[q] = "issue" /\ req'[q] = req[q] /\ req[q].parent # None
      BY <2>1, <2>4
    <3>2. req[q].parent \in Tokens
      BY <3>1 DEF Inv, TypeOK
    <3> QED
      BY <1>2, <3>1, <3>2 DEF Inv, Rotation
  <2> QED
    BY <2>3, <2>4 DEF Rotation
<1>5. \A u : Spares(u)
  <2>1. \A q \in Procs : pc[q] \in Unfinished => pc'[q] \in Unfinished /\ req'[q] = req[q]
    BY <1>1 DEF Unfinished
  <2> QED
    BY <1>1, <2>1, SparesAll
<1>6. SessionsCurrent'
  <2>1. ASSUME NEW t \in Tokens, token'[t].state = "live", ~token'[t].late
        PROVE  CurrentNext(token'[t].user, token'[t].era, token'[t].secret)
    <3>1. CASE t # k
      BY <1>2, <1>5, <2>1, <3>1, StaysCurrent DEF Inv, SessionsCurrent, Live
    <3>2. CASE t = k
      <4>1. p \notin late /\ ~req[p].late
        BY <1>2, <2>1, <3>2
      <4>2. Current(req[p].user, req[p].era, req[p].secret)
        BY <1>1, <4>1 DEF Inv, RequestsCurrent
      <4> QED
        BY <1>2, <1>5, <3>2, <4>2, StaysCurrent
    <3> QED
      BY <3>1, <3>2
  <2> QED
    BY <2>1, SessionsNext
<1>7. RequestsCurrent'
  <2>1. ASSUME NEW q \in Procs, pc'[q] \in {"revoke old", "issue"}, q \notin late', ~req'[q].late
        PROVE  CurrentNext(req'[q].user, req'[q].era, req'[q].secret)
    BY <1>1, <1>5, <2>1, StaysCurrent DEF Inv, RequestsCurrent
  <2> QED
    BY <2>1, RequestsNext
<1>8. LinkWasSent'
  <2>1. \A q \in Procs : pc'[q] \in Resetting => pc'[q] = pc[q] /\ req'[q] = req[q]
    BY <1>1 DEF Resetting
  <2> QED
    BY <1>1, <2>1, LinksKeep
<1> QED
  BY <1>3, <1>4, <1>6, <1>7, <1>8 DEF Inv

\* The password is set: all that is current is of a half done reset now.
LEMMA SetPasswordInv ==
    ASSUME Inv, TypeOK', NEW p \in Procs, SetPassword(p)
    PROVE  Inv'
<1> DEFINE v == req[p].user
<1>1. /\ pc[p] = "set password" /\ pc'[p] = "delete link" /\ v \in Users
      /\ \A q \in Procs : q # p => pc'[q] = pc[q]
      /\ UNCHANGED <<req, token, era, cut, late, link>>
  BY DEF SetPassword, GoTo, Inv, TypeOK, codes, sessions
<1>2. \A u : u # v => password'[u] = password[u] \/ u \notin Users
  BY DEF SetPassword, Inv, TypeOK
<1> HIDE DEF v
<1>3. SpentIsRevoked' /\ Rotation'
  BY <1>1 DEF Inv, SpentIsRevoked, Rotation
<1>4. ASSUME NEW u \in Users PROVE Spares(u)
  <2>1. HalfReset(u) => HalfResetNext(u)
    BY <1>1 DEF HalfReset, HalfResetNext, Unfinished
  <2>2. u = v => HalfResetNext(u)
    BY <1>1 DEF HalfResetNext, Unfinished, v
  <2> QED
    BY <1>1, <1>2, <1>4, <2>1, <2>2 DEF Spares
<1>5. SessionsCurrent' /\ RequestsCurrent'
  <2>1. \A t \in Tokens : token[t].state = "live" => token[t].user \in Users
    BY DEF Inv, TypeOK
  <2>2. \A q \in Procs : pc'[q] \in {"revoke old", "issue"} =>
            pc[q] \in {"revoke old", "issue"} /\ req[q].user \in Users
    BY <1>1 DEF Inv, TypeOK
  <2> QED
    BY <1>1, <1>4, <2>1, <2>2, KeepsCurrent
<1>6. LinkWasSent'
  <2>1. \A q \in Procs : pc'[q] \in Resetting => pc[q] \in Resetting
    BY <1>1 DEF Resetting
  <2> QED
    BY <1>1, <2>1, LinksKeep
<1> QED
  BY <1>3, <1>5, <1>6 DEF Inv

\* The link is deleted.
LEMMA DeleteLinkInv ==
    ASSUME Inv, TypeOK', NEW p \in Procs, DeleteLink(p)
    PROVE  Inv'
<1>1. /\ pc[p] = "delete link" /\ pc'[p] = "end sessions" /\ req[p].link \in Links
      /\ \A q \in Procs : q # p => pc'[q] = pc[q]
      /\ UNCHANGED <<req, token, era, password, cut, late>>
  BY DEF DeleteLink, GoTo, Inv, TypeOK, accounts, sessions
<1>2. \A k \in Links : link'[k].user = link[k].user
  BY <1>1, Unlinked, Parts DEF DeleteLink, Forgotten, Deleted, Inv
<1>3. SpentIsRevoked' /\ Rotation'
  BY <1>1 DEF Inv, SpentIsRevoked, Rotation
<1>4. \A u : Spares(u)
  BY <1>1, SparesAll DEF Unfinished
<1>5. SessionsCurrent' /\ RequestsCurrent'
  <2>1. \A q \in Procs : pc'[q] \in {"revoke old", "issue"} => pc[q] \in {"revoke old", "issue"}
    BY <1>1
  <2> QED
    BY <1>1, <1>4, <2>1, KeepsCurrent
<1>6. LinkWasSent'
  <2>1. ASSUME NEW q \in Procs, pc'[q] \in Resetting
        PROVE  req'[q].link = req[q].link /\ pc[q] \in Resetting
    BY <1>1, <2>1 DEF Resetting
  <2> QED
    BY <1>2, <2>1, LinksKeep
<1> QED
  BY <1>3, <1>5, <1>6 DEF Inv

\* A request of u fails: its reset, if half done, stays so.
LEMMA FailInv ==
    ASSUME Inv, TypeOK', NEW p \in Procs, Fail(p)
    PROVE  Inv'
<1>1. /\ pc'[p] = "idle" /\ late' = late \ {p}
      /\ \A q \in Procs : q # p => pc'[q] = pc[q] /\ req'[q] = req[q]
      /\ UNCHANGED <<token, era, password, link>>
      /\ cut' = IF pc[p] \in Unfinished THEN cut \cup {req[p].user} ELSE cut
  BY DEF Fail, Return, GoTo, Inv, TypeOK, accounts, codes
<1>2. \A u : Spares(u)
  <2>1. \A q \in Procs : pc[q] \in Unfinished =>
               \/ pc'[q] \in Unfinished /\ req'[q] = req[q]
               \/ req[q].user \in cut'
    BY <1>1
  <2> QED
    BY <1>1, <2>1, SparesAll
<1>3. \A q \in Procs : pc'[q] # "idle" =>
          pc'[q] = pc[q] /\ req'[q] = req[q] /\ (q \in late' <=> q \in late)
  BY <1>1
<1>4. SpentIsRevoked' /\ Rotation'
  BY <1>1, <1>3 DEF Inv, SpentIsRevoked, Rotation
<1>5. SessionsCurrent' /\ RequestsCurrent'
  BY <1>1, <1>2, <1>3, KeepsCurrent
<1>6. LinkWasSent'
  <2>1. \A q \in Procs : pc'[q] \in Resetting => pc'[q] = pc[q] /\ req'[q] = req[q]
    BY <1>3 DEF Resetting
  <2> QED
    BY <1>1, <2>1, LinksKeep
<1> QED
  BY <1>4, <1>5, <1>6 DEF Inv

\* Sessions of v end, some or all.  Requests that are under way are late, or
\* nothing has changed for them.
LEMMA EndInv ==
    ASSUME Inv, TypeOK', NEW v \in Users, NEW S, token' = Revoked(S),
           UNCHANGED <<password, link>>,
           \/ era' = era /\ late' = late /\ cut' = cut
           \/ /\ S = Of(v) /\ era' = [era EXCEPT ![v] = @ + 1] /\ era' # era
              /\ \A q \in UnderWay(v) : pc'[q] # "idle" => q \in late'
              /\ \A u : u # v /\ u \in cut => u \in cut',
           \A q \in Procs : \/ pc'[q] = pc[q] /\ req'[q] = req[q] /\ (q \in late => q \in late')
                            \/ /\ era' # era /\ pc'[q] = "idle"
                               /\ pc[q] \in Unfinished => req[q].user = v
    PROVE  Inv'
<1>0. TokensOK
  BY Parts DEF Inv
<1>1. \A t \in Tokens :
          /\ token'[t].state = IF t \in S /\ Live(t) THEN "revoked" ELSE token[t].state
          /\ token'[t].user = token[t].user /\ token'[t].parent = token[t].parent
          /\ token'[t].secret = token[t].secret /\ token'[t].era = token[t].era
          /\ token'[t].late = token[t].late
  BY <1>0, Ends
<1>2. TokensEnd
  BY <1>1 DEF TokensEnd, Live
<1>3. \A q \in Procs : pc'[q] # "idle" => pc'[q] = pc[q] /\ req'[q] = req[q]
  OBVIOUS
<1>4. SpentIsRevoked' /\ Rotation'
  BY <1>2, <1>3, EndRotation DEF Inv
<1>5. \A u \in Users : u # v => era'[u] = era[u]
  BY DEF Inv, TypeOK
<1>6. ASSUME NEW u \in Users, u # v \/ era' = era PROVE Spares(u)
  <2>1. era'[u] = era[u]
    BY <1>5, <1>6
  <2>2. HalfReset(u) => HalfResetNext(u)
    <3>1. u \in cut => u \in cut'
      BY <1>6
    <3>2. ASSUME NEW q \in Procs, pc[q] \in Unfinished, req[q].user = u
          PROVE  pc'[q] = pc[q] /\ req'[q] = req[q]
      BY <1>6, <3>2
    <3> QED
      BY <3>1, <3>2 DEF HalfReset, HalfResetNext
  <2> QED
    BY <2>1, <2>2 DEF Spares
<1>7. SessionsCurrent' /\ RequestsCurrent'
  <2>1. ASSUME NEW t \in Tokens, token'[t].state = "live", ~token'[t].late
        PROVE  token[t].state = "live" /\ ~token[t].late /\ Spares(token[t].user)
    <3>1. token[t].state = "live" /\ ~token[t].late /\ token[t].user \in Users
      BY <1>1, <2>1 DEF Inv, TypeOK, Live
    <3>2. token[t].user # v \/ era' = era
      BY <1>1, <2>1 DEF Of, Live
    <3> QED
      BY <1>6, <3>1, <3>2
  <2>2. ASSUME NEW q \in Procs, pc'[q] \in {"revoke old", "issue"}, q \notin late', ~req'[q].late
        PROVE  /\ pc[q] \in {"revoke old", "issue"} /\ q \notin late
               /\ req'[q] = req[q] /\ Spares(req[q].user)
    <3>1. /\ pc'[q] = pc[q] /\ req'[q] = req[q] /\ (q \in late => q \in late')
          /\ req[q].user \in Users
      BY <2>2 DEF Inv, TypeOK
    <3>2. req[q].user # v \/ era' = era
      BY <2>2, <3>1 DEF UnderWay
    <3> QED
      BY <1>6, <2>2, <3>1, <3>2
  <2> QED
    BY <1>1, <2>1, <2>2, KeepsCurrent
<1>8. LinkWasSent'
  <2>1. \A q \in Procs : pc'[q] \in Resetting => pc'[q] = pc[q] /\ req'[q] = req[q]
    BY <1>3 DEF Resetting
  <2> QED
    BY <2>1, LinksKeep
<1> QED
  BY <1>4, <1>7, <1>8 DEF Inv

\* A token expires.
LEMMA ExpireInv ==
    ASSUME Inv, TypeOK', NEW k \in Tokens, Expire(k)
    PROVE  Inv'
<1>0. TokensOK
  BY Parts DEF Inv
<1>1. UNCHANGED <<password, era, late, cut, link, pc, req>>
  BY DEF Expire, accounts, codes
<1>2. /\ token'[k].state = "expired" /\ token[k].state = "live"
      /\ \A t \in Tokens :
           /\ t # k => token'[t] = token[t]
           /\ token'[t].user = token[t].user /\ token'[t].parent = token[t].parent
           /\ token'[t].secret = token[t].secret /\ token'[t].era = token[t].era
           /\ token'[t].late = token[t].late
  BY <1>0, EndsOne DEF Expire, Live
<1>3. TokensEnd
  BY <1>2 DEF TokensEnd
<1>4. SpentIsRevoked' /\ Rotation'
  BY <1>1, <1>3, EndRotation DEF Inv
<1>5. \A u : Spares(u)
  BY <1>1, SparesAll
<1>6. SessionsCurrent' /\ RequestsCurrent'
  <2>1. \A t \in Tokens : token'[t].state = "live" => token[t].state = "live"
    BY <1>2
  <2> QED
    BY <1>1, <1>2, <1>5, <2>1, KeepsCurrent
<1>7. LinkWasSent'
  BY <1>1 DEF Inv, LinkWasSent
<1> QED
  BY <1>4, <1>6, <1>7 DEF Inv

-----------------------------------------------------------------------------
(* The theorems.                                                            *)

\* The inductive invariant holds at the start.
LEMMA InitInv == Init => Inv
<1> SUFFICES ASSUME Init PROVE Inv
  OBVIOUS
<1>1. \A t \in Tokens : token[t].parent = None /\ token[t].state = "unused"
  BY DEF Init, NoToken
<1>2. SpentIsRevoked
  BY <1>1, SessionsAssumption DEF SpentIsRevoked, SessionsAssumption
<1>3. Rotation /\ RequestsCurrent /\ LinkWasSent
  BY DEF Init, Rotation, RequestsCurrent, LinkWasSent, Resetting
<1>4. SessionsCurrent
  BY <1>1 DEF SessionsCurrent, Live
<1> QED
  BY <1>2, <1>3, <1>4, InitType DEF Inv

\* Every step preserves it.
LEMMA NextInv == Inv /\ [Next]_vars => Inv'
<1> SUFFICES ASSUME Inv, [Next]_vars PROVE Inv'
  OBVIOUS
<1>0. TypeOK'
  <2>1. CASE UNCHANGED vars
    BY <2>1 DEF vars, accounts, codes, sessions, Inv, TypeOK
  <2> QED
    BY <2>1, ArriveType, StepType, AtOnceType DEF Inv, Next
<1>1. CASE \E p \in Procs : Arrive(p)
  <2>1. PICK p \in Procs : Arrive(p)
    BY <1>1
  <2>2. CASE \E u \in Users : Register(p, u) \/ Verify(p, u)
    BY <1>0, <2>2, ArriveElsewhere, ElsewhereInv DEF Inv
  <2> QED
    BY <1>0, <2>1, <2>2, AsksInv, ResetInv DEF Arrive
<1>2. ASSUME NEW p \in Procs, Step(p) PROVE Inv'
  <2>1. CASE \/ InsertUser(p) \/ SendCode(p) \/ MarkVerified(p) \/ DeleteCode(p)
             \/ FindDevice(p) \/ Bind(p)
    BY <1>0, <2>1, StepElsewhere, ElsewhereInv DEF Inv
  <2>2. CASE RevokeAll(p)
    <3> DEFINE v == req[p].user
    <3>1. /\ v \in Users /\ pc[p] = "end sessions" /\ pc'[p] = "idle"
          /\ \A q \in Procs : q # p => pc'[q] = pc[q] /\ req'[q] = req[q]
          /\ token' = Revoked(Of(v)) /\ era' = [era EXCEPT ![v] = @ + 1]
          /\ late' = (late \cup UnderWay(v)) \ {p} /\ cut' = cut \ {v}
          /\ UNCHANGED <<password, link>>
      BY <2>2 DEF RevokeAll, EndSessions, GoTo, Inv, TypeOK, accounts, codes
    <3>2. era' # era
      <4>1. era \in [Users -> Nat]
        BY DEF Inv, TypeOK
      <4>2. era'[v] = era[v] + 1 /\ era[v] \in Nat
        BY <3>1, <4>1
      <4> QED
        BY <4>2
    <3> HIDE DEF v
    <3>3. p \notin UnderWay(v)
      BY <3>1 DEF UnderWay
    <3> QED
      BY <1>0, <3>1, <3>2, <3>3, EndInv DEF v
  <2> QED
    BY <1>0, <1>2, <2>1, <2>2, RevokeOldInv, IssueInv, SetPasswordInv, DeleteLinkInv,
       FailInv DEF Step
<1>3. CASE AtOnce
  <2>1. ASSUME NEW u \in Users, Logout(u) PROVE Inv'
    <3>1. /\ token' = Revoked(Of(u)) /\ era' = [era EXCEPT ![u] = @ + 1]
          /\ late' = late \cup UnderWay(u)
          /\ UNCHANGED <<password, cut, link, pc, req>>
      BY <2>1 DEF Logout, EndSessions, accounts, codes
    <3>2. era' # era
      <4>1. era \in [Users -> Nat]
        BY DEF Inv, TypeOK
      <4>2. era'[u] = era[u] + 1 /\ era[u] \in Nat
        BY <3>1, <4>1
      <4> QED
        BY <4>2
    <3> QED
      BY <1>0, <3>1, <3>2, EndInv
  <2>2. ASSUME NEW u \in Users, NEW d \in Devices, LogoutDevice(u, d) PROVE Inv'
    <3>1. /\ token' = Revoked({t \in Of(u) : token[t].device = d})
          /\ UNCHANGED <<password, era, late, cut, link, pc, req>>
      BY <2>2 DEF LogoutDevice, accounts, codes
    <3> QED
      BY <1>0, <3>1, EndInv
  <2> QED
    BY <1>0, <1>3, <2>1, <2>2, ExpireInv, AtOnceElsewhere, ElsewhereInv,
       SessionsAssumption DEF AtOnce, Inv
<1>4. CASE UNCHANGED vars
  BY <1>0, <1>4, AtOnceElsewhere, ElsewhereInv, SessionsAssumption DEF Inv
<1> QED
  BY <1>1, <1>2, <1>3, <1>4 DEF Next

\* So it always holds.
LEMMA Invariant == Spec => []Inv
BY InitInv, NextInv, PTL DEF Spec

\* Every variable keeps its type, and a request that is on its way has read
\* what it needs.
THEOREM TypeCorrect == Spec => []TypeOK
<1>1. Inv => TypeOK
  BY DEF Inv
<1> QED
  BY <1>1, Invariant, PTL

\* A token that was exchanged for another is spent, for any number of requests
\* that exchange it at once (auth.service.ts:204-214).
THEOREM RotationSpends == Spec => []SpentIsRevoked
<1>1. Inv => SpentIsRevoked
  BY DEF Inv
<1> QED
  BY <1>1, Invariant, PTL

\* A logout or a reset ends all sessions but those of requests that were under
\* way (auth.service.ts:225-239, 334-337).
THEOREM SessionsEnd == Spec => []EndedSessionsAreOver
<1>1. Inv => EndedSessionsAreOver
  BY DEF Inv, SessionsCurrent, Current, EndedSessionsAreOver
<1> QED
  BY <1>1, Invariant, PTL

\* No session of an old password survives a reset that came to its end
\* (auth.service.ts:318-340), again but for requests that were under way.
THEOREM OldPasswordEnds == Spec => []OldPasswordIsShutOut
<1>1. Inv => OldPasswordIsShutOut
  BY DEF Inv, SessionsCurrent, Current, HalfReset, OldPasswordIsShutOut
<1> QED
  BY <1>1, Invariant, PTL

-----------------------------------------------------------------------------
(* A used link is gone.  An invariant on top of the first one.              *)

\* A link is kept by one store, if not by both for an answer that was lost.
OneStore == \A l \in Links : link[l].at = Stores => l \in doubled

\* A reset that nothing has shaken finds its link where it has read it.
HeldHere ==
    \A p \in Holding \ shaken :
        req[p].link \notin doubled => link[req[p].link].at \subseteq {Store}

LinkInv == OneStore /\ HeldHere /\ UsedLinkIsGone

\* A reset goes on with its link, and has used it up when it comes to its last
\* statement.
ResetsGoOn ==
    \A q \in Procs : pc'[q] \in Resetting =>
        /\ pc[q] \in Resetting /\ req'[q].link = req[q].link
        /\ pc'[q] # "end sessions" => pc[q] # "end sessions"
        /\ pc'[q] = "end sessions" =>
              \/ pc[q] = "end sessions"
              \/ link'[req[q].link].at = {}
              \/ req[q].link \in doubled' \/ q \in shaken'

\* Links that were sent come into no other store, and a change of the store
\* shakes the resets that hold one.
LinksGo ==
    /\ \A l \in Links : link[l].user \in Users => link'[l].at \subseteq link[l].at
    /\ doubled \subseteq doubled' /\ shaken \subseteq shaken'
    /\ redis' = redis \/ Holding \subseteq shaken'

\* Such a step keeps the invariant.
LEMMA GoingKeeps ==
    ASSUME Inv, LinkInv, OneStore', LinksGo, ResetsGoOn
    PROVE  LinkInv'
<1>1. ASSUME NEW q \in Procs, pc'[q] \in Resetting
      PROVE  /\ req'[q].link = req[q].link /\ req[q].link \in Links
             /\ link'[req[q].link].at \subseteq link[req[q].link].at
  <2>1. pc[q] \in Resetting /\ req'[q].link = req[q].link
    BY <1>1 DEF ResetsGoOn
  <2>2. req[q].link \in Links /\ link[req[q].link].user \in Users
    BY <2>1 DEF Inv, TypeOK, LinkWasSent, Resetting
  <2> QED
    BY <2>1, <2>2 DEF LinksGo
<1>2. ASSUME NEW q \in Procs, pc'[q] \in {"set password", "delete link"},
             q \notin shaken', req'[q].link \notin doubled'
      PROVE  link'[req'[q].link].at \subseteq {Store'}
  <2>1. q \in Holding
    BY <1>2 DEF ResetsGoOn, Holding, Resetting
  <2>2. /\ req'[q].link = req[q].link
        /\ link'[req[q].link].at \subseteq link[req[q].link].at
    BY <1>1, <1>2 DEF Resetting
  <2>3. q \notin shaken /\ req[q].link \notin doubled /\ redis' = redis
    BY <1>2, <2>1, <2>2 DEF LinksGo
  <2>4. link[req[q].link].at \subseteq {Store}
    BY <2>1, <2>3 DEF LinkInv, HeldHere
  <2> QED
    BY <2>2, <2>3, <2>4 DEF Store
<1>3. HeldHere'
  BY <1>2 DEF HeldHere, Holding
<1>4. ASSUME NEW q \in Procs, pc'[q] = "end sessions"
      PROVE  link'[req'[q].link].at = {} \/ req'[q].link \in doubled' \/ q \in shaken'
  <2>1. CASE pc[q] = "end sessions"
    <3>1. link[req[q].link].at = {} \/ req[q].link \in doubled \/ q \in shaken
      BY <2>1 DEF LinkInv, UsedLinkIsGone
    <3> QED
      BY <1>1, <1>4, <3>1 DEF LinksGo, Resetting
  <2>2. CASE pc[q] # "end sessions"
    BY <1>1, <1>4, <2>2 DEF ResetsGoOn, Resetting
  <2> QED
    BY <2>1, <2>2
<1>5. UsedLinkIsGone'
  BY <1>4 DEF UsedLinkIsGone
<1> QED
  BY <1>3, <1>5 DEF LinkInv

\* Steps that no link is touched by.
LEMMA StayingKeeps ==
    ASSUME Inv, LinkInv, ResetsGoOn, UNCHANGED <<link, redis, doubled, shaken>>
    PROVE  LinkInv'
<1>1. OneStore' /\ LinksGo
  BY DEF LinkInv, OneStore, LinksGo
<1> QED
  BY <1>1, GoingKeeps

\* No reset is touched by what others do.
LEMMA ResetsStay ==
    ASSUME \A q \in Procs : pc'[q] \in Resetting => pc'[q] = pc[q] /\ req'[q] = req[q]
    PROVE  ResetsGoOn
BY DEF ResetsGoOn

\* The reset begins: it has found its link in the store that answers, or is
\* shaken already.
LEMMA ResetLink ==
    ASSUME Inv, LinkInv, NEW p \in Procs, NEW l \in Links, Reset(p, l)
    PROVE  LinkInv'
<1>1. /\ pc'[p] = "set password" /\ req'[p].link = l
      /\ \A q \in Procs : q # p => pc'[q] = pc[q] /\ req'[q] = req[q]
      /\ UNCHANGED <<link, redis, doubled>>
  <2> DEFINE r == [Nothing EXCEPT !.user = link[l].user, !.link = l]
  <2>1. /\ pc' = [pc EXCEPT ![p] = "set password"] /\ req' = [req EXCEPT ![p] = r]
        /\ UNCHANGED <<link, redis, doubled>>
    BY DEF Reset, Begin, GoTo
  <2>2. r.link = l
    BY DEF Nothing
  <2> HIDE DEF r
  <2> QED
    BY <2>1, <2>2 DEF Inv, TypeOK
<1>2. PICK s \in link[l].at : shaken' = IF s = Store THEN shaken \ {p} ELSE shaken \cup {p}
  BY DEF Reset
<1>3. OneStore'
  BY <1>1 DEF LinkInv, OneStore
<1>4. ASSUME NEW q \in Procs, pc'[q] \in {"set password", "delete link"},
             q \notin shaken', req'[q].link \notin doubled'
      PROVE  link'[req'[q].link].at \subseteq {Store'}
  <2>1. CASE q = p
    <3>1. s = Store /\ l \notin doubled
      BY <1>1, <1>2, <1>4, <2>1
    <3>2. link[l].at \subseteq Stores /\ link[l].at # Stores
      BY <3>1 DEF Inv, TypeOK, LinkInv, OneStore
    <3>3. link[l].at \subseteq {Store}
      BY <3>1, <3>2 DEF Stores, Store
    <3> QED
      BY <1>1, <2>1, <3>3 DEF Store
  <2>2. CASE q # p
    <3>1. q \in Holding \ shaken /\ req[q].link \notin doubled
      BY <1>1, <1>2, <1>4, <2>2 DEF Holding
    <3> QED
      BY <1>1, <2>2, <3>1 DEF LinkInv, HeldHere, Store
  <2> QED
    BY <2>1, <2>2
<1>5. HeldHere'
  BY <1>4 DEF HeldHere, Holding
<1>6. UsedLinkIsGone'
  BY <1>1, <1>2 DEF LinkInv, UsedLinkIsGone
<1> QED
  BY <1>3, <1>5, <1>6 DEF LinkInv

\* The reset deletes it there, or is shaken now.
LEMMA DeleteLinkLink ==
    ASSUME Inv, LinkInv, NEW p \in Procs, DeleteLink(p)
    PROVE  LinkInv'
<1> DEFINE l == req[p].link
<1>1. /\ pc[p] = "delete link" /\ pc'[p] = "end sessions" /\ l \in Links
      /\ \A q \in Procs : q # p => pc'[q] = pc[q]
      /\ UNCHANGED <<req, redis, doubled>>
  BY DEF DeleteLink, Forgotten, GoTo, Inv, TypeOK
<1>2. PICK S \in SUBSET Stores :
          /\ Deleted(l, S)
          /\ shaken' = IF S = {Store} THEN shaken ELSE shaken \cup {p}
  BY DEF DeleteLink, Forgotten
<1>3. /\ \A k \in Links : link'[k].at \subseteq link[k].at
      /\ link'[l].at = link[l].at \ S
  <2> DEFINE x == [link[l] EXCEPT !.at = @ \ S]
  <2>1. x.at = link[l].at \ S
    BY <1>1, Without, Parts DEF Inv
  <2>2. link' = [link EXCEPT ![l] = x]
    BY <1>2 DEF Deleted
  <2> HIDE DEF x, l
  <2>3. \A k \in Links : link'[k] = IF k = l THEN x ELSE link[k]
    BY <2>2 DEF Inv, TypeOK
  <2> QED
    BY <1>1, <2>1, <2>3
<1>4. link'[l].at = {} \/ l \in doubled' \/ p \in shaken'
  <2>1. CASE p \in shaken \/ l \in doubled \/ S # {Store}
    BY <1>1, <1>2, <2>1
  <2>2. CASE p \notin shaken /\ l \notin doubled /\ S = {Store}
    <3>1. link[l].at \subseteq {Store}
      BY <1>1, <2>2 DEF LinkInv, HeldHere, Holding
    <3> QED
      BY <1>3, <2>2, <3>1
  <2> QED
    BY <2>1, <2>2
<1> HIDE DEF l
<1>5. ResetsGoOn
  BY <1>1, <1>4 DEF ResetsGoOn, Resetting, l
<1>6. LinksGo
  BY <1>1, <1>2, <1>3 DEF LinksGo
<1>7. OneStore'
  <2>1. ASSUME NEW k \in Links, link'[k].at = Stores PROVE link[k].at = Stores
    <3>1. link[k].at \subseteq Stores /\ link'[k].at \subseteq link[k].at
      BY <1>3 DEF Inv, TypeOK
    <3> QED
      BY <2>1, <3>1
  <2> QED
    BY <1>1, <2>1 DEF LinkInv, OneStore
<1> QED
  BY <1>5, <1>6, <1>7, GoingKeeps

\* A link is sent.
LEMMA ForgotLink ==
    ASSUME Inv, LinkInv, NEW u \in Users, NEW l \in Links, Forgot(u, l)
    PROVE  LinkInv'
<1>1. PICK S \in SUBSET Stores :
          /\ link' = [link EXCEPT ![l] = [user |-> u, at |-> S]]
          /\ doubled' = IF S = Stores THEN doubled \cup {l} ELSE doubled
  BY DEF Forgot
<1>2. link[l] = NoLink /\ UNCHANGED <<pc, req, redis, shaken>>
  BY DEF Forgot
<1>3. link'[l].at = S /\ \A k \in Links : k # l => link'[k] = link[k]
  BY <1>1 DEF Inv, TypeOK
<1>4. OneStore'
  BY <1>1, <1>3 DEF LinkInv, OneStore
<1>5. LinksGo
  <2>1. link[l].user \notin Users
    BY <1>2, SessionsAssumption DEF NoLink, SessionsAssumption
  <2> QED
    BY <1>1, <1>2, <1>3, <2>1 DEF LinksGo
<1>6. ResetsGoOn
  BY <1>2, ResetsStay
<1> QED
  BY <1>4, <1>5, <1>6, GoingKeeps

\* A link expires, the server starts again, or the store changes.
LEMMA LossLink ==
    ASSUME Inv, LinkInv,
           Flip \/ Restart \/ \E l \in Links, s \in Stores : ExpireLink(l, s)
    PROVE  LinkInv'
<1>1. /\ UNCHANGED <<pc, req, doubled>> /\ shaken \subseteq shaken'
      /\ redis' = redis \/ Holding \subseteq shaken'
      /\ \/ UNCHANGED link
         \/ \E S : \/ \E l \in Links : link' = [link EXCEPT ![l].at = @ \ S]
                  \/ link' = [l \in Links |-> [link[l] EXCEPT !.at = @ \ S]]
  BY DEF Flip, Restart, ExpireLink
<1>2. ASSUME NEW l \in Links PROVE link'[l].at \subseteq link[l].at
  <2>1. CASE UNCHANGED link
    BY <2>1
  <2>2. ASSUME NEW S, \/ \E k \in Links : link' = [link EXCEPT ![k].at = @ \ S]
                      \/ link' = [k \in Links |-> [link[k] EXCEPT !.at = @ \ S]]
        PROVE  link'[l].at \subseteq link[l].at
    <3>1. link'[l].at \in {link[l].at, link[l].at \ S}
      BY <2>2, Unlinked, Parts DEF Inv
    <3> QED
      BY <3>1
  <2> QED
    BY <1>1, <2>1, <2>2
<1>3. OneStore'
  <2>1. ASSUME NEW k \in Links, link'[k].at = Stores PROVE link[k].at = Stores
    <3>1. link[k].at \subseteq Stores /\ link'[k].at \subseteq link[k].at
      BY <1>2 DEF Inv, TypeOK
    <3> QED
      BY <2>1, <3>1
  <2> QED
    BY <1>1, <2>1 DEF LinkInv, OneStore
<1>4. LinksGo
  BY <1>1, <1>2 DEF LinksGo
<1>5. ResetsGoOn
  BY <1>1, ResetsStay
<1> QED
  BY <1>3, <1>4, <1>5, GoingKeeps

\* Every step keeps the invariant.
LEMMA StepLink == Inv /\ LinkInv /\ [Next]_vars => LinkInv'
<1> SUFFICES ASSUME Inv, LinkInv, [Next]_vars PROVE LinkInv'
  OBVIOUS
<1>0. pc \in [Procs -> Labels] /\ req \in [Procs -> Requests]
  BY Parts DEF Inv, RequestsOK
<1>1. ASSUME NEW p \in Procs, Arrive(p) PROVE LinkInv'
  <2>1. CASE \E l \in Links : Reset(p, l)
    BY <2>1, ResetLink
  <2>2. CASE ~\E l \in Links : Reset(p, l)
    <3>1. /\ UNCHANGED <<link, redis, doubled, shaken>>
          /\ \E r : \E label \in Labels \ Resetting : Begin(p, r, label)
      BY <1>1, <2>2 DEF Arrive, Register, Verify, Login, Refresh, codes, Labels, Resetting
    <3>2. ResetsGoOn
      BY <1>0, <3>1, ResetsStay DEF Begin, GoTo
    <3> QED
      BY <3>1, <3>2, StayingKeeps
  <2> QED
    BY <2>1, <2>2
<1>2. ASSUME NEW p \in Procs, Step(p), ~DeleteLink(p) PROVE LinkInv'
  <2>1. /\ UNCHANGED <<link, redis, doubled, shaken>>
        /\ \/ \E label \in Labels \ Resetting : GoTo(p, label)
           \/ SetPassword(p)
        /\ \A q \in Procs \ {p} : req'[q] = req[q]
    <3>1. "idle" \in Labels \ Resetting
      BY DEF Labels, Resetting
    <3>2. CASE \/ InsertUser(p) \/ SendCode(p) \/ MarkVerified(p) \/ DeleteCode(p)
               \/ FindDevice(p) \/ Bind(p)
      BY <1>0, <3>1, <3>2
         DEF InsertUser, SendCode, MarkVerified, DeleteCode, FindDevice, Bind,
             Return, GoTo, codes, Labels, Resetting
    <3>3. CASE RevokeOld(p) \/ (\E t \in Tokens : Issue(p, t)) \/ RevokeAll(p) \/ Fail(p)
      BY <1>0, <3>1, <3>3
         DEF RevokeOld, Issue, RevokeAll, Fail, Return, GoTo, codes, Labels, Resetting
    <3>4. CASE SetPassword(p)
      BY <3>4 DEF SetPassword, codes
    <3> QED
      BY <1>2, <3>2, <3>3, <3>4 DEF Step
  <2>2. ResetsGoOn
    <3>1. CASE \E label \in Labels \ Resetting : GoTo(p, label)
      BY <1>0, <2>1, <3>1, ResetsStay DEF GoTo
    <3>2. CASE SetPassword(p)
      BY <1>0, <3>2 DEF SetPassword, GoTo, ResetsGoOn, Resetting
    <3> QED
      BY <2>1, <3>1, <3>2
  <2> QED
    BY <2>1, <2>2, StayingKeeps
<1>3. CASE AtOnce \/ UNCHANGED vars
  <2>1. CASE \/ \E u \in Users, l \in Links : Forgot(u, l)
             \/ Flip \/ Restart \/ \E l \in Links, s \in Stores : ExpireLink(l, s)
    BY <2>1, ForgotLink, LossLink
  <2>2. CASE UNCHANGED <<link, redis, doubled, shaken, pc, req>>
    BY <2>2, ResetsStay, StayingKeeps
  <2> QED
    BY <1>3, <2>1, <2>2
       DEF AtOnce, AskCode, Logout, Ban, LogoutDevice, Expire, ExpireCode, vars, codes
<1> QED
  BY <1>1, <1>2, <1>3, DeleteLinkLink DEF Next

\* A reset link is gone when its reset has deleted it (auth.service.ts:331),
\* for any number of links and resets, unless both stores were given it or
\* the store changed between the kvGet and the kvDel (auth.service.ts:53-110).
THEOREM LinkIsUsedUp == Spec => []UsedLinkIsGone
<1>1. Init => LinkInv
  <2>1. Init => \A l \in Links : link[l].at = {}
    BY DEF Init, NoLink
  <2>2. Init => \A p \in Procs : pc[p] = "idle"
    BY DEF Init
  <2>3. {} # Stores
    BY DEF Stores
  <2> QED
    BY <2>1, <2>2, <2>3 DEF LinkInv, OneStore, HeldHere, Holding, UsedLinkIsGone
<1>2. LinkInv => UsedLinkIsGone
  BY DEF LinkInv
<1> QED
  BY <1>1, <1>2, StepLink, Invariant, PTL DEF Spec

-----------------------------------------------------------------------------
(* What was spent is not taken up again.                                    *)

Spent(t) == token[t].state \in {"revoked", "expired"}

\* The requests that have found t unspent, and the tokens it was exchanged for.
Exchanging(t) == {p \in Procs : pc[p] \in {"revoke old", "issue"} /\ req[p].parent = t}
Exchanged(t) == {c \in Tokens : token[c].state # "unused" /\ token[c].parent = t}

\* What may become of a token that is spent: no request takes it up any more,
\* and it is exchanged only by those that had found it unspent, for one new
\* token each at most.
StaysSpent(t) ==
    /\ Spent(t)'
    /\ \/ Exchanged(t)' = Exchanged(t) /\ Exchanging(t)' \subseteq Exchanging(t)
       \/ \E p \in Exchanging(t), c \in Tokens \ Exchanged(t) :
            /\ Exchanged(t)' = Exchanged(t) \cup {c}
            /\ Exchanging(t)' = Exchanging(t) \ {p}

\* Rotation lets a token be used twice only at once (auth.service.ts:190-214):
\* nothing brings a spent token back, and what it can still be exchanged for is
\* limited by the requests that were under way when it was spent.
SpentIsNotTakenUp == [][\A t \in Tokens : Spent(t) => StaysSpent(t)]_vars

\* Steps that issue no token: none changes hands, none comes back.
TokensGoOn ==
    \A t \in Tokens :
        /\ token'[t].parent = token[t].parent
        /\ token'[t].state = "unused" <=> token[t].state = "unused"
        /\ Spent(t) => token'[t].state \in {"revoked", "expired"}

\* ... and whoever exchanges a token did so before, or has just found it live.
RequestsGoOn ==
    \A q \in Procs : pc'[q] \in {"revoke old", "issue"} =>
        \/ pc[q] \in {"revoke old", "issue"} /\ req'[q] = req[q]
        \/ req'[q].parent \in Tokens => Live(req'[q].parent)

\* Such a step leaves a spent token spent.
LEMMA GoesOn ==
    ASSUME TokensGoOn, RequestsGoOn, NEW t \in Tokens, Spent(t)
    PROVE  StaysSpent(t)
<1>1. Spent(t)' /\ Exchanged(t)' = Exchanged(t)
  BY DEF TokensGoOn, Spent, Exchanged
<1>2. ~Live(t)
  BY DEF Live, Spent
<1>3. Exchanging(t)' \subseteq Exchanging(t)
  BY <1>2 DEF RequestsGoOn, Exchanging
<1> QED
  BY <1>1, <1>3 DEF StaysSpent

\* A new token of t comes from a request that exchanged t, and is done with it.
LEMMA IssuesOne ==
    ASSUME Inv, NEW p \in Procs, NEW k \in Tokens, Issue(p, k),
           NEW t \in Tokens, Spent(t)
    PROVE  StaysSpent(t)
<1>0. TokensOK /\ RequestsOK /\ pc[p] = "issue"
  BY Parts DEF Inv, Issue
<1>1. /\ \A u \in Tokens : u # k => token'[u] = token[u]
      /\ token[k].state = "unused" /\ token'[k].state = "live"
      /\ token'[k].parent = req[p].parent
  BY <1>0, Issues
<1>2. /\ pc'[p] \in {"find device", "idle"}
      /\ \A q \in Procs : q # p => pc'[q] = pc[q] /\ req'[q] = req[q]
  BY DEF Issue, Return, GoTo, Inv, TypeOK
<1>3. Spent(t)'
  BY <1>1 DEF Spent
<1>4. Exchanging(t)' = Exchanging(t) \ {p}
  BY <1>2 DEF Exchanging
<1>5. CASE req[p].parent = t
  <2>1. p \in Exchanging(t) /\ k \in Tokens \ Exchanged(t)
    BY <1>0, <1>1, <1>5 DEF Exchanging, Exchanged
  <2>2. Exchanged(t)' = Exchanged(t) \cup {k}
    BY <1>1, <1>5 DEF Exchanged
  <2> QED
    BY <1>3, <1>4, <2>1, <2>2 DEF StaysSpent
<1>6. CASE req[p].parent # t
  <2>1. Exchanged(t)' = Exchanged(t)
    BY <1>1, <1>6 DEF Exchanged
  <2> QED
    BY <1>3, <1>4, <2>1 DEF StaysSpent
<1> QED
  BY <1>5, <1>6

\* A step that is about neither tokens nor the requests for them.
LEMMA ElsewhereGoesOn == Elsewhere => TokensGoOn /\ RequestsGoOn
BY DEF Elsewhere, TokensGoOn, RequestsGoOn, Spent, Working

\* The statements that end sessions spend tokens.
LEMMA EndsGoesOn ==
    ASSUME TokensOK, NEW S, token' = Revoked(S)
    PROVE  TokensGoOn
BY Ends DEF TokensGoOn, Spent, Live

\* So does the one that spends, or the end of, a single token.
LEMMA EndsOneGoesOn ==
    ASSUME TokensOK, NEW k \in Tokens, token[k].state # "unused",
           NEW s \in {"revoked", "expired"}, token' = [token EXCEPT ![k].state = s]
    PROVE  TokensGoOn
BY EndsOne DEF TokensGoOn, Spent

\* A request that comes in for a session logs in, or has found its token live.
LEMMA ArriveGoesOn ==
    ASSUME Inv, NEW p \in Procs, Arrive(p)
    PROVE  TokensGoOn /\ RequestsGoOn
<1>1. CASE \E u \in Users : Register(p, u) \/ Verify(p, u)
  BY <1>1, ArriveElsewhere, ElsewhereGoesOn DEF Inv
<1>2. UNCHANGED token
  BY DEF Arrive, Register, Verify, Login, Refresh, Reset, sessions
<1>3. TokensGoOn
  BY <1>2 DEF TokensGoOn, Spent
<1>4. ASSUME NEW r, NEW label, Begin(p, r, label),
             label \in {"revoke old", "issue"} => (r.parent \in Tokens => Live(r.parent))
      PROVE  RequestsGoOn
  BY <1>4 DEF Begin, GoTo, RequestsGoOn, Inv, TypeOK
<1>5. ASSUME NEW u \in Users, NEW d \in Devices \cup {None}, Login(p, u, d)
      PROVE  RequestsGoOn
  <2> DEFINE r == [Nothing EXCEPT !.user = u, !.device = d,
                                  !.secret = password[u], !.era = era[u]]
  <2>1. Begin(p, r, "issue")
    BY <1>5 DEF Login
  <2>2. r.parent = None
    BY DEF Nothing
  <2> HIDE DEF r
  <2> QED
    BY <1>4, <2>1, <2>2, SessionsAssumption
<1>6. ASSUME NEW t \in Tokens, NEW d \in Devices \cup {None}, Refresh(p, t, d)
      PROVE  RequestsGoOn
  <2> DEFINE r == [user |-> token[t].user, device |-> d, parent |-> t,
                   secret |-> token[t].secret, era |-> token[t].era,
                   late |-> token[t].late, link |-> None]
  <2>1. Live(t) /\ Begin(p, r, "revoke old")
    BY <1>6 DEF Refresh
  <2>2. r.parent = t
    OBVIOUS
  <2> HIDE DEF r
  <2> QED
    BY <1>4, <2>1, <2>2
<1>7. ASSUME NEW l \in Links, Reset(p, l)
      PROVE  RequestsGoOn
  <2>1. \E r : Begin(p, r, "set password")
    BY <1>7 DEF Reset
  <2> QED
    BY <1>4, <2>1
<1> QED
  BY <1>1, <1>3, <1>5, <1>6, <1>7 DEF Arrive

\* No step brings a spent token back.
LEMMA SpentStep ==
    ASSUME Inv, [Next]_vars, NEW t \in Tokens, Spent(t)
    PROVE  StaysSpent(t)
<1>0. TokensOK /\ TypeOK
  BY Parts DEF Inv
<1>1. ASSUME NEW p \in Procs, Arrive(p) PROVE StaysSpent(t)
  BY <1>1, ArriveGoesOn, GoesOn
<1>2. ASSUME NEW p \in Procs, RevokeOld(p) PROVE StaysSpent(t)
  <2> DEFINE k == req[p].parent
  <2>1. k \in Tokens /\ token[k].state # "unused"
    BY <1>2 DEF Inv, TypeOK, Rotation, RevokeOld
  <2>2. token' = [token EXCEPT ![k].state = "revoked"]
    BY <1>2 DEF RevokeOld
  <2>3. RequestsGoOn
    BY <1>0, <1>2 DEF RevokeOld, GoTo, RequestsGoOn, TypeOK
  <2> HIDE DEF k
  <2> QED
    BY <1>0, <2>1, <2>2, <2>3, EndsOneGoesOn, GoesOn
<1>3. ASSUME NEW p \in Procs, SetPassword(p) \/ DeleteLink(p) \/ Fail(p)
      PROVE  StaysSpent(t)
  <2>1. /\ UNCHANGED token
        /\ \/ UNCHANGED req /\ \E label \in {"delete link", "end sessions"} : GoTo(p, label)
           \/ Return(p)
    BY <1>3 DEF SetPassword, DeleteLink, Fail, sessions
  <2>2. TokensGoOn
    BY <2>1 DEF TokensGoOn, Spent
  <2>3. RequestsGoOn
    BY <1>0, <2>1 DEF RequestsGoOn, GoTo, Return, TypeOK
  <2> QED
    BY <2>2, <2>3, GoesOn
<1>4. ASSUME NEW p \in Procs, RevokeAll(p) PROVE StaysSpent(t)
  <2>1. TokensGoOn
    BY <1>0, <1>4, EndsGoesOn DEF RevokeAll, EndSessions
  <2>2. RequestsGoOn
    BY <1>0, <1>4 DEF RevokeAll, GoTo, RequestsGoOn, TypeOK
  <2> QED
    BY <2>1, <2>2, GoesOn
<1>5. ASSUME NEW p \in Procs, Step(p) PROVE StaysSpent(t)
  <2>1. CASE \/ InsertUser(p) \/ SendCode(p) \/ MarkVerified(p) \/ DeleteCode(p)
             \/ FindDevice(p) \/ Bind(p)
    BY <1>0, <2>1, StepElsewhere, ElsewhereGoesOn, GoesOn
  <2> QED
    BY <1>2, <1>3, <1>4, <1>5, <2>1, IssuesOne DEF Step
<1>6. CASE AtOnce
  <2>1. ASSUME UNCHANGED <<pc, req>> PROVE RequestsGoOn
    BY <2>1 DEF RequestsGoOn
  <2>2. ASSUME NEW u \in Users, Logout(u) PROVE StaysSpent(t)
    BY <1>0, <2>1, <2>2, EndsGoesOn, GoesOn DEF Logout, EndSessions
  <2>3. ASSUME NEW u \in Users, NEW d \in Devices, LogoutDevice(u, d)
        PROVE  StaysSpent(t)
    BY <1>0, <2>1, <2>3, EndsGoesOn, GoesOn DEF LogoutDevice
  <2>4. ASSUME NEW k \in Tokens, Expire(k) PROVE StaysSpent(t)
    <3>1. token[k].state # "unused" /\ token' = [token EXCEPT ![k].state = "expired"]
      BY <2>4 DEF Expire, Live
    <3> QED
      BY <1>0, <2>1, <2>4, <3>1, EndsOneGoesOn, GoesOn DEF Expire
  <2> QED
    BY <1>0, <1>6, <2>2, <2>3, <2>4, AtOnceElsewhere, ElsewhereGoesOn, GoesOn,
       SessionsAssumption DEF AtOnce
<1>7. CASE UNCHANGED vars
  BY <1>0, <1>7, AtOnceElsewhere, ElsewhereGoesOn, GoesOn, SessionsAssumption
<1> QED
  BY <1>1, <1>5, <1>6, <1>7 DEF Next

\* A spent token is never taken up again, and only the requests that were
\* exchanging it when it was spent still get a token for it, one each.
THEOREM SpentTokensStaySpent == Spec => SpentIsNotTakenUp
<1>1. Inv /\ [Next]_vars => [\A t \in Tokens : Spent(t) => StaysSpent(t)]_vars
  BY SpentStep
<1> QED
  BY <1>1, Invariant, PTL DEF Spec, SpentIsNotTakenUp
=============================================================================
