------------------------------ MODULE Sessions ------------------------------
(***************************************************************************)
(* Accounts and sessions (tokenfusionserver, modules/auth and modules/user): *)
(* registration, login, the rotation of refresh tokens, logout, the codes   *)
(* and links sent by email, password reset and bans.                        *)
(*                                                                          *)
(* One action is one statement on the database or one call to the store of  *)
(* codes; between two of them other requests run.  A request that is        *)
(* refused by what it reads first changes nothing and is not a step.        *)
(***************************************************************************)
EXTENDS Naturals, FiniteSets

CONSTANTS
    Users,     \* email addresses, and the accounts made for them
    Members,   \* those that have an account at the start
    Devices,   \* device ids
    Tokens,    \* refresh tokens that can be issued
    Links,     \* password reset links that can be sent
    Procs,     \* requests in flight
    None,
    MaxCalls,  \* bound on the requests made
    MaxFlips   \* bound on the times Redis is lost, comes back, or does not
               \* answer a call

ASSUME SessionsAssumption ==
    /\ Members \subseteq Users
    /\ None \notin Users \cup Devices \cup Tokens \cup Links
    /\ MaxCalls \in Nat /\ MaxFlips \in Nat

VARIABLES
    status,    \* users.status; "absent": there is no row
    password,  \* users.password_hash: which of the user's passwords it is of
    verified,  \* users.email_verified
    token,     \* refresh_tokens
    device,    \* device_binds: the user each device is bound to
    link,      \* reset:<token>: whose it is, and which stores hold it
    code,      \* verify:<email>: the stores that hold a code for the address
    redis,     \* Redis answers
    pc,        \* the next statement of each request
    req,       \* what each request has read
    calls, flips,
    \* auxiliary:
    era,       \* how often all sessions of a user were ended
    late,      \* requests that were under way when that happened
    cut,       \* users whose password reset died before it ended the sessions
    doubled,   \* links that both stores were given, as Redis took the SET and
               \* its answer was lost
    shaken     \* resets between whose kvGet and kvDel Redis was lost or came
               \* back, or left one of the two unanswered

accounts == <<status, password, verified>>
codes == <<link, code, redis, flips, doubled, shaken>>
sessions == <<token, device, era, late, cut>>
vars == <<accounts, codes, sessions, pc, req, calls>>

Stores == {"redis", "memory"}

NoToken == [state |-> "unused", user |-> None, device |-> None, parent |-> None,
            secret |-> 0, era |-> 0, late |-> FALSE]
NoLink == [user |-> None, at |-> {}]
Nothing == [user |-> None, device |-> None, parent |-> None, secret |-> 0,
            era |-> 0, late |-> FALSE, link |-> None]

Init ==
    /\ status = [u \in Users |-> IF u \in Members THEN "active" ELSE "absent"]
    /\ password = [u \in Users |-> 0]
    /\ verified = [u \in Users |-> FALSE]
    /\ token = [t \in Tokens |-> NoToken]
    /\ device = [d \in Devices |-> None]
    /\ link = [l \in Links |-> NoLink]
    /\ code = [u \in Users |-> {}]
    /\ redis = TRUE
    /\ pc = [p \in Procs |-> "idle"]
    /\ req = [p \in Procs |-> Nothing]
    /\ calls = 0 /\ flips = 0
    /\ era = [u \in Users |-> 0]
    /\ late = {} /\ cut = {} /\ doubled = {} /\ shaken = {}

Live(t) == token[t].state = "live"

GoTo(p, label) == pc' = [pc EXCEPT ![p] = label]

\* A request comes in.
Called == calls < MaxCalls /\ calls' = calls + 1

\* It is taken up by p, which has read r and goes on at label.
Begin(p, r, label) ==
    /\ pc[p] = "idle"
    /\ Called
    /\ req' = [req EXCEPT ![p] = r]
    /\ GoTo(p, label)

\* p answers, or throws; its local variables are gone.
Return(p) ==
    /\ GoTo(p, "idle")
    /\ req' = [req EXCEPT ![p] = Nothing]
    /\ late' = late \ {p}

-----------------------------------------------------------------------------
(* The store of codes: Redis, or the memory of the process when Redis does  *)
(* not answer.  Every call decides anew.                                    *)

Store == IF redis THEN "redis" ELSE "memory"

\* Redis does not answer one call, which turns to memory in its catch clause.
Unanswered ==
    /\ redis
    /\ flips < MaxFlips
    /\ flips' = flips + 1

\* A get is answered by s.
Reads(s) ==
    \/ s = Store /\ UNCHANGED flips
    \/ s = "memory" /\ Unanswered

\* A set or a del takes effect in the stores S: in memory too when only the
\* answer of Redis was lost.
Writes(S) ==
    \/ S = {Store} /\ UNCHANGED flips
    \/ S \in {{"memory"}, Stores} /\ Unanswered

\* Mutant: only Redis forgets the link.
DeletedFromRedis(l, S) == link' = [link EXCEPT ![l].at = @ \ (S \cap {"redis"})]

\* kvDel of a link.
Deleted(l, S) == link' = [link EXCEPT ![l].at = @ \ S]

\* Resets that have read their link and not deleted it.
Holding == {p \in Procs : pc[p] \in {"set password", "delete link"}}

Flip ==
    /\ flips < MaxFlips
    /\ flips' = flips + 1
    /\ redis' = ~redis
    /\ shaken' = shaken \cup Holding
    /\ UNCHANGED <<accounts, sessions, link, code, doubled, pc, req, calls>>

\* The time to live of a link, or of a code, has passed.
ExpireLink(l, s) ==
    /\ s \in link[l].at
    /\ link' = [link EXCEPT ![l].at = @ \ {s}]
    /\ UNCHANGED <<accounts, sessions, code, redis, flips, doubled, shaken, pc, req, calls>>

ExpireCode(u, s) ==
    /\ s \in code[u]
    /\ code' = [code EXCEPT ![u] = @ \ {s}]
    /\ UNCHANGED <<accounts, sessions, link, redis, flips, doubled, shaken, pc, req, calls>>

-----------------------------------------------------------------------------
(* Registration and the verification of addresses.                          *)

\* UserService.register: the address has no row yet.
Register(p, u) ==
    /\ status[u] = "absent"
    /\ Begin(p, [Nothing EXCEPT !.user = u], "insert user")
    /\ UNCHANGED <<accounts, codes, sessions>>

\* The address is unique: a second insert throws.
InsertUser(p) ==
    LET u == req[p].user IN
    /\ pc[p] = "insert user"
    /\ \/ /\ status[u] = "absent"
          /\ status' = [status EXCEPT ![u] = "active"]
          /\ GoTo(p, "send code")
          /\ UNCHANGED <<req, late>>
       \/ /\ status[u] # "absent"
          /\ Return(p)
          /\ UNCHANGED status
    /\ UNCHANGED <<password, verified, codes, token, device, era, cut, calls>>

\* kvSet of a new code, over an older one in the same store.
NewCode(u) ==
    \E S \in SUBSET Stores :
        Writes(S) /\ code' = [code EXCEPT ![u] = @ \cup S]

SendCode(p) ==
    /\ pc[p] = "send code"
    /\ NewCode(req[p].user)
    /\ Return(p)
    /\ UNCHANGED <<accounts, link, redis, doubled, shaken, token, device, era, cut, calls>>

AskCode(u) ==
    /\ status[u] # "absent"
    /\ Called
    /\ NewCode(u)
    /\ UNCHANGED <<accounts, sessions, link, redis, doubled, shaken, pc, req>>

\* verifyEmail: the caller has the code that the store holds now.
Verify(p, u) ==
    /\ \E s \in code[u] : Reads(s)
    /\ Begin(p, [Nothing EXCEPT !.user = u], "mark verified")
    /\ UNCHANGED <<accounts, link, code, redis, doubled, shaken, sessions>>

MarkVerified(p) ==
    /\ pc[p] = "mark verified"
    /\ verified' = [verified EXCEPT ![req[p].user] = TRUE]
    /\ GoTo(p, "delete code")
    /\ UNCHANGED <<status, password, codes, sessions, req, calls>>

DeleteCode(p) ==
    /\ pc[p] = "delete code"
    /\ \E S \in SUBSET Stores :
           Writes(S) /\ code' = [code EXCEPT ![req[p].user] = @ \ S]
    /\ Return(p)
    /\ UNCHANGED <<accounts, link, redis, doubled, shaken, token, device, era, cut, calls>>

-----------------------------------------------------------------------------
(* Login, and the rotation of refresh tokens.                               *)

\* login: the row, with its hash and status, is read at once.  Whoever has
\* the password may log in from any device, or from none.
Login(p, u, d) ==
    /\ status[u] = "active"
    /\ Begin(p, [Nothing EXCEPT !.user = u, !.device = d,
                                !.secret = password[u], !.era = era[u]], "issue")
    /\ UNCHANGED <<accounts, codes, sessions>>

\* refreshToken: the token is neither revoked nor expired.  The caller may
\* name another device.  The status of the user is not looked at.
Refresh(p, t, d) ==
    LET old == token[t] IN
    /\ Live(t)
    /\ d \in {old.device} \cup Devices
    /\ Begin(p, [user |-> old.user, device |-> d, parent |-> t,
                 secret |-> old.secret, era |-> old.era, late |-> old.late,
                 link |-> None], "revoke old")
    /\ UNCHANGED <<accounts, codes, sessions>>

\* Mutant: the revoked token is not saved.
RevokeOldInMemory(p) ==
    /\ pc[p] = "revoke old"
    /\ GoTo(p, "issue")
    /\ UNCHANGED <<accounts, codes, sessions, req, calls>>

RevokeOld(p) ==
    /\ pc[p] = "revoke old"
    /\ token' = [token EXCEPT ![req[p].parent].state = "revoked"]
    /\ GoTo(p, "issue")
    /\ UNCHANGED <<accounts, codes, device, era, late, cut, req, calls>>

\* A login from a device binds it.
Binds(r) == r.parent = None /\ r.device # None

\* issueTokens: a new row.  After a login from a device, bindDevice follows.
Issue(p, t) ==
    LET r == req[p] IN
    /\ pc[p] = "issue"
    /\ token[t].state = "unused"
    /\ token' = [token EXCEPT ![t] =
           [state |-> "live", user |-> r.user, device |-> r.device,
            parent |-> r.parent, secret |-> r.secret, era |-> r.era,
            late |-> r.late \/ p \in late]]
    /\ IF Binds(r)
       THEN GoTo(p, "find device") /\ UNCHANGED <<req, late>>
       ELSE Return(p)
    /\ UNCHANGED <<accounts, codes, device, era, cut, calls>>

FindDevice(p) ==
    /\ pc[p] = "find device"
    /\ GoTo(p, IF device[req[p].device] = None THEN "bind" ELSE "rebind")
    /\ UNCHANGED <<accounts, codes, sessions, req, calls>>

\* The row is updated, or inserted: the device id is unique, and the login
\* of the second insert fails, although its tokens were issued.
Bind(p) ==
    LET d == req[p].device IN
    /\ pc[p] \in {"bind", "rebind"}
    /\ device' = IF pc[p] = "bind" /\ device[d] # None THEN device
                 ELSE [device EXCEPT ![d] = req[p].user]
    /\ Return(p)
    /\ UNCHANGED <<accounts, codes, token, era, cut, calls>>

Expire(t) ==
    /\ Live(t)
    /\ token' = [token EXCEPT ![t].state = "expired"]
    /\ UNCHANGED <<accounts, codes, device, era, late, cut, pc, req, calls>>

-----------------------------------------------------------------------------
(* What ends sessions.                                                      *)

Revoked(S) == [t \in Tokens |-> IF t \in S /\ Live(t)
                                THEN [token[t] EXCEPT !.state = "revoked"]
                                ELSE token[t]]

\* Mutant: deviceId: null is a condition of the UPDATE.
OfNoDevice(u) == {t \in Tokens : token[t].user = u /\ token[t].device = None}

Of(u) == {t \in Tokens : token[t].user = u}

\* Requests that may still issue a token to u.
UnderWay(u) == {p \in Procs : pc[p] \in {"revoke old", "issue"} /\ req[p].user = u}

\* UPDATE refresh_tokens SET revoked = true WHERE userId AND NOT revoked.
EndSessions(u) ==
    /\ token' = Revoked(Of(u))
    /\ era' = [era EXCEPT ![u] = @ + 1]

\* JwtStrategy.validate: a user who has no row, or is banned, is refused with
\* whatever access token.
Authorized(u) == status[u] = "active"

\* logout from all devices, or from one.
Logout(u) ==
    /\ Authorized(u)
    /\ Called
    /\ EndSessions(u)
    /\ late' = late \cup UnderWay(u)
    /\ UNCHANGED <<accounts, codes, device, cut, pc, req>>

LogoutDevice(u, d) ==
    /\ Authorized(u)
    /\ Called
    /\ token' = Revoked({t \in Of(u) : token[t].device = d})
    /\ UNCHANGED <<accounts, codes, device, era, late, cut, pc, req>>

\* forgotPassword: a new link, kept by the store that answers, or by both.
Forgot(u, l) ==
    /\ status[u] # "absent"
    /\ Called
    /\ link[l] = NoLink
    /\ \E S \in SUBSET Stores :
           /\ Writes(S)
           /\ link' = [link EXCEPT ![l] = [user |-> u, at |-> S]]
           /\ doubled' = IF S = Stores THEN doubled \cup {l} ELSE doubled
    /\ UNCHANGED <<accounts, sessions, code, redis, shaken, pc, req>>

\* resetPassword: kvGet, UPDATE users, kvDel, UPDATE refresh_tokens.
Reset(p, l) ==
    /\ \E s \in link[l].at :
           /\ Reads(s)
           /\ shaken' = IF s = Store THEN shaken \ {p} ELSE shaken \cup {p}
    /\ Begin(p, [Nothing EXCEPT !.user = link[l].user, !.link = l], "set password")
    /\ UNCHANGED <<accounts, link, code, redis, doubled, sessions>>

SetPassword(p) ==
    /\ pc[p] = "set password"
    /\ password' = [password EXCEPT ![req[p].user] = @ + 1]
    /\ GoTo(p, "delete link")
    /\ UNCHANGED <<status, verified, codes, sessions, req, calls>>

\* Its link is deleted.
Forgotten(p) ==
    /\ \E S \in SUBSET Stores :
           /\ Writes(S)
           /\ Deleted(req[p].link, S)
           /\ shaken' = IF S = {Store} THEN shaken ELSE shaken \cup {p}
    /\ UNCHANGED <<code, redis, doubled>>

\* Mutant: the reset ends without ending the sessions.
DeleteLinkAndReturn(p) ==
    /\ pc[p] = "delete link"
    /\ Forgotten(p)
    /\ Return(p)
    /\ UNCHANGED <<accounts, token, device, era, cut, calls>>

DeleteLink(p) ==
    /\ pc[p] = "delete link"
    /\ Forgotten(p)
    /\ GoTo(p, "end sessions")
    /\ UNCHANGED <<accounts, sessions, req, calls>>

RevokeAll(p) ==
    LET u == req[p].user IN
    /\ pc[p] = "end sessions"
    /\ EndSessions(u)
    /\ late' = (late \cup UnderWay(u)) \ {p}
    /\ cut' = cut \ {u}
    /\ GoTo(p, "idle")
    /\ req' = [req EXCEPT ![p] = Nothing]
    /\ UNCHANGED <<accounts, codes, device, calls>>

\* AdminService.banUser: one column of a row read before; no session ends.
Ban(u) ==
    /\ status[u] # "absent"
    /\ Called
    /\ \E s \in {"active", "banned"} : status' = [status EXCEPT ![u] = s]
    /\ UNCHANGED <<password, verified, codes, sessions, pc, req>>

-----------------------------------------------------------------------------
(* Faults.                                                                  *)

Unfinished == {"delete link", "end sessions"}

\* A statement of p fails, or the server dies with p in it.
Fail(p) ==
    /\ pc[p] # "idle"
    /\ cut' = IF pc[p] \in Unfinished THEN cut \cup {req[p].user} ELSE cut
    /\ Return(p)
    /\ UNCHANGED <<accounts, codes, token, device, era, calls>>

\* The server starts again: what was in its memory is gone.
Restart ==
    /\ \A p \in Procs : pc[p] = "idle"
    /\ \E l \in Links, u \in Users : "memory" \in link[l].at \cup code[u]
    /\ link' = [l \in Links |-> [link[l] EXCEPT !.at = @ \ {"memory"}]]
    /\ code' = [u \in Users |-> code[u] \ {"memory"}]
    /\ UNCHANGED <<accounts, sessions, redis, flips, doubled, shaken, pc, req, calls>>

Step(p) ==
    \/ InsertUser(p) \/ SendCode(p)
    \/ MarkVerified(p) \/ DeleteCode(p)
    \/ RevokeOld(p) \/ \E t \in Tokens : Issue(p, t)
    \/ FindDevice(p) \/ Bind(p)
    \/ SetPassword(p) \/ DeleteLink(p) \/ RevokeAll(p)
    \/ Fail(p)

Arrive(p) ==
    \/ \E u \in Users : Register(p, u) \/ Verify(p, u)
    \/ \E u \in Users, d \in Devices \cup {None} : Login(p, u, d)
    \/ \E t \in Tokens, d \in Devices \cup {None} : Refresh(p, t, d)
    \/ \E l \in Links : Reset(p, l)

\* What one statement does, or nobody's request.
AtOnce ==
    \/ \E u \in Users : AskCode(u) \/ Logout(u) \/ Ban(u)
    \/ \E u \in Users, d \in Devices : LogoutDevice(u, d)
    \/ \E u \in Users, l \in Links : Forgot(u, l)
    \/ \E t \in Tokens : Expire(t)
    \/ \E l \in Links, s \in Stores : ExpireLink(l, s)
    \/ \E u \in Users, s \in Stores : ExpireCode(u, s)
    \/ Flip \/ Restart

Next == (\E p \in Procs : Arrive(p) \/ Step(p)) \/ AtOnce

Spec == Init /\ [][Next]_vars

-----------------------------------------------------------------------------
(* Properties.                                                              *)

Row == [state : {"unused", "live", "revoked", "expired"},
        user : Users \cup {None}, device : Devices \cup {None},
        parent : Tokens \cup {None}, secret : Nat, era : Nat, late : BOOLEAN]

Labels == {"idle", "insert user", "send code", "mark verified", "delete code",
           "revoke old", "issue", "find device", "bind", "rebind",
           "set password", "delete link", "end sessions"}

\* Type correctness; a request that is on its way has read what it needs.
TypeOK ==
    /\ status \in [Users -> {"absent", "active", "banned"}]
    /\ password \in [Users -> Nat]
    /\ verified \in [Users -> BOOLEAN]
    /\ token \in [Tokens -> Row]
    /\ \A t \in Tokens : token[t].state # "unused" => token[t].user \in Users
    /\ device \in [Devices -> Users \cup {None}]
    /\ link \in [Links -> [user : Users \cup {None}, at : SUBSET Stores]]
    /\ \A l \in Links : link[l].at # {} => link[l].user \in Users
    /\ code \in [Users -> SUBSET Stores]
    /\ redis \in BOOLEAN
    /\ pc \in [Procs -> Labels]
    /\ req \in [Procs -> [user : Users \cup {None}, device : Devices \cup {None},
                          parent : Tokens \cup {None}, secret : Nat, era : Nat,
                          late : BOOLEAN, link : Links \cup {None}]]
    /\ \A p \in Procs :
         /\ pc[p] # "idle" => req[p].user \in Users
         /\ pc[p] = "revoke old" => req[p].parent \in Tokens
         /\ pc[p] \in {"find device", "bind", "rebind"} => req[p].device \in Devices
         /\ pc[p] \in {"set password", "delete link", "end sessions"} => req[p].link \in Links
    /\ calls \in Nat /\ flips \in Nat
    /\ era \in [Users -> Nat]
    /\ late \subseteq Procs /\ cut \subseteq Users
    /\ doubled \subseteq Links /\ shaken \subseteq Procs

\* Rotation (auth.service.ts:204-214): a token that was exchanged for another
\* is spent for every later request.  Two requests that find it unspent at
\* once both get a new one: only those.
SpentIsRevoked ==
    \A t, c \in Tokens : token[c].parent = t => token[t].state \in {"revoked", "expired"}

\* A logout or a reset ends all sessions of the user (auth.service.ts:225-239,
\* 334-337): a session begun before it lives on only through a request that was
\* under way just then, and that inserted its token afterwards.
EndedSessionsAreOver ==
    \A t \in Tokens : Live(t) /\ ~token[t].late => token[t].era = era[token[t].user]

\* A reset of the password shuts the old one out (auth.service.ts:318-340): a
\* session opened with it survives only through a request that was under way,
\* or as long as the reset has not come to its last statement, or if it died
\* before.  The order matters: were sessions ended before the password is set,
\* the old one could still open a session in between.
OldPasswordIsShutOut ==
    \A t \in Tokens :
        LET u == token[t].user IN
        Live(t) /\ ~token[t].late /\ token[t].secret # password[u] =>
            u \in cut \/ \E p \in Procs : pc[p] \in Unfinished /\ req[p].user = u

\* A reset link is used up by the reset (auth.service.ts:331): when a reset has
\* deleted it, it is in no store.  Two things leave a copy behind, both of how a
\* store is chosen (auth.service.ts:53-110): the link was kept by Redis and by
\* memory, as the answer to its SET was lost, or Redis was lost or came back
\* between the kvGet and the kvDel of the reset, or left one of them unanswered.
UsedLinkIsGone ==
    \A p \in Procs : pc[p] = "end sessions" =>
        \/ link[req[p].link].at = {}
        \/ req[p].link \in doubled
        \/ p \in shaken
=============================================================================
