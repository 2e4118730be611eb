------------------------------- MODULE SignIn -------------------------------
(***************************************************************************)
(* Signing in with the web client (tokenfusionweb, hooks/useAuth.ts,        *)
(* lib/store/authStore.ts, lib/api/request.ts, the forms of                 *)
(* components/modules/auth and the layouts of app/[locale]).                *)
(*                                                                          *)
(* The tabs of a browser share localStorage, which holds the tokens and the *)
(* user of the last login; each tab has a store of its own, filled from     *)
(* there when certain pages are shown.  What a tab shows comes from its     *)
(* store, what it asks for is asked with the token of localStorage.         *)
(*                                                                          *)
(* One action is one event: a navigation with its redirections, a click, an *)
(* answer with all that is done upon it.                                    *)
(***************************************************************************)
EXTENDS Forms, FiniteSets

CONSTANTS
    Tabs,
    Accounts,
    Admins,    \* accounts with the role admin
    Nobody,
    MaxLogins, \* bound on the logins tried
    Entered    \* what may be entered in the registration form

ASSUME SignInAssumption ==
    /\ Admins \subseteq Accounts
    /\ Nobody \notin Accounts \cup Form
    /\ MaxLogins \in Nat
    /\ Entered \subseteq Form

VARIABLES
    stored,    \* localStorage: whose tokens and user it holds
    store,     \* authStore of each tab: the user
    route,     \* the page of each tab
    form,      \* the state of the form on it
    awaited,   \* the login its login form waits for
    registration, \* the registration its registration form waits for
    login,     \* the logins tried
    asked,     \* accounts whose tokens went with requests for the rows of the page
    rows,      \* whose rows it shows
    behind     \* auxiliary: signed in as another when some other tab signed in,
               \* and not filled from localStorage since

pageOf == <<route, form, awaited, registration, asked, rows>>
signVars == <<stored, store, login, behind, pageOf>>

\* home: any page without a form or an account; lists: those of the dashboard
\* with rows of the server.
Routes == {"home", "login", "register", "forgot", "dashboard", "lists", "admin"}
Dashboard == {"dashboard", "lists"}
Logins == 1 .. MaxLogins
Untried == [state |-> "new", tab |-> Nobody, account |-> Nobody]

SignInInit ==
    /\ stored = Nobody
    /\ store = [t \in Tabs |-> Nobody]
    /\ route = [t \in Tabs |-> "closed"]
    /\ form = [t \in Tabs |-> "idle"]
    /\ awaited = [t \in Tabs |-> 0]
    /\ registration = [t \in Tabs |-> Nobody]
    /\ login = [n \in Logins |-> Untried]
    /\ asked = [t \in Tabs |-> {}]
    /\ rows = [t \in Tabs |-> Nobody]
    /\ behind = {}

-----------------------------------------------------------------------------
(* Navigation.                                                              *)

\* Mutant: a store that has a user is left alone.
RestoredOnce(s) == IF stored = Nobody \/ s # Nobody THEN s ELSE stored

\* restore, of a store that holds s.
Restored(s) == IF stored = Nobody THEN s ELSE stored

\* Pages that call it when they are shown: those that use useAuth, and the
\* layouts, which stay from one of their pages to the next.
Restores(from, q) ==
    \/ q \in {"login", "register", "dashboard", "admin"}
    \/ q = "lists" /\ from \notin Dashboard

\* The layouts send away whoever has not signed in, or is no admin.
Landing(q, s) ==
    IF q \in Dashboard /\ s = Nobody THEN "login"
    ELSE IF q = "admin" /\ s \notin Admins THEN "home"
    ELSE q

\* Page q is shown in tab t, whose store holds s by then.  Its lists are asked
\* for with the token of localStorage.
Arrive(t, q, s) ==
    /\ store' = [store EXCEPT ![t] = s]
    /\ route' = [route EXCEPT ![t] = Landing(q, s)]
    /\ form' = [form EXCEPT ![t] = "idle"]
    /\ awaited' = [awaited EXCEPT ![t] = 0]
    /\ registration' = [registration EXCEPT ![t] = Nobody]
    /\ asked' = [asked EXCEPT ![t] = IF Landing(q, s) = "lists" THEN {stored} ELSE {}]
    /\ rows' = [rows EXCEPT ![t] = Nobody]

\* A link, or the button to go back: the tab keeps its store, and the logins
\* under way go on.
Visit(t, q) ==
    /\ route[t] # "closed"
    /\ IF Restores(route[t], q)
       THEN Arrive(t, q, Restored(store[t])) /\ behind' = behind \ {t}
       ELSE Arrive(t, q, store[t]) /\ UNCHANGED behind
    /\ UNCHANGED <<stored, login>>

\* A new tab, a reload, another language: everything starts anew, and nobody
\* waits for the logins of the tab any more.
Open(t, q) ==
    /\ Arrive(t, q, IF Restores("closed", q) THEN stored ELSE Nobody)
    /\ behind' = behind \ {t}
    /\ login' = [n \in Logins |-> IF login[n].tab = t
                                  THEN [Untried EXCEPT !.state = "over"] ELSE login[n]]
    /\ UNCHANGED stored

-----------------------------------------------------------------------------
(* The forms; their buttons rest while an answer is awaited.                *)

SubmitLogin(t, n, a) ==
    /\ route[t] = "login" /\ form[t] = "idle"
    /\ login[n].state = "new"
    /\ \A m \in 1 .. n - 1 : login[m].state # "new"
    /\ login' = [login EXCEPT ![n] = [state |-> "sent", tab |-> t, account |-> a]]
    /\ form' = [form EXCEPT ![t] = "busy"]
    /\ awaited' = [awaited EXCEPT ![t] = n]
    /\ UNCHANGED <<stored, store, behind, route, registration, asked, rows>>

\* handleLogin and onSubmit: the answer counts whatever the tab shows by now.
LoggedIn(n) ==
    LET t == login[n].tab
        a == login[n].account IN
    /\ login[n].state = "sent"
    /\ login' = [login EXCEPT ![n] = [Untried EXCEPT !.state = "over"]]
    /\ stored' = a
    /\ behind' = (behind \cup {s \in Tabs : store[s] \notin {Nobody, a}}) \ {t}
    /\ Arrive(t, "dashboard", a)

\* A refusal, or no answer, is shown by the form, if it is still there.
LoginFails(n) ==
    LET t == login[n].tab IN
    /\ login[n].state = "sent"
    /\ login' = [login EXCEPT ![n] = [Untried EXCEPT !.state = "over"]]
    /\ IF awaited[t] = n
       THEN /\ form' = [form EXCEPT ![t] = "idle"]
            /\ awaited' = [awaited EXCEPT ![t] = 0]
       ELSE UNCHANGED <<form, awaited>>
    /\ UNCHANGED <<stored, store, behind, route, registration, asked, rows>>

SubmitRegister(t, f) ==
    /\ route[t] = "register" /\ form[t] = "idle"
    /\ registerSchema(f)
    /\ form' = [form EXCEPT ![t] = "busy"]
    /\ registration' = [registration EXCEPT ![t] = f]
    /\ UNCHANGED <<stored, store, login, behind, route, awaited, asked, rows>>

\* An account is made, and a panel says so; or an error is shown.
Registered(t) ==
    /\ route[t] = "register" /\ form[t] = "busy"
    /\ \/ form' = [form EXCEPT ![t] = "idle"]
       \/ ServerAccepts(registration[t]) /\ form' = [form EXCEPT ![t] = "done"]
    /\ registration' = [registration EXCEPT ![t] = Nobody]
    /\ UNCHANGED <<stored, store, login, behind, route, awaited, asked, rows>>

\* The form for a forgotten password, which tells nobody's address.
SubmitForgot(t) ==
    /\ route[t] = "forgot" /\ form[t] = "idle"
    /\ form' = [form EXCEPT ![t] = "busy"]
    /\ UNCHANGED <<stored, store, login, behind, route, awaited, registration, asked, rows>>

ForgotAnswered(t) ==
    /\ route[t] = "forgot" /\ form[t] = "busy"
    /\ \E s \in {"idle", "done"} : form' = [form EXCEPT ![t] = s]
    /\ UNCHANGED <<stored, store, login, behind, route, awaited, registration, asked, rows>>

-----------------------------------------------------------------------------
(* The lists of the dashboard.                                              *)

\* request: a list is asked for again.
Ask(t) ==
    /\ route[t] = "lists"
    /\ asked' = [asked EXCEPT ![t] = @ \cup {stored}]
    /\ UNCHANGED <<stored, store, login, behind, route, form, awaited, registration, rows>>

\* An answer is shown, or an error; more may be awaited with the same token.
Answer(t, a) ==
    /\ a \in asked[t]
    /\ rows' \in {rows, [rows EXCEPT ![t] = a]}
    /\ asked' \in {asked, [asked EXCEPT ![t] = @ \ {a}]}
    /\ UNCHANGED <<stored, store, login, behind, route, form, awaited, registration>>

SignInNext ==
    \/ \E t \in Tabs :
         \/ \E q \in Routes : Visit(t, q) \/ Open(t, q)
         \/ \E n \in Logins, a \in Accounts : SubmitLogin(t, n, a)
         \/ \E f \in Entered : SubmitRegister(t, f)
         \/ Registered(t) \/ SubmitForgot(t) \/ ForgotAnswered(t)
         \/ Ask(t)
         \/ \E a \in Accounts : Answer(t, a)
    \/ \E n \in Logins : LoggedIn(n) \/ LoginFails(n)

SignInSpec == SignInInit /\ [][SignInNext]_signVars

-----------------------------------------------------------------------------
(* Properties.                                                              *)

\* The user a tab shows (authStore.ts:69-99) is the one whose token its requests
\* carry (request.ts:30-33), and whose rows it lists, through navigation, reloads
\* and logins that are answered when their form is long gone.  The exception is
\* a tab behind whose back another one has signed in as somebody else: it keeps
\* its user, and gets the rows of the other, until a page fills its store again.
OneAccount ==
    \A t \in Tabs \ behind :
        store[t] # Nobody => stored = store[t] /\ rows[t] \in {Nobody, store[t]}

\* "The rules agree with the server's" (validation.ts:9): no registration that
\* the form lets through is refused for its form (register.dto.ts), or for an
\* address of a throw-away domain (temp-email.util.ts).
AcceptedByServer ==
    \A t \in Tabs : registration[t] # Nobody => ServerAccepts(registration[t])

\* Type correctness; a list is there only for whoever has signed in.
SignInTypeOK ==
    /\ stored \in Accounts \cup {Nobody}
    /\ store \in [Tabs -> Accounts \cup {Nobody}]
    /\ route \in [Tabs -> Routes \cup {"closed"}]
    /\ form \in [Tabs -> {"idle", "busy", "done"}]
    /\ awaited \in [Tabs -> {0} \cup Logins]
    /\ registration \in [Tabs -> Form \cup {Nobody}]
    /\ login \in [Logins -> [state : {"new", "sent", "over"}, tab : Tabs \cup {Nobody},
                             account : Accounts \cup {Nobody}]]
    /\ \A n \in Logins : login[n].state = "sent" =>
           login[n].tab \in Tabs /\ login[n].account \in Accounts
    /\ asked \in [Tabs -> SUBSET Accounts]
    /\ rows \in [Tabs -> Accounts \cup {Nobody}]
    /\ behind \subseteq Tabs
    /\ \A t \in Tabs : route[t] \in Dashboard \/ store[t] # Nobody => stored # Nobody
=============================================================================
