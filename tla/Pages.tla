------------------------------- MODULE Pages -------------------------------
(***************************************************************************)
(* The pages of the web client that list rows of the server                 *)
(* (tokenfusionweb, app/[locale]/(dashboard)): the history of generations,  *)
(* by page and type; the transactions, by page; the API keys.               *)
(*                                                                          *)
(* One action is one event of the page, or the server's serving of one      *)
(* request.  What rows look like is left out: a list is known by the page   *)
(* and type it was asked for and the version of the table it was read from. *)
(***************************************************************************)
EXTENDS Naturals, FiniteSets

CONSTANTS
    MaxRequests, \* bound on the requests for a list
    MaxChanges,  \* bound on the changes made from the page
    MaxPages     \* bound on the pages of a list

ASSUME PagesAssumption ==
    /\ MaxRequests \in Nat /\ MaxChanges \in Nat
    /\ MaxPages \in Nat \ {0}

VARIABLES
    screen,      \* the page shown, if any
    page, filter,\* its state: the page of the list, the type of the rows
    totalPages,  \* what the last answer said
    loading,
    request,     \* requests for a list: state, arguments, what was read
    shown,       \* the answer that is shown
    change,      \* deletions, creations, switches
    version,     \* of the table, counted in changes made from here
    sent,        \* requests sent, numbered from 1
    confirmed,   \* changes sent, numbered likewise
    \* auxiliary:
    outdated     \* the last was for a page or type no longer chosen, or a change
                 \* was made since then of which the page did not learn

pageVars == <<screen, page, filter, totalPages, loading, request, shown, change,
              version, sent, confirmed, outdated>>

Requests == 1 .. MaxRequests
Changes == 1 .. MaxChanges
Screens == {"history", "billing", "keys"}
Filters == {"all", "chat"}
Blank == [state |-> "new", no |-> 0, page |-> 0, filter |-> "all", version |-> 0]
Gone == [Blank EXCEPT !.state = "over"]
Unmade == [state |-> "new", page |-> 0, filter |-> "all"]
Settle(c) == change' = [change EXCEPT ![c] = [Unmade EXCEPT !.state = "over"]]

PagesInit ==
    /\ screen \in Screens \cup {"none"}
    /\ page = 1 /\ filter = "all" /\ totalPages = 1
    /\ loading = FALSE
    /\ request = [r \in Requests |-> Blank]
    /\ shown = Blank
    /\ change = [c \in Changes |-> Unmade]
    /\ version = 0 /\ sent = 0 /\ confirmed = 0
    /\ outdated = FALSE

\* fetchHistory, fetchTransactions, fetchKeys, for page p and type f.
Fetch(p, f) ==
    /\ sent < MaxRequests
    /\ request' = [request EXCEPT ![sent + 1] =
           [state |-> "sent", no |-> sent + 1, page |-> p, filter |-> f, version |-> 0]]
    /\ sent' = sent + 1
    /\ loading' = TRUE

\* The effects of the first render.
Mount ==
    /\ screen # "none" /\ sent = 0
    /\ Fetch(1, "all")
    /\ UNCHANGED <<screen, page, filter, totalPages, shown, change, version, outdated, confirmed>>

Serve(r) ==
    /\ request[r].state = "sent"
    /\ request' = [request EXCEPT ![r].state = "served", ![r].version = version]
    /\ UNCHANGED <<screen, page, filter, totalPages, loading, shown, change, version, sent, outdated, confirmed>>

\* An answer is shown, whichever it is; there may be any number of pages.
Deliver(r) ==
    /\ request[r].state = "served"
    /\ shown' = request[r]
    /\ totalPages' \in 1 .. MaxPages
    /\ request' = [request EXCEPT ![r] = Gone]
    /\ loading' = FALSE
    /\ UNCHANGED <<screen, page, filter, change, version, sent, outdated, confirmed>>

\* An error is shown above the old rows.
FetchFails(r) ==
    /\ request[r].state \in {"sent", "served"}
    /\ request' = [request EXCEPT ![r] = Gone]
    /\ loading' = FALSE
    /\ UNCHANGED <<screen, page, filter, totalPages, shown, change, version, sent, outdated, confirmed>>

-----------------------------------------------------------------------------
(* Choosing.                                                                *)

\* The effect on [page] of the billing page fetches no first page.
Refetches(p) == screen = "history" \/ p > 1

\* The buttons of the pager rest while a list is loading.
Turn(p) ==
    /\ screen \in {"history", "billing"} /\ sent > 0 /\ ~loading
    /\ p \in 1 .. totalPages \/ p < page
    /\ p \in {page - 1, page + 1} /\ p >= 1
    /\ page' = p
    /\ IF Refetches(p)
       THEN Fetch(p, filter) /\ outdated' = FALSE
       ELSE UNCHANGED <<request, sent, loading, outdated>>
    /\ UNCHANGED <<screen, filter, totalPages, shown, change, version, confirmed>>

\* Mutant: the effect depends on the page alone.
FilterOnly(f) ==
    /\ screen = "history" /\ sent > 0 /\ f # filter
    /\ filter' = f /\ page' = 1
    /\ IF page # 1 THEN Fetch(1, f) /\ outdated' = FALSE
                   ELSE UNCHANGED <<request, sent, loading, outdated>>
    /\ UNCHANGED <<screen, totalPages, shown, change, version, confirmed>>

\* handleFilterChange, and the effect on [page, filter].
Choose(f) ==
    /\ screen = "history" /\ sent > 0 /\ f # filter
    /\ filter' = f /\ page' = 1
    /\ Fetch(1, f)
    /\ outdated' = FALSE
    /\ UNCHANGED <<screen, totalPages, shown, change, version, confirmed>>

\* The error message of the billing page has a button.
Retry ==
    /\ screen = "billing" /\ sent > 0
    /\ Fetch(page, filter)
    /\ outdated' = FALSE
    /\ UNCHANGED <<screen, page, filter, totalPages, shown, change, version, confirmed>>

-----------------------------------------------------------------------------
(* Changing: handleConfirmDelete, handleCreate, handleToggleStatus.         *)

Busy == {c \in Changes : change[c].state \in {"sent", "made"}}

\* The handler keeps the page and the type of the render it was made in.  The
\* history page makes one change at a time, the other one per key.
Confirm(c) ==
    /\ screen = "keys" \/ (screen = "history" /\ Busy = {})
    /\ sent > 0
    /\ c = confirmed + 1
    /\ confirmed' = c
    /\ change' = [change EXCEPT ![c] = [state |-> "sent", page |-> page, filter |-> filter]]
    /\ UNCHANGED <<screen, page, filter, totalPages, loading, request, shown, version, sent, outdated>>

\* The server makes the change.
Apply(c) ==
    /\ change[c].state = "sent"
    /\ version' = version + 1
    /\ change' = [change EXCEPT ![c].state = "made"]
    /\ UNCHANGED <<screen, page, filter, totalPages, loading, request, shown, sent, outdated, confirmed>>

\* It is answered: the list is fetched again.
Confirmed(c) ==
    /\ change[c].state = "made"
    /\ Settle(c)
    /\ Fetch(change[c].page, change[c].filter)
    /\ outdated' = (<<change[c].page, change[c].filter>> # <<page, filter>>)
    /\ UNCHANGED <<screen, page, filter, totalPages, shown, version, confirmed>>

\* It is refused, or its answer is lost: an error is shown.
Refused(c) ==
    /\ c \in Busy
    /\ Settle(c)
    /\ outdated' = (outdated \/ change[c].state = "made")
    /\ UNCHANGED <<screen, page, filter, totalPages, loading, request, shown, version, sent, confirmed>>

PagesNext ==
    \/ Mount \/ Retry
    \/ \E r \in Requests : Serve(r) \/ Deliver(r) \/ FetchFails(r)
    \/ \E p \in 1 .. MaxPages : Turn(p)
    \/ \E f \in Filters : Choose(f)
    \/ \E c \in Changes : Confirm(c) \/ Apply(c) \/ Confirmed(c) \/ Refused(c)

-----------------------------------------------------------------------------
(* Properties.                                                              *)

\* No request is on its way.
Quiet ==
    /\ Busy = {}
    /\ \A r \in Requests : request[r].state \in {"new", "over"}

\* The rows shown are those of the page and type chosen, as the page's own
\* changes have left them (history/page.tsx:86-111, 130-143, billing/page.tsx:80-106,
\* apikeys/page.tsx:64-82), once nothing is on its way, if the answer that came
\* last is that of the request sent last: answers are not told apart, and the
\* last one wins.  Two more things break it.  A change refetches the page and
\* type it was confirmed on, or nothing when its answer is lost; and the first
\* page of the transactions is not fetched again when one goes back to it.
ListIsCurrent ==
    Quiet /\ sent > 0 /\ shown.no = sent /\ ~outdated =>
        /\ shown.page = page \/ (screen = "billing" /\ page = 1)
        /\ shown.filter = filter
        /\ shown.version = version
=============================================================================
