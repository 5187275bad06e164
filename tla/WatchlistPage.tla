---------------------------- MODULE WatchlistPage ----------------------------
(* The page that shows and changes an investor's watchlist                     *)
(* (app/watchlist/page.jsx), over the watchlists the API has. Opening the page  *)
(* and every click start an asynchronous function; its requests are answered    *)
(* late, in any order, or fail, a change made or not. The list changes on       *)
(* screen before the API answers, and again with every load.                    *)
EXTENDS Naturals, Sequences, FiniteSets

CONSTANTS
  Companies,    \* what can be watched
  MaxTasks      \* functions started in one behaviour

VARIABLES
  state,        \* what the page shows, and the watchlist it changes
  dialog,       \* "Add company": open, its companies, the one being added
  tasks,        \* the functions under way
  started,      \* functions started so far
  lists,        \* the API: the investor's watchlists, oldest first
  behind        \* an answer was lost, or functions overlapped, since the last load began

vars == <<state, dialog, tasks, started, lists, behind>>

NoList == 0
Oldest == IF lists = <<>> THEN NoList ELSE 1
On(list) == IF list = NoList THEN {} ELSE lists[list]

Task(what, company, pc, list) ==
  [what |-> what, company |-> company, pc |-> pc, list |-> list, read |-> {}]

(* The page opens, signed in, and loads; other lists may exist already.         *)
Init ==
  /\ state = [known |-> FALSE, loading |-> TRUE, failed |-> FALSE, companies |-> {},
              list |-> NoList]
  /\ dialog = [open |-> FALSE, listing |-> FALSE, listed |-> FALSE, adding |-> {}]
  /\ tasks = [t \in {1} |-> Task("open", {}, "me", NoList)]
  /\ started = 1
  /\ lists \in {<<>>} \cup {<<companies>> : companies \in SUBSET Companies}
  /\ behind = FALSE

Goes(t, pc) == tasks' = [tasks EXCEPT ![t].pc = pc]
Ends(t) == tasks' = [u \in DOMAIN tasks \ {t} |-> tasks[u]]
AtStep(t, pcs) == t \in DOMAIN tasks /\ tasks[t].pc \in pcs

\* The functions that read or change the watchlist, t left out.
Others(t) == {u \in DOMAIN tasks \ {t} : tasks[u].what # "listing"}

Begin(task) ==
  /\ started < MaxTasks
  /\ started' = started + 1
  /\ tasks' = [u \in DOMAIN tasks \cup {started'} |-> IF u = started' THEN task ELSE tasks[u]]

-----------------------------------------------------------------------------
(* loadWatchlist: who is signed in, then the oldest watchlist and its           *)
(* companies. It reports a failure on the page and never fails its caller;      *)
(* addCompany closes the dialog after it.                                       *)
Closed == [dialog EXCEPT !.open = FALSE, !.adding = {}]

LoadOver(t) ==
  /\ Ends(t)
  /\ dialog' = IF tasks[t].what = "add" THEN Closed ELSE dialog
  /\ UNCHANGED <<started, lists, behind>>

FetchCurrentInvestor(t) ==
  /\ AtStep(t, {"me"})
  /\ \/ /\ Goes(t, "summary")
        /\ UNCHANGED <<state, dialog, started, lists, behind>>
     \/ /\ state' = [state EXCEPT !.failed = FALSE, !.loading = TRUE]   \* to the sign-in
        /\ LoadOver(t)

FetchWatchlistSummary(t) ==
  /\ AtStep(t, {"summary"})
  /\ tasks' = [tasks EXCEPT ![t].pc = "read", ![t].list = Oldest, ![t].read = On(Oldest)]
  /\ UNCHANGED <<state, dialog, started, lists, behind>>

ShowSummary(t) ==
  /\ AtStep(t, {"read"})
  /\ state' = [known |-> TRUE, loading |-> FALSE, failed |-> FALSE,
               companies |-> tasks[t].read, list |-> tasks[t].list]
  /\ LoadOver(t)

LoadFails(t) ==
  /\ AtStep(t, {"me", "summary", "read"})
  /\ state' = [state EXCEPT !.failed = TRUE, !.loading = FALSE]
  /\ LoadOver(t)

TryAgain ==
  /\ state.failed /\ ~dialog.open
  /\ Begin(Task("open", {}, "me", NoList))
  /\ state' = [state EXCEPT !.failed = FALSE, !.loading = TRUE]
  /\ behind' = (Others(0) # {})
  /\ UNCHANGED <<dialog, lists>>

-----------------------------------------------------------------------------
(* What can be clicked. The open dialog covers the page; its button for a       *)
(* company is off while the company is shown or is the one being added.          *)
HasAddButton == state.known /\ ~state.loading /\ ~dialog.open

HasCard(c) == ~state.loading /\ ~state.failed /\ ~dialog.open /\ c \in state.companies

Offered(c) ==
  /\ dialog.open /\ dialog.listed /\ ~dialog.listing
  /\ c \notin state.companies /\ c \notin dialog.adding

(* The dialog, whose companies are loaded once.                                 *)
OpenAddCompany ==
  /\ HasAddButton
  /\ IF dialog.listed
     THEN /\ dialog' = [dialog EXCEPT !.open = TRUE]
          /\ UNCHANGED <<tasks, started>>
     ELSE /\ dialog' = [dialog EXCEPT !.open = TRUE, !.listing = TRUE]
          /\ Begin(Task("listing", {}, "tickers", NoList))
  /\ UNCHANGED <<state, lists, behind>>

TickersListed(t) ==
  /\ AtStep(t, {"tickers"})
  /\ \E listed \in BOOLEAN :
       dialog' = [dialog EXCEPT !.listing = FALSE, !.listed = listed]
  /\ Ends(t)
  /\ UNCHANGED <<state, started, lists, behind>>

CloseAddCompany ==
  /\ dialog.open
  /\ dialog' = Closed
  /\ UNCHANGED <<state, tasks, started, lists, behind>>

(* addCompany: to the watchlist of the page, as it is at the click, or to one   *)
(* made first; then the page is loaded again.                                   *)
AddCompany(c) ==
  /\ Offered(c)
  /\ Begin(Task("add", {c}, IF state.list = NoList THEN "create" ELSE "insert", state.list))
  /\ dialog' = [dialog EXCEPT !.adding = {c}]
  /\ behind' = (behind \/ Others(0) # {})
  /\ UNCHANGED <<state, lists>>

CreateWatchlist(t) ==
  /\ AtStep(t, {"create"})
  /\ lists' = Append(lists, {})
  /\ tasks' = [tasks EXCEPT ![t].pc = "created", ![t].list = Len(lists) + 1]
  /\ UNCHANGED <<state, dialog, started, behind>>

WatchlistCreated(t) ==
  /\ AtStep(t, {"created"})
  /\ state' = [state EXCEPT !.list = tasks[t].list]
  /\ Goes(t, "insert")
  /\ UNCHANGED <<dialog, started, lists, behind>>

AddWatchlistTicker(t) ==
  /\ AtStep(t, {"insert"})
  /\ lists' = [lists EXCEPT ![tasks[t].list] = @ \cup tasks[t].company]
  /\ Goes(t, "inserted")
  /\ UNCHANGED <<state, dialog, started, behind>>

\* The load that begins now sees all that is over.
LoadBegins(t) ==
  /\ Goes(t, "me")
  /\ behind' = (Others(t) # {})
  /\ UNCHANGED <<state, dialog, started, lists>>

TickerAdded(t) == AtStep(t, {"inserted"}) /\ LoadBegins(t)

\* The dialog stays open and says so; a change may have been made.
AddFails(t) ==
  /\ AtStep(t, {"create", "created", "insert", "inserted"})
  /\ dialog' = [dialog EXCEPT !.adding = {}]
  /\ behind' = (behind \/ tasks[t].pc \in {"created", "inserted"})
  /\ Ends(t)
  /\ UNCHANGED <<state, started, lists>>

(* removeCompany: gone from the page at once; a removal that fails loads what   *)
(* the API has.                                                                 *)
RemoveCompany(c) ==
  /\ HasCard(c) /\ state.list # NoList
  /\ state' = [state EXCEPT !.companies = @ \ {c}]
  /\ Begin(Task("remove", {c}, "delete", state.list))
  /\ behind' = (behind \/ Others(0) # {})
  /\ UNCHANGED <<dialog, lists>>

RemoveWatchlistTicker(t) ==
  /\ AtStep(t, {"delete"})
  /\ lists' = [lists EXCEPT ![tasks[t].list] = @ \ tasks[t].company]
  /\ Goes(t, "deleted")
  /\ UNCHANGED <<state, dialog, started, behind>>

TickerRemoved(t) ==
  /\ AtStep(t, {"deleted"})
  /\ Ends(t)
  /\ UNCHANGED <<state, dialog, started, lists, behind>>

\* Mutant: a removal that fails is only not shown.
RemovalFailsQuietly(t) ==
  /\ AtStep(t, {"delete", "deleted"})
  /\ Ends(t)
  /\ UNCHANGED <<state, dialog, started, lists, behind>>

RemovalFails(t) == AtStep(t, {"delete", "deleted"}) /\ LoadBegins(t)

Next ==
  \/ \E t \in DOMAIN tasks :
       \/ FetchCurrentInvestor(t) \/ FetchWatchlistSummary(t) \/ ShowSummary(t) \/ LoadFails(t)
       \/ TickersListed(t)
       \/ CreateWatchlist(t) \/ WatchlistCreated(t) \/ AddWatchlistTicker(t) \/ TickerAdded(t)
       \/ AddFails(t)
       \/ RemoveWatchlistTicker(t) \/ TickerRemoved(t) \/ RemovalFails(t)
  \/ \E c \in Companies : AddCompany(c) \/ RemoveCompany(c)
  \/ TryAgain \/ OpenAddCompany \/ CloseAddCompany

Spec == Init /\ [][Next]_vars

-----------------------------------------------------------------------------
TypeOK ==
  /\ state \in [known : BOOLEAN, loading : BOOLEAN, failed : BOOLEAN,
                companies : SUBSET Companies, list : 0..Len(lists)]
  /\ dialog \in [open : BOOLEAN, listing : BOOLEAN, listed : BOOLEAN,
                 adding : SUBSET Companies]
  /\ started \in Nat /\ DOMAIN tasks \subseteq 1..started
  /\ tasks \in [DOMAIN tasks -> [what : {"open", "listing", "add", "remove"},
        company : SUBSET Companies, list : 0..Len(lists), read : SUBSET Companies,
        pc : {"me", "summary", "read", "tickers", "create", "created", "insert", "inserted",
              "delete", "deleted"}]]
  /\ lists \in Seq(SUBSET Companies)
  /\ behind \in BOOLEAN

(* "Failed removal must restore the true collection"                            *)
(* (docs/quartr-page-by-page-plan.md): whatever was added and removed, and       *)
(* whichever of its requests failed, a page at rest that reports no failure      *)
(* shows and changes the watchlist the API answers with, unless an addition     *)
(* failed with its change made or functions overlapped since the last load.      *)
ListShown ==
  Others(0) = {} /\ ~state.loading /\ ~state.failed /\ ~behind =>
    state.list = Oldest /\ state.companies = On(Oldest)
=============================================================================
