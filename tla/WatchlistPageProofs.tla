------------------------- MODULE WatchlistPageProofs -------------------------
(* The watchlist page shows what the API has, for every number of companies     *)
(* and functions.                                                              *)
EXTENDS WatchlistPage, TLAPS

-----------------------------------------------------------------------------
(* The inductive invariant. Kinds: which steps a function of a kind has, and     *)
(* that one which changes a watchlist has one. Alone: unless the page is behind, *)
(* one function at most is under way, and how far the page and the API are       *)
(* apart is told by the step it is at.                                           *)
Kinds ==
  \A t \in DOMAIN tasks :
    /\ tasks[t].pc = "tickers" <=> tasks[t].what = "listing"
    /\ tasks[t].pc \in {"created", "insert", "delete"} => tasks[t].list # NoList

Hidden == state.loading \/ state.failed
Fits == Hidden \/ (state.list = Oldest /\ state.companies = On(Oldest))
Busy == {t \in DOMAIN tasks : tasks[t].what # "listing"}

Apart(t) ==
  /\ tasks[t].pc = "create" => Fits /\ state.list = NoList
  /\ tasks[t].pc = "created" =>
       Hidden \/ (tasks[t].list = 1 /\ lists = <<{}>> /\ state.companies = {})
  /\ tasks[t].pc \in {"insert", "deleted"} => Fits
  /\ tasks[t].pc = "read" => tasks[t].list = Oldest /\ tasks[t].read = On(Oldest)
  /\ tasks[t].pc = "delete" =>
       Hidden \/ (state.list = Oldest /\ tasks[t].list = Oldest
                   /\ state.companies = On(Oldest) \ tasks[t].company)

Alone ==
  ~behind =>
    /\ \A t, u \in Busy : t = u
    /\ Busy = {} => Fits
    /\ \A t \in Busy : Apart(t)

IInv == TypeOK /\ Kinds /\ Alone

-----------------------------------------------------------------------------
(* What the helpers do, one line each: a step of a function, its end, and the    *)
(* start of another.                                                            *)
PCs == {"me", "summary", "read", "tickers", "create", "created", "insert", "inserted",
        "delete", "deleted"}
Tasks == [what : {"open", "listing", "add", "remove"}, company : SUBSET Companies,
          list : 0..Len(lists), read : SUBSET Companies, pc : PCs]

\* Every function under way is one of Tasks, and no other number than its own.
LEMMA TaskTypes ==
  ASSUME TypeOK, NEW t \in DOMAIN tasks
  PROVE  /\ tasks[t] \in Tasks
         /\ t \in 1..started /\ t # 0
  BY DEF TypeOK, Tasks, PCs

\* The functions other than none are the busy ones, and than t, the busy ones but t.
LEMMA OthersAre ==
  ASSUME TypeOK
  PROVE  /\ Others(0) = Busy
         /\ \A t : Others(t) = Busy \ {t}
  BY TaskTypes DEF Others, Busy

\* A step of a function changes its step only.
LEMMA GoesIs ==
  ASSUME TypeOK, NEW t \in DOMAIN tasks, NEW pc, Goes(t, pc)
  PROVE  /\ DOMAIN tasks' = DOMAIN tasks
         /\ \A u \in DOMAIN tasks : u # t => tasks'[u] = tasks[u]
         /\ tasks'[t].pc = pc /\ tasks'[t].what = tasks[t].what
         /\ tasks'[t].list = tasks[t].list /\ tasks'[t].company = tasks[t].company
  <1>1. tasks[t] \in Tasks
    BY TaskTypes
  <1>2. tasks' = [tasks EXCEPT ![t] = [tasks[t] EXCEPT !.pc = pc]]
    BY DEF Goes
  <1>3. /\ DOMAIN tasks' = DOMAIN tasks
        /\ \A u \in DOMAIN tasks : u # t => tasks'[u] = tasks[u]
        /\ tasks'[t] = [tasks[t] EXCEPT !.pc = pc]
    BY <1>2 DEF TypeOK
  <1> QED
    BY <1>1, <1>3 DEF Tasks

\* A function that ends leaves the others as they are.
LEMMA EndsIs ==
  ASSUME NEW t, Ends(t)
  PROVE  /\ DOMAIN tasks' = DOMAIN tasks \ {t}
         /\ \A u \in DOMAIN tasks' : tasks'[u] = tasks[u]
         /\ Busy' = Busy \ {t}
  BY DEF Ends, Busy

\* A function that begins has a new number.
LEMMA BeginIs ==
  ASSUME TypeOK, NEW task, Begin(task)
  PROVE  /\ started' = started + 1
         /\ started' \notin DOMAIN tasks
         /\ DOMAIN tasks' = DOMAIN tasks \cup {started'}
         /\ \A u \in DOMAIN tasks : tasks'[u] = tasks[u]
         /\ tasks'[started'] = task
  BY DEF Begin, TypeOK

-----------------------------------------------------------------------------
(* The types and the kinds, step by step.                                       *)
Kept == TypeOK /\ Kinds

\* Functions keep their types while the watchlists only become more.
LEMMA TasksTyped ==
  ASSUME Kept,
         lists' \in Seq(SUBSET Companies), Len(lists') \in Nat, Len(lists') >= Len(lists),
         started' \in Nat, DOMAIN tasks' \subseteq 1..started',
         tasks' = [t \in DOMAIN tasks' |-> tasks'[t]],
         \A t \in DOMAIN tasks' :
           \/ t \in DOMAIN tasks /\ tasks'[t] = tasks[t]
           \/ /\ tasks'[t] \in Tasks'
              /\ tasks'[t].pc = "tickers" <=> tasks'[t].what = "listing"
              /\ tasks'[t].pc \in {"created", "insert", "delete"} => tasks'[t].list # NoList
  PROVE  /\ tasks' \in [DOMAIN tasks' -> Tasks']
         /\ Kinds'
  <1>1. Len(lists) \in Nat
    BY DEF Kept, TypeOK
  <1>2. Tasks \subseteq Tasks'
    BY <1>1 DEF Tasks
  <1>3. \A t \in DOMAIN tasks : tasks[t] \in Tasks
    BY TaskTypes DEF Kept
  <1> QED
    BY <1>2, <1>3 DEF Kept, Kinds

\* A step of a function keeps them, if its new step fits its kind and its list.
LEMMA StepTyped ==
  ASSUME Kept, NEW t \in DOMAIN tasks, NEW new \in Tasks,
         tasks' = [tasks EXCEPT ![t] = new], UNCHANGED <<started, lists>>,
         new.pc = "tickers" <=> new.what = "listing",
         new.pc \in {"created", "insert", "delete"} => new.list # NoList
  PROVE  /\ DOMAIN tasks' \subseteq 1..started'
         /\ tasks' \in [DOMAIN tasks' -> Tasks']
         /\ Kinds'
  <1>1. Tasks' = Tasks
    BY DEF Tasks
  <1>2. DOMAIN tasks' = DOMAIN tasks /\ tasks' = [u \in DOMAIN tasks' |-> tasks'[u]]
    BY DEF Kept, TypeOK
  <1>3. \A u \in DOMAIN tasks' :
          \/ u \in DOMAIN tasks /\ tasks'[u] = tasks[u]
          \/ u = t /\ tasks'[u] = new
    BY <1>2
  <1>4. /\ lists' \in Seq(SUBSET Companies) /\ Len(lists') \in Nat /\ Len(lists') >= Len(lists)
        /\ started' \in Nat /\ DOMAIN tasks' \subseteq 1..started'
    BY <1>2 DEF Kept, TypeOK
  <1> QED
    BY <1>1, <1>2, <1>3, <1>4, TasksTyped

\* A function that begins has types and a kind of its own.
LEMMA BeginTyped ==
  ASSUME Kept, NEW task \in Tasks, Begin(task), UNCHANGED lists,
         task.pc = "tickers" <=> task.what = "listing",
         task.pc \in {"created", "insert", "delete"} => task.list # NoList
  PROVE  /\ started' \in Nat /\ DOMAIN tasks' \subseteq 1..started'
         /\ tasks' \in [DOMAIN tasks' -> Tasks']
         /\ Kinds'
  <1>1. Tasks' = Tasks
    BY DEF Tasks
  <1>2. /\ started' = started + 1 /\ started \in Nat /\ DOMAIN tasks \subseteq 1..started
        /\ DOMAIN tasks' = DOMAIN tasks \cup {started'}
        /\ tasks' = [u \in DOMAIN tasks' |-> tasks'[u]]
    BY BeginIs DEF Begin, Kept, TypeOK
  <1>3. started' \in Nat /\ DOMAIN tasks' \subseteq 1..started'
    BY <1>2
  <1>4. \A u \in DOMAIN tasks' :
          \/ u \in DOMAIN tasks /\ tasks'[u] = tasks[u]
          \/ u = started' /\ tasks'[u] = task
    BY <1>2, BeginIs DEF Kept
  <1>5. lists' \in Seq(SUBSET Companies) /\ Len(lists') \in Nat /\ Len(lists') >= Len(lists)
    BY DEF Kept, TypeOK
  <1> QED
    BY <1>1, <1>2, <1>3, <1>4, <1>5, TasksTyped

\* A function that ends takes nothing with it.
LEMMA EndTyped ==
  ASSUME Kept, NEW t, Ends(t), UNCHANGED <<started, lists>>
  PROVE  /\ DOMAIN tasks' \subseteq 1..started'
         /\ tasks' \in [DOMAIN tasks' -> Tasks']
         /\ Kinds'
  <1>1. DOMAIN tasks' \subseteq DOMAIN tasks /\ \A u \in DOMAIN tasks' : tasks'[u] = tasks[u]
    BY EndsIs
  <1>2. tasks' = [u \in DOMAIN tasks' |-> tasks'[u]]
    BY <1>1 DEF Ends
  <1>3. /\ lists' \in Seq(SUBSET Companies) /\ Len(lists') \in Nat /\ Len(lists') >= Len(lists)
        /\ started' \in Nat /\ DOMAIN tasks' \subseteq 1..started'
    BY <1>1 DEF Kept, TypeOK
  <1> QED
    BY <1>1, <1>2, <1>3, TasksTyped

\* The types of the rest, given those of the functions.
LEMMA RestTyped ==
  ASSUME Kept, DOMAIN tasks' \subseteq 1..started', tasks' \in [DOMAIN tasks' -> Tasks'],
         started' \in Nat, UNCHANGED lists,
         state' \in [known : BOOLEAN, loading : BOOLEAN, failed : BOOLEAN,
                     companies : SUBSET Companies, list : 0..Len(lists)],
         dialog' \in [open : BOOLEAN, listing : BOOLEAN, listed : BOOLEAN,
                      adding : SUBSET Companies],
         behind' \in BOOLEAN
  PROVE  TypeOK'
  BY DEF Kept, TypeOK, Tasks, PCs

\* The oldest watchlist is one of them, and holds companies.
LEMMA OldestIs ==
  ASSUME TypeOK
  PROVE  Oldest \in 0..Len(lists) /\ On(Oldest) \in SUBSET Companies
  <1>1. lists \in Seq(SUBSET Companies) /\ Len(lists) \in Nat
    BY DEF TypeOK
  <1>2. CASE lists = <<>>
    BY <1>1, <1>2 DEF Oldest, On, NoList
  <1>3. CASE lists # <<>>
    <2>1. Len(lists) >= 1 /\ lists[1] \in SUBSET Companies
      BY <1>1, <1>3
    <2> QED
      BY <1>1, <1>3, <2>1 DEF Oldest, On, NoList
  <1> QED
    BY <1>2, <1>3

\* A load that is over leaves its page and its dialog to the next.
LEMMA LoadOverTyped ==
  ASSUME Kept, NEW t \in DOMAIN tasks, LoadOver(t),
         state' \in [known : BOOLEAN, loading : BOOLEAN, failed : BOOLEAN,
                     companies : SUBSET Companies, list : 0..Len(lists)]
  PROVE  Kept'
  <1>1. UNCHANGED <<started, lists, behind>> /\ Ends(t)
    BY DEF LoadOver
  <1>2. dialog' \in [open : BOOLEAN, listing : BOOLEAN, listed : BOOLEAN,
                     adding : SUBSET Companies]
    BY DEF LoadOver, Closed, Kept, TypeOK
  <1>3. /\ DOMAIN tasks' \subseteq 1..started'
        /\ tasks' \in [DOMAIN tasks' -> Tasks'] /\ Kinds'
    BY <1>1, EndTyped
  <1>4. started' \in Nat /\ behind' \in BOOLEAN
    BY <1>1 DEF Kept, TypeOK
  <1> QED
    BY <1>1, <1>2, <1>3, <1>4, RestTyped DEF Kept

\* A step of a function that leaves watchlists alone keeps types and kinds.
LEMMA GoesTyped ==
  ASSUME Kept, NEW t \in DOMAIN tasks, NEW pc \in PCs, Goes(t, pc),
         pc # "tickers", tasks[t].pc # "tickers",
         pc \in {"created", "insert", "delete"} => tasks[t].list # NoList,
         UNCHANGED <<started, lists, dialog>>, behind' \in BOOLEAN,
         state' \in [known : BOOLEAN, loading : BOOLEAN, failed : BOOLEAN,
                     companies : SUBSET Companies, list : 0..Len(lists)]
  PROVE  Kept'
  <1> DEFINE new == [tasks[t] EXCEPT !.pc = pc]
  <1>1. tasks[t] \in Tasks /\ tasks[t].what # "listing"
    BY TaskTypes DEF Kept, Kinds
  <1>2. /\ new \in Tasks /\ new.pc = pc /\ new.what = tasks[t].what
        /\ new.list = tasks[t].list
    BY <1>1 DEF Tasks
  <1>3. tasks' = [tasks EXCEPT ![t] = new]
    BY DEF Goes
  <1> HIDE DEF new
  <1>4. /\ DOMAIN tasks' \subseteq 1..started'
        /\ tasks' \in [DOMAIN tasks' -> Tasks'] /\ Kinds'
    BY <1>1, <1>2, <1>3, StepTyped
  <1>5. /\ started' \in Nat
        /\ dialog' \in [open : BOOLEAN, listing : BOOLEAN, listed : BOOLEAN,
                        adding : SUBSET Companies]
    BY DEF Kept, TypeOK
  <1> QED
    BY <1>4, <1>5, RestTyped DEF Kept

\* The page's state, for the lemmas below.
States == [known : BOOLEAN, loading : BOOLEAN, failed : BOOLEAN,
           companies : SUBSET Companies, list : 0..Len(lists)]

\* The functions that read keep types and kinds.
LEMMA LoadsTyped ==
  ASSUME Kept, NEW t \in DOMAIN tasks,
         \/ FetchCurrentInvestor(t) \/ FetchWatchlistSummary(t) \/ ShowSummary(t)
         \/ LoadFails(t) \/ TickersListed(t)
  PROVE  Kept'
  <1>1. tasks[t] \in Tasks /\ state \in States /\ behind \in BOOLEAN
    BY TaskTypes DEF Kept, TypeOK, States
  <1>2. CASE AtStep(t, {"me"}) /\ Goes(t, "summary")
             /\ UNCHANGED <<state, dialog, started, lists, behind>>
    BY <1>1, <1>2, GoesTyped DEF AtStep, PCs, States
  <1>3. CASE AtStep(t, {"me"}) /\ LoadOver(t)
             /\ state' = [state EXCEPT !.failed = FALSE, !.loading = TRUE]
    BY <1>1, <1>3, LoadOverTyped DEF States
  <1>4. CASE FetchWatchlistSummary(t)
    <2> DEFINE new == [tasks[t] EXCEPT !.pc = "read", !.list = Oldest, !.read = On(Oldest)]
    <2>1. /\ new \in Tasks /\ new.pc = "read" /\ new.what = tasks[t].what
          /\ tasks[t].what # "listing"
      BY <1>1, <1>4, OldestIs DEF FetchWatchlistSummary, AtStep, Tasks, PCs, Kept, Kinds
    <2>2. tasks' = [tasks EXCEPT ![t] = new]
      BY <1>4 DEF FetchWatchlistSummary
    <2>3. UNCHANGED <<state, dialog, started, lists, behind>>
      BY <1>4 DEF FetchWatchlistSummary
    <2> HIDE DEF new
    <2>4. /\ DOMAIN tasks' \subseteq 1..started'
          /\ tasks' \in [DOMAIN tasks' -> Tasks'] /\ Kinds'
      BY <2>1, <2>2, <2>3, StepTyped
    <2> QED
      BY <2>3, <2>4, RestTyped DEF Kept, TypeOK
  <1>5. CASE ShowSummary(t)
    BY <1>1, <1>5, LoadOverTyped DEF ShowSummary, States, Tasks
  <1>6. CASE LoadFails(t)
    BY <1>1, <1>6, LoadOverTyped DEF LoadFails, States
  <1>7. CASE TickersListed(t)
    <2>1. UNCHANGED <<state, started, lists, behind>> /\ Ends(t)
      BY <1>7 DEF TickersListed
    <2>2. dialog' \in [open : BOOLEAN, listing : BOOLEAN, listed : BOOLEAN,
                       adding : SUBSET Companies]
      BY <1>7 DEF TickersListed, Kept, TypeOK
    <2> QED
      BY <2>1, <2>2, EndTyped, RestTyped DEF Kept, TypeOK
  <1> QED
    BY <1>2, <1>3, <1>4, <1>5, <1>6, <1>7 DEF FetchCurrentInvestor

\* The API's watchlists: one more, or one of them changed.
LEMMA ListsIs ==
  ASSUME TypeOK
  PROVE  /\ Append(lists, {}) \in Seq(SUBSET Companies)
         /\ Len(Append(lists, {})) = Len(lists) + 1
         /\ \A w \in 1..Len(lists), companies \in SUBSET Companies :
              /\ [lists EXCEPT ![w] = companies] \in Seq(SUBSET Companies)
              /\ Len([lists EXCEPT ![w] = companies]) = Len(lists)
  BY DEF TypeOK

\* A step whose request changes a watchlist keeps types and kinds.
LEMMA ChangesTyped ==
  ASSUME Kept, NEW t \in DOMAIN tasks,
         CreateWatchlist(t) \/ AddWatchlistTicker(t) \/ RemoveWatchlistTicker(t)
  PROVE  Kept'
  <1>1. /\ tasks[t] \in Tasks /\ UNCHANGED <<state, dialog, started, behind>>
        /\ Len(lists) \in Nat /\ tasks[t].what # "listing"
    BY TaskTypes DEF Kept, Kinds, TypeOK, CreateWatchlist, AddWatchlistTicker,
                     RemoveWatchlistTicker, AtStep
  <1>2. /\ lists' \in Seq(SUBSET Companies) /\ Len(lists') \in Nat
        /\ Len(lists') >= Len(lists)
        /\ \E new \in Tasks' : /\ tasks' = [tasks EXCEPT ![t] = new]
                                /\ new.pc # "tickers" /\ new.what = tasks[t].what
                                /\ (new.list # NoList \/ new.pc \in {"inserted", "deleted"})
    <2>1. CASE CreateWatchlist(t)
      <3> DEFINE new == [tasks[t] EXCEPT !.pc = "created", !.list = Len(lists) + 1]
      <3>1. lists' = Append(lists, {}) /\ tasks' = [tasks EXCEPT ![t] = new]
        BY <2>1 DEF CreateWatchlist
      <3>2. lists' \in Seq(SUBSET Companies) /\ Len(lists') = Len(lists) + 1
        BY <3>1, ListsIs DEF Kept
      <3>3. /\ Len(lists) + 1 \in 0..Len(lists') /\ Len(lists) + 1 # 0
            /\ 0..Len(lists) \subseteq 0..Len(lists')
            /\ Len(lists') \in Nat /\ Len(lists') >= Len(lists)
        BY <1>1, <3>2
      <3>4. \A n \in 0..Len(lists') :
              [tasks[t] EXCEPT !.pc = "created", !.list = n] \in Tasks'
        BY <1>1, <3>3 DEF Tasks, PCs
      <3>5. /\ new \in Tasks' /\ new.pc = "created" /\ new.what = tasks[t].what
            /\ new.list # NoList
        BY <1>1, <3>3, <3>4 DEF Tasks, NoList
      <3> HIDE DEF new
      <3> QED
        BY <3>1, <3>2, <3>3, <3>5
    <2>2. ASSUME NEW pc \in {"inserted", "deleted"}, NEW companies \in SUBSET Companies,
                 Goes(t, pc), tasks[t].list \in 1..Len(lists),
                 lists' = [lists EXCEPT ![tasks[t].list] = companies]
          PROVE  /\ lists' \in Seq(SUBSET Companies) /\ Len(lists') \in Nat
                 /\ Len(lists') >= Len(lists)
                 /\ \E new \in Tasks' :
                      /\ tasks' = [tasks EXCEPT ![t] = new]
                      /\ new.pc # "tickers" /\ new.what = tasks[t].what
                      /\ (new.list # NoList \/ new.pc \in {"inserted", "deleted"})
      <3> DEFINE new == [tasks[t] EXCEPT !.pc = pc]
      <3>1. lists' \in Seq(SUBSET Companies) /\ Len(lists') = Len(lists)
        BY <2>2, ListsIs DEF Kept
      <3>2. /\ new \in Tasks' /\ new.pc = pc /\ new.what = tasks[t].what
            /\ pc # "tickers"
        BY <1>1, <3>1 DEF Tasks, PCs
      <3>3. tasks' = [tasks EXCEPT ![t] = new]
        BY <2>2 DEF Goes
      <3> HIDE DEF new
      <3>4. Len(lists') \in Nat /\ Len(lists') >= Len(lists)
        BY <1>1, <3>1
      <3> QED
        BY <3>1, <3>2, <3>3, <3>4
    <2>3. CASE AddWatchlistTicker(t) \/ RemoveWatchlistTicker(t)
      <3>1. tasks[t].list \in 1..Len(lists) /\ tasks[t].company \in SUBSET Companies
        BY <1>1, <2>3 DEF AddWatchlistTicker, RemoveWatchlistTicker, AtStep, Kept, Kinds, Tasks,
                          NoList
      <3>2. lists[tasks[t].list] \in SUBSET Companies
        BY <3>1 DEF Kept, TypeOK
      <3>3. CASE AddWatchlistTicker(t)
        <4>1. /\ lists[tasks[t].list] \cup tasks[t].company \in SUBSET Companies
              /\ lists' = [lists EXCEPT ![tasks[t].list] =
                            lists[tasks[t].list] \cup tasks[t].company]
              /\ Goes(t, "inserted")
          BY <3>1, <3>2, <3>3 DEF AddWatchlistTicker
        <4> QED
          BY <1>1, <2>2, <3>1, <4>1
      <3>4. CASE RemoveWatchlistTicker(t)
        <4>1. /\ lists[tasks[t].list] \ tasks[t].company \in SUBSET Companies
              /\ lists' = [lists EXCEPT ![tasks[t].list] =
                            lists[tasks[t].list] \ tasks[t].company]
              /\ Goes(t, "deleted")
          BY <3>1, <3>2, <3>4 DEF RemoveWatchlistTicker
        <4> QED
          BY <1>1, <2>2, <3>1, <4>1
      <3> QED
        BY <2>3, <3>3, <3>4
    <2> QED
      BY <2>1, <2>3
  <1>3. PICK new \in Tasks' : /\ tasks' = [tasks EXCEPT ![t] = new]
                              /\ new.pc # "tickers" /\ new.what = tasks[t].what
                              /\ (new.list # NoList \/ new.pc \in {"inserted", "deleted"})
    BY <1>2
  <1>4. /\ DOMAIN tasks' = DOMAIN tasks /\ tasks' = [u \in DOMAIN tasks' |-> tasks'[u]]
        /\ \A u \in DOMAIN tasks' : u # t => tasks'[u] = tasks[u]
        /\ tasks'[t] = new
    BY <1>3 DEF Kept, TypeOK
  <1>5. started' \in Nat /\ DOMAIN tasks' \subseteq 1..started'
    BY <1>1, <1>4 DEF Kept, TypeOK
  <1>6. tasks' \in [DOMAIN tasks' -> Tasks'] /\ Kinds'
    BY <1>1, <1>2, <1>3, <1>4, <1>5, TasksTyped
  <1>7. /\ state' \in [known : BOOLEAN, loading : BOOLEAN, failed : BOOLEAN,
                       companies : SUBSET Companies, list : 0..Len(lists')]
        /\ dialog' \in [open : BOOLEAN, listing : BOOLEAN, listed : BOOLEAN,
                        adding : SUBSET Companies]
        /\ behind' \in BOOLEAN
    BY <1>1, <1>2 DEF Kept, TypeOK
  <1> QED
    BY <1>2, <1>5, <1>6, <1>7 DEF Kept, TypeOK, Tasks, PCs

\* The answers to changes keep types and kinds.
LEMMA AnswersTyped ==
  ASSUME Kept, NEW t \in DOMAIN tasks,
         \/ WatchlistCreated(t) \/ TickerAdded(t) \/ AddFails(t)
         \/ TickerRemoved(t) \/ RemovalFails(t)
  PROVE  Kept'
  <1>1. /\ tasks[t] \in Tasks /\ state \in States /\ behind \in BOOLEAN
        /\ started \in Nat
        /\ dialog \in [open : BOOLEAN, listing : BOOLEAN, listed : BOOLEAN,
                       adding : SUBSET Companies]
    BY TaskTypes DEF Kept, TypeOK, States
  <1>2. CASE WatchlistCreated(t)
    <2>1. tasks[t].pc = "created" /\ tasks[t].list # NoList /\ Goes(t, "insert")
      BY <1>2 DEF WatchlistCreated, AtStep, Kept, Kinds
    <2>2. state' \in States
      BY <1>1, <1>2 DEF WatchlistCreated, States, Tasks
    <2>3. UNCHANGED <<dialog, started, lists, behind>>
      BY <1>2 DEF WatchlistCreated
    <2> QED
      BY <1>1, <2>1, <2>2, <2>3, GoesTyped DEF PCs, States
  <1>3. CASE TickerAdded(t) \/ RemovalFails(t)
    <2>1. tasks[t].pc # "tickers" /\ LoadBegins(t)
      BY <1>3 DEF TickerAdded, RemovalFails, AtStep
    <2>2. /\ Goes(t, "me") /\ behind' \in BOOLEAN
          /\ UNCHANGED <<state, dialog, started, lists>>
      BY <2>1 DEF LoadBegins
    <2> QED
      BY <1>1, <2>1, <2>2, GoesTyped DEF PCs, States
  <1>4. CASE AddFails(t) \/ TickerRemoved(t)
    <2>1. Ends(t) /\ UNCHANGED <<state, started, lists>>
      BY <1>4 DEF AddFails, TickerRemoved
    <2>2. /\ behind' \in BOOLEAN
          /\ dialog' \in [open : BOOLEAN, listing : BOOLEAN, listed : BOOLEAN,
                          adding : SUBSET Companies]
      BY <1>1, <1>4 DEF AddFails, TickerRemoved
    <2> QED
      BY <1>1, <2>1, <2>2, EndTyped, RestTyped DEF Kept, States
  <1> QED
    BY <1>2, <1>3, <1>4

\* The clicks keep types and kinds.
LEMMA ClicksTyped ==
  ASSUME Kept,
         \/ \E c \in Companies : AddCompany(c) \/ RemoveCompany(c)
         \/ TryAgain \/ OpenAddCompany \/ CloseAddCompany
  PROVE  Kept'
  <1>1. /\ state \in States /\ behind \in BOOLEAN /\ started \in Nat
        /\ dialog \in [open : BOOLEAN, listing : BOOLEAN, listed : BOOLEAN,
                       adding : SUBSET Companies]
        /\ Len(lists) \in Nat
    BY DEF Kept, TypeOK, States
  <1>2. ASSUME NEW task \in Tasks, Begin(task),
               task.pc = "tickers" <=> task.what = "listing",
               task.pc \in {"created", "insert", "delete"} => task.list # NoList,
               UNCHANGED lists, state' \in States, behind' \in BOOLEAN,
               dialog' \in [open : BOOLEAN, listing : BOOLEAN, listed : BOOLEAN,
                            adding : SUBSET Companies]
        PROVE  Kept'
    BY <1>2, BeginTyped, RestTyped DEF Kept, States
  <1>3. ASSUME NEW c \in Companies, AddCompany(c)
        PROVE  Kept'
    <2> DEFINE task == Task("add", {c}, IF state.list = NoList THEN "create" ELSE "insert",
                            state.list)
    <2>1. /\ Begin(task) /\ UNCHANGED <<state, lists>> /\ behind' \in BOOLEAN
          /\ dialog' = [dialog EXCEPT !.adding = {c}]
      BY <1>1, <1>3 DEF AddCompany
    <2>2. /\ task \in Tasks /\ task.what = "add" /\ task.list = state.list
          /\ task.pc = IF state.list = NoList THEN "create" ELSE "insert"
      BY <1>1 DEF Task, Tasks, PCs, States
    <2>3. dialog' \in [open : BOOLEAN, listing : BOOLEAN, listed : BOOLEAN,
                       adding : SUBSET Companies]
      BY <1>1, <2>1
    <2> HIDE DEF task
    <2> QED
      BY <1>1, <1>2, <2>1, <2>2, <2>3
  <1>4. ASSUME NEW c \in Companies, RemoveCompany(c)
        PROVE  Kept'
    <2> DEFINE task == Task("remove", {c}, "delete", state.list)
    <2>1. /\ Begin(task) /\ UNCHANGED <<dialog, lists>> /\ behind' \in BOOLEAN
          /\ state' = [state EXCEPT !.companies = @ \ {c}] /\ state.list # NoList
      BY <1>1, <1>4 DEF RemoveCompany
    <2>2. /\ task \in Tasks /\ task.what = "remove" /\ task.list = state.list
          /\ task.pc = "delete"
      BY <1>1 DEF Task, Tasks, PCs, States
    <2>3. state' \in States
      BY <1>1, <2>1 DEF States
    <2> HIDE DEF task
    <2> QED
      BY <1>1, <1>2, <2>1, <2>2, <2>3
  <1>5. CASE TryAgain
    <2> DEFINE task == Task("open", {}, "me", NoList)
    <2>1. /\ Begin(task) /\ UNCHANGED <<dialog, lists>> /\ behind' \in BOOLEAN
          /\ state' = [state EXCEPT !.failed = FALSE, !.loading = TRUE]
      BY <1>5 DEF TryAgain
    <2>2. task \in Tasks /\ task.what = "open" /\ task.pc = "me"
      BY <1>1 DEF Task, Tasks, PCs, NoList
    <2>3. state' \in States
      BY <1>1, <2>1 DEF States
    <2> HIDE DEF task
    <2> QED
      BY <1>1, <1>2, <2>1, <2>2, <2>3
  <1>6. CASE OpenAddCompany
    <2>1. /\ UNCHANGED <<state, lists, behind>>
          /\ dialog' \in [open : BOOLEAN, listing : BOOLEAN, listed : BOOLEAN,
                          adding : SUBSET Companies]
      BY <1>1, <1>6 DEF OpenAddCompany
    <2>2. CASE dialog.listed
      <3>1. UNCHANGED <<tasks, started>>
        BY <1>6, <2>2 DEF OpenAddCompany
      <3> QED
        BY <2>1, <3>1 DEF Kept, TypeOK, Kinds, Tasks, PCs
    <2>3. CASE ~dialog.listed
      <3> DEFINE task == Task("listing", {}, "tickers", NoList)
      <3>1. Begin(task)
        BY <1>6, <2>3 DEF OpenAddCompany
      <3>2. task \in Tasks /\ task.what = "listing" /\ task.pc = "tickers"
        BY <1>1 DEF Task, Tasks, PCs, NoList
      <3> HIDE DEF task
      <3> QED
        BY <1>1, <1>2, <2>1, <3>1, <3>2
    <2> QED
      BY <2>2, <2>3
  <1>7. CASE CloseAddCompany
    <2>1. UNCHANGED <<state, tasks, started, lists, behind>> /\ dialog' = Closed
      BY <1>7 DEF CloseAddCompany
    <2>2. dialog' \in [open : BOOLEAN, listing : BOOLEAN, listed : BOOLEAN,
                       adding : SUBSET Companies]
      BY <1>1, <2>1 DEF Closed
    <2> QED
      BY <2>1, <2>2 DEF Kept, TypeOK, Kinds, Tasks, PCs
  <1> QED
    BY <1>3, <1>4, <1>5, <1>6, <1>7

\* Every step keeps types and kinds.
LEMMA StepKept ==
  ASSUME Kept, [Next]_vars
  PROVE  Kept'
  <1>1. CASE Next
    BY <1>1, LoadsTyped, ChangesTyped, AnswersTyped, ClicksTyped DEF Next
  <1>2. CASE UNCHANGED vars
    BY <1>2 DEF vars, Kept, TypeOK, Kinds
  <1> QED
    BY <1>1, <1>2

-----------------------------------------------------------------------------
(* At most one function while the page is not behind, and how far it is.        *)

\* A busy function is the only one, unless the page is behind.
LEMMA OnlyOne ==
  ASSUME Alone, ~behind, NEW t \in Busy
  PROVE  Busy = {t} /\ Apart(t)
  BY DEF Alone

\* A step of the only function keeps it apart as far as its new step says.
LEMMA StepsAlone ==
  ASSUME Kept, Alone, NEW t \in DOMAIN tasks, tasks[t].what # "listing",
         DOMAIN tasks' = DOMAIN tasks, tasks'[t].what = tasks[t].what,
         \A u \in DOMAIN tasks : u # t => tasks'[u] = tasks[u],
         ~behind' => ~behind /\ Apart(t)'
  PROVE  Alone'
  <1>1. Busy' = Busy /\ t \in Busy
    BY DEF Busy
  <1>2. ASSUME ~behind'
        PROVE  Busy' = {t} /\ Apart(t)'
    BY <1>1, <1>2, OnlyOne
  <1> QED
    BY <1>2 DEF Alone

\* The only function ends with the page and the API alike.
LEMMA EndsAlone ==
  ASSUME Kept, Alone, NEW t \in DOMAIN tasks, tasks[t].what # "listing", Ends(t),
         ~behind' => ~behind /\ Fits'
  PROVE  Alone'
  <1>1. Busy' = Busy \ {t} /\ t \in Busy
    BY EndsIs DEF Busy
  <1>2. ASSUME ~behind'
        PROVE  Busy' = {} /\ Fits'
    BY <1>1, <1>2, OnlyOne
  <1> QED
    BY <1>2 DEF Alone

\* A function that loads begins to be the only one when no other is under way.
LEMMA LoadsAlone ==
  ASSUME Kept, NEW t \in DOMAIN tasks, tasks[t].what # "listing", LoadBegins(t)
  PROVE  Alone'
  <1>1. /\ DOMAIN tasks' = DOMAIN tasks
        /\ \A u \in DOMAIN tasks : u # t => tasks'[u] = tasks[u]
        /\ tasks'[t].pc = "me" /\ tasks'[t].what = tasks[t].what
    BY GoesIs DEF LoadBegins, Kept
  <1>2. Busy' = Busy /\ t \in Busy
    BY <1>1 DEF Busy
  <1>3. behind' = (Busy \ {t} # {})
    BY OthersAre DEF LoadBegins, Kept
  <1>4. Apart(t)'
    BY <1>1 DEF Apart
  <1>5. ASSUME ~behind'
        PROVE  Busy' = {t}
    BY <1>2, <1>3, <1>5
  <1> QED
    BY <1>4, <1>5 DEF Alone

\* A function that begins is the only one, or the page is behind.
LEMMA BeginsAlone ==
  ASSUME Kept, NEW task, Begin(task), task.what # "listing",
         NEW n, n = started',
         ~behind' => Busy = {} /\ Apart(n)'
  PROVE  Alone'
  <1>1. /\ DOMAIN tasks' = DOMAIN tasks \cup {n} /\ tasks'[n] = task
        /\ \A u \in DOMAIN tasks : tasks'[u] = tasks[u]
    BY BeginIs DEF Kept
  <1>2. Busy' = Busy \cup {n}
    BY <1>1, BeginIs DEF Busy, Kept
  <1>3. ASSUME ~behind'
        PROVE  Busy' = {n} /\ Apart(n)'
    BY <1>2, <1>3
  <1> QED
    BY <1>3 DEF Alone

\* The functions that read: a load ends with what the API has, or with a failure.
LEMMA ReadsAlone ==
  ASSUME Kept, Alone, NEW t \in DOMAIN tasks,
         \/ FetchCurrentInvestor(t) \/ FetchWatchlistSummary(t) \/ ShowSummary(t)
         \/ LoadFails(t)
  PROVE  Alone'
  <1>1. tasks[t].what # "listing" /\ tasks[t] \in Tasks /\ state \in States
    BY TaskTypes DEF FetchCurrentInvestor, FetchWatchlistSummary, ShowSummary, LoadFails, AtStep,
                     Kept, Kinds, TypeOK, States
  <1>2. CASE Goes(t, "summary") /\ UNCHANGED <<state, dialog, started, lists, behind>>
    <2>1. Apart(t)'
      BY <1>2, GoesIs DEF Apart, Kept
    <2> QED
      BY <1>1, <1>2, <2>1, GoesIs, StepsAlone DEF Kept
  <1>3. CASE FetchWatchlistSummary(t)
    <2> DEFINE new == [tasks[t] EXCEPT !.pc = "read", !.list = Oldest, !.read = On(Oldest)]
    <2>1. /\ new.pc = "read" /\ new.what = tasks[t].what
          /\ new.list = Oldest /\ new.read = On(Oldest)
      BY <1>1 DEF Tasks
    <2>2. tasks' = [tasks EXCEPT ![t] = new] /\ UNCHANGED <<state, lists, behind>>
      BY <1>3 DEF FetchWatchlistSummary
    <2> HIDE DEF new
    <2>3. /\ DOMAIN tasks' = DOMAIN tasks /\ tasks'[t] = new
          /\ \A u \in DOMAIN tasks : u # t => tasks'[u] = tasks[u]
      BY <2>2 DEF Kept, TypeOK
    <2>4. Apart(t)'
      BY <2>1, <2>2, <2>3 DEF Apart, Oldest, On
    <2> QED
      BY <1>1, <2>1, <2>2, <2>3, <2>4, StepsAlone
  <1>4. CASE LoadOver(t) /\ Hidden'
    BY <1>1, <1>4, EndsAlone DEF LoadOver, Fits
  <1>5. CASE ShowSummary(t)
    <2>1. /\ LoadOver(t) /\ tasks[t].pc = "read"
          /\ state'.companies = tasks[t].read /\ state'.list = tasks[t].list
      BY <1>5 DEF ShowSummary, AtStep
    <2>2. ASSUME ~behind
          PROVE  tasks[t].list = Oldest /\ tasks[t].read = On(Oldest)
      BY <1>1, <2>1, <2>2, OnlyOne DEF Apart, Busy
    <2>3. UNCHANGED <<lists, behind>> /\ Ends(t)
      BY <2>1 DEF LoadOver
    <2>4. ASSUME ~behind'
          PROVE  Fits'
      BY <2>1, <2>2, <2>3, <2>4 DEF Fits, Oldest, On
    <2> QED
      BY <1>1, <2>3, <2>4, EndsAlone
  <1>6. FetchCurrentInvestor(t) =>
          \/ Goes(t, "summary") /\ UNCHANGED <<state, dialog, started, lists, behind>>
          \/ LoadOver(t) /\ Hidden'
    BY <1>1 DEF FetchCurrentInvestor, Hidden, States
  <1>7. LoadFails(t) => LoadOver(t) /\ Hidden'
    BY <1>1 DEF LoadFails, Hidden, States
  <1> QED
    BY <1>2, <1>3, <1>4, <1>5, <1>6, <1>7

\* Nothing about the watchlist: the dialog, and its companies.
LEMMA DialogAlone ==
  ASSUME Kept, Alone, UNCHANGED <<state, lists, behind>>,
         \/ OpenAddCompany \/ CloseAddCompany
         \/ \E t \in DOMAIN tasks : TickersListed(t)
  PROVE  Alone'
  <1>1. Busy' = Busy /\ \A t \in Busy : tasks'[t] = tasks[t]
    <2>1. CASE UNCHANGED tasks
      BY <2>1 DEF Busy
    <2>2. CASE Begin(Task("listing", {}, "tickers", NoList))
      <3>1. Task("listing", {}, "tickers", NoList).what = "listing"
        BY DEF Task
      <3>2. /\ DOMAIN tasks' = DOMAIN tasks \cup {started'} /\ started' \notin DOMAIN tasks
            /\ tasks'[started'].what = "listing"
            /\ \A u \in DOMAIN tasks : tasks'[u] = tasks[u]
        BY <2>2, <3>1, BeginIs DEF Kept
      <3> QED
        BY <3>2 DEF Busy
    <2>3. ASSUME NEW t \in DOMAIN tasks, TickersListed(t)
          PROVE  Busy' = Busy /\ \A u \in Busy : tasks'[u] = tasks[u]
      <3>1. Ends(t) /\ tasks[t].what = "listing"
        BY <2>3 DEF TickersListed, AtStep, Kept, Kinds
      <3> QED
        BY <3>1, EndsIs DEF Busy
    <2> QED
      BY <2>1, <2>2, <2>3 DEF OpenAddCompany, CloseAddCompany
  <1>2. Fits' = Fits /\ Hidden' = Hidden /\ Oldest' = Oldest /\ On(Oldest)' = On(Oldest)
    BY DEF Fits, Hidden, Oldest, On
  <1>3. ASSUME NEW t \in Busy, Apart(t)
        PROVE  Apart(t)'
    BY <1>1, <1>2, <1>3 DEF Apart
  <1> QED
    BY <1>1, <1>2, <1>3 DEF Alone

\* What a change makes of the watchlists the API has, the page as it is.
LEMMA ChangesAlone ==
  ASSUME Kept, Alone, NEW t \in DOMAIN tasks,
         CreateWatchlist(t) \/ AddWatchlistTicker(t) \/ RemoveWatchlistTicker(t)
  PROVE  Alone'
  <1>1. /\ tasks[t].what # "listing" /\ tasks[t] \in Tasks
        /\ UNCHANGED <<state, behind>> /\ lists \in Seq(SUBSET Companies) /\ t \in Busy
    BY TaskTypes DEF CreateWatchlist, AddWatchlistTicker, RemoveWatchlistTicker, AtStep, Kept,
                     Kinds, TypeOK, Busy
  <1>2. CASE CreateWatchlist(t)
    <2> DEFINE new == [tasks[t] EXCEPT !.pc = "created", !.list = Len(lists) + 1]
    <2>1. /\ new.pc = "created" /\ new.what = tasks[t].what /\ new.list = Len(lists) + 1
      BY <1>1 DEF Tasks
    <2>2. /\ tasks' = [tasks EXCEPT ![t] = new] /\ lists' = Append(lists, {})
          /\ tasks[t].pc = "create"
      BY <1>2 DEF CreateWatchlist, AtStep
    <2> HIDE DEF new
    <2>3. /\ DOMAIN tasks' = DOMAIN tasks /\ tasks'[t] = new
          /\ \A u \in DOMAIN tasks : u # t => tasks'[u] = tasks[u]
      BY <2>2 DEF Kept, TypeOK
    <2>4. ASSUME ~behind, ~Hidden
          PROVE  new.list = 1 /\ lists' = <<{}>> /\ state.companies = {}
      <3>1. Fits /\ state.list = NoList
        BY <1>1, <2>2, <2>4, OnlyOne DEF Apart
      <3>2. lists = <<>> /\ state.companies = {}
        BY <2>4, <3>1 DEF Fits, Oldest, On, NoList
      <3> QED
        BY <2>1, <2>2, <3>2
    <2>5. Hidden' = Hidden
      BY <1>1 DEF Hidden
    <2>6. ASSUME ~behind'
          PROVE  Apart(t)'
      BY <1>1, <2>1, <2>3, <2>4, <2>5, <2>6 DEF Apart
    <2> QED
      BY <1>1, <2>1, <2>3, <2>6, StepsAlone
  <1>3. CASE AddWatchlistTicker(t)
    <2>1. Goes(t, "inserted")
      BY <1>3 DEF AddWatchlistTicker
    <2>2. Apart(t)'
      BY <2>1, GoesIs DEF Apart, Kept
    <2> QED
      BY <1>1, <2>1, <2>2, GoesIs, StepsAlone DEF Kept
  <1>4. CASE RemoveWatchlistTicker(t)
    <2>1. /\ Goes(t, "deleted") /\ tasks[t].pc = "delete" /\ tasks[t].list # NoList
          /\ lists' = [lists EXCEPT ![tasks[t].list] = @ \ tasks[t].company]
      BY <1>4 DEF RemoveWatchlistTicker, AtStep, Kept, Kinds
    <2>2. tasks'[t].pc = "deleted"
      BY <2>1, GoesIs DEF Kept
    <2>3. ASSUME ~behind
          PROVE  Fits'
      <3>1. CASE Hidden
        BY <1>1, <3>1 DEF Hidden, Fits
      <3>2. CASE ~Hidden
        <4>1. /\ state.list = Oldest /\ tasks[t].list = Oldest
              /\ state.companies = On(Oldest) \ tasks[t].company
          BY <1>1, <2>1, <2>3, <3>2, OnlyOne DEF Apart
        <4>2. Oldest = 1 /\ lists # <<>> /\ On(Oldest) = lists[1]
          BY <2>1, <4>1 DEF Oldest, On, NoList
        <4>3. lists' # <<>> /\ lists'[1] = lists[1] \ tasks[t].company
          BY <1>1, <2>1, <4>1, <4>2
        <4>4. Oldest' = 1 /\ On(Oldest)' = lists'[1]
          BY <4>3 DEF Oldest, On, NoList
        <4> QED
          BY <1>1, <4>1, <4>2, <4>3, <4>4 DEF Fits
      <3> QED
        BY <3>1, <3>2
    <2>4. ASSUME ~behind'
          PROVE  Apart(t)'
      BY <1>1, <2>2, <2>3, <2>4 DEF Apart
    <2> QED
      BY <1>1, <2>1, <2>4, GoesIs, StepsAlone DEF Kept
  <1> QED
    BY <1>2, <1>3, <1>4

\* The answers to changes: they bring the page to the API, or a load begins.
LEMMA AnswersAlone ==
  ASSUME Kept, Alone, NEW t \in DOMAIN tasks,
         \/ WatchlistCreated(t) \/ TickerAdded(t) \/ AddFails(t)
         \/ TickerRemoved(t) \/ RemovalFails(t)
  PROVE  Alone'
  <1>1. tasks[t].what # "listing" /\ tasks[t] \in Tasks /\ state \in States /\ t \in Busy
    BY TaskTypes DEF WatchlistCreated, TickerAdded, AddFails, TickerRemoved, RemovalFails,
                     AtStep, Kept, Kinds, TypeOK, States, Busy
  <1>2. CASE WatchlistCreated(t)
    <2>1. /\ Goes(t, "insert") /\ tasks[t].pc = "created" /\ UNCHANGED <<lists, behind>>
          /\ state' = [state EXCEPT !.list = tasks[t].list]
      BY <1>2 DEF WatchlistCreated, AtStep
    <2>2. /\ Hidden' = Hidden /\ state'.companies = state.companies
          /\ state'.list = tasks[t].list
      BY <1>1, <2>1 DEF Hidden, States
    <2>3. ASSUME ~behind
          PROVE  Fits'
      <3>1. CASE Hidden
        BY <2>2, <3>1 DEF Fits
      <3>2. CASE ~Hidden
        <4>1. tasks[t].list = 1 /\ lists = <<{}>> /\ state.companies = {}
          BY <1>1, <2>1, <2>3, <3>2, OnlyOne DEF Apart
        <4>2. lists # <<>> /\ lists[1] = {}
          BY <4>1
        <4>3. Oldest' = 1 /\ On(Oldest)' = {}
          BY <2>1, <4>2 DEF Oldest, On, NoList
        <4> QED
          BY <2>2, <4>1, <4>3 DEF Fits
      <3> QED
        BY <3>1, <3>2
    <2>4. tasks'[t].pc = "insert"
      BY <2>1, GoesIs DEF Kept
    <2>5. ASSUME ~behind'
          PROVE  Apart(t)'
      BY <2>1, <2>3, <2>4, <2>5 DEF Apart
    <2> QED
      BY <1>1, <2>1, <2>5, GoesIs, StepsAlone DEF Kept
  <1>3. CASE TickerAdded(t) \/ RemovalFails(t)
    BY <1>1, <1>3, LoadsAlone DEF TickerAdded, RemovalFails
  <1>4. CASE AddFails(t)
    <2>1. /\ Ends(t) /\ UNCHANGED <<state, lists>>
          /\ tasks[t].pc \in {"create", "created", "insert", "inserted"}
          /\ ~behind' => ~behind /\ tasks[t].pc \in {"create", "insert"}
      BY <1>4 DEF AddFails, AtStep
    <2>2. ASSUME ~behind'
          PROVE  Fits'
      <3>1. Fits
        BY <1>1, <2>1, <2>2, OnlyOne DEF Apart
      <3> QED
        BY <2>1, <3>1 DEF Fits, Hidden, Oldest, On
    <2> QED
      BY <1>1, <2>1, <2>2, EndsAlone
  <1>5. CASE TickerRemoved(t)
    <2>1. Ends(t) /\ UNCHANGED <<state, lists, behind>> /\ tasks[t].pc = "deleted"
      BY <1>5 DEF TickerRemoved, AtStep
    <2>2. ASSUME ~behind'
          PROVE  Fits'
      <3>1. Fits
        BY <1>1, <2>1, <2>2, OnlyOne DEF Apart
      <3> QED
        BY <2>1, <3>1 DEF Fits, Hidden, Oldest, On
    <2> QED
      BY <1>1, <2>1, <2>2, EndsAlone
  <1> QED
    BY <1>2, <1>3, <1>4, <1>5

\* The clicks: the page follows an addition late and a removal early.
LEMMA ClicksAlone ==
  ASSUME Kept, Alone,
         (\E c \in Companies : AddCompany(c) \/ RemoveCompany(c)) \/ TryAgain
  PROVE  Alone'
  <1>1. state \in States /\ Others(0) = Busy
    BY OthersAre DEF Kept, TypeOK, States
  <1>2. PICK n : n = started'
    OBVIOUS
  <1>3. ASSUME ~behind, Busy = {}
        PROVE  Fits
    BY <1>3 DEF Alone
  <1>4. ASSUME NEW c \in Companies, AddCompany(c)
        PROVE  Alone'
    <2> DEFINE task == Task("add", {c}, IF state.list = NoList THEN "create" ELSE "insert",
                            state.list)
    <2>1. /\ Begin(task) /\ UNCHANGED <<state, lists>>
          /\ ~behind' => ~behind /\ Busy = {}
      BY <1>1, <1>4 DEF AddCompany
    <2>2. /\ task.what = "add"
          /\ task.pc = IF state.list = NoList THEN "create" ELSE "insert"
      BY DEF Task
    <2> HIDE DEF task
    <2>3. tasks'[n] = task
      BY <1>2, <2>1, BeginIs DEF Kept
    <2>4. Fits' = Fits
      BY <2>1 DEF Fits, Hidden, Oldest, On
    <2>5. ASSUME ~behind'
          PROVE  Apart(n)'
      BY <1>3, <2>1, <2>2, <2>3, <2>4, <2>5 DEF Apart
    <2> QED
      BY <1>2, <2>1, <2>2, <2>5, BeginsAlone
  <1>5. ASSUME NEW c \in Companies, RemoveCompany(c)
        PROVE  Alone'
    <2> DEFINE task == Task("remove", {c}, "delete", state.list)
    <2>1. /\ Begin(task) /\ UNCHANGED lists /\ ~Hidden
          /\ state' = [state EXCEPT !.companies = @ \ {c}]
          /\ ~behind' => ~behind /\ Busy = {}
      BY <1>1, <1>5 DEF RemoveCompany, HasCard, Hidden
    <2>2. /\ task.what = "remove" /\ task.pc = "delete" /\ task.list = state.list
          /\ task.company = {c}
      BY DEF Task
    <2> HIDE DEF task
    <2>3. tasks'[n] = task
      BY <1>2, <2>1, BeginIs DEF Kept
    <2>4. /\ state'.list = state.list /\ state'.companies = state.companies \ {c}
          /\ Oldest' = Oldest /\ On(Oldest)' = On(Oldest)
      BY <1>1, <2>1 DEF States, Oldest, On
    <2>5. ASSUME ~behind'
          PROVE  Apart(n)'
      <3>1. state.list = Oldest /\ state.companies = On(Oldest)
        BY <1>3, <2>1, <2>5 DEF Fits
      <3> QED
        BY <2>2, <2>3, <2>4, <3>1 DEF Apart
    <2> QED
      BY <1>2, <2>1, <2>2, <2>5, BeginsAlone
  <1>6. CASE TryAgain
    <2> DEFINE task == Task("open", {}, "me", NoList)
    <2>1. Begin(task) /\ (~behind' => Busy = {})
      BY <1>1, <1>6 DEF TryAgain
    <2>2. task.what = "open" /\ task.pc = "me"
      BY DEF Task
    <2> HIDE DEF task
    <2>3. tasks'[n] = task
      BY <1>2, <2>1, BeginIs DEF Kept
    <2>4. Apart(n)'
      BY <2>2, <2>3 DEF Apart
    <2> QED
      BY <1>2, <2>1, <2>2, <2>4, BeginsAlone
  <1> QED
    BY <1>4, <1>5, <1>6

-----------------------------------------------------------------------------
\* At first one load is under way.
LEMMA InitIInv ==
  ASSUME Init
  PROVE  IInv
  <1>1. /\ tasks = [t \in {1} |-> Task("open", {}, "me", NoList)] /\ started = 1
        /\ lists \in {<<>>} \cup {<<companies>> : companies \in SUBSET Companies}
    BY DEF Init
  <1>2. lists \in Seq(SUBSET Companies) /\ Len(lists) \in Nat
    <2>1. CASE lists = <<>>
      BY <2>1
    <2>2. ASSUME NEW companies \in SUBSET Companies, lists = <<companies>>
          PROVE  lists \in Seq(SUBSET Companies)
      BY <2>2
    <2>3. lists \in Seq(SUBSET Companies)
      BY <1>1, <2>1, <2>2
    <2> QED
      BY <2>3
  <1>3. /\ DOMAIN tasks = {1} /\ tasks[1].pc = "me" /\ tasks[1].what = "open"
        /\ tasks[1] \in Tasks
    BY <1>1, <1>2 DEF Task, Tasks, PCs, NoList
  <1>4. tasks \in [DOMAIN tasks -> Tasks]
    BY <1>1, <1>3
  <1>5. TypeOK
    <2>1. started \in Nat /\ DOMAIN tasks \subseteq 1..started /\ NoList \in 0..Len(lists)
      BY <1>1, <1>2, <1>3 DEF NoList
    <2>2. state \in States
      BY <2>1 DEF Init, States
    <2>3. dialog \in [open : BOOLEAN, listing : BOOLEAN, listed : BOOLEAN,
                      adding : SUBSET Companies]
      BY DEF Init
    <2>4. behind \in BOOLEAN
      BY DEF Init
    <2> QED
      BY <1>2, <1>4, <2>1, <2>2, <2>3, <2>4 DEF TypeOK, Tasks, PCs, States
  <1>6. Kinds
    BY <1>3 DEF Kinds
  <1>7. Alone
    BY <1>3 DEF Alone, Busy, Apart
  <1> QED
    BY <1>5, <1>6, <1>7 DEF IInv

\* Every step keeps the invariant.
LEMMA StepIInv ==
  ASSUME IInv, [Next]_vars
  PROVE  IInv'
  <1>1. Kept /\ Alone
    BY DEF IInv, Kept
  <1>2. Kept'
    BY <1>1, StepKept
  <1>3. Alone'
    <2>1. ASSUME NEW t \in DOMAIN tasks, TickersListed(t)
          PROVE  UNCHANGED <<state, lists, behind>>
      BY <2>1 DEF TickersListed
    <2>2. OpenAddCompany \/ CloseAddCompany => UNCHANGED <<state, lists, behind>>
      BY DEF OpenAddCompany, CloseAddCompany
    <2>3. CASE Next
      BY <1>1, <2>1, <2>2, <2>3, ReadsAlone, DialogAlone, ChangesAlone, AnswersAlone, ClicksAlone
         DEF Next
    <2>4. CASE UNCHANGED vars
      BY <1>1, <2>4 DEF vars, Alone, Busy, Apart, Fits, Hidden, Oldest, On
    <2> QED
      BY <2>3, <2>4
  <1> QED
    BY <1>2, <1>3 DEF IInv, Kept

\* The invariant holds throughout.
LEMMA Invariant == Spec => []IInv
  <1>1. Init => IInv
    BY InitIInv
  <1>2. IInv /\ [Next]_vars => IInv'
    BY StepIInv
  <1> QED
    BY <1>1, <1>2, PTL DEF Spec

(* The page's state, its functions and the API's watchlists have their types,   *)
(* whatever is clicked and however it is answered (app/watchlist/page.jsx).      *)
THEOREM PageTypes == Spec => []TypeOK
  BY Invariant, PTL DEF IInv

(* At rest, without a reported failure, the page shows and changes the           *)
(* watchlist the API answers with, for every number of companies and clicks,     *)
(* unless an addition failed with its change made or functions overlapped since  *)
(* the last load (loadWatchlist, addCompany, removeCompany).                     *)
THEOREM PageShowsList == Spec => []ListShown
  <1>1. IInv => ListShown
    BY OthersAre DEF IInv, Alone, ListShown, Fits, Hidden
  <1> QED
    BY <1>1, Invariant, PTL
=============================================================================
