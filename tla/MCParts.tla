------------------------------- MODULE MCParts -------------------------------
(* The parts of the system that stand on their own, one of them per behaviour. *)
(* Each constant is the part's own.                                            *)
EXTENDS Naturals, TLC

CONSTANTS
  Shas, MaxPlans, MaxChanges,                       \* Release
  MaxBytes, MaxLinks, MaxHops,                      \* Sites
  Identities, Emails, MaxProfiles, Lists, Tickers, Requests, \* Accounts
  MaxText, Instructions, RepairAttempts, GroqAttempts, \* Generation
  Recorders,                                        \* Summaries
  Threads, Interval, MaxTime,                       \* Sender
  MaxCalls, Symbols, Filters, PageSize, FeedSize,   \* Website
  Companies, MaxTasks                               \* WatchlistPage

VARIABLES
  part,         \* the part that runs
  s1, s2, s3, s4, s5, s6, s7, s8, s9  \* its state

all == <<s1, s2, s3, s4, s5, s6, s7, s8, s9>>

Rel == INSTANCE Release WITH
  stack <- s1, changeSets <- s2, jobs <- s3, images <- s4, siteVars <- s5, brevoKey <- s6,
  template <- s7, plans <- s8, changes <- s9

Sit == INSTANCE Sites WITH task <- s1, call <- s2, session <- s3

Acc == INSTANCE Accounts WITH
  auth <- s1, emails <- s2, investors <- s3, sessions <- s4, watchlists <- s5, entries <- s6,
  profiles <- s7, made <- s8, req <- s9

Gen == INSTANCE Generation WITH provider <- s1, job <- s2

\* A summary's lines have no blank line in them.
Sum == INSTANCE Summaries WITH LineBreaks <- FALSE,
  sourceType <- s1, metadata <- s2, row <- s3, lock <- s4, recorders <- s5, reader <- s6,
  last <- s7

Snd == INSTANCE Sender WITH
  settings <- s1, now <- s2, lock <- s3, lastSend <- s4, thread <- s5, posted <- s6

Web == INSTANCE Website WITH
  page <- s1, auth <- s2, hint <- s3, calls <- s4, asked <- s5, cache <- s6, server <- s7

Wat == INSTANCE WatchlistPage WITH
  state <- s1, dialog <- s2, tasks <- s3, started <- s4, lists <- s5, behind <- s6

\* No part tells one identity or one address from another.
Symmetry == Permutations(Identities) \cup Permutations(Emails)

\* The bounds are numbers, and no thread is named as the free lock is.
ASSUME BoundsAssumption ==
  /\ Interval \in Nat /\ MaxTime \in Nat
  /\ MaxText \in Nat /\ Instructions \in Nat /\ RepairAttempts \in Nat

\* There is a choice of filters, and a page and a feed have some number of items.
ASSUME PageAssumption == PageSize \in Nat /\ FeedSize \in Nat /\ Filters # {}
ASSUME ThreadsAssumption == Snd!Free \notin Threads

\* No identity is the one that stands for nobody.
ASSUME NobodyAssumption == Acc!Nobody \notin Identities

\* A part leaves the slots it does not use alone.
Init ==
  \/ part = "release" /\ Rel!Init
  \/ part = "sites" /\ Sit!Init
     /\ s4 = 0 /\ s5 = 0 /\ s6 = 0 /\ s7 = 0 /\ s8 = 0 /\ s9 = 0
  \/ part = "accounts" /\ Acc!Init
  \/ part = "generation" /\ Gen!Init
     /\ s3 = 0 /\ s4 = 0 /\ s5 = 0 /\ s6 = 0 /\ s7 = 0 /\ s8 = 0 /\ s9 = 0
  \/ part = "summaries" /\ Sum!Init
     /\ s8 = 0 /\ s9 = 0
  \/ part = "sender" /\ Snd!Init
     /\ s7 = 0 /\ s8 = 0 /\ s9 = 0
  \/ part = "website" /\ Web!Init
     /\ s8 = 0 /\ s9 = 0
  \/ part = "watchlist" /\ Wat!Init
     /\ s7 = 0 /\ s8 = 0 /\ s9 = 0

Next ==
  \/ part = "release" /\ Rel!Next /\ UNCHANGED <<part>>
  \/ part = "sites" /\ Sit!Next /\ UNCHANGED <<part, s4, s5, s6, s7, s8, s9>>
  \/ part = "accounts" /\ Acc!Next /\ UNCHANGED <<part>>
  \/ part = "generation" /\ Gen!Next /\ UNCHANGED <<part, s3, s4, s5, s6, s7, s8, s9>>
  \/ part = "summaries" /\ Sum!Next /\ UNCHANGED <<part, s8, s9>>
  \/ part = "sender" /\ Snd!Next /\ UNCHANGED <<part, s7, s8, s9>>
  \/ part = "website" /\ Web!Next /\ UNCHANGED <<part, s8, s9>>
  \/ part = "watchlist" /\ Wat!Next /\ UNCHANGED <<part, s7, s8, s9>>

Spec == Init /\ [][Next]_<<part, all>>

-----------------------------------------------------------------------------
(* Release: while its recorded stack stands, nothing a deploy applies undoes    *)
(* what an operator chose; what a reviewer executes is what was planned; and an  *)
(* alert's links lead to a site that exists (tools/release.py, plan to apply).   *)
ReleasesKept ==
  part = "release" => Rel!NothingUndone /\ Rel!ReviewedAsPlanned /\ Rel!AlertsReachSite

(* Sites: whatever fails while a site is read, browser and pages are closed, a   *)
(* site that could not be reached is not taken for one whose layout changed, and *)
(* a fetched document is a supported one (scrapers/, download_validation.py).    *)
SitesKept ==
  part = "sites" => Sit!NothingLeftOpen /\ Sit!FinalNeedsAnswer /\ Sit!OutcomeHolds

(* Accounts and the website: concurrent first sign-ins leave one profile per    *)
(* identity and watchlists only change for their owners (crud/investor.py,       *)
(* core/cognito.py); late answers leave a page showing what it asked for         *)
(* (useCompanyResource.js, announcements and settings pages), and a watchlist    *)
(* changed before the API answers is shown as the API has it in the end          *)
(* (watchlist/page.jsx).                                                         *)
PeopleKept ==
  /\ part = "accounts" => Acc!ProfilesKept /\ Acc!OnlyOwners
  /\ part = "website" =>
       Web!CompanyShown /\ Web!FeedWhole /\ Web!SettingsShown /\ Web!HintEarned
  /\ part = "watchlist" => Wat!ListShown

(* Services: a prompt fits the provider and a generated value fits its kind      *)
(* after every retry and repair (services/generation); what is read back is the  *)
(* summary recorded last, line by line (services/artifact_summary.py); a paced   *)
(* email starts an interval after the last one ended, and nothing is posted that *)
(* a check refuses (services/email_sender.py, services/brevo_alerts.py).         *)
ServicesKept ==
  /\ part = "generation" => Gen!PromptFits /\ Gen!ValueHolds
  /\ part = "summaries" => Sum!ReadBack /\ Sum!NoLineMisplaced
  /\ part = "sender" => Snd!Spaced /\ Snd!CheckedFirst
=============================================================================
