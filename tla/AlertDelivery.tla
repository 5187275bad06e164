--------------------------- MODULE AlertDelivery ---------------------------
(***************************************************************************)
(* Alert delivery: the notify Lambda's workers take notification records   *)
(* from an at-least-once queue and decide, per watching investor, whether  *)
(* an analysed artifact becomes an alert, joins its scrape run's rollup or *)
(* is held back (app/services/alert_delivery.py, lambdas/notify.py).  The  *)
(* workers share only the delivery ledger (app/crud/alert_delivery.py) and *)
(* the investors' alert subscriptions; every database session of the code  *)
(* is one action here, so anything may happen between two of them.         *)
(*                                                                         *)
(* Time is abstract.  A claim's claimed_at is the number of times its row  *)
(* was claimed; "stale" says it is older than ALERT_CLAIM_STALE_MINUTES    *)
(* and "recent" that it (or its send) is within the budget's 24 hours.     *)
(***************************************************************************)
EXTENDS Integers, FiniteSets

CONSTANTS
  Investors,        \* investors watching the ticker of every artifact
  Artifacts,        \* analysed announcements
  Runs,             \* scrape runs
  RunOf,            \* the scrape run of each artifact
  Records,          \* notification records in the queue, copies included
  ArtifactOf,       \* the artifact each record names
  Workers,          \* notify Lambda containers, one record at a time each
  Cap,              \* ALERT_MAX_PER_INVESTOR_PER_RUN
  Budget,           \* ALERT_DAILY_BUDGET
  MaxReceives,      \* receives before SQS moves a record to the DLQ
  SlowWorkers,      \* a claim may go stale under a running worker
  StaleFirst,       \* a failed record is redelivered after its claims went stale
  MaxFaults,        \* bound: crashes, raised exceptions and lost answers
  MaxChanges        \* bound: preference changes per investor

ASSUME SubjectsDisjoint  == Artifacts \cap Runs = {}
ASSUME RunOfArtifacts    == RunOf \in [Artifacts -> Runs]
ASSUME ArtifactOfRecords == ArtifactOf \in [Records -> Artifacts]
ASSUME FiniteLedger      == /\ IsFiniteSet(Investors)
                            /\ IsFiniteSet(Artifacts)
                            /\ IsFiniteSet(Runs)
ASSUME CapIsCount        == Cap \in Nat \ {0}
ASSUME BudgetIsCount     == Budget \in Nat
ASSUME Bounds            == /\ MaxReceives \in Nat \ {0}
                            /\ MaxFaults \in Nat
                            /\ MaxChanges \in Nat
                            /\ SlowWorkers \in BOOLEAN
                            /\ StaleFirst \in BOOLEAN

VARIABLES
  ledger,     \* [Deliveries -> Row]: the alert_deliveries table
  sub,        \* [Investors -> Watcher]: subscription and rule, as delivery reads them
  mirror,     \* [Investors -> Shown]: the subscription's last-delivery fields
  queue,      \* [Records -> QueuedRecord]: the notification queue
  workers,    \* [Workers -> Worker]
  clock,      \* the next time stamp datetime.now() gives
  faults,     \* faults so far
  mail        \* [Deliveries -> [sent, lost]]: emails the provider took, and
              \* those of them whose answer never reached the ledger

vars == <<ledger, sub, mirror, queue, workers, clock, faults, mail>>

-----------------------------------------------------------------------------
(* The ledger's rows: one per investor and artifact, one rollup per        *)
(* investor and run.                                                       *)

Direct     == Investors \X Artifacts
Rollups    == Investors \X Runs
Deliveries == Direct \cup Rollups

InvestorOf(d) == d[1]
RunOfRow(d)   == IF d \in Direct THEN RunOf[d[2]] ELSE d[2]
\* Mutant: the key's columns in the wrong order.
RollupSwapped(d) == <<RunOfRow(d), InvestorOf(d)>>
Rollup(d)     == <<InvestorOf(d), RunOfRow(d)>>

\* The other rows the per-run cap counts together with d.
SameRun(d) == {e \in Direct : /\ InvestorOf(e) = InvestorOf(d)
                              /\ RunOfRow(e) = RunOfRow(d)}

SentStatuses == {"SENT", "ROLLUP_SENT"}
Outcomes     == {"SENT", "REJECTED", "FAILED",
                 "SUPPRESSED_CAP", "SUPPRESSED_BUDGET"}
\* "NONE" is a row that was never inserted.
Statuses     == {"NONE", "CLAIMED", "ROLLUP_SENT"} \cup Outcomes
Settled      == {"CLAIMED", "SENT", "ROLLUP_SENT", "REJECTED",
                 "SUPPRESSED_BUDGET"}
Final        == {"SENT", "ROLLUP_SENT", "REJECTED",
                 "SUPPRESSED_CAP", "SUPPRESSED_BUDGET"}

\* holder is the record whose attempt made the claim; at the stamp of the
\* last outcome.  Neither is read by the code: they only name, for Redeliver
\* and for the properties, what the timestamps say.
Row == [status: Statuses, claim: Nat, stale: BOOLEAN, recent: BOOLEAN,
        holder: Records \cup {"nobody"}, at: Nat]

NoRow == [status |-> "NONE", claim |-> 0, stale |-> FALSE, recent |-> FALSE,
          holder |-> "nobody", at |-> 0]

\* edition stands for every field a save or confirmation rewrites that
\* delivery compares but does not act on (address, hash, request time, rule).
Watcher == [verified: BOOLEAN, wants: SUBSET Artifacts, edition: Nat]
Shown   == [status: Statuses, at: Nat]

QueuedRecord == [state: {"visible", "inflight", "waiting", "done", "dead"},
                 receives: Nat]

Phases == {"idle", "load", "choose", "claim", "held", "cap", "budget",
           "wanted", "compose", "send", "record"}

NoDelivery == <<>>
NoWatcher  == [verified |-> FALSE, wants |-> {}, edition |-> 0]
Nothing    == "none"

\* late is no part of the code: it says that the preferences changed after
\* the attempt's last look at them.
Worker == [pc: Phases, rec: Records \cup {Nothing}, todo: SUBSET Investors,
           key: Deliveries \cup {NoDelivery}, lease: Nat,
           seen: Watcher, outcome: Outcomes \cup {Nothing},
           at: Nat, retry: BOOLEAN, late: BOOLEAN]

IdleWorker == [pc |-> "idle", rec |-> Nothing, todo |-> {},
               key |-> NoDelivery, lease |-> 0, seen |-> NoWatcher,
               outcome |-> Nothing, at |-> 0, retry |-> FALSE, late |-> FALSE]

TypeOK ==
  /\ ledger \in [Deliveries -> Row]
  /\ sub \in [Investors -> Watcher]
  /\ mirror \in [Investors -> Shown]
  /\ queue \in [Records -> QueuedRecord]
  /\ workers \in [Workers -> Worker]
  /\ clock \in Nat
  /\ faults \in Nat
  /\ mail \in [Deliveries -> [sent: Nat, lost: Nat]]

Init ==
  /\ ledger = [d \in Deliveries |-> NoRow]
  /\ sub \in [Investors -> [verified: BOOLEAN, wants: {Artifacts}, edition: {0}]]
  /\ mirror = [i \in Investors |-> [status |-> "NONE", at |-> 0]]
  /\ queue = [r \in Records |-> [state |-> "visible", receives |-> 0]]
  /\ workers = [w \in Workers |-> IdleWorker]
  /\ clock = 1
  /\ faults = 0
  /\ mail = [d \in Deliveries |-> [sent |-> 0, lost |-> 0]]

-----------------------------------------------------------------------------
(* Helpers                                                                 *)

Holds(w, d) == /\ workers[w].pc \in {"cap", "budget", "wanted", "compose",
                                     "send", "record"}
               /\ workers[w].key = d
               /\ workers[w].lease = ledger[d].claim
               /\ ledger[d].status = "CLAIMED"

\* A claim whose worker runs no longer.
Abandoned(d) == /\ ledger[d].status = "CLAIMED"
                /\ \A w \in Workers : ~Holds(w, d)

\* Mutant: a claim is taken over however fresh it is.
ReclaimsFresh(row) == row.status \in {"NONE", "FAILED", "CLAIMED"}

\* Mutant: a claim is never taken over.
NeverReclaims(row) == row.status \in {"NONE", "FAILED"}

Reclaimable(row) == \/ row.status \in {"NONE", "FAILED"}
                    \/ row.status = "CLAIMED" /\ row.stale

\* over_run_cap and over_daily_budget count the caller's own claim as well.
\* Mutant: only alerts already sent count.
SentOfRun(d) == {e \in SameRun(d) : ledger[e].status = "SENT"}
CapCounted(d)  == {e \in SameRun(d) : ledger[e].status \in {"CLAIMED", "SENT"}}
OverRunCap(d)  == Cardinality(CapCounted(d)) > Cap
BudgetCounted  == {e \in Deliveries :
                     /\ ledger[e].status \in {"CLAIMED"} \cup SentStatuses
                     /\ ledger[e].recent}
\* Mutant: as if the attempt's own claim were not among those counted.
OneOverBudget  == Cardinality(BudgetCounted) > Budget + 1
OverBudget     == Cardinality(BudgetCounted) > Budget
CappedRows(d)  == {e \in SameRun(d) : ledger[e].status = "SUPPRESSED_CAP"}

At(w, phase) == workers[w].pc = phase
Update(w, state) == workers' = [workers EXCEPT ![w] = state]
Move(w, phase) == Update(w, [workers[w] EXCEPT !.pc = phase])

\* The attempt is over with this outcome; record() stamps it first.
Conclude(w, outcome) ==
  /\ Update(w, [workers[w] EXCEPT !.pc = "record", !.outcome = outcome,
                                  !.at = clock])
  /\ clock' = clock + 1

\* Mutant: the last investor alone decides whether the record is retried.
LastInvestorRetries(w, retry) ==
  Update(w, [IdleWorker EXCEPT !.pc = "choose", !.rec = workers[w].rec,
                               !.todo = workers[w].todo, !.retry = retry])

\* Done with this investor; back to deliver_alerts' list.
NextInvestor(w, retry) ==
  Update(w, [IdleWorker EXCEPT !.pc = "choose", !.rec = workers[w].rec,
                               !.todo = workers[w].todo,
                               !.retry = workers[w].retry \/ retry])

\* The suppressed attempt goes on as an attempt at the run's rollup.
TurnToRollup(w) ==
  Update(w, [workers[w] EXCEPT !.pc = "claim", !.key = Rollup(@), !.lease = 0,
                               !.outcome = Nothing, !.at = 0])

-----------------------------------------------------------------------------
(* The worker's steps.                                                     *)

\* The event source mapping hands a visible record to an idle container.
Receive(w) ==
  /\ At(w, "idle")
  /\ \E r \in Records :
       /\ queue[r].state = "visible"
       /\ queue' = [queue EXCEPT ![r] = [state |-> "inflight",
                                         receives |-> @.receives + 1]]
       /\ Update(w, [workers[w] EXCEPT !.pc = "load", !.rec = r])
  /\ UNCHANGED <<ledger, sub, mirror, clock, faults, mail>>

\* _load_alert and investor_ids_watching.
LoadAlert(w) ==
  /\ At(w, "load")
  /\ Update(w, [workers[w] EXCEPT !.pc = "choose", !.todo = Investors])
  /\ UNCHANGED <<ledger, sub, mirror, queue, clock, faults, mail>>

\* AlertNotReady: the record is retried and no investor was looked at.
AlertNotReady(w) ==
  /\ At(w, "load")
  /\ faults < MaxFaults
  /\ faults' = faults + 1
  /\ Update(w, [workers[w] EXCEPT !.pc = "choose", !.retry = TRUE])
  /\ UNCHANGED <<ledger, sub, mirror, queue, clock, mail>>

\* _deliver_to: read the investor's subscription and rule once.
LoadWatcher(w) ==
  /\ At(w, "choose")
  /\ \E i \in workers[w].todo :
       LET a    == ArtifactOf[workers[w].rec]
           left == workers[w].todo \ {i}
       IN  IF a \in sub[i].wants
           THEN Update(w, [workers[w] EXCEPT !.todo = left, !.pc = "claim",
                                             !.key = <<i, a>>, !.seen = sub[i]])
           ELSE Update(w, [workers[w] EXCEPT !.todo = left])
  /\ UNCHANGED <<ledger, sub, mirror, queue, clock, faults, mail>>

\* Mutant: taking over a stale claim keeps its claimed_at.
ClaimKeepsLease(w) ==
  /\ At(w, "claim")
  /\ LET d == workers[w].key
         n == IF ledger[d].status = "CLAIMED" THEN ledger[d].claim
              ELSE ledger[d].claim + 1
     IN  /\ Reclaimable(ledger[d])
         /\ ledger' = [ledger EXCEPT ![d] =
              [@ EXCEPT !.status = "CLAIMED", !.claim = n, !.stale = FALSE,
                        !.recent = TRUE, !.holder = workers[w].rec]]
         /\ Update(w, [workers[w] EXCEPT !.pc = "cap", !.lease = n])
  /\ UNCHANGED <<sub, mirror, queue, clock, faults, mail>>

\* claim(): the conflict update takes the row or leaves it alone; committed.
Claim(w) ==
  /\ At(w, "claim")
  /\ LET d == workers[w].key
         n == ledger[d].claim + 1
     IN  \/ /\ Reclaimable(ledger[d])
            /\ ledger' = [ledger EXCEPT ![d] =
                 [@ EXCEPT !.status = "CLAIMED", !.claim = n, !.stale = FALSE,
                           !.recent = TRUE, !.holder = workers[w].rec]]
            /\ Update(w, [workers[w] EXCEPT !.pc = "cap", !.lease = n])
         \/ /\ ~Reclaimable(ledger[d])
            /\ Move(w, "held")
            /\ UNCHANGED ledger
  /\ UNCHANGED <<sub, mirror, queue, clock, faults, mail>>

\* Mutant: an alert that is settled in any way goes on as a rollup.
SettledTurns(w) ==
  /\ At(w, "held")
  /\ LET d      == workers[w].key
         status == ledger[d].status
     IN  IF d \in Direct /\ status # "CLAIMED"
         THEN TurnToRollup(w)
         ELSE NextInvestor(w, status \notin Settled)
  /\ UNCHANGED <<ledger, sub, mirror, queue, clock, faults, mail>>

\* The status of the row that was not ours is read after claim()'s commit.
ReadHeld(w) ==
  /\ At(w, "held")
  /\ LET d      == workers[w].key
         status == ledger[d].status
     IN  IF d \in Direct /\ status = "SUPPRESSED_CAP"
         THEN TurnToRollup(w)
         ELSE NextInvestor(w, status \notin Settled)
  /\ UNCHANGED <<ledger, sub, mirror, queue, clock, faults, mail>>

\* _hold_back, first half: the verification the attempt read, then the cap.
CheckCap(w) ==
  /\ At(w, "cap")
  /\ LET d == workers[w].key
     IN  \/ /\ ~workers[w].seen.verified
            /\ Conclude(w, "REJECTED")
         \/ /\ workers[w].seen.verified
            /\ d \in Direct /\ OverRunCap(d)
            /\ Conclude(w, "SUPPRESSED_CAP")
         \/ /\ workers[w].seen.verified
            /\ d \in Direct => ~OverRunCap(d)
            /\ Move(w, "budget")
            /\ UNCHANGED clock
  /\ UNCHANGED <<ledger, sub, mirror, queue, faults, mail>>

CheckBudget(w) ==
  /\ At(w, "budget")
  /\ \/ /\ OverBudget
        /\ Conclude(w, "SUPPRESSED_BUDGET")
     \/ /\ ~OverBudget
        /\ Move(w, "wanted")
        /\ UNCHANGED clock
  /\ UNCHANGED <<ledger, sub, mirror, queue, faults, mail>>

\* Mutant: the subscription is read again but not compared.
WantsIt(w) ==
  ArtifactOf[workers[w].rec] \in sub[InvestorOf(workers[w].key)].wants

\* _still_wanted: the subscription and rule are read again and compared.
StillWanted(w) ==
  LET i == InvestorOf(workers[w].key)
  IN  /\ sub[i] = workers[w].seen
      /\ ArtifactOf[workers[w].rec] \in sub[i].wants

CheckWanted(w) ==
  /\ At(w, "wanted")
  /\ \/ /\ ~StillWanted(w)
        /\ Conclude(w, "REJECTED")
     \/ /\ StillWanted(w)
        /\ Move(w, IF workers[w].key \in Direct THEN "send" ELSE "compose")
        /\ UNCHANGED clock
  /\ UNCHANGED <<ledger, sub, mirror, queue, faults, mail>>

\* _compose counts the capped alerts a rollup reports; none is a failure.
CountCapped(w) ==
  /\ At(w, "compose")
  /\ IF CappedRows(workers[w].key) = {}
     THEN Conclude(w, "FAILED")
     ELSE Move(w, "send") /\ UNCHANGED clock
  /\ UNCHANGED <<ledger, sub, mirror, queue, faults, mail>>

\* _send.  FAILED stands for Unavailable, Misconfigured and an email that
\* could not be composed; in the last case the provider took the email but
\* its answer was lost on the way back.
Send(w) ==
  LET d == workers[w].key
  IN  /\ At(w, "send")
      /\ \/ /\ mail' = [mail EXCEPT ![d].sent = @ + 1]
            /\ Conclude(w, "SENT")
            /\ UNCHANGED faults
         \/ /\ Conclude(w, "REJECTED")
            /\ UNCHANGED <<mail, faults>>
         \/ /\ Conclude(w, "FAILED")
            /\ UNCHANGED <<mail, faults>>
         \/ /\ faults < MaxFaults
            /\ faults' = faults + 1
            /\ mail' = [mail EXCEPT ![d] = [sent |-> @.sent + 1, lost |-> @.lost + 1]]
            /\ Conclude(w, "FAILED")
      /\ UNCHANGED <<ledger, sub, mirror, queue>>

\* record(): one transaction over the row and the subscription's copy.
Stored(d, outcome) ==
  IF outcome = "SENT" /\ d \notin Direct THEN "ROLLUP_SENT" ELSE outcome

\* Mutant: the last transaction to commit wins.
MirroredBlindly(shown, status, at) == [status |-> status, at |-> at]

Mirrored(shown, status, at) ==
  IF shown.at < at THEN [status |-> status, at |-> at] ELSE shown

\* Mutant: the outcome is written whoever holds the row now.
AnyLease(w) == TRUE

LeaseHeld(w) ==
  LET row == ledger[workers[w].key]
  IN  row.status = "CLAIMED" /\ row.claim = workers[w].lease

Record(w) ==
  LET d      == workers[w].key
      status == Stored(d, workers[w].outcome)
      at     == workers[w].at
  IN  /\ At(w, "record")
      /\ LeaseHeld(w)
      /\ ledger' = [ledger EXCEPT ![d] =
           [@ EXCEPT !.status = status, !.stale = FALSE, !.at = at,
                     !.recent = status \in SentStatuses]]
      /\ mirror' = [mirror EXCEPT ![InvestorOf(d)] = Mirrored(@, status, at)]
      /\ IF status = "SUPPRESSED_CAP"
         THEN TurnToRollup(w)
         ELSE NextInvestor(w, status = "FAILED")
      /\ UNCHANGED <<sub, queue, clock, faults, mail>>

\* LeaseLost: nothing is written and the record is retried.
RecordLeaseLost(w) ==
  LET d == workers[w].key
  IN  /\ At(w, "record")
      /\ ~LeaseHeld(w)
      /\ NextInvestor(w, TRUE)
      /\ mail' = IF workers[w].outcome = "SENT"
                 THEN [mail EXCEPT ![d].lost = @ + 1] ELSE mail
      /\ UNCHANGED <<ledger, sub, mirror, queue, clock, faults>>

\* Once every investor was tried, the record is acknowledged or handed back
\* as a batch item failure.
Finish(w) ==
  LET r == workers[w].rec
  IN  /\ At(w, "choose")
      /\ workers[w].todo = {}
      /\ queue' = [queue EXCEPT ![r].state =
                     IF workers[w].retry THEN "waiting" ELSE "done"]
      /\ Update(w, IdleWorker)
      /\ UNCHANGED <<ledger, sub, mirror, clock, faults, mail>>

-----------------------------------------------------------------------------
(* What may go wrong, and what goes on around the workers.                 *)

\* An email whose acceptance dies with the attempt.
Forget(w) ==
  mail' = IF workers[w].pc = "record" /\ workers[w].outcome = "SENT"
          THEN [mail EXCEPT ![workers[w].key].lost = @ + 1] ELSE mail

\* A database or provider call raises: the claim stays, the record is
\* retried, and the record's other investors still get their attempt.
Raise(w) ==
  /\ workers[w].pc \notin {"idle", "load", "choose"}
  /\ faults < MaxFaults
  /\ faults' = faults + 1
  /\ Forget(w)
  /\ NextInvestor(w, TRUE)
  /\ UNCHANGED <<ledger, sub, mirror, queue, clock>>

\* The container stops: at any point, also after the last outcome was
\* recorded and before the batch was acknowledged.
Crash(w) ==
  /\ ~At(w, "idle")
  /\ faults < MaxFaults
  /\ faults' = faults + 1
  /\ Forget(w)
  /\ queue' = [queue EXCEPT ![workers[w].rec].state = "waiting"]
  /\ Update(w, IdleWorker)
  /\ UNCHANGED <<ledger, sub, mirror, clock>>

\* The visibility timeout of a record that was not acknowledged runs out.
\* After the last receive SQS moves it to the dead-letter queue.  With
\* StaleFirst the timeout (30 min) is longer than a claim stays fresh (15).
Redeliver(r) ==
  /\ queue[r].state = "waiting"
  /\ queue' = [queue EXCEPT ![r].state =
                 IF queue[r].receives >= MaxReceives THEN "dead" ELSE "visible"]
  /\ ledger' = [d \in Deliveries |->
       [ledger[d] EXCEPT !.stale =
          @ \/ (StaleFirst /\ Abandoned(d) /\ ledger[d].holder = r)]]
  /\ UNCHANGED <<sub, mirror, workers, clock, faults, mail>>

\* A claim passes ALERT_CLAIM_STALE_MINUTES.
GoStale(d) ==
  /\ ledger[d].status = "CLAIMED"
  /\ ~ledger[d].stale
  /\ SlowWorkers \/ Abandoned(d)
  /\ ledger' = [ledger EXCEPT ![d].stale = TRUE]
  /\ UNCHANGED <<sub, mirror, queue, workers, clock, faults, mail>>

\* A send, or the claim of a worker long gone, leaves the 24-hour window.
LeaveWindow(d) ==
  /\ ledger[d].recent
  /\ \/ ledger[d].status \in SentStatuses
     \/ Abandoned(d) /\ ledger[d].stale
  /\ ledger' = [ledger EXCEPT ![d].recent = FALSE]
  /\ UNCHANGED <<sub, mirror, queue, workers, clock, faults, mail>>

\* The investor saves preferences, confirms an address or unsubscribes.
ChangePreferences(i) ==
  /\ sub[i].edition < MaxChanges
  /\ \E v \in BOOLEAN, wanted \in SUBSET Artifacts :
       sub' = [sub EXCEPT ![i] = [verified |-> v, wants |-> wanted,
                                  edition |-> sub[i].edition + 1]]
  /\ workers' = [w \in Workers |-> [workers[w] EXCEPT !.late =
       @ \/ (workers[w].pc \in {"compose", "send"} /\ InvestorOf(workers[w].key) = i)]]
  /\ UNCHANGED <<ledger, mirror, queue, clock, faults, mail>>

Step(w) ==
  \/ Receive(w)
  \/ LoadAlert(w)
  \/ LoadWatcher(w)
  \/ Claim(w)
  \/ ReadHeld(w)
  \/ CheckCap(w)
  \/ CheckBudget(w)
  \/ CheckWanted(w)
  \/ CountCapped(w)
  \/ Send(w)
  \/ Record(w)
  \/ RecordLeaseLost(w)
  \/ Finish(w)

Fault(w) == AlertNotReady(w) \/ Raise(w) \/ Crash(w)

Next ==
  \/ \E w \in Workers : Step(w) \/ Fault(w)
  \/ \E r \in Records : Redeliver(r)
  \/ \E d \in Deliveries : GoStale(d) \/ LeaveWindow(d)
  \/ \E i \in Investors : ChangePreferences(i)

Spec == Init /\ [][Next]_vars

\* Lambda runs a container until its record is dealt with, SQS offers a
\* record again for as long as it is neither acknowledged nor dead.
FairSpec == /\ Spec
            /\ \A w \in Workers : WF_vars(Step(w))
            /\ \A r \in Records : WF_vars(Redeliver(r))

-----------------------------------------------------------------------------
(* Properties                                                              *)

\* The worker's attempt got past a check, or past all of them and sent.
Past(w, phases) == \/ workers[w].pc \in phases
                   \/ workers[w].pc = "record" /\ workers[w].outcome = "SENT"

ClearedCap(d) ==
  \/ ledger[d].status = "SENT"
  \/ \E w \in Workers : Holds(w, d) /\ Past(w, {"budget", "wanted", "compose", "send"})

ClearedBudget(d) ==
  \/ ledger[d].status \in SentStatuses
  \/ \E w \in Workers : Holds(w, d) /\ Past(w, {"wanted", "compose", "send"})

\* However workers interleave, the alerts of one investor and run that were
\* sent, or that some worker is already cleared to send, never exceed the
\* per-run cap (alert_delivery.py: workers running at the same time cannot
\* together overshoot the per-run cap).
CapRespected ==
  \A i \in Investors, run \in Runs :
    Cardinality({d \in Direct : /\ InvestorOf(d) = i
                                /\ RunOfRow(d) = run
                                /\ ClearedCap(d)}) <= Cap

\* Likewise for the account's daily budget over all investors, alerts and
\* rollups of the last 24 hours.
BudgetRespected ==
  Cardinality({d \in Deliveries : ledger[d].recent /\ ClearedBudget(d)}) <= Budget

\* No two workers hold the claim of one row: only one of them may record,
\* whatever takeovers and retries came before.
ExclusiveLease ==
  \A d \in Deliveries, v, w \in Workers : Holds(v, d) /\ Holds(w, d) => v = w

\* Without a lost answer or a stopped worker no row's email goes out twice,
\* however often its record is delivered (deployment.md: duplicate queue
\* messages do not send a second email).
DuplicateNeedsLoss == \A d \in Deliveries : mail[d].sent <= 1 + mail[d].lost

\* A rollup exists only where the cap held something back, so the email
\* always has a count to report and "rollup_count_not_visible" cannot occur.
RollupHasCapped ==
  \A d \in Rollups : ledger[d].status # "NONE" =>
    \E e \in Direct : Rollup(e) = d /\ ledger[e].status = "SUPPRESSED_CAP"

\* The subscription never shows an outcome older than one in the ledger,
\* although record() stamps before its transaction and commits may swap.
MirrorNewest ==
  \A d \in Deliveries :
    LET shown == mirror[InvestorOf(d)]
    IN  /\ ledger[d].at <= shown.at
        /\ shown.at > 0 /\ ledger[d].at = shown.at /\ ledger[d].status \in Final
             => shown.status = ledger[d].status

RunAcknowledged(run) ==
  \A r \in Records : RunOf[ArtifactOf[r]] = run => queue[r].state = "done"

\* Once every record of a run was acknowledged, nothing of it is left over
\* for an investor whose preferences stayed as they were: each alert wanted
\* has its row, no row is failed or still claimed, and every capped alert has
\* its rollup settled.  (An investor who opts out between a failed attempt
\* and its retry keeps the row: the retry stops before it looks at it.)
NothingForgotten ==
  \A run \in Runs, i \in Investors :
    RunAcknowledged(run) /\ sub[i].edition = 0 =>
      /\ \A r \in Records : RunOf[ArtifactOf[r]] = run =>
           ledger[<<i, ArtifactOf[r]>>].status # "NONE"
      /\ \A d \in Deliveries : InvestorOf(d) = i /\ RunOfRow(d) = run =>
           /\ ledger[d].status \notin {"CLAIMED", "FAILED"}
           /\ ledger[d].status = "SUPPRESSED_CAP" =>
                ledger[Rollup(d)].status \in Final

\* An email goes out only to an address that is confirmed now and for an
\* alert that is wanted now, as the investor's preferences stood when the
\* attempt began.  The one window is between _still_wanted and the send.
EmailsWanted ==
  \A w \in Workers : workers[w].pc = "send" /\ ~workers[w].late =>
    LET now == sub[InvestorOf(workers[w].key)]
    IN  /\ now.verified
        /\ ArtifactOf[workers[w].rec] \in now.wants
        /\ now = workers[w].seen

\* A claim that its worker abandoned, or a failed attempt, is resolved by a
\* redelivery unless a record of the run ends in the dead-letter queue.
RowsResolve ==
  \A d \in Deliveries :
    ledger[d].status \in {"CLAIMED", "FAILED"} ~>
      \/ ledger[d].status \notin {"CLAIMED", "FAILED"}
      \/ \E r \in Records : queue[r].state = "dead"

\* alert_delivery.py: "An investor gets at most
\* ALERT_MAX_PER_INVESTOR_PER_RUN alerts for one scrape run."
AlertsWithinCap ==
  \A i \in Investors, run \in Runs :
    Cardinality({d \in Direct : /\ InvestorOf(d) = i
                                /\ RunOfRow(d) = run
                                /\ mail[d].sent > 0}) <= Cap

-----------------------------------------------------------------------------
(* The abstract promise, read off the ledger.                              *)

FateOf(status) ==
  CASE status \in {"NONE", "CLAIMED", "FAILED"}          -> "open"
    [] status \in SentStatuses                           -> "sent"
    [] status \in {"REJECTED", "SUPPRESSED_BUDGET"}      -> "dropped"
    [] status = "SUPPRESSED_CAP"                         -> "capped"

Promise == INSTANCE AlertPromise
             WITH fate <- [d \in Deliveries |-> FateOf(ledger[d].status)]

\* Every ledger the workers can produce, by any interleaving, crash, retry or
\* takeover, keeps the promise: an outcome other than "failed" is never
\* rewritten, the cap holds, and rollups stand in for capped alerts only.
PromiseKept == Promise!Spec
=============================================================================
