------------------------ MODULE AlertDeliveryProofs ------------------------
(***************************************************************************)
(* Proofs about AlertDelivery for every number of investors, artifacts,    *)
(* runs, records and workers, every cap and budget, and any fault bound.   *)
(***************************************************************************)
EXTENDS AlertDelivery, FiniteSetTheorems, TLAPS

Attempting == {"claim", "held", "cap", "budget", "wanted", "compose", "send",
               "record"}

(* What the program counter says about the other fields of a worker.       *)
Shape(n) ==
  /\ n.pc # "idle" => n.rec \in Records
  /\ n.pc \in Attempting => n.key \in Deliveries
  /\ n.pc = "record" => n.outcome \in Outcomes
  /\ n.pc = "record" /\ n.outcome = "SUPPRESSED_CAP" => n.key \in Direct

WorkerShape == \A w \in Workers : Shape(workers[w])

TypeInv == TypeOK /\ WorkerShape

-----------------------------------------------------------------------------
(* The ledger's keys.                                                      *)

(* Every row belongs to one investor and run, and its rollup is a row of
   that investor and run that is no alert. *)
LEMMA KeyShape ==
  ASSUME NEW d \in Deliveries
  PROVE  /\ InvestorOf(d) \in Investors
         /\ RunOfRow(d) \in Runs
         /\ Rollup(d) \in Rollups
         /\ Rollup(d) \in Deliveries
         /\ Rollup(d) \notin Direct
         /\ InvestorOf(Rollup(d)) = InvestorOf(d)
         /\ RunOfRow(Rollup(d)) = RunOfRow(d)
         /\ d \in Rollups => d \notin Direct /\ Rollup(d) = d
  BY SubjectsDisjoint, RunOfArtifacts
     DEF Deliveries, Direct, Rollups, InvestorOf, RunOfRow, Rollup

(* The ledger has finitely many rows: what the caps count is a number. *)
LEMMA DeliveriesFinite == IsFiniteSet(Deliveries) /\ IsFiniteSet(Direct)
  <1>1. IsFiniteSet(Investors \X Artifacts) /\ IsFiniteSet(Investors \X Runs)
    BY FiniteLedger, FS_Product
  <1> QED
    BY <1>1, FS_Union DEF Deliveries, Direct, Rollups

-----------------------------------------------------------------------------
(* Type correctness.                                                       *)

(* An idle container is a worker. *)
LEMMA IdleIsWorker == IdleWorker \in Worker
  BY DEF IdleWorker, Worker, Phases, Nothing, NoDelivery, NoWatcher, Watcher

(* Replacing one worker by a well-shaped one keeps the shapes. *)
LEMMA UpdateType ==
  ASSUME TypeInv, NEW w \in Workers, NEW n \in Worker, Shape(n), Update(w, n)
  PROVE  workers' \in [Workers -> Worker] /\ WorkerShape'
  BY DEF TypeInv, TypeOK, WorkerShape, Update, Shape

(* Concluding an attempt keeps the shapes: it stamps one of the outcomes,
   and only an alert is ever held back by the cap. *)
LEMMA ConcludeType ==
  ASSUME TypeInv, NEW w \in Workers, NEW o \in Outcomes, Conclude(w, o),
         workers[w].pc \in Attempting,
         o = "SUPPRESSED_CAP" => workers[w].key \in Direct
  PROVE  workers' \in [Workers -> Worker] /\ clock' \in Nat /\ WorkerShape'
  <1> DEFINE n == [workers[w] EXCEPT !.pc = "record", !.outcome = o, !.at = clock]
  <1>1. workers[w] \in Worker /\ Shape(workers[w])
    BY DEF TypeInv, TypeOK, WorkerShape
  <1>2. n \in Worker /\ Shape(n)
    BY <1>1 DEF TypeInv, TypeOK, Worker, Phases, Shape, Attempting
  <1>3. Update(w, n) /\ clock' \in Nat
    BY DEF Conclude, TypeInv, TypeOK
  <1> HIDE DEF n
  <1> QED BY <1>2, <1>3, UpdateType

(* Moving on within an attempt keeps the shapes. *)
LEMMA MoveType ==
  ASSUME TypeInv, NEW w \in Workers, NEW p \in Attempting \ {"record"}, Move(w, p),
         workers[w].pc \in Attempting
  PROVE  workers' \in [Workers -> Worker] /\ WorkerShape'
  <1> DEFINE n == [workers[w] EXCEPT !.pc = p]
  <1>1. workers[w] \in Worker /\ Shape(workers[w])
    BY DEF TypeInv, TypeOK, WorkerShape
  <1>2. n \in Worker /\ Shape(n)
    BY <1>1 DEF Worker, Phases, Shape, Attempting
  <1>3. Update(w, n)
    BY DEF Move
  <1> HIDE DEF n
  <1> QED BY <1>2, <1>3, UpdateType

(* Going back to the list of investors keeps the shapes. *)
LEMMA NextInvestorType ==
  ASSUME TypeInv, NEW w \in Workers, NEW b \in BOOLEAN, NextInvestor(w, b),
         workers[w].pc # "idle"
  PROVE  workers' \in [Workers -> Worker] /\ WorkerShape'
  <1> DEFINE n == [IdleWorker EXCEPT !.pc = "choose", !.rec = workers[w].rec,
                                     !.todo = workers[w].todo,
                                     !.retry = workers[w].retry \/ b]
  <1>1. workers[w] \in Worker /\ Shape(workers[w])
    BY DEF TypeInv, TypeOK, WorkerShape
  <1>2. (workers[w].retry \/ b) \in BOOLEAN
    BY <1>1 DEF Worker
  <1>3. n \in Worker /\ Shape(n)
    BY <1>1, <1>2, IdleIsWorker DEF IdleWorker, Worker, Phases, Shape, Attempting
  <1>4. Update(w, n)
    BY DEF NextInvestor
  <1> HIDE DEF n
  <1> QED BY <1>3, <1>4, UpdateType

(* Turning to the rollup keeps the shapes: the new key is a row again. *)
LEMMA TurnToRollupType ==
  ASSUME TypeInv, NEW w \in Workers, TurnToRollup(w), workers[w].pc \in Attempting
  PROVE  workers' \in [Workers -> Worker] /\ WorkerShape'
  <1> DEFINE n == [workers[w] EXCEPT !.pc = "claim", !.key = Rollup(workers[w].key),
                                     !.lease = 0, !.outcome = Nothing, !.at = 0]
  <1>1. workers[w] \in Worker /\ Shape(workers[w])
    BY DEF TypeInv, TypeOK, WorkerShape
  <1>2. Rollup(workers[w].key) \in Deliveries
    BY <1>1, KeyShape DEF Shape
  <1>3. n \in Worker /\ Shape(n)
    BY <1>1, <1>2 DEF Worker, Phases, Shape, Attempting, Nothing
  <1>4. Update(w, n)
    BY DEF TurnToRollup
  <1> HIDE DEF n
  <1> QED BY <1>3, <1>4, UpdateType

(* One row, one queued record or one counter of emails at a time.          *)
LEMMA RowType ==
  ASSUME TypeInv, NEW d \in Deliveries, NEW n \in Row,
         ledger' = [ledger EXCEPT ![d] = n]
  PROVE  ledger' \in [Deliveries -> Row]
  BY DEF TypeInv, TypeOK

(* Counting a lost answer keeps the type of the mail counters. *)
LEMMA ForgetType ==
  ASSUME TypeInv, NEW w \in Workers, Forget(w)
  PROVE  mail' \in [Deliveries -> [sent: Nat, lost: Nat]]
  <1> DEFINE d == workers[w].key
  <1>1. CASE mail' = mail
    BY <1>1 DEF TypeInv, TypeOK
  <1>2. CASE mail' # mail
    <2>1. mail' = [mail EXCEPT ![d].lost = @ + 1] /\ workers[w].pc = "record"
      BY <1>2 DEF Forget
    <2>2. d \in Deliveries
      BY <2>1 DEF TypeInv, WorkerShape, Shape, Attempting
    <2> HIDE DEF d
    <2> QED BY <2>1, <2>2 DEF TypeInv, TypeOK
  <1> QED BY <1>1, <1>2

(* Every step of a worker keeps the type invariant. *)
LEMMA StepType ==
  ASSUME TypeInv, NEW w \in Workers, Step(w)
  PROVE  TypeInv'
  <1> USE DEF TypeInv, At
  <1>0. workers[w] \in Worker /\ Shape(workers[w])
    BY DEF TypeOK, WorkerShape
  <1>1. CASE Receive(w)
    <2>1. PICK r \in Records :
            /\ queue' = [queue EXCEPT ![r] = [state |-> "inflight",
                                             receives |-> @.receives + 1]]
            /\ Update(w, [workers[w] EXCEPT !.pc = "load", !.rec = r])
      BY <1>1 DEF Receive
    <2>2. queue' \in [Records -> QueuedRecord]
      BY <2>1 DEF TypeOK, QueuedRecord
    <2>3. LET n == [workers[w] EXCEPT !.pc = "load", !.rec = r]
          IN  n \in Worker /\ Shape(n)
      BY <1>0 DEF Worker, Phases, Shape, Attempting
    <2>4. workers' \in [Workers -> Worker] /\ WorkerShape'
      BY <2>1, <2>3, UpdateType
    <2> QED BY <1>1, <2>2, <2>4 DEF Receive, TypeOK
  <1>2. CASE LoadAlert(w)
    <2>1. LET n == [workers[w] EXCEPT !.pc = "choose", !.todo = Investors]
          IN  n \in Worker /\ Shape(n) /\ Update(w, n)
      BY <1>0, <1>2 DEF LoadAlert, Worker, Phases, Shape, Attempting
    <2>2. workers' \in [Workers -> Worker] /\ WorkerShape'
      BY <2>1, UpdateType
    <2> QED BY <1>2, <2>2 DEF LoadAlert, TypeOK
  <1>3. CASE LoadWatcher(w)
    <2> DEFINE a == ArtifactOf[workers[w].rec]
    <2>1. PICK i \in workers[w].todo :
            \/ Update(w, [workers[w] EXCEPT !.todo = workers[w].todo \ {i},
                               !.pc = "claim", !.key = <<i, a>>, !.seen = sub[i]])
            \/ Update(w, [workers[w] EXCEPT !.todo = workers[w].todo \ {i}])
      BY <1>3 DEF LoadWatcher
    <2>2. workers[w].pc = "choose" /\ a \in Artifacts /\ i \in Investors
      BY <1>0, <1>3, ArtifactOfRecords DEF LoadWatcher, Shape, Worker
    <2>3. <<i, a>> \in Deliveries /\ sub[i] \in Watcher
      BY <2>2 DEF TypeOK, Deliveries, Direct
    <2>4. LET n == [workers[w] EXCEPT !.todo = workers[w].todo \ {i},
                           !.pc = "claim", !.key = <<i, a>>, !.seen = sub[i]]
          IN  n \in Worker /\ Shape(n)
      BY <1>0, <2>2, <2>3 DEF Worker, Phases, Shape, Attempting
    <2>5. LET n == [workers[w] EXCEPT !.todo = workers[w].todo \ {i}]
          IN  n \in Worker /\ Shape(n)
      BY <1>0, <2>2 DEF Worker, Phases, Shape, Attempting
    <2>6. workers' \in [Workers -> Worker] /\ WorkerShape'
      BY <2>1, <2>4, <2>5, UpdateType
    <2> QED BY <1>3, <2>6 DEF LoadWatcher, TypeOK
  <1>4. CASE Claim(w)
    <2> DEFINE d == workers[w].key
    <2>1. d \in Deliveries /\ workers[w].pc \in Attempting /\ workers[w].rec \in Records
      BY <1>0, <1>4 DEF Claim, Shape, Attempting
    <2>2. ledger[d] \in Row
      BY <2>1 DEF TypeOK
    <2>3. CASE ~Reclaimable(ledger[d])
      <3>1. Move(w, "held") /\ ledger' = ledger
        BY <1>4, <2>3 DEF Claim
      <3>2. workers' \in [Workers -> Worker] /\ WorkerShape'
        BY <2>1, <3>1, MoveType DEF Attempting
      <3> QED BY <1>4, <3>1, <3>2 DEF Claim, TypeOK
    <2>4. CASE Reclaimable(ledger[d])
      <3> DEFINE k == ledger[d].claim + 1
                 n == [workers[w] EXCEPT !.pc = "cap", !.lease = k]
                 row == [ledger[d] EXCEPT !.status = "CLAIMED", !.claim = k,
                           !.stale = FALSE, !.recent = TRUE,
                           !.holder = workers[w].rec]
      <3>1. Update(w, n) /\ ledger' = [ledger EXCEPT ![d] = row]
        BY <1>4, <2>4 DEF Claim
      <3>0. k \in Nat
        BY <2>2 DEF Row
      <3>2. n \in Worker /\ Shape(n)
        <4> HIDE DEF k, d
        <4>1. n \in Worker
          BY <1>0, <3>0 DEF Worker, Phases
        <4>2. n.pc = "cap" /\ n.key = d /\ n.rec = workers[w].rec
          BY <1>0 DEF Worker, d
        <4> HIDE DEF n
        <4> QED BY <2>1, <4>1, <4>2 DEF Shape, Attempting
      <3>3. row \in Row
        <4> HIDE DEF k, d
        <4> QED BY <2>1, <2>2, <3>0 DEF Row, Statuses
      <3>4. workers' \in [Workers -> Worker] /\ WorkerShape'
        <4> HIDE DEF n
        <4> QED BY <3>1, <3>2, UpdateType
      <3>5. ledger' \in [Deliveries -> Row]
        <4> HIDE DEF row, d
        <4> QED BY <2>1, <3>1, <3>3, RowType
      <3> QED BY <1>4, <3>4, <3>5 DEF Claim, TypeOK
    <2> QED BY <2>3, <2>4
  <1>5. CASE ReadHeld(w)
    <2>1. workers[w].pc \in Attempting /\ workers[w].pc # "idle"
      BY <1>5 DEF ReadHeld, Attempting
    <2>2. TurnToRollup(w) \/ \E b \in BOOLEAN : NextInvestor(w, b)
      BY <1>5 DEF ReadHeld
    <2>3. workers' \in [Workers -> Worker] /\ WorkerShape'
      BY <2>1, <2>2, TurnToRollupType, NextInvestorType
    <2> QED BY <1>5, <2>3 DEF ReadHeld, TypeOK
  <1>6. CASE CheckCap(w)
    <2>1. workers[w].pc \in Attempting
      BY <1>6 DEF CheckCap, Attempting
    <2>2. \/ Move(w, "budget") /\ clock' = clock
          \/ Conclude(w, "REJECTED")
          \/ workers[w].key \in Direct /\ Conclude(w, "SUPPRESSED_CAP")
      BY <1>6 DEF CheckCap
    <2>3. workers' \in [Workers -> Worker] /\ WorkerShape' /\ clock' \in Nat
      BY <2>1, <2>2, MoveType, ConcludeType DEF TypeOK, Attempting, Outcomes
    <2> QED BY <1>6, <2>3 DEF CheckCap, TypeOK
  <1>7. CASE CheckBudget(w)
    <2>1. workers[w].pc \in Attempting
      BY <1>7 DEF CheckBudget, Attempting
    <2>2. (Move(w, "wanted") /\ clock' = clock) \/ Conclude(w, "SUPPRESSED_BUDGET")
      BY <1>7 DEF CheckBudget
    <2>3. workers' \in [Workers -> Worker] /\ WorkerShape' /\ clock' \in Nat
      BY <2>1, <2>2, MoveType, ConcludeType DEF TypeOK, Attempting, Outcomes
    <2> QED BY <1>7, <2>3 DEF CheckBudget, TypeOK
  <1>8. CASE CheckWanted(w)
    <2>1. workers[w].pc \in Attempting
      BY <1>8 DEF CheckWanted, Attempting
    <2>2. \/ Conclude(w, "REJECTED")
          \/ clock' = clock /\ \E p \in {"send", "compose"} : Move(w, p)
      BY <1>8 DEF CheckWanted
    <2>3. workers' \in [Workers -> Worker] /\ WorkerShape' /\ clock' \in Nat
      BY <2>1, <2>2, MoveType, ConcludeType DEF TypeOK, Attempting, Outcomes
    <2> QED BY <1>8, <2>3 DEF CheckWanted, TypeOK
  <1>9. CASE CountCapped(w)
    <2>1. workers[w].pc \in Attempting
      BY <1>9 DEF CountCapped, Attempting
    <2>2. (Move(w, "send") /\ clock' = clock) \/ Conclude(w, "FAILED")
      BY <1>9 DEF CountCapped
    <2>3. workers' \in [Workers -> Worker] /\ WorkerShape' /\ clock' \in Nat
      BY <2>1, <2>2, MoveType, ConcludeType DEF TypeOK, Attempting, Outcomes
    <2> QED BY <1>9, <2>3 DEF CountCapped, TypeOK
  <1>10. CASE Send(w)
    <2>1. workers[w].pc \in Attempting
      BY <1>10 DEF Send, Attempting
    <2>2. \E o \in {"SENT", "REJECTED", "FAILED"} : Conclude(w, o)
      BY <1>10 DEF Send
    <2>3. workers' \in [Workers -> Worker] /\ WorkerShape' /\ clock' \in Nat
      BY <2>1, <2>2, ConcludeType DEF Outcomes
    <2>4. mail' \in [Deliveries -> [sent: Nat, lost: Nat]] /\ faults' \in Nat
      BY <1>10 DEF Send, TypeOK
    <2> QED BY <1>10, <2>3, <2>4 DEF Send, TypeOK
  <1>11. CASE Record(w)
    <2> DEFINE d      == workers[w].key
               status == Stored(d, workers[w].outcome)
    <2>1. /\ d \in Deliveries
          /\ workers[w].pc \in Attempting /\ workers[w].pc # "idle"
          /\ status \in Statuses
          /\ workers[w].at \in Nat
      BY <1>0, <1>11 DEF Record, Shape, Attempting, Stored, Statuses, Worker
    <2>2. ledger[d] \in Row
      BY <2>1 DEF TypeOK
    <2>3. ledger' \in [Deliveries -> Row]
      <3> DEFINE row == [ledger[d] EXCEPT !.status = status, !.stale = FALSE,
                           !.at = workers[w].at, !.recent = status \in SentStatuses]
      <3>1. row \in Row
        <4>1. (status \in SentStatuses) \in BOOLEAN
          OBVIOUS
        <4> HIDE DEF status
        <4> QED BY <2>1, <2>2, <4>1 DEF Row
      <3>2. ledger' = [ledger EXCEPT ![d] = row]
        BY <1>11 DEF Record
      <3> HIDE DEF row, d
      <3> QED BY <2>1, <3>1, <3>2, RowType
    <2>4. mirror' \in [Investors -> Shown]
      BY <1>11, <2>1, KeyShape DEF Record, TypeOK, Mirrored, Shown
    <2>5. TurnToRollup(w) \/ \E b \in BOOLEAN : NextInvestor(w, b)
      BY <1>11 DEF Record
    <2>6. workers' \in [Workers -> Worker] /\ WorkerShape'
      BY <2>1, <2>5, TurnToRollupType, NextInvestorType
    <2> QED BY <1>11, <2>3, <2>4, <2>6 DEF Record, TypeOK
  <1>12. CASE RecordLeaseLost(w)
    <2>1. workers[w].pc # "idle" /\ NextInvestor(w, TRUE)
      BY <1>12 DEF RecordLeaseLost
    <2>2. workers' \in [Workers -> Worker] /\ WorkerShape'
      BY <2>1, NextInvestorType
    <2>3. mail' \in [Deliveries -> [sent: Nat, lost: Nat]]
      BY <1>12, ForgetType DEF RecordLeaseLost, Forget
    <2> QED BY <1>12, <2>2, <2>3 DEF RecordLeaseLost, TypeOK
  <1>13. CASE Finish(w)
    <2>1. workers' \in [Workers -> Worker] /\ WorkerShape'
      BY <1>13, IdleIsWorker, UpdateType DEF Finish, Shape, IdleWorker, Attempting
    <2>2. queue' \in [Records -> QueuedRecord]
      BY <1>13 DEF Finish, TypeOK, QueuedRecord
    <2> QED BY <1>13, <2>1, <2>2 DEF Finish, TypeOK
  <1> QED BY <1>1, <1>2, <1>3, <1>4, <1>5, <1>6, <1>7, <1>8, <1>9, <1>10, <1>11,
             <1>12, <1>13 DEF Step

(* Every fault of a worker keeps the type invariant. *)
LEMMA FaultType ==
  ASSUME TypeInv, NEW w \in Workers, Fault(w)
  PROVE  TypeInv'
  <1> USE DEF TypeInv, At
  <1>0. workers[w] \in Worker /\ Shape(workers[w])
    BY DEF TypeOK, WorkerShape
  <1>1. CASE AlertNotReady(w)
    <2>1. LET n == [workers[w] EXCEPT !.pc = "choose", !.retry = TRUE]
          IN  n \in Worker /\ Shape(n) /\ Update(w, n)
      BY <1>0, <1>1 DEF AlertNotReady, Worker, Phases, Shape, Attempting
    <2>2. workers' \in [Workers -> Worker] /\ WorkerShape'
      BY <2>1, UpdateType
    <2> QED BY <1>1, <2>2 DEF AlertNotReady, TypeOK
  <1>2. CASE Raise(w)
    <2>1. workers[w].pc # "idle" /\ NextInvestor(w, TRUE) /\ Forget(w)
      BY <1>2 DEF Raise
    <2>2. workers' \in [Workers -> Worker] /\ WorkerShape'
      BY <2>1, NextInvestorType
    <2> QED BY <1>2, <2>1, <2>2, ForgetType DEF Raise, TypeOK
  <1>3. CASE Crash(w)
    <2>1. workers' \in [Workers -> Worker] /\ WorkerShape'
      BY <1>3, IdleIsWorker, UpdateType DEF Crash, Shape, IdleWorker, Attempting
    <2>2. queue' \in [Records -> QueuedRecord]
      BY <1>3 DEF Crash, TypeOK, QueuedRecord
    <2> QED BY <1>3, <2>1, <2>2, ForgetType DEF Crash, TypeOK
  <1> QED BY <1>1, <1>2, <1>3 DEF Fault

(* Redelivery, the passing of time and preference changes keep it too. *)
LEMMA SurroundingsType ==
  ASSUME TypeInv,
         \/ \E r \in Records : Redeliver(r)
         \/ \E d \in Deliveries : GoStale(d) \/ LeaveWindow(d)
         \/ \E i \in Investors : ChangePreferences(i)
  PROVE  TypeInv'
  <1> USE DEF TypeInv
  <1>1. ASSUME NEW r \in Records, Redeliver(r) PROVE TypeInv'
    <2>1. queue' \in [Records -> QueuedRecord]
      BY <1>1 DEF Redeliver, TypeOK, QueuedRecord
    <2>2. ledger' \in [Deliveries -> Row]
      <3>1. ASSUME NEW d \in Deliveries
            PROVE  [ledger[d] EXCEPT !.stale =
                     @ \/ (StaleFirst /\ Abandoned(d) /\ ledger[d].holder = r)] \in Row
        <4>1. ledger[d] \in Row
          BY DEF TypeOK
        <4>2. (ledger[d].stale \/ (StaleFirst /\ Abandoned(d) /\ ledger[d].holder = r))
                \in BOOLEAN
          OBVIOUS
        <4> QED BY <4>1, <4>2 DEF Row
      <3> QED BY <1>1, <3>1 DEF Redeliver
    <2> QED BY <1>1, <2>1, <2>2 DEF Redeliver, TypeOK, WorkerShape
  <1>2. ASSUME NEW d \in Deliveries, GoStale(d) \/ LeaveWindow(d) PROVE TypeInv'
    <2>1. ledger[d] \in Row
      BY DEF TypeOK
    <2>2. /\ [ledger[d] EXCEPT !.stale = TRUE] \in Row
          /\ [ledger[d] EXCEPT !.recent = FALSE] \in Row
      BY <2>1 DEF Row
    <2>3. ledger' \in [Deliveries -> Row]
      BY <1>2, <2>2, RowType DEF GoStale, LeaveWindow
    <2> QED BY <1>2, <2>3 DEF GoStale, LeaveWindow, TypeOK, WorkerShape
  <1>3. ASSUME NEW i \in Investors, ChangePreferences(i) PROVE TypeInv'
    <2>1. sub' \in [Investors -> Watcher]
      <3>1. PICK v \in BOOLEAN, wanted \in SUBSET Artifacts :
              sub' = [sub EXCEPT ![i] = [verified |-> v, wants |-> wanted,
                                         edition |-> sub[i].edition + 1]]
        BY <1>3 DEF ChangePreferences
      <3>2. sub[i].edition + 1 \in Nat
        BY DEF TypeOK, Watcher
      <3> QED BY <3>1, <3>2 DEF TypeOK, Watcher
    <2> DEFINE n(w) == [workers[w] EXCEPT !.late = @ \/
                         (workers[w].pc \in {"compose", "send"} /\
                          InvestorOf(workers[w].key) = i)]
    <2>2. ASSUME NEW w \in Workers PROVE n(w) \in Worker /\ Shape(n(w))
      <3>1. workers[w] \in Worker /\ Shape(workers[w])
        BY DEF TypeOK, WorkerShape
      <3>2. (workers[w].late \/ (workers[w].pc \in {"compose", "send"} /\
                                InvestorOf(workers[w].key) = i)) \in BOOLEAN
        OBVIOUS
      <3> QED BY <3>1, <3>2 DEF Worker, Shape
    <2>3. workers' = [w \in Workers |-> n(w)]
      BY <1>3 DEF ChangePreferences
    <2>4. workers' \in [Workers -> Worker] /\ WorkerShape'
      <3> HIDE DEF n
      <3> QED BY <2>2, <2>3 DEF WorkerShape, Shape
    <2> QED BY <1>3, <2>1, <2>4 DEF ChangePreferences, TypeOK
  <1> QED BY <1>1, <1>2, <1>3

(* The type invariant holds initially. *)
LEMMA InitType == Init => TypeInv
  <1> SUFFICES ASSUME Init PROVE TypeInv
    OBVIOUS
  <1>1. ledger \in [Deliveries -> Row] /\ mirror \in [Investors -> Shown]
    BY DEF Init, NoRow, Row, Statuses, Shown
  <1>2. sub \in [Investors -> Watcher]
    BY DEF Init, Watcher
  <1>3. queue \in [Records -> QueuedRecord]
    BY DEF Init, QueuedRecord
  <1>4. workers \in [Workers -> Worker] /\ WorkerShape
    BY IdleIsWorker DEF Init, WorkerShape, Shape, IdleWorker, Attempting
  <1>5. /\ mail \in [Deliveries -> [sent: Nat, lost: Nat]]
        /\ clock \in Nat /\ faults \in Nat
    BY DEF Init
  <1> QED BY <1>1, <1>2, <1>3, <1>4, <1>5 DEF TypeInv, TypeOK

(* Every step keeps the type invariant. *)
LEMMA NextType == TypeInv /\ [Next]_vars => TypeInv'
  <1> SUFFICES ASSUME TypeInv, [Next]_vars PROVE TypeInv'
    OBVIOUS
  <1>1. CASE UNCHANGED vars
    BY <1>1 DEF vars, TypeInv, TypeOK, WorkerShape
  <1>2. CASE Next
    BY <1>2, StepType, FaultType, SurroundingsType DEF Next
  <1> QED BY <1>1, <1>2

(* The type invariant holds in every reachable state. *)
LEMMA TypeInvariant == Spec => []TypeInv
  BY InitType, NextType, PTL DEF Spec

(* Every reachable state is well typed: rows, queue, workers and mirror    *)
(* keep their shapes whatever the workers do.                              *)
THEOREM TypeCorrect == Spec => []TypeOK
  <1>1. TypeInv => TypeOK
    BY DEF TypeInv
  <1> QED BY <1>1, TypeInvariant, PTL

-----------------------------------------------------------------------------
(* What a step does to one row and to one worker.                          *)

Holding == {"cap", "budget", "wanted", "compose", "send", "record"}

(* A lease never runs ahead of its row: claims are only ever renewed.      *)
LeaseBound ==
  \A w \in Workers : workers[w].pc \in Holding =>
    workers[w].lease <= ledger[workers[w].key].claim

RowKept(d) == /\ ledger'[d].status = ledger[d].status
              /\ ledger'[d].claim = ledger[d].claim
              /\ ledger'[d].recent => ledger[d].recent
              /\ \A w \in Workers : Holds(w, d) => ledger'[d].recent = ledger[d].recent

RowClaimed(d, w) == /\ Claim(w)
                    /\ workers[w].key = d
                    /\ ledger[d].status \in {"NONE", "FAILED", "CLAIMED"}
                    /\ ledger'[d].status = "CLAIMED"
                    /\ ledger'[d].claim = ledger[d].claim + 1
                    /\ ledger'[d].recent
                    /\ workers'[w] = [workers[w] EXCEPT !.pc = "cap",
                                            !.lease = ledger[d].claim + 1]

RowRecorded(d, w) == /\ Record(w)
                     /\ workers[w].key = d
                     /\ Holds(w, d)
                     /\ ledger'[d].status = Stored(d, workers[w].outcome)
                     /\ ledger'[d].claim = ledger[d].claim
                     /\ ledger'[d].recent <=> (ledger'[d].status \in SentStatuses)

(* Any step keeps a row, claims it or records its outcome.                 *)
LEMMA RowStep ==
  ASSUME TypeInv, [Next]_vars, NEW d \in Deliveries
  PROVE  \/ RowKept(d)
         \/ \E w \in Workers : RowClaimed(d, w) \/ RowRecorded(d, w)
  <1> USE DEF TypeInv, At
  <1>1. CASE ledger' = ledger
    BY <1>1 DEF RowKept
  <1>2. ASSUME NEW w \in Workers, Claim(w), ledger' # ledger
        PROVE  RowKept(d) \/ RowClaimed(d, w)
    <2> DEFINE k == workers[w].key
    <2>1. k \in Deliveries
      BY <1>2 DEF Claim, WorkerShape, Shape, Attempting
    <2>2. /\ Reclaimable(ledger[k])
          /\ ledger' = [ledger EXCEPT ![k] =
               [@ EXCEPT !.status = "CLAIMED", !.claim = ledger[k].claim + 1,
                         !.stale = FALSE, !.recent = TRUE, !.holder = workers[w].rec]]
          /\ Update(w, [workers[w] EXCEPT !.pc = "cap", !.lease = ledger[k].claim + 1])
      BY <1>2 DEF Claim
    <2>3. CASE d # k
      BY <2>1, <2>2, <2>3 DEF RowKept, TypeOK
    <2>4. CASE d = k
      <3>1. ledger[d].status \in {"NONE", "FAILED", "CLAIMED"}
        BY <2>2, <2>4 DEF Reclaimable
      <3>2. ledger'[d] = [ledger[d] EXCEPT !.status = "CLAIMED",
               !.claim = ledger[d].claim + 1, !.stale = FALSE, !.recent = TRUE,
               !.holder = workers[w].rec]
        BY <2>2, <2>4 DEF TypeOK
      <3>3. ledger[d] \in Row
        BY DEF TypeOK
      <3>4. /\ ledger'[d].status = "CLAIMED"
            /\ ledger'[d].claim = ledger[d].claim + 1
            /\ ledger'[d].recent
        BY <3>2, <3>3 DEF Row
      <3>5. workers'[w] = [workers[w] EXCEPT !.pc = "cap", !.lease = ledger[d].claim + 1]
        BY <2>2, <2>4 DEF Update, TypeOK
      <3> QED BY <1>2, <2>4, <3>1, <3>4, <3>5 DEF RowClaimed
    <2> QED BY <2>3, <2>4
  <1>3. ASSUME NEW w \in Workers, Record(w)
        PROVE  RowKept(d) \/ RowRecorded(d, w)
    <2> DEFINE k == workers[w].key
    <2>1. k \in Deliveries /\ LeaseHeld(w)
      BY <1>3 DEF Record, WorkerShape, Shape, Attempting
    <2>2. ledger' = [ledger EXCEPT ![k] =
            [@ EXCEPT !.status = Stored(k, workers[w].outcome), !.stale = FALSE,
                      !.at = workers[w].at,
                      !.recent = Stored(k, workers[w].outcome) \in SentStatuses]]
      BY <1>3 DEF Record
    <2>3. CASE d # k
      BY <2>1, <2>2, <2>3 DEF RowKept, TypeOK
    <2>4. CASE d = k
      <3>1. ledger'[d] = [ledger[d] EXCEPT !.status = Stored(d, workers[w].outcome),
               !.stale = FALSE, !.at = workers[w].at,
               !.recent = Stored(d, workers[w].outcome) \in SentStatuses]
        BY <2>2, <2>4 DEF TypeOK
      <3>2. ledger[d] \in Row
        BY DEF TypeOK
      <3>3. /\ ledger'[d].status = Stored(d, workers[w].outcome)
            /\ ledger'[d].claim = ledger[d].claim
            /\ ledger'[d].recent <=> (Stored(d, workers[w].outcome) \in SentStatuses)
        BY <3>1, <3>2 DEF Row
      <3>4. Holds(w, d)
        BY <1>3, <2>1, <2>4 DEF Record, LeaseHeld, Holds
      <3> QED BY <1>3, <2>4, <3>3, <3>4 DEF RowRecorded
    <2> QED BY <2>3, <2>4
  <1>4. ASSUME NEW r \in Records, Redeliver(r)
        PROVE  RowKept(d)
    <2>1. ledger'[d] = [ledger[d] EXCEPT !.stale =
                 @ \/ (StaleFirst /\ Abandoned(d) /\ ledger[d].holder = r)]
      BY <1>4 DEF Redeliver
    <2>2. ledger[d] \in Row
      BY DEF TypeOK
    <2> QED BY <2>1, <2>2 DEF RowKept, Row
  <1>5. ASSUME NEW e \in Deliveries, GoStale(e)
        PROVE  RowKept(d)
    <2>1. ledger'[d] = IF d = e THEN [ledger[d] EXCEPT !.stale = TRUE] ELSE ledger[d]
      BY <1>5 DEF GoStale, TypeOK
    <2>2. ledger[d] \in Row
      BY DEF TypeOK
    <2> QED BY <2>1, <2>2 DEF RowKept, Row
  <1>6. ASSUME NEW e \in Deliveries, LeaveWindow(e)
        PROVE  RowKept(d)
    <2>1. ledger'[d] = IF d = e THEN [ledger[d] EXCEPT !.recent = FALSE] ELSE ledger[d]
      BY <1>6 DEF LeaveWindow, TypeOK
    <2>2. ledger[d] \in Row
      BY DEF TypeOK
    <2>3. \A w \in Workers : ~Holds(w, e)
      BY <1>6 DEF LeaveWindow, Abandoned, Holds, SentStatuses
    <2> QED BY <2>1, <2>2, <2>3 DEF RowKept, Row
  <1>7. ASSUME NEW w \in Workers, Step(w) \/ Fault(w), ~Claim(w), ~Record(w)
        PROVE  ledger' = ledger
    <2>1. ASSUME Step(w) PROVE ledger' = ledger
      BY <1>7, <2>1 DEF Step, Receive, LoadAlert, LoadWatcher, ReadHeld, CheckCap,
           CheckBudget, CheckWanted, CountCapped, Send, RecordLeaseLost, Finish
    <2>2. ASSUME Fault(w) PROVE ledger' = ledger
      BY <2>2 DEF Fault, AlertNotReady, Raise, Crash
    <2> QED BY <1>7, <2>1, <2>2
  <1>8. ASSUME NEW i \in Investors, ChangePreferences(i) PROVE ledger' = ledger
    BY <1>8 DEF ChangePreferences
  <1>9. CASE UNCHANGED vars
    BY <1>1, <1>9 DEF vars
  <1>10. CASE Next
    BY <1>1, <1>2, <1>3, <1>4, <1>5, <1>6, <1>7, <1>8, <1>10 DEF Next
  <1> QED BY <1>9, <1>10

WorkerKept(w) == /\ workers'[w].pc = workers[w].pc
                 /\ workers'[w].key = workers[w].key
                 /\ workers'[w].lease = workers[w].lease
                 /\ workers'[w].outcome = workers[w].outcome

(* A worker's step leaves what matters of every other worker alone.        *)
LEMMA OthersKept ==
  ASSUME TypeInv, NEW w \in Workers, NEW v \in Workers, v # w, Step(v) \/ Fault(v)
  PROVE  WorkerKept(w)
  <1>1. \E n : Update(v, n)
    BY DEF Step, Fault, Receive, LoadAlert, LoadWatcher, Claim, ReadHeld,
         CheckCap, CheckBudget, CheckWanted, CountCapped, Send, Record,
         RecordLeaseLost, Finish, AlertNotReady, Raise, Crash, Conclude, Move,
         NextInvestor, TurnToRollup
  <1> QED BY <1>1 DEF Update, WorkerKept, TypeInv, TypeOK

(* Any step but a worker's own leaves what matters of it alone.            *)
LEMMA WorkerStep ==
  ASSUME TypeInv, [Next]_vars, NEW w \in Workers
  PROVE  WorkerKept(w) \/ Step(w) \/ Fault(w)
  <1>1. ASSUME NEW i \in Investors, ChangePreferences(i)
        PROVE  WorkerKept(w)
    <2>1. workers[w] \in Worker
      BY DEF TypeInv, TypeOK
    <2>2. workers'[w] = [workers[w] EXCEPT !.late = @ \/
              (workers[w].pc \in {"compose", "send"} /\
               InvestorOf(workers[w].key) = i)]
      BY <1>1 DEF ChangePreferences
    <2> QED BY <2>1, <2>2 DEF WorkerKept, Worker
  <1>2. CASE workers' = workers
    BY <1>2 DEF WorkerKept
  <1> QED
    BY <1>1, <1>2, OthersKept DEF Next, vars, Redeliver, GoStale, LeaveWindow

Claimed(w) == /\ workers[w].pc = "claim"
              /\ workers'[w].pc = "cap"
              /\ workers'[w].key = workers[w].key
              /\ workers[w].key \in Deliveries
              /\ workers'[w].lease = ledger[workers[w].key].claim + 1
              /\ ledger'[workers[w].key].claim = ledger[workers[w].key].claim + 1
              /\ ledger'[workers[w].key].recent

Advanced(w) ==
  /\ workers[w].pc \in Holding
  /\ workers'[w].key = workers[w].key
  /\ workers[w].key \in Deliveries
  /\ workers'[w].lease = workers[w].lease
  /\ ledger' = ledger
  /\ \/ /\ workers[w].pc = "cap" /\ workers'[w].pc = "budget"
        /\ workers[w].key \in Direct => ~OverRunCap(workers[w].key)
     \/ workers[w].pc = "budget" /\ workers'[w].pc = "wanted" /\ ~OverBudget
     \/ workers[w].pc \in {"wanted", "compose"} /\ workers'[w].pc \in {"compose", "send"}
     \/ workers[w].pc = "send" /\ workers'[w].pc = "record"
     \/ workers'[w].pc = "record" /\ workers'[w].outcome # "SENT"

(* A worker that holds a claim after its own step just made it, or it was  *)
(* one check further back on the same claim.                               *)
LEMMA OwnStep ==
  ASSUME TypeInv, NEW w \in Workers, Step(w) \/ Fault(w),
         workers'[w].pc \in Holding
  PROVE  Claimed(w) \/ Advanced(w)
  <1> USE DEF TypeInv, At
  <1>0. workers[w] \in Worker /\ Shape(workers[w])
    BY DEF TypeOK, WorkerShape
  <1>a. ASSUME NEW p, Move(w, p)
        PROVE  /\ workers'[w].pc = p
               /\ workers'[w].key = workers[w].key
               /\ workers'[w].lease = workers[w].lease
    BY <1>0, <1>a DEF Move, Update, TypeOK, Worker
  <1>b. ASSUME NEW o, Conclude(w, o)
        PROVE  /\ workers'[w].pc = "record"
               /\ workers'[w].outcome = o
               /\ workers'[w].key = workers[w].key
               /\ workers'[w].lease = workers[w].lease
    BY <1>0, <1>b DEF Conclude, Update, TypeOK, Worker
  <1>c. ASSUME TurnToRollup(w) \/ \E b : NextInvestor(w, b) PROVE FALSE
    <2>1. CASE TurnToRollup(w)
      BY <1>0, <2>1 DEF TurnToRollup, Update, TypeOK, Worker, Holding
    <2>2. ASSUME NEW b, NextInvestor(w, b) PROVE FALSE
      BY <1>0, <2>2 DEF NextInvestor, Update, TypeOK, IdleWorker, Holding
    <2> QED BY <1>c, <2>1, <2>2
  <1>d. workers[w].pc \in Holding => workers[w].key \in Deliveries
    BY <1>0 DEF Shape, Attempting, Holding
  <1>e. ASSUME NEW n, Update(w, n) PROVE workers'[w] = n
    BY <1>e DEF Update, TypeOK
  <1>1. CASE Receive(w) \/ LoadAlert(w) \/ AlertNotReady(w)
    <2>1. \/ \E r : Update(w, [workers[w] EXCEPT !.pc = "load", !.rec = r])
          \/ Update(w, [workers[w] EXCEPT !.pc = "choose", !.todo = Investors])
          \/ Update(w, [workers[w] EXCEPT !.pc = "choose", !.retry = TRUE])
      BY <1>1 DEF Receive, LoadAlert, AlertNotReady
    <2>2. workers'[w].pc \in {"load", "choose"}
      BY <1>0, <2>1, <1>e DEF Worker
    <2> QED BY <2>2 DEF Holding
  <1>2. CASE LoadWatcher(w)
    <2> DEFINE left(i) == workers[w].todo \ {i}
               key(i)  == <<i, ArtifactOf[workers[w].rec]>>
    <2>1. PICK i \in workers[w].todo :
            \/ Update(w, [workers[w] EXCEPT !.todo = left(i), !.pc = "claim",
                                            !.key = key(i), !.seen = sub[i]])
            \/ Update(w, [workers[w] EXCEPT !.todo = left(i)])
      BY <1>2 DEF LoadWatcher
    <2>2. workers[w].pc = "choose"
      BY <1>2 DEF LoadWatcher
    <2> HIDE DEF left, key
    <2>3. workers'[w].pc \in {"claim", "choose"}
      BY <1>0, <2>1, <2>2, <1>e DEF Worker
    <2> QED BY <2>3 DEF Holding
  <1>3. CASE Finish(w) \/ Crash(w)
    BY <1>3 DEF Finish, Crash, Update, TypeOK, IdleWorker, Holding
  <1>4. CASE ReadHeld(w) \/ Record(w) \/ RecordLeaseLost(w) \/ Raise(w)
    BY <1>4, <1>c DEF ReadHeld, Record, RecordLeaseLost, Raise
  <1>5. CASE Claim(w)
    <2> DEFINE k == workers[w].key
    <2>1. k \in Deliveries /\ workers[w].pc = "claim"
      BY <1>0, <1>5 DEF Claim, Shape, Attempting
    <2>2. Reclaimable(ledger[k])
      BY <1>5, <1>a DEF Claim, Holding
    <2>3. /\ ledger' = [ledger EXCEPT ![k] =
               [@ EXCEPT !.status = "CLAIMED", !.claim = ledger[k].claim + 1,
                         !.stale = FALSE, !.recent = TRUE, !.holder = workers[w].rec]]
          /\ Update(w, [workers[w] EXCEPT !.pc = "cap", !.lease = ledger[k].claim + 1])
      BY <1>5, <2>2 DEF Claim
    <2>4. ledger[k] \in Row
      BY <2>1 DEF TypeOK
    <2>5. ledger'[k].claim = ledger[k].claim + 1 /\ ledger'[k].recent
      BY <2>1, <2>3, <2>4 DEF TypeOK, Row
    <2>6. /\ workers'[w].pc = "cap" /\ workers'[w].key = k
          /\ workers'[w].lease = ledger[k].claim + 1
      BY <1>0, <2>3 DEF Update, TypeOK, Worker
    <2> QED BY <2>1, <2>5, <2>6 DEF Claimed
  <1>6. CASE CheckCap(w)
    <2>1. \/ /\ Move(w, "budget")
             /\ workers[w].key \in Direct => ~OverRunCap(workers[w].key)
          \/ Conclude(w, "REJECTED") \/ Conclude(w, "SUPPRESSED_CAP")
      BY <1>6 DEF CheckCap
    <2> QED BY <1>6, <2>1, <1>a, <1>b, <1>d DEF CheckCap, Advanced, Holding
  <1>7. CASE CheckBudget(w)
    <2>1. (Move(w, "wanted") /\ ~OverBudget) \/ Conclude(w, "SUPPRESSED_BUDGET")
      BY <1>7 DEF CheckBudget
    <2> QED BY <1>7, <2>1, <1>a, <1>b, <1>d DEF CheckBudget, Advanced, Holding
  <1>8. CASE CheckWanted(w)
    <2>1. Move(w, "send") \/ Move(w, "compose") \/ Conclude(w, "REJECTED")
      BY <1>8 DEF CheckWanted
    <2> QED BY <1>8, <2>1, <1>a, <1>b, <1>d DEF CheckWanted, Advanced, Holding
  <1>9. CASE CountCapped(w)
    <2>1. Move(w, "send") \/ Conclude(w, "FAILED")
      BY <1>9 DEF CountCapped
    <2> QED BY <1>9, <2>1, <1>a, <1>b, <1>d DEF CountCapped, Advanced, Holding
  <1>10. CASE Send(w)
    <2>1. \E o : Conclude(w, o)
      BY <1>10 DEF Send
    <2> QED BY <1>10, <2>1, <1>b, <1>d DEF Send, Advanced, Holding
  <1> QED BY <1>1, <1>2, <1>3, <1>4, <1>5, <1>6, <1>7, <1>8, <1>9, <1>10
          DEF Step, Fault

-----------------------------------------------------------------------------
(* Leases.                                                                 *)

HeldRecent ==
  \A w \in Workers, d \in Deliveries : Holds(w, d) => ledger[d].recent

LeaseInv == TypeInv /\ LeaseBound /\ HeldRecent /\ ExclusiveLease

(* No step lets a lease run ahead of its row. *)
LEMMA LeaseBoundStep ==
  ASSUME TypeInv, LeaseBound, [Next]_vars
  PROVE  LeaseBound'
  <1> SUFFICES ASSUME NEW w \in Workers, workers'[w].pc \in Holding
               PROVE  workers'[w].lease <= ledger'[workers'[w].key].claim
    BY DEF LeaseBound
  <1>0. workers[w] \in Worker /\ Shape(workers[w])
    BY DEF TypeInv, TypeOK, WorkerShape
  <1>1. CASE Step(w) \/ Fault(w)
    <2>1. CASE Claimed(w)
      <3>1. ledger[workers[w].key].claim \in Nat
        BY <2>1 DEF Claimed, TypeInv, TypeOK, Row
      <3> QED BY <2>1, <3>1 DEF Claimed
    <2>2. CASE Advanced(w)
      BY <2>2 DEF Advanced, LeaseBound
    <2> QED BY <1>1, <2>1, <2>2, OwnStep
  <1>2. CASE WorkerKept(w)
    <2> DEFINE d == workers[w].key
    <2>1. workers[w].pc \in Holding /\ d \in Deliveries
      BY <1>0, <1>2 DEF WorkerKept, Shape, Attempting, Holding
    <2>2. ledger[d].claim \in Nat /\ workers[w].lease \in Nat
      BY <1>0, <2>1 DEF TypeInv, TypeOK, Row, Worker
    <2>3. ledger'[d].claim \in {ledger[d].claim, ledger[d].claim + 1}
      BY <2>1, RowStep DEF RowKept, RowClaimed, RowRecorded
    <2>4. workers[w].lease <= ledger[d].claim
      BY <2>1 DEF LeaseBound
    <2> QED BY <1>2, <2>2, <2>3, <2>4 DEF WorkerKept
  <1> QED BY <1>1, <1>2, WorkerStep

(* Whoever holds a row's claim after a step made it in that step or held   *)
(* it before, the row untouched.                                           *)
LEMMA HoldStep ==
  ASSUME TypeInv, LeaseBound, [Next]_vars,
         NEW w \in Workers, NEW d \in Deliveries, Holds(w, d)'
  PROVE  \/ Claimed(w) /\ workers[w].key = d
         \/ Holds(w, d) /\ RowKept(d) /\ (WorkerKept(w) \/ Advanced(w))
  <1>0. /\ workers'[w].pc \in Holding
        /\ workers'[w].key = d
        /\ workers'[w].lease = ledger'[d].claim
        /\ ledger'[d].status = "CLAIMED"
    BY DEF Holds, Holding
  <1>1. CASE WorkerKept(w)
    <2>1. /\ workers[w].pc \in Holding /\ workers[w].key = d
          /\ workers[w].lease = ledger'[d].claim
      BY <1>0, <1>1 DEF WorkerKept
    <2>2. workers[w].lease <= ledger[d].claim /\ ledger[d].claim \in Nat
      BY <2>1 DEF LeaseBound, TypeInv, TypeOK, Row
    <2>3. ASSUME NEW v \in Workers, RowClaimed(d, v) PROVE FALSE
      BY <2>1, <2>2, <2>3 DEF RowClaimed
    <2>4. ASSUME NEW v \in Workers, RowRecorded(d, v) PROVE FALSE
      <3>1. workers[v].outcome \in Outcomes
        BY <2>4 DEF RowRecorded, Record, At, TypeInv, WorkerShape, Shape
      <3> QED BY <1>0, <2>4, <3>1 DEF RowRecorded, Stored, Outcomes
    <2>5. RowKept(d)
      BY <2>3, <2>4, RowStep
    <2>6. Holds(w, d)
      BY <1>0, <2>1, <2>5 DEF Holds, Holding, RowKept
    <2> QED BY <1>1, <2>5, <2>6
  <1>2. CASE Step(w) \/ Fault(w)
    <2>1. CASE Claimed(w)
      BY <1>0, <2>1 DEF Claimed
    <2>2. CASE Advanced(w)
      <3>1. Holds(w, d) /\ RowKept(d)
        BY <1>0, <2>2 DEF Advanced, Holds, Holding, RowKept
      <3> QED BY <2>2, <3>1
    <2> QED BY <1>0, <1>2, <2>1, <2>2, OwnStep
  <1> QED BY <1>1, <1>2, WorkerStep

(* The lease invariant is inductive. *)
LEMMA LeaseInvStep ==
  ASSUME LeaseInv, [Next]_vars
  PROVE  LeaseInv'
  <1> USE DEF LeaseInv
  <1>1. TypeInv' /\ LeaseBound'
    BY NextType, LeaseBoundStep
  <1>2. HeldRecent'
    <2> SUFFICES ASSUME NEW w \in Workers, NEW d \in Deliveries, Holds(w, d)'
                 PROVE  ledger'[d].recent
      BY DEF HeldRecent, Holds
    <2>1. CASE Claimed(w) /\ workers[w].key = d
      BY <2>1 DEF Claimed
    <2>2. CASE Holds(w, d) /\ RowKept(d)
      BY <2>2 DEF HeldRecent, RowKept
    <2> QED BY <2>1, <2>2, HoldStep
  <1>3. ExclusiveLease'
    <2> SUFFICES ASSUME NEW v \in Workers, NEW w \in Workers, NEW d \in Deliveries,
                        Holds(v, d)', Holds(w, d)', v # w
                 PROVE  FALSE
      BY DEF ExclusiveLease, Holds
    <2>1. ledger[d].claim \in Nat
      BY DEF TypeInv, TypeOK, Row
    <2>2. CASE Holds(v, d) /\ Holds(w, d)
      BY <2>2 DEF ExclusiveLease
    <2>3. CASE Claimed(v) /\ Claimed(w)
      <3>1. ~WorkerKept(v) /\ ~WorkerKept(w)
        BY <2>3 DEF Claimed, WorkerKept
      <3> QED BY <3>1, WorkerStep, OthersKept
    <2>4. CASE Claimed(v) /\ workers[v].key = d /\ RowKept(d)
      BY <2>1, <2>4 DEF Claimed, RowKept
    <2>5. CASE Claimed(w) /\ workers[w].key = d /\ RowKept(d)
      BY <2>1, <2>5 DEF Claimed, RowKept
    <2> QED BY <2>2, <2>3, <2>4, <2>5, HoldStep
  <1> QED BY <1>1, <1>2, <1>3

(* The lease invariant holds in every reachable state. *)
LEMMA LeaseInvariant == Spec => []LeaseInv
  <1>1. Init => LeaseInv
    <2> SUFFICES ASSUME Init PROVE LeaseInv
      OBVIOUS
    <2>1. \A w \in Workers : workers[w].pc = "idle"
      BY DEF Init, IdleWorker
    <2> QED
      BY <2>1, InitType DEF LeaseInv, LeaseBound, HeldRecent, ExclusiveLease,
                            Holds, Holding
  <1>2. LeaseInv /\ [Next]_vars => LeaseInv'
    BY LeaseInvStep
  <1> QED BY <1>1, <1>2, PTL DEF Spec

(* No two workers ever hold the claim of one ledger row, whatever crashes, *)
(* takeovers of stale claims and retries there were.                       *)
THEOREM ClaimsExclusive == Spec => []ExclusiveLease
  <1>1. LeaseInv => ExclusiveLease
    BY DEF LeaseInv
  <1> QED BY <1>1, LeaseInvariant, PTL

-----------------------------------------------------------------------------
(* The per-run cap and the daily budget.                                   *)

(* A part of a finite set has no more elements than the bound of the set. *)
LEMMA SubsetCount ==
  ASSUME NEW S, NEW T, IsFiniteSet(T), S \subseteq T,
         NEW k \in Nat, Cardinality(T) <= k
  PROVE  Cardinality(S) <= k
  <1>1. /\ IsFiniteSet(S)
        /\ Cardinality(S) <= Cardinality(T)
    BY FS_Subset
  <1>2. Cardinality(S) \in Nat /\ Cardinality(T) \in Nat
    BY <1>1, FS_CardinalityType
  <1> QED BY <1>1, <1>2

(* A row is cleared against the cap by the worker that holds it passing    *)
(* the check, and by nothing else.                                         *)
LEMMA ClearedCapStep ==
  ASSUME LeaseInv, [Next]_vars, NEW d \in Direct, ClearedCap(d)'
  PROVE  \/ ClearedCap(d)
         \/ \E w \in Workers : /\ workers[w].key = d
                               /\ ~OverRunCap(d)
                               /\ ledger' = ledger
  <1>0. d \in Deliveries /\ TypeInv /\ LeaseBound
    BY DEF Deliveries, LeaseInv
  <1>1. CASE ledger'[d].status = "SENT"
    <2>1. CASE RowKept(d)
      BY <1>1, <2>1 DEF RowKept, ClearedCap
    <2>2. ASSUME NEW w \in Workers, RowRecorded(d, w) PROVE ClearedCap(d)
      <3>1. workers[w].pc = "record" /\ workers[w].outcome = "SENT" /\ Holds(w, d)
        BY <1>1, <2>2 DEF RowRecorded, Record, At, Stored
      <3> QED BY <3>1 DEF ClearedCap, Past
    <2> QED BY <1>0, <1>1, <2>1, <2>2, RowStep DEF RowClaimed
  <1>2. ASSUME NEW w \in Workers, Holds(w, d)',
               Past(w, {"budget", "wanted", "compose", "send"})'
        PROVE  \/ ClearedCap(d)
               \/ workers[w].key = d /\ ~OverRunCap(d) /\ ledger' = ledger
    <2>1. CASE Claimed(w)
      BY <1>2, <2>1 DEF Claimed, Past
    <2>2. CASE Holds(w, d) /\ WorkerKept(w)
      BY <1>2, <2>2 DEF WorkerKept, Past, ClearedCap
    <2>3. CASE Holds(w, d) /\ Advanced(w)
      <3>1. workers[w].key = d
        BY <2>3 DEF Holds
      <3> QED BY <1>2, <2>3, <3>1 DEF Advanced, Past, ClearedCap
    <2> QED BY <1>0, <1>2, <2>1, <2>2, <2>3, HoldStep
  <1> QED BY <1>1, <1>2 DEF ClearedCap

(* The cap is respected by the next state as well: either no row was newly
   cleared, or the check just counted every row that is cleared now. *)
LEMMA CapStep ==
  ASSUME LeaseInv, CapRespected, [Next]_vars
  PROVE  CapRespected'
  <1> SUFFICES ASSUME NEW i \in Investors, NEW run \in Runs
               PROVE  Cardinality({d \in Direct : /\ InvestorOf(d) = i
                                                  /\ RunOfRow(d) = run
                                                  /\ ClearedCap(d)'}) <= Cap
    BY DEF CapRespected, InvestorOf, RunOfRow
  <1> DEFINE Now  == {d \in Direct : InvestorOf(d) = i /\ RunOfRow(d) = run /\ ClearedCap(d)}
             Then == {d \in Direct : InvestorOf(d) = i /\ RunOfRow(d) = run /\ ClearedCap(d)'}
  <1>1. IsFiniteSet(Now) /\ IsFiniteSet(Then)
    BY DeliveriesFinite, FS_Subset
  <1>2. Cap \in Nat
    BY CapIsCount
  <1>3. CASE Then \subseteq Now
    <2>1. Cardinality(Now) <= Cap
      BY DEF CapRespected
    <2> HIDE DEF Now, Then
    <2>2. Cardinality(Then) <= Cap
      BY <1>1, <1>2, <1>3, <2>1, SubsetCount
    <2> QED BY <2>2 DEF Then
  <1>4. CASE ~(Then \subseteq Now)
    <2>1. PICK d \in Then : d \notin Now
      BY <1>4
    <2>2. ~OverRunCap(d) /\ ledger' = ledger
      BY <2>1, ClearedCapStep
    <2>3. ASSUME NEW e \in Then PROVE e \in CapCounted(d)
      <3>1. ledger'[e].status \in {"SENT", "CLAIMED"}
        BY <2>3 DEF ClearedCap, Holds
      <3>2. e \in SameRun(d)
        BY <2>1, <2>3 DEF SameRun
      <3> QED BY <2>2, <3>1, <3>2 DEF CapCounted
    <2>4. IsFiniteSet(CapCounted(d))
      BY DeliveriesFinite, FS_Subset DEF CapCounted, SameRun
    <2>5. Cardinality(CapCounted(d)) <= Cap
      BY <1>2, <2>2, <2>4, FS_CardinalityType DEF OverRunCap
    <2> HIDE DEF Then
    <2>6. Cardinality(Then) <= Cap
      BY <1>2, <2>3, <2>4, <2>5, SubsetCount
    <2> QED BY <2>6 DEF Then
  <1> QED BY <1>3, <1>4

(* Initially nothing is sent and no worker is past a check. *)
LEMMA NothingClearedYet ==
  ASSUME Init, NEW d \in Deliveries
  PROVE  ~ClearedCap(d) /\ ~ClearedBudget(d)
  <1>1. ledger[d].status = "NONE"
    BY DEF Init, NoRow
  <1> QED BY <1>1 DEF ClearedCap, ClearedBudget, Holds, SentStatuses

(* The cap is respected in every reachable state. *)
LEMMA CapInvariant == Spec => [](LeaseInv /\ CapRespected)
  <1>1. Init => CapRespected
    <2> SUFFICES ASSUME Init, NEW i \in Investors, NEW run \in Runs
                 PROVE  Cardinality({d \in Direct : /\ InvestorOf(d) = i
                                                    /\ RunOfRow(d) = run
                                                    /\ ClearedCap(d)}) <= Cap
      BY DEF CapRespected
    <2>1. {d \in Direct : InvestorOf(d) = i /\ RunOfRow(d) = run /\ ClearedCap(d)} = {}
      BY NothingClearedYet DEF Deliveries
    <2> QED BY <2>1, FS_EmptySet, CapIsCount
  <1>2. LeaseInv /\ CapRespected /\ [Next]_vars => CapRespected'
    BY CapStep
  <1> QED BY <1>1, <1>2, LeaseInvariant, PTL DEF Spec

(* Workers running at the same time cannot together overshoot the per-run  *)
(* cap: for every cap and any number of workers, what was sent and what is *)
(* cleared to be sent to one investor for one run stays within it.         *)
THEOREM CapHolds == Spec => []CapRespected
  BY CapInvariant, PTL

(* A row is cleared against the budget only by its holder passing the      *)
(* check, and a cleared row inside the 24-hour window was inside it before.*)
LEMMA ClearedBudgetStep ==
  ASSUME LeaseInv, [Next]_vars, NEW d \in Deliveries,
         ledger'[d].recent, ClearedBudget(d)'
  PROVE  \/ ledger[d].recent /\ ClearedBudget(d)
         \/ ~OverBudget /\ ledger' = ledger
  <1>0. TypeInv /\ LeaseBound /\ HeldRecent
    BY DEF LeaseInv
  <1>1. CASE ledger'[d].status \in SentStatuses
    <2>1. CASE RowKept(d)
      BY <1>1, <2>1 DEF RowKept, ClearedBudget
    <2>2. ASSUME NEW w \in Workers, RowRecorded(d, w)
          PROVE  ledger[d].recent /\ ClearedBudget(d)
      <3>1. workers[w].outcome \in Outcomes /\ workers[w].pc = "record" /\ Holds(w, d)
        BY <1>0, <2>2 DEF RowRecorded, Record, At, TypeInv, WorkerShape, Shape
      <3>2. workers[w].outcome = "SENT"
        BY <1>1, <2>2, <3>1 DEF RowRecorded, Stored, SentStatuses, Outcomes
      <3> QED BY <1>0, <3>1, <3>2 DEF ClearedBudget, Past, HeldRecent
    <2> QED BY <1>0, <1>1, <2>1, <2>2, RowStep DEF RowClaimed, SentStatuses
  <1>2. ASSUME NEW w \in Workers, Holds(w, d)',
               Past(w, {"wanted", "compose", "send"})'
        PROVE  \/ ledger[d].recent /\ ClearedBudget(d)
               \/ ~OverBudget /\ ledger' = ledger
    <2>1. CASE Claimed(w)
      BY <1>2, <2>1 DEF Claimed, Past
    <2>2. CASE Holds(w, d) /\ WorkerKept(w)
      BY <1>0, <1>2, <2>2 DEF WorkerKept, Past, ClearedBudget, HeldRecent
    <2>3. CASE Holds(w, d) /\ Advanced(w)
      BY <1>0, <1>2, <2>3 DEF Advanced, Past, ClearedBudget, HeldRecent
    <2> QED BY <1>0, <1>2, <2>1, <2>2, <2>3, HoldStep
  <1> QED BY <1>1, <1>2 DEF ClearedBudget

(* The budget is respected by the next state as well, by the same argument. *)
LEMMA BudgetStep ==
  ASSUME LeaseInv, BudgetRespected, [Next]_vars
  PROVE  BudgetRespected'
  <1> DEFINE Now  == {d \in Deliveries : ledger[d].recent /\ ClearedBudget(d)}
             Then == {d \in Deliveries : ledger'[d].recent /\ ClearedBudget(d)'}
  <1>0. Cardinality(Now) <= Budget
    BY DEF BudgetRespected
  <1>1. IsFiniteSet(Now) /\ IsFiniteSet(Then)
    BY DeliveriesFinite, FS_Subset
  <1>2. Budget \in Nat
    BY BudgetIsCount
  <1>3. CASE Then \subseteq Now
    <2> HIDE DEF Now, Then
    <2>1. Cardinality(Then) <= Budget
      BY <1>0, <1>1, <1>2, <1>3, SubsetCount
    <2> QED BY <2>1 DEF BudgetRespected, Then
  <1>4. CASE ~(Then \subseteq Now)
    <2>1. PICK d \in Then : d \notin Now
      BY <1>4
    <2>2. ~OverBudget /\ ledger' = ledger
      BY <2>1, ClearedBudgetStep
    <2>3. ASSUME NEW e \in Then PROVE e \in BudgetCounted
      <3>1. ledger'[e].status \in {"CLAIMED"} \cup SentStatuses /\ ledger'[e].recent
        BY <2>3 DEF ClearedBudget, Holds
      <3> QED BY <2>2, <2>3, <3>1 DEF BudgetCounted
    <2>4. IsFiniteSet(BudgetCounted)
      BY DeliveriesFinite, FS_Subset DEF BudgetCounted
    <2>5. Cardinality(BudgetCounted) <= Budget
      BY <1>2, <2>2, <2>4, FS_CardinalityType DEF OverBudget
    <2> HIDE DEF Then
    <2>6. Cardinality(Then) <= Budget
      BY <1>2, <2>3, <2>4, <2>5, SubsetCount
    <2> QED BY <2>6 DEF BudgetRespected, Then
  <1> QED BY <1>3, <1>4

(* The budget is respected in every reachable state. *)
LEMMA BudgetInvariant == Spec => [](LeaseInv /\ BudgetRespected)
  <1>1. Init => BudgetRespected
    <2> SUFFICES ASSUME Init PROVE BudgetRespected
      OBVIOUS
    <2>1. {d \in Deliveries : ledger[d].recent /\ ClearedBudget(d)} = {}
      BY NothingClearedYet
    <2> QED BY <2>1, FS_EmptySet, BudgetIsCount DEF BudgetRespected
  <1>2. LeaseInv /\ BudgetRespected /\ [Next]_vars => BudgetRespected'
    BY BudgetStep
  <1> QED BY <1>1, <1>2, LeaseInvariant, PTL DEF Spec

(* Nor can they together overshoot the account's daily budget.             *)
THEOREM BudgetHolds == Spec => []BudgetRespected
  BY BudgetInvariant, PTL

-----------------------------------------------------------------------------
(* Rollups.  RollupHasCapped alone is not inductive: a worker may be on    *)
(* its way to a rollup's first claim, so what made it turn there must be   *)
(* part of the invariant.                                                  *)

HasCapped(d) == \E e \in Direct : Rollup(e) = d /\ ledger[e].status = "SUPPRESSED_CAP"

RollupWorkers ==
  \A w \in Workers :
    workers[w].pc \in Attempting /\ workers[w].key \in Rollups => HasCapped(workers[w].key)

RollupInv == RollupHasCapped /\ RollupWorkers

(* An alert once held back by the cap stays held back.                     *)
LEMMA CappedStays ==
  ASSUME LeaseInv, [Next]_vars, NEW d \in Deliveries, HasCapped(d)
  PROVE  HasCapped(d)'
  <1>1. PICK e \in Direct : Rollup(e) = d /\ ledger[e].status = "SUPPRESSED_CAP"
    BY DEF HasCapped
  <1>2. e \in Deliveries /\ TypeInv
    BY DEF Deliveries, LeaseInv
  <1>3. RowKept(e)
    BY <1>1, <1>2, RowStep DEF RowClaimed, RowRecorded, Holds
  <1>4. ledger'[e].status = "SUPPRESSED_CAP" /\ Rollup(e) = d
    BY <1>1, <1>3 DEF RowKept
  <1> QED BY <1>4 DEF HasCapped, Rollup, InvestorOf, RunOfRow

(* A worker comes to attempt a rollup only from a capped alert of that run.*)
LEMMA TurnStep ==
  ASSUME LeaseInv, [Next]_vars, NEW w \in Workers, NEW d \in Rollups,
         workers'[w].pc \in Attempting, workers'[w].key = d
  PROVE  \/ workers[w].pc \in Attempting /\ workers[w].key = d
         \/ HasCapped(d)'
  <1> USE DEF At
  <1>0. /\ TypeInv
        /\ workers \in [Workers -> Worker]
        /\ workers[w] \in Worker /\ Shape(workers[w])
    BY DEF LeaseInv, TypeInv, TypeOK, WorkerShape
  <1>1. CASE WorkerKept(w)
    BY <1>1 DEF WorkerKept
  <1>2. CASE Claimed(w) \/ Advanced(w)
    BY <1>2 DEF Claimed, Advanced, Attempting, Holding
  <1>e. ASSUME NEW n, Update(w, n) PROVE workers'[w] = n
    BY <1>0, <1>e DEF Update
  <1>3. CASE TurnToRollup(w) /\ (ReadHeld(w) \/ Record(w))
    <2> DEFINE e == workers[w].key
    <2>1. workers'[w].key = Rollup(e)
      BY <1>0, <1>3, <1>e DEF TurnToRollup, Worker
    <2>2. workers[w].pc \in Attempting /\ workers[w].pc # "choose" /\ e \in Deliveries
      BY <1>0, <1>3 DEF ReadHeld, Record, Shape, Attempting
    <2>n. ASSUME NEW b, NextInvestor(w, b) PROVE FALSE
      BY <1>0, <1>e, <2>n DEF NextInvestor, IdleWorker, Attempting
    <2>3. e \in Direct /\ ledger'[e].status = "SUPPRESSED_CAP"
      <3>1. CASE ReadHeld(w)
        BY <2>n, <3>1 DEF ReadHeld
      <3>2. CASE Record(w)
        <4>1. Stored(e, workers[w].outcome) = "SUPPRESSED_CAP"
          BY <2>n, <3>2 DEF Record
        <4>2. workers[w].outcome = "SUPPRESSED_CAP" /\ e \in Direct
          BY <1>0, <3>2, <4>1 DEF Record, Stored, Shape
        <4>3. ledger[e] \in Row
          BY <1>0, <2>2 DEF TypeInv, TypeOK
        <4>4. ledger' = [ledger EXCEPT ![e] =
                [@ EXCEPT !.status = "SUPPRESSED_CAP", !.stale = FALSE,
                          !.at = workers[w].at,
                          !.recent = "SUPPRESSED_CAP" \in SentStatuses]]
          BY <3>2, <4>1 DEF Record
        <4>5. ledger'[e].status = "SUPPRESSED_CAP"
          BY <1>0, <2>2, <4>3, <4>4 DEF TypeInv, TypeOK, Row
        <4> QED BY <4>2, <4>5
      <3> QED BY <1>3, <3>1, <3>2
    <2> QED BY <2>1, <2>3 DEF HasCapped, Rollup, InvestorOf, RunOfRow
  <1>4. CASE LoadWatcher(w)
    <2>1. PICK i \in workers[w].todo :
            \/ Update(w, [workers[w] EXCEPT !.todo = workers[w].todo \ {i},
                               !.pc = "claim", !.key = <<i, ArtifactOf[workers[w].rec]>>,
                               !.seen = sub[i]])
            \/ Update(w, [workers[w] EXCEPT !.todo = workers[w].todo \ {i}])
      BY <1>4 DEF LoadWatcher
    <2>2. workers[w].pc = "choose" /\ ArtifactOf[workers[w].rec] \in Artifacts
      BY <1>0, <1>4, ArtifactOfRecords DEF LoadWatcher, Shape
    <2>3. workers'[w].key = <<i, ArtifactOf[workers[w].rec]>>
      BY <1>0, <1>e, <2>1, <2>2 DEF Worker, Attempting
    <2> QED BY <2>2, <2>3, SubjectsDisjoint DEF Rollups
  <1>5. ASSUME Step(w) \/ Fault(w), workers'[w].pc \notin Holding, ~LoadWatcher(w)
        PROVE  \/ workers[w].pc \in Attempting /\ workers'[w].key = workers[w].key
               \/ TurnToRollup(w) /\ (ReadHeld(w) \/ Record(w))
    <2>1. workers'[w].pc \in {"claim", "held"}
      BY <1>5 DEF Attempting, Holding
    <2>2. ASSUME NEW b, NextInvestor(w, b) PROVE FALSE
      BY <1>0, <1>e, <2>1, <2>2 DEF NextInvestor, IdleWorker
    <2>3. ASSUME NEW o, Conclude(w, o) PROVE FALSE
      BY <1>0, <1>e, <2>1, <2>3 DEF Conclude, Worker
    <2>4. ASSUME NEW p, Move(w, p)
          PROVE  workers'[w].pc = p /\ workers'[w].key = workers[w].key
      BY <1>0, <1>e, <2>4 DEF Move, Worker
    <2>5. CASE Claim(w)
      <3>1. CASE Move(w, "held")
        BY <2>4, <2>5, <3>1 DEF Claim, Attempting
      <3>2. CASE Update(w, [workers[w] EXCEPT !.pc = "cap",
                              !.lease = ledger[workers[w].key].claim + 1])
        BY <1>0, <1>e, <2>1, <3>2 DEF Worker
      <3> QED BY <2>5, <3>1, <3>2 DEF Claim
    <2>6. CASE ReadHeld(w) \/ Record(w)
      BY <2>2, <2>6 DEF ReadHeld, Record
    <2>7. ASSUME NEW p \in {"budget", "wanted", "send", "compose"}, Move(w, p) PROVE FALSE
      BY <2>1, <2>4, <2>7
    <2>8. CASE CheckCap(w) \/ CheckBudget(w) \/ CountCapped(w) \/ Send(w)
      BY <2>3, <2>7, <2>8 DEF CheckCap, CheckBudget, CountCapped, Send
    <2>9. CASE CheckWanted(w)
      <3>1. CASE Move(w, "send") \/ Move(w, "compose")
        BY <2>7, <3>1
      <3> QED BY <2>3, <2>9, <3>1 DEF CheckWanted
    <2>10. CASE RecordLeaseLost(w) \/ Raise(w)
      BY <2>2, <2>10 DEF RecordLeaseLost, Raise
    <2>11. CASE Finish(w) \/ Crash(w)
      BY <1>e, <2>1, <2>11 DEF Finish, Crash, IdleWorker
    <2>12. CASE Receive(w) \/ LoadAlert(w) \/ AlertNotReady(w)
      <3>1. \/ \E r : Update(w, [workers[w] EXCEPT !.pc = "load", !.rec = r])
            \/ Update(w, [workers[w] EXCEPT !.pc = "choose", !.todo = Investors])
            \/ Update(w, [workers[w] EXCEPT !.pc = "choose", !.retry = TRUE])
        BY <2>12 DEF Receive, LoadAlert, AlertNotReady
      <3> QED BY <1>0, <1>e, <2>1, <3>1 DEF Worker
    <2> QED BY <1>5, <2>5, <2>6, <2>8, <2>9, <2>10, <2>11, <2>12 DEF Step, Fault
  <1> QED BY <1>0, <1>1, <1>2, <1>3, <1>4, <1>5, WorkerStep, OwnStep

(* The rollup invariant is inductive. *)
LEMMA RollupInvStep ==
  ASSUME LeaseInv, RollupInv, [Next]_vars
  PROVE  RollupInv'
  <1>0. TypeInv
    BY DEF LeaseInv
  <1>1. RollupWorkers'
    <2> SUFFICES ASSUME NEW w \in Workers, NEW d \in Rollups,
                        workers'[w].pc \in Attempting, workers'[w].key = d
                 PROVE  HasCapped(d)'
      BY DEF RollupWorkers, HasCapped, Rollup, InvestorOf, RunOfRow
    <2>1. CASE workers[w].pc \in Attempting /\ workers[w].key = d
      <3>1. HasCapped(d) /\ d \in Deliveries
        BY <2>1 DEF RollupInv, RollupWorkers, Deliveries
      <3> QED BY <3>1, CappedStays
    <2> QED BY <2>1, TurnStep
  <1>2. RollupHasCapped'
    <2> SUFFICES ASSUME NEW d \in Rollups, ledger'[d].status # "NONE"
                 PROVE  HasCapped(d)'
      BY DEF RollupHasCapped, HasCapped, Rollup, InvestorOf, RunOfRow
    <2>1. d \in Deliveries
      BY DEF Deliveries
    <2>2. CASE ledger[d].status # "NONE"
      <3>1. HasCapped(d)
        BY <2>2 DEF RollupInv, RollupHasCapped, HasCapped
      <3> QED BY <2>1, <3>1, CappedStays
    <2>3. CASE ledger[d].status = "NONE"
      <3>1. PICK w \in Workers : RowClaimed(d, w)
        BY <1>0, <2>1, <2>3, RowStep DEF RowKept, RowRecorded, Holds
      <3>2. HasCapped(d)
        BY <3>1 DEF RowClaimed, Claim, At, RollupInv, RollupWorkers, Attempting
      <3> QED BY <2>1, <3>2, CappedStays
    <2> QED BY <2>2, <2>3
  <1> QED BY <1>1, <1>2 DEF RollupInv

(* The rollup invariant holds in every reachable state. *)
LEMMA RollupInvariant == Spec => [](LeaseInv /\ RollupInv)
  <1>1. Init => RollupInv
    <2> SUFFICES ASSUME Init PROVE RollupInv
      OBVIOUS
    <2>1. \A w \in Workers : workers[w].pc = "idle"
      BY DEF Init, IdleWorker
    <2>2. \A d \in Rollups : ledger[d].status = "NONE"
      BY DEF Init, NoRow, Deliveries
    <2> QED BY <2>1, <2>2 DEF RollupInv, RollupHasCapped, RollupWorkers, Attempting
  <1>2. LeaseInv /\ RollupInv /\ [Next]_vars => RollupInv'
    BY RollupInvStep
  <1> QED BY <1>1, <1>2, LeaseInvariant, PTL DEF Spec

(* Every rollup row ever made has an alert the cap held back behind it, so *)
(* a rollup email always has something to report.                          *)
THEOREM RollupsHaveCapped == Spec => []RollupHasCapped
  <1>1. RollupInv => RollupHasCapped
    BY DEF RollupInv
  <1> QED BY <1>1, RollupInvariant, PTL

-----------------------------------------------------------------------------
(* The abstract promise.                                                   *)

(* Only rollups are sent as rollups.                                       *)
DirectNotRollup == \A d \in Direct : ledger[d].status # "ROLLUP_SENT"

PromiseInv == LeaseInv /\ CapRespected /\ RollupHasCapped /\ DirectNotRollup

(* No step records an alert's row as a sent rollup. *)
LEMMA DirectNotRollupStep ==
  ASSUME TypeInv, DirectNotRollup, [Next]_vars
  PROVE  DirectNotRollup'
  <1> SUFFICES ASSUME NEW d \in Direct, ledger'[d].status = "ROLLUP_SENT" PROVE FALSE
    BY DEF DirectNotRollup
  <1>1. d \in Deliveries /\ ledger[d].status # "ROLLUP_SENT"
    BY DEF Deliveries, DirectNotRollup
  <1>2. ASSUME NEW w \in Workers, RowRecorded(d, w) PROVE FALSE
    <2>1. workers[w].outcome \in Outcomes
      BY <1>2 DEF RowRecorded, Record, At, TypeInv, WorkerShape, Shape
    <2> QED BY <1>2, <2>1 DEF RowRecorded, Stored, Outcomes
  <1> QED BY <1>1, <1>2, RowStep DEF RowKept, RowClaimed

(* What the refinement needs to know of the ledger holds in every reachable
   state. *)
LEMMA PromiseInvariant == Spec => []PromiseInv
  <1>1. Init => DirectNotRollup
    BY DEF Init, NoRow, DirectNotRollup, Deliveries
  <1>2. LeaseInv /\ DirectNotRollup /\ [Next]_vars => DirectNotRollup'
    BY DirectNotRollupStep DEF LeaseInv
  <1>3. Spec => []DirectNotRollup
    BY <1>1, <1>2, LeaseInvariant, PTL DEF Spec
  <1> QED BY <1>3, CapInvariant, RollupsHaveCapped, PTL DEF PromiseInv

(* When the holder of an alert's claim records it as sent, the alerts of   *)
(* its run that are sent already leave room for it under the cap.          *)
LEMMA RoomForOneMore ==
  ASSUME LeaseInv, CapRespected, NEW d \in Direct, NEW w \in Workers,
         Holds(w, d), workers[w].pc = "record", workers[w].outcome = "SENT"
  PROVE  Cardinality({e \in SameRun(d) : ledger[e].status = "SENT"}) < Cap
  <1> DEFINE S == {e \in SameRun(d) : ledger[e].status = "SENT"}
             C == {e \in Direct : /\ InvestorOf(e) = InvestorOf(d)
                                  /\ RunOfRow(e) = RunOfRow(d)
                                  /\ ClearedCap(e)}
  <1>1. IsFiniteSet(S) /\ IsFiniteSet(C)
    BY DeliveriesFinite, FS_Subset DEF SameRun
  <1>2. S \subseteq C \ {d} /\ d \in C
    BY DEF SameRun, ClearedCap, Past, Holds
  <1>3. Cardinality(C) <= Cap
    BY KeyShape DEF CapRespected, Deliveries
  <1> HIDE DEF S, C
  <1>4. /\ IsFiniteSet(C \ {d})
        /\ Cardinality(C \ {d}) = Cardinality(C) - 1
    BY <1>1, <1>2, FS_RemoveElement
  <1>5. Cardinality(S) <= Cardinality(C \ {d})
    BY <1>2, <1>4, FS_Subset
  <1>6. Cardinality(S) \in Nat /\ Cardinality(C) \in Nat /\ Cap \in Nat
    BY <1>1, FS_CardinalityType, CapIsCount
  <1>7. Cardinality(S) < Cap
    BY <1>3, <1>4, <1>5, <1>6
  <1> QED BY <1>7 DEF S

Fate == [d \in Deliveries |-> FateOf(ledger[d].status)]

(* The abstract module counts as this one does. *)
LEMMA SameCardinality == \A S : Promise!Cardinality(S) = Cardinality(S)
  BY DEF Promise!Cardinality, Cardinality

(* Every step of the workers is a step of the promise or changes no fate. *)
LEMMA PromiseStep ==
  ASSUME PromiseInv, [Next]_vars
  PROVE  [Promise!Next]_Fate
  <1> USE DEF At
  <1>0. /\ TypeInv /\ LeaseInv /\ CapRespected /\ RollupHasCapped /\ DirectNotRollup
        /\ ledger \in [Deliveries -> Row]
    BY DEF PromiseInv, LeaseInv, TypeInv, TypeOK
  <1>k. /\ Promise!Alerts = Direct /\ Promise!Digests = Rollups
        /\ \A d \in Direct : Promise!AllOf(d[1], RunOf[d[2]]) = SameRun(d)
        /\ \A d \in Rollups : Promise!AllOf(d[1], d[2]) = SameRun(d)
    BY KeyShape DEF Promise!Alerts, Promise!Digests, Promise!AllOf, Direct, Rollups,
                    SameRun, InvestorOf, RunOfRow, Deliveries
  <1>1. ASSUME \A d \in Deliveries : RowKept(d) \/ \E w \in Workers : RowClaimed(d, w)
        PROVE  UNCHANGED Fate
    <2>1. ASSUME NEW d \in Deliveries
          PROVE  FateOf(ledger'[d].status) = FateOf(ledger[d].status)
      BY <1>1, <2>1 DEF RowKept, RowClaimed, FateOf, SentStatuses
    <2> QED BY <2>1 DEF Fate
  <1>2. ASSUME NEW w \in Workers, Record(w)
        PROVE  [Promise!Next]_Fate
    <2> DEFINE d == workers[w].key
               status == Stored(d, workers[w].outcome)
    <2>1. /\ d \in Deliveries
          /\ workers[w].outcome \in Outcomes
          /\ workers[w].outcome = "SUPPRESSED_CAP" => d \in Direct
          /\ workers[w].pc = "record"
          /\ Holds(w, d) /\ ledger[d].status = "CLAIMED"
      BY <1>0, <1>2 DEF Record, TypeInv, WorkerShape, Shape, Attempting, Holds, LeaseHeld
    <2>2. /\ ledger'[d].status = status
          /\ \A e \in Deliveries \ {d} : ledger'[e].status = ledger[e].status
      <3>1. ledger' = [ledger EXCEPT ![d] =
              [@ EXCEPT !.status = status, !.stale = FALSE, !.at = workers[w].at,
                        !.recent = status \in SentStatuses]]
        BY <1>2 DEF Record
      <3> HIDE DEF d, status
      <3> QED BY <1>0, <2>1, <3>1 DEF Row
    <2>3. Fate' = [Fate EXCEPT ![d] = FateOf(status)]
      <3> HIDE DEF d, status
      <3> QED BY <2>1, <2>2 DEF Fate
    <2>4. Fate[d] = "open"
      BY <2>1 DEF Fate, FateOf, SentStatuses
    <2> HIDE DEF d
    <2>5. CASE status \in SentStatuses /\ d \in Direct
      <3>1. workers[w].outcome = "SENT"
        BY <2>1, <2>5 DEF Stored, SentStatuses, Outcomes
      <3>2. Cardinality({e \in SameRun(d) : ledger[e].status = "SENT"}) < Cap
        BY <1>0, <2>1, <2>5, <3>1, RoomForOneMore
      <3>3. {e \in SameRun(d) : Fate[e] = "sent"}
              = {e \in SameRun(d) : ledger[e].status = "SENT"}
        <4>1. ASSUME NEW e \in Direct
              PROVE  Fate[e] = "sent" <=> ledger[e].status = "SENT"
          <5>1. ledger[e].status \in Statuses \ {"ROLLUP_SENT"} /\ e \in Deliveries
            BY <1>0, <4>1 DEF Row, DirectNotRollup, Deliveries
          <5> QED BY <5>1 DEF Fate, FateOf, Statuses, Outcomes, SentStatuses
        <4> QED BY <4>1 DEF SameRun
      <3>4. FateOf(status) = "sent"
        BY <2>5 DEF FateOf, SentStatuses
      <3>5. Promise!Become(d, "sent")
        BY <2>3, <2>4, <3>4 DEF Promise!Become, Fate
      <3>6. Promise!AllOf(d[1], RunOf[d[2]]) = SameRun(d)
        BY <1>k, <2>5
      <3>7. {e \in Promise!AllOf(d[1], RunOf[d[2]]) : Fate[e] = "sent"}
              = {e \in SameRun(d) : ledger[e].status = "SENT"}
        BY <3>3, <3>6
      <3>8. Promise!SendAlert(d)
        BY <3>2, <3>5, <3>7, SameCardinality DEF Promise!SendAlert, Fate
      <3> QED BY <1>k, <2>5, <3>8 DEF Promise!Next
    <2>6. CASE status \in SentStatuses /\ d \notin Direct
      <3>1. d \in Rollups
        BY <2>1, <2>6 DEF Deliveries
      <3>2. PICK e \in Direct : Rollup(e) = d /\ ledger[e].status = "SUPPRESSED_CAP"
        BY <1>0, <2>1, <3>1 DEF RollupHasCapped
      <3>3. e \in SameRun(d) /\ Fate[e] = "capped"
        BY <3>1, <3>2, KeyShape, SubjectsDisjoint
           DEF SameRun, Rollup, Rollups, InvestorOf, RunOfRow, Direct, Fate, FateOf,
               Deliveries, SentStatuses
      <3>4. FateOf(status) = "sent"
        BY <2>6 DEF FateOf, SentStatuses
      <3>5. Promise!SendRollup(d)
        BY <1>k, <2>3, <2>4, <3>1, <3>3, <3>4
           DEF Promise!SendRollup, Promise!Become, Fate
      <3> QED BY <1>k, <3>1, <3>5 DEF Promise!Next
    <2>7. CASE status \in {"REJECTED", "SUPPRESSED_BUDGET"}
      <3>1. FateOf(status) = "dropped"
        BY <2>7 DEF FateOf, SentStatuses
      <3>2. Promise!Drop(d)
        BY <2>3, <2>4, <3>1 DEF Promise!Drop, Promise!Become, Fate
      <3> QED BY <1>k, <2>1, <3>2 DEF Promise!Next, Deliveries
    <2>8. CASE status = "SUPPRESSED_CAP"
      <3>1. FateOf(status) = "capped" /\ d \in Direct
        BY <2>1, <2>8 DEF FateOf, SentStatuses, Stored
      <3>2. Promise!HoldBack(d)
        BY <2>3, <2>4, <3>1 DEF Promise!HoldBack, Promise!Become, Fate
      <3> QED BY <1>k, <3>1, <3>2 DEF Promise!Next
    <2>9. CASE status = "FAILED"
      <3>1. FateOf(status) = Fate[d]
        BY <2>4, <2>9 DEF FateOf, SentStatuses
      <3>2. Fate' = Fate
        BY <2>3, <3>1 DEF Fate
      <3> QED BY <3>2
    <2> QED BY <2>1, <2>5, <2>6, <2>7, <2>8, <2>9 DEF Stored, Outcomes, SentStatuses
  <1>3. CASE \E w \in Workers : Record(w)
    BY <1>2, <1>3
  <1>4. CASE ~ \E w \in Workers : Record(w)
    BY <1>0, <1>1, <1>4, RowStep DEF RowRecorded
  <1> QED BY <1>3, <1>4

(* The workers implement the promise of AlertPromise: every step of theirs *)
(* decides at most one delivery, for good, and within the cap.             *)
THEOREM PromiseHolds == Spec => PromiseKept
  <1>1. Init => Promise!Init
    <2> SUFFICES ASSUME Init PROVE Promise!Init
      OBVIOUS
    <2>1. \A d \in Deliveries : FateOf(ledger[d].status) = "open"
      BY DEF Init, NoRow, FateOf, SentStatuses
    <2> QED BY <2>1 DEF Promise!Init, Promise!Alerts, Promise!Digests, Deliveries,
                        Direct, Rollups
  <1>2. PromiseInv /\ [Next]_vars => [Promise!Next]_Fate
    BY PromiseStep
  <1> QED BY <1>1, <1>2, PromiseInvariant, PTL DEF Spec, PromiseKept, Promise!Spec, Fate

-----------------------------------------------------------------------------
(***************************************************************************)
(* What AlertDelivery keeps for its investors: an email goes only where it *)
(* is wanted and, while workers outlive no claim, at most once; the        *)
(* subscription shows the newest outcome; and no alert is forgotten.  The  *)
(* facts about single steps come first, one per way the code moves on.     *)
(***************************************************************************)

(* Everything about worker w but its phase is as it was. *)
MovedTo(w, p) ==
  /\ workers'[w].pc = p
  /\ workers'[w].rec = workers[w].rec
  /\ workers'[w].todo = workers[w].todo
  /\ workers'[w].key = workers[w].key
  /\ workers'[w].lease = workers[w].lease
  /\ workers'[w].seen = workers[w].seen
  /\ workers'[w].outcome = workers[w].outcome
  /\ workers'[w].at = workers[w].at
  /\ workers'[w].retry = workers[w].retry
  /\ workers'[w].late = workers[w].late

(* Worker w concluded its attempt with outcome o, stamped now. *)
ConcludedWith(w, o) ==
  /\ workers'[w].pc = "record"
  /\ workers'[w].outcome = o
  /\ workers'[w].at = clock
  /\ clock' = clock + 1
  /\ workers'[w].rec = workers[w].rec
  /\ workers'[w].todo = workers[w].todo
  /\ workers'[w].key = workers[w].key
  /\ workers'[w].lease = workers[w].lease
  /\ workers'[w].seen = workers[w].seen
  /\ workers'[w].retry = workers[w].retry

(* Worker w is back at its record's list of investors. *)
BackToList(w, b) ==
  /\ workers'[w].pc = "choose"
  /\ workers'[w].rec = workers[w].rec
  /\ workers'[w].todo = workers[w].todo
  /\ workers'[w].retry = (workers[w].retry \/ b)

(* Worker w goes on with the rollup of the run it attempted an alert of. *)
TurnedToRollup(w) ==
  /\ workers'[w].pc = "claim"
  /\ workers'[w].key = Rollup(workers[w].key)
  /\ workers'[w].rec = workers[w].rec
  /\ workers'[w].todo = workers[w].todo
  /\ workers'[w].retry = workers[w].retry

(* Replacing one worker's state leaves every other worker's alone. *)
LEMMA UpdateIs ==
  ASSUME TypeInv, NEW w \in Workers, NEW n, Update(w, n)
  PROVE  /\ workers'[w] = n
         /\ \A v \in Workers : v # w => workers'[v] = workers[v]
  BY DEF Update, TypeInv, TypeOK

(* Move changes a worker's phase only. *)
LEMMA MoveIs ==
  ASSUME TypeInv, NEW w \in Workers, NEW p, Move(w, p)
  PROVE  MovedTo(w, p)
  <1>1. workers[w] \in Worker
    BY DEF TypeInv, TypeOK
  <1>2. workers'[w] = [workers[w] EXCEPT !.pc = p]
    BY UpdateIs DEF Move
  <1> QED BY <1>1, <1>2 DEF MovedTo, Worker

(* Conclude stamps the outcome with the clock and moves the clock on. *)
LEMMA ConcludeIs ==
  ASSUME TypeInv, NEW w \in Workers, NEW o, Conclude(w, o)
  PROVE  ConcludedWith(w, o)
  <1>1. workers[w] \in Worker
    BY DEF TypeInv, TypeOK
  <1>2. workers'[w] = [workers[w] EXCEPT !.pc = "record", !.outcome = o, !.at = clock]
    BY UpdateIs DEF Conclude
  <1>3. clock' = clock + 1
    BY DEF Conclude
  <1> QED BY <1>1, <1>2, <1>3 DEF ConcludedWith, Worker

(* NextInvestor keeps the record, what is left of its list and its retry. *)
LEMMA NextInvestorIs ==
  ASSUME TypeInv, NEW w \in Workers, NEW b, NextInvestor(w, b)
  PROVE  BackToList(w, b)
  <1>1. workers'[w] = [IdleWorker EXCEPT !.pc = "choose", !.rec = workers[w].rec,
                         !.todo = workers[w].todo, !.retry = workers[w].retry \/ b]
    BY UpdateIs DEF NextInvestor
  <1> QED BY <1>1 DEF BackToList, IdleWorker

(* TurnToRollup keeps the record and swaps the key for its rollup. *)
LEMMA TurnToRollupIs ==
  ASSUME TypeInv, NEW w \in Workers, TurnToRollup(w)
  PROVE  TurnedToRollup(w)
  <1>1. workers[w] \in Worker
    BY DEF TypeInv, TypeOK
  <1>2. workers'[w] = [workers[w] EXCEPT !.pc = "claim", !.key = Rollup(workers[w].key),
                         !.lease = 0, !.outcome = Nothing, !.at = 0]
    BY UpdateIs DEF TurnToRollup
  <1> QED BY <1>1, <1>2 DEF TurnedToRollup, Worker

(* A worker's step leaves every other worker exactly as it was. *)
LEMMA OthersSame ==
  ASSUME TypeInv, NEW w \in Workers, NEW v \in Workers, v # w, Step(v) \/ Fault(v)
  PROVE  workers'[w] = workers[w]
  <1>1. \E n : Update(v, n)
    BY DEF Step, Fault, Receive, LoadAlert, LoadWatcher, Claim, ReadHeld,
         CheckCap, CheckBudget, CheckWanted, CountCapped, Send, Record,
         RecordLeaseLost, Finish, AlertNotReady, Raise, Crash, Conclude, Move,
         NextInvestor, TurnToRollup
  <1> QED BY <1>1, UpdateIs

-----------------------------------------------------------------------------
(* The steps that move a worker on in a way of their own.                  *)

(* Worker w took record r; its list is still to be read. *)
Received(w, r) == /\ workers'[w].pc = "load"
                  /\ workers'[w].rec = r
                  /\ workers'[w].todo = workers[w].todo
                  /\ workers'[w].retry = workers[w].retry

(* Worker w has its record's list, or gave it up to try the record again. *)
Listed(w, todo, retry) == /\ workers'[w].pc = "choose"
                          /\ workers'[w].rec = workers[w].rec
                          /\ workers'[w].todo = todo
                          /\ workers'[w].retry = retry

(* Worker w has one investor less to look at: it attempts a wanted alert. *)
Looked(w, i) ==
  /\ i \in workers[w].todo
  /\ workers'[w].rec = workers[w].rec
  /\ workers'[w].todo = workers[w].todo \ {i}
  /\ workers'[w].retry = workers[w].retry
  /\ \/ /\ ArtifactOf[workers[w].rec] \in sub[i].wants
        /\ workers'[w].pc = "claim"
        /\ workers'[w].key = <<i, ArtifactOf[workers[w].rec]>>
     \/ /\ ArtifactOf[workers[w].rec] \notin sub[i].wants
        /\ workers'[w].pc = "choose"

(* Worker w made the claim of its row. *)
TookClaim(w) ==
  LET d == workers[w].key
  IN  /\ Reclaimable(ledger[d])
      /\ workers'[w].pc = "cap"
      /\ workers'[w].rec = workers[w].rec
      /\ workers'[w].todo = workers[w].todo
      /\ workers'[w].key = d
      /\ workers'[w].lease = ledger[d].claim + 1
      /\ workers'[w].seen = workers[w].seen
      /\ workers'[w].retry = workers[w].retry
      /\ ledger'[d].status = "CLAIMED"
      /\ ledger'[d].claim = ledger[d].claim + 1
      /\ ledger'[d].holder = workers[w].rec
      /\ ~ledger'[d].stale
      /\ ledger'[d].at = ledger[d].at
      /\ \A e \in Deliveries : e # d => ledger'[e] = ledger[e]

(* Worker w found the row of another attempt or an outcome. *)
LeftClaim(w) == /\ ~Reclaimable(ledger[workers[w].key])
                /\ MovedTo(w, "held")
                /\ ledger' = ledger

(* The row of worker w's key took its outcome, every other stayed. *)
Outcome(w) ==
  LET d == workers[w].key
  IN  /\ LeaseHeld(w)
      /\ ledger'[d].status = Stored(d, workers[w].outcome)
      /\ ledger'[d].claim = ledger[d].claim
      /\ ledger'[d].holder = ledger[d].holder
      /\ ledger'[d].at = workers[w].at
      /\ \A e \in Deliveries : e # d => ledger'[e] = ledger[e]

(* A container takes a record. *)
LEMMA ReceiveIs ==
  ASSUME TypeInv, NEW w \in Workers, Receive(w)
  PROVE  \E r \in Records : /\ queue[r].state = "visible"
                            /\ queue' = [queue EXCEPT ![r] = [state |-> "inflight",
                                                     receives |-> @.receives + 1]]
                            /\ Received(w, r)
  <1>1. PICK r \in Records :
          /\ queue[r].state = "visible"
          /\ queue' = [queue EXCEPT ![r] = [state |-> "inflight",
                                            receives |-> @.receives + 1]]
          /\ Update(w, [workers[w] EXCEPT !.pc = "load", !.rec = r])
    BY DEF Receive
  <1>2. workers[w] \in Worker
    BY DEF TypeInv, TypeOK
  <1>3. workers'[w] = [workers[w] EXCEPT !.pc = "load", !.rec = r]
    BY <1>1, UpdateIs
  <1>4. Received(w, r)
    BY <1>2, <1>3 DEF Received, Worker
  <1> QED BY <1>1, <1>4

(* The list of a record is read, or the record is handed back unread. *)
LEMMA LoadIs ==
  ASSUME TypeInv, NEW w \in Workers
  PROVE  /\ LoadAlert(w) => Listed(w, Investors, workers[w].retry)
         /\ AlertNotReady(w) => Listed(w, workers[w].todo, TRUE)
  <1>1. workers[w] \in Worker
    BY DEF TypeInv, TypeOK
  <1>2. ASSUME LoadAlert(w) PROVE Listed(w, Investors, workers[w].retry)
    <2>1. workers'[w] = [workers[w] EXCEPT !.pc = "choose", !.todo = Investors]
      BY <1>2, UpdateIs DEF LoadAlert
    <2> QED BY <1>1, <2>1 DEF Listed, Worker
  <1>3. ASSUME AlertNotReady(w) PROVE Listed(w, workers[w].todo, TRUE)
    <2>1. workers'[w] = [workers[w] EXCEPT !.pc = "choose", !.retry = TRUE]
      BY <1>3, UpdateIs DEF AlertNotReady
    <2> QED BY <1>1, <2>1 DEF Listed, Worker
  <1> QED BY <1>2, <1>3

(* The next investor of a list is looked at. *)
LEMMA LookIs ==
  ASSUME TypeInv, NEW w \in Workers, LoadWatcher(w)
  PROVE  \E i \in workers[w].todo : Looked(w, i)
  <1> DEFINE a == ArtifactOf[workers[w].rec]
             wanted(i) == [workers[w] EXCEPT !.todo = workers[w].todo \ {i},
                             !.pc = "claim", !.key = <<i, a>>, !.seen = sub[i]]
             passed(i) == [workers[w] EXCEPT !.todo = workers[w].todo \ {i}]
  <1>1. PICK i \in workers[w].todo :
          \/ a \in sub[i].wants /\ Update(w, wanted(i))
          \/ a \notin sub[i].wants /\ Update(w, passed(i))
    BY DEF LoadWatcher
  <1>2. workers[w] \in Worker /\ workers[w].pc = "choose"
    BY DEF TypeInv, TypeOK, LoadWatcher, At
  <1>3. CASE a \in sub[i].wants /\ Update(w, wanted(i))
    <2>1. workers'[w] = wanted(i)
      BY <1>3, UpdateIs
    <2> QED BY <1>2, <1>3, <2>1 DEF Looked, Worker
  <1>4. CASE a \notin sub[i].wants /\ Update(w, passed(i))
    <2>1. workers'[w] = passed(i)
      BY <1>4, UpdateIs
    <2> QED BY <1>2, <1>4, <2>1 DEF Looked, Worker
  <1> QED BY <1>1, <1>3, <1>4

(* A claim is taken as a whole or the row is left alone. *)
LEMMA ClaimIs ==
  ASSUME TypeInv, NEW w \in Workers, Claim(w)
  PROVE  workers[w].key \in Deliveries /\ (TookClaim(w) \/ LeftClaim(w))
  <1> DEFINE d == workers[w].key
             n == [workers[w] EXCEPT !.pc = "cap", !.lease = ledger[d].claim + 1]
             row == [ledger[d] EXCEPT !.status = "CLAIMED", !.claim = ledger[d].claim + 1,
                       !.stale = FALSE, !.recent = TRUE, !.holder = workers[w].rec]
  <1>1. workers[w] \in Worker /\ d \in Deliveries
    BY DEF TypeInv, TypeOK, WorkerShape, Shape, Attempting, Claim, At
  <1>2. ledger[d] \in Row /\ ledger \in [Deliveries -> Row]
    BY <1>1 DEF TypeInv, TypeOK
  <1>3. CASE ~Reclaimable(ledger[d])
    BY <1>1, <1>3, MoveIs DEF Claim, LeftClaim
  <1>4. CASE Reclaimable(ledger[d])
    <2>1. Update(w, n) /\ ledger' = [ledger EXCEPT ![d] = row]
      BY <1>4 DEF Claim
    <2>2. workers'[w] = n
      <3> HIDE DEF n
      <3> QED BY <2>1, UpdateIs
    <2>3. ledger'[d] = row /\ \A e \in Deliveries : e # d => ledger'[e] = ledger[e]
      <3> HIDE DEF row, d
      <3> QED BY <1>1, <1>2, <2>1
    <2>4. /\ ledger'[d].status = "CLAIMED"
          /\ ledger'[d].claim = ledger[d].claim + 1
          /\ ledger'[d].holder = workers[w].rec
          /\ ~ledger'[d].stale
          /\ ledger'[d].at = ledger[d].at
      <3> HIDE DEF d
      <3> QED BY <1>2, <2>3 DEF Row
    <2>5. /\ workers'[w].pc = "cap" /\ workers'[w].rec = workers[w].rec
          /\ workers'[w].todo = workers[w].todo /\ workers'[w].key = d
          /\ workers'[w].lease = ledger[d].claim + 1
          /\ workers'[w].seen = workers[w].seen
          /\ workers'[w].retry = workers[w].retry
      BY <1>1, <2>2 DEF Worker
    <2> HIDE DEF row, n
    <2> QED BY <1>1, <1>4, <2>3, <2>4, <2>5 DEF TookClaim
  <1> QED BY <1>3, <1>4

(* record() writes the outcome and its stamp to the row whose claim it holds,
   then goes on with the rollup or the next investor. *)
LEMMA RecordIs ==
  ASSUME TypeInv, NEW w \in Workers, Record(w)
  PROVE  /\ workers[w].key \in Deliveries
         /\ workers[w].outcome \in Outcomes
         /\ Outcome(w)
         /\ IF Stored(workers[w].key, workers[w].outcome) = "SUPPRESSED_CAP"
            THEN workers[w].key \in Direct /\ TurnedToRollup(w)
            ELSE BackToList(w, Stored(workers[w].key, workers[w].outcome) = "FAILED")
  <1> DEFINE d == workers[w].key
             status == Stored(d, workers[w].outcome)
             row == [ledger[d] EXCEPT !.status = status, !.stale = FALSE,
                       !.at = workers[w].at, !.recent = status \in SentStatuses]
  <1>1. /\ d \in Deliveries /\ workers[w].outcome \in Outcomes
        /\ workers[w].outcome = "SUPPRESSED_CAP" => d \in Direct
    BY DEF TypeInv, WorkerShape, Shape, Attempting, Record, At
  <1>2. ledger[d] \in Row /\ ledger \in [Deliveries -> Row]
    BY <1>1 DEF TypeInv, TypeOK
  <1>3. ledger' = [ledger EXCEPT ![d] = row] /\ LeaseHeld(w)
    BY DEF Record
  <1>4. ledger'[d] = row /\ \A e \in Deliveries : e # d => ledger'[e] = ledger[e]
    <2> HIDE DEF row, d
    <2> QED BY <1>1, <1>2, <1>3
  <1>5. /\ ledger'[d].status = status
        /\ ledger'[d].claim = ledger[d].claim
        /\ ledger'[d].holder = ledger[d].holder
        /\ ledger'[d].at = workers[w].at
    <2> HIDE DEF d, status
    <2> QED BY <1>2, <1>4 DEF Row
  <1>6. Outcome(w)
    <2> HIDE DEF row
    <2> QED BY <1>3, <1>4, <1>5 DEF Outcome
  <1>7. CASE status = "SUPPRESSED_CAP"
    <2>1. TurnToRollup(w) /\ workers[w].outcome = "SUPPRESSED_CAP"
      BY <1>7 DEF Record, Stored
    <2> QED BY <1>1, <1>6, <1>7, <2>1, TurnToRollupIs
  <1>8. CASE status # "SUPPRESSED_CAP"
    <2>1. NextInvestor(w, status = "FAILED")
      BY <1>8 DEF Record
    <2> HIDE DEF status
    <2>2. BackToList(w, status = "FAILED")
      BY <2>1, NextInvestorIs
    <2> QED BY <1>1, <1>6, <1>8, <2>2 DEF status
  <1> QED BY <1>7, <1>8

-----------------------------------------------------------------------------
(* Emails go where they are wanted.  What CheckCap and CheckWanted saw must *)
(* be part of the invariant: the worker reads the preferences twice and    *)
(* sends later.                                                            *)

Wanted(w) ==
  /\ workers[w].pc \in {"budget", "wanted", "compose", "send"} =>
       workers[w].seen.verified
  /\ workers[w].pc \in {"compose", "send"} /\ ~workers[w].late =>
       /\ sub[InvestorOf(workers[w].key)] = workers[w].seen
       /\ ArtifactOf[workers[w].rec] \in workers[w].seen.wants

WantedInv == \A w \in Workers : Wanted(w)

(* A worker's own step gets it past a check only where the check held. *)
LEMMA WantedOwnStep ==
  ASSUME TypeInv, NEW w \in Workers, Wanted(w), Step(w) \/ Fault(w)
  PROVE  Wanted(w)'
  <1> USE DEF At
  <1>0. sub' = sub
    BY DEF Step, Fault, Receive, LoadAlert, LoadWatcher, Claim, ReadHeld,
         CheckCap, CheckBudget, CheckWanted, CountCapped, Send, Record,
         RecordLeaseLost, Finish, AlertNotReady, Raise, Crash
  <1>q. ASSUME workers'[w].pc \notin {"budget", "wanted", "compose", "send"}
        PROVE  Wanted(w)'
    BY <1>q DEF Wanted
  <1>c. ASSUME NEW o, Conclude(w, o) PROVE Wanted(w)'
    BY <1>c, <1>q, ConcludeIs DEF ConcludedWith
  <1>n. ASSUME NEW b, NextInvestor(w, b) PROVE Wanted(w)'
    BY <1>n, <1>q, NextInvestorIs DEF BackToList
  <1>t. ASSUME TurnToRollup(w) PROVE Wanted(w)'
    BY <1>t, <1>q, TurnToRollupIs DEF TurnedToRollup
  <1>1. CASE Receive(w)
    BY <1>1, <1>q, ReceiveIs DEF Received
  <1>2. CASE LoadAlert(w) \/ AlertNotReady(w)
    BY <1>2, <1>q, LoadIs DEF Listed
  <1>3. CASE LoadWatcher(w)
    BY <1>3, <1>q, LookIs DEF Looked
  <1>4. CASE Claim(w)
    BY <1>4, <1>q, ClaimIs DEF TookClaim, LeftClaim, MovedTo
  <1>5. CASE ReadHeld(w) \/ RecordLeaseLost(w) \/ Raise(w)
    BY <1>5, <1>n, <1>t DEF ReadHeld, RecordLeaseLost, Raise
  <1>6. CASE CheckCap(w)
    <2>1. CASE Move(w, "budget") /\ workers[w].seen.verified
      BY <2>1, MoveIs DEF MovedTo, Wanted
    <2> QED BY <1>6, <1>c, <2>1 DEF CheckCap
  <1>7. CASE CheckBudget(w)
    <2>1. CASE Move(w, "wanted")
      BY <1>7, <2>1, MoveIs DEF CheckBudget, MovedTo, Wanted
    <2> QED BY <1>7, <1>c, <2>1 DEF CheckBudget
  <1>8. CASE CheckWanted(w)
    <2>1. ASSUME NEW p \in {"compose", "send"}, Move(w, p), StillWanted(w)
          PROVE  Wanted(w)'
      BY <1>0, <1>8, <2>1, MoveIs DEF CheckWanted, StillWanted, MovedTo, Wanted
    <2> QED BY <1>8, <1>c, <2>1 DEF CheckWanted
  <1>9. CASE CountCapped(w)
    <2>1. CASE Move(w, "send")
      BY <1>0, <1>9, <2>1, MoveIs DEF CountCapped, MovedTo, Wanted
    <2> QED BY <1>9, <1>c, <2>1 DEF CountCapped
  <1>10. CASE Send(w)
    BY <1>10, <1>c DEF Send
  <1>11. CASE Record(w)
    BY <1>11, <1>q, RecordIs DEF BackToList, TurnedToRollup
  <1>12. CASE Finish(w) \/ Crash(w)
    BY <1>12, <1>q, UpdateIs DEF Finish, Crash, IdleWorker
  <1> QED BY <1>1, <1>2, <1>3, <1>4, <1>5, <1>6, <1>7, <1>8, <1>9, <1>10, <1>11,
             <1>12 DEF Step, Fault

(* A change of preferences marks the attempts it comes too late for. *)
LEMMA WantedChange ==
  ASSUME TypeInv, NEW w \in Workers, Wanted(w),
         NEW i \in Investors, ChangePreferences(i)
  PROVE  Wanted(w)'
  <1> DEFINE now == workers[w].pc \in {"compose", "send"} /\ InvestorOf(workers[w].key) = i
  <1>1. workers[w] \in Worker /\ Shape(workers[w])
    BY DEF TypeInv, TypeOK, WorkerShape
  <1>2. workers'[w] = [workers[w] EXCEPT !.late = @ \/ now]
    BY DEF ChangePreferences
  <1>3. /\ workers'[w].pc = workers[w].pc /\ workers'[w].rec = workers[w].rec
        /\ workers'[w].key = workers[w].key /\ workers'[w].seen = workers[w].seen
        /\ workers'[w].late = (workers[w].late \/ now)
    <2> HIDE DEF now
    <2> QED BY <1>1, <1>2 DEF Worker
  <1>4. \A j \in Investors : j # i => sub'[j] = sub[j]
    BY DEF ChangePreferences, TypeInv, TypeOK
  <1>5. workers[w].pc \in {"compose", "send"} => InvestorOf(workers[w].key) \in Investors
    BY <1>1, KeyShape DEF Shape, Attempting
  <1> QED BY <1>3, <1>4, <1>5 DEF Wanted

(* Emails stay wanted whatever step is taken. *)
LEMMA WantedStep ==
  ASSUME TypeInv, WantedInv, [Next]_vars
  PROVE  WantedInv'
  <1> SUFFICES ASSUME NEW w \in Workers PROVE Wanted(w)'
    BY DEF WantedInv
  <1>0. Wanted(w)
    BY DEF WantedInv
  <1>1. CASE workers'[w] = workers[w] /\ sub' = sub
    BY <1>0, <1>1 DEF Wanted
  <1>2. CASE UNCHANGED vars
    BY <1>1, <1>2 DEF vars
  <1>3. ASSUME NEW v \in Workers, v # w, Step(v) \/ Fault(v) PROVE Wanted(w)'
    <2>1. sub' = sub
      BY <1>3 DEF Step, Fault, Receive, LoadAlert, LoadWatcher, Claim, ReadHeld,
           CheckCap, CheckBudget, CheckWanted, CountCapped, Send, Record,
           RecordLeaseLost, Finish, AlertNotReady, Raise, Crash
    <2> QED BY <1>1, <1>3, <2>1, OthersSame
  <1>4. CASE \E r \in Records : Redeliver(r)
    BY <1>1, <1>4 DEF Redeliver
  <1>5. CASE \E d \in Deliveries : GoStale(d) \/ LeaveWindow(d)
    BY <1>1, <1>5 DEF GoStale, LeaveWindow
  <1>6. CASE \E i \in Investors : ChangePreferences(i)
    BY <1>0, <1>6, WantedChange
  <1>7. CASE Step(w) \/ Fault(w)
    BY <1>0, <1>7, WantedOwnStep
  <1> QED BY <1>2, <1>3, <1>4, <1>5, <1>6, <1>7 DEF Next

(* An email leaves only for an address that is confirmed and an alert that *)
(* is wanted, as long as the preferences did not change after the last     *)
(* look at them.                                                           *)
THEOREM EmailsGoWhereWanted == Spec => []EmailsWanted
  <1>1. Init => WantedInv
    BY DEF Init, IdleWorker, WantedInv, Wanted
  <1>2. TypeInv /\ WantedInv /\ [Next]_vars => WantedInv'
    BY WantedStep
  <1>3. WantedInv => EmailsWanted
    <2> SUFFICES ASSUME WantedInv, NEW w \in Workers,
                        workers[w].pc = "send", ~workers[w].late
                 PROVE  /\ sub[InvestorOf(workers[w].key)].verified
                        /\ ArtifactOf[workers[w].rec] \in sub[InvestorOf(workers[w].key)].wants
                        /\ sub[InvestorOf(workers[w].key)] = workers[w].seen
      BY DEF EmailsWanted
    <2> QED BY DEF WantedInv, Wanted
  <1> QED BY <1>1, <1>2, <1>3, TypeInvariant, PTL DEF Spec

-----------------------------------------------------------------------------
(* The mirror.  Outcomes are stamped before their transactions commit, in  *)
(* whatever order those do: that no two stamps are ever the same, and that *)
(* all of them lie in the past, is what lets the newer one win.            *)

Recording == {w \in Workers : workers[w].pc = "record"}

Stamped(w) ==
  /\ 0 < workers[w].at /\ workers[w].at < clock
  /\ \A v \in Recording : v # w => workers[v].at # workers[w].at
  /\ \A d \in Deliveries : ledger[d].at # workers[w].at
  /\ \A i \in Investors : mirror[i].at # workers[w].at

StampInv ==
  /\ clock > 0
  /\ \A w \in Recording : Stamped(w)
  /\ \A d \in Deliveries : ledger[d].at < clock
  /\ \A i \in Investors : mirror[i].at < clock

(* The row named d shows in its investor's mirror as MirrorNewest asks. *)
Mirrors(d) ==
  LET shown == mirror[InvestorOf(d)]
  IN  /\ ledger[d].at <= shown.at
      /\ shown.at > 0 /\ ledger[d].at = shown.at /\ ledger[d].status \in Final
           => shown.status = ledger[d].status

NewStamp(w) == /\ workers'[w].at = clock
               /\ clock' = clock + 1
               /\ \A v \in Workers : v # w => workers'[v] = workers[v]
               /\ ledger' = ledger /\ mirror' = mirror

(* A stamp is given where the worker begins to record, once.               *)
LEMMA StampStep ==
  ASSUME TypeInv, [Next]_vars, NEW w \in Workers, workers'[w].pc = "record"
  PROVE  \/ workers[w].pc = "record" /\ workers'[w].at = workers[w].at
         \/ NewStamp(w)
  <1> USE DEF At
  <1>1. CASE workers'[w] = workers[w]
    BY <1>1
  <1>2. CASE UNCHANGED vars
    BY <1>1, <1>2 DEF vars
  <1>3. ASSUME NEW v \in Workers, v # w, Step(v) \/ Fault(v)
        PROVE  workers'[w] = workers[w]
    BY <1>3, OthersSame
  <1>4. ASSUME NEW i \in Investors, ChangePreferences(i)
        PROVE  workers[w].pc = "record" /\ workers'[w].at = workers[w].at
    <2>1. workers[w] \in Worker
      BY DEF TypeInv, TypeOK
    <2>2. workers'[w] = [workers[w] EXCEPT !.late = @ \/
              (workers[w].pc \in {"compose", "send"} /\ InvestorOf(workers[w].key) = i)]
      BY <1>4 DEF ChangePreferences
    <2> QED BY <2>1, <2>2 DEF Worker
  <1>5. CASE \/ \E r \in Records : Redeliver(r)
             \/ \E d \in Deliveries : GoStale(d) \/ LeaveWindow(d)
    BY <1>1, <1>5 DEF Redeliver, GoStale, LeaveWindow
  <1>6. CASE Step(w) \/ Fault(w)
    <2>c. ASSUME NEW o, Conclude(w, o), ledger' = ledger, mirror' = mirror
          PROVE  NewStamp(w)
      BY <2>c, ConcludeIs, UpdateIs DEF Conclude, ConcludedWith, NewStamp
    <2>m. ASSUME NEW p \in Phases \ {"record"}, Move(w, p) PROVE FALSE
      BY <2>m, MoveIs DEF MovedTo
    <2>n. ASSUME NEW b, NextInvestor(w, b) PROVE FALSE
      BY <2>n, NextInvestorIs DEF BackToList
    <2>t. ASSUME TurnToRollup(w) PROVE FALSE
      BY <2>t, TurnToRollupIs DEF TurnedToRollup
    <2>1. CASE Receive(w)
      BY <2>1, ReceiveIs DEF Received
    <2>2. CASE LoadAlert(w) \/ AlertNotReady(w)
      BY <2>2, LoadIs DEF Listed
    <2>3. CASE LoadWatcher(w)
      BY <2>3, LookIs DEF Looked
    <2>4. CASE Claim(w)
      BY <2>4, ClaimIs DEF TookClaim, LeftClaim, MovedTo
    <2>5. CASE ReadHeld(w) \/ RecordLeaseLost(w) \/ Raise(w)
      BY <2>5, <2>n, <2>t DEF ReadHeld, RecordLeaseLost, Raise
    <2>6. CASE CheckCap(w)
      BY <2>6, <2>c, <2>m DEF CheckCap, Phases
    <2>7. CASE CheckBudget(w)
      BY <2>7, <2>c, <2>m DEF CheckBudget, Phases
    <2>8. CASE CheckWanted(w)
      <3>1. CASE Move(w, "send") \/ Move(w, "compose")
        BY <2>m, <3>1 DEF Phases
      <3> QED BY <2>8, <2>c, <3>1 DEF CheckWanted
    <2>9. CASE CountCapped(w)
      BY <2>9, <2>c, <2>m DEF CountCapped, Phases
    <2>10. CASE Send(w)
      BY <2>10, <2>c DEF Send
    <2>11. CASE Record(w)
      BY <2>11, RecordIs DEF BackToList, TurnedToRollup
    <2>12. CASE Finish(w) \/ Crash(w)
      BY <2>12, UpdateIs DEF Finish, Crash, IdleWorker
    <2> QED BY <1>6, <2>1, <2>2, <2>3, <2>4, <2>5, <2>6, <2>7, <2>8, <2>9, <2>10,
               <2>11, <2>12 DEF Step, Fault
  <1> QED BY <1>1, <1>2, <1>3, <1>4, <1>5, <1>6 DEF Next

(* record() shows the newer of the two outcomes. *)
LEMMA MirrorIs ==
  ASSUME TypeInv, NEW w \in Workers, Record(w)
  PROVE  LET i == InvestorOf(workers[w].key)
         IN  /\ i \in Investors
             /\ mirror'[i] = Mirrored(mirror[i],
                               Stored(workers[w].key, workers[w].outcome), workers[w].at)
             /\ \A j \in Investors : j # i => mirror'[j] = mirror[j]
  <1>1. InvestorOf(workers[w].key) \in Investors
    BY RecordIs, KeyShape
  <1> QED BY <1>1 DEF Record, TypeInv, TypeOK

(* Only record() writes a row's time or an investor's mirror.              *)
LEMMA TimesKept ==
  ASSUME TypeInv, [Next]_vars, ~\E w \in Workers : Record(w)
  PROVE  /\ mirror' = mirror
         /\ \A d \in Deliveries :
              /\ ledger'[d].at = ledger[d].at
              /\ ledger'[d].status \in {ledger[d].status, "CLAIMED"}
  <1>1. CASE ledger' = ledger /\ mirror' = mirror
    BY <1>1
  <1>2. CASE UNCHANGED vars
    BY <1>1, <1>2 DEF vars
  <1>3. ASSUME NEW w \in Workers, Claim(w)
        PROVE  /\ mirror' = mirror
               /\ \A d \in Deliveries : /\ ledger'[d].at = ledger[d].at
                                        /\ ledger'[d].status \in {ledger[d].status, "CLAIMED"}
    <2>1. mirror' = mirror
      BY <1>3 DEF Claim
    <2> QED BY <1>3, <2>1, ClaimIs DEF TookClaim, LeftClaim
  <1>4. ASSUME NEW w \in Workers, Step(w) \/ Fault(w), ~Claim(w)
        PROVE  ledger' = ledger /\ mirror' = mirror
    BY <1>4 DEF Step, Fault, Receive, LoadAlert, LoadWatcher, ReadHeld,
         CheckCap, CheckBudget, CheckWanted, CountCapped, Send,
         RecordLeaseLost, Finish, AlertNotReady, Raise, Crash
  <1>5. ASSUME NEW i \in Investors, ChangePreferences(i)
        PROVE  ledger' = ledger /\ mirror' = mirror
    BY <1>5 DEF ChangePreferences
  <1>6. ASSUME NEW r \in Records, Redeliver(r), NEW d \in Deliveries
        PROVE  ledger'[d].at = ledger[d].at /\ ledger'[d].status = ledger[d].status
    <2>1. ledger[d] \in Row
      BY DEF TypeInv, TypeOK
    <2>2. ledger'[d] = [ledger[d] EXCEPT !.stale =
                 @ \/ (StaleFirst /\ Abandoned(d) /\ ledger[d].holder = r)]
      BY <1>6 DEF Redeliver
    <2> QED BY <2>1, <2>2 DEF Row
  <1>7. ASSUME NEW e \in Deliveries, GoStale(e) \/ LeaveWindow(e), NEW d \in Deliveries
        PROVE  ledger'[d].at = ledger[d].at /\ ledger'[d].status = ledger[d].status
    <2>1. ledger[d] \in Row
      BY DEF TypeInv, TypeOK
    <2>2. ledger'[d] \in {ledger[d], [ledger[d] EXCEPT !.stale = TRUE],
                          [ledger[d] EXCEPT !.recent = FALSE]}
      BY <1>7 DEF GoStale, LeaveWindow, TypeInv, TypeOK
    <2> QED BY <2>1, <2>2 DEF Row
  <1>8. CASE \E r \in Records : Redeliver(r)
    BY <1>6, <1>8 DEF Redeliver
  <1>9. CASE \E e \in Deliveries : GoStale(e) \/ LeaveWindow(e)
    BY <1>7, <1>9 DEF GoStale, LeaveWindow
  <1> QED BY <1>1, <1>2, <1>3, <1>4, <1>5, <1>8, <1>9 DEF Next

(* The clock never goes back. *)
LEMMA ClockStep ==
  ASSUME TypeInv, [Next]_vars
  PROVE  clock' \in {clock, clock + 1}
  <1> USE DEF Conclude
  <1>1. ASSUME NEW w \in Workers, Step(w) PROVE clock' \in {clock, clock + 1}
    BY <1>1 DEF Step, Receive, LoadAlert, LoadWatcher, Claim, ReadHeld,
         CheckCap, CheckBudget, CheckWanted, CountCapped, Send, Record,
         RecordLeaseLost, Finish
  <1>2. ASSUME NEW w \in Workers, Fault(w) PROVE clock' = clock
    BY <1>2 DEF Fault, AlertNotReady, Raise, Crash
  <1>3. CASE \/ \E r \in Records : Redeliver(r)
             \/ \E d \in Deliveries : GoStale(d) \/ LeaveWindow(d)
             \/ \E i \in Investors : ChangePreferences(i)
    BY <1>3 DEF Redeliver, GoStale, LeaveWindow, ChangePreferences
  <1> QED BY <1>1, <1>2, <1>3 DEF Next, vars

(* Stamps stay apart and in the past when an outcome is recorded. *)
LEMMA StampRecord ==
  ASSUME TypeInv, StampInv, [Next]_vars, NEW w \in Workers, Record(w)
  PROVE  StampInv'
  <1> DEFINE d == workers[w].key
             i == InvestorOf(workers[w].key)
  <1>1. /\ d \in Deliveries /\ workers'[w].pc # "record" /\ w \in Recording
        /\ ledger'[d].at = workers[w].at
        /\ \A e \in Deliveries : e # d => ledger'[e] = ledger[e]
    BY RecordIs DEF Outcome, BackToList, TurnedToRollup, Recording, Record, At
  <1>2. /\ mirror'[i].at \in {mirror[i].at, workers[w].at}
        /\ \A j \in Investors : j # i => mirror'[j] = mirror[j]
    <2> DEFINE status == Stored(workers[w].key, workers[w].outcome)
    <2>1. /\ mirror'[i] = Mirrored(mirror[i], status, workers[w].at)
          /\ \A j \in Investors : j # i => mirror'[j] = mirror[j]
      BY MirrorIs
    <2> HIDE DEF i, status
    <2> QED BY <2>1 DEF Mirrored
  <1>3. clock' = clock /\ clock \in Nat
    BY DEF Record, TypeInv, TypeOK
  <1>4. ASSUME NEW v \in Recording'
        PROVE  v \in Recording /\ v # w /\ workers'[v].at = workers[v].at
    <2>1. v \in Workers /\ workers'[v].pc = "record"
      BY DEF Recording
    <2>2. clock' # clock + 1
      BY <1>3
    <2> QED BY <1>1, <2>1, <2>2, StampStep DEF NewStamp, Recording
  <1>5. Stamped(w)
    BY <1>1 DEF StampInv
  <1>6. ASSUME NEW v \in Recording' PROVE Stamped(v)'
    <2>1. v \in Recording /\ v # w /\ workers'[v].at = workers[v].at /\ Stamped(v)
      BY <1>4 DEF StampInv
    <2>2. workers[w].at # workers[v].at
      BY <1>5, <2>1 DEF Stamped
    <2>3. 0 < workers'[v].at /\ workers'[v].at < clock'
      BY <1>3, <2>1 DEF Stamped
    <2>4. \A u \in Recording' : u # v => workers'[u].at # workers'[v].at
      BY <1>4, <2>1 DEF Stamped
    <2>5. \A e \in Deliveries : ledger'[e].at # workers'[v].at
      BY <1>1, <2>1, <2>2 DEF Stamped
    <2>6. \A j \in Investors : mirror'[j].at # workers'[v].at
      BY <1>2, <2>1, <2>2 DEF Stamped
    <2> QED BY <2>3, <2>4, <2>5, <2>6 DEF Stamped
  <1>7. \A e \in Deliveries : ledger'[e].at < clock'
    BY <1>1, <1>3, <1>5 DEF StampInv, Stamped
  <1>8. \A j \in Investors : mirror'[j].at < clock'
    BY <1>2, <1>3, <1>5 DEF StampInv, Stamped
  <1> QED BY <1>3, <1>6, <1>7, <1>8 DEF StampInv

(* Stamps stay apart and in the past whatever step is taken. *)
LEMMA StampInvStep ==
  ASSUME TypeInv, StampInv, [Next]_vars
  PROVE  StampInv'
  <1>1. CASE \E w \in Workers : Record(w)
    BY <1>1, StampRecord
  <1>2. CASE ~\E w \in Workers : Record(w)
    <2>1. clock \in Nat /\ clock' \in {clock, clock + 1}
      BY ClockStep DEF TypeInv, TypeOK
    <2>2. /\ \A d \in Deliveries : ledger[d].at \in Nat /\ ledger'[d].at = ledger[d].at
          /\ \A i \in Investors : mirror[i].at \in Nat /\ mirror'[i].at = mirror[i].at
      BY <1>2, TimesKept DEF TypeInv, TypeOK, Row, Shown
    <2>3. \A w \in Workers : workers[w].at \in Nat
      BY DEF TypeInv, TypeOK, Worker
    <2>4. ASSUME NEW w \in Recording'
          PROVE  \/ w \in Recording /\ workers'[w].at = workers[w].at
                 \/ NewStamp(w)
      BY StampStep DEF Recording
    <2>5. ASSUME NEW w \in Recording' PROVE Stamped(w)'
      <3>1. CASE w \in Recording /\ workers'[w].at = workers[w].at
        <4>1. Stamped(w) /\ w \in Workers
          BY <3>1 DEF StampInv, Recording
        <4>2. \A v \in Recording' : v # w => workers'[v].at # workers'[w].at
          <5> SUFFICES ASSUME NEW v \in Recording', v # w
                       PROVE  workers'[v].at # workers[w].at
            BY <3>1
          <5>1. CASE v \in Recording /\ workers'[v].at = workers[v].at
            BY <4>1, <5>1 DEF Stamped
          <5>2. CASE workers'[v].at = clock
            BY <2>1, <2>3, <4>1, <5>2 DEF Stamped
          <5> QED BY <2>4, <5>1, <5>2 DEF NewStamp
        <4>3. workers'[w].at < clock'
          BY <2>1, <2>3, <3>1, <4>1 DEF Stamped
        <4> QED BY <2>2, <3>1, <4>1, <4>2, <4>3 DEF Stamped
      <3>2. CASE NewStamp(w)
        <4>1. workers'[w].at = clock /\ clock' = clock + 1 /\ 0 < clock
          BY <3>2 DEF NewStamp, StampInv
        <4>2. \A v \in Recording' : v # w => workers'[v].at # workers'[w].at
          <5> SUFFICES ASSUME NEW v \in Recording', v # w
                       PROVE  workers'[v].at # clock
            BY <4>1
          <5>1. v \in Recording /\ workers'[v] = workers[v] /\ v \in Workers
            BY <3>2 DEF NewStamp, Recording
          <5> QED BY <2>1, <2>3, <5>1 DEF StampInv, Stamped
        <4>3. /\ \A d \in Deliveries : ledger'[d].at # clock
              /\ \A i \in Investors : mirror'[i].at # clock
          BY <2>1, <2>2 DEF StampInv
        <4> QED BY <2>1, <4>1, <4>2, <4>3 DEF Stamped
      <3> QED BY <2>4, <3>1, <3>2
    <2>6. /\ clock' > 0
          /\ \A d \in Deliveries : ledger'[d].at < clock'
          /\ \A i \in Investors : mirror'[i].at < clock'
      BY <2>1, <2>2 DEF StampInv
    <2> QED BY <2>5, <2>6 DEF StampInv
  <1> QED BY <1>1, <1>2

(* Every row still shows in its investor's mirror as it should. *)
LEMMA MirrorStep ==
  ASSUME TypeInv, StampInv, MirrorNewest, [Next]_vars
  PROVE  MirrorNewest'
  <1> SUFFICES ASSUME NEW e \in Deliveries PROVE Mirrors(e)'
    BY DEF MirrorNewest, Mirrors
  <1>0. /\ Mirrors(e) /\ InvestorOf(e) \in Investors
        /\ ledger[e].at \in Nat /\ mirror[InvestorOf(e)].at \in Nat
    BY KeyShape DEF MirrorNewest, Mirrors, TypeInv, TypeOK, Row, Shown
  <1>1. CASE ~\E w \in Workers : Record(w)
    <2>1. /\ mirror' = mirror /\ ledger'[e].at = ledger[e].at
          /\ ledger'[e].status \in {ledger[e].status, "CLAIMED"}
      BY <1>1, TimesKept
    <2> QED BY <1>0, <2>1 DEF Mirrors, Final
  <1>2. ASSUME NEW w \in Workers, Record(w) PROVE Mirrors(e)'
    <2> DEFINE d == workers[w].key
               i == InvestorOf(workers[w].key)
               status == Stored(workers[w].key, workers[w].outcome)
               at == workers[w].at
    <2>1. /\ d \in Deliveries
          /\ ledger'[d].at = at /\ ledger'[d].status = status
          /\ \A f \in Deliveries : f # d => ledger'[f] = ledger[f]
      BY <1>2, RecordIs DEF Outcome
    <2>2. /\ mirror'[i] = Mirrored(mirror[i], status, at)
          /\ \A j \in Investors : j # i => mirror'[j] = mirror[j]
      BY <1>2, MirrorIs
    <2>3. at # mirror[i].at /\ at # ledger[e].at /\ at \in Nat /\ at > 0 /\ i \in Investors
      BY <1>2, <2>1, KeyShape
         DEF StampInv, Stamped, Recording, Record, At, TypeInv, TypeOK, Worker
    <2> HIDE DEF status, at
    <2>4. mirror[i].at \in Nat
      BY <2>3 DEF TypeInv, TypeOK, Shown
    <2>5. CASE mirror[i].at < at
      <3>1. mirror'[i].at = at /\ mirror'[i].status = status
        BY <2>2, <2>5 DEF Mirrored
      <3>2. CASE e = d
        BY <2>1, <2>3, <3>1, <3>2 DEF Mirrors
      <3>3. CASE e # d /\ InvestorOf(e) = i
        BY <1>0, <2>1, <2>3, <2>4, <2>5, <3>1, <3>3 DEF Mirrors
      <3>4. CASE e # d /\ InvestorOf(e) # i
        BY <1>0, <2>1, <2>2, <3>4 DEF Mirrors
      <3> QED BY <3>2, <3>3, <3>4
    <2>6. CASE ~(mirror[i].at < at)
      <3>1. mirror'[i] = mirror[i]
        BY <2>2, <2>6 DEF Mirrored
      <3>2. mirror'[InvestorOf(e)] = mirror[InvestorOf(e)]
        BY <1>0, <2>2, <3>1
      <3>3. CASE e = d
        BY <2>1, <2>3, <2>4, <2>6, <3>1, <3>3 DEF Mirrors
      <3>4. CASE e # d
        BY <1>0, <2>1, <3>2, <3>4 DEF Mirrors
      <3> QED BY <3>3, <3>4
    <2> QED BY <2>5, <2>6
  <1> QED BY <1>1, <1>2

(* The subscription never shows an older outcome than the ledger holds,    *)
(* although outcomes are stamped before, and in another order than, their  *)
(* transactions commit.                                                    *)
THEOREM MirrorShowsNewest == Spec => []MirrorNewest
  <1>1. Init => StampInv /\ MirrorNewest
    <2> SUFFICES ASSUME Init PROVE StampInv /\ MirrorNewest
      OBVIOUS
    <2>1. clock = 1 /\ Recording = {}
      BY DEF Init, Recording, IdleWorker
    <2>2. \A d \in Deliveries : /\ ledger[d].at = 0 /\ ledger[d].status = "NONE"
                                /\ mirror[InvestorOf(d)].at = 0
      BY KeyShape DEF Init, NoRow
    <2>3. \A i \in Investors : mirror[i].at = 0
      BY DEF Init
    <2> QED BY <2>1, <2>2, <2>3 DEF StampInv, MirrorNewest, Final
  <1>2. TypeInv /\ StampInv /\ MirrorNewest /\ [Next]_vars => StampInv' /\ MirrorNewest'
    BY StampInvStep, MirrorStep
  <1> QED BY <1>1, <1>2, TypeInvariant, PTL DEF Spec

-----------------------------------------------------------------------------
(* One email per row.  A worker that loses its claim to a takeover could   *)
(* send what the other one sends too, so this holds where no worker runs   *)
(* longer than a claim stays fresh: the notify function's timeout is       *)
(* shorter than ALERT_CLAIM_STALE_MINUTES, which SlowWorkers = FALSE says. *)

(* Every attempt past its claim still holds it. *)
AllHold == \A w \in Workers : workers[w].pc \in Holding => Holds(w, workers[w].key)

(* A claim is stale only after its worker is gone. *)
StaleAbandoned ==
  \A d \in Deliveries : ledger[d].status = "CLAIMED" /\ ledger[d].stale => Abandoned(d)

HoldInv == LeaseInv /\ AllHold /\ StaleAbandoned

(* A row is claimed only where it may be, and its claim is fresh. *)
LEMMA RowClaimedIs ==
  ASSUME TypeInv, NEW d \in Deliveries, NEW w \in Workers, RowClaimed(d, w)
  PROVE  Reclaimable(ledger[d]) /\ ~ledger'[d].stale /\ workers[w].pc = "claim"
         /\ ledger'[d].holder = workers[w].rec
  <1>1. workers[w] \in Worker
    BY DEF TypeInv, TypeOK
  <1>2. workers'[w].pc = "cap"
    BY <1>1 DEF RowClaimed, Worker
  <1>3. TookClaim(w)
    BY <1>2, ClaimIs DEF RowClaimed, LeftClaim, MovedTo
  <1> QED BY <1>3 DEF RowClaimed, TookClaim, Claim, At

(* Only time and redelivery make a claim stale, and only an abandoned one. *)
LEMMA StaleStep ==
  ASSUME TypeInv, [Next]_vars, SlowWorkers = FALSE, NEW d \in Deliveries,
         ledger'[d].stale
  PROVE  ledger[d].stale \/ Abandoned(d)
  <1>0. ledger[d] \in Row
    BY DEF TypeInv, TypeOK
  <1>1. CASE ledger' = ledger
    BY <1>1
  <1>2. CASE UNCHANGED vars
    BY <1>1, <1>2 DEF vars
  <1>3. ASSUME NEW w \in Workers, Claim(w) PROVE ledger[d].stale
    BY <1>1, <1>3, ClaimIs DEF TookClaim, LeftClaim
  <1>4. ASSUME NEW w \in Workers, Record(w) PROVE ledger[d].stale
    <2> DEFINE k == workers[w].key
    <2>1. k \in Deliveries /\ (k # d => ledger'[d] = ledger[d])
      BY <1>4, RecordIs DEF Outcome
    <2>2. CASE k = d
      <3>1. ledger'[d] = [ledger[d] EXCEPT !.status = Stored(k, workers[w].outcome),
               !.stale = FALSE, !.at = workers[w].at,
               !.recent = Stored(k, workers[w].outcome) \in SentStatuses]
        BY <1>4, <2>2 DEF Record, TypeInv, TypeOK
      <3> QED BY <1>0, <3>1 DEF Row
    <2> QED BY <2>1, <2>2
  <1>5. ASSUME NEW w \in Workers, Step(w) \/ Fault(w), ~Claim(w), ~Record(w)
        PROVE  ledger' = ledger
    BY <1>5 DEF Step, Fault, Receive, LoadAlert, LoadWatcher, ReadHeld,
         CheckCap, CheckBudget, CheckWanted, CountCapped, Send,
         RecordLeaseLost, Finish, AlertNotReady, Raise, Crash
  <1>6. ASSUME NEW i \in Investors, ChangePreferences(i) PROVE ledger' = ledger
    BY <1>6 DEF ChangePreferences
  <1>7. ASSUME NEW r \in Records, Redeliver(r) PROVE ledger[d].stale \/ Abandoned(d)
    <2>1. ledger'[d] = [ledger[d] EXCEPT !.stale =
                 @ \/ (StaleFirst /\ Abandoned(d) /\ ledger[d].holder = r)]
      BY <1>7 DEF Redeliver
    <2> QED BY <1>0, <2>1 DEF Row
  <1>8. ASSUME NEW e \in Deliveries, GoStale(e) PROVE ledger[d].stale \/ Abandoned(d)
    <2>1. ledger'[d] = IF d = e THEN [ledger[d] EXCEPT !.stale = TRUE] ELSE ledger[d]
      BY <1>8 DEF GoStale, TypeInv, TypeOK
    <2> QED BY <1>8, <2>1 DEF GoStale
  <1>9. ASSUME NEW e \in Deliveries, LeaveWindow(e) PROVE ledger[d].stale
    <2>1. ledger'[d] = IF d = e THEN [ledger[d] EXCEPT !.recent = FALSE] ELSE ledger[d]
      BY <1>9 DEF LeaveWindow, TypeInv, TypeOK
    <2> QED BY <1>0, <2>1 DEF Row
  <1> QED BY <1>1, <1>2, <1>3, <1>4, <1>5, <1>6, <1>7, <1>8, <1>9 DEF Next

(* An attempt past its claim keeps it through every step. *)
LEMMA AllHoldStep ==
  ASSUME HoldInv, [Next]_vars, NEW w \in Workers, NEW d,
         workers'[w].pc \in Holding, workers'[w].key = d
  PROVE  Holds(w, d)'
  <1>0. TypeInv /\ LeaseInv /\ workers[w] \in Worker /\ Shape(workers[w])
    BY DEF HoldInv, LeaseInv, TypeInv, TypeOK, WorkerShape
  <1>1. CASE Claimed(w)
    <2>1. d = workers[w].key /\ d \in Deliveries /\ ledger'[d].claim = ledger[d].claim + 1
      BY <1>1 DEF Claimed
    <2>2. ledger[d].claim \in Nat
      BY <1>0, <2>1 DEF TypeInv, TypeOK, Row
    <2>3. ledger'[d].claim # ledger[d].claim
      BY <2>1, <2>2
    <2>4. ledger'[d].status = "CLAIMED"
      BY <1>0, <2>1, <2>3, RowStep DEF RowKept, RowClaimed, RowRecorded
    <2> QED BY <1>1, <2>1, <2>4 DEF Claimed, Holds, Holding
  <1>2. CASE Advanced(w)
    <2>1. d = workers[w].key /\ Holds(w, d)
      BY <1>2 DEF Advanced, HoldInv, AllHold
    <2> QED BY <1>2, <2>1 DEF Advanced, Holds, Holding
  <1>3. CASE WorkerKept(w)
    <2>1. d = workers[w].key /\ workers[w].pc \in Holding /\ d \in Deliveries /\ Holds(w, d)
      BY <1>0, <1>3 DEF WorkerKept, Shape, Attempting, Holding, HoldInv, AllHold
    <2>2. CASE RowKept(d)
      BY <1>3, <2>1, <2>2 DEF WorkerKept, RowKept, Holds, Holding
    <2>3. ASSUME NEW v \in Workers, RowClaimed(d, v) PROVE FALSE
      <3>1. Reclaimable(ledger[d])
        BY <1>0, <2>1, <2>3, RowClaimedIs
      <3> QED BY <2>1, <3>1 DEF Holds, Reclaimable, HoldInv, StaleAbandoned, Abandoned
    <2>4. ASSUME NEW v \in Workers, RowRecorded(d, v) PROVE FALSE
      <3>1. v = w
        BY <2>1, <2>4 DEF RowRecorded, HoldInv, LeaseInv, ExclusiveLease
      <3>2. workers'[v].pc \notin Holding
        BY <1>0, <2>4, RecordIs DEF RowRecorded, BackToList, TurnedToRollup, Holding
      <3> QED BY <3>1, <3>2
    <2> QED BY <1>0, <2>1, <2>2, <2>3, <2>4, RowStep
  <1> QED BY <1>0, <1>1, <1>2, <1>3, WorkerStep, OwnStep

(* Claims stay with their workers whatever step is taken. *)
LEMMA HoldInvStep ==
  ASSUME SlowWorkers = FALSE, HoldInv, [Next]_vars
  PROVE  HoldInv'
  <1>0. LeaseInv /\ TypeInv /\ LeaseBound
    BY DEF HoldInv, LeaseInv
  <1>1. LeaseInv' /\ AllHold'
    <2>1. ASSUME NEW w \in Workers, NEW d, workers'[w].pc \in Holding, workers'[w].key = d
          PROVE  Holds(w, d)'
      BY <2>1, AllHoldStep
    <2> QED BY <1>0, <2>1, LeaseInvStep DEF AllHold, Holds
  <1>2. StaleAbandoned'
    <2> SUFFICES ASSUME NEW d \in Deliveries, ledger'[d].status = "CLAIMED",
                        ledger'[d].stale, NEW w \in Workers, Holds(w, d)'
                 PROVE  FALSE
      BY DEF StaleAbandoned, Abandoned
    <2>1. CASE Claimed(w) /\ workers[w].key = d
      <3>1. ledger'[d].claim = ledger[d].claim + 1 /\ ledger[d].claim \in Nat
        BY <1>0, <2>1 DEF Claimed, TypeInv, TypeOK, Row
      <3>2. PICK v \in Workers : RowClaimed(d, v)
        BY <1>0, <3>1, RowStep DEF RowKept, RowRecorded
      <3> QED BY <1>0, <3>2, RowClaimedIs
    <2>2. CASE Holds(w, d)
      <3>1. ~Abandoned(d) /\ ~ledger[d].stale
        BY <2>2 DEF HoldInv, StaleAbandoned, Abandoned, Holds
      <3> QED BY <1>0, <3>1, StaleStep
    <2> QED BY <1>0, <2>1, <2>2, HoldStep
  <1> QED BY <1>1, <1>2 DEF HoldInv

(* Claims stay with their workers in every reachable state. *)
LEMMA HoldInvariant ==
  ASSUME SlowWorkers = FALSE
  PROVE  Spec => []HoldInv
  <1>1. Init => AllHold /\ StaleAbandoned
    BY DEF Init, IdleWorker, AllHold, StaleAbandoned, Holding, NoRow
  <1>2. HoldInv /\ [Next]_vars => HoldInv'
    BY HoldInvStep
  <1>3. AllHold /\ StaleAbandoned /\ LeaseInv => HoldInv
    BY DEF HoldInv
  <1>4. Spec => Init /\ []LeaseInv /\ [][Next]_vars
    BY LeaseInvariant, PTL DEF Spec
  <1> QED BY <1>1, <1>2, <1>3, <1>4, PTL

(* The provider took the row's email: the ledger says so, or the worker    *)
(* that is about to record it does.                                        *)
Accepts(w, d) == /\ workers[w].pc = "record"
                 /\ workers[w].outcome = "SENT"
                 /\ workers[w].key = d

Accepted(d) == \/ ledger[d].status \in SentStatuses
               \/ \E w \in Workers : Accepts(w, d)

(* Each email beyond the one the ledger will know of is a lost answer. *)
SentInv ==
  \A d \in Deliveries : IF Accepted(d) THEN mail[d].sent <= 1 + mail[d].lost
                                       ELSE mail[d].sent <= mail[d].lost

Forgets(w, d) == Accepts(w, d) /\ (RecordLeaseLost(w) \/ Raise(w) \/ Crash(w))

(* An accepted email stays known unless its worker forgets it. *)
LEMMA AcceptedStep ==
  ASSUME LeaseInv, [Next]_vars, NEW d \in Deliveries, Accepted(d)
  PROVE  Accepted(d)' \/ \E w \in Workers : Forgets(w, d)
  <1> USE DEF At
  <1>0. TypeInv
    BY DEF LeaseInv
  <1>1. CASE ledger[d].status \in SentStatuses
    <2>1. ledger'[d].status = ledger[d].status
      BY <1>0, <1>1, RowStep DEF RowKept, RowClaimed, RowRecorded, Holds, SentStatuses
    <2> QED BY <1>1, <2>1 DEF Accepted
  <1>2. ASSUME NEW w \in Workers, Accepts(w, d) PROVE Accepted(d)' \/ Forgets(w, d)
    <2>1. CASE WorkerKept(w)
      BY <1>2, <2>1 DEF WorkerKept, Accepts, Accepted
    <2>2. CASE Step(w) \/ Fault(w)
      <3>1. Record(w) \/ RecordLeaseLost(w) \/ Raise(w) \/ Crash(w)
        BY <1>2, <2>2 DEF Accepts, Step, Fault, Receive, LoadAlert, LoadWatcher,
             Claim, ReadHeld, CheckCap, CheckBudget, CheckWanted, CountCapped, Send,
             Finish, AlertNotReady
      <3>2. CASE Record(w)
        <4>1. ledger'[d].status = Stored(d, "SENT")
          BY <1>0, <1>2, <3>2, RecordIs DEF Outcome, Accepts
        <4> QED BY <4>1 DEF Stored, Accepted, SentStatuses
      <3> QED BY <1>2, <3>1, <3>2 DEF Forgets
    <2> QED BY <1>0, <2>1, <2>2, WorkerStep
  <1> QED BY <1>1, <1>2 DEF Accepted

(* What a worker forgets counts as a lost answer. *)
LEMMA ForgetsIs ==
  ASSUME TypeInv, NEW d \in Deliveries, NEW w \in Workers, Forgets(w, d)
  PROVE  mail'[d].sent = mail[d].sent /\ mail'[d].lost = mail[d].lost + 1
  <1>1. mail' = [mail EXCEPT ![d].lost = @ + 1]
    BY DEF Forgets, Accepts, RecordLeaseLost, Raise, Crash, Forget
  <1> QED BY <1>1 DEF TypeInv, TypeOK

SendsOnce(w, d) ==
  /\ Send(w) /\ workers[w].key = d
  /\ mail'[d].sent = mail[d].sent + 1
  /\ \/ mail'[d].lost = mail[d].lost /\ Accepts(w, d)'
     \/ mail'[d].lost = mail[d].lost + 1

(* The counters of a row's emails change where it is sent or forgotten. *)
LEMMA MailStep ==
  ASSUME TypeInv, [Next]_vars, NEW d \in Deliveries
  PROVE  \/ mail'[d] = mail[d]
         \/ \E w \in Workers : SendsOnce(w, d)
         \/ \E w \in Workers : Forgets(w, d)
  <1>1. CASE mail' = mail
    BY <1>1
  <1>2. CASE UNCHANGED vars
    BY <1>1, <1>2 DEF vars
  <1>3. ASSUME NEW w \in Workers, Send(w) PROVE mail'[d] = mail[d] \/ SendsOnce(w, d)
    <2> DEFINE k == workers[w].key
    <2>0. mail[d] \in [sent: Nat, lost: Nat] /\ mail \in [Deliveries -> [sent: Nat, lost: Nat]]
      BY DEF TypeInv, TypeOK
    <2>1. CASE mail' = [mail EXCEPT ![k].sent = @ + 1] /\ Conclude(w, "SENT")
      <3>1. workers'[w].pc = "record" /\ workers'[w].outcome = "SENT" /\ workers'[w].key = k
        BY <2>1, ConcludeIs DEF ConcludedWith
      <3>2. CASE k = d
        <4>1. Accepts(w, d)'
          BY <3>1, <3>2 DEF Accepts
        <4>2. mail'[d] = [mail[d] EXCEPT !.sent = @ + 1]
          BY <2>0, <2>1, <3>2
        <4> QED BY <1>3, <2>0, <3>2, <4>1, <4>2 DEF SendsOnce
      <3>3. CASE k # d
        BY <2>0, <2>1, <3>3
      <3> QED BY <3>2, <3>3
    <2>2. CASE mail' = [mail EXCEPT ![k] = [sent |-> @.sent + 1, lost |-> @.lost + 1]]
      <3>1. CASE k = d
        <4>1. mail'[d] = [sent |-> mail[d].sent + 1, lost |-> mail[d].lost + 1]
          BY <2>0, <2>2, <3>1
        <4> QED BY <1>3, <3>1, <4>1 DEF SendsOnce
      <3>2. CASE k # d
        BY <2>0, <2>2, <3>2
      <3> QED BY <3>1, <3>2
    <2> QED BY <1>1, <1>3, <2>1, <2>2 DEF Send
  <1>4. ASSUME NEW w \in Workers, RecordLeaseLost(w) \/ Raise(w) \/ Crash(w)
        PROVE  mail'[d] = mail[d] \/ Forgets(w, d)
    <2>1. CASE workers[w].pc = "record" /\ workers[w].outcome = "SENT"
      <3>1. mail' = [mail EXCEPT ![workers[w].key].lost = @ + 1]
        BY <1>4, <2>1 DEF RecordLeaseLost, Raise, Crash, Forget
      <3>2. CASE workers[w].key = d
        BY <1>4, <2>1, <3>2 DEF Forgets, Accepts
      <3>3. CASE workers[w].key # d
        BY <3>1, <3>3 DEF TypeInv, TypeOK
      <3> QED BY <3>2, <3>3
    <2>2. CASE ~(workers[w].pc = "record" /\ workers[w].outcome = "SENT")
      <3>1. mail' = mail
        BY <1>4, <2>2 DEF RecordLeaseLost, At, Raise, Crash, Forget
      <3> QED BY <3>1
    <2> QED BY <2>1, <2>2
  <1>5. ASSUME NEW w \in Workers, Step(w) \/ Fault(w), ~Send(w), ~RecordLeaseLost(w),
               ~Raise(w), ~Crash(w)
        PROVE  mail' = mail
    BY <1>5 DEF Step, Fault, Receive, LoadAlert, LoadWatcher, Claim, ReadHeld,
         CheckCap, CheckBudget, CheckWanted, CountCapped, Record, Finish, AlertNotReady
  <1>6. CASE \/ \E r \in Records : Redeliver(r)
             \/ \E e \in Deliveries : GoStale(e) \/ LeaveWindow(e)
             \/ \E i \in Investors : ChangePreferences(i)
    BY <1>1, <1>6 DEF Redeliver, GoStale, LeaveWindow, ChangePreferences
  <1> QED BY <1>1, <1>2, <1>3, <1>4, <1>5, <1>6 DEF Next

(* Sending takes a row whose email no one has accepted. *)
LEMMA SentInvStep ==
  ASSUME HoldInv, SentInv, [Next]_vars
  PROVE  SentInv'
  <1> SUFFICES ASSUME NEW d \in Deliveries
               PROVE  IF Accepted(d)' THEN mail'[d].sent <= 1 + mail'[d].lost
                                      ELSE mail'[d].sent <= mail'[d].lost
    BY DEF SentInv, Accepted, Accepts
  <1>0. /\ LeaseInv /\ TypeInv
        /\ mail[d].sent \in Nat /\ mail[d].lost \in Nat
        /\ IF Accepted(d) THEN mail[d].sent <= 1 + mail[d].lost
                          ELSE mail[d].sent <= mail[d].lost
    BY DEF HoldInv, LeaseInv, TypeInv, TypeOK, SentInv
  <1>1. ASSUME NEW w \in Workers, Forgets(w, d)
        PROVE  mail'[d].sent <= mail'[d].lost
    <2>1. Accepted(d)
      BY <1>1 DEF Forgets, Accepted
    <2> QED BY <1>0, <1>1, <2>1, ForgetsIs
  <1>2. ASSUME NEW w \in Workers, SendsOnce(w, d)
        PROVE  IF Accepted(d)' THEN mail'[d].sent <= 1 + mail'[d].lost
                               ELSE mail'[d].sent <= mail'[d].lost
    <2>1. Holds(w, d) /\ workers[w].pc = "send"
      BY <1>2 DEF SendsOnce, Send, At, HoldInv, AllHold, Holding
    <2>2. ASSUME NEW v \in Workers, Accepts(v, d) PROVE FALSE
      <3>1. Holds(v, d) /\ workers[v].pc = "record"
        BY <2>2 DEF Accepts, HoldInv, AllHold, Holding
      <3> QED BY <2>1, <3>1 DEF HoldInv, LeaseInv, ExclusiveLease
    <2>3. ~Accepted(d)
      BY <2>1, <2>2 DEF Accepted, Holds, SentStatuses
    <2>4. mail[d].sent <= mail[d].lost
      BY <1>0, <2>3
    <2>5. CASE mail'[d].lost = mail[d].lost /\ Accepts(w, d)'
      <3>1. Accepted(d)'
        BY <2>5 DEF Accepted, Accepts
      <3>2. mail'[d].sent <= 1 + mail'[d].lost
        BY <1>0, <1>2, <2>4, <2>5 DEF SendsOnce
      <3> QED BY <3>1, <3>2
    <2>6. CASE mail'[d].lost = mail[d].lost + 1
      <3>1. mail'[d].sent <= mail'[d].lost /\ mail'[d].sent <= 1 + mail'[d].lost
        BY <1>0, <1>2, <2>4, <2>6 DEF SendsOnce
      <3> QED BY <3>1
    <2> QED BY <1>2, <2>5, <2>6 DEF SendsOnce
  <1>3. CASE mail'[d] = mail[d] /\ ~\E w \in Workers : Forgets(w, d)
    <2>1. Accepted(d) => Accepted(d)'
      BY <1>0, <1>3, AcceptedStep
    <2>2. mail[d].sent <= 1 + mail[d].lost
      BY <1>0
    <2> QED BY <1>0, <1>3, <2>1, <2>2
  <1>4. CASE \E w \in Workers : Forgets(w, d)
    <2>1. mail'[d].sent <= mail'[d].lost
      BY <1>1, <1>4
    <2>2. mail'[d].sent <= 1 + mail'[d].lost
      BY <1>0, <1>4, <2>1, ForgetsIs
    <2> QED BY <2>1, <2>2
  <1> QED BY <1>0, <1>2, <1>3, <1>4, MailStep

(* Where no worker outlives its claim, a row's email goes out a second time *)
(* only after an answer, or the worker that had it, was lost: duplicate    *)
(* records, retries and takeovers by themselves send nothing twice.        *)
THEOREM OneEmailPerAlert ==
  ASSUME SlowWorkers = FALSE
  PROVE  Spec => []DuplicateNeedsLoss
  <1>1. Init => SentInv
    BY DEF Init, SentInv, NoRow, IdleWorker, Accepted, Accepts, SentStatuses
  <1>2. HoldInv /\ SentInv /\ [Next]_vars => SentInv'
    BY SentInvStep
  <1>3. HoldInv /\ SentInv => DuplicateNeedsLoss
    <2> SUFFICES ASSUME HoldInv, SentInv, NEW d \in Deliveries
                 PROVE  mail[d].sent <= 1 + mail[d].lost
      BY DEF DuplicateNeedsLoss
    <2>1. mail[d].sent \in Nat /\ mail[d].lost \in Nat
      BY DEF HoldInv, LeaseInv, TypeInv, TypeOK
    <2> QED BY <2>1 DEF SentInv
  <1>4. Spec => []HoldInv
    BY HoldInvariant
  <1> QED BY <1>1, <1>2, <1>3, <1>4, PTL DEF Spec

-----------------------------------------------------------------------------
(* Nothing is forgotten.  Every row that is still to be settled has a      *)
(* record that answers for it, and that record is not done: it comes back, *)
(* or its worker will still look at the row and may claim it, or holds it. *)

Busy(w, r) == workers[w].pc # "idle" /\ workers[w].rec = r

(* The alert of record r for investor i. *)
Own(i, r) == <<i, ArtifactOf[r]>>

(* An attempt for record r may come to row d: it is the record's alert, or *)
(* the rollup of the run that alert was held back in. *)
Concerns(r, d) == LET e == Own(InvestorOf(d), r)
                  IN  \/ d = e
                      \/ d = Rollup(e) /\ ledger[e].status = "SUPPRESSED_CAP"

(* A record is in flight with one worker. *)
QueueInv ==
  /\ \A w \in Workers, r \in Records : Busy(w, r) => queue[r].state = "inflight"
  /\ \A v, w \in Workers, r \in Records : Busy(v, r) /\ Busy(w, r) => v = w

KeyInv ==
  \A w \in Workers : workers[w].pc \in Attempting =>
    /\ Concerns(workers[w].rec, workers[w].key)
    /\ workers[w].pc = "held" => ledger[workers[w].key].status # "NONE"

HolderInv ==
  \A d \in Deliveries :
    /\ ledger[d].status # "NONE" =>
         ledger[d].holder \in Records /\ Concerns(ledger[d].holder, d)
    /\ \A w \in Workers : Holds(w, d) => ledger[d].holder = workers[w].rec

(* Preferences that were never changed want every alert. *)
WantsInv == \A i \in Investors : sub[i].edition = 0 => sub[i].wants = Artifacts

(* Record r answers for the open row d. *)
Answers(r, d) ==
  \/ ledger[d].status = "NONE" /\ d = Own(InvestorOf(d), r)
  \/ ledger[d].status \in {"CLAIMED", "FAILED"} /\ ledger[d].holder = r
  \/ /\ ledger[d].status = "NONE"
     /\ \E e \in Direct : /\ Rollup(e) = d
                          /\ ledger[e].status = "SUPPRESSED_CAP"
                          /\ ledger[e].holder = r

(* Record r will be tried again, or is out of tries. *)
ComesBack(r) == \/ queue[r].state \in {"waiting", "dead"}
                \/ \E w \in Workers : Busy(w, r) /\ workers[w].retry

(* Worker w, busy with record r, has yet to come to row d. *)
OnWay(w, r, d) ==
  \/ workers[w].pc = "load"
  \/ InvestorOf(d) \in workers[w].todo
  \/ workers[w].pc = "claim" /\ workers[w].key = d
  \/ /\ workers[w].pc \in {"claim", "held"}
     /\ d \in Rollups
     /\ workers[w].key = Own(InvestorOf(d), r)

Coming(r, d) == \/ queue[r].state = "visible"
                \/ \E w \in Workers : Busy(w, r) /\ OnWay(w, r, d)

Kept(r, d) == \/ ComesBack(r)
              \/ Coming(r, d) /\ Reclaimable(ledger[d])
              \/ \E w \in Workers : Busy(w, r) /\ Holds(w, d)

KeptInv == \A r \in Records, d \in Deliveries :
             sub[InvestorOf(d)].edition = 0 /\ Answers(r, d) => Kept(r, d)

RecordInv == HoldInv /\ QueueInv /\ KeyInv /\ HolderInv /\ WantsInv

(* What an attempt depends on of worker w is as it was. *)
SameWorker(w) == /\ workers'[w].pc = workers[w].pc
                 /\ workers'[w].rec = workers[w].rec
                 /\ workers'[w].todo = workers[w].todo
                 /\ workers'[w].key = workers[w].key
                 /\ workers'[w].lease = workers[w].lease
                 /\ workers'[w].retry = workers[w].retry

(* Worker w went one check further on the claim it has. *)
HeldOn(w) == /\ workers[w].pc \in Holding /\ workers'[w].pc \in Holding
             /\ workers'[w].rec = workers[w].rec
             /\ workers'[w].todo = workers[w].todo
             /\ workers'[w].key = workers[w].key
             /\ workers'[w].lease = workers[w].lease
             /\ workers'[w].retry = workers[w].retry
             /\ ledger' = ledger /\ queue' = queue

(* The own alert of an investor and record, and its rollup, are rows of that
   investor; the alert is no rollup. *)
LEMMA OwnIs ==
  ASSUME NEW i \in Investors, NEW r \in Records
  PROVE  /\ Own(i, r) \in Direct /\ Own(i, r) \in Deliveries
         /\ Own(i, r) \notin Rollups
         /\ InvestorOf(Own(i, r)) = i
         /\ RunOfRow(Own(i, r)) = RunOf[ArtifactOf[r]]
         /\ Rollup(Own(i, r)) \in Rollups /\ Rollup(Own(i, r)) \in Deliveries
         /\ InvestorOf(Rollup(Own(i, r))) = i
         /\ Rollup(Own(i, r)) # Own(i, r)
  <1>1. ArtifactOf[r] \in Artifacts
    BY ArtifactOfRecords
  <1>2. Own(i, r) \in Direct
    BY <1>1 DEF Own, Direct
  <1>3. Own(i, r) \notin Rollups
    BY <1>1, SubjectsDisjoint DEF Own, Rollups
  <1>4. InvestorOf(Own(i, r)) = i /\ Own(i, r)[2] = ArtifactOf[r]
    BY DEF Own, InvestorOf
  <1>5. Own(i, r) \in Deliveries
    BY <1>2 DEF Deliveries
  <1> QED BY <1>2, <1>3, <1>4, <1>5, KeyShape DEF RunOfRow

(* The checks from the cap to the send keep the claim. *)
LEMMA HeldOnIs ==
  ASSUME TypeInv, NEW w \in Workers,
         CheckCap(w) \/ CheckBudget(w) \/ CheckWanted(w) \/ CountCapped(w) \/ Send(w)
  PROVE  HeldOn(w)
  <1>0. workers[w].pc \in Holding /\ ledger' = ledger /\ queue' = queue
    BY DEF CheckCap, CheckBudget, CheckWanted, CountCapped, Send, At, Holding
  <1>1. ASSUME NEW o, Conclude(w, o) PROVE HeldOn(w)
    BY <1>0, <1>1, ConcludeIs DEF ConcludedWith, HeldOn, Holding
  <1>2. ASSUME NEW p \in Holding, Move(w, p) PROVE HeldOn(w)
    BY <1>0, <1>2, MoveIs DEF MovedTo, HeldOn
  <1>3. CASE Move(w, "budget") \/ Move(w, "wanted") \/ Move(w, "send") \/ Move(w, "compose")
    BY <1>2, <1>3 DEF Holding
  <1> QED BY <1>1, <1>3 DEF CheckCap, CheckBudget, CheckWanted, CountCapped, Send

(* A worker changes by its own steps only, but for the mark of a late change. *)
LEMMA OwnOrSame ==
  ASSUME TypeInv, [Next]_vars, NEW w \in Workers
  PROVE  SameWorker(w) \/ Step(w) \/ Fault(w)
  <1>1. CASE workers'[w] = workers[w]
    BY <1>1 DEF SameWorker
  <1>2. ASSUME NEW i \in Investors, ChangePreferences(i) PROVE SameWorker(w)
    <2>1. workers[w] \in Worker
      BY DEF TypeInv, TypeOK
    <2>2. workers'[w] = [workers[w] EXCEPT !.late = @ \/
              (workers[w].pc \in {"compose", "send"} /\ InvestorOf(workers[w].key) = i)]
      BY <1>2 DEF ChangePreferences
    <2> QED BY <2>1, <2>2 DEF Worker, SameWorker
  <1>3. ASSUME NEW v \in Workers, v # w, Step(v) \/ Fault(v) PROVE workers'[w] = workers[w]
    BY <1>3, OthersSame
  <1> QED BY <1>1, <1>2, <1>3 DEF Next, vars, Redeliver, GoStale, LeaveWindow

(* How a busy worker goes on: with the same record, until it hands the record
   back or is done with its whole list. *)
LEMMA BusyOn ==
  ASSUME TypeInv, [Next]_vars, NEW w \in Workers, NEW r \in Records, Busy(w, r)
  PROVE  \/ Busy(w, r)' /\ (workers[w].retry => workers'[w].retry)
         \/ /\ Finish(w) \/ Crash(w)
            /\ ~Busy(w, r)'
            /\ queue' = [queue EXCEPT ![r].state =
                 IF Finish(w) /\ ~workers[w].retry THEN "done" ELSE "waiting"]
  <1> USE DEF Busy
  <1>1. CASE SameWorker(w)
    BY <1>1 DEF SameWorker
  <1>2. CASE LoadAlert(w) \/ AlertNotReady(w)
    BY <1>2, LoadIs DEF Listed
  <1>3. CASE LoadWatcher(w)
    BY <1>3, LookIs DEF Looked
  <1>4. CASE Claim(w)
    BY <1>4, ClaimIs DEF TookClaim, LeftClaim, MovedTo
  <1>n. ASSUME NEW b, NextInvestor(w, b) PROVE Busy(w, r)' /\ (workers[w].retry => workers'[w].retry)
    BY <1>n, NextInvestorIs DEF BackToList
  <1>t. ASSUME TurnToRollup(w) PROVE Busy(w, r)' /\ (workers[w].retry => workers'[w].retry)
    BY <1>t, TurnToRollupIs DEF TurnedToRollup
  <1>5. CASE ReadHeld(w) \/ RecordLeaseLost(w) \/ Raise(w)
    BY <1>5, <1>n, <1>t DEF ReadHeld, RecordLeaseLost, Raise
  <1>6. CASE CheckCap(w) \/ CheckBudget(w) \/ CheckWanted(w) \/ CountCapped(w) \/ Send(w)
    BY <1>6, HeldOnIs DEF HeldOn, Holding
  <1>7. CASE Record(w)
    BY <1>7, <1>n, <1>t DEF Record
  <1>8. CASE Finish(w)
    <2>1. ~Busy(w, r)'
      BY <1>8, UpdateIs DEF Finish, IdleWorker
    <2>2. queue' = [queue EXCEPT ![r].state =
                      IF workers[w].retry THEN "waiting" ELSE "done"]
      BY <1>8 DEF Finish
    <2> QED BY <1>8, <2>1, <2>2
  <1>9. CASE Crash(w)
    <2>1. ~Busy(w, r)'
      BY <1>9, UpdateIs DEF Crash, IdleWorker
    <2>2. queue' = [queue EXCEPT ![r].state = "waiting"]
      BY <1>9 DEF Crash
    <2>3. CASE Finish(w)
      BY <1>9, <2>3 DEF Finish, Crash, TypeInv, TypeOK, QueuedRecord
    <2> QED BY <1>9, <2>1, <2>2, <2>3
  <1>10. CASE Receive(w)
    BY <1>10 DEF Receive, At
  <1> QED BY <1>1, <1>2, <1>3, <1>4, <1>5, <1>6, <1>7, <1>8, <1>9, <1>10, OwnOrSame
          DEF Step, Fault

Takes(w, r) == /\ workers[w].pc = "idle" /\ queue[r].state = "visible"
               /\ workers'[w].pc = "load"
               /\ queue'[r].state = "inflight"
               /\ \A v \in Workers : v # w => workers'[v] = workers[v]

(* A worker is busy with a record since a step before, or takes it now. *)
LEMMA BusyBefore ==
  ASSUME TypeInv, [Next]_vars, NEW w \in Workers, NEW r \in Records, Busy(w, r)'
  PROVE  Busy(w, r) \/ Takes(w, r)
  <1> USE DEF Busy
  <1>1. CASE SameWorker(w)
    BY <1>1 DEF SameWorker
  <1>2. CASE workers[w].pc # "idle" /\ (Step(w) \/ Fault(w))
    <2>1. workers[w].rec \in Records
      BY <1>2 DEF TypeInv, WorkerShape, Shape
    <2>2. Busy(w, workers[w].rec)
      BY <1>2
    <2>3. CASE workers'[w].rec = workers[w].rec
      BY <1>2, <2>3
    <2>4. CASE Finish(w) \/ Crash(w)
      BY <2>4, UpdateIs DEF Finish, Crash, IdleWorker
    <2>5. ASSUME ~Finish(w), ~Crash(w) PROVE workers'[w].rec = workers[w].rec
      <3> DEFINE r0 == workers[w].rec
      <3>1. r0 \in Records /\ Busy(w, r0)
        BY <2>1, <2>2
      <3>2. ASSUME NEW r1 \in Records, Busy(w, r1) PROVE workers'[w].rec = r1
        BY <2>5, <3>2, BusyOn
      <3> QED BY <3>1, <3>2
    <2> QED BY <2>3, <2>4, <2>5
  <1>3. CASE workers[w].pc = "idle" /\ (Step(w) \/ Fault(w))
    <2>1. Receive(w)
      BY <1>3 DEF Step, Fault, At, LoadAlert, LoadWatcher, Claim, ReadHeld, CheckCap,
           CheckBudget, CheckWanted, CountCapped, Send, Record, RecordLeaseLost,
           Finish, AlertNotReady, Raise, Crash
    <2>2. PICK q \in Records : /\ queue[q].state = "visible"
                               /\ queue' = [queue EXCEPT ![q] = [state |-> "inflight",
                                                     receives |-> @.receives + 1]]
                               /\ Received(w, q)
      BY <2>1, ReceiveIs
    <2>3. q = r
      BY <2>2 DEF Received
    <2>4. queue'[r].state = "inflight"
      BY <2>2, <2>3 DEF TypeInv, TypeOK
    <2>5. \A v \in Workers : v # w => workers'[v] = workers[v]
      BY <1>3, OthersSame
    <2> QED BY <1>3, <2>2, <2>3, <2>4, <2>5 DEF Takes, Received
  <1> QED BY <1>1, <1>2, <1>3, OwnOrSame

(* What happens to a queued record, step by step. *)
LEMMA QueueStep ==
  ASSUME TypeInv, [Next]_vars, NEW r \in Records
  PROVE  \/ queue'[r].state = queue[r].state
         \/ \E w \in Workers : Takes(w, r) /\ Busy(w, r)'
         \/ \E w \in Workers : /\ Finish(w) \/ Crash(w)
                               /\ Busy(w, r) /\ ~Busy(w, r)'
         \/ Redeliver(r) /\ queue[r].state = "waiting"
                         /\ queue'[r].state \in {"visible", "dead"}
  <1>0. queue \in [Records -> QueuedRecord]
    BY DEF TypeInv, TypeOK
  <1>1. CASE queue' = queue
    BY <1>1
  <1>2. ASSUME NEW w \in Workers, Receive(w)
        PROVE  queue'[r].state = queue[r].state \/ (Takes(w, r) /\ Busy(w, r)')
    <2>1. PICK q \in Records : /\ queue[q].state = "visible"
                               /\ queue' = [queue EXCEPT ![q] = [state |-> "inflight",
                                                     receives |-> @.receives + 1]]
                               /\ Received(w, q)
      BY <1>2, ReceiveIs
    <2>2. CASE q # r
      BY <1>0, <2>1, <2>2
    <2>3. CASE q = r
      <3>1. Busy(w, r)'
        BY <2>1, <2>3 DEF Busy, Received
      <3>2. workers[w].pc = "idle"
        BY <1>2 DEF Receive, At
      <3> QED BY <3>1, <3>2, BusyBefore DEF Busy
    <2> QED BY <2>2, <2>3
  <1>3. ASSUME NEW w \in Workers, Finish(w) \/ Crash(w)
        PROVE  \/ queue'[r].state = queue[r].state
               \/ Busy(w, r) /\ ~Busy(w, r)'
    <2> DEFINE q == workers[w].rec
    <2>1. workers[w].pc # "idle" /\ q \in Records
      BY <1>3 DEF Finish, Crash, At, TypeInv, WorkerShape, Shape
    <2>2. \E s : queue' = [queue EXCEPT ![q].state = s]
      BY <1>3 DEF Finish, Crash
    <2>3. CASE q # r
      <3> HIDE DEF q
      <3> QED BY <1>0, <2>1, <2>2, <2>3
    <2>4. CASE q = r
      <3>1. workers'[w].pc = "idle"
        BY <1>3, UpdateIs DEF Finish, Crash, IdleWorker
      <3> QED BY <2>1, <2>4, <3>1 DEF Busy
    <2> QED BY <2>3, <2>4
  <1>4. ASSUME NEW w \in Workers, Step(w) \/ Fault(w), ~Receive(w), ~Finish(w), ~Crash(w)
        PROVE  queue' = queue
    BY <1>4 DEF Step, Fault, LoadAlert, LoadWatcher, Claim, ReadHeld, CheckCap,
         CheckBudget, CheckWanted, CountCapped, Send, Record, RecordLeaseLost,
         AlertNotReady, Raise
  <1>5. ASSUME NEW q \in Records, Redeliver(q)
        PROVE  \/ queue'[r].state = queue[r].state
               \/ q = r /\ queue[r].state = "waiting"
                        /\ queue'[r].state \in {"visible", "dead"}
    BY <1>0, <1>5 DEF Redeliver, QueuedRecord
  <1>6. CASE \/ \E e \in Deliveries : GoStale(e) \/ LeaveWindow(e)
             \/ \E i \in Investors : ChangePreferences(i)
    BY <1>1, <1>6 DEF GoStale, LeaveWindow, ChangePreferences
  <1>7. CASE UNCHANGED vars
    BY <1>1, <1>7 DEF vars
  <1> QED BY <1>1, <1>2, <1>3, <1>4, <1>5, <1>6, <1>7 DEF Next

(* A record stays in flight with one worker at most. *)
LEMMA QueueInvStep ==
  ASSUME TypeInv, QueueInv, [Next]_vars
  PROVE  QueueInv'
  <1>1. ASSUME NEW w \in Workers, NEW r \in Records, Busy(w, r)'
        PROVE  queue'[r].state = "inflight"
    <2>1. CASE Takes(w, r)
      BY <2>1 DEF Takes
    <2>2. CASE Busy(w, r)
      <3>1. queue[r].state = "inflight"
        BY <2>2 DEF QueueInv
      <3>2. ASSUME NEW v \in Workers, Busy(v, r), ~Busy(v, r)' PROVE FALSE
        BY <1>1, <2>2, <3>2 DEF QueueInv
      <3> QED BY <3>1, <3>2, QueueStep DEF Takes
    <2> QED BY <1>1, <2>1, <2>2, BusyBefore
  <1>2. ASSUME NEW v \in Workers, NEW w \in Workers, NEW r \in Records,
               Busy(v, r)', Busy(w, r)', v # w
        PROVE  FALSE
    <2>1. ~(Busy(v, r) /\ Busy(w, r))
      BY <1>2 DEF QueueInv
    <2>2. ASSUME NEW x \in Workers, NEW y \in Workers, Busy(x, r), Takes(y, r) PROVE FALSE
      BY <2>2 DEF Takes, QueueInv
    <2>3. CASE Takes(v, r) /\ Takes(w, r)
      <3>1. workers'[w] = workers[w] /\ workers[w].pc = "idle" /\ workers'[w].pc = "load"
        BY <1>2, <2>3 DEF Takes
      <3> QED BY <3>1
    <2> QED BY <1>2, <2>1, <2>2, <2>3, BusyBefore
  <1> QED BY <1>1, <1>2 DEF QueueInv, Busy

(* A row that was made stays made, and one the cap held back stays so. *)
LEMMA StatusStays ==
  ASSUME TypeInv, [Next]_vars, NEW d \in Deliveries
  PROVE  /\ ledger[d].status # "NONE" => ledger'[d].status # "NONE"
         /\ ledger[d].status = "SUPPRESSED_CAP" => ledger'[d].status = "SUPPRESSED_CAP"
  <1>1. CASE RowKept(d)
    BY <1>1 DEF RowKept
  <1>2. ASSUME NEW w \in Workers, RowClaimed(d, w)
        PROVE  ledger'[d].status = "CLAIMED" /\ ledger[d].status # "SUPPRESSED_CAP"
    BY <1>2 DEF RowClaimed
  <1>3. ASSUME NEW w \in Workers, RowRecorded(d, w)
        PROVE  ledger'[d].status # "NONE" /\ ledger[d].status # "SUPPRESSED_CAP"
    BY <1>3, RecordIs DEF RowRecorded, Stored, Outcomes, Holds
  <1> QED BY <1>1, <1>2, <1>3, RowStep

(* What an attempt for a record may come to stays so. *)
LEMMA ConcernsStays ==
  ASSUME TypeInv, [Next]_vars, NEW r \in Records, NEW d \in Deliveries, Concerns(r, d)
  PROVE  Concerns(r, d)'
  <1>1. Own(InvestorOf(d), r) \in Deliveries
    BY KeyShape, OwnIs
  <1> QED BY <1>1, StatusStays DEF Concerns

(* An alert of a run is a record's own where the record may come to it. *)
LEMMA DirectIsOwn ==
  ASSUME NEW r \in Records, NEW d \in Direct, Concerns(r, d)
  PROVE  d = Own(InvestorOf(d), r)
  <1>1. d \in Deliveries /\ InvestorOf(d) \in Investors
    BY KeyShape DEF Deliveries
  <1>2. Rollup(Own(InvestorOf(d), r)) \notin Direct
    BY <1>1, OwnIs, KeyShape
  <1> QED BY <1>2 DEF Concerns

(* A worker only ever attempts what its record may come to. *)
LEMMA KeyStep ==
  ASSUME TypeInv, KeyInv, [Next]_vars, NEW w \in Workers, NEW r, NEW d,
         workers'[w].pc \in Attempting, workers'[w].rec = r, workers'[w].key = d
  PROVE  Concerns(r, d)' /\ (workers'[w].pc = "held" => ledger'[d].status # "NONE")
  <1> USE DEF At
  <1>0. Shape(workers[w]) /\ workers[w] \in Worker
    BY DEF TypeInv, TypeOK, WorkerShape
  <1>k. ASSUME workers[w].pc \in Attempting, r = workers[w].rec, d = workers[w].key
        PROVE  /\ Concerns(r, d) /\ Concerns(r, d)'
               /\ r \in Records /\ d \in Deliveries
               /\ ledger[d].status # "NONE" => ledger'[d].status # "NONE"
    <2>1. r \in Records /\ d \in Deliveries
      BY <1>0, <1>k DEF Shape, Attempting
    <2>2. Concerns(r, d)
      BY <1>k DEF KeyInv
    <2> QED BY <2>1, <2>2, ConcernsStays, StatusStays
  <1>t. ASSUME workers[w].pc \in Attempting, TurnedToRollup(w), workers[w].key \in Direct,
               ledger'[workers[w].key].status = "SUPPRESSED_CAP"
        PROVE  Concerns(r, d)'
    <2> DEFINE e == workers[w].key
    <2>1. r = workers[w].rec /\ d = Rollup(e)
      BY <1>t DEF TurnedToRollup
    <2>2. r \in Records /\ e \in Deliveries
      BY <1>0, <1>t, <2>1 DEF Shape, Attempting
    <2>3. Concerns(r, e)
      BY <1>t, <2>1 DEF KeyInv
    <2>4. e = Own(InvestorOf(e), r)
      BY <1>t, <2>2, <2>3, DirectIsOwn
    <2>5. InvestorOf(d) = InvestorOf(e)
      BY <2>1, <2>2, KeyShape
    <2> QED BY <1>t, <2>1, <2>4, <2>5 DEF Concerns
  <1>1. CASE SameWorker(w)
    BY <1>1, <1>k DEF SameWorker, KeyInv
  <1>2. CASE LoadWatcher(w)
    <2>1. PICK i \in workers[w].todo : Looked(w, i)
      BY <1>2, LookIs
    <2>2. r = workers[w].rec /\ d = Own(i, r) /\ workers'[w].pc = "claim"
      BY <2>1 DEF Looked, Own, Attempting
    <2>3. i \in Investors /\ r \in Records
      BY <1>0, <1>2, <2>2 DEF Worker, Shape, LoadWatcher
    <2> QED BY <2>2, <2>3, OwnIs DEF Concerns
  <1>3. CASE Claim(w)
    <2>1. workers[w].pc = "claim"
      BY <1>3 DEF Claim
    <2>2. CASE TookClaim(w)
      BY <1>k, <2>1, <2>2 DEF TookClaim, Attempting
    <2>3. CASE LeftClaim(w)
      <3>1. ledger[d].status # "NONE"
        BY <2>3 DEF LeftClaim, MovedTo, Reclaimable
      <3> QED BY <1>k, <2>1, <2>3, <3>1 DEF LeftClaim, MovedTo, Attempting
    <2> QED BY <1>3, <2>2, <2>3, ClaimIs
  <1>4. CASE ReadHeld(w)
    <2>1. ASSUME NEW b, NextInvestor(w, b) PROVE FALSE
      BY <2>1, NextInvestorIs DEF BackToList, Attempting
    <2>2. /\ TurnedToRollup(w) /\ workers[w].key \in Direct
          /\ ledger'[workers[w].key].status = "SUPPRESSED_CAP"
      BY <1>4, <2>1, TurnToRollupIs DEF ReadHeld
    <2> QED BY <1>4, <1>t, <2>2 DEF ReadHeld, Attempting, TurnedToRollup
  <1>5. CASE CheckCap(w) \/ CheckBudget(w) \/ CheckWanted(w) \/ CountCapped(w) \/ Send(w)
    <2>1. HeldOn(w)
      BY <1>5, HeldOnIs
    <2> QED BY <1>k, <2>1 DEF HeldOn, Holding, Attempting
  <1>6. CASE Record(w)
    <2>1. /\ TurnedToRollup(w) /\ workers[w].key \in Direct
          /\ ledger'[workers[w].key].status = "SUPPRESSED_CAP"
      BY <1>6, RecordIs DEF BackToList, Attempting, Outcome
    <2> QED BY <1>6, <1>t, <2>1 DEF Record, Attempting, TurnedToRollup
  <1>7. CASE RecordLeaseLost(w) \/ Raise(w)
    BY <1>7, NextInvestorIs DEF RecordLeaseLost, Raise, BackToList, Attempting
  <1>8. CASE Receive(w) \/ LoadAlert(w) \/ AlertNotReady(w)
    BY <1>8, ReceiveIs, LoadIs DEF Received, Listed, Attempting
  <1>9. CASE Finish(w) \/ Crash(w)
    BY <1>9, UpdateIs DEF Finish, Crash, IdleWorker, Attempting
  <1> QED BY <1>1, <1>2, <1>3, <1>4, <1>5, <1>6, <1>7, <1>8, <1>9, OwnOrSame
          DEF Step, Fault

(* A row's holder changes with its claim only. *)
LEMMA HolderKept ==
  ASSUME TypeInv, [Next]_vars, NEW d \in Deliveries,
         ~\E w \in Workers : RowClaimed(d, w)
  PROVE  ledger'[d].holder = ledger[d].holder
  <1>0. ledger[d] \in Row
    BY DEF TypeInv, TypeOK
  <1>1. CASE ledger'[d] = ledger[d]
    BY <1>1
  <1>2. ASSUME NEW w \in Workers, Claim(w) PROVE ledger'[d] = ledger[d]
    <2>1. CASE TookClaim(w) /\ workers[w].key = d
      <3>1. ledger'[d].claim # ledger[d].claim /\ ledger'[d].status = "CLAIMED"
        BY <1>0, <2>1 DEF TookClaim, Row
      <3>2. PICK v \in Workers : RowRecorded(d, v)
        BY <3>1, RowStep DEF RowKept
      <3> QED BY <3>1, <3>2 DEF RowRecorded
    <2> QED BY <1>2, <2>1, ClaimIs DEF TookClaim, LeftClaim
  <1>3. ASSUME NEW w \in Workers, Record(w) PROVE ledger'[d].holder = ledger[d].holder
    BY <1>3, RecordIs DEF Outcome
  <1>4. ASSUME NEW w \in Workers, Step(w) \/ Fault(w), ~Claim(w), ~Record(w)
        PROVE  ledger' = ledger
    BY <1>4 DEF Step, Fault, Receive, LoadAlert, LoadWatcher, ReadHeld,
         CheckCap, CheckBudget, CheckWanted, CountCapped, Send,
         RecordLeaseLost, Finish, AlertNotReady, Raise, Crash
  <1>5. ASSUME NEW r \in Records, Redeliver(r) PROVE ledger'[d].holder = ledger[d].holder
    <2>1. ledger'[d] = [ledger[d] EXCEPT !.stale =
                 @ \/ (StaleFirst /\ Abandoned(d) /\ ledger[d].holder = r)]
      BY <1>5 DEF Redeliver
    <2> QED BY <1>0, <2>1 DEF Row
  <1>6. ASSUME NEW e \in Deliveries, GoStale(e) \/ LeaveWindow(e)
        PROVE  ledger'[d].holder = ledger[d].holder
    <2>1. ledger'[d] \in {ledger[d], [ledger[d] EXCEPT !.stale = TRUE],
                          [ledger[d] EXCEPT !.recent = FALSE]}
      BY <1>6 DEF GoStale, LeaveWindow, TypeInv, TypeOK
    <2> QED BY <1>0, <2>1 DEF Row
  <1>7. CASE UNCHANGED vars \/ \E i \in Investors : ChangePreferences(i)
    BY <1>1, <1>7 DEF vars, ChangePreferences
  <1> QED BY <1>1, <1>2, <1>3, <1>4, <1>5, <1>6, <1>7 DEF Next

(* The holder of a row is a record that may come to it, and the one its
   worker is busy with. *)
LEMMA HolderStep ==
  ASSUME LeaseInv, KeyInv, HolderInv, [Next]_vars, NEW d \in Deliveries, NEW h,
         ledger'[d].holder = h
  PROVE  /\ ledger'[d].status # "NONE" => h \in Records /\ Concerns(h, d)'
         /\ \A w \in Workers : Holds(w, d)' => h = workers'[w].rec
  <1>0. TypeInv /\ LeaseBound /\ ledger[d].claim \in Nat
    BY DEF LeaseInv, TypeInv, TypeOK, Row
  <1>1. ASSUME NEW w \in Workers, RowClaimed(d, w)
        PROVE  /\ h \in Records /\ Concerns(h, d)'
               /\ \A v \in Workers : Holds(v, d)' => h = workers'[v].rec
    <2>1. workers[w].pc = "claim" /\ h = workers[w].rec /\ d = workers[w].key
      BY <1>0, <1>1, RowClaimedIs DEF RowClaimed
    <2>2. h \in Records /\ Concerns(h, d)
      BY <1>0, <2>1 DEF KeyInv, Attempting, TypeInv, WorkerShape, Shape
    <2>3. TookClaim(w)
      BY <1>0, <1>1, ClaimIs DEF RowClaimed, LeftClaim
    <2>4. Holds(w, d)' /\ h = workers'[w].rec
      BY <2>1, <2>3 DEF TookClaim, Holds
    <2>5. \A v \in Workers : Holds(v, d)' => v = w
      <3>1. ExclusiveLease'
        BY LeaseInvStep DEF LeaseInv
      <3> QED BY <2>4, <3>1 DEF ExclusiveLease, Holds
    <2> QED BY <1>0, <2>2, <2>4, <2>5, ConcernsStays
  <1>2. CASE ~\E w \in Workers : RowClaimed(d, w)
    <2>1. h = ledger[d].holder
      BY <1>0, <1>2, HolderKept
    <2>2. ASSUME ledger'[d].status # "NONE" PROVE h \in Records /\ Concerns(h, d)'
      <3>1. ledger[d].status # "NONE"
        BY <1>0, <1>2, <2>2, RowStep DEF RowKept, RowRecorded, Holds
      <3>2. h \in Records /\ Concerns(h, d)
        BY <2>1, <3>1 DEF HolderInv
      <3> QED BY <1>0, <3>2, ConcernsStays
    <2>3. ASSUME NEW w \in Workers, Holds(w, d)' PROVE h = workers'[w].rec
      <3>1. CASE Claimed(w) /\ workers[w].key = d
        <4>1. ledger'[d].claim # ledger[d].claim
          BY <1>0, <3>1 DEF Claimed
        <4> QED BY <1>0, <1>2, <4>1, RowStep DEF RowKept, RowRecorded
      <3>2. CASE Holds(w, d)
        <4> DEFINE r == workers[w].rec
        <4>1. r \in Records /\ Busy(w, r) /\ h = r
          BY <1>0, <2>1, <3>2 DEF HolderInv, Holds, TypeInv, WorkerShape, Shape, Busy
        <4>2. ~Finish(w)
          BY <3>2 DEF Finish, At, Holds
        <4>3. ~Crash(w)
          BY <1>0, <2>3, UpdateIs DEF Crash, IdleWorker, Holds
        <4>4. ASSUME NEW q \in Records, Busy(w, q) PROVE workers'[w].rec = q
          BY <1>0, <4>2, <4>3, <4>4, BusyOn DEF Busy
        <4> QED BY <4>1, <4>4
      <3> QED BY <1>0, <2>3, <3>1, <3>2, HoldStep
    <2> QED BY <2>2, <2>3
  <1> QED BY <1>1, <1>2

(* A preference that is untouched after a step was so before, and is the same. *)
LEMMA EditionStep ==
  ASSUME TypeInv, [Next]_vars, NEW i \in Investors, sub'[i].edition = 0
  PROVE  sub'[i] = sub[i]
  <1>1. CASE sub' = sub
    BY <1>1
  <1>2. ASSUME NEW j \in Investors, ChangePreferences(j) PROVE sub'[i] = sub[i]
    <2>1. PICK v \in BOOLEAN, wanted \in SUBSET Artifacts :
            sub' = [sub EXCEPT ![j] = [verified |-> v, wants |-> wanted,
                                       edition |-> sub[j].edition + 1]]
      BY <1>2 DEF ChangePreferences
    <2>2. sub[j].edition \in Nat /\ sub \in [Investors -> Watcher]
      BY DEF TypeInv, TypeOK, Watcher
    <2>3. CASE i = j
      <3>1. sub'[i].edition = sub[j].edition + 1
        BY <2>1, <2>2, <2>3
      <3> QED BY <2>2, <3>1
    <2> QED BY <2>1, <2>2, <2>3
  <1>3. ASSUME NEW w \in Workers, Step(w) \/ Fault(w) PROVE sub' = sub
    BY <1>3 DEF Step, Fault, Receive, LoadAlert, LoadWatcher, Claim, ReadHeld,
         CheckCap, CheckBudget, CheckWanted, CountCapped, Send, Record,
         RecordLeaseLost, Finish, AlertNotReady, Raise, Crash
  <1>4. CASE \/ UNCHANGED vars
             \/ \E r \in Records : Redeliver(r)
             \/ \E d \in Deliveries : GoStale(d) \/ LeaveWindow(d)
    BY <1>1, <1>4 DEF vars, Redeliver, GoStale, LeaveWindow
  <1> QED BY <1>1, <1>2, <1>3, <1>4 DEF Next

(* Records, keys, holders and untouched preferences keep what they promise. *)
LEMMA RecordInvStep ==
  ASSUME SlowWorkers = FALSE, RecordInv, [Next]_vars
  PROVE  RecordInv'
  <1>0. LeaseInv /\ TypeInv /\ HoldInv /\ KeyInv /\ HolderInv
    BY DEF RecordInv, HoldInv, LeaseInv
  <1>1. HoldInv' /\ QueueInv'
    BY <1>0, HoldInvStep, QueueInvStep DEF RecordInv
  <1>2. KeyInv'
    <2>1. ASSUME NEW w \in Workers, NEW r, NEW d, workers'[w].pc \in Attempting,
                 workers'[w].rec = r, workers'[w].key = d
          PROVE  Concerns(r, d)' /\ (workers'[w].pc = "held" => ledger'[d].status # "NONE")
      BY <1>0, <2>1, KeyStep
    <2> QED BY <2>1 DEF KeyInv, Concerns
  <1>3. HolderInv'
    <2>1. ASSUME NEW d \in Deliveries, NEW h, ledger'[d].holder = h
          PROVE  /\ ledger'[d].status # "NONE" => h \in Records /\ Concerns(h, d)'
                 /\ \A w \in Workers : Holds(w, d)' => h = workers'[w].rec
      BY <1>0, <2>1, HolderStep
    <2> QED BY <2>1 DEF HolderInv, Concerns, Holds
  <1>4. WantsInv'
    BY <1>0, EditionStep DEF RecordInv, WantsInv
  <1> QED BY <1>1, <1>2, <1>3, <1>4 DEF RecordInv

(* A claim that went stale stays so until the row is claimed or recorded. *)
LEMMA ReclaimableStays ==
  ASSUME TypeInv, [Next]_vars, NEW d \in Deliveries, RowKept(d), Reclaimable(ledger[d])
  PROVE  Reclaimable(ledger'[d])
  <1>0. ledger[d] \in Row
    BY DEF TypeInv, TypeOK
  <1>1. CASE ledger[d].status \in {"NONE", "FAILED"}
    BY <1>1 DEF RowKept, Reclaimable
  <1>2. CASE ledger[d].status = "CLAIMED" /\ ledger[d].stale
    <2> SUFFICES ledger'[d].stale
      BY <1>2 DEF RowKept, Reclaimable
    <2>1. CASE ledger'[d] = ledger[d]
      BY <1>2, <2>1
    <2>2. ASSUME NEW w \in Workers, Claim(w) PROVE ledger'[d] = ledger[d]
      <3>1. CASE TookClaim(w) /\ workers[w].key = d
        BY <1>0, <3>1 DEF TookClaim, Row, RowKept
      <3> QED BY <2>2, <3>1, ClaimIs DEF TookClaim, LeftClaim
    <2>3. ASSUME NEW w \in Workers, Record(w) PROVE ledger'[d] = ledger[d]
      <3>1. CASE workers[w].key = d
        <4>1. ledger'[d].status # "CLAIMED"
          BY <2>3, <3>1, RecordIs DEF Outcome, Stored, Outcomes
        <4> QED BY <1>2, <4>1 DEF RowKept
      <3> QED BY <2>3, <3>1, RecordIs DEF Outcome
    <2>4. ASSUME NEW w \in Workers, Step(w) \/ Fault(w), ~Claim(w), ~Record(w)
          PROVE  ledger' = ledger
      BY <2>4 DEF Step, Fault, Receive, LoadAlert, LoadWatcher, ReadHeld,
           CheckCap, CheckBudget, CheckWanted, CountCapped, Send,
           RecordLeaseLost, Finish, AlertNotReady, Raise, Crash
    <2>5. ASSUME NEW r \in Records, Redeliver(r) PROVE ledger'[d].stale
      <3>1. ledger'[d] = [ledger[d] EXCEPT !.stale =
                   @ \/ (StaleFirst /\ Abandoned(d) /\ ledger[d].holder = r)]
        BY <2>5 DEF Redeliver
      <3> QED BY <1>0, <1>2, <3>1 DEF Row
    <2>6. ASSUME NEW e \in Deliveries, GoStale(e) \/ LeaveWindow(e) PROVE ledger'[d].stale
      <3>1. ledger'[d] \in {ledger[d], [ledger[d] EXCEPT !.stale = TRUE],
                            [ledger[d] EXCEPT !.recent = FALSE]}
        BY <2>6 DEF GoStale, LeaveWindow, TypeInv, TypeOK
      <3> QED BY <1>0, <1>2, <3>1 DEF Row
    <2>7. CASE UNCHANGED vars \/ \E i \in Investors : ChangePreferences(i)
      BY <2>1, <2>7 DEF vars, ChangePreferences
    <2> QED BY <2>1, <2>2, <2>3, <2>4, <2>5, <2>6, <2>7 DEF Next
  <1> QED BY <1>1, <1>2 DEF Reclaimable

(* Who answers for a row may come to it. *)
LEMMA AnswersConcerns ==
  ASSUME RecordInv, NEW r \in Records, NEW d \in Deliveries, Answers(r, d)
  PROVE  Concerns(r, d)
  <1>1. CASE d = Own(InvestorOf(d), r)
    BY <1>1 DEF Concerns
  <1>2. CASE ledger[d].status \in {"CLAIMED", "FAILED"} /\ ledger[d].holder = r
    BY <1>2 DEF RecordInv, HolderInv
  <1>3. ASSUME NEW e \in Direct, Rollup(e) = d, ledger[e].status = "SUPPRESSED_CAP",
               ledger[e].holder = r
        PROVE  Concerns(r, d)
    <2>1. e \in Deliveries /\ Concerns(r, e)
      BY <1>3 DEF RecordInv, HolderInv, Deliveries
    <2>2. e = Own(InvestorOf(e), r) /\ InvestorOf(d) = InvestorOf(e)
      BY <1>3, <2>1, DirectIsOwn, KeyShape
    <2> QED BY <1>3, <2>2 DEF Concerns
  <1> QED BY <1>1, <1>2, <1>3 DEF Answers

(* After a step a record answers for a row since before, or it just claimed
   the row, gave it up as failed, or turned to it from a capped alert. *)
LEMMA AnswersStep ==
  ASSUME RecordInv, RecordInv', [Next]_vars, NEW r \in Records, NEW d \in Deliveries,
         Answers(r, d)'
  PROVE  (Answers(r, d) /\ RowKept(d)) \/ Kept(r, d)'
  <1>0. LeaseInv /\ TypeInv /\ HolderInv /\ ledger[d].claim \in Nat
    BY DEF RecordInv, HoldInv, LeaseInv, TypeInv, TypeOK, Row
  <1>1. ASSUME NEW w \in Workers, RowClaimed(d, w) PROVE Kept(r, d)'
    <2>1. r = workers[w].rec
      BY <1>0, <1>1, RowClaimedIs DEF Answers, RowClaimed
    <2>2. TookClaim(w) /\ workers[w].key = d
      BY <1>0, <1>1, ClaimIs DEF RowClaimed, LeftClaim
    <2>3. Holds(w, d)' /\ Busy(w, r)'
      BY <2>1, <2>2 DEF TookClaim, Holds, Busy
    <2> QED BY <2>3 DEF Kept, Busy, Holds
  <1>2. ASSUME NEW w \in Workers, RowRecorded(d, w) PROVE Kept(r, d)'
    <2>1. /\ Holds(w, d) /\ Record(w) /\ workers[w].key = d
          /\ ledger'[d].status = Stored(d, workers[w].outcome)
          /\ workers[w].outcome \in Outcomes
      BY <1>0, <1>2, RecordIs DEF RowRecorded
    <2>2. ledger'[d].status = "FAILED" /\ ledger'[d].holder = r
      BY <2>1 DEF Answers, Stored, Outcomes
    <2>3. ledger'[d].holder = ledger[d].holder
      BY <1>0, <2>1, RecordIs DEF Outcome
    <2>4. workers[w].rec = r
      BY <2>1, <2>2, <2>3, <1>0 DEF HolderInv
    <2>5. BackToList(w, TRUE)
      BY <1>0, <2>1, <2>2, RecordIs
    <2>6. Busy(w, r)' /\ workers'[w].retry
      BY <2>4, <2>5 DEF BackToList, Busy
    <2> QED BY <2>6 DEF Kept, ComesBack, Busy
  <1>3. ASSUME RowKept(d), ~Answers(r, d) PROVE Kept(r, d)'
    <2>1. ~\E w \in Workers : RowClaimed(d, w)
      <3>1. ledger'[d].claim = ledger[d].claim
        BY <1>3 DEF RowKept
      <3>2. ledger'[d].claim # ledger[d].claim + 1
        BY <1>0, <3>1
      <3> QED BY <3>2 DEF RowClaimed
    <2>2. ledger'[d].holder = ledger[d].holder /\ ledger'[d].status = ledger[d].status
      BY <1>0, <1>3, <2>1, HolderKept DEF RowKept
    <2>3. PICK e \in Direct : /\ Rollup(e) = d
                              /\ ledger'[e].status = "SUPPRESSED_CAP"
                              /\ ledger'[e].holder = r
      BY <1>3, <2>2 DEF Answers, Rollup, InvestorOf, RunOfRow
    <2>4. ledger'[d].status = "NONE"
      BY <1>3, <2>2 DEF Answers
    <2>5. e \in Deliveries
      BY DEF Deliveries
    <2>6. ~\E w \in Workers : RowClaimed(e, w)
      BY <2>3 DEF RowClaimed
    <2>7. ledger[e].holder = r
      BY <1>0, <2>3, <2>5, <2>6, HolderKept
    <2>8. ledger[e].status # "SUPPRESSED_CAP"
      BY <1>3, <2>2, <2>3, <2>4, <2>7 DEF Answers
    <2>9. PICK w \in Workers : RowRecorded(e, w)
      BY <1>0, <2>3, <2>5, <2>6, <2>8, RowStep DEF RowKept
    <2>10. workers[w].rec = r /\ Record(w) /\ workers[w].key = e
      BY <1>0, <2>5, <2>7, <2>9 DEF RowRecorded, HolderInv
    <2>11. TurnedToRollup(w)
      BY <1>0, <2>3, <2>9, <2>10, RecordIs DEF RowRecorded
    <2>12. Busy(w, r)' /\ OnWay(w, r, d)'
      BY <2>3, <2>10, <2>11 DEF TurnedToRollup, Busy, OnWay
    <2> QED BY <2>4, <2>12 DEF Kept, Coming, Reclaimable, Busy, OnWay
  <1> QED BY <1>0, <1>1, <1>2, <1>3, RowStep

(* A record that comes back still does: when it is offered again, the claims
   its last attempt left behind are stale. *)
LEMMA ComesBackStep ==
  ASSUME StaleFirst = TRUE, RecordInv, [Next]_vars, NEW r \in Records,
         NEW d \in Deliveries, Answers(r, d), RowKept(d), ComesBack(r)
  PROVE  Kept(r, d)'
  <1>0. TypeInv /\ QueueInv /\ HolderInv /\ ledger[d] \in Row
    BY DEF RecordInv, HoldInv, LeaseInv, TypeInv, TypeOK
  <1>1. CASE queue[r].state \in {"waiting", "dead"}
    <2>1. \A w \in Workers : ~Busy(w, r)
      BY <1>0, <1>1 DEF QueueInv
    <2>2. CASE queue'[r].state = queue[r].state
      BY <1>1, <2>2 DEF Kept, ComesBack
    <2>3. CASE Redeliver(r) /\ queue'[r].state \in {"visible", "dead"}
      <3>1. CASE queue'[r].state = "dead"
        BY <3>1 DEF Kept, ComesBack
      <3>2. CASE queue'[r].state = "visible"
        <4>1. Reclaimable(ledger'[d])
          <5>1. CASE ledger[d].status \in {"NONE", "FAILED"}
            BY <5>1 DEF RowKept, Reclaimable
          <5>2. CASE ledger[d].status = "CLAIMED"
            <6>1. ledger[d].holder = r
              BY <5>2 DEF Answers
            <6>2. Abandoned(d)
              <7>1. ASSUME NEW w \in Workers, Holds(w, d) PROVE FALSE
                <8>1. workers[w].rec = r /\ workers[w].pc # "idle"
                  BY <1>0, <6>1, <7>1 DEF HolderInv, Holds
                <8> QED BY <2>1, <8>1 DEF Busy
              <7> QED BY <5>2, <7>1 DEF Abandoned
            <6>3. ledger'[d] = [ledger[d] EXCEPT !.stale =
                     @ \/ (StaleFirst /\ Abandoned(d) /\ ledger[d].holder = r)]
              BY <2>3 DEF Redeliver
            <6>4. ledger'[d].stale
              BY <1>0, <6>1, <6>2, <6>3 DEF Row
            <6> QED BY <5>2, <6>4 DEF RowKept, Reclaimable
          <5> QED BY <5>1, <5>2 DEF Answers
        <4> QED BY <3>2, <4>1 DEF Kept, Coming
      <3> QED BY <2>3, <3>1, <3>2
    <2> QED BY <1>0, <1>1, <2>1, <2>2, <2>3, QueueStep DEF Takes
  <1>2. ASSUME NEW w \in Workers, Busy(w, r), workers[w].retry PROVE Kept(r, d)'
    <2>1. CASE Busy(w, r)' /\ workers'[w].retry
      BY <2>1 DEF Kept, ComesBack, Busy
    <2>2. CASE queue' = [queue EXCEPT ![r].state = "waiting"]
      <3>1. queue'[r].state = "waiting"
        BY <1>0, <2>2 DEF TypeInv, TypeOK, QueuedRecord
      <3> QED BY <3>1 DEF Kept, ComesBack
    <2> QED BY <1>0, <1>2, <2>1, <2>2, BusyOn
  <1> QED BY <1>1, <1>2 DEF ComesBack

(* A worker on its way to a row it may claim goes on towards it, step by
   step, or its record comes back. *)
LEMMA OnWayStep ==
  ASSUME RecordInv, [Next]_vars, NEW r \in Records, NEW d \in Deliveries,
         sub[InvestorOf(d)].edition = 0, Concerns(r, d), RowKept(d),
         Reclaimable(ledger[d]), NEW w \in Workers, Busy(w, r), OnWay(w, r, d)
  PROVE  Kept(r, d)'
  <1> USE DEF At
  <1>0. TypeInv /\ WantsInv /\ ledger[d].claim \in Nat /\ InvestorOf(d) \in Investors
    BY KeyShape DEF RecordInv, HoldInv, LeaseInv, TypeInv, TypeOK, Row
  <1>1. Reclaimable(ledger'[d])
    BY <1>0, ReclaimableStays
  <1>2. ASSUME Busy(w, r)', OnWay(w, r, d)' PROVE Kept(r, d)'
    BY <1>1, <1>2 DEF Kept, Coming, Busy, OnWay
  <1>3. ASSUME queue' = [queue EXCEPT ![r].state = "waiting"] PROVE Kept(r, d)'
    <2>1. queue'[r].state = "waiting"
      BY <1>0, <1>3 DEF TypeInv, TypeOK, QueuedRecord
    <2> QED BY <2>1 DEF Kept, ComesBack
  <1>4. ASSUME Busy(w, r)', workers'[w].retry PROVE Kept(r, d)'
    BY <1>4 DEF Kept, ComesBack, Busy
  <1> DEFINE e == Own(InvestorOf(d), r)
  <1>5. /\ d = e \/ (d = Rollup(e) /\ ledger[e].status = "SUPPRESSED_CAP")
        /\ e \in Direct /\ e \in Deliveries /\ e \notin Rollups
    BY <1>0, OwnIs DEF Concerns
  <1> HIDE DEF e
  <1>6. workers[w].rec = r /\ workers[w].pc # "idle"
    BY DEF Busy
  <1>7. CASE SameWorker(w)
    <2>1. Busy(w, r)' /\ OnWay(w, r, d)'
      BY <1>7 DEF SameWorker, Busy, OnWay
    <2> QED BY <1>2, <2>1
  <1>8. CASE LoadAlert(w)
    <2>1. Busy(w, r)' /\ OnWay(w, r, d)'
      BY <1>0, <1>6, <1>8, LoadIs DEF Listed, Busy, OnWay
    <2> QED BY <1>2, <2>1
  <1>9. CASE AlertNotReady(w)
    BY <1>0, <1>4, <1>6, <1>9, LoadIs DEF Listed, Busy
  <1>10. CASE LoadWatcher(w)
    <2>1. PICK i \in workers[w].todo : Looked(w, i)
      BY <1>0, <1>10, LookIs
    <2>2. InvestorOf(d) \in workers[w].todo
      BY <1>10 DEF LoadWatcher, OnWay
    <2>3. Busy(w, r)'
      BY <1>6, <2>1 DEF Looked, Busy
    <2>4. CASE i # InvestorOf(d)
      <3>1. OnWay(w, r, d)'
        BY <2>1, <2>2, <2>4 DEF Looked, OnWay
      <3> QED BY <1>2, <2>3, <3>1
    <2>5. CASE i = InvestorOf(d)
      <3>1. ArtifactOf[r] \in sub[i].wants
        BY <1>0, <2>5, ArtifactOfRecords DEF WantsInv
      <3>2. workers'[w].pc = "claim" /\ workers'[w].key = e
        BY <1>6, <2>1, <2>5, <3>1 DEF Looked, Own, e
      <3>3. d = e \/ d \in Rollups
        BY <1>0, <1>5, OwnIs DEF e
      <3>4. OnWay(w, r, d)'
        BY <3>2, <3>3 DEF OnWay, e
      <3> QED BY <1>2, <2>3, <3>4
    <2> QED BY <2>4, <2>5
  <1>11. CASE Claim(w)
    <2>1. workers[w].pc = "claim"
      BY <1>11 DEF Claim
    <2>2. CASE TookClaim(w)
      <3>1. Busy(w, r)'
        BY <1>6, <2>2 DEF TookClaim, Busy
      <3>2. workers[w].key # d
        BY <1>0, <2>2 DEF TookClaim, RowKept
      <3>3. InvestorOf(d) \in workers[w].todo
        <4>1. ASSUME d \in Rollups, workers[w].key = e PROVE FALSE
          <5>1. ledger[e].status = "SUPPRESSED_CAP"
            BY <1>5, <4>1
          <5> QED BY <2>2, <4>1, <5>1 DEF TookClaim, Reclaimable
        <4> QED BY <2>1, <3>2, <4>1 DEF OnWay, e
      <3>4. OnWay(w, r, d)'
        BY <2>2, <3>3 DEF TookClaim, OnWay
      <3> QED BY <1>2, <3>1, <3>4
    <2>3. CASE LeftClaim(w)
      <3>1. Busy(w, r)' /\ OnWay(w, r, d)'
        BY <1>6, <2>1, <2>3 DEF LeftClaim, MovedTo, OnWay, Busy
      <3> QED BY <1>2, <3>1
    <2> QED BY <1>0, <1>11, <2>2, <2>3, ClaimIs
  <1>12. CASE ReadHeld(w)
    <2>1. workers[w].pc = "held"
      BY <1>12 DEF ReadHeld
    <2>2. CASE InvestorOf(d) \in workers[w].todo
      <3>1. Busy(w, r)' /\ OnWay(w, r, d)'
        BY <1>0, <1>6, <1>12, <2>2, NextInvestorIs, TurnToRollupIs
           DEF ReadHeld, BackToList, TurnedToRollup, Busy, OnWay
      <3> QED BY <1>2, <3>1
    <2>3. CASE d \in Rollups /\ workers[w].key = e
      <3>1. ledger[e].status = "SUPPRESSED_CAP" /\ d = Rollup(e)
        BY <1>5, <2>3
      <3>2. TurnedToRollup(w)
        BY <1>0, <1>5, <1>12, <2>3, <3>1, TurnToRollupIs DEF ReadHeld
      <3>3. Busy(w, r)' /\ OnWay(w, r, d)'
        BY <1>6, <2>3, <3>1, <3>2 DEF TurnedToRollup, Busy, OnWay
      <3> QED BY <1>2, <3>3
    <2> QED BY <2>1, <2>2, <2>3 DEF OnWay, e
  <1>13. CASE CheckCap(w) \/ CheckBudget(w) \/ CheckWanted(w) \/ CountCapped(w) \/ Send(w)
    <2>1. HeldOn(w)
      BY <1>0, <1>13, HeldOnIs
    <2>2. Busy(w, r)' /\ OnWay(w, r, d)'
      BY <1>6, <2>1 DEF HeldOn, Holding, Busy, OnWay
    <2> QED BY <1>2, <2>2
  <1>14. CASE Record(w)
    <2>1. InvestorOf(d) \in workers[w].todo
      BY <1>14 DEF Record, OnWay
    <2>2. Busy(w, r)' /\ OnWay(w, r, d)'
      BY <1>0, <1>6, <1>14, <2>1, RecordIs DEF BackToList, TurnedToRollup, Busy, OnWay
    <2> QED BY <1>2, <2>2
  <1>15. CASE RecordLeaseLost(w) \/ Raise(w)
    <2>1. Busy(w, r)' /\ workers'[w].retry
      BY <1>0, <1>6, <1>15, NextInvestorIs DEF RecordLeaseLost, Raise, BackToList, Busy
    <2> QED BY <1>4, <2>1
  <1>16. CASE Finish(w)
    BY <1>16 DEF Finish, OnWay
  <1>17. CASE Crash(w)
    BY <1>3, <1>6, <1>17 DEF Crash
  <1>18. CASE Receive(w)
    BY <1>6, <1>18 DEF Receive
  <1> QED BY <1>0, <1>7, <1>8, <1>9, <1>10, <1>11, <1>12, <1>13, <1>14, <1>15, <1>16,
             <1>17, <1>18, OwnOrSame DEF Step, Fault

(* A worker that holds a row goes on holding it, or its record comes back. *)
LEMMA HoldingStep ==
  ASSUME RecordInv, [Next]_vars, NEW r \in Records, NEW d \in Deliveries, RowKept(d),
         NEW w \in Workers, Busy(w, r), Holds(w, d)
  PROVE  Kept(r, d)'
  <1> USE DEF At
  <1>0. TypeInv /\ workers[w].pc \in Holding /\ workers[w].rec = r /\ workers[w].key = d
    BY DEF RecordInv, HoldInv, LeaseInv, Holds, Holding, Busy
  <1>1. ASSUME Busy(w, r)', Holds(w, d)' PROVE Kept(r, d)'
    BY <1>1 DEF Kept, Busy, Holds
  <1>2. CASE SameWorker(w) \/ HeldOn(w)
    <2>1. Busy(w, r)' /\ Holds(w, d)'
      BY <1>0, <1>2 DEF SameWorker, HeldOn, Holding, Busy, Holds, RowKept
    <2> QED BY <1>1, <2>1
  <1>3. CASE Record(w)
    <2>1. ledger'[d].status # "CLAIMED"
      BY <1>0, <1>3, RecordIs DEF Outcome, Stored, Outcomes
    <2> QED BY <2>1 DEF RowKept, Holds
  <1>4. CASE RecordLeaseLost(w) \/ Raise(w)
    <2>1. Busy(w, r)' /\ workers'[w].retry
      BY <1>0, <1>4, NextInvestorIs DEF RecordLeaseLost, Raise, BackToList, Busy
    <2> QED BY <2>1 DEF Kept, ComesBack, Busy
  <1>5. CASE Crash(w)
    <2>1. queue'[r].state = "waiting"
      BY <1>0, <1>5 DEF Crash, TypeInv, TypeOK, QueuedRecord
    <2> QED BY <2>1 DEF Kept, ComesBack
  <1>6. CASE CheckCap(w) \/ CheckBudget(w) \/ CheckWanted(w) \/ CountCapped(w) \/ Send(w)
    BY <1>0, <1>2, <1>6, HeldOnIs
  <1>7. CASE Receive(w) \/ LoadAlert(w) \/ AlertNotReady(w) \/ LoadWatcher(w)
             \/ Claim(w) \/ ReadHeld(w) \/ Finish(w)
    BY <1>0, <1>7 DEF Receive, LoadAlert, AlertNotReady, LoadWatcher, Claim, ReadHeld,
         Finish, Holding
  <1> QED BY <1>0, <1>2, <1>3, <1>4, <1>5, <1>6, <1>7, OwnOrSame DEF Step, Fault

(* Every open row keeps a record that answers for it and is not done. *)
LEMMA KeptStep ==
  ASSUME StaleFirst = TRUE, RecordInv, RecordInv', KeptInv, [Next]_vars
  PROVE  KeptInv'
  <1>0. TypeInv
    BY DEF RecordInv, HoldInv, LeaseInv
  <1> SUFFICES ASSUME NEW r \in Records, NEW d \in Deliveries,
                      sub'[InvestorOf(d)].edition = 0, Answers(r, d)'
               PROVE  Kept(r, d)'
    <2>1. KeptInv' <=> \A r \in Records, d \in Deliveries :
             sub'[InvestorOf(d)].edition = 0 /\ Answers(r, d)' => Kept(r, d)'
      BY DEF KeptInv, InvestorOf
    <2> QED BY <2>1
  <1>1. InvestorOf(d) \in Investors /\ sub[InvestorOf(d)].edition = 0
    BY <1>0, KeyShape, EditionStep
  <1>2. CASE Answers(r, d) /\ RowKept(d)
    <2>1. Kept(r, d) /\ Concerns(r, d)
      BY <1>1, <1>2, AnswersConcerns DEF KeptInv
    <2>2. CASE ComesBack(r)
      BY <1>2, <2>2, ComesBackStep
    <2>3. CASE queue[r].state = "visible" /\ Reclaimable(ledger[d])
      <3>1. Reclaimable(ledger'[d])
        BY <1>0, <1>2, <2>3, ReclaimableStays
      <3>2. CASE queue'[r].state = queue[r].state
        BY <2>3, <3>1, <3>2 DEF Kept, Coming
      <3>3. ASSUME NEW w \in Workers, Takes(w, r), Busy(w, r)' PROVE Kept(r, d)'
        <4>1. OnWay(w, r, d)'
          BY <3>3 DEF Takes, OnWay
        <4> QED BY <3>1, <3>3, <4>1 DEF Kept, Coming, Busy, OnWay
      <3>4. \A w \in Workers : ~Busy(w, r)
        BY <2>3 DEF RecordInv, QueueInv
      <3> QED BY <1>0, <2>3, <3>2, <3>3, <3>4, QueueStep
    <2>4. ASSUME NEW w \in Workers, Busy(w, r), OnWay(w, r, d), Reclaimable(ledger[d])
          PROVE  Kept(r, d)'
      BY <1>1, <1>2, <2>1, <2>4, OnWayStep
    <2>5. ASSUME NEW w \in Workers, Busy(w, r), Holds(w, d) PROVE Kept(r, d)'
      BY <1>2, <2>5, HoldingStep
    <2> QED BY <2>1, <2>2, <2>3, <2>4, <2>5 DEF Kept, Coming
  <1> QED BY <1>2, AnswersStep

(* At the start every record is still to come. *)
LEMMA KeptInit ==
  ASSUME Init
  PROVE  QueueInv /\ KeyInv /\ HolderInv /\ WantsInv /\ KeptInv
  <1>1. \A w \in Workers : workers[w].pc = "idle"
    BY DEF Init, IdleWorker
  <1>2. \A d \in Deliveries : ledger[d].status = "NONE"
    BY DEF Init, NoRow
  <1>3. QueueInv /\ KeyInv /\ HolderInv
    BY <1>1, <1>2 DEF QueueInv, Busy, KeyInv, HolderInv, Holds, Attempting
  <1>4. WantsInv
    BY DEF Init, WantsInv
  <1>5. \A r \in Records : queue[r].state = "visible"
    BY DEF Init
  <1>6. KeptInv
    BY <1>2, <1>5 DEF KeptInv, Kept, Coming, Reclaimable
  <1> QED BY <1>3, <1>4, <1>6

(* A run whose records were all acknowledged has nothing left over. *)
LEMMA KeptMeansSettled ==
  ASSUME RecordInv, KeptInv
  PROVE  NothingForgotten
  <1> SUFFICES ASSUME NEW run \in Runs, NEW i \in Investors,
                      RunAcknowledged(run), sub[i].edition = 0
               PROVE  /\ \A r \in Records : RunOf[ArtifactOf[r]] = run =>
                           ledger[<<i, ArtifactOf[r]>>].status # "NONE"
                      /\ \A d \in Deliveries : InvestorOf(d) = i /\ RunOfRow(d) = run =>
                           /\ ledger[d].status \notin {"CLAIMED", "FAILED"}
                           /\ ledger[d].status = "SUPPRESSED_CAP" =>
                                ledger[Rollup(d)].status \in Final
    BY DEF NothingForgotten
  <1>0. TypeInv /\ HolderInv /\ QueueInv
    BY DEF RecordInv, HoldInv, LeaseInv
  <1>1. ASSUME NEW r \in Records, NEW d \in Deliveries, InvestorOf(d) = i,
               RunOf[ArtifactOf[r]] = run, Answers(r, d)
        PROVE  FALSE
    <2>1. queue[r].state = "done"
      BY <1>1 DEF RunAcknowledged
    <2>2. \A w \in Workers : ~Busy(w, r)
      BY <1>0, <2>1 DEF QueueInv
    <2>3. Kept(r, d)
      BY <1>1 DEF KeptInv
    <2> QED BY <2>1, <2>2, <2>3 DEF Kept, ComesBack, Coming
  <1>2. ASSUME NEW r \in Records, RunOf[ArtifactOf[r]] = run
        PROVE  ledger[<<i, ArtifactOf[r]>>].status # "NONE"
    <2>1. Own(i, r) \in Deliveries /\ InvestorOf(Own(i, r)) = i
      BY OwnIs
    <2>2. ~Answers(r, Own(i, r))
      BY <1>1, <1>2, <2>1
    <2> QED BY <2>1, <2>2 DEF Answers, Own
  <1>3. ASSUME NEW d \in Deliveries, InvestorOf(d) = i, RunOfRow(d) = run,
               ledger[d].status # "NONE"
        PROVE  /\ ledger[d].holder \in Records
               /\ RunOf[ArtifactOf[ledger[d].holder]] = run
    <2> DEFINE r == ledger[d].holder
    <2>1. r \in Records /\ Concerns(r, d)
      BY <1>0, <1>3 DEF HolderInv
    <2> HIDE DEF r
    <2>2. /\ Own(i, r) \in Deliveries
          /\ RunOfRow(Own(i, r)) = RunOf[ArtifactOf[r]]
      BY <2>1, OwnIs
    <2>3. d = Own(i, r) \/ d = Rollup(Own(i, r))
      BY <1>3, <2>1 DEF Concerns
    <2>4. RunOfRow(Rollup(Own(i, r))) = RunOfRow(Own(i, r))
      BY <2>2, KeyShape
    <2> QED BY <1>3, <2>1, <2>2, <2>3, <2>4 DEF r
  <1>4. ASSUME NEW d \in Deliveries, InvestorOf(d) = i, RunOfRow(d) = run
        PROVE  ledger[d].status \notin {"CLAIMED", "FAILED"}
    BY <1>1, <1>3, <1>4 DEF Answers
  <1>5. ASSUME NEW d \in Deliveries, InvestorOf(d) = i, RunOfRow(d) = run,
               ledger[d].status = "SUPPRESSED_CAP"
        PROVE  ledger[Rollup(d)].status \in Final
    <2> DEFINE c == Rollup(d)
    <2>1. c \in Deliveries /\ InvestorOf(c) = i /\ RunOfRow(c) = run
      BY <1>5, KeyShape
    <2>2. ledger[c].status \in Statuses
      BY <1>0, <2>1 DEF TypeInv, TypeOK, Row
    <2>3. ledger[c].status \notin {"CLAIMED", "FAILED"}
      BY <1>4, <2>1
    <2>4. CASE d \in Direct
      <3>1. ledger[d].holder \in Records /\ RunOf[ArtifactOf[ledger[d].holder]] = run
        BY <1>3, <1>5
      <3>2. ~Answers(ledger[d].holder, c)
        BY <1>1, <2>1, <3>1
      <3>3. ledger[c].status # "NONE"
        BY <1>5, <2>4, <3>2 DEF Answers
      <3> QED BY <2>2, <2>3, <3>3 DEF Statuses, Outcomes, Final
    <2>5. CASE d \in Rollups
      <3>1. c = d
        BY <2>5, KeyShape
      <3> QED BY <1>5, <3>1 DEF Final
    <2> QED BY <2>4, <2>5 DEF Deliveries
  <1> QED BY <1>2, <1>4, <1>5

(* Once every record of a run was acknowledged, no investor's alert of that *)
(* run was left without an outcome: none is missing, claimed or failed, and *)
(* what the cap held back was reported or dropped as a rollup.  The two    *)
(* hypotheses are what the deployment sets: no worker outlives a claim, and *)
(* a record stays invisible for longer than a claim stays fresh.           *)
THEOREM NoAlertForgotten ==
  ASSUME SlowWorkers = FALSE, StaleFirst = TRUE
  PROVE  Spec => []NothingForgotten
  <1>1. Init => QueueInv /\ KeyInv /\ HolderInv /\ WantsInv /\ KeptInv
    BY KeptInit
  <1>2. HoldInv /\ QueueInv /\ KeyInv /\ HolderInv /\ WantsInv <=> RecordInv
    BY DEF RecordInv
  <1>3. RecordInv /\ [Next]_vars => RecordInv'
    BY RecordInvStep
  <1>4. RecordInv /\ RecordInv' /\ KeptInv /\ [Next]_vars => KeptInv'
    BY KeptStep
  <1>5. RecordInv /\ KeptInv => NothingForgotten
    BY KeptMeansSettled
  <1>6. Spec => []HoldInv
    BY HoldInvariant
  <1> QED BY <1>1, <1>2, <1>3, <1>4, <1>5, <1>6, PTL DEF Spec
=============================================================================
