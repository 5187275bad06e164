---------------------------- MODULE ScrapePipeline ---------------------------
(***************************************************************************)
(* The document pipeline: a request queues a scrape run, the discovery,    *)
(* download and analysis Lambdas move it through three SQS queues, and the *)
(* schedule's sweep closes what a stopped Lambda left open.                *)
(*                                                                         *)
(*   request_scrape_run --A--> discovery --B--> download                   *)
(*        download --object--> bucket --C--> analysis --> alert queue      *)
(*                                                                         *)
(* Every action is one database transaction, one SQS or S3 call, or one    *)
(* fault, so the model has the interleavings the deployed system has.  The *)
(* row transitions themselves are the operators of ScrapeRecords.          *)
(***************************************************************************)
EXTENDS Integers, FiniteSets, ScrapeRecords

CONSTANTS
  Runs,           \* scrape runs, one for each idempotency key of one ticker
  Docs,           \* source documents, numbered in the order of publication
  Sums,           \* the contents a document's URL may serve, as checksums
  Workers,        \* Lambda containers
  Requests,       \* calls of request_scrape_run
  Listings,       \* what the company's page may list at one discovery
  MaxDocuments,   \* MAX_DOCUMENTS_PER_RUN
  MaxReceives,    \* maxReceiveCount of the queues, MAX_RECEIVE_COUNT
  MaxSends,       \* bound: identical messages alive at one time
  MaxCrashes,     \* bound: stopped Lambdas and requests
  MaxErrors,      \* bound: exceptions, permanent errors and lost answers
  MaxDuplicates,  \* bound: records SQS delivers a second time
  MaxRedrives,    \* bound: messages moved back from a dead-letter queue
  None            \* no run, document, contents or message

ASSUME BoundsAssumption ==
  /\ MaxDocuments \in Nat \ {0} /\ MaxReceives \in Nat \ {0}
  /\ MaxSends \in Nat \ {0}
  /\ {MaxCrashes, MaxErrors, MaxDuplicates, MaxRedrives} \subseteq Nat
ASSUME DocsAssumption ==
  Docs \subseteq Nat /\ IsFiniteSet(Docs) /\ Listings \subseteq SUBSET Docs

VARIABLES
  run,       \* scrape_runs
  art,       \* artifacts of source type asx_announcement
  objects,   \* the raw document bucket: pairs of a document and its contents
  queue,     \* the three SQS queues and their dead-letter queues
  worker,    \* the record each Lambda container works on
  request,   \* the progress of each call of request_scrape_run
  sweep,     \* fail_abandoned_work: its query in turn and the rows it found
  entered,   \* history: the documents a Queue B message was sent for
  alerted,   \* the documents a notification was sent for
  faults     \* how many faults of each kind happened

vars == <<run, art, objects, queue, worker, request, sweep, entered, alerted,
          faults>>

-----------------------------------------------------------------------------
(* Messages.  Equal messages that may be in a queue together are told      *)
(* apart by a slot, which is free again when its message was deleted.      *)

Slots == 1..MaxSends
DiscoveryMessages == [stage : {"discovery"}, run : Runs, slot : Slots]
DownloadMessages == [stage : {"download"}, doc : Docs, slot : Slots]
AnalysisMessages == [stage : {"analysis"}, doc : Docs, sum : Sums]
Messages == DiscoveryMessages \cup DownloadMessages \cup AnalysisMessages

ASSUME NoneAssumption == None \notin Runs \cup Docs \cup Sums \cup Messages

Discovery(r, n) == [stage |-> "discovery", run |-> r, slot |-> n]
Download(d, n) == [stage |-> "download", doc |-> d, slot |-> n]
Analysis(d, s) == [stage |-> "analysis", doc |-> d, sum |-> s]

Unsent == [place |-> "none", receives |-> 0]
Visible == [place |-> "visible", receives |-> 0]

Holders(m) == {w \in Workers : worker[w].msg = m}
Live(m) == queue[m].place \in {"visible", "inflight"} \/ Holders(m) # {}
Free(m) == queue[m].place = "none" /\ Holders(m) = {}

\* The live messages about a run's discovery and about a document.
RunQuiet(r) == \A n \in Slots : ~Live(Discovery(r, n))
DocQuiet(d) == /\ \A n \in Slots : ~Live(Download(d, n))
               /\ \A s \in Sums : ~Live(Analysis(d, s))

-----------------------------------------------------------------------------
(* Workers and the initial state.                                          *)

Idle == [pc |-> "idle", msg |-> None, final |-> FALSE, todo |-> {},
         doc |-> None, sum |-> None, queued |-> 0]

\* Where an exception may be raised, and where a permanent error may be.
Fallible == {"begin", "list", "each", "send", "complete", "start", "fetch",
             "store", "reconcile", "analyse", "finish"}
Rejectable == {"list", "each", "fetch", "analyse"}
Steps == {"idle", "ack", "alert", "rejected", "given up"} \cup Fallible

Init ==
  /\ run = [r \in Runs |-> NoRun]
  /\ art = [d \in Docs |-> NoArtifact(None)]
  /\ objects = {}
  /\ queue = [m \in Messages |-> Unsent]
  /\ worker = [w \in Workers |-> Idle]
  /\ request = [q \in Requests |-> [pc |-> "new", run |-> None]]
  /\ sweep = [phase |-> "idle", todo |-> {}]
  /\ entered = {} /\ alerted = {}
  /\ faults = [crash |-> 0, error |-> 0, duplicate |-> 0, redrive |-> 0]

\* The states a call of request_scrape_run passes through.
RequestSteps == {"new", "reopen", "send", "sent", "unsent", "done"}

Fault(kind, most) ==
  /\ faults[kind] < most
  /\ faults' = [faults EXCEPT ![kind] = @ + 1]

Goto(w, pc) == worker' = [worker EXCEPT ![w].pc = pc]

\* onupdate=func.now() of artifacts.updated_at: only a changed row is touched.
Touched(before, after) ==
  IF after = before THEN before ELSE [after EXCEPT !.touched = "fresh"]

\* One transaction of crud/scrape_run.py on an artifact and its run.
Commit(d, newRun, newArt) ==
  /\ run' = [run EXCEPT ![art[d].run] = newRun]
  /\ art' = [art EXCEPT ![d] = Touched(art[d], newArt)]

RunOf(d) == run[art[d].run]

-----------------------------------------------------------------------------
(* request_scrape_run.                                                     *)

ServerVars == <<art, objects, worker, sweep, entered, alerted>>

\* get_or_create_queued_run, and what the caller does with the run it gets.
GetOrCreateRun(q, r) ==
  LET status == run[r].status
      next == IF status \in ActiveOrFinished THEN "done"
              ELSE IF status = "failed" THEN "reopen" ELSE "send"
  IN  /\ request[q].pc = "new"
      /\ request' = [request EXCEPT ![q] = [pc |-> next, run |-> r]]
      /\ run' = [run EXCEPT ![r] = IF status = "none" THEN CreatedRun ELSE @]
      /\ UNCHANGED <<queue, faults, ServerVars>>

ReopenRun(q) ==
  /\ request[q].pc = "reopen"
  /\ request' = [request EXCEPT ![q].pc = "send"]
  /\ run' = [run EXCEPT ![request[q].run] = Enqueueing(@)]
  /\ UNCHANGED <<queue, faults, ServerVars>>

\* The lowest free slot, so that equal queues are equal states.
FirstFree(m) ==
  Free(m) /\ \A k \in 1..(m.slot - 1) : ~Free([m EXCEPT !.slot = k])

\* send(message): it may fail, and its answer may be lost after it succeeded.
SendDiscovery(q, n) ==
  LET m == Discovery(request[q].run, n)
  IN  /\ request[q].pc = "send"
      /\ FirstFree(m)
      /\ queue' = [queue EXCEPT ![m] = Visible]
      /\ \/ /\ request' = [request EXCEPT ![q].pc = "sent"]
            /\ UNCHANGED faults
         \/ /\ request' = [request EXCEPT ![q].pc = "unsent"]
            /\ Fault("error", MaxErrors)
      /\ UNCHANGED <<run, ServerVars>>

SendDiscoveryFails(q) ==
  /\ request[q].pc = "send"
  /\ request' = [request EXCEPT ![q].pc = "unsent"]
  /\ Fault("error", MaxErrors)
  /\ UNCHANGED <<run, queue, ServerVars>>

MarkQueued(q) ==
  /\ request[q].pc = "sent"
  /\ request' = [request EXCEPT ![q].pc = "done"]
  /\ run' = [run EXCEPT ![request[q].run] = QueuedIfEnqueueing(@)]
  /\ UNCHANGED <<queue, faults, ServerVars>>

MarkUnsent(q) ==
  /\ request[q].pc = "unsent"
  /\ request' = [request EXCEPT ![q].pc = "done"]
  /\ run' = [run EXCEPT ![request[q].run] = DiscoveryFailed(@)]
  /\ UNCHANGED <<queue, faults, ServerVars>>

-----------------------------------------------------------------------------
(* SQS and the skeleton of every stage, run_stage.                         *)

OtherVars == <<run, art, objects, request, sweep, entered, alerted>>

\* A container gets a record; is_final_attempt looks at its receive count.
Receives(w, m) ==
  /\ worker[w] = Idle
  /\ queue[m].receives < MaxReceives
  /\ queue' = [queue EXCEPT ![m].place = "inflight", ![m].receives = @ + 1]
  /\ worker' = [worker EXCEPT ![w] =
       [Idle EXCEPT !.pc = "begin", !.msg = m,
                    !.final = queue[m].receives + 1 >= MaxReceives]]
  /\ UNCHANGED OtherVars

Receive(w, m) ==
  /\ queue[m].place = "visible"
  /\ Receives(w, m)
  /\ UNCHANGED faults

\* At-least-once delivery: a second container gets the record as well.
ReceiveAgain(w, m) ==
  /\ queue[m].place = "inflight"
  /\ Receives(w, m)
  /\ Fault("duplicate", MaxDuplicates)

\* The record was handled: Lambda deletes it from its queue.
Acknowledge(w) ==
  /\ worker[w].pc = "ack"
  /\ queue' = [queue EXCEPT ![worker[w].msg] = Unsent]
  /\ worker' = [worker EXCEPT ![w] = Idle]
  /\ UNCHANGED <<faults, OtherVars>>

\* The record was not handled: once its visibility timeout is over SQS shows
\* it again, or after MaxReceives receives moves it to the dead-letter queue.
Released(w) ==
  LET m == worker[w].msg
      alone == Holders(m) = {w} /\ queue[m].place = "inflight"
      spent == queue[m].receives >= MaxReceives
  IN  IF ~alone THEN queue
      ELSE [queue EXCEPT ![m].place = IF spent THEN "dead" ELSE "visible"]

\* is_final_attempt decides whether a retryable error is recorded as final.
FinalAttempt(w) == worker[w].final

\* A retryable error.  record_..._retry only writes the error's text.
Raise(w) ==
  /\ worker[w].pc \in Fallible
  /\ Fault("error", MaxErrors)
  /\ IF FinalAttempt(w)
     THEN Goto(w, "given up") /\ UNCHANGED queue
     ELSE queue' = Released(w) /\ worker' = [worker EXCEPT ![w] = Idle]
  /\ UNCHANGED OtherVars

\* A PermanentDocumentError about a subject that can be trusted.
Reject(w) ==
  /\ worker[w].pc \in Rejectable
  /\ Fault("error", MaxErrors)
  /\ Goto(w, "rejected")
  /\ UNCHANGED <<queue, OtherVars>>

\* _record_final: the failure is durable before the record is acknowledged.
FailSubject(m) ==
  CASE m.stage = "discovery" ->
         /\ run' = [run EXCEPT ![m.run] = DiscoveryFailed(@)]
         /\ UNCHANGED art
    [] m.stage = "download" ->
         Commit(m.doc, RunDownloadFailed(RunOf(m.doc), art[m.doc]),
                DownloadFailed(art[m.doc]))
    [] m.stage = "analysis" ->
         Commit(m.doc, RunAnalysisFailed(RunOf(m.doc), art[m.doc]),
                AnalysisFailed(art[m.doc]))

RecordFinal(w) ==
  /\ worker[w].pc \in {"rejected", "given up"}
  /\ FailSubject(worker[w].msg)
  /\ IF worker[w].pc = "rejected"
     THEN Goto(w, "ack") /\ UNCHANGED queue
     ELSE queue' = Released(w) /\ worker' = [worker EXCEPT ![w] = Idle]
  /\ UNCHANGED <<objects, request, sweep, entered, alerted, faults>>

-----------------------------------------------------------------------------
(* The discovery stage: lambdas/discovery.py, _discover.                   *)

At(w, stage, pc) == worker[w].pc = pc /\ worker[w].msg.stage = stage

BeginDiscovery(w) ==
  /\ At(w, "discovery", "begin")
  /\ run' = [run EXCEPT ![worker[w].msg.run] = DiscoveryStarted(@)]
  /\ Goto(w, "list")
  /\ UNCHANGED <<art, objects, queue, request, sweep, entered, alerted, faults>>

\* The page may list other documents each time it is read.
ListDocuments(w) ==
  /\ At(w, "discovery", "list")
  /\ \E listing \in Listings :
       worker' = [worker EXCEPT ![w].pc = "each", ![w].todo = listing]
  /\ UNCHANGED <<queue, faults, OtherVars>>

\* The next listed document, newest first, until MAX_DOCUMENTS_PER_RUN are
\* queued.
Takes(w, d) == /\ At(w, "discovery", "each")
               /\ d \in worker[w].todo
               /\ \A e \in worker[w].todo : e <= d
               /\ worker[w].queued < MaxDocuments

\* Mutant: the latest run that finds a document takes it over.
AdoptArtifact(w, d) ==
  LET r == worker[w].msg.run
  IN  /\ Takes(w, d)
      /\ art' = IF art[d].run = None THEN [art EXCEPT ![d] = CreatedArtifact(r, None)]
                ELSE [art EXCEPT ![d].run = r]
      /\ worker' = [worker EXCEPT ![w].pc = "send", ![w].doc = d,
                                  ![w].todo = @ \ {d}]
      /\ UNCHANGED <<run, objects, queue, request, sweep, entered, alerted, faults>>

\* get_or_create_artifact: the document is new, or this run already has it.
FindArtifact(w, d) ==
  LET r == worker[w].msg.run
  IN  /\ Takes(w, d)
      /\ art[d].run \in {None, r}
      /\ art' = IF art[d].run = None
                THEN [art EXCEPT ![d] = CreatedArtifact(r, None)] ELSE art
      /\ worker' = [worker EXCEPT ![w].pc = "send", ![w].doc = d,
                                  ![w].todo = @ \ {d}]
      /\ UNCHANGED <<run, objects, queue, request, sweep, entered, alerted, faults>>

\* A document that belongs to another run is not processed again.
SkipDocument(w, d) ==
  /\ Takes(w, d)
  /\ art[d].run \notin {None, worker[w].msg.run}
  /\ worker' = [worker EXCEPT ![w].todo = @ \ {d}]
  /\ UNCHANGED <<queue, faults, OtherVars>>

\* A send that raises after it succeeded is this action followed by Raise.
SendDownload(w, n) ==
  LET d == worker[w].doc
  IN  /\ At(w, "discovery", "send")
      /\ FirstFree(Download(d, n))
      /\ queue' = [queue EXCEPT ![Download(d, n)] = Visible]
      /\ entered' = entered \cup {d}
      /\ worker' = [worker EXCEPT ![w].pc = "each", ![w].doc = None,
                                  ![w].queued = @ + 1]
      /\ UNCHANGED <<run, art, objects, request, sweep, alerted, faults>>

CompleteDiscovery(w) ==
  /\ At(w, "discovery", "each")
  /\ worker[w].todo = {} \/ worker[w].queued >= MaxDocuments
  /\ run' = [run EXCEPT ![worker[w].msg.run] =
               DiscoveryCompleted(@, worker[w].queued)]
  /\ worker' = [worker EXCEPT ![w].pc = "ack", ![w].todo = {}, ![w].queued = 0]
  /\ UNCHANGED <<art, objects, queue, request, sweep, entered, alerted, faults>>

-----------------------------------------------------------------------------
(* The download stage: lambdas/download.py, _download.                     *)

\* Mutant: a document whose download was started is not downloaded again.
LoadUnlessStarted(w) ==
  /\ At(w, "download", "begin")
  /\ Goto(w, IF art[worker[w].msg.doc].download # "pending" THEN "ack" ELSE "start")
  /\ UNCHANGED <<queue, faults, OtherVars>>

\* A stored document is not downloaded again.  Its object outlives every
\* message (30 days against 18), so the store still holds it.
LoadArtifact(w) ==
  /\ At(w, "download", "begin")
  /\ Goto(w, IF art[worker[w].msg.doc].download = "stored" THEN "ack" ELSE "start")
  /\ UNCHANGED <<queue, faults, OtherVars>>

StartDownload(w) ==
  LET d == worker[w].msg.doc
  IN  /\ At(w, "download", "start")
      /\ Commit(d, RunDownloadStarted(RunOf(d), art[d]), DownloadStarted(art[d]))
      /\ Goto(w, "fetch")
      /\ UNCHANGED <<objects, queue, request, sweep, entered, alerted, faults>>

\* fetch_document and RawDocumentStore.put: an object is written once, and
\* its creation puts the native S3 notification on the analysis queue.
FetchAndPut(w, s) ==
  LET d == worker[w].msg.doc
  IN  /\ At(w, "download", "fetch")
      /\ objects' = objects \cup {<<d, s>>}
      /\ queue' = IF <<d, s>> \in objects THEN queue
                  ELSE [queue EXCEPT ![Analysis(d, s)] = Visible]
      /\ worker' = [worker EXCEPT ![w].pc = "store", ![w].sum = s]
      /\ UNCHANGED <<run, art, request, sweep, entered, alerted, faults>>

MarkStored(w) ==
  LET d == worker[w].msg.doc
  IN  /\ At(w, "download", "store")
      /\ Commit(d, RunDocumentStored(RunOf(d), art[d]),
                DocumentStored(art[d], worker[w].sum))
      /\ worker' = [worker EXCEPT ![w].pc = "ack", ![w].sum = None]
      /\ UNCHANGED <<objects, queue, request, sweep, entered, alerted, faults>>

-----------------------------------------------------------------------------
(* The analysis stage: artifact_analysis.analyse_stored_document.          *)

\* Mutant: an analysis that was started counts as done.
FactsUnlessStarted(w) ==
  LET a == art[worker[w].msg.doc]
      next == IF a.download # "stored" THEN "reconcile"
              ELSE IF a.copy # worker[w].msg.sum \/ a.analysis # "pending"
                   THEN "ack" ELSE "start"
  IN  /\ At(w, "analysis", "begin")
      /\ Goto(w, next)
      /\ UNCHANGED <<queue, faults, OtherVars>>

\* A notification of an object the artifact does not record as its copy is
\* stale: an untrusted error, acknowledged and recorded nowhere.
ReadFacts(w) ==
  LET a == art[worker[w].msg.doc]
      next == IF a.download # "stored" THEN "reconcile"
              ELSE IF a.copy # worker[w].msg.sum \/ a.analysis = "completed"
                   THEN "ack" ELSE "start"
  IN  /\ At(w, "analysis", "begin")
      /\ Goto(w, next)
      /\ UNCHANGED <<queue, faults, OtherVars>>

\* verify and mark_stored: S3 announced the object before download recorded it.
Reconcile(w) ==
  LET d == worker[w].msg.doc
  IN  /\ At(w, "analysis", "reconcile")
      /\ Commit(d, RunDocumentStored(RunOf(d), art[d]),
                DocumentStored(art[d], worker[w].msg.sum))
      /\ Goto(w, "start")
      /\ UNCHANGED <<objects, queue, request, sweep, entered, alerted, faults>>

StartAnalysis(w) ==
  LET d == worker[w].msg.doc
  IN  /\ At(w, "analysis", "start")
      /\ Commit(d, RunAnalysisStarted(RunOf(d), art[d]), AnalysisStarted(art[d]))
      /\ Goto(w, "analyse")
      /\ UNCHANGED <<objects, queue, request, sweep, entered, alerted, faults>>

\* Reading, classifying, scoring and summarising the document, and the
\* transaction that stores the results without a change of status.
Analyse(w) ==
  /\ At(w, "analysis", "analyse")
  /\ Goto(w, "finish")
  /\ UNCHANGED <<queue, faults, OtherVars>>

FinishAnalysis(w) ==
  LET d == worker[w].msg.doc
  IN  /\ At(w, "analysis", "finish")
      /\ Commit(d, RunAnalysisCompleted(RunOf(d), art[d]), AnalysisCompleted(art[d]))
      /\ Goto(w, "alert")
      /\ UNCHANGED <<objects, queue, request, sweep, entered, alerted, faults>>

\* _alert: not every result is sent, and a failed send is swallowed.
Alert(w) ==
  /\ At(w, "analysis", "alert")
  /\ alerted' \in {alerted, alerted \cup {worker[w].msg.doc}}
  /\ Goto(w, "ack")
  /\ UNCHANGED <<run, art, objects, queue, request, sweep, entered, faults>>

-----------------------------------------------------------------------------
(* The sweep: fail_abandoned_work, run first by the schedule.  It queries  *)
(* runs, downloads and analyses in turn and closes the rows it found one   *)
(* by one, each in a transaction of its own.                               *)

SweepPhases == {"idle", "runs", "downloads", "analyses"}
AfterPhase == [idle |-> "runs", runs |-> "downloads",
               downloads |-> "analyses", analyses |-> "idle"]

\* Mutant: only queued runs are stalled.
StalledQueuedRuns == {r \in Runs : run[r].status = "queued" /\ run[r].queuedAt = "old"}

StalledRuns == {r \in Runs :
  \/ run[r].status = "queued" /\ run[r].queuedAt = "old"
  \/ run[r].status = "discovering" /\ run[r].startedAt = "old"}
\* Mutant: the downloads that never started instead of those that did not end.
StalledPendingDownloads ==
  {d \in Docs : art[d].download = "pending" /\ art[d].touched = "old"}

StalledDownloads ==
  {d \in Docs : art[d].download = "downloading" /\ art[d].touched = "old"}
\* Mutant: only the analyses of stored text are closed.
StalledTextAnalyses ==
  {d \in Docs : /\ art[d].analysis = "analyzing" /\ art[d].touched = "old"
                /\ art[d].download # "stored"}

StalledAnalyses ==
  {d \in Docs : art[d].analysis = "analyzing" /\ art[d].touched = "old"}

SweepQuery ==
  LET phase == AfterPhase[sweep.phase]
  IN  /\ sweep.todo = {}
      /\ sweep' = [phase |-> phase,
                   todo |-> CASE phase = "runs" -> StalledRuns
                              [] phase = "downloads" -> StalledDownloads
                              [] phase = "analyses" -> StalledAnalyses
                              [] phase = "idle" -> {}]
      /\ UNCHANGED <<run, art, objects, queue, worker, request, entered,
                     alerted, faults>>

SweepClose(x) ==
  /\ x \in sweep.todo
  /\ sweep' = [sweep EXCEPT !.todo = @ \ {x}]
  /\ CASE sweep.phase = "runs" ->
            /\ run' = [run EXCEPT ![x] = DiscoveryFailed(@)]
            /\ UNCHANGED art
       [] sweep.phase = "downloads" ->
            Commit(x, RunDownloadFailed(RunOf(x), art[x]), DownloadFailed(art[x]))
       [] sweep.phase = "analyses" ->
            Commit(x, RunAnalysisFailed(RunOf(x), art[x]), AnalysisFailed(art[x]))
  /\ UNCHANGED <<objects, queue, worker, request, entered, alerted, faults>>

\* A Lambda that stops before the sweep is through leaves the rest of it.
SweepStops ==
  /\ sweep.phase # "idle"
  /\ Fault("crash", MaxCrashes)
  /\ sweep' = [phase |-> "idle", todo |-> {}]
  /\ UNCHANGED <<run, art, objects, queue, worker, request, entered, alerted>>

-----------------------------------------------------------------------------
(* Faults and time.                                                        *)

\* A Lambda times out or is stopped, and runs no error handler.
Crash(w) ==
  /\ worker[w].pc # "idle"
  /\ Fault("crash", MaxCrashes)
  /\ queue' = Released(w)
  /\ worker' = [worker EXCEPT ![w] = Idle]
  /\ UNCHANGED OtherVars

RequestStops(q) ==
  /\ request[q].pc \notin {"new", "done"}
  /\ Fault("crash", MaxCrashes)
  /\ request' = [request EXCEPT ![q].pc = "done"]
  /\ UNCHANGED <<run, queue, ServerVars>>

\* An operator moves a message back from the dead-letter queue.
Redrive(m) ==
  /\ queue[m].place = "dead"
  /\ Fault("redrive", MaxRedrives)
  /\ queue' = [queue EXCEPT ![m] = Visible]
  /\ UNCHANGED <<worker, OtherVars>>

Aged(stamp) == IF stamp = "null" THEN "null" ELSE "old"

\* A day passes.  ABANDONED_AFTER is longer than any queue's redelivery
\* window, so whatever still has a live message is younger than that.
RunAges(r) ==
  /\ RunQuiet(r)
  /\ \A q \in Requests : request[q].run = r => request[q].pc = "done"
  /\ run' = [run EXCEPT ![r].queuedAt = Aged(@), ![r].startedAt = Aged(@)]
  /\ UNCHANGED <<art, objects, queue, worker, request, sweep, entered, alerted,
                 faults>>

ArtifactAges(d) ==
  /\ DocQuiet(d)
  /\ art' = [art EXCEPT ![d].touched = Aged(@)]
  /\ UNCHANGED <<run, objects, queue, worker, request, sweep, entered, alerted,
                 faults>>

-----------------------------------------------------------------------------
RequestStep(q) ==
  \/ \E r \in Runs : GetOrCreateRun(q, r)
  \/ ReopenRun(q)
  \/ \E n \in Slots : SendDiscovery(q, n)
  \/ MarkQueued(q)
  \/ MarkUnsent(q)

DiscoveryStep(w) ==
  \/ BeginDiscovery(w) \/ ListDocuments(w) \/ CompleteDiscovery(w)
  \/ \E d \in Docs : FindArtifact(w, d) \/ SkipDocument(w, d)
  \/ \E n \in Slots : SendDownload(w, n)

DownloadStep(w) ==
  \/ LoadArtifact(w) \/ StartDownload(w) \/ MarkStored(w)
  \/ \E s \in Sums : FetchAndPut(w, s)

AnalysisStep(w) ==
  \/ ReadFacts(w) \/ Reconcile(w) \/ StartAnalysis(w)
  \/ Analyse(w) \/ FinishAnalysis(w) \/ Alert(w)

WorkerStep(w) == \/ DiscoveryStep(w) \/ DownloadStep(w) \/ AnalysisStep(w)
                 \/ RecordFinal(w) \/ Acknowledge(w)

SweepStep == SweepQuery \/ \E x \in Runs \cup Docs : SweepClose(x)

FaultStep ==
  \/ \E w \in Workers : Raise(w) \/ Reject(w) \/ Crash(w)
  \/ \E q \in Requests : SendDiscoveryFails(q) \/ RequestStops(q)
  \/ \E m \in Messages : Redrive(m) \/ \E w \in Workers : ReceiveAgain(w, m)
  \/ SweepStops

Next ==
  \/ \E q \in Requests : RequestStep(q)
  \/ \E w \in Workers : WorkerStep(w) \/ \E m \in Messages : Receive(w, m)
  \/ SweepStep
  \/ FaultStep
  \/ \E r \in Runs : RunAges(r)
  \/ \E d \in Docs : ArtifactAges(d)

Spec == Init /\ [][Next]_vars

-----------------------------------------------------------------------------
(* Properties.                                                             *)

\* The code's scheduling: a request that was made goes on, a container goes
\* on with its record, SQS hands out what is visible, the schedule runs the
\* sweep again and again, and time passes.  Faults are never owed.
Fairness ==
  /\ \A q \in Requests :
       WF_vars(\/ ReopenRun(q) \/ MarkQueued(q) \/ MarkUnsent(q)
               \/ \E n \in Slots : SendDiscovery(q, n))
  /\ \A w \in Workers : WF_vars(WorkerStep(w))
  /\ \A m \in Messages : WF_vars(\E w \in Workers : Receive(w, m))
  /\ WF_vars(SweepStep)
  /\ \A r \in Runs : WF_vars(RunAges(r))
  /\ \A d \in Docs : WF_vars(ArtifactAges(d))

LiveSpec == Spec /\ Fairness

RunRow == [status : RunStatuses \cup {"none"}, found : Nat, downloaded : Nat,
           analyzed : Nat, failed : Nat, queuedAt : Stamps, startedAt : Stamps]
ArtRow == [run : Runs \cup {None}, download : DownloadStatuses \cup {"none"},
           analysis : AnalysisStatuses \cup {"none"},
           copy : Sums \cup {None}, touched : Stamps]
WorkerRow == [pc : Steps, msg : Messages \cup {None}, final : BOOLEAN,
              todo : SUBSET Docs, doc : Docs \cup {None},
              sum : Sums \cup {None}, queued : Nat]
QueueRow == [place : {"none", "visible", "inflight", "dead"},
             receives : 0..MaxReceives]

\* Type correctness of the rows, the queues and the processes.
TypeOK ==
  /\ run \in [Runs -> RunRow]
  /\ art \in [Docs -> ArtRow]
  /\ objects \subseteq Docs \X Sums
  /\ queue \in [Messages -> QueueRow]
  /\ worker \in [Workers -> WorkerRow]
  /\ request \in [Requests -> [pc : RequestSteps, run : Runs \cup {None}]]
  /\ sweep \in [phase : SweepPhases, todo : SUBSET (Runs \cup Docs)]
  /\ entered \subseteq Docs /\ alerted \subseteq Docs
  /\ faults \in [{"crash", "error", "duplicate", "redrive"} -> Nat]

Of(r) == {d \in Docs : art[d].run = r}
StoredOf(r) == {d \in Of(r) : art[d].download = "stored"}
AnalyzedOf(r) == {d \in Of(r) : art[d].analysis = "completed"}
UnfetchedOf(r) == {d \in Of(r) : art[d].download = "failed"}
UnreadOf(r) == {d \in Of(r) : art[d].analysis = "failed"}
FailedOf(r) == UnfetchedOf(r) \cup UnreadOf(r)

\* items_downloaded and items_analyzed of a run count its stored and its
\* analysed documents, however often messages were repeated or lost.
CountersMatch ==
  \A r \in Runs : /\ run[r].downloaded = Cardinality(StoredOf(r))
                  /\ run[r].analyzed = Cardinality(AnalyzedOf(r))

\* No failure is missed: items_failed is at least the number of failed
\* downloads and failed analyses, so a run with a failed document never looks
\* clean.
FailuresCounted ==
  \A r \in Runs : run[r].failed >= Cardinality(UnfetchedOf(r)) + Cardinality(UnreadOf(r))

\* Safe under at-least-once delivery: items_failed counts the documents that
\* failed, each once.
FailuresMatch ==
  \A r \in Runs : run[r].failed = Cardinality(FailedOf(r))

\* A run reported completed or partial has an outcome for every document
\* its discovery queued: no message of it is still to be processed.
FinishedMeansDone ==
  \A r \in Runs :
    run[r].status \in {"completed", "partial"} =>
      \A d \in Of(r) : d \in entered => d \in AnalyzedOf(r) \cup FailedOf(r)

\* Once the download messages of a document are deleted, and not before, its
\* outcome is durable: acknowledging a record never loses the document.
AcknowledgedIsSettled ==
  \A d \in entered :
    (\A n \in Slots : Free(Download(d, n))) => art[d].download \in {"stored", "failed"}

\* The same for analysis: when a stored document's notification is deleted
\* its analysis has ended.
AnnouncedIsAnalysed ==
  \A d \in Docs :
    (art[d].download = "stored" /\ \A s \in Sums : Free(Analysis(d, s)))
      => art[d].analysis \in {"completed", "failed"}

\* A run that callers are told is queued has a discovery message, or a call of
\* request_scrape_run that is still to send one: no request is lost.
QueuedIsOnItsWay ==
  \A r \in Runs : run[r].status = "queued" =>
    \/ \E n \in Slots : ~Free(Discovery(r, n))
    \/ \E q \in Requests : request[q].run = r /\ request[q].pc # "done"

\* A discovery attempt that is late or repeated never moves a run back once
\* a later stage has it ("Monotonic status transitions").
NoRegress ==
  [][\A r \in Runs : run[r].status \in Downstream =>
       run'[r].status \notin {"enqueueing", "queued", "discovering"}]_vars

\* Nothing stays in the middle of a download or an analysis for ever: a
\* worker ends it, or the sweep does.
DownloadsEnd ==
  \A d \in Docs : art[d].download = "downloading" ~> art[d].download \in {"stored", "failed"}
AnalysesEnd ==
  \A d \in Docs : art[d].analysis = "analyzing" ~> art[d].analysis \in {"completed", "failed"}

\* A run that was queued does not stay queued or in discovery for ever.
DiscoveryEnds ==
  \A r \in Runs : run[r].status \in {"queued", "discovering"}
                    ~> run[r].status \notin {"queued", "discovering"}

\* The docstring of fail_abandoned_work: anything left open is closed.
LeftOpenIsClosed ==
  \A r \in Runs : run[r].status \in {"downloading", "analyzing"}
                    ~> run[r].status \in {"completed", "partial", "failed"}

\* The comment in _discover: a document of another run has already entered
\* the pipeline, or that run's discovery is still to be repeated.
SkippedHasEntered ==
  [][\A w \in Workers, d \in Docs :
       SkipDocument(w, d) => d \in entered \/ ~RunQuiet(art[d].run)]_vars

\* The life of each document, the abstract view of its row.
Stage(d) ==
  CASE art[d].download = "none" -> "unknown"
    [] art[d].download \in {"pending", "downloading"} -> "open"
    [] art[d].download = "failed" -> "unfetched"
    [] art[d].download = "stored" ->
         CASE art[d].analysis = "completed" -> "read"
           [] art[d].analysis = "failed" -> "unreadable"
           [] OTHER -> "kept"

Life == INSTANCE DocumentLife WITH
          stage <- [d \in Docs |-> Stage(d)],
          owner <- [d \in Docs |-> art[d].run]

\* Every document lives the life DocumentLife promises.
LifeKept == Life!Spec
=============================================================================
