----------------------------- MODULE StoredText -----------------------------
(***************************************************************************)
(* Posts and news stories: the collectors that store them (discussion_     *)
(* collector.py, marketaux.py, lambdas/public_discussion_schedule.py), the *)
(* sender that queues their text for analysis (analysis_queue.py), and the *)
(* analysis workers that decide whether a text belongs in the feed, score  *)
(* and summarise it (lambdas/artifact_analysis.py), all beside each other  *)
(* over one database and one SQS queue.                                    *)
(*                                                                         *)
(* A transaction that locks its row is one action; what a process read     *)
(* before it stays in the process.  Texts, scores and prompts are left     *)
(* out: a summary is one of a few answers, a feed decision one of two.     *)
(***************************************************************************)
EXTENDS Integers, FiniteSets

CONSTANTS
  Posts,       \* contents (their hashes) a source may return
  Keys,        \* idempotency keys of collections: one for each scheduled event,
               \* asked for again at its retries, one for each call of a route
  Collectors,  \* collections, news batches and requeues running at once
  Workers,     \* analysis containers
  Summaries,   \* answers the language model may give
  MaxReceives, \* maxReceiveCount of the analysis queue
  MaxAsks,     \* bound: collections, batches, requeues, summaries and redrives begun
  MaxSends,    \* bound: copies of one message in the queue
  MaxErrors,   \* bound: calls that fail
  MaxStops     \* bound: processes that stop half-way
ASSUME BoundsAreCounts == /\ MaxReceives \in Nat \ {0} /\ MaxAsks \in Nat
                          /\ MaxSends \in Nat /\ MaxErrors \in Nat
                          /\ MaxStops \in Nat
ASSUME NoSummaryIsNone == "none" \notin Summaries

VARIABLES
  post,        \* [Posts -> Row], the artifacts
  run,         \* [Keys -> status], the collection runs
  collectors,  \* [Collectors -> Collector]
  workers,     \* [Workers -> Worker]
  queue,       \* [Messages -> Nat], how many copies are visible
  gaveUp,      \* posts whose text message is in the dead-letter queue
  results,     \* history: posts a result was stored for
  asks, errors, stops

vars == <<post, run, collectors, workers, queue, gaveUp, results,
          asks, errors, stops>>

-----------------------------------------------------------------------------
RunStatuses  == {"none", "queued", "running", "completed", "partial", "failed"}
Finished     == {"completed", "partial"}
PostStatuses == {"absent", "pending", "queued", "analyzing", "completed", "failed"}
QueuedOrDone == {"queued", "analyzing", "completed"}
\* artifact_metadata: the feed decision and the summary's lines.
Metadata     == [decision: {"none", "eligible", "excluded"},
                 lines: Summaries \cup {"none"}]
NoMetadata   == [decision |-> "none", lines |-> "none"]
\* social: Reddit and Bluesky; feed: Mastodon and blogs.
Sources      == {"social", "feed", "news"}
\* source: where it is found; matched: it names a supported ticker; summary: the
\* artifact_summaries row.
Row          == [status: PostStatuses, source: Sources, matched: BOOLEAN,
                 meta: Metadata, summary: Summaries \cup {"none"}]
NoRow(s)     == [status |-> "absent", source |-> s, matched |-> FALSE,
                 meta |-> NoMetadata, summary |-> "none"]

Kinds      == {"discussion", "news", "requeue"}
CollectPcs == {"idle", "asked", "looking", "inserting", "linking",
               "sending", "marking", "failing"}
Collector  == [pc: CollectPcs, kind: Kinds, key: Keys \cup {"none"},
               left: SUBSET Posts, post: Posts \cup {"none"},
               seen: PostStatuses, malformed: BOOLEAN]
Idle       == [pc |-> "idle", kind |-> "news", key |-> "none", left |-> {},
               post |-> "none", seen |-> "absent", malformed |-> FALSE]

\* What a worker read or decided is forgotten with its last use.
WorkPcs  == {"idle", "received", "starting", "noting", "writing", "storing",
             "closing", "raising"}
Messages == [kind: {"text", "summary"}, post: Posts, receives: 0..MaxReceives]
NoMessage == [kind |-> "none", post |-> "none", receives |-> 0]
Worker   == [pc: WorkPcs, msg: Messages \cup {NoMessage}, seen: Metadata,
             decision: {"none", "eligible", "excluded"}]
Resting  == [pc |-> "idle", msg |-> NoMessage, seen |-> NoMetadata,
             decision |-> "none"]

TypeOK ==
  /\ post \in [Posts -> Row]
  /\ run \in [Keys -> RunStatuses]
  /\ collectors \in [Collectors -> Collector]
  /\ workers \in [Workers -> Worker]
  /\ queue \in [Messages -> Nat]
  /\ gaveUp \subseteq Posts /\ results \subseteq Posts
  /\ asks \in Nat /\ errors \in Nat /\ stops \in Nat

Init ==
  /\ post \in [Posts -> {NoRow(s) : s \in Sources}]
  /\ run = [k \in Keys |-> "none"]
  /\ collectors = [c \in Collectors |-> Idle]
  /\ workers = [w \in Workers |-> Resting]
  /\ queue = [m \in Messages |-> 0]
  /\ gaveUp = {} /\ results = {}
  /\ asks = 0 /\ errors = 0 /\ stops = 0

-----------------------------------------------------------------------------
(* Helpers *)

Text(p)         == [kind |-> "text", post |-> p, receives |-> 0]
SummaryOf(p)    == [kind |-> "summary", post |-> p, receives |-> 0]
Put(m)          == queue' = [queue EXCEPT ![m] = @ + 1]
Room(m)         == queue[m] < MaxSends
\* Idle processes are alike, so the first of them is taken.
NextCollector(c) == c = CHOOSE x \in Collectors : collectors[x].pc = "idle"
NextWorker(w)    == w = CHOOSE x \in Workers : workers[x].pc = "idle"
CollectorIs(c, pc) == collectors[c].pc = pc
WorkerIs(w, pc) == workers[w].pc = pc
Collect(c, q)   == collectors' = [collectors EXCEPT ![c] = q]
Work(w, q)      == workers' = [workers EXCEPT ![w] = q]
SetRun(k, s)    == run' = [run EXCEPT ![k] = s]
SetStatus(p, s) == post' = [post EXCEPT ![p].status = s]
Errs            == errors < MaxErrors /\ errors' = errors + 1
Stops           == stops < MaxStops /\ stops' = stops + 1

Found(kind)     == {p \in Posts : (post[p].source = "news") <=> (kind = "news")}

\* On to the next post, or, for a requeue, to the end.
Onward(q) == IF q.kind = "requeue" \/ (q.kind = "news" /\ q.left = {}) THEN Idle
             ELSE [q EXCEPT !.pc = "looking", !.post = "none", !.seen = "absent"]

-----------------------------------------------------------------------------
(* Collections *)

\* A scheduled event asks for its run, again at each retry of the event; one
\* that is finished is skipped.
AskCollection(c, k) ==
  /\ CollectorIs(c, "idle") /\ NextCollector(c) /\ asks < MaxAsks
  /\ run[k] \notin Finished
  /\ asks' = asks + 1
  /\ IF run[k] = "none" THEN SetRun(k, "queued") ELSE UNCHANGED run
  /\ Collect(c, [Idle EXCEPT !.pc = "asked", !.kind = "discussion", !.key = k])
  /\ UNCHANGED <<post, workers, queue, gaveUp, results, errors, stops>>

\* The Marketaux batch: it has no run, and its fetch is done before the loop.
AskNews(c) ==
  /\ CollectorIs(c, "idle") /\ NextCollector(c) /\ asks < MaxAsks
  /\ Found("news") # {}
  /\ asks' = asks + 1
  /\ Collect(c, [Idle EXCEPT !.pc = "looking", !.left = Found("news")])
  /\ UNCHANGED <<post, run, workers, queue, gaveUp, results, errors, stops>>

\* requeue_pending_analysis, of one artifact: longer batches are several.
AskRequeue(c) ==
  /\ CollectorIs(c, "idle") /\ NextCollector(c) /\ asks < MaxAsks
  /\ \E p \in Posts :
       /\ p \in Found("discussion") /\ post[p].matched
       /\ post[p].status \in {"pending", "failed"}
       /\ Collect(c, [Idle EXCEPT !.pc = "sending", !.kind = "requeue",
                                  !.post = p, !.seen = post[p].status])
  /\ asks' = asks + 1
  /\ UNCHANGED <<post, run, workers, queue, gaveUp, results, errors, stops>>

\* mark_public_discussion_run_started leaves a finished run alone, and the
\* collection goes on all the same: its posts are fetched, some malformed.
StartRun(c) ==
  LET q == collectors[c]
  IN /\ CollectorIs(c, "asked")
     /\ IF run[q.key] \in Finished THEN UNCHANGED run ELSE SetRun(q.key, "running")
     /\ \E malformed \in BOOLEAN :
          Collect(c, [q EXCEPT !.pc = "looking", !.malformed = malformed,
                               !.left = Found("discussion")])
     /\ UNCHANGED <<post, workers, queue, gaveUp, results, asks, errors, stops>>

\* get_artifact_by_hash, and what it reads when it finds one.
LookUp(c, p) ==
  LET q == collectors[c]
  IN /\ CollectorIs(c, "looking") /\ p \in q.left
     /\ Collect(c, [q EXCEPT !.left = @ \ {p}, !.post = p,
                             !.seen = post[p].status,
                             !.pc = IF post[p].status = "absent" THEN "inserting"
                                                                 ELSE "linking"])
     /\ UNCHANGED <<post, run, workers, queue, gaveUp, results, asks, errors, stops>>

\* Mutant: a discussion run goes on without the post it could not take.
PassedOver(q) == Onward(q)
\* Where an error leaves a collection: a discussion run fails as a whole, a
\* news batch or a requeue goes on with the next artifact.
AfterError(q) == IF q.kind = "discussion" THEN [q EXCEPT !.pc = "failing"]
                                          ELSE Onward(q)

\* The unique content hash lets one of two inserts through.  News is found by
\* its ticker; whether a post names one is a fact of its text.
Insert(c) ==
  LET q == collectors[c]
  IN /\ CollectorIs(c, "inserting")
     /\ IF post[q.post].status = "absent"
        THEN /\ \E b \in IF q.kind = "news" THEN {TRUE} ELSE BOOLEAN :
                  post' = [post EXCEPT ![q.post].status = "pending",
                                       ![q.post].matched = b]
             /\ Collect(c, [q EXCEPT !.pc = "linking", !.seen = "pending"])
        ELSE UNCHANGED post /\ Collect(c, AfterError(q))
     /\ UNCHANGED <<run, workers, queue, gaveUp, results, asks, errors, stops>>

\* The ticker mentions are committed, so the row is read again; with no match
\* nothing is committed and what was read stays.  queue_stored_text passes over
\* a post that is queued, being analysed or analysed.
Link(c) ==
  LET q    == collectors[c]
      seen == IF q.kind = "discussion" /\ post[q.post].matched
              THEN post[q.post].status ELSE q.seen
  IN /\ CollectorIs(c, "linking")
     /\ Collect(c, IF seen \in QueuedOrDone THEN Onward(q)
                                            ELSE [q EXCEPT !.pc = "sending"])
     /\ UNCHANGED <<post, run, workers, queue, gaveUp, results, asks, errors, stops>>

Send(c) ==
  LET q == collectors[c]
  IN /\ CollectorIs(c, "sending")
     /\ Room(Text(q.post)) /\ Put(Text(q.post))
     /\ Collect(c, [q EXCEPT !.pc = "marking"])
     /\ UNCHANGED <<post, run, workers, gaveUp, results, asks, errors, stops>>

\* Mutant: a status the column does not take.
MarkedSent(p) == SetStatus(p, "sent")
\* Mutant: marked whatever its analysis has come to.
MarkedAnyway(p) == SetStatus(p, "queued")
\* mark_inline_artifact_analysis_queued.
MarkedQueued(p) == IF post[p].status \in QueuedOrDone THEN UNCHANGED post
                                                      ELSE SetStatus(p, "queued")
Mark(c) ==
  /\ CollectorIs(c, "marking")
  /\ MarkedQueued(collectors[c].post)
  /\ Collect(c, Onward(collectors[c]))
  /\ UNCHANGED <<run, workers, queue, gaveUp, results, asks, errors, stops>>

\* A call of the collection fails: the source, the database or the queue.  A
\* send that failed may have put the message in the queue all the same.
CollectError(c) ==
  LET q == collectors[c]
  IN /\ q.pc \in {"looking", "inserting", "linking", "sending", "marking"}
     /\ q.pc = "looking" => q.kind = "discussion"
     /\ Errs
     /\ \/ UNCHANGED queue
        \/ q.pc = "sending" /\ Room(Text(q.post)) /\ Put(Text(q.post))
     /\ Collect(c, AfterError(q))
     /\ UNCHANGED <<post, run, workers, gaveUp, results, asks, stops>>

\* mark_public_discussion_run_completed and _failed, whatever the run is by then.
CompleteRun(c) ==
  LET q == collectors[c]
  IN /\ CollectorIs(c, "looking") /\ q.left = {} /\ q.kind = "discussion"
     /\ SetRun(q.key, IF q.malformed THEN "partial" ELSE "completed")
     /\ Collect(c, Idle)
     /\ UNCHANGED <<post, workers, queue, gaveUp, results, asks, errors, stops>>
FailRun(c) ==
  /\ CollectorIs(c, "failing")
  /\ SetRun(collectors[c].key, "failed")
  /\ Collect(c, Idle)
  /\ UNCHANGED <<post, workers, queue, gaveUp, results, asks, errors, stops>>

StopCollector(c) ==
  /\ collectors[c].pc # "idle" /\ Stops
  /\ Collect(c, Idle)
  /\ UNCHANGED <<post, run, workers, queue, gaveUp, results, asks, errors>>

-----------------------------------------------------------------------------
(* The analysis queue *)

\* request_summary and request_ticker_summaries.
RequestSummary(p) ==
  /\ post[p].status # "absent" /\ Room(SummaryOf(p)) /\ asks < MaxAsks
  /\ Put(SummaryOf(p))
  /\ asks' = asks + 1
  /\ UNCHANGED <<post, run, collectors, workers, gaveUp, results, errors, stops>>

Receive(w, m) ==
  /\ WorkerIs(w, "idle") /\ NextWorker(w) /\ queue[m] > 0 /\ m.receives < MaxReceives
  /\ queue' = [queue EXCEPT ![m] = @ - 1]
  /\ Work(w, [Resting EXCEPT !.pc = "received",
                             !.msg = [m EXCEPT !.receives = @ + 1]])
  /\ UNCHANGED <<post, run, collectors, gaveUp, results, asks, errors, stops>>

\* Mutant: it is deleted.
Deleted(m) == UNCHANGED <<queue, gaveUp>>
\* What becomes of a message that was not acknowledged.
Returned(m) ==
  IF m.receives < MaxReceives THEN Put(m) /\ UNCHANGED gaveUp
  ELSE /\ gaveUp' = IF m.kind = "text" THEN gaveUp \cup {m.post} ELSE gaveUp
       /\ UNCHANGED queue

StopWorker(w) ==
  /\ ~WorkerIs(w, "idle") /\ Stops
  /\ Returned(workers[w].msg)
  /\ Work(w, Resting)
  /\ UNCHANGED <<post, run, collectors, results, asks, errors>>

Redrive(p) ==
  /\ p \in gaveUp /\ Room(Text(p)) /\ asks < MaxAsks
  /\ Put(Text(p))
  /\ gaveUp' = gaveUp \ {p}
  /\ asks' = asks + 1
  /\ UNCHANGED <<post, run, collectors, workers, results, errors, stops>>

-----------------------------------------------------------------------------
(* analyse_stored_text *)

Of(w) == workers[w].msg.post
\* A step of worker w on its message that changes only its own state.
Privately(w, q) ==
  /\ Work(w, q)
  /\ UNCHANGED <<post, run, collectors, queue, gaveUp, results, asks, errors, stops>>

\* The facts are read in a session of their own.  A completed artifact is a
\* duplicate: its message is acknowledged.
ReadFacts(w) ==
  LET row == post[Of(w)]
  IN /\ WorkerIs(w, "received") /\ workers[w].msg.kind = "text"
     /\ Privately(w, IF row.status = "completed" THEN Resting
                     ELSE [workers[w] EXCEPT !.pc = "starting",
                                             !.decision = row.meta.decision])

\* The model decides on every text but a Reddit or Bluesky post without a match.
Asks(w) == post[Of(w)].matched \/ post[Of(w)].source # "social"
\* The saved decision, that refusal, or the model's.
Decisions(w) ==
  IF workers[w].decision # "none" THEN {workers[w].decision}
  ELSE IF Asks(w) THEN {"eligible", "excluded"} ELSE {"excluded"}

\* mark_inline_artifact_analysis_started; then the decision is taken.
Started(p) == IF post[p].status = "completed" THEN UNCHANGED post
                                              ELSE SetStatus(p, "analyzing")
Start(w) ==
  /\ WorkerIs(w, "starting")
  /\ Started(Of(w))
  /\ \E d \in Decisions(w) :
       Work(w, [workers[w] EXCEPT !.pc = "storing", !.decision = d])
  /\ UNCHANGED <<run, collectors, queue, gaveUp, results, asks, errors, stops>>

\* The language model is switched off where w runs: a note is merged into the
\* metadata as read, written back without the artifact's lock, and the message is
\* retried.  A model that is on and fails raises (Raise) and leaves no note.  A
\* container keeps the setting it started with; while a release replaces them,
\* those of two may differ.  The setting bears on nothing else: an answer that
\* has no text leaves the same behind as no answer.
CannotDecide(w) ==
  /\ WorkerIs(w, "starting")
  /\ workers[w].decision = "none" /\ Asks(w)
  /\ Started(Of(w))
  /\ Work(w, [workers[w] EXCEPT !.pc = "noting"])
  /\ UNCHANGED <<run, collectors, queue, gaveUp, results, asks, errors, stops>>
ReadNote(w) ==
  /\ WorkerIs(w, "noting")
  /\ Privately(w, [workers[w] EXCEPT !.pc = "writing", !.seen = post[Of(w)].meta])
WriteNote(w) ==
  /\ WorkerIs(w, "writing")
  /\ post' = [post EXCEPT ![Of(w)].meta = workers[w].seen]
  /\ Work(w, [workers[w] EXCEPT !.pc = "raising", !.seen = NoMetadata])
  /\ UNCHANGED <<run, collectors, queue, gaveUp, results, asks, errors, stops>>

\* The artifact once an analysis is stored: merged under its lock.  An
\* excluded text is neither scored nor summarised, and an answer without text
\* leaves the summary there was.
Analysed(row, decision, answer) ==
  LET new == IF decision = "eligible" THEN answer ELSE "none"
  IN [row EXCEPT !.meta.decision = decision,
                 !.meta.lines = IF new = "none" THEN @ ELSE new,
                 !.summary = IF new = "none" THEN @ ELSE new]

\* store_artifact_analysis: one transaction, staged once more if the sentiment
\* row was inserted beside it.
Store(w) ==
  /\ WorkerIs(w, "storing")
  /\ \E answer \in Summaries \cup {"none"} :
       post' = [post EXCEPT ![Of(w)] = Analysed(@, workers[w].decision, answer)]
  /\ results' = results \cup {Of(w)}
  /\ Work(w, [workers[w] EXCEPT !.pc = "closing", !.decision = "none"])
  /\ UNCHANGED <<run, collectors, queue, gaveUp, asks, errors, stops>>

\* mark_inline_artifact_analysis_completed; the message is acknowledged.
Close(w) ==
  /\ WorkerIs(w, "closing")
  /\ SetStatus(Of(w), "completed")
  /\ Work(w, Resting)
  /\ UNCHANGED <<run, collectors, queue, gaveUp, results, asks, errors, stops>>

\* summarise: with no answer nothing is recorded; an answer replaces both
\* stores under the artifact's lock.
Summarise(w) ==
  /\ WorkerIs(w, "received") /\ workers[w].msg.kind = "summary"
  /\ \E answer \in Summaries \cup {"none"} :
       post' = IF answer = "none" THEN post
               ELSE [post EXCEPT ![Of(w)].meta.lines = answer,
                                 ![Of(w)].summary = answer]
  /\ Work(w, Resting)
  /\ UNCHANGED <<run, collectors, queue, gaveUp, results, asks, errors, stops>>

\* Mutant: a failure may follow the completion.
FailedAnyway(m) == m.kind = "text" /\ m.receives = MaxReceives
\* Only a text's final failure is recorded, and never on a completed artifact.
Fails(m) == /\ m.kind = "text" /\ m.receives = MaxReceives
            /\ post[m.post].status # "completed"

\* run_stage: the error is recorded, then raised, so the message comes back or
\* goes to the dead-letter queue.
Raise(w) ==
  LET m == workers[w].msg
  IN /\ \/ WorkerIs(w, "raising") /\ UNCHANGED errors
        \/ workers[w].pc \in {"received", "starting", "storing", "closing"} /\ Errs
     /\ IF Fails(m) THEN SetStatus(m.post, "failed") ELSE UNCHANGED post
     /\ Returned(m)
     /\ Work(w, Resting)
     /\ UNCHANGED <<run, collectors, results, asks, stops>>

-----------------------------------------------------------------------------
(* fail_abandoned_work, a day later: nothing works on what it closes. *)

Abandoned(p) ==
  /\ \A w \in Workers : WorkerIs(w, "idle") \/ Of(w) # p
  /\ \A m \in Messages : (m.kind = "text" /\ m.post = p) => queue[m] = 0

SweepPost(p) ==
  /\ post[p].status = "analyzing" /\ Abandoned(p)
  /\ SetStatus(p, "failed")
  /\ UNCHANGED <<run, collectors, workers, queue, gaveUp, results, asks, errors, stops>>

\* Mutant: runs that never started are not looked for.
SweptRunning == {"running"}
SweptRuns == {"queued", "running"}
SweepRun(k) ==
  /\ run[k] \in SweptRuns
  /\ \A c \in Collectors : collectors[c].key # k
  /\ SetRun(k, "failed")
  /\ UNCHANGED <<post, collectors, workers, queue, gaveUp, results, asks, errors, stops>>

-----------------------------------------------------------------------------
CollectorSteps(c) ==
  \/ StartRun(c) \/ Insert(c) \/ Link(c) \/ Send(c) \/ Mark(c)
  \/ CompleteRun(c) \/ FailRun(c)
  \/ \E p \in Posts : LookUp(c, p)

WorkerSteps(w) ==
  \/ ReadFacts(w) \/ Start(w) \/ CannotDecide(w) \/ ReadNote(w) \/ WriteNote(w)
  \/ Store(w) \/ Close(w) \/ Summarise(w)
  \/ WorkerIs(w, "raising") /\ Raise(w)

Next ==
  \/ \E c \in Collectors :
       \/ \E k \in Keys : AskCollection(c, k)
       \/ AskNews(c) \/ AskRequeue(c)
       \/ CollectorSteps(c) \/ CollectError(c) \/ StopCollector(c)
  \/ \E w \in Workers :
       \/ \E m \in Messages : Receive(w, m)
       \/ WorkerSteps(w) \/ Raise(w) \/ StopWorker(w)
  \/ \E p \in Posts : RequestSummary(p) \/ Redrive(p) \/ SweepPost(p)
  \/ \E k \in Keys : SweepRun(k)

Spec == Init /\ [][Next]_vars

\* What the processes, SQS and the daily sweep do when nothing goes wrong.
Progress ==
  \/ \E c \in Collectors : CollectorSteps(c)
  \/ \E w \in Workers : WorkerSteps(w) \/ \E m \in Messages : Receive(w, m)
  \/ \E p \in Posts : SweepPost(p)
  \/ \E k \in Keys : SweepRun(k)

\* Something goes on as long as anything can; errors, stops and requests are
\* never owed.  With finitely many requests this is enough.
FairSpec == Spec /\ WF_vars(Progress)

-----------------------------------------------------------------------------
(* Properties *)

\* A run reported completed or partial has stored every well-formed post and
\* had each taken for analysis, whichever of several collections stored it.
CollectedIsTaken ==
  \A k \in Keys : run[k] \in Finished =>
    \A p \in Found("discussion") : post[p].status \notin {"absent", "pending"}

\* A post is queued or being analysed only while something will still end
\* that: a message, a worker, the sweep for what is being analysed, or the
\* message is in the dead-letter queue.  The send comes before the mark.
QueuedHasMessage ==
  \A p \in Posts : post[p].status = "queued" =>
    \/ p \in gaveUp
    \/ \E m \in Messages : m.kind = "text" /\ m.post = p /\ queue[m] > 0
    \/ \E w \in Workers : /\ ~WorkerIs(w, "idle")
                          /\ workers[w].msg.kind = "text" /\ Of(w) = p

\* Analysis of a queued text ends, unless SQS gave its message up.
TakenEnds ==
  \A p \in Posts : post[p].status \in {"queued", "analyzing"}
    ~> post[p].status \in {"completed", "failed"} \/ p \in gaveUp

\* A collection run ends, though its collector may have stopped.
RunsEnd ==
  \A k \in Keys : run[k] \in {"queued", "running"}
    ~> run[k] \in Finished \cup {"failed"}

\* What is promised of a text.
Stage(p) == CASE post[p].status = "absent"    -> "unseen"
              [] post[p].status = "failed"    -> "failed"
              [] post[p].status = "completed" -> "analysed"
              [] OTHER                        -> "kept"
Life == INSTANCE TextLife WITH stage <- [p \in Posts |-> Stage(p)]
TextKept == Life!Spec

\* "record replaces both inside the caller's transaction"
\* (app/services/artifact_summary.py:8): an artifact's metadata and its summary
\* row hold the same summary.
SummariesAgree == \A p \in Posts : post[p].meta.lines = post[p].summary
=============================================================================
