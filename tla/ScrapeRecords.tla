---------------------------- MODULE ScrapeRecords ----------------------------
(***************************************************************************)
(* The status transitions of backend/app/crud/scrape_run.py.  Each of its  *)
(* mark_... functions locks one artifact row, one scrape run row or both,  *)
(* changes them and commits, so each is a function of those rows here: an  *)
(* operator named after the transition gives the new artifact row, and the *)
(* operator of the same name with the prefix Run gives the new run row.    *)
(*                                                                         *)
(* Rows keep the columns that decide anything.  A time stamp is "null",    *)
(* "fresh", or "old": older than ABANDONED_AFTER.  Error texts, finished_at*)
(* (set exactly with a final status) and items_saved (always equal to      *)
(* items_downloaded for a scrape run) are left out.                        *)
(***************************************************************************)
EXTENDS Integers

RunStatuses == {"enqueueing", "queued", "discovering", "downloading",
                "analyzing", "completed", "partial", "failed"}
DownloadStatuses == {"pending", "downloading", "stored", "failed"}
AnalysisStatuses == {"pending", "analyzing", "completed", "failed", "skipped"}

\* RUN_ACTIVE_OR_FINISHED: a repeated request attaches to such a run.
ActiveOrFinished == {"queued", "discovering", "downloading", "analyzing",
                     "partial", "completed"}

\* RUN_DOWNSTREAM_OF_DISCOVERY: discovery may no longer move such a run.
Downstream == {"downloading", "analyzing", "partial", "completed"}

Stamps == {"null", "fresh", "old"}

\* A row that does not exist yet has the status "none".
NoRun == [status |-> "none", found |-> 0, downloaded |-> 0, analyzed |-> 0,
          failed |-> 0, queuedAt |-> "null", startedAt |-> "null"]
CreatedRun == [NoRun EXCEPT !.status = "enqueueing"]

NoArtifact(none) == [run |-> none, download |-> "none", analysis |-> "none",
                     copy |-> none, touched |-> "null"]
CreatedArtifact(r, none) == [run |-> r, download |-> "pending",
                             analysis |-> "pending", copy |-> none,
                             touched |-> "fresh"]

-----------------------------------------------------------------------------
(* Requesting a run.                                                       *)

Enqueueing(run) ==
  IF run.status = "failed" THEN [run EXCEPT !.status = "enqueueing"] ELSE run

\* Mutant: a successful send is recorded whatever a worker did meanwhile.
QueuedAlways(run) == [run EXCEPT !.status = "queued", !.queuedAt = "fresh"]

QueuedIfEnqueueing(run) ==
  IF run.status = "enqueueing"
  THEN [run EXCEPT !.status = "queued", !.queuedAt = "fresh"]
  ELSE run

-----------------------------------------------------------------------------
(* Discovery.                                                              *)

\* Mutant: only a finished run is downstream of discovery.
IsFinished(run) == run.status \in {"completed", "partial"}

\* The guard of the discovery transitions.
IsDownstream(run) == run.status \in Downstream

DiscoveryStarted(run) ==
  IF IsDownstream(run) THEN run
  ELSE [run EXCEPT !.status = "discovering",
                   !.startedAt = IF @ = "null" THEN "fresh" ELSE @]

\* Mutant: the run ends one document early.
AllButOneEnded(run) == run.found > 0 /\ run.analyzed + run.failed >= run.found - 1

\* The run ends once as many documents ended as discovery found.
AllEnded(run) == run.found > 0 /\ run.analyzed + run.failed >= run.found

FinishedIfTerminal(run) ==
  IF ~AllEnded(run) THEN run
  ELSE [run EXCEPT !.status = CASE run.analyzed = 0 -> "failed"
                                [] run.analyzed > 0 /\ run.failed > 0 -> "partial"
                                [] OTHER -> "completed"]

Larger(m, n) == IF m > n THEN m ELSE n

DiscoveryCompleted(run, queued) ==
  LET found == Larger(queued, run.found)
      next == IF found = 0 THEN "completed" ELSE "downloading"
  IN  FinishedIfTerminal(
        [run EXCEPT !.found = found,
                    !.status = IF IsDownstream(run) THEN @ ELSE next])

DiscoveryFailed(run) ==
  IF IsDownstream(run) THEN run ELSE [run EXCEPT !.status = "failed"]

-----------------------------------------------------------------------------
(* Download.                                                               *)

\* max(items_failed - 1, 0)
OneLess(n) == IF n > 0 THEN n - 1 ELSE 0

\* A failure is counted once, and is taken back when the work starts again.
Counted(run) == FinishedIfTerminal([run EXCEPT !.failed = @ + 1])
TakenBack(run, wasFailed) ==
  IF wasFailed THEN [run EXCEPT !.failed = OneLess(@)] ELSE run

DownloadStarted(art) ==
  IF art.download = "stored" THEN art ELSE [art EXCEPT !.download = "downloading"]

RunDownloadStarted(run, art) ==
  IF art.download = "stored" THEN run
  ELSE [TakenBack(run, art.download = "failed") EXCEPT
          !.status = IF @ = "completed" THEN @ ELSE "downloading"]

\* Mutant: a document whose analysis was skipped is queued for it again.
StoredAndQueued(art, sum) ==
  [art EXCEPT !.download = "stored", !.copy = sum,
              !.analysis = IF @ = "skipped" THEN "queued" ELSE @]

\* Mutant: every store, and not the first alone, asks for a new analysis.
StoredAnew(art, sum) ==
  [art EXCEPT !.download = "stored", !.copy = sum, !.analysis = "pending"]

DocumentStored(art, sum) ==
  [art EXCEPT !.download = "stored", !.copy = sum,
              !.analysis = IF @ = "skipped" THEN "pending" ELSE @]

RunDocumentStored(run, art) ==
  IF art.download = "stored" THEN run
  ELSE [TakenBack(run, art.download = "failed") EXCEPT
          !.downloaded = @ + 1, !.status = "analyzing"]

DownloadFailed(art) ==
  IF art.download = "stored" THEN art
  ELSE [art EXCEPT !.download = "failed", !.analysis = "skipped"]

\* Mutant: a download that never started is no failure.
RunDownloadFailedIfStarted(run, art) ==
  IF art.download = "downloading" THEN Counted(run) ELSE run

RunDownloadFailed(run, art) ==
  IF art.download \in {"stored", "failed"} THEN run ELSE Counted(run)

-----------------------------------------------------------------------------
(* Analysis of a stored document.                                          *)

AnalysisStarted(art) ==
  IF art.analysis = "completed" THEN art ELSE [art EXCEPT !.analysis = "analyzing"]

RunAnalysisStarted(run, art) ==
  IF art.analysis = "completed" THEN run
  ELSE [TakenBack(run, art.analysis = "failed") EXCEPT !.status = "analyzing"]

AnalysisCompleted(art) == [art EXCEPT !.analysis = "completed"]

\* Mutant: every completion counts, and not the first alone.
RunAnalysisCompletedAgain(run, art) ==
  FinishedIfTerminal([run EXCEPT !.analyzed = @ + 1])

RunAnalysisCompleted(run, art) ==
  IF art.analysis = "completed" THEN run
  ELSE FinishedIfTerminal([run EXCEPT !.analyzed = @ + 1])

AnalysisFailed(art) ==
  IF art.analysis = "completed" THEN art ELSE [art EXCEPT !.analysis = "failed"]

RunAnalysisFailed(run, art) ==
  IF art.analysis \in {"completed", "failed"} THEN run ELSE Counted(run)
==============================================================================
