----------------------- MODULE ScrapePipelineProofs -----------------------
(***************************************************************************)
(* Proofs about ScrapePipeline for any runs, documents, contents,          *)
(* containers and requests, and any number of faults.                      *)
(*                                                                         *)
(* A step touches the tables in one of five ways (Effect): it changes one  *)
(* run but not its counters, creates an artifact, applies a transition of  *)
(* crud/scrape_run to a document and its run, alerts a document that was   *)
(* read, or lets time pass.  The invariants of the tables are preserved by *)
(* each of these, so no theorem argues over all the actions but the first. *)
(***************************************************************************)
EXTENDS ScrapePipeline, FiniteSetTheorems, TLAPS

-----------------------------------------------------------------------------
(* The row transitions.                                                    *)

(* Whether a column has a value, as a number to count with. *)
One(b) == IF b THEN 1 ELSE 0

(* Finishing a run changes its status alone. *)
LEMMA FinishedRow ==
  ASSUME NEW r \in RunRow
  PROVE  /\ FinishedIfTerminal(r) \in RunRow
         /\ FinishedIfTerminal(r).found = r.found
         /\ FinishedIfTerminal(r).downloaded = r.downloaded
         /\ FinishedIfTerminal(r).analyzed = r.analyzed
         /\ FinishedIfTerminal(r).failed = r.failed
         /\ \/ FinishedIfTerminal(r).status = r.status
            \/ FinishedIfTerminal(r).status \in {"completed", "partial", "failed"}
  BY DEF FinishedIfTerminal, AllEnded, RunRow, RunStatuses

(* Counting a failure adds one to items_failed. *)
LEMMA CountedRow ==
  ASSUME NEW r \in RunRow
  PROVE  /\ Counted(r) \in RunRow
         /\ Counted(r).downloaded = r.downloaded
         /\ Counted(r).analyzed = r.analyzed
         /\ Counted(r).failed = r.failed + 1
         /\ \/ Counted(r).status = r.status
            \/ Counted(r).status \in {"completed", "partial", "failed"}
  <1> DEFINE n == [r EXCEPT !.failed = @ + 1]
  <1>1. /\ n \in RunRow /\ n.failed = r.failed + 1 /\ n.analyzed = r.analyzed
        /\ n.downloaded = r.downloaded /\ n.status = r.status
    BY DEF RunRow
  <1>2. Counted(r) = FinishedIfTerminal(n)
    BY DEF Counted
  <1> HIDE DEF n
  <1> QED BY <1>1, <1>2, FinishedRow

(* Taking a failure back subtracts at most one. *)
LEMMA TakenBackRow ==
  ASSUME NEW r \in RunRow, NEW b \in BOOLEAN
  PROVE  /\ TakenBack(r, b) \in RunRow
         /\ TakenBack(r, b).downloaded = r.downloaded
         /\ TakenBack(r, b).analyzed = r.analyzed
         /\ TakenBack(r, b).failed >= r.failed - One(b)
         /\ TakenBack(r, b).status = r.status
  BY DEF TakenBack, OneLess, RunRow, One

(* What one transition does to the two rows: the document keeps its run and
   stays known, a stored or analysed document stays so, and the counters
   follow the document's columns. *)
Follows(r, a, newR, newA) ==
  /\ newR.downloaded = r.downloaded
       + One(newA.download = "stored") - One(a.download = "stored")
  /\ newR.analyzed = r.analyzed
       + One(newA.analysis = "completed") - One(a.analysis = "completed")
  /\ newR.failed >= r.failed
       + One(newA.download = "failed") - One(a.download = "failed")
       + One(newA.analysis = "failed") - One(a.analysis = "failed")

Forward(r, newR) ==
  /\ r.status # "none" => newR.status # "none"
  /\ r.status \in Downstream =>
       newR.status \notin {"enqueueing", "queued", "discovering"}

Kept(a, newA) ==
  /\ newA.run = a.run /\ newA.download # "none"
  /\ a.download = "stored" => newA.download = "stored"
  /\ newA.analysis = "completed" => newA.download = "stored"
  /\ a.analysis = "completed" => newA.analysis = "completed"

LEMMA DownloadStartedRows ==
  ASSUME NEW r \in RunRow, NEW a \in ArtRow, a.download # "none",
         a.analysis = "completed" => a.download = "stored"
  PROVE  /\ RunDownloadStarted(r, a) \in RunRow /\ DownloadStarted(a) \in ArtRow
         /\ Kept(a, DownloadStarted(a))
         /\ Follows(r, a, RunDownloadStarted(r, a), DownloadStarted(a))
         /\ Forward(r, RunDownloadStarted(r, a))
  <1> DEFINE t == TakenBack(r, a.download = "failed")
             newR == RunDownloadStarted(r, a)
             newA == DownloadStarted(a)
  <1>1. /\ t \in RunRow /\ t.downloaded = r.downloaded
        /\ t.analyzed = r.analyzed /\ t.status = r.status
        /\ t.failed >= r.failed - One(a.download = "failed")
    BY TakenBackRow
  <1>2. newR = IF a.download = "stored" THEN r
               ELSE [t EXCEPT !.status = IF @ = "completed" THEN @ ELSE "downloading"]
    BY DEF RunDownloadStarted
  <1>3. newA = IF a.download = "stored" THEN a ELSE [a EXCEPT !.download = "downloading"]
    BY DEF DownloadStarted
  <1> HIDE DEF t, newR, newA
  <1>4. /\ newR \in RunRow
        /\ newR.downloaded = r.downloaded /\ newR.analyzed = r.analyzed
        /\ newR.failed >= r.failed - One(a.download = "failed")
        /\ newR.status \in {r.status, "downloading"}
        /\ a.download = "stored" => newR = r
    BY <1>1, <1>2 DEF RunRow, RunStatuses, One
  <1>5. /\ newA \in ArtRow /\ newA.run = a.run /\ newA.analysis = a.analysis
        /\ newA.download = IF a.download = "stored" THEN "stored" ELSE "downloading"
    BY <1>3 DEF ArtRow, DownloadStatuses
  <1>6. Kept(a, newA) /\ Forward(r, newR)
    BY <1>4, <1>5 DEF Kept, Forward, Downstream
  <1>7. r \in RunRow => r.downloaded \in Nat /\ r.analyzed \in Nat /\ r.failed \in Nat
    BY DEF RunRow
  <1>8. newR.failed \in Nat
    BY <1>4 DEF RunRow
  <1>9. Follows(r, a, newR, newA)
    BY <1>4, <1>5, <1>7, <1>8 DEF Follows, One
  <1> QED BY <1>4, <1>5, <1>6, <1>9 DEF newR, newA

LEMMA RunCounters ==
  ASSUME NEW r \in RunRow
  PROVE  r.downloaded \in Nat /\ r.analyzed \in Nat /\ r.failed \in Nat /\ r.found \in Nat
  BY DEF RunRow

LEMMA DocumentStoredRows ==
  ASSUME NEW r \in RunRow, NEW a \in ArtRow, a.download # "none",
         a.analysis = "completed" => a.download = "stored",
         NEW s \in Sums \cup {None}
  PROVE  /\ RunDocumentStored(r, a) \in RunRow /\ DocumentStored(a, s) \in ArtRow
         /\ Kept(a, DocumentStored(a, s))
         /\ Follows(r, a, RunDocumentStored(r, a), DocumentStored(a, s))
         /\ Forward(r, RunDocumentStored(r, a))
  <1> DEFINE t == TakenBack(r, a.download = "failed")
             newR == RunDocumentStored(r, a)
             newA == DocumentStored(a, s)
  <1>1. /\ t \in RunRow /\ t.downloaded = r.downloaded
        /\ t.analyzed = r.analyzed /\ t.status = r.status
        /\ t.failed >= r.failed - One(a.download = "failed")
    BY TakenBackRow
  <1>2. newR = IF a.download = "stored" THEN r
               ELSE [t EXCEPT !.downloaded = @ + 1, !.status = "analyzing"]
    BY DEF RunDocumentStored
  <1>3. newA = [a EXCEPT !.download = "stored", !.copy = s,
                         !.analysis = IF @ = "skipped" THEN "pending" ELSE @]
    BY DEF DocumentStored
  <1> HIDE DEF t, newR, newA
  <1>4. CASE a.download = "stored"
    <2>1. newR = r
      BY <1>2, <1>4
    <2>2. /\ newA \in ArtRow /\ newA.run = a.run /\ newA.download = "stored"
          /\ newA.analysis = IF a.analysis = "skipped" THEN "pending" ELSE a.analysis
      BY <1>3 DEF ArtRow, DownloadStatuses, AnalysisStatuses
    <2>3. Kept(a, newA) /\ Forward(r, newR) /\ Follows(r, a, newR, newA)
      BY <1>4, <2>1, <2>2, RunCounters DEF Kept, Forward, Follows, One, Downstream
    <2> QED BY <2>1, <2>2, <2>3 DEF newR, newA
  <1>5. CASE a.download # "stored"
    <2>1. /\ newR \in RunRow
          /\ newR.downloaded = r.downloaded + 1 /\ newR.analyzed = r.analyzed
          /\ newR.failed >= r.failed - One(a.download = "failed")
          /\ newR.status = "analyzing"
      <3>1. newR = [t EXCEPT !.downloaded = t.downloaded + 1, !.status = "analyzing"]
        BY <1>2, <1>5
      <3>2. t.downloaded + 1 \in Nat
        BY <1>1, RunCounters
      <3>3. newR \in RunRow /\ newR.downloaded = t.downloaded + 1
            /\ newR.analyzed = t.analyzed /\ newR.failed = t.failed
            /\ newR.status = "analyzing"
        BY <1>1, <3>1, <3>2 DEF RunRow, RunStatuses
      <3> QED BY <1>1, <3>3
    <2>2. /\ newA \in ArtRow /\ newA.run = a.run /\ newA.download = "stored"
          /\ newA.analysis = IF a.analysis = "skipped" THEN "pending" ELSE a.analysis
      BY <1>3 DEF ArtRow, DownloadStatuses, AnalysisStatuses
    <2>3. Kept(a, newA) /\ Forward(r, newR)
      BY <1>5, <2>1, <2>2 DEF Kept, Forward
    <2>4. newR.failed \in Nat
      BY <2>1, RunCounters
    <2>5. Follows(r, a, newR, newA)
      BY <1>5, <2>1, <2>2, <2>4, RunCounters DEF Follows, One
    <2> QED BY <2>1, <2>2, <2>3, <2>5 DEF newR, newA
  <1> QED BY <1>4, <1>5

LEMMA DownloadFailedRows ==
  ASSUME NEW r \in RunRow, NEW a \in ArtRow, a.download # "none",
         a.analysis = "completed" => a.download = "stored"
  PROVE  /\ RunDownloadFailed(r, a) \in RunRow /\ DownloadFailed(a) \in ArtRow
         /\ Kept(a, DownloadFailed(a))
         /\ Follows(r, a, RunDownloadFailed(r, a), DownloadFailed(a))
         /\ Forward(r, RunDownloadFailed(r, a))
  <1> DEFINE newR == RunDownloadFailed(r, a)
             newA == DownloadFailed(a)
  <1>1. newR = IF a.download \in {"stored", "failed"} THEN r ELSE Counted(r)
    BY DEF RunDownloadFailed
  <1>2. newA = IF a.download = "stored" THEN a
               ELSE [a EXCEPT !.download = "failed", !.analysis = "skipped"]
    BY DEF DownloadFailed
  <1> HIDE DEF newR, newA
  <1>3. /\ newR \in RunRow
        /\ newR.downloaded = r.downloaded /\ newR.analyzed = r.analyzed
        /\ newR.failed = r.failed + IF a.download \in {"stored", "failed"} THEN 0 ELSE 1
        /\ newR.status \in {r.status, "completed", "partial", "failed"}
    BY <1>1, CountedRow, RunCounters
  <1>4. /\ newA \in ArtRow /\ newA.run = a.run
        /\ a.download = "stored" => newA = a
        /\ a.download # "stored" => newA.download = "failed" /\ newA.analysis = "skipped"
    BY <1>2 DEF ArtRow, DownloadStatuses, AnalysisStatuses
  <1>5. Kept(a, newA) /\ Forward(r, newR)
    BY <1>3, <1>4 DEF Kept, Forward, Downstream
  <1>6. Follows(r, a, newR, newA)
    BY <1>3, <1>4, RunCounters DEF Follows, One
  <1> QED BY <1>3, <1>4, <1>5, <1>6 DEF newR, newA

LEMMA AnalysisStartedRows ==
  ASSUME NEW r \in RunRow, NEW a \in ArtRow, a.download = "stored"
  PROVE  /\ RunAnalysisStarted(r, a) \in RunRow /\ AnalysisStarted(a) \in ArtRow
         /\ Kept(a, AnalysisStarted(a))
         /\ Follows(r, a, RunAnalysisStarted(r, a), AnalysisStarted(a))
         /\ Forward(r, RunAnalysisStarted(r, a))
  <1> DEFINE t == TakenBack(r, a.analysis = "failed")
             newR == RunAnalysisStarted(r, a)
             newA == AnalysisStarted(a)
  <1>1. /\ t \in RunRow /\ t.downloaded = r.downloaded
        /\ t.analyzed = r.analyzed /\ t.status = r.status
        /\ t.failed >= r.failed - One(a.analysis = "failed")
    BY TakenBackRow
  <1>2. newR = IF a.analysis = "completed" THEN r ELSE [t EXCEPT !.status = "analyzing"]
    BY DEF RunAnalysisStarted
  <1>3. newA = IF a.analysis = "completed" THEN a ELSE [a EXCEPT !.analysis = "analyzing"]
    BY DEF AnalysisStarted
  <1> HIDE DEF t, newR, newA
  <1>4. /\ newR \in RunRow
        /\ newR.downloaded = r.downloaded /\ newR.analyzed = r.analyzed
        /\ newR.failed >= r.failed - One(a.analysis = "failed")
        /\ newR.status \in {r.status, "analyzing"}
    BY <1>1, <1>2 DEF RunRow, RunStatuses, One
  <1>5. /\ newA \in ArtRow /\ newA.run = a.run /\ newA.download = "stored"
        /\ newA.analysis = IF a.analysis = "completed" THEN "completed" ELSE "analyzing"
    BY <1>3 DEF ArtRow, AnalysisStatuses
  <1>6. Kept(a, newA) /\ Forward(r, newR)
    BY <1>4, <1>5 DEF Kept, Forward, Downstream
  <1>7. newR.failed \in Nat
    BY <1>4, RunCounters
  <1>8. Follows(r, a, newR, newA)
    BY <1>4, <1>5, <1>7, RunCounters DEF Follows, One
  <1> QED BY <1>4, <1>5, <1>6, <1>8 DEF newR, newA

LEMMA AnalysisCompletedRows ==
  ASSUME NEW r \in RunRow, NEW a \in ArtRow, a.download = "stored"
  PROVE  /\ RunAnalysisCompleted(r, a) \in RunRow /\ AnalysisCompleted(a) \in ArtRow
         /\ Kept(a, AnalysisCompleted(a))
         /\ Follows(r, a, RunAnalysisCompleted(r, a), AnalysisCompleted(a))
         /\ Forward(r, RunAnalysisCompleted(r, a))
  <1> DEFINE n == [r EXCEPT !.analyzed = @ + 1]
             newR == RunAnalysisCompleted(r, a)
             newA == AnalysisCompleted(a)
  <1>1. /\ n \in RunRow /\ n.downloaded = r.downloaded /\ n.failed = r.failed
        /\ n.analyzed = r.analyzed + 1 /\ n.status = r.status
    BY DEF RunRow
  <1>2. newR = IF a.analysis = "completed" THEN r ELSE FinishedIfTerminal(n)
    BY DEF RunAnalysisCompleted
  <1>3. newA = [a EXCEPT !.analysis = "completed"]
    BY DEF AnalysisCompleted
  <1> HIDE DEF n, newR, newA
  <1>4. /\ newR \in RunRow
        /\ newR.downloaded = r.downloaded /\ newR.failed = r.failed
        /\ newR.analyzed = r.analyzed + IF a.analysis = "completed" THEN 0 ELSE 1
        /\ newR.status \in {r.status, "completed", "partial", "failed"}
    BY <1>1, <1>2, FinishedRow, RunCounters
  <1>5. /\ newA \in ArtRow /\ newA.run = a.run /\ newA.download = "stored"
        /\ newA.analysis = "completed"
    BY <1>3 DEF ArtRow, AnalysisStatuses
  <1>6. Kept(a, newA) /\ Forward(r, newR)
    BY <1>4, <1>5 DEF Kept, Forward, Downstream
  <1>7. Follows(r, a, newR, newA)
    BY <1>4, <1>5, RunCounters DEF Follows, One
  <1> QED BY <1>4, <1>5, <1>6, <1>7 DEF newR, newA

LEMMA AnalysisFailedRows ==
  ASSUME NEW r \in RunRow, NEW a \in ArtRow, a.download # "none",
         a.analysis = "completed" => a.download = "stored"
  PROVE  /\ RunAnalysisFailed(r, a) \in RunRow /\ AnalysisFailed(a) \in ArtRow
         /\ Kept(a, AnalysisFailed(a))
         /\ Follows(r, a, RunAnalysisFailed(r, a), AnalysisFailed(a))
         /\ Forward(r, RunAnalysisFailed(r, a))
  <1> DEFINE newR == RunAnalysisFailed(r, a)
             newA == AnalysisFailed(a)
  <1>1. newR = IF a.analysis \in {"completed", "failed"} THEN r ELSE Counted(r)
    BY DEF RunAnalysisFailed
  <1>2. newA = IF a.analysis = "completed" THEN a ELSE [a EXCEPT !.analysis = "failed"]
    BY DEF AnalysisFailed
  <1> HIDE DEF newR, newA
  <1>3. /\ newR \in RunRow
        /\ newR.downloaded = r.downloaded /\ newR.analyzed = r.analyzed
        /\ newR.failed = r.failed + IF a.analysis \in {"completed", "failed"} THEN 0 ELSE 1
        /\ newR.status \in {r.status, "completed", "partial", "failed"}
    BY <1>1, CountedRow, RunCounters
  <1>4. /\ newA \in ArtRow /\ newA.run = a.run /\ newA.download = a.download
        /\ newA.analysis = IF a.analysis = "completed" THEN "completed" ELSE "failed"
    BY <1>2 DEF ArtRow, AnalysisStatuses
  <1>5. Kept(a, newA) /\ Forward(r, newR)
    BY <1>3, <1>4 DEF Kept, Forward, Downstream
  <1>6. Follows(r, a, newR, newA)
    BY <1>3, <1>4, RunCounters DEF Follows, One
  <1> QED BY <1>3, <1>4, <1>5, <1>6 DEF newR, newA

(* A transition of a document and its run, as one transaction commits it.
   Only the analysis of a stored document is started and completed. *)
Transition(r, a, newR, newA) ==
  \/ newR = RunDownloadStarted(r, a) /\ newA = DownloadStarted(a)
  \/ \E s \in Sums \cup {None} :
       newR = RunDocumentStored(r, a) /\ newA = DocumentStored(a, s)
  \/ newR = RunDownloadFailed(r, a) /\ newA = DownloadFailed(a)
  \/ /\ a.download = "stored"
     /\ newR = RunAnalysisStarted(r, a) /\ newA = AnalysisStarted(a)
  \/ /\ a.download = "stored"
     /\ newR = RunAnalysisCompleted(r, a) /\ newA = AnalysisCompleted(a)
  \/ newR = RunAnalysisFailed(r, a) /\ newA = AnalysisFailed(a)

LEMMA TransitionRows ==
  ASSUME NEW r \in RunRow, NEW a \in ArtRow, a.download # "none",
         a.analysis = "completed" => a.download = "stored",
         NEW newR, NEW newA, Transition(r, a, newR, newA)
  PROVE  /\ newR \in RunRow /\ newA \in ArtRow
         /\ Kept(a, newA) /\ Follows(r, a, newR, newA) /\ Forward(r, newR)
  BY DownloadStartedRows, DocumentStoredRows, DownloadFailedRows,
     AnalysisStartedRows, AnalysisCompletedRows, AnalysisFailedRows
     DEF Transition

(* The transitions of a run alone keep its counters. *)
Alone(r, newR) ==
  /\ newR \in RunRow
  /\ newR.downloaded = r.downloaded /\ newR.analyzed = r.analyzed
  /\ newR.failed = r.failed
  /\ Forward(r, newR)
  /\ newR.status = "none" => newR = r

LEMMA RunAlone ==
  ASSUME NEW r \in RunRow, r.status # "none", NEW queued \in Nat
  PROVE  /\ Alone(r, r) /\ Alone(r, Enqueueing(r)) /\ Alone(r, QueuedIfEnqueueing(r))
         /\ Alone(r, DiscoveryStarted(r)) /\ Alone(r, DiscoveryFailed(r))
         /\ Alone(r, DiscoveryCompleted(r, queued))
  <1>1. Alone(r, r)
    BY DEF Alone, Forward, Downstream
  <1>2. Alone(r, Enqueueing(r))
    BY DEF Alone, Forward, Downstream, Enqueueing, RunRow, RunStatuses
  <1>3. Alone(r, QueuedIfEnqueueing(r))
    BY DEF Alone, Forward, Downstream, QueuedIfEnqueueing, RunRow, RunStatuses, Stamps
  <1>4. Alone(r, DiscoveryStarted(r))
    BY DEF Alone, Forward, Downstream, DiscoveryStarted, IsDownstream, RunRow,
           RunStatuses, Stamps
  <1>5. Alone(r, DiscoveryFailed(r))
    BY DEF Alone, Forward, Downstream, DiscoveryFailed, IsDownstream, RunRow, RunStatuses
  <1>6. Alone(r, DiscoveryCompleted(r, queued))
    <2> DEFINE found == Larger(queued, r.found)
               next == IF found = 0 THEN "completed" ELSE "downloading"
               n == [r EXCEPT !.found = found,
                              !.status = IF IsDownstream(r) THEN @ ELSE next]
    <2>1. found \in Nat
      BY RunCounters DEF Larger
    <2>2. next \in {"completed", "downloading"}
      OBVIOUS
    <2> HIDE DEF found, next
    <2>3. /\ n \in RunRow /\ n.downloaded = r.downloaded
          /\ n.analyzed = r.analyzed /\ n.failed = r.failed
          /\ n.status = IF r.status \in Downstream THEN r.status ELSE next
      BY <2>1, <2>2 DEF RunRow, RunStatuses, IsDownstream
    <2>4. DiscoveryCompleted(r, queued) = FinishedIfTerminal(n)
      BY DEF DiscoveryCompleted, found, next
    <2> HIDE DEF n
    <2> QED BY <2>2, <2>3, <2>4, FinishedRow DEF Alone, Forward, Downstream
  <1> QED BY <1>1, <1>2, <1>3, <1>4, <1>5, <1>6

-----------------------------------------------------------------------------
(* The tables, and the ways a step changes them.                           *)

Known(d) == art[d].download # "none"
KnownRun(r) == run[r].status # "none"

(* A known document belongs to a known run, and only a stored document has a
   completed analysis. *)
RowOK(d) ==
  /\ IF Known(d) THEN art[d].run \in Runs /\ KnownRun(art[d].run)
                 ELSE art[d].run = None /\ art[d].analysis = "none"
  /\ art[d].analysis = "completed" => art[d].download = "stored"

Tables ==
  /\ run \in [Runs -> RunRow] /\ art \in [Docs -> ArtRow]
  /\ \A r \in Runs : ~KnownRun(r) => run[r] = NoRun
  /\ \A d \in Docs : RowOK(d)

RunMoves ==
  /\ \E r \in Runs, newR \in RunRow :
       run' = [run EXCEPT ![r] = newR] /\ Alone(run[r], newR)
  /\ UNCHANGED <<art, alerted>>

Created ==
  /\ \E d \in Docs, r \in Runs :
       /\ ~Known(d) /\ KnownRun(r)
       /\ art' = [art EXCEPT ![d] = CreatedArtifact(r, None)]
  /\ UNCHANGED <<run, alerted>>

Committed ==
  /\ \E d \in Docs : \E newR, newA :
       /\ Known(d) /\ Transition(RunOf(d), art[d], newR, newA)
       /\ Commit(d, newR, newA)
  /\ UNCHANGED alerted

Alerted ==
  /\ UNCHANGED <<run, art>>
  /\ \/ UNCHANGED alerted
     \/ \E d \in Docs : /\ art[d].analysis = "completed"
                        /\ alerted' = alerted \cup {d}

DayPasses ==
  /\ \E d \in Docs : DocQuiet(d) /\ art' = [art EXCEPT ![d].touched = Aged(@)]
  /\ UNCHANGED <<run, alerted>>

Effect == RunMoves \/ Created \/ Committed \/ Alerted \/ DayPasses

(* What a commit does to the document, to its run and to all other rows. *)
LEMMA CommitRows ==
  ASSUME Tables, NEW d \in Docs, Known(d), NEW newR, NEW newA,
         Transition(RunOf(d), art[d], newR, newA), Commit(d, newR, newA)
  PROVE  /\ run' \in [Runs -> RunRow] /\ art' \in [Docs -> ArtRow]
         /\ \A r \in Runs \ {art[d].run} : run'[r] = run[r]
         /\ \A e \in Docs \ {d} : art'[e] = art[e]
         /\ Kept(art[d], art'[d]) /\ Forward(RunOf(d), run'[art[d].run])
         /\ Follows(RunOf(d), art[d], run'[art[d].run], art'[d])
  <1> DEFINE a == art[d]
             r == run[a.run]
             t == Touched(a, newA)
  <1>1. a.run \in Runs /\ a \in ArtRow /\ r \in RunRow /\ a.download # "none"
        /\ (a.analysis = "completed" => a.download = "stored")
    BY DEF Tables, RowOK, Known
  <1>2. /\ newR \in RunRow /\ newA \in ArtRow
        /\ Kept(a, newA) /\ Follows(r, a, newR, newA) /\ Forward(r, newR)
    <2>1. Transition(r, a, newR, newA)
      BY DEF RunOf
    <2> HIDE DEF a, r
    <2> QED BY <1>1, <2>1, TransitionRows
  <1>3. /\ t \in ArtRow /\ t.run = newA.run /\ t.download = newA.download
        /\ t.analysis = newA.analysis
    <2> HIDE DEF a
    <2> QED BY <1>1, <1>2 DEF Touched, ArtRow, Stamps
  <1>4. run' = [run EXCEPT ![a.run] = newR] /\ art' = [art EXCEPT ![d] = t]
    BY DEF Commit
  <1>5. /\ run' \in [Runs -> RunRow] /\ run'[a.run] = newR
        /\ \A x \in Runs \ {a.run} : run'[x] = run[x]
    <2> HIDE DEF a
    <2> QED BY <1>1, <1>2, <1>4 DEF Tables
  <1>6. /\ art' \in [Docs -> ArtRow] /\ art'[d] = t
        /\ \A e \in Docs \ {d} : art'[e] = art[e]
    <2> HIDE DEF t
    <2> QED BY <1>3, <1>4 DEF Tables
  <1>7. Kept(a, t) /\ Follows(r, a, newR, t)
    <2> HIDE DEF a, r, t
    <2> QED BY <1>2, <1>3 DEF Kept, Follows
  <1> QED BY <1>2, <1>5, <1>6, <1>7 DEF RunOf

(* What was known stays known, with its run; what was stored stays stored. *)
Grows ==
  /\ \A d \in Docs : Known(d) => Kept(art[d], art'[d])
  /\ \A r \in Runs : Forward(run[r], run'[r])

LEMMA TablesKept ==
  ASSUME Tables, Effect
  PROVE  Tables' /\ Grows
  <1> SUFFICES Tables' /\ Grows
    OBVIOUS
  <1>0. \A r \in RunRow : Forward(r, r)
    BY DEF Forward, Downstream
  <1>1. \A a \in ArtRow : a.download # "none"
          /\ (a.analysis = "completed" => a.download = "stored") => Kept(a, a)
    BY DEF Kept
  <1>2. CASE RunMoves
    <2>1. PICK r \in Runs, newR \in RunRow :
            run' = [run EXCEPT ![r] = newR] /\ Alone(run[r], newR)
      BY <1>2 DEF RunMoves
    <2>2. art' = art
      BY <1>2 DEF RunMoves
    <2>3. /\ run' \in [Runs -> RunRow] /\ run'[r] = newR
          /\ \A x \in Runs \ {r} : run'[x] = run[x]
      BY <2>1 DEF Tables
    <2>4. \A x \in Runs : KnownRun(x) => KnownRun(x)'
      BY <2>1, <2>3 DEF KnownRun, Alone, Forward
    <2>5. \A x \in Runs : ~KnownRun(x)' => run'[x] = NoRun
      BY <2>1, <2>3, <2>4 DEF KnownRun, Alone, Tables
    <2>6. \A d \in Docs : RowOK(d)'
      BY <2>2, <2>4 DEF Tables, RowOK, Known
    <2>7. Grows
      BY <1>0, <1>1, <2>1, <2>2, <2>3 DEF Grows, Alone, Tables, RowOK, Known
    <2> QED BY <2>2, <2>3, <2>5, <2>6, <2>7 DEF Tables
  <1>3. CASE Created
    <2>1. PICK d \in Docs, r \in Runs :
            /\ ~Known(d) /\ KnownRun(r)
            /\ art' = [art EXCEPT ![d] = CreatedArtifact(r, None)]
      BY <1>3 DEF Created
    <2>2. run' = run
      BY <1>3 DEF Created
    <2>3. /\ CreatedArtifact(r, None) \in ArtRow
          /\ CreatedArtifact(r, None).run = r
          /\ CreatedArtifact(r, None).download = "pending"
          /\ CreatedArtifact(r, None).analysis = "pending"
      BY DEF CreatedArtifact, ArtRow, DownloadStatuses, AnalysisStatuses, Stamps
    <2>4. /\ art' \in [Docs -> ArtRow] /\ art'[d] = CreatedArtifact(r, None)
          /\ \A e \in Docs \ {d} : art'[e] = art[e]
      BY <2>1, <2>3 DEF Tables
    <2>5. \A e \in Docs : RowOK(e)'
      BY <2>1, <2>2, <2>3, <2>4 DEF Tables, RowOK, Known, KnownRun
    <2>6. Grows
      BY <1>0, <1>1, <2>1, <2>2, <2>4 DEF Grows, Tables, RowOK, Known
    <2> QED BY <2>2, <2>4, <2>5, <2>6 DEF Tables, KnownRun
  <1>4. CASE Committed
    <2>1. PICK d \in Docs : \E newR, newA :
            /\ Known(d) /\ Transition(RunOf(d), art[d], newR, newA)
            /\ Commit(d, newR, newA)
      BY <1>4 DEF Committed
    <2>2. PICK newR, newA :
            /\ Known(d) /\ Transition(RunOf(d), art[d], newR, newA)
            /\ Commit(d, newR, newA)
      BY <2>1
    <2>3. /\ run' \in [Runs -> RunRow] /\ art' \in [Docs -> ArtRow]
          /\ \A r \in Runs \ {art[d].run} : run'[r] = run[r]
          /\ \A e \in Docs \ {d} : art'[e] = art[e]
          /\ Kept(art[d], art'[d]) /\ Forward(run[art[d].run], run'[art[d].run])
      BY <2>2, CommitRows DEF RunOf
    <2>4. art[d].run \in Runs /\ KnownRun(art[d].run)
      BY <2>2 DEF Tables, RowOK
    <2>5. \A r \in Runs : Forward(run[r], run'[r])
      BY <1>0, <2>3 DEF Tables
    <2>6. \A r \in Runs : KnownRun(r) => KnownRun(r)'
      BY <2>5 DEF KnownRun, Forward
    <2>7. \A r \in Runs : ~KnownRun(r)' => run'[r] = NoRun
      BY <2>3, <2>4, <2>6 DEF KnownRun, Tables
    <2>8. \A e \in Docs : Known(e) => Kept(art[e], art'[e])
      BY <1>1, <2>3 DEF Tables, RowOK, Known
    <2>9. \A e \in Docs : RowOK(e)'
      BY <2>2, <2>3, <2>4, <2>6, <2>8 DEF Tables, RowOK, Known, Kept
    <2> QED BY <2>3, <2>5, <2>7, <2>8, <2>9 DEF Tables, Grows
  <1>5. CASE Alerted
    BY <1>0, <1>1, <1>5 DEF Alerted, Tables, Grows, RowOK, Known, KnownRun
  <1>6. CASE DayPasses
    <2>1. PICK d \in Docs : art' = [art EXCEPT ![d].touched = Aged(@)]
      BY <1>6 DEF DayPasses
    <2>2. run' = run
      BY <1>6 DEF DayPasses
    <2>3. /\ art' \in [Docs -> ArtRow] /\ art'[d].run = art[d].run
          /\ art'[d].download = art[d].download
          /\ art'[d].analysis = art[d].analysis
          /\ \A e \in Docs \ {d} : art'[e] = art[e]
      BY <2>1 DEF Tables, ArtRow, Aged, Stamps
    <2>4. \A e \in Docs : RowOK(e)'
      BY <2>2, <2>3 DEF Tables, RowOK, Known, KnownRun
    <2>5. Grows
      BY <1>0, <2>2, <2>3, <2>4 DEF Grows, Tables, RowOK, Known, Kept
    <2> QED BY <2>2, <2>3, <2>4, <2>5 DEF Tables, KnownRun
  <1> QED BY <1>2, <1>3, <1>4, <1>5, <1>6 DEF Effect

-----------------------------------------------------------------------------
(* The counters.                                                           *)

LEMMA OneDiffers ==
  ASSUME NEW S, NEW T, S \subseteq Docs, T \subseteq Docs, NEW d, S \ {d} = T \ {d}
  PROVE  /\ Cardinality(S) \in Nat /\ Cardinality(T) \in Nat
         /\ Cardinality(T) = Cardinality(S) + One(d \in T) - One(d \in S)
  <1>1. IsFiniteSet(S) /\ IsFiniteSet(T)
    BY DocsAssumption, FS_Subset
  <1>2. Cardinality(S) \in Nat /\ Cardinality(T) \in Nat
    BY <1>1, FS_CardinalityType
  <1>3. /\ Cardinality(S \ {d}) = IF d \in S THEN Cardinality(S) - 1 ELSE Cardinality(S)
        /\ Cardinality(T \ {d}) = IF d \in T THEN Cardinality(T) - 1 ELSE Cardinality(T)
    BY <1>1, FS_RemoveElement
  <1>4. S \ {d} = T \ {d}
    OBVIOUS
  <1>5. Cardinality(S \ {d}) = Cardinality(T \ {d})
    BY <1>4
  <1>6. Cardinality(T) - One(d \in T) = Cardinality(S) - One(d \in S)
    <2> DEFINE s == Cardinality(S)
               t == Cardinality(T)
    <2>1. (IF d \in S THEN s - 1 ELSE s) = (IF d \in T THEN t - 1 ELSE t)
      BY <1>3, <1>5
    <2>2. s \in Nat /\ t \in Nat
      BY <1>2
    <2> HIDE DEF s, t
    <2>3. t - One(d \in T) = s - One(d \in S)
      BY <2>1, <2>2 DEF One
    <2> QED BY <2>3 DEF s, t
  <1>7. One(d \in T) \in Int /\ One(d \in S) \in Int
    BY DEF One
  <1> QED BY <1>2, <1>6, <1>7

(* The counters of a run agree with its documents. *)
CountsAgree(r) ==
  /\ run[r].downloaded = Cardinality(StoredOf(r))
  /\ run[r].analyzed = Cardinality(AnalyzedOf(r))
  /\ run[r].failed >= Cardinality(UnfetchedOf(r)) + Cardinality(UnreadOf(r))

LEMMA CountsKept ==
  ASSUME Tables, Effect, \A r \in Runs : CountsAgree(r), NEW r \in Runs
  PROVE  CountsAgree(r)'
  <1> USE DEF Of, StoredOf, AnalyzedOf, UnfetchedOf, UnreadOf
  <1>1. CASE RunMoves
    <2>1. PICK x \in Runs, newR \in RunRow :
            run' = [run EXCEPT ![x] = newR] /\ Alone(run[x], newR)
      BY <1>1 DEF RunMoves
    <2>2. art' = art
      BY <1>1 DEF RunMoves
    <2>3. /\ run'[r].downloaded = run[r].downloaded
          /\ run'[r].analyzed = run[r].analyzed /\ run'[r].failed = run[r].failed
      BY <2>1 DEF Alone, Tables
    <2> QED BY <2>2, <2>3 DEF CountsAgree
  <1>2. CASE Created
    <2>1. PICK d \in Docs, x \in Runs :
            ~Known(d) /\ art' = [art EXCEPT ![d] = CreatedArtifact(x, None)]
      BY <1>2 DEF Created
    <2>2. run' = run
      BY <1>2 DEF Created
    <2>3. /\ \A e \in Docs \ {d} : art'[e] = art[e]
          /\ art'[d].download = "pending" /\ art'[d].analysis = "pending"
          /\ art[d].download = "none" /\ art[d].analysis = "none"
      BY <2>1 DEF Tables, RowOK, Known, CreatedArtifact
    <2>4. /\ StoredOf(r)' = StoredOf(r) /\ AnalyzedOf(r)' = AnalyzedOf(r)
          /\ UnfetchedOf(r)' = UnfetchedOf(r) /\ UnreadOf(r)' = UnreadOf(r)
      BY <2>3
    <2> HIDE DEF Of, StoredOf, AnalyzedOf, UnfetchedOf, UnreadOf
    <2> QED BY <2>2, <2>4 DEF CountsAgree
  <1>3. CASE Committed
    <2>1. PICK d \in Docs : \E newR, newA :
            /\ Known(d) /\ Transition(RunOf(d), art[d], newR, newA)
            /\ Commit(d, newR, newA)
      BY <1>3 DEF Committed
    <2>2. /\ run' \in [Runs -> RunRow] /\ art' \in [Docs -> ArtRow]
          /\ \A x \in Runs \ {art[d].run} : run'[x] = run[x]
          /\ \A e \in Docs \ {d} : art'[e] = art[e]
          /\ Kept(art[d], art'[d])
          /\ Follows(run[art[d].run], art[d], run'[art[d].run], art'[d])
      BY <2>1, CommitRows DEF RunOf
    <2>3. art'[d].run = art[d].run
      BY <2>2 DEF Kept
    <2>4. CASE r # art[d].run
      <3>1. run'[r] = run[r]
        BY <2>2, <2>4
      <3>2. /\ StoredOf(r)' = StoredOf(r) /\ AnalyzedOf(r)' = AnalyzedOf(r)
            /\ UnfetchedOf(r)' = UnfetchedOf(r) /\ UnreadOf(r)' = UnreadOf(r)
        BY <2>2, <2>3, <2>4
      <3> HIDE DEF Of, StoredOf, AnalyzedOf, UnfetchedOf, UnreadOf
      <3> QED BY <3>1, <3>2 DEF CountsAgree
    <2>5. CASE r = art[d].run
      <3>1. /\ StoredOf(r) \subseteq Docs /\ StoredOf(r)' \subseteq Docs
            /\ StoredOf(r) \ {d} = StoredOf(r)' \ {d}
            /\ d \in StoredOf(r) <=> art[d].download = "stored"
            /\ d \in StoredOf(r)' <=> art'[d].download = "stored"
        BY <2>2, <2>3, <2>5
      <3>2. /\ AnalyzedOf(r) \subseteq Docs /\ AnalyzedOf(r)' \subseteq Docs
            /\ AnalyzedOf(r) \ {d} = AnalyzedOf(r)' \ {d}
            /\ d \in AnalyzedOf(r) <=> art[d].analysis = "completed"
            /\ d \in AnalyzedOf(r)' <=> art'[d].analysis = "completed"
        BY <2>2, <2>3, <2>5
      <3>3. /\ UnfetchedOf(r) \subseteq Docs /\ UnfetchedOf(r)' \subseteq Docs
            /\ UnfetchedOf(r) \ {d} = UnfetchedOf(r)' \ {d}
            /\ d \in UnfetchedOf(r) <=> art[d].download = "failed"
            /\ d \in UnfetchedOf(r)' <=> art'[d].download = "failed"
        BY <2>2, <2>3, <2>5
      <3>4. /\ UnreadOf(r) \subseteq Docs /\ UnreadOf(r)' \subseteq Docs
            /\ UnreadOf(r) \ {d} = UnreadOf(r)' \ {d}
            /\ d \in UnreadOf(r) <=> art[d].analysis = "failed"
            /\ d \in UnreadOf(r)' <=> art'[d].analysis = "failed"
        BY <2>2, <2>3, <2>5
      <3> HIDE DEF Of, StoredOf, AnalyzedOf, UnfetchedOf, UnreadOf
      <3>5. Cardinality(StoredOf(r)') = Cardinality(StoredOf(r))
              + One(art'[d].download = "stored") - One(art[d].download = "stored")
        BY <3>1, OneDiffers DEF One
      <3>6. Cardinality(AnalyzedOf(r)') = Cardinality(AnalyzedOf(r))
              + One(art'[d].analysis = "completed") - One(art[d].analysis = "completed")
        BY <3>2, OneDiffers DEF One
      <3>7. Cardinality(UnfetchedOf(r)') = Cardinality(UnfetchedOf(r))
              + One(art'[d].download = "failed") - One(art[d].download = "failed")
        BY <3>3, OneDiffers DEF One
      <3>8. Cardinality(UnreadOf(r)') = Cardinality(UnreadOf(r))
              + One(art'[d].analysis = "failed") - One(art[d].analysis = "failed")
        BY <3>4, OneDiffers DEF One
      <3>9. /\ Cardinality(UnfetchedOf(r)) \in Nat /\ Cardinality(UnreadOf(r)) \in Nat
            /\ Cardinality(StoredOf(r)) \in Nat /\ Cardinality(AnalyzedOf(r)) \in Nat
        BY <3>1, <3>2, <3>3, <3>4, OneDiffers
      <3>10. run[r] \in RunRow /\ run'[r] \in RunRow
        BY <2>2 DEF Tables
      <3>11. run'[r].failed \in Nat /\ run[r].failed \in Nat
        BY <3>10, RunCounters
      <3>12. CountsAgree(r) /\ Follows(run[r], art[d], run'[r], art'[d])
        BY <2>2, <2>5
      <3>13. /\ run'[r].downloaded = Cardinality(StoredOf(r)')
             /\ run'[r].analyzed = Cardinality(AnalyzedOf(r)')
        BY <3>5, <3>6, <3>12 DEF CountsAgree, Follows
      <3>14. run'[r].failed >= Cardinality(UnfetchedOf(r)') + Cardinality(UnreadOf(r)')
        BY <3>7, <3>8, <3>9, <3>11, <3>12 DEF CountsAgree, Follows, One
      <3> QED BY <3>13, <3>14 DEF CountsAgree
    <2> QED BY <2>4, <2>5
  <1>4. CASE Alerted
    BY <1>4 DEF Alerted, CountsAgree
  <1>5. CASE DayPasses
    <2>1. PICK d \in Docs : art' = [art EXCEPT ![d].touched = Aged(@)]
      BY <1>5 DEF DayPasses
    <2>2. run' = run
      BY <1>5 DEF DayPasses
    <2>3. \A e \in Docs : /\ art'[e].run = art[e].run
                          /\ art'[e].download = art[e].download
                          /\ art'[e].analysis = art[e].analysis
      BY <2>1 DEF Tables, ArtRow
    <2>4. /\ StoredOf(r)' = StoredOf(r) /\ AnalyzedOf(r)' = AnalyzedOf(r)
          /\ UnfetchedOf(r)' = UnfetchedOf(r) /\ UnreadOf(r)' = UnreadOf(r)
      BY <2>3
    <2> HIDE DEF Of, StoredOf, AnalyzedOf, UnfetchedOf, UnreadOf
    <2> QED BY <2>2, <2>4 DEF CountsAgree
  <1> QED BY <1>1, <1>2, <1>3, <1>4, <1>5 DEF Effect

-----------------------------------------------------------------------------
(* The life of a document.                                                 *)

(* Stage as a function of the row. *)
StageOf(a) ==
  CASE a.download = "none" -> "unknown"
    [] a.download \in {"pending", "downloading"} -> "open"
    [] a.download = "failed" -> "unfetched"
    [] a.download = "stored" ->
         CASE a.analysis = "completed" -> "read"
           [] a.analysis = "failed" -> "unreadable"
           [] OTHER -> "kept"

StageMove(old, new) ==
  \/ new = old
  \/ old = "open" /\ new = "unfetched"
  \/ old = "unfetched" /\ new = "open"
  \/ old \in {"open", "unfetched", "unreadable"} /\ new = "kept"
  \/ old \in {"open", "unfetched", "kept"} /\ new = "unreadable"
  \/ old \in {"kept", "unreadable"} /\ new = "read"

LEMMA TransitionStages ==
  ASSUME NEW r, NEW a \in ArtRow, a.download # "none",
         a.analysis = "completed" => a.download = "stored",
         NEW newR, NEW newA, Transition(r, a, newR, newA)
  PROVE  StageMove(StageOf(a), StageOf(newA))
  <1>0. a.download \in {"pending", "downloading", "stored", "failed"}
    BY DEF ArtRow, DownloadStatuses
  <1>1. CASE newA = DownloadStarted(a)
    <2>1. newA = IF a.download = "stored" THEN a ELSE [a EXCEPT !.download = "downloading"]
      BY <1>1 DEF DownloadStarted
    <2>2. newA.download = IF a.download = "stored" THEN "stored" ELSE "downloading"
      BY <2>1 DEF ArtRow
    <2>3. CASE a.download = "stored"
      BY <2>1, <2>3 DEF StageMove
    <2>4. CASE a.download # "stored"
      BY <1>0, <2>2, <2>4 DEF StageMove, StageOf
    <2> QED BY <2>3, <2>4
  <1>2. ASSUME NEW s, newA = DocumentStored(a, s)
        PROVE  StageMove(StageOf(a), StageOf(newA))
    <2>1. /\ newA.download = "stored"
          /\ newA.analysis = IF a.analysis = "skipped" THEN "pending" ELSE a.analysis
      BY <1>2 DEF DocumentStored, ArtRow
    <2>2. CASE a.download = "stored"
      BY <2>1, <2>2 DEF StageMove, StageOf
    <2>3. CASE a.download # "stored"
      BY <1>0, <2>1, <2>3 DEF StageMove, StageOf
    <2> QED BY <2>2, <2>3
  <1>3. CASE newA = DownloadFailed(a)
    <2>1. CASE a.download = "stored"
      BY <1>3, <2>1 DEF DownloadFailed, StageMove
    <2>2. CASE a.download # "stored"
      <3>1. newA.download = "failed"
        BY <1>3, <2>2 DEF DownloadFailed, ArtRow
      <3> QED BY <1>0, <2>2, <3>1 DEF StageMove, StageOf
    <2> QED BY <2>1, <2>2
  <1>4. CASE a.download = "stored" /\ newA = AnalysisStarted(a)
    <2>1. /\ newA.download = "stored"
          /\ newA.analysis = IF a.analysis = "completed" THEN "completed" ELSE "analyzing"
      BY <1>4 DEF AnalysisStarted, ArtRow
    <2> QED BY <1>4, <2>1 DEF StageMove, StageOf
  <1>5. CASE a.download = "stored" /\ newA = AnalysisCompleted(a)
    <2>1. newA.download = "stored" /\ newA.analysis = "completed"
      BY <1>5 DEF AnalysisCompleted, ArtRow
    <2> QED BY <1>5, <2>1 DEF StageMove, StageOf
  <1>6. CASE newA = AnalysisFailed(a)
    <2>1. /\ newA.download = a.download
          /\ newA.analysis = IF a.analysis = "completed" THEN "completed" ELSE "failed"
      BY <1>6 DEF AnalysisFailed, ArtRow
    <2> QED BY <1>0, <2>1 DEF StageMove, StageOf
  <1> QED BY <1>1, <1>2, <1>3, <1>4, <1>5, <1>6 DEF Transition

stages == [d \in Docs |-> Stage(d)]
owners == [d \in Docs |-> art[d].run]

(* Every effect on the tables is a step of DocumentLife or changes nothing
   of it. *)
LEMMA LifeStep ==
  ASSUME Tables, Effect
  PROVE  Life!Next \/ UNCHANGED <<stages, owners, alerted>>
  <1>0. \A d : Stage(d) = StageOf(art[d]) /\ Stage(d)' = StageOf(art'[d])
    BY DEF Stage, StageOf
  <1>1. CASE RunMoves \/ Alerted
    <2>1. UNCHANGED art
      BY <1>1 DEF RunMoves, Alerted
    <2>2. UNCHANGED <<stages, owners>>
      BY <2>1 DEF stages, owners, Stage
    <2>3. CASE UNCHANGED alerted
      BY <2>2, <2>3
    <2>4. ASSUME NEW d \in Docs, art[d].analysis = "completed",
                 alerted' = alerted \cup {d}
          PROVE  Life!Next
      <3>1. Stage(d) = "read"
        BY <2>4 DEF Stage, Tables, RowOK
      <3>2. Life!Alert(d)
        BY <2>2, <2>4, <3>1 DEF Life!Alert, stages, owners
      <3> QED BY <3>2 DEF Life!Next
    <2> QED BY <1>1, <2>3, <2>4 DEF RunMoves, Alerted
  <1>2. CASE Created
    <2>1. PICK d \in Docs, r \in Runs :
            ~Known(d) /\ art' = [art EXCEPT ![d] = CreatedArtifact(r, None)]
      BY <1>2 DEF Created
    <2>2. /\ Stage(d) = "unknown" /\ Stage(d)' = "open" /\ art'[d].run = r
          /\ \A e \in Docs \ {d} : art'[e] = art[e]
      BY <1>0, <2>1 DEF Tables, Known, StageOf, CreatedArtifact
    <2>3. stages' = [stages EXCEPT ![d] = "open"] /\ owners' = [owners EXCEPT ![d] = r]
      <3>1. stages' = [stages EXCEPT ![d] = Stage(d)']
        <4>1. \A e \in Docs \ {d} : art'[e] = art[e]
          BY <2>2
        <4> QED BY <1>0, <4>1 DEF stages
      <3>2. owners' = [owners EXCEPT ![d] = r]
        BY <2>2 DEF owners
      <3> QED BY <2>2, <3>1, <3>2
    <2>4. Life!Find(d, r)
      BY <1>2, <2>2, <2>3 DEF Created, Life!Find, Life!Moves, stages, owners
    <2> QED BY <2>4 DEF Life!Next
  <1>3. CASE Committed
    <2>1. PICK d \in Docs : \E newR, newA :
            /\ Known(d) /\ Transition(RunOf(d), art[d], newR, newA)
            /\ Commit(d, newR, newA)
      BY <1>3 DEF Committed
    <2>2. PICK newR, newA :
            /\ Known(d) /\ Transition(RunOf(d), art[d], newR, newA)
            /\ Commit(d, newR, newA)
      BY <2>1
    <2>3. /\ \A e \in Docs \ {d} : art'[e] = art[e]
          /\ art'[d].run = art[d].run
      BY <2>2, CommitRows DEF Kept
    <2>4. StageMove(StageOf(art[d]), StageOf(newA)) /\ newA \in ArtRow
      <3>1. /\ art[d] \in ArtRow /\ art[d].download # "none" /\ RunOf(d) \in RunRow
            /\ (art[d].analysis = "completed" => art[d].download = "stored")
        BY <2>2 DEF Tables, RowOK, Known, RunOf
      <3> QED BY <2>2, <3>1, TransitionStages, TransitionRows
    <2>5. StageOf(art'[d]) = StageOf(newA)
      <3>1. art'[d] = Touched(art[d], newA)
        BY <2>2 DEF Commit, Tables
      <3>2. /\ art'[d].download = newA.download /\ art'[d].analysis = newA.analysis
        BY <2>4, <3>1 DEF Touched, ArtRow
      <3> QED BY <3>2 DEF StageOf
    <2>6. StageMove(Stage(d), Stage(d)')
      BY <1>0, <2>4, <2>5
    <2>7. /\ stages' = [stages EXCEPT ![d] = Stage(d)'] /\ owners' = owners
          /\ stages[d] = Stage(d)
      BY <1>0, <2>3 DEF stages, owners
    <2>8. UNCHANGED alerted
      BY <1>3 DEF Committed
    <2>9. CASE Stage(d)' = Stage(d)
      BY <2>7, <2>8, <2>9 DEF stages
    <2>10. CASE Stage(d) = "open" /\ Stage(d)' = "unfetched"
      <3>1. Life!GiveUp(d)
        BY <2>7, <2>8, <2>10 DEF Life!GiveUp, Life!Moves, stages, owners
      <3> QED BY <3>1 DEF Life!Next
    <2>11. CASE Stage(d) = "unfetched" /\ Stage(d)' = "open"
      <3>1. Life!Retry(d)
        BY <2>7, <2>8, <2>11 DEF Life!Retry, Life!Moves, stages, owners
      <3> QED BY <3>1 DEF Life!Next
    <2>12. CASE Stage(d) \in {"open", "unfetched", "unreadable"} /\ Stage(d)' = "kept"
      <3>1. Life!Keep(d)
        BY <2>7, <2>8, <2>12 DEF Life!Keep, Life!Moves, stages, owners
      <3> QED BY <3>1 DEF Life!Next
    <2>13. CASE Stage(d) \in {"open", "unfetched", "kept"} /\ Stage(d)' = "unreadable"
      <3>1. Life!FailToRead(d)
        BY <2>7, <2>8, <2>13 DEF Life!FailToRead, Life!Moves, stages, owners
      <3> QED BY <3>1 DEF Life!Next
    <2>14. CASE Stage(d) \in {"kept", "unreadable"} /\ Stage(d)' = "read"
      <3>1. Life!Read(d)
        BY <2>7, <2>8, <2>14 DEF Life!Read, Life!Moves, stages, owners
      <3> QED BY <3>1 DEF Life!Next
    <2> QED BY <2>6, <2>9, <2>10, <2>11, <2>12, <2>13, <2>14 DEF StageMove
  <1>4. CASE DayPasses
    <2>1. PICK d \in Docs : art' = [art EXCEPT ![d].touched = Aged(@)]
      BY <1>4 DEF DayPasses
    <2>2. \A e \in Docs : /\ art'[e].run = art[e].run
                          /\ art'[e].download = art[e].download
                          /\ art'[e].analysis = art[e].analysis
      BY <2>1 DEF Tables, ArtRow
    <2>3. \A e \in Docs : Stage(e)' = Stage(e)
      BY <1>0, <2>2 DEF StageOf
    <2> QED BY <1>4, <2>2, <2>3 DEF DayPasses, stages, owners
  <1> QED BY <1>1, <1>2, <1>3, <1>4 DEF Effect

-----------------------------------------------------------------------------
(* The queues and the processes only name rows that exist, and a worker is   *)
(* past the start of an analysis only with a stored document.                *)

LEMMA MessageKinds ==
  /\ \A m \in Messages : m.stage \in {"discovery", "download", "analysis"}
  /\ \A m \in Messages : m.stage = "discovery" => m.run \in Runs
  /\ \A m \in Messages : m.stage # "discovery" => m.doc \in Docs
  /\ \A m \in Messages : m.stage = "analysis" => m.sum \in Sums
  /\ \A r \in Runs, n \in Slots :
       /\ Discovery(r, n) \in Messages /\ Discovery(r, n).stage = "discovery"
       /\ Discovery(r, n).run = r
  /\ \A d \in Docs, n \in Slots :
       /\ Download(d, n) \in Messages /\ Download(d, n).stage = "download"
       /\ Download(d, n).doc = d
  /\ \A d \in Docs, s \in Sums :
       /\ Analysis(d, s) \in Messages /\ Analysis(d, s).stage = "analysis"
       /\ Analysis(d, s).doc = d
  BY DEF Messages, DiscoveryMessages, DownloadMessages, AnalysisMessages,
         Discovery, Download, Analysis

SubjectKnown(m) == IF m.stage = "discovery" THEN KnownRun(m.run) ELSE Known(m.doc)

Late == {"start", "analyse", "finish", "alert"}

WorkerOK(x) ==
  /\ x.pc # "idle" => x.msg \in Messages /\ SubjectKnown(x.msg)
  /\ x.pc = "send" => x.doc \in Docs /\ Known(x.doc)
  /\ x.pc \in Late /\ x.msg.stage = "analysis" => art[x.msg.doc].download = "stored"
  /\ x.pc = "alert" /\ x.msg.stage = "analysis" =>
       art[x.msg.doc].analysis = "completed"

RequestOK(x) == x.pc # "new" => x.run \in Runs /\ KnownRun(x.run)

SweepOK(x) ==
  /\ x \in [phase : SweepPhases, todo : SUBSET (Runs \cup Docs)]
  /\ x.phase = "idle" => x.todo = {}
  /\ x.phase = "runs" => \A r \in x.todo : r \in Runs /\ KnownRun(r)
  /\ x.phase \in {"downloads", "analyses"} => \A d \in x.todo : d \in Docs /\ Known(d)

RequestRow == [pc : RequestSteps, run : Runs \cup {None}]

Queues ==
  /\ queue \in [Messages -> QueueRow]
  /\ \A m \in Messages : queue[m].place # "none" => SubjectKnown(m)
Workforce ==
  /\ worker \in [Workers -> WorkerRow]
  /\ \A w \in Workers : WorkerOK(worker[w])
Calls ==
  /\ request \in [Requests -> RequestRow]
  /\ \A q \in Requests : RequestOK(request[q])
Rest ==
  /\ objects \subseteq Docs \X Sums
  /\ entered \subseteq Docs /\ alerted \subseteq Docs
  /\ faults \in [{"crash", "error", "duplicate", "redrive"} -> Nat]

(* The inductive invariant of the types. *)
Inv == Tables /\ Queues /\ Workforce /\ Calls /\ SweepOK(sweep) /\ Rest

(* How a step may change each of them. *)
QueueMoves ==
  /\ queue' \in [Messages -> QueueRow]
  /\ \A m \in Messages : \/ queue'[m] = queue[m]
                         \/ queue'[m].place = "none"
                         \/ SubjectKnown(m)
WorkerMoves ==
  /\ worker' \in [Workers -> WorkerRow]
  /\ \A w \in Workers : worker'[w] = worker[w] \/ WorkerOK(worker[w])'
RequestMoves ==
  /\ request' \in [Requests -> RequestRow]
  /\ \A q \in Requests : request'[q] = request[q] \/ RequestOK(request[q])'
SweepMoves == sweep' = sweep \/ SweepOK(sweep)'

LEMMA SubjectsStay ==
  ASSUME Tables, Effect
  PROVE  /\ \A r \in Runs : KnownRun(r) => KnownRun(r)'
         /\ \A d \in Docs : Known(d) =>
              /\ Known(d)'
              /\ art[d].download = "stored" => art'[d].download = "stored"
              /\ art[d].analysis = "completed" => art'[d].analysis = "completed"
         /\ \A m \in Messages : SubjectKnown(m) => SubjectKnown(m)'
  <1>1. Grows
    BY TablesKept
  <1>2. \A r \in Runs : KnownRun(r) => KnownRun(r)'
    BY <1>1 DEF Grows, Forward, KnownRun
  <1>3. \A d \in Docs : Known(d) =>
              /\ Known(d)'
              /\ art[d].download = "stored" => art'[d].download = "stored"
              /\ art[d].analysis = "completed" => art'[d].analysis = "completed"
    BY <1>1 DEF Grows, Kept, Known
  <1>4. \A m \in Messages : SubjectKnown(m) => SubjectKnown(m)'
    BY <1>2, <1>3, MessageKinds DEF SubjectKnown
  <1> QED BY <1>2, <1>3, <1>4

(* A worker that goes on stays right unless it comes to a step that needs
   more than its record. *)
LEMMA WorkerGoesOn ==
  ASSUME Tables, Effect, Workforce, NEW w \in Workers, worker[w].pc # "idle",
         NEW y, y.msg = worker[w].msg,
         y.pc # "send", y.pc \notin Late \/ y.msg.stage # "analysis"
  PROVE  WorkerOK(y)'
  <1>1. y.msg \in Messages /\ SubjectKnown(y.msg)
    BY DEF Workforce, WorkerOK
  <1>2. SubjectKnown(y.msg)'
    BY <1>1, SubjectsStay
  <1> QED BY <1>1, <1>2 DEF WorkerOK, Late

LEMMA ProcessesKept ==
  ASSUME Inv, Effect, QueueMoves, WorkerMoves, RequestMoves, SweepMoves, Rest'
  PROVE  Inv'
  <1>1. Tables' /\ Tables
    BY TablesKept DEF Inv
  <1>2. Queues'
    BY <1>1, SubjectsStay DEF Inv, Queues, QueueMoves
  <1>3. Workforce'
    <2>1. ASSUME NEW w \in Workers, worker'[w] = worker[w]
          PROVE  WorkerOK(worker[w])'
      <3>1. PICK x : x = worker[w]
        OBVIOUS
      <3>2. WorkerOK(x)
        BY <3>1 DEF Inv, Workforce
      <3>3. x.pc # "idle" => x.msg \in Messages /\ SubjectKnown(x.msg)'
        BY <1>1, <3>2, SubjectsStay DEF WorkerOK
      <3>4. x.pc = "send" => x.doc \in Docs /\ Known(x.doc)'
        BY <1>1, <3>2, SubjectsStay DEF WorkerOK
      <3>5. x.pc \in Late /\ x.msg.stage = "analysis" =>
              x.msg.doc \in Docs /\ Known(x.msg.doc)
        BY <3>2, MessageKinds DEF WorkerOK, Late, SubjectKnown
      <3>6. x.pc \in Late /\ x.msg.stage = "analysis" => art'[x.msg.doc].download = "stored"
        BY <1>1, <3>2, <3>5, SubjectsStay DEF WorkerOK
      <3>7. x.pc = "alert" /\ x.msg.stage = "analysis" =>
              art'[x.msg.doc].analysis = "completed"
        BY <1>1, <3>2, <3>5, SubjectsStay DEF WorkerOK, Late
      <3>8. WorkerOK(x)'
        BY <3>3, <3>4, <3>6, <3>7 DEF WorkerOK
      <3>9. x = worker'[w]
        BY <2>1, <3>1
      <3> QED BY <3>8, <3>9 DEF WorkerOK, SubjectKnown, Known, KnownRun
    <2> QED BY <2>1 DEF WorkerMoves, Workforce
  <1>4. Calls'
    <2>1. \A q \in Requests : request'[q] = request[q] => RequestOK(request[q])'
      BY <1>1, SubjectsStay DEF Inv, Calls, RequestOK, KnownRun
    <2> QED BY <2>1 DEF RequestMoves, Calls
  <1>5. SweepOK(sweep)'
    BY <1>1, SubjectsStay DEF Inv, SweepMoves, SweepOK
  <1> QED BY <1>1, <1>2, <1>3, <1>4, <1>5 DEF Inv

(* The usual ways to change the queues and the workers. *)
LEMMA Unmoved ==
  ASSUME Inv
  PROVE  /\ UNCHANGED queue => QueueMoves
         /\ UNCHANGED worker => WorkerMoves
         /\ UNCHANGED request => RequestMoves
         /\ UNCHANGED sweep => SweepMoves
         /\ UNCHANGED <<objects, entered, alerted, faults>> => Rest'
         /\ UNCHANGED <<run, art, alerted>> => Effect
  BY DEF Inv, Queues, Workforce, Calls, Rest, QueueMoves, WorkerMoves, RequestMoves,
         SweepMoves, Effect, Alerted

LEMMA PutMoves ==
  ASSUME Inv, NEW m \in Messages, SubjectKnown(m), NEW row \in QueueRow,
         queue' = [queue EXCEPT ![m] = row]
  PROVE  QueueMoves
  BY DEF Inv, Queues, QueueMoves

LEMMA ReleaseMoves ==
  ASSUME Inv, NEW w \in Workers, worker[w].pc # "idle", queue' = Released(w)
  PROVE  QueueMoves
  <1> DEFINE m == worker[w].msg
  <1>1. m \in Messages /\ SubjectKnown(m)
    BY DEF Inv, Workforce, WorkerOK
  <1>2. CASE queue' = queue
    BY <1>2, Unmoved
  <1>3. CASE queue' # queue
    <2>1. \E p \in {"dead", "visible"} : queue' = [queue EXCEPT ![m].place = p]
      BY <1>3 DEF Released
    <2>2. PICK p \in {"dead", "visible"} : queue' = [queue EXCEPT ![m].place = p]
      BY <2>1
    <2>3. [queue[m] EXCEPT !.place = p] \in QueueRow
      BY <1>1 DEF Inv, Queues, QueueRow
    <2>4. queue' = [queue EXCEPT ![m] = [queue[m] EXCEPT !.place = p]]
      BY <2>2
    <2> HIDE DEF m
    <2> QED BY <1>1, <2>3, <2>4, PutMoves
  <1> QED BY <1>2, <1>3

LEMMA OneWorkerMoves ==
  ASSUME Inv, NEW w \in Workers, NEW y \in WorkerRow, WorkerOK(y)',
         worker' = [worker EXCEPT ![w] = y]
  PROVE  WorkerMoves
  <1>1. /\ worker' \in [Workers -> WorkerRow] /\ worker'[w] = y
        /\ \A v \in Workers \ {w} : worker'[v] = worker[v]
    BY DEF Inv, Workforce
  <1>2. WorkerOK(worker[w])'
    BY <1>1 DEF WorkerOK, SubjectKnown, Known, KnownRun
  <1> QED BY <1>1, <1>2 DEF WorkerMoves

LEMMA IdleMoves ==
  ASSUME Inv, NEW w \in Workers, worker' = [worker EXCEPT ![w] = Idle]
  PROVE  WorkerMoves
  <1>1. Idle \in WorkerRow
    BY DEF Idle, WorkerRow, Steps
  <1>2. WorkerOK(Idle)'
    BY DEF Idle, WorkerOK, Late
  <1> QED BY <1>1, <1>2, OneWorkerMoves

LEMMA GotoMoves ==
  ASSUME Inv, Effect, NEW w \in Workers, worker[w].pc # "idle", NEW pc \in Steps,
         pc # "send", pc \notin Late \/ worker[w].msg.stage # "analysis", Goto(w, pc)
  PROVE  WorkerMoves
  <1>0. PICK y : y = [worker[w] EXCEPT !.pc = pc]
    OBVIOUS
  <1>1. y \in WorkerRow /\ y.msg = worker[w].msg /\ y.pc = pc
    BY <1>0 DEF Inv, Workforce, WorkerRow
  <1>2. worker' = [worker EXCEPT ![w] = y]
    BY <1>0 DEF Goto
  <1>3. WorkerOK(y)'
    BY <1>1, WorkerGoesOn DEF Inv
  <1> QED BY <1>1, <1>2, <1>3, OneWorkerMoves

-----------------------------------------------------------------------------
(* The actions.                                                            *)

LEMMA OneRunMoves ==
  ASSUME Inv, NEW r \in Runs, NEW newR, Alone(run[r], newR),
         run' = [run EXCEPT ![r] = newR], UNCHANGED <<art, alerted>>
  PROVE  Effect
  BY DEF Effect, RunMoves, Alone

LEMMA CommitMoves ==
  ASSUME Inv, NEW d \in Docs, Known(d), NEW newR, NEW newA,
         Transition(RunOf(d), art[d], newR, newA), Commit(d, newR, newA),
         UNCHANGED alerted
  PROVE  Effect
  BY DEF Effect, Committed

LEMMA KnownRunAlone ==
  ASSUME Inv, NEW r \in Runs, KnownRun(r), NEW queued \in Nat
  PROVE  /\ Alone(run[r], Enqueueing(run[r])) /\ Alone(run[r], QueuedIfEnqueueing(run[r]))
         /\ Alone(run[r], DiscoveryStarted(run[r])) /\ Alone(run[r], DiscoveryFailed(run[r]))
         /\ Alone(run[r], DiscoveryCompleted(run[r], queued))
  BY RunAlone DEF Inv, Tables, KnownRun

LEMMA FaultCounted ==
  ASSUME Inv, NEW kind \in {"crash", "error", "duplicate", "redrive"}, NEW most,
         Fault(kind, most)
  PROVE  faults' \in [{"crash", "error", "duplicate", "redrive"} -> Nat]
  BY DEF Fault, Inv, Rest

LEMMA RequestGoesOn ==
  ASSUME Inv, Effect, NEW q \in Requests, request[q].pc # "new",
         NEW pc \in RequestSteps, request' = [request EXCEPT ![q].pc = pc]
  PROVE  RequestMoves
  <1>1. /\ request' \in [Requests -> RequestRow]
        /\ request'[q].run = request[q].run
        /\ \A p \in Requests \ {q} : request'[p] = request[p]
    BY DEF Inv, Calls, RequestRow
  <1>2. request[q].run \in Runs /\ KnownRun(request[q].run)
    BY DEF Inv, Calls, RequestOK
  <1>3. PICK r : r = request[q].run
    OBVIOUS
  <1>4. KnownRun(r)'
    BY <1>2, <1>3, SubjectsStay DEF Inv
  <1>5. RequestOK(request[q])'
    BY <1>1, <1>2, <1>3, <1>4 DEF RequestOK, KnownRun
  <1> QED BY <1>1, <1>5 DEF RequestMoves

LEMMA GetOrCreateRunKept ==
  ASSUME Inv, NEW q \in Requests, NEW r \in Runs, GetOrCreateRun(q, r)
  PROVE  Effect /\ Inv'
  <1> DEFINE newR == IF run[r].status = "none" THEN CreatedRun ELSE run[r]
  <1>1. run[r] \in RunRow /\ (run[r].status = "none" => run[r] = NoRun)
    BY DEF Inv, Tables, KnownRun
  <1>2. Alone(run[r], newR) /\ newR.status # "none"
    BY <1>1 DEF Alone, Forward, Downstream, NoRun, CreatedRun, RunRow, RunStatuses, Stamps
  <1>3. run' = [run EXCEPT ![r] = newR]
    BY DEF GetOrCreateRun
  <1> HIDE DEF newR
  <1>4. Effect
    BY <1>2, <1>3, OneRunMoves DEF GetOrCreateRun, ServerVars
  <1>5. KnownRun(r)'
    BY <1>2, <1>3 DEF KnownRun, Inv, Tables
  <1>6. \E pc \in RequestSteps : request' = [request EXCEPT ![q] = [pc |-> pc, run |-> r]]
    BY DEF GetOrCreateRun, RequestSteps
  <1>7. RequestMoves
    <2>1. /\ request' \in [Requests -> RequestRow]
          /\ request'[q].run = r
          /\ \A p \in Requests \ {q} : request'[p] = request[p]
      BY <1>6 DEF Inv, Calls, RequestRow
    <2> QED BY <1>5, <2>1 DEF RequestMoves, RequestOK, KnownRun
  <1> QED BY <1>4, <1>7, Unmoved, ProcessesKept DEF GetOrCreateRun, ServerVars

LEMMA VisibleRow == Visible \in QueueRow /\ Unsent \in QueueRow
  BY BoundsAssumption DEF Visible, Unsent, QueueRow

LEMMA SendDiscoveryKept ==
  ASSUME Inv, NEW q \in Requests, NEW n \in Slots, SendDiscovery(q, n)
  PROVE  Effect /\ Inv'
  <1> DEFINE r == request[q].run
  <1>1. r \in Runs /\ KnownRun(r) /\ request[q].pc # "new"
    BY DEF SendDiscovery, Inv, Calls, RequestOK
  <1>2. Effect
    BY Unmoved DEF SendDiscovery, ServerVars
  <1>3. QueueMoves
    <2>1. /\ Discovery(r, n) \in Messages /\ SubjectKnown(Discovery(r, n))
      BY <1>1, MessageKinds DEF SubjectKnown
    <2>2. queue' = [queue EXCEPT ![Discovery(r, n)] = Visible]
      BY DEF SendDiscovery
    <2> QED BY <2>1, <2>2, VisibleRow, PutMoves
  <1>4. RequestMoves
    <2>1. \E pc \in {"sent", "unsent"} : request' = [request EXCEPT ![q].pc = pc]
      BY DEF SendDiscovery
    <2> QED BY <1>1, <1>2, <2>1, RequestGoesOn DEF RequestSteps
  <1>5. Rest'
    <2>1. faults' \in [{"crash", "error", "duplicate", "redrive"} -> Nat]
      BY FaultCounted DEF SendDiscovery, Inv, Rest
    <2> QED BY <2>1 DEF SendDiscovery, ServerVars, Inv, Rest
  <1> QED BY <1>2, <1>3, <1>4, <1>5, Unmoved, ProcessesKept DEF SendDiscovery, ServerVars

LEMMA RunMarkedKept ==
  ASSUME Inv, NEW q \in Requests, ReopenRun(q) \/ MarkQueued(q) \/ MarkUnsent(q)
  PROVE  Effect /\ Inv'
  <1> DEFINE r == request[q].run
  <1>1. r \in Runs /\ KnownRun(r) /\ request[q].pc # "new"
    BY DEF ReopenRun, MarkQueued, MarkUnsent, Inv, Calls, RequestOK
  <1>2. \E newR : Alone(run[r], newR) /\ run' = [run EXCEPT ![r] = newR]
    <2> HIDE DEF r
    <2>1. /\ Alone(run[r], Enqueueing(run[r])) /\ Alone(run[r], QueuedIfEnqueueing(run[r]))
          /\ Alone(run[r], DiscoveryFailed(run[r]))
      BY <1>1, KnownRunAlone
    <2> QED BY <2>1 DEF ReopenRun, MarkQueued, MarkUnsent, r
  <1>3. Effect
    <2> HIDE DEF r
    <2> QED BY <1>1, <1>2, OneRunMoves DEF ReopenRun, MarkQueued, MarkUnsent, ServerVars
  <1>4. \E pc \in {"send", "done"} : request' = [request EXCEPT ![q].pc = pc]
    BY DEF ReopenRun, MarkQueued, MarkUnsent
  <1>5. RequestMoves
    BY <1>1, <1>3, <1>4, RequestGoesOn DEF RequestSteps
  <1> QED BY <1>3, <1>5, Unmoved, ProcessesKept
          DEF ReopenRun, MarkQueued, MarkUnsent, ServerVars

LEMMA RequestFaultKept ==
  ASSUME Inv, NEW q \in Requests, SendDiscoveryFails(q) \/ RequestStops(q)
  PROVE  Effect /\ Inv'
  <1>1. Effect
    BY Unmoved DEF SendDiscoveryFails, RequestStops, ServerVars
  <1>2. \E pc \in {"unsent", "done"} : request' = [request EXCEPT ![q].pc = pc]
    BY DEF SendDiscoveryFails, RequestStops
  <1>3. RequestMoves
    BY <1>1, <1>2, RequestGoesOn DEF RequestSteps, SendDiscoveryFails, RequestStops
  <1>4. Rest'
    <2>1. faults' \in [{"crash", "error", "duplicate", "redrive"} -> Nat]
      BY FaultCounted DEF SendDiscoveryFails, RequestStops
    <2> QED BY <2>1 DEF SendDiscoveryFails, RequestStops, ServerVars, Inv, Rest
  <1> QED BY <1>1, <1>3, <1>4, Unmoved, ProcessesKept
          DEF SendDiscoveryFails, RequestStops, ServerVars

(* SQS and the skeleton of the stages. *)

LEMMA WorkerMessage ==
  ASSUME Inv, NEW w \in Workers, worker[w].pc # "idle"
  PROVE  /\ worker[w].msg \in Messages /\ SubjectKnown(worker[w].msg)
         /\ worker[w].msg.stage = "discovery" =>
              worker[w].msg.run \in Runs /\ KnownRun(worker[w].msg.run)
         /\ worker[w].msg.stage # "discovery" =>
              worker[w].msg.doc \in Docs /\ Known(worker[w].msg.doc)
  BY MessageKinds DEF Inv, Workforce, WorkerOK, SubjectKnown

LEMMA ReceiveKept ==
  ASSUME Inv, NEW w \in Workers, NEW m \in Messages,
         Receive(w, m) \/ ReceiveAgain(w, m)
  PROVE  Effect /\ Inv'
  <1>1. Receives(w, m) /\ queue[m].place \in {"visible", "inflight"}
    BY DEF Receive, ReceiveAgain
  <1>2. Effect
    BY <1>1, Unmoved DEF Receives, OtherVars
  <1>3. SubjectKnown(m)
    BY <1>1 DEF Inv, Queues
  <1>4. QueueMoves
    <2> DEFINE row == [queue[m] EXCEPT !.place = "inflight", !.receives = @ + 1]
    <2>1. queue[m] \in QueueRow /\ queue[m].receives < MaxReceives
      BY <1>1 DEF Inv, Queues, Receives
    <2>2. row \in QueueRow
      <3>1. queue[m].receives + 1 \in 0..MaxReceives
        BY <2>1, BoundsAssumption DEF QueueRow
      <3>2. row = [queue[m] EXCEPT !.place = "inflight", !.receives = queue[m].receives + 1]
        OBVIOUS
      <3> HIDE DEF row
      <3> QED BY <2>1, <3>1, <3>2 DEF QueueRow
    <2>3. queue' = [queue EXCEPT ![m] = row]
      BY <1>1 DEF Receives
    <2> HIDE DEF row
    <2> QED BY <1>3, <2>2, <2>3, PutMoves
  <1>5. WorkerMoves
    <2>1. PICK y : y = [Idle EXCEPT !.pc = "begin", !.msg = m,
                                    !.final = queue[m].receives + 1 >= MaxReceives]
      OBVIOUS
    <2>2. y \in WorkerRow /\ y.pc = "begin" /\ y.msg = m
      <3>1. PICK final : final = (queue[m].receives + 1 >= MaxReceives)
        OBVIOUS
      <3>2. final \in BOOLEAN
        BY <3>1
      <3>3. y = [Idle EXCEPT !.pc = "begin", !.msg = m, !.final = final]
        BY <2>1, <3>1
      <3> QED BY <3>2, <3>3 DEF Idle, WorkerRow, Steps, Fallible
    <2>3. SubjectKnown(m)'
      BY <1>2, <1>3, SubjectsStay DEF Inv
    <2>4. WorkerOK(y)'
      BY <2>2, <2>3 DEF WorkerOK, Late
    <2>5. worker' = [worker EXCEPT ![w] = y]
      BY <1>1, <2>1 DEF Receives
    <2> QED BY <2>2, <2>4, <2>5, OneWorkerMoves
  <1>6. Rest'
    <2>1. faults' \in [{"crash", "error", "duplicate", "redrive"} -> Nat]
      BY FaultCounted DEF Receive, ReceiveAgain, Inv, Rest
    <2> QED BY <1>1, <2>1 DEF Receives, OtherVars, Inv, Rest
  <1> QED BY <1>1, <1>2, <1>4, <1>5, <1>6, Unmoved, ProcessesKept DEF Receives, OtherVars

LEMMA AcknowledgeKept ==
  ASSUME Inv, NEW w \in Workers, Acknowledge(w)
  PROVE  Effect /\ Inv'
  <1>1. Effect /\ Rest'
    BY Unmoved DEF Acknowledge, OtherVars, Inv, Rest
  <1>2. worker[w].msg \in Messages /\ SubjectKnown(worker[w].msg)
    BY WorkerMessage DEF Acknowledge
  <1>3. QueueMoves
    BY <1>2, VisibleRow, PutMoves DEF Acknowledge
  <1>4. WorkerMoves
    BY IdleMoves DEF Acknowledge
  <1> QED BY <1>1, <1>3, <1>4, Unmoved, ProcessesKept DEF Acknowledge, OtherVars

LEMMA WorkerFaultKept ==
  ASSUME Inv, NEW w \in Workers, Raise(w) \/ Reject(w) \/ Crash(w)
  PROVE  Effect /\ Inv'
  <1>1. Effect
    BY Unmoved DEF Raise, Reject, Crash, OtherVars
  <1>2. worker[w].pc # "idle"
    BY DEF Raise, Reject, Crash, Fallible, Rejectable
  <1>3. QueueMoves
    BY <1>2, ReleaseMoves, Unmoved DEF Raise, Reject, Crash
  <1>4. WorkerMoves
    <2>1. CASE \E pc \in {"given up", "rejected"} : Goto(w, pc)
      BY <1>1, <1>2, <2>1, GotoMoves DEF Steps, Late
    <2>2. CASE worker' = [worker EXCEPT ![w] = Idle]
      BY <2>2, IdleMoves
    <2> QED BY <2>1, <2>2 DEF Raise, Reject, Crash
  <1>5. Rest'
    <2>1. faults' \in [{"crash", "error", "duplicate", "redrive"} -> Nat]
      BY FaultCounted DEF Raise, Reject, Crash
    <2> QED BY <2>1 DEF Raise, Reject, Crash, OtherVars, Inv, Rest
  <1> QED BY <1>1, <1>3, <1>4, <1>5, Unmoved, ProcessesKept
          DEF Raise, Reject, Crash, OtherVars

LEMMA FailSubjectMoves ==
  ASSUME Inv, NEW m \in Messages, SubjectKnown(m), FailSubject(m), UNCHANGED alerted
  PROVE  Effect
  <1>1. CASE m.stage = "discovery"
    <2>1. m.run \in Runs /\ KnownRun(m.run)
      BY <1>1, MessageKinds DEF SubjectKnown
    <2>2. Alone(run[m.run], DiscoveryFailed(run[m.run]))
      BY <2>1, KnownRunAlone
    <2> QED BY <1>1, <2>1, <2>2, OneRunMoves DEF FailSubject
  <1>2. CASE m.stage # "discovery"
    <2>1. m.doc \in Docs /\ Known(m.doc)
      BY <1>2, MessageKinds DEF SubjectKnown
    <2>2. CASE m.stage = "download"
      BY <2>1, <2>2, CommitMoves DEF FailSubject, Transition
    <2>3. CASE m.stage = "analysis"
      BY <2>1, <2>3, CommitMoves DEF FailSubject, Transition
    <2> QED BY <1>2, <2>2, <2>3, MessageKinds
  <1> QED BY <1>1, <1>2

LEMMA RecordFinalKept ==
  ASSUME Inv, NEW w \in Workers, RecordFinal(w)
  PROVE  Effect /\ Inv'
  <1>1. worker[w].pc # "idle"
    BY DEF RecordFinal
  <1>2. Effect
    BY <1>1, WorkerMessage, FailSubjectMoves DEF RecordFinal
  <1>3. QueueMoves
    BY <1>1, ReleaseMoves, Unmoved DEF RecordFinal
  <1>4. WorkerMoves
    <2>1. CASE Goto(w, "ack")
      BY <1>1, <1>2, <2>1, GotoMoves DEF Steps, Late
    <2>2. CASE worker' = [worker EXCEPT ![w] = Idle]
      BY <2>2, IdleMoves
    <2> QED BY <2>1, <2>2 DEF RecordFinal
  <1> QED BY <1>2, <1>3, <1>4, Unmoved, ProcessesKept DEF RecordFinal

LEMMA RedriveKept ==
  ASSUME Inv, NEW m \in Messages, Redrive(m)
  PROVE  Effect /\ Inv'
  <1>1. Effect
    BY Unmoved DEF Redrive, OtherVars
  <1>2. QueueMoves
    <2>1. SubjectKnown(m)
      BY DEF Redrive, Inv, Queues
    <2> QED BY <2>1, VisibleRow, PutMoves DEF Redrive
  <1>3. Rest'
    <2>1. faults' \in [{"crash", "error", "duplicate", "redrive"} -> Nat]
      BY FaultCounted DEF Redrive
    <2> QED BY <2>1 DEF Redrive, OtherVars, Inv, Rest
  <1> QED BY <1>1, <1>2, <1>3, Unmoved, ProcessesKept DEF Redrive, OtherVars

(* The discovery stage. *)

LEMMA DiscoveryRun ==
  ASSUME Inv, NEW w \in Workers, NEW pc, pc # "idle", At(w, "discovery", pc)
  PROVE  /\ worker[w].pc # "idle" /\ worker[w].msg.run \in Runs
         /\ KnownRun(worker[w].msg.run) /\ worker[w] \in WorkerRow
  BY WorkerMessage DEF At, Inv, Workforce

LEMMA BeginDiscoveryKept ==
  ASSUME Inv, NEW w \in Workers, BeginDiscovery(w)
  PROVE  Effect /\ Inv'
  <1>1. /\ worker[w].pc # "idle" /\ worker[w].msg.run \in Runs
        /\ KnownRun(worker[w].msg.run)
    BY DiscoveryRun DEF BeginDiscovery
  <1>2. Effect
    BY <1>1, KnownRunAlone, OneRunMoves DEF BeginDiscovery
  <1>3. WorkerMoves
    BY <1>1, <1>2, GotoMoves DEF BeginDiscovery, Steps, Fallible, Late
  <1> QED BY <1>2, <1>3, Unmoved, ProcessesKept DEF BeginDiscovery

LEMMA ListDocumentsKept ==
  ASSUME Inv, NEW w \in Workers, ListDocuments(w)
  PROVE  Effect /\ Inv'
  <1>1. worker[w].pc # "idle" /\ worker[w] \in WorkerRow
    BY DiscoveryRun DEF ListDocuments
  <1>2. Effect
    BY Unmoved DEF ListDocuments, OtherVars
  <1>3. PICK listing \in Listings :
          worker' = [worker EXCEPT ![w].pc = "each", ![w].todo = listing]
    BY DEF ListDocuments
  <1>4. WorkerMoves
    <2>1. PICK y : y = [worker[w] EXCEPT !.pc = "each", !.todo = listing]
      OBVIOUS
    <2>2. y \in WorkerRow /\ y.pc = "each" /\ y.msg = worker[w].msg
      BY <1>1, <2>1, DocsAssumption DEF WorkerRow, Steps, Fallible
    <2>3. worker' = [worker EXCEPT ![w] = y]
      BY <1>3, <2>1
    <2>4. WorkerOK(y)'
      BY <1>1, <1>2, <2>2, WorkerGoesOn DEF Inv, Late
    <2> QED BY <2>2, <2>3, <2>4, OneWorkerMoves
  <1> QED BY <1>2, <1>4, Unmoved, ProcessesKept DEF ListDocuments, OtherVars

LEMMA FindArtifactKept ==
  ASSUME Inv, NEW w \in Workers, NEW d \in Docs, FindArtifact(w, d)
  PROVE  Effect /\ Inv'
  <1> DEFINE r == worker[w].msg.run
  <1>1. /\ worker[w].pc # "idle" /\ r \in Runs /\ KnownRun(r)
        /\ worker[w] \in WorkerRow
    BY DiscoveryRun DEF FindArtifact, Takes
  <1>2. Effect /\ Known(d)'
    <2>1. CASE art[d].run = None
      <3>1. ~Known(d)
        BY <2>1, NoneAssumption DEF Inv, Tables, RowOK
      <3>2. art' = [art EXCEPT ![d] = CreatedArtifact(r, None)]
        BY <2>1 DEF FindArtifact
      <3> HIDE DEF r
      <3>3. Effect
        BY <1>1, <3>1, <3>2 DEF Effect, Created, FindArtifact
      <3>4. Known(d)'
        BY <3>2 DEF Known, Inv, Tables, CreatedArtifact
      <3> QED BY <3>3, <3>4
    <2>2. CASE art[d].run # None
      <3>1. art' = art /\ Known(d)
        BY <2>2 DEF FindArtifact, Inv, Tables, RowOK
      <3> QED BY <3>1, Unmoved DEF FindArtifact, Known
    <2> QED BY <2>1, <2>2
  <1>3. WorkerMoves
    <2>1. PICK y : y = [worker[w] EXCEPT !.pc = "send", !.doc = d, !.todo = @ \ {d}]
      OBVIOUS
    <2>2. y \in WorkerRow /\ y.pc = "send" /\ y.msg = worker[w].msg /\ y.doc = d
      <3>1. worker[w].todo \ {d} \in SUBSET Docs
        BY <1>1 DEF WorkerRow
      <3>2. y = [worker[w] EXCEPT !.pc = "send", !.doc = d, !.todo = worker[w].todo \ {d}]
        BY <2>1
      <3> QED BY <1>1, <3>1, <3>2 DEF WorkerRow, Steps, Fallible
    <2>3. worker' = [worker EXCEPT ![w] = y]
      BY <2>1 DEF FindArtifact
    <2>4. y.msg \in Messages /\ SubjectKnown(y.msg)
      BY <1>1, <2>2, WorkerMessage
    <2>5. SubjectKnown(y.msg)'
      BY <1>2, <2>4, SubjectsStay DEF Inv
    <2>6. WorkerOK(y)'
      BY <1>2, <2>2, <2>4, <2>5 DEF WorkerOK, Late
    <2> QED BY <2>2, <2>3, <2>6, OneWorkerMoves
  <1> QED BY <1>2, <1>3, Unmoved, ProcessesKept DEF FindArtifact

LEMMA SkipDocumentKept ==
  ASSUME Inv, NEW w \in Workers, NEW d \in Docs, SkipDocument(w, d)
  PROVE  Effect /\ Inv'
  <1>1. worker[w].pc # "idle" /\ worker[w] \in WorkerRow /\ worker[w].pc = "each"
    BY DiscoveryRun DEF SkipDocument, Takes, At
  <1>2. Effect
    BY Unmoved DEF SkipDocument, OtherVars
  <1>3. WorkerMoves
    <2>1. PICK y : y = [worker[w] EXCEPT !.todo = @ \ {d}]
      OBVIOUS
    <2>2. y \in WorkerRow /\ y.pc = "each" /\ y.msg = worker[w].msg
      BY <1>1, <2>1 DEF WorkerRow
    <2>3. worker' = [worker EXCEPT ![w] = y]
      BY <2>1 DEF SkipDocument
    <2>4. WorkerOK(y)'
      BY <1>1, <1>2, <2>2, WorkerGoesOn DEF Inv, Late
    <2> QED BY <2>2, <2>3, <2>4, OneWorkerMoves
  <1> QED BY <1>2, <1>3, Unmoved, ProcessesKept DEF SkipDocument, OtherVars

LEMMA SendDownloadKept ==
  ASSUME Inv, NEW w \in Workers, NEW n \in Slots, SendDownload(w, n)
  PROVE  Effect /\ Inv'
  <1> DEFINE d == worker[w].doc
  <1>1. worker[w].pc = "send" /\ worker[w] \in WorkerRow /\ d \in Docs /\ Known(d)
    BY DEF SendDownload, At, Inv, Workforce, WorkerOK
  <1>2. Effect
    BY Unmoved DEF SendDownload
  <1>3. QueueMoves
    <2>1. Download(d, n) \in Messages /\ SubjectKnown(Download(d, n))
      BY <1>1, MessageKinds DEF SubjectKnown
    <2>2. queue' = [queue EXCEPT ![Download(d, n)] = Visible]
      BY DEF SendDownload
    <2> QED BY <2>1, <2>2, VisibleRow, PutMoves
  <1>4. WorkerMoves
    <2>1. PICK y : y = [worker[w] EXCEPT !.pc = "each", !.doc = None, !.queued = @ + 1]
      OBVIOUS
    <2>2. y \in WorkerRow /\ y.pc = "each" /\ y.msg = worker[w].msg
      <3>1. worker[w].queued + 1 \in Nat
        BY <1>1 DEF WorkerRow
      <3>2. y = [worker[w] EXCEPT !.pc = "each", !.doc = None,
                                  !.queued = worker[w].queued + 1]
        BY <2>1
      <3> QED BY <1>1, <3>1, <3>2 DEF WorkerRow, Steps, Fallible
    <2>3. worker' = [worker EXCEPT ![w] = y]
      BY <2>1 DEF SendDownload
    <2>4. WorkerOK(y)'
      BY <1>1, <1>2, <2>2, WorkerGoesOn DEF Inv, Late
    <2> QED BY <2>2, <2>3, <2>4, OneWorkerMoves
  <1>5. Rest'
    BY <1>1 DEF SendDownload, Inv, Rest
  <1> QED BY <1>2, <1>3, <1>4, <1>5, Unmoved, ProcessesKept DEF SendDownload

LEMMA CompleteDiscoveryKept ==
  ASSUME Inv, NEW w \in Workers, CompleteDiscovery(w)
  PROVE  Effect /\ Inv'
  <1>1. /\ worker[w].pc # "idle" /\ worker[w].msg.run \in Runs
        /\ KnownRun(worker[w].msg.run) /\ worker[w] \in WorkerRow
        /\ worker[w].queued \in Nat
    BY DiscoveryRun DEF CompleteDiscovery, WorkerRow
  <1>2. Effect
    BY <1>1, KnownRunAlone, OneRunMoves DEF CompleteDiscovery
  <1>3. WorkerMoves
    <2>1. PICK y : y = [worker[w] EXCEPT !.pc = "ack", !.todo = {}, !.queued = 0]
      OBVIOUS
    <2>2. y \in WorkerRow /\ y.pc = "ack" /\ y.msg = worker[w].msg
      BY <1>1, <2>1 DEF WorkerRow, Steps
    <2>3. worker' = [worker EXCEPT ![w] = y]
      BY <2>1 DEF CompleteDiscovery
    <2>4. WorkerOK(y)'
      BY <1>1, <1>2, <2>2, WorkerGoesOn DEF Inv, Late
    <2> QED BY <2>2, <2>3, <2>4, OneWorkerMoves
  <1> QED BY <1>2, <1>3, Unmoved, ProcessesKept DEF CompleteDiscovery

(* The download stage. *)

LEMMA StageDocument ==
  ASSUME Inv, NEW w \in Workers, NEW stage \in {"download", "analysis"},
         NEW pc, pc # "idle", At(w, stage, pc)
  PROVE  /\ worker[w].pc # "idle" /\ worker[w].msg.doc \in Docs
         /\ Known(worker[w].msg.doc) /\ worker[w] \in WorkerRow
         /\ worker[w].msg \in Messages
  BY WorkerMessage DEF At, Inv, Workforce

LEMMA LoadArtifactKept ==
  ASSUME Inv, NEW w \in Workers, LoadArtifact(w)
  PROVE  Effect /\ Inv'
  <1>1. Effect
    BY Unmoved DEF LoadArtifact, OtherVars
  <1>2. worker[w].pc # "idle" /\ worker[w].msg.stage # "analysis"
    BY DEF LoadArtifact, At
  <1>3. \E pc \in {"ack", "start"} : Goto(w, pc)
    BY DEF LoadArtifact
  <1>4. WorkerMoves
    BY <1>1, <1>2, <1>3, GotoMoves DEF Steps, Fallible
  <1> QED BY <1>1, <1>4, Unmoved, ProcessesKept DEF LoadArtifact, OtherVars

LEMMA StartDownloadKept ==
  ASSUME Inv, NEW w \in Workers, StartDownload(w)
  PROVE  Effect /\ Inv'
  <1>1. worker[w].pc # "idle" /\ worker[w].msg.doc \in Docs /\ Known(worker[w].msg.doc)
    BY StageDocument DEF StartDownload
  <1>2. Effect
    BY <1>1, CommitMoves DEF StartDownload, Transition
  <1>3. WorkerMoves
    BY <1>1, <1>2, GotoMoves DEF StartDownload, Steps, Fallible, Late
  <1> QED BY <1>2, <1>3, Unmoved, ProcessesKept DEF StartDownload

LEMMA FetchAndPutKept ==
  ASSUME Inv, NEW w \in Workers, NEW s \in Sums, FetchAndPut(w, s)
  PROVE  Effect /\ Inv'
  <1> DEFINE d == worker[w].msg.doc
  <1>1. worker[w].pc # "idle" /\ d \in Docs /\ Known(d) /\ worker[w] \in WorkerRow
    BY StageDocument DEF FetchAndPut
  <1>2. Effect
    BY Unmoved DEF FetchAndPut
  <1>3. QueueMoves
    <2>1. Analysis(d, s) \in Messages /\ SubjectKnown(Analysis(d, s))
      BY <1>1, MessageKinds DEF SubjectKnown
    <2>2. queue' = queue \/ queue' = [queue EXCEPT ![Analysis(d, s)] = Visible]
      BY DEF FetchAndPut
    <2> QED BY <2>1, <2>2, VisibleRow, PutMoves, Unmoved
  <1>4. WorkerMoves
    <2>1. PICK y : y = [worker[w] EXCEPT !.pc = "store", !.sum = s]
      OBVIOUS
    <2>2. y \in WorkerRow /\ y.pc = "store" /\ y.msg = worker[w].msg
      BY <1>1, <2>1 DEF WorkerRow, Steps, Fallible
    <2>3. worker' = [worker EXCEPT ![w] = y]
      BY <2>1 DEF FetchAndPut
    <2>4. WorkerOK(y)'
      BY <1>1, <1>2, <2>2, WorkerGoesOn DEF Inv, Late
    <2> QED BY <2>2, <2>3, <2>4, OneWorkerMoves
  <1>5. Rest'
    BY <1>1 DEF FetchAndPut, Inv, Rest
  <1> QED BY <1>2, <1>3, <1>4, <1>5, Unmoved, ProcessesKept DEF FetchAndPut

LEMMA MarkStoredKept ==
  ASSUME Inv, NEW w \in Workers, MarkStored(w)
  PROVE  Effect /\ Inv'
  <1>1. /\ worker[w].pc # "idle" /\ worker[w].msg.doc \in Docs
        /\ Known(worker[w].msg.doc) /\ worker[w] \in WorkerRow
        /\ worker[w].sum \in Sums \cup {None}
    BY StageDocument DEF MarkStored, WorkerRow
  <1>2. Effect
    BY <1>1, CommitMoves DEF MarkStored, Transition
  <1>3. WorkerMoves
    <2>1. PICK y : y = [worker[w] EXCEPT !.pc = "ack", !.sum = None]
      OBVIOUS
    <2>2. y \in WorkerRow /\ y.pc = "ack" /\ y.msg = worker[w].msg
      BY <1>1, <2>1 DEF WorkerRow, Steps
    <2>3. worker' = [worker EXCEPT ![w] = y]
      BY <2>1 DEF MarkStored
    <2>4. WorkerOK(y)'
      BY <1>1, <1>2, <2>2, WorkerGoesOn DEF Inv, Late
    <2> QED BY <2>2, <2>3, <2>4, OneWorkerMoves
  <1> QED BY <1>2, <1>3, Unmoved, ProcessesKept DEF MarkStored

(* The analysis stage. *)

(* A worker comes to a late step only with a document that is stored, and to
   the last one only with a document that is analysed. *)
LEMMA LateMoves ==
  ASSUME Inv, Effect, NEW w \in Workers, worker[w].pc # "idle", NEW pc \in Late,
         worker[w].msg.stage = "analysis", Goto(w, pc),
         art'[worker[w].msg.doc].download = "stored",
         pc = "alert" => art'[worker[w].msg.doc].analysis = "completed"
  PROVE  WorkerMoves
  <1>1. PICK y : y = [worker[w] EXCEPT !.pc = pc]
    OBVIOUS
  <1>2. y \in WorkerRow /\ y.msg = worker[w].msg /\ y.pc = pc
    BY <1>1 DEF Inv, Workforce, WorkerRow, Late, Steps, Fallible
  <1>3. worker' = [worker EXCEPT ![w] = y]
    BY <1>1 DEF Goto
  <1>4. y.msg \in Messages /\ SubjectKnown(y.msg)
    BY <1>2, WorkerMessage
  <1>5. SubjectKnown(y.msg)'
    BY <1>4, SubjectsStay DEF Inv
  <1>6. WorkerOK(y)'
    BY <1>2, <1>4, <1>5 DEF WorkerOK, Late
  <1> QED BY <1>2, <1>3, <1>6, OneWorkerMoves

LEMMA CommittedRow ==
  ASSUME Inv, NEW d \in Docs, NEW newR, NEW newA \in ArtRow, Commit(d, newR, newA)
  PROVE  art'[d].download = newA.download /\ art'[d].analysis = newA.analysis
  BY DEF Commit, Touched, Inv, Tables, ArtRow

LEMMA ReadFactsKept ==
  ASSUME Inv, NEW w \in Workers, ReadFacts(w)
  PROVE  Effect /\ Inv'
  <1>1. worker[w].pc # "idle" /\ worker[w].msg.stage = "analysis"
    BY DEF ReadFacts, At
  <1>2. Effect
    BY Unmoved DEF ReadFacts, OtherVars
  <1>3. WorkerMoves
    <2>1. CASE \E pc \in {"reconcile", "ack"} : Goto(w, pc)
      BY <1>1, <1>2, <2>1, GotoMoves DEF Steps, Fallible, Late
    <2>2. CASE Goto(w, "start") /\ art[worker[w].msg.doc].download = "stored"
      <3>1. art'[worker[w].msg.doc].download = "stored"
        BY <2>2 DEF ReadFacts, OtherVars
      <3> QED BY <1>1, <1>2, <2>2, <3>1, LateMoves DEF Late
    <2> QED BY <2>1, <2>2 DEF ReadFacts
  <1> QED BY <1>2, <1>3, Unmoved, ProcessesKept DEF ReadFacts, OtherVars

LEMMA ReconcileKept ==
  ASSUME Inv, NEW w \in Workers, Reconcile(w)
  PROVE  Effect /\ Inv'
  <1> DEFINE d == worker[w].msg.doc
  <1>1. /\ worker[w].pc # "idle" /\ d \in Docs /\ Known(d)
        /\ worker[w].msg.stage = "analysis" /\ worker[w].msg.sum \in Sums
    BY StageDocument, MessageKinds DEF Reconcile, At
  <1>2. Effect
    BY <1>1, CommitMoves DEF Reconcile, Transition
  <1>3. art'[d].download = "stored"
    <2> DEFINE newA == DocumentStored(art[d], worker[w].msg.sum)
    <2>1. newA \in ArtRow /\ newA.download = "stored"
      <3>1. PICK a, s : a = art[d] /\ s = worker[w].msg.sum
        OBVIOUS
      <3>2. a \in ArtRow /\ s \in Sums
        BY <1>1, <3>1 DEF Inv, Tables
      <3>3. newA = DocumentStored(a, s)
        BY <3>1
      <3> HIDE DEF newA
      <3> QED BY <3>2, <3>3 DEF DocumentStored, ArtRow, DownloadStatuses, AnalysisStatuses
    <2>2. Commit(d, RunDocumentStored(RunOf(d), art[d]), newA)
      BY DEF Reconcile
    <2> HIDE DEF newA, d
    <2> QED BY <1>1, <2>1, <2>2, CommittedRow
  <1>4. WorkerMoves
    BY <1>1, <1>2, <1>3, LateMoves DEF Reconcile, Late
  <1> QED BY <1>2, <1>4, Unmoved, ProcessesKept DEF Reconcile

LEMMA StartAnalysisKept ==
  ASSUME Inv, NEW w \in Workers, StartAnalysis(w)
  PROVE  Effect /\ Inv'
  <1> DEFINE d == worker[w].msg.doc
  <1>1. /\ worker[w].pc # "idle" /\ d \in Docs /\ Known(d)
        /\ worker[w].msg.stage = "analysis"
    BY StageDocument DEF StartAnalysis, At
  <1>2. art[d].download = "stored"
    BY DEF StartAnalysis, At, Inv, Workforce, WorkerOK, Late
  <1>3. Effect
    BY <1>1, <1>2, CommitMoves DEF StartAnalysis, Transition
  <1>4. art'[d].download = "stored"
    BY <1>1, <1>2, <1>3, SubjectsStay DEF Inv
  <1>5. WorkerMoves
    BY <1>1, <1>3, <1>4, LateMoves DEF StartAnalysis, Late
  <1> QED BY <1>3, <1>5, Unmoved, ProcessesKept DEF StartAnalysis

LEMMA AnalyseKept ==
  ASSUME Inv, NEW w \in Workers, Analyse(w)
  PROVE  Effect /\ Inv'
  <1>1. worker[w].pc # "idle" /\ worker[w].msg.stage = "analysis"
    BY DEF Analyse, At
  <1>2. art'[worker[w].msg.doc].download = "stored"
    BY DEF Analyse, At, Inv, Workforce, WorkerOK, Late, OtherVars
  <1>3. Effect
    BY Unmoved DEF Analyse, OtherVars
  <1>4. WorkerMoves
    BY <1>1, <1>2, <1>3, LateMoves DEF Analyse, Late
  <1> QED BY <1>3, <1>4, Unmoved, ProcessesKept DEF Analyse, OtherVars

LEMMA FinishAnalysisKept ==
  ASSUME Inv, NEW w \in Workers, FinishAnalysis(w)
  PROVE  Effect /\ Inv'
  <1> DEFINE d == worker[w].msg.doc
  <1>1. /\ worker[w].pc # "idle" /\ d \in Docs /\ Known(d)
        /\ worker[w].msg.stage = "analysis"
    BY StageDocument DEF FinishAnalysis, At
  <1>2. art[d].download = "stored"
    BY DEF FinishAnalysis, At, Inv, Workforce, WorkerOK, Late
  <1>3. Effect
    BY <1>1, <1>2, CommitMoves DEF FinishAnalysis, Transition
  <1>4. art'[d].download = "stored" /\ art'[d].analysis = "completed"
    <2> DEFINE newA == AnalysisCompleted(art[d])
    <2>1. newA \in ArtRow /\ newA.download = "stored" /\ newA.analysis = "completed"
      BY <1>1, <1>2 DEF AnalysisCompleted, Inv, Tables, ArtRow, AnalysisStatuses
    <2>2. Commit(d, RunAnalysisCompleted(RunOf(d), art[d]), newA)
      BY DEF FinishAnalysis
    <2> HIDE DEF newA, d
    <2> QED BY <1>1, <2>1, <2>2, CommittedRow
  <1>5. WorkerMoves
    BY <1>1, <1>3, <1>4, LateMoves DEF FinishAnalysis, Late
  <1> QED BY <1>3, <1>5, Unmoved, ProcessesKept DEF FinishAnalysis

LEMMA AlertKept ==
  ASSUME Inv, NEW w \in Workers, Alert(w)
  PROVE  Effect /\ Inv'
  <1>1. /\ worker[w].pc # "idle" /\ worker[w].msg.doc \in Docs
        /\ art[worker[w].msg.doc].analysis = "completed"
    <2>1. worker[w].pc = "alert" /\ worker[w].msg.stage = "analysis"
      BY DEF Alert, At
    <2>2. worker[w].msg.doc \in Docs
      BY StageDocument DEF Alert
    <2> QED BY <2>1, <2>2 DEF Inv, Workforce, WorkerOK
  <1>2. Effect
    BY <1>1 DEF Effect, Alerted, Alert
  <1>3. WorkerMoves
    BY <1>1, <1>2, GotoMoves DEF Alert, Steps, Late
  <1>4. Rest'
    BY <1>1 DEF Alert, Inv, Rest
  <1> QED BY <1>2, <1>3, <1>4, Unmoved, ProcessesKept DEF Alert

(* The sweep, and time. *)

LEMMA SweepQueryKept ==
  ASSUME Inv, SweepQuery
  PROVE  Effect /\ Inv'
  <1>1. Effect
    BY Unmoved DEF SweepQuery
  <1>2. sweep.phase \in SweepPhases
    BY DEF Inv, SweepOK
  <1>3. /\ \A r \in StalledRuns : r \in Runs /\ KnownRun(r)
        /\ \A d \in StalledDownloads \cup StalledAnalyses : d \in Docs /\ Known(d)
    BY DEF StalledRuns, StalledDownloads, StalledAnalyses, KnownRun, Known, Inv, Tables,
           RowOK
  <1>4. PICK phase, todo :
          /\ phase \in SweepPhases
          /\ sweep' = [phase |-> phase, todo |-> todo]
          /\ phase = "runs" => todo = StalledRuns
          /\ phase = "downloads" => todo = StalledDownloads
          /\ phase = "analyses" => todo = StalledAnalyses
          /\ phase = "idle" => todo = {}
    <2> DEFINE phase == AfterPhase[sweep.phase]
    <2>1. phase \in SweepPhases
      BY <1>2 DEF SweepPhases, AfterPhase
    <2> HIDE DEF phase
    <2>2. PICK todo :
            todo = CASE phase = "runs" -> StalledRuns
                     [] phase = "downloads" -> StalledDownloads
                     [] phase = "analyses" -> StalledAnalyses
                     [] phase = "idle" -> {}
      OBVIOUS
    <2>3. sweep' = [phase |-> phase, todo |-> todo]
      BY <2>2 DEF SweepQuery, phase
    <2>4. /\ phase = "runs" => todo = StalledRuns
          /\ phase = "downloads" => todo = StalledDownloads
          /\ phase = "analyses" => todo = StalledAnalyses
          /\ phase = "idle" => todo = {}
      BY <2>2
    <2> QED BY <2>1, <2>3, <2>4
  <1>5. /\ sweep' \in [phase : SweepPhases, todo : SUBSET (Runs \cup Docs)]
        /\ sweep'.phase = phase /\ sweep'.todo = todo
    BY <1>3, <1>4 DEF SweepPhases
  <1>6. UNCHANGED <<run, art>>
    BY DEF SweepQuery
  <1>7. SweepOK(sweep)'
    BY <1>3, <1>4, <1>5, <1>6 DEF SweepOK, KnownRun, Known
  <1> QED BY <1>1, <1>7, Unmoved, ProcessesKept DEF SweepQuery, SweepMoves

LEMMA SweepCloseKept ==
  ASSUME Inv, NEW x \in Runs \cup Docs, SweepClose(x)
  PROVE  Effect /\ Inv'
  <1>1. /\ sweep.phase \in SweepPhases /\ x \in sweep.todo
        /\ sweep.phase = "idle" => sweep.todo = {}
        /\ sweep.phase = "runs" => x \in Runs /\ KnownRun(x)
        /\ sweep.phase \in {"downloads", "analyses"} => x \in Docs /\ Known(x)
    BY DEF Inv, SweepOK, SweepClose
  <1>2. Effect
    <2>1. CASE sweep.phase = "runs"
      <3>1. Alone(run[x], DiscoveryFailed(run[x]))
        BY <1>1, <2>1, KnownRunAlone
      <3> QED BY <1>1, <2>1, <3>1, OneRunMoves DEF SweepClose
    <2>2. CASE sweep.phase = "downloads"
      BY <1>1, <2>2, CommitMoves DEF SweepClose, Transition
    <2>3. CASE sweep.phase = "analyses"
      BY <1>1, <2>3, CommitMoves DEF SweepClose, Transition
    <2> QED BY <1>1, <2>1, <2>2, <2>3 DEF SweepPhases
  <1>3. /\ sweep' \in [phase : SweepPhases, todo : SUBSET (Runs \cup Docs)]
        /\ sweep'.phase = sweep.phase /\ sweep'.todo \subseteq sweep.todo
    BY DEF Inv, SweepOK, SweepClose
  <1>4. SweepOK(sweep)'
    BY <1>2, <1>3, SubjectsStay DEF Inv, SweepOK
  <1> QED BY <1>2, <1>4, Unmoved, ProcessesKept DEF SweepClose, SweepMoves

LEMMA SweepStopsKept ==
  ASSUME Inv, SweepStops
  PROVE  Effect /\ Inv'
  <1>1. Effect
    BY Unmoved DEF SweepStops
  <1>2. SweepOK(sweep)'
    BY DEF SweepStops, SweepOK, SweepPhases
  <1>3. Rest'
    <2>1. faults' \in [{"crash", "error", "duplicate", "redrive"} -> Nat]
      BY FaultCounted DEF SweepStops
    <2> QED BY <2>1 DEF SweepStops, Inv, Rest
  <1> QED BY <1>1, <1>2, <1>3, Unmoved, ProcessesKept DEF SweepStops, SweepMoves

LEMMA RunAgesKept ==
  ASSUME Inv, NEW r \in Runs, RunAges(r)
  PROVE  Effect /\ Inv'
  <1>1. run[r] \in RunRow /\ (run[r].status = "none" => run[r] = NoRun)
    BY DEF Inv, Tables, KnownRun
  <1> DEFINE newR == [run[r] EXCEPT !.queuedAt = Aged(@), !.startedAt = Aged(@)]
  <1>2. Alone(run[r], newR)
    <2>1. /\ newR \in RunRow /\ newR.downloaded = run[r].downloaded
          /\ newR.analyzed = run[r].analyzed /\ newR.failed = run[r].failed
          /\ newR.status = run[r].status
      BY <1>1 DEF RunRow, Aged, Stamps
    <2>2. run[r] = NoRun => newR = run[r]
      <3>1. run[r] = NoRun => run[r].queuedAt = "null" /\ run[r].startedAt = "null"
        BY DEF NoRun
      <3>2. run[r].queuedAt = "null" /\ run[r].startedAt = "null" =>
              newR = [run[r] EXCEPT !.queuedAt = run[r].queuedAt,
                                    !.startedAt = run[r].startedAt]
        BY DEF Aged
      <3>3. newR \in RunRow
        BY <2>1
      <3> HIDE DEF newR
      <3> QED BY <1>1, <3>1, <3>2, <3>3 DEF RunRow
    <2> HIDE DEF newR
    <2> QED BY <1>1, <2>1, <2>2 DEF Alone, Forward, Downstream
  <1>3. run' = [run EXCEPT ![r] = newR]
    BY DEF RunAges
  <1> HIDE DEF newR
  <1>4. Effect
    BY <1>2, <1>3, OneRunMoves DEF RunAges
  <1> QED BY <1>4, Unmoved, ProcessesKept DEF RunAges

LEMMA ArtifactAgesKept ==
  ASSUME Inv, NEW d \in Docs, ArtifactAges(d)
  PROVE  Effect /\ Inv'
  <1>1. Effect
    BY DEF Effect, DayPasses, ArtifactAges
  <1> QED BY <1>1, Unmoved, ProcessesKept DEF ArtifactAges

-----------------------------------------------------------------------------
(* The theorems.                                                           *)

LEMMA InitInv == Init => Inv
  <1> SUFFICES ASSUME Init PROVE Inv
    OBVIOUS
  <1>1. Tables
    BY DEF Init, Tables, RowOK, Known, KnownRun, NoRun, NoArtifact, RunRow, ArtRow, Stamps
  <1>2. Queues
    BY BoundsAssumption DEF Init, Queues, Unsent, QueueRow
  <1>3. Workforce
    BY DEF Init, Workforce, WorkerOK, WorkerRow, Idle, Steps, Late
  <1>4. Calls
    BY DEF Init, Calls, RequestOK, RequestRow, RequestSteps
  <1>5. SweepOK(sweep)
    BY DEF Init, SweepOK, SweepPhases
  <1>6. Rest
    BY DEF Init, Rest
  <1> QED BY <1>1, <1>2, <1>3, <1>4, <1>5, <1>6 DEF Inv

LEMMA StepInv == Inv /\ [Next]_vars => Effect /\ Inv'
  <1> SUFFICES ASSUME Inv, [Next]_vars PROVE Effect /\ Inv'
    OBVIOUS
  <1>1. CASE UNCHANGED vars
    <2>1. Effect
      BY <1>1, Unmoved DEF vars
    <2> QED BY <1>1, <2>1, Unmoved, ProcessesKept DEF vars
  <1>2. ASSUME NEW q \in Requests,
               RequestStep(q) \/ SendDiscoveryFails(q) \/ RequestStops(q)
        PROVE  Effect /\ Inv'
    BY <1>2, GetOrCreateRunKept, SendDiscoveryKept, RunMarkedKept, RequestFaultKept
       DEF RequestStep
  <1>3. ASSUME NEW w \in Workers, WorkerStep(w) \/ Raise(w) \/ Reject(w) \/ Crash(w)
        PROVE  Effect /\ Inv'
    <2>1. CASE DiscoveryStep(w)
      BY <2>1, BeginDiscoveryKept, ListDocumentsKept, FindArtifactKept,
         SkipDocumentKept, SendDownloadKept, CompleteDiscoveryKept DEF DiscoveryStep
    <2>2. CASE DownloadStep(w)
      BY <2>2, LoadArtifactKept, StartDownloadKept, FetchAndPutKept, MarkStoredKept
         DEF DownloadStep
    <2>3. CASE AnalysisStep(w)
      BY <2>3, ReadFactsKept, ReconcileKept, StartAnalysisKept, AnalyseKept,
         FinishAnalysisKept, AlertKept DEF AnalysisStep
    <2> QED BY <1>3, <2>1, <2>2, <2>3, RecordFinalKept, AcknowledgeKept,
               WorkerFaultKept DEF WorkerStep
  <1>4. ASSUME NEW m \in Messages, NEW w \in Workers, Receive(w, m) \/ ReceiveAgain(w, m)
        PROVE  Effect /\ Inv'
    BY <1>4, ReceiveKept
  <1>5. ASSUME NEW m \in Messages, Redrive(m)
        PROVE  Effect /\ Inv'
    BY <1>5, RedriveKept
  <1>6. CASE SweepStep \/ SweepStops
    BY <1>6, SweepQueryKept, SweepCloseKept, SweepStopsKept DEF SweepStep
  <1>7. CASE (\E r \in Runs : RunAges(r)) \/ (\E d \in Docs : ArtifactAges(d))
    BY <1>7, RunAgesKept, ArtifactAgesKept
  <1> QED BY <1>1, <1>2, <1>3, <1>4, <1>5, <1>6, <1>7 DEF Next, FaultStep

LEMMA Invariance == Spec => []Inv
  BY InitInv, StepInv, PTL DEF Spec

LEMMA InvTypes == Inv => TypeOK
  BY DEF Inv, Tables, Queues, Workforce, Calls, Rest, SweepOK, TypeOK, RequestRow

(* The tables, queues and processes of crud/scrape_run and of the three
   stages stay in their types, whatever fails: no row of the database is ever
   written by a transition meant for another state of it. *)
THEOREM TypeCorrect == Spec => []TypeOK
  BY Invariance, InvTypes, PTL

LEMMA CountsInit == Init => \A r \in Runs : CountsAgree(r)
  <1> SUFFICES ASSUME Init, NEW r \in Runs PROVE CountsAgree(r)
    OBVIOUS
  <1>1. /\ StoredOf(r) = {} /\ AnalyzedOf(r) = {}
        /\ UnfetchedOf(r) = {} /\ UnreadOf(r) = {}
    BY DEF Init, StoredOf, AnalyzedOf, UnfetchedOf, UnreadOf, Of, NoArtifact
  <1>2. run[r].downloaded = 0 /\ run[r].analyzed = 0 /\ run[r].failed = 0
    BY DEF Init, NoRun
  <1>3. Cardinality({}) = 0
    BY FS_EmptySet
  <1> QED BY <1>1, <1>2, <1>3 DEF CountsAgree

LEMMA CountsInvariance == Spec => [](\A r \in Runs : CountsAgree(r))
  <1>1. Inv /\ (\A r \in Runs : CountsAgree(r)) /\ [Next]_vars
          => (\A r \in Runs : CountsAgree(r))'
    BY StepInv, CountsKept DEF Inv
  <1> QED BY <1>1, CountsInit, Invariance, PTL DEF Spec

(* items_downloaded and items_analyzed of a run are exactly its stored and its
   analysed documents, for any number of documents, workers, repeated messages
   and faults: each mark_artifact_ function moves its counter with its column. *)
THEOREM CountersHold == Spec => []CountersMatch
  <1>1. (\A r \in Runs : CountsAgree(r)) => CountersMatch
    BY DEF CountsAgree, CountersMatch
  <1> QED BY <1>1, CountsInvariance, PTL

(* items_failed never misses a failed download or analysis. *)
THEOREM FailuresHold == Spec => []FailuresCounted
  <1>1. (\A r \in Runs : CountsAgree(r)) => FailuresCounted
    BY DEF CountsAgree, FailuresCounted
  <1> QED BY <1>1, CountsInvariance, PTL

(* A run that a later stage has never returns to discovery: the guard of every
   discovery transition holds against late and repeated messages, repeated
   requests and the sweep. *)
THEOREM NeverBack == Spec => NoRegress
  <1> DEFINE Onward == \A r \in Runs : run[r].status \in Downstream =>
       run'[r].status \notin {"enqueueing", "queued", "discovering"}
  <1>1. Inv /\ [Next]_vars => [Onward]_vars
    BY StepInv, TablesKept DEF Inv, Grows, Forward
  <1> HIDE DEF Onward
  <1>2. Spec => [][Onward]_vars
    BY <1>1, Invariance, PTL DEF Spec
  <1> QED BY <1>2 DEF NoRegress, Onward

(* The pipeline implements DocumentLife: a document keeps its first run, a
   stored copy is never fetched again, a read document stays read, and only a
   document that was read is alerted. *)
THEOREM LifeHolds == Spec => LifeKept
  <1>1. Init => Life!Init
    BY DEF Init, Life!Init, Stage, NoArtifact
  <1>2. Inv /\ [Next]_vars => [Life!Next]_<<stages, owners, alerted>>
    BY StepInv, LifeStep DEF Inv
  <1>3. Spec => [][Life!Next]_<<stages, owners, alerted>>
    BY <1>2, Invariance, PTL DEF Spec
  <1> QED BY <1>1, <1>3, PTL DEF Spec, LifeKept, Life!Spec, stages, owners

-----------------------------------------------------------------------------
(***************************************************************************)
(* What the queues of ScrapePipeline keep: a message is gone only when its *)
(* work is recorded.  The facts about single steps come first: what a step *)
(* does to the queues and to the containers (Handled), and what it does to *)
(* the rows of the tables (Booked).  Each theorem then says what a message *)
(* that is still owed stands for, and that no step breaks it.              *)
(***************************************************************************)

(* What a step does to a container and to its record.                      *)

(* Worker w goes on to step p with its record; no other worker moves. *)
Goes(w, p) ==
  /\ worker[w].pc # "idle" /\ p # "idle"
  /\ worker'[w].pc = p
  /\ worker'[w].msg = worker[w].msg
  /\ \A v \in Workers \ {w} : worker'[v] = worker[v]

(* The work of w on its record is as it was. *)
SameWork(w) ==
  /\ worker'[w].todo = worker[w].todo
  /\ worker'[w].doc = worker[w].doc
  /\ worker'[w].sum = worker[w].sum
  /\ worker'[w].queued = worker[w].queued

(* Worker w is idle again; no other worker moves. *)
Drops(w) ==
  /\ worker[w].pc # "idle"
  /\ worker'[w] = Idle
  /\ \A v \in Workers \ {w} : worker'[v] = worker[v]

(* Replacing one worker's state leaves every other worker's alone. *)
LEMMA WorkerTurns ==
  ASSUME Inv, NEW w \in Workers, NEW y, worker' = [worker EXCEPT ![w] = y]
  PROVE  /\ worker'[w] = y
         /\ \A v \in Workers \ {w} : worker'[v] = worker[v]
  BY DEF Inv, Workforce

(* Goto changes a worker's step alone. *)
LEMMA GotoIs ==
  ASSUME Inv, NEW w \in Workers, worker[w].pc # "idle", NEW p, p # "idle", Goto(w, p)
  PROVE  Goes(w, p) /\ SameWork(w)
  <1>1. PICK y : y = [worker[w] EXCEPT !.pc = p]
    OBVIOUS
  <1>2. worker' = [worker EXCEPT ![w] = y]
    BY <1>1 DEF Goto
  <1>3. /\ y.pc = p /\ y.msg = worker[w].msg /\ y.todo = worker[w].todo
        /\ y.doc = worker[w].doc /\ y.sum = worker[w].sum
        /\ y.queued = worker[w].queued
    BY <1>1 DEF Inv, Workforce, WorkerRow
  <1> QED BY <1>2, <1>3, WorkerTurns DEF Goes, SameWork

(* A worker that is made idle drops its record. *)
LEMMA DropIs ==
  ASSUME Inv, NEW w \in Workers, worker[w].pc # "idle",
         worker' = [worker EXCEPT ![w] = Idle]
  PROVE  Drops(w)
  BY WorkerTurns DEF Drops

(* A container that receives a message begins with it. *)
LEMMA ReceivesIs ==
  ASSUME Inv, NEW w \in Workers, NEW m \in Messages, Receives(w, m)
  PROVE  /\ worker[w] = Idle
         /\ worker'[w].pc = "begin" /\ worker'[w].msg = m /\ worker'[w].queued = 0
         /\ \A v \in Workers \ {w} : worker'[v] = worker[v]
         /\ queue'[m].place = "inflight"
         /\ \A k \in Messages \ {m} : queue'[k] = queue[k]
  <1>1. PICK y : y = [Idle EXCEPT !.pc = "begin", !.msg = m,
                                  !.final = queue[m].receives + 1 >= MaxReceives]
    OBVIOUS
  <1>2. y.pc = "begin" /\ y.msg = m /\ y.queued = 0
    BY <1>1 DEF Idle
  <1>3. worker' = [worker EXCEPT ![w] = y]
    BY <1>1 DEF Receives
  <1>4. /\ queue'[m].place = "inflight"
        /\ \A k \in Messages \ {m} : queue'[k] = queue[k]
    BY DEF Receives, Inv, Queues, QueueRow
  <1> QED BY <1>2, <1>3, <1>4, WorkerTurns DEF Receives

(* The steps of a discovery. *)

(* begin_discovery leaves the count of queued documents alone. *)
LEMMA BeginDiscoveryIs ==
  ASSUME Inv, NEW w \in Workers, BeginDiscovery(w)
  PROVE  /\ At(w, "discovery", "begin") /\ Goes(w, "list") /\ SameWork(w)
  BY GotoIs DEF BeginDiscovery, At

(* A discovery starts its list with the count it had. *)
LEMMA ListDocumentsIs ==
  ASSUME Inv, NEW w \in Workers, ListDocuments(w)
  PROVE  /\ At(w, "discovery", "list") /\ Goes(w, "each")
         /\ worker'[w].todo \in Listings
         /\ worker'[w].queued = worker[w].queued
  <1>1. PICK listing \in Listings :
          worker' = [worker EXCEPT ![w].pc = "each", ![w].todo = listing]
    BY DEF ListDocuments
  <1>2. PICK y : y = [worker[w] EXCEPT !.pc = "each", !.todo = listing]
    OBVIOUS
  <1>3. worker' = [worker EXCEPT ![w] = y]
    BY <1>1, <1>2
  <1>4. /\ y.pc = "each" /\ y.msg = worker[w].msg /\ y.todo = listing
        /\ y.queued = worker[w].queued
    BY <1>2 DEF Inv, Workforce, WorkerRow
  <1> QED BY <1>3, <1>4, WorkerTurns DEF Goes, ListDocuments, At

(* A document that is found is the next one to send. *)
LEMMA FindArtifactIs ==
  ASSUME Inv, NEW w \in Workers, NEW d \in Docs, FindArtifact(w, d)
  PROVE  /\ Takes(w, d) /\ At(w, "discovery", "each") /\ Goes(w, "send")
         /\ worker'[w].todo = worker[w].todo \ {d}
         /\ worker'[w].doc = d
         /\ worker'[w].queued = worker[w].queued
  <1>1. PICK y : y = [worker[w] EXCEPT !.pc = "send", !.doc = d, !.todo = @ \ {d}]
    OBVIOUS
  <1>2. worker' = [worker EXCEPT ![w] = y]
    BY <1>1 DEF FindArtifact
  <1>3. /\ y.pc = "send" /\ y.msg = worker[w].msg /\ y.todo = worker[w].todo \ {d}
        /\ y.doc = d /\ y.queued = worker[w].queued
    BY <1>1 DEF Inv, Workforce, WorkerRow
  <1> QED BY <1>2, <1>3, WorkerTurns DEF Goes, FindArtifact, Takes, At

(* A document that is skipped is only taken off the list. *)
LEMMA SkipDocumentIs ==
  ASSUME Inv, NEW w \in Workers, NEW d \in Docs, SkipDocument(w, d)
  PROVE  /\ Takes(w, d) /\ At(w, "discovery", "each") /\ Goes(w, "each")
         /\ worker'[w].todo = worker[w].todo \ {d}
         /\ worker'[w].queued = worker[w].queued
  <1>1. PICK y : y = [worker[w] EXCEPT !.todo = @ \ {d}]
    OBVIOUS
  <1>2. worker' = [worker EXCEPT ![w] = y]
    BY <1>1 DEF SkipDocument
  <1>3. /\ y.pc = worker[w].pc /\ y.msg = worker[w].msg
        /\ y.todo = worker[w].todo \ {d} /\ y.queued = worker[w].queued
    BY <1>1 DEF Inv, Workforce, WorkerRow
  <1> QED BY <1>2, <1>3, WorkerTurns DEF Goes, SkipDocument, Takes, At

(* A document that is sent is counted. *)
LEMMA SendDownloadIs ==
  ASSUME Inv, NEW w \in Workers, NEW n \in Slots, SendDownload(w, n)
  PROVE  /\ At(w, "discovery", "send") /\ Goes(w, "each")
         /\ worker[w].doc \in Docs
         /\ worker'[w].todo = worker[w].todo
         /\ worker'[w].queued = worker[w].queued + 1
  <1>1. PICK y : y = [worker[w] EXCEPT !.pc = "each", !.doc = None, !.queued = @ + 1]
    OBVIOUS
  <1>2. worker' = [worker EXCEPT ![w] = y]
    BY <1>1 DEF SendDownload
  <1>3. /\ y.pc = "each" /\ y.msg = worker[w].msg /\ y.todo = worker[w].todo
        /\ y.queued = worker[w].queued + 1
    BY <1>1 DEF Inv, Workforce, WorkerRow
  <1>4. worker[w].doc \in Docs
    BY DEF SendDownload, At, Inv, Workforce, WorkerOK
  <1> QED BY <1>2, <1>3, <1>4, WorkerTurns DEF Goes, SendDownload, At

(* A completed discovery goes on to its acknowledgement. *)
LEMMA CompleteDiscoveryIs ==
  ASSUME Inv, NEW w \in Workers, CompleteDiscovery(w)
  PROVE  At(w, "discovery", "each") /\ Goes(w, "ack")
  <1>1. PICK y : y = [worker[w] EXCEPT !.pc = "ack", !.todo = {}, !.queued = 0]
    OBVIOUS
  <1>2. worker' = [worker EXCEPT ![w] = y]
    BY <1>1 DEF CompleteDiscovery
  <1>3. y.pc = "ack" /\ y.msg = worker[w].msg
    BY <1>1 DEF Inv, Workforce, WorkerRow
  <1> QED BY <1>2, <1>3, WorkerTurns DEF Goes, CompleteDiscovery, At

(* The steps of a download that do more than go on. *)

(* A container remembers the contents it has put. *)
LEMMA FetchAndPutIs ==
  ASSUME Inv, NEW w \in Workers, NEW s \in Sums, FetchAndPut(w, s)
  PROVE  At(w, "download", "fetch") /\ Goes(w, "store") /\ worker'[w].sum = s
  <1>1. PICK y : y = [worker[w] EXCEPT !.pc = "store", !.sum = s]
    OBVIOUS
  <1>2. worker' = [worker EXCEPT ![w] = y]
    BY <1>1 DEF FetchAndPut
  <1>3. y.pc = "store" /\ y.msg = worker[w].msg /\ y.sum = s
    BY <1>1 DEF Inv, Workforce, WorkerRow
  <1> QED BY <1>2, <1>3, WorkerTurns DEF Goes, FetchAndPut, At

(* A recorded download goes on to its acknowledgement. *)
LEMMA MarkStoredIs ==
  ASSUME Inv, NEW w \in Workers, MarkStored(w)
  PROVE  At(w, "download", "store") /\ Goes(w, "ack")
  <1>1. PICK y : y = [worker[w] EXCEPT !.pc = "ack", !.sum = None]
    OBVIOUS
  <1>2. worker' = [worker EXCEPT ![w] = y]
    BY <1>1 DEF MarkStored
  <1>3. y.pc = "ack" /\ y.msg = worker[w].msg
    BY <1>1 DEF Inv, Workforce, WorkerRow
  <1> QED BY <1>2, <1>3, WorkerTurns DEF Goes, MarkStored, At

-----------------------------------------------------------------------------
(* What a step does to the queues.                                         *)

(* A message of the analysis stage is the notification of its object. *)
LEMMA AnalysisIs ==
  /\ \A d \in Docs, s \in Sums :
       /\ Analysis(d, s) \in Messages
       /\ Analysis(d, s).stage = "analysis"
       /\ Analysis(d, s).doc = d /\ Analysis(d, s).sum = s
  /\ \A m \in Messages : m.stage = "analysis" =>
       m.doc \in Docs /\ m.sum \in Sums /\ m = Analysis(m.doc, m.sum)
  BY DEF Messages, DiscoveryMessages, DownloadMessages, AnalysisMessages, Analysis

(* The object that a message of the analysis stage announces. *)
Object(m) == <<m.doc, m.sum>>

(* A message is sent when no copy of it is left, moved back from its
   dead-letter queue, or announces a new object. *)
Puts(m) ==
  /\ queue' = [queue EXCEPT ![m] = Visible]
  /\ UNCHANGED worker \/ \E w \in Workers : \E p : Goes(w, p)
  /\ \/ /\ m.stage # "analysis" /\ Free(m)
        /\ UNCHANGED objects
     \/ /\ queue[m].place = "dead" /\ faults.redrive < MaxRedrives
        /\ UNCHANGED objects
     \/ /\ m.stage = "analysis" /\ Object(m) \notin objects
        /\ objects' = objects \cup {Object(m)}

(* A message is handed to an idle container: for the first time since it was
   shown, or once more while another container has it. *)
Hands(w, m) ==
  /\ worker[w].pc = "idle" /\ worker[w].msg = None
  /\ \/ queue[m].place = "visible"
     \/ queue[m].place = "inflight" /\ faults.duplicate < MaxDuplicates
  /\ worker'[w].pc = "begin" /\ worker'[w].msg = m
  /\ \A v \in Workers \ {w} : worker'[v] = worker[v]
  /\ queue'[m].place = "inflight"
  /\ \A k \in Messages \ {m} : queue'[k] = queue[k]
  /\ UNCHANGED objects

Deletes(w) ==
  /\ worker[w].pc = "ack" /\ Drops(w)
  /\ queue' = [queue EXCEPT ![worker[w].msg] = Unsent]
  /\ UNCHANGED objects

Returns(w) ==
  /\ Drops(w)
  /\ queue' = Released(w)
  /\ UNCHANGED objects

Handled ==
  \/ UNCHANGED <<queue, worker, objects>>
  \/ \E w \in Workers : (\E p : Goes(w, p)) /\ UNCHANGED <<queue, objects>>
  \/ \E m \in Messages : Puts(m)
  \/ \E w \in Workers, m \in Messages : Hands(w, m)
  \/ \E w \in Workers : Deletes(w) \/ Returns(w)

(* A container that goes on, while queues and objects are left alone, is the
   most common step. *)
LEMMA GoingIsHandled ==
  ASSUME NEW w \in Workers, NEW p, Goes(w, p), UNCHANGED <<queue, objects>>
  PROVE  Handled
  BY DEF Handled

(* A call of request_scrape_run can only send a discovery message. *)
LEMMA RequestsHandled ==
  ASSUME Inv, NEW q \in Requests,
         RequestStep(q) \/ SendDiscoveryFails(q) \/ RequestStops(q)
  PROVE  Handled
  <1>1. CASE UNCHANGED <<queue, worker, objects>>
    BY <1>1 DEF Handled
  <1>2. ASSUME NEW n \in Slots, SendDiscovery(q, n)
        PROVE  Handled
    <2>1. PICK m : m = Discovery(request[q].run, n)
      OBVIOUS
    <2>2. m \in Messages /\ m.stage # "analysis"
      BY <1>2, <2>1, MessageKinds DEF SendDiscovery, Inv, Calls, RequestOK
    <2>3. Puts(m)
      BY <1>2, <2>1, <2>2 DEF SendDiscovery, ServerVars, FirstFree, Puts
    <2> QED BY <2>2, <2>3 DEF Handled
  <1> QED BY <1>1, <1>2 DEF RequestStep, GetOrCreateRun, ReopenRun, MarkQueued, MarkUnsent,
            SendDiscoveryFails, RequestStops, ServerVars

(* A discovery can only send download messages. *)
LEMMA DiscoveryHandled ==
  ASSUME Inv, NEW w \in Workers, DiscoveryStep(w)
  PROVE  Handled
  <1>1. CASE BeginDiscovery(w)
    BY <1>1, BeginDiscoveryIs, GoingIsHandled DEF BeginDiscovery
  <1>2. CASE ListDocuments(w)
    BY <1>2, ListDocumentsIs, GoingIsHandled DEF ListDocuments, OtherVars
  <1>3. CASE CompleteDiscovery(w)
    BY <1>3, CompleteDiscoveryIs, GoingIsHandled DEF CompleteDiscovery
  <1>4. ASSUME NEW d \in Docs, FindArtifact(w, d)
        PROVE  Handled
    BY <1>4, FindArtifactIs, GoingIsHandled DEF FindArtifact
  <1>5. ASSUME NEW d \in Docs, SkipDocument(w, d)
        PROVE  Handled
    BY <1>5, SkipDocumentIs, GoingIsHandled DEF SkipDocument, OtherVars
  <1>6. ASSUME NEW n \in Slots, SendDownload(w, n)
        PROVE  Handled
    <2>1. Goes(w, "each") /\ worker[w].doc \in Docs
      BY <1>6, SendDownloadIs
    <2>2. PICK m : m = Download(worker[w].doc, n)
      OBVIOUS
    <2>3. m \in Messages /\ m.stage # "analysis"
      BY <2>1, <2>2, MessageKinds
    <2>4. Puts(m)
      BY <1>6, <2>1, <2>2, <2>3 DEF SendDownload, FirstFree, Puts
    <2> QED BY <2>3, <2>4 DEF Handled
  <1> QED BY <1>1, <1>2, <1>3, <1>4, <1>5, <1>6 DEF DiscoveryStep

(* A download can only put an object, which announces itself. *)
LEMMA DownloadHandled ==
  ASSUME Inv, NEW w \in Workers, DownloadStep(w)
  PROVE  Handled
  <1>1. CASE LoadArtifact(w)
    <2>1. PICK p \in {"ack", "start"} : Goto(w, p)
      BY <1>1 DEF LoadArtifact
    <2>2. worker[w].pc # "idle" /\ UNCHANGED <<queue, objects>>
      BY <1>1 DEF LoadArtifact, At, OtherVars
    <2> QED BY <2>1, <2>2, GotoIs, GoingIsHandled
  <1>2. CASE StartDownload(w)
    BY <1>2, GotoIs, GoingIsHandled DEF StartDownload, At
  <1>3. CASE MarkStored(w)
    BY <1>3, MarkStoredIs, GoingIsHandled DEF MarkStored
  <1>4. ASSUME NEW s \in Sums, FetchAndPut(w, s)
        PROVE  Handled
    <2> DEFINE d == worker[w].msg.doc
    <2>1. Goes(w, "store") /\ d \in Docs
      BY <1>4, FetchAndPutIs, StageDocument DEF FetchAndPut
    <2>2. CASE <<d, s>> \in objects
      <3>1. UNCHANGED <<queue, objects>>
        BY <1>4, <2>2 DEF FetchAndPut
      <3> QED BY <2>1, <3>1, GoingIsHandled
    <2>3. CASE <<d, s>> \notin objects
      <3>1. PICK m : m = Analysis(d, s)
        OBVIOUS
      <3>2. m \in Messages /\ m.stage = "analysis" /\ Object(m) = <<d, s>>
        BY <2>1, <3>1, AnalysisIs DEF Object
      <3>3. Puts(m)
        BY <1>4, <2>1, <2>3, <3>1, <3>2 DEF FetchAndPut, Puts
      <3> QED BY <3>2, <3>3 DEF Handled
    <2> QED BY <2>2, <2>3
  <1> QED BY <1>1, <1>2, <1>3, <1>4 DEF DownloadStep

(* An analysis leaves queues and objects alone. *)
LEMMA AnalysisHandled ==
  ASSUME Inv, NEW w \in Workers, AnalysisStep(w)
  PROVE  Handled
  <1>1. /\ worker[w].pc # "idle"
        /\ \E p \in {"reconcile", "ack", "start", "analyse", "finish", "alert"} : Goto(w, p)
    BY DEF AnalysisStep, ReadFacts, Reconcile, StartAnalysis, Analyse, FinishAnalysis,
           Alert, At
  <1>2. UNCHANGED <<queue, objects>>
    BY DEF AnalysisStep, ReadFacts, Reconcile, StartAnalysis, Analyse, FinishAnalysis,
           Alert, OtherVars
  <1> QED BY <1>1, <1>2, GotoIs, GoingIsHandled

(* A record ends deleted or back in its queue. *)
LEMMA RecordsHandled ==
  ASSUME Inv, NEW w \in Workers,
         RecordFinal(w) \/ Acknowledge(w) \/ Raise(w) \/ Reject(w) \/ Crash(w)
  PROVE  Handled
  <1>1. worker[w].pc # "idle" /\ UNCHANGED objects
    BY DEF RecordFinal, Acknowledge, Raise, Reject, Crash, Fallible, Rejectable, OtherVars
  <1>2. CASE UNCHANGED queue /\ \E p \in {"ack", "rejected", "given up"} : Goto(w, p)
    BY <1>1, <1>2, GotoIs, GoingIsHandled
  <1>3. CASE queue' = Released(w) /\ worker' = [worker EXCEPT ![w] = Idle]
    BY <1>1, <1>3, DropIs DEF Handled, Returns
  <1>4. CASE Acknowledge(w)
    BY <1>1, <1>4, DropIs DEF Acknowledge, Handled, Deletes
  <1> QED BY <1>2, <1>3, <1>4 DEF RecordFinal, Raise, Reject, Crash

(* A delivery hands one message to one idle container. *)
LEMMA ReceiptHandled ==
  ASSUME Inv, NEW w \in Workers, NEW m \in Messages, Receive(w, m) \/ ReceiveAgain(w, m)
  PROVE  Handled
  <1>1. Receives(w, m)
    BY DEF Receive, ReceiveAgain
  <1>2. /\ worker[w].pc = "idle" /\ worker[w].msg = None
    BY <1>1 DEF Receives, Idle
  <1>3. \/ queue[m].place = "visible"
        \/ queue[m].place = "inflight" /\ faults.duplicate < MaxDuplicates
    BY DEF Receive, ReceiveAgain, Fault
  <1>4. Hands(w, m)
    BY <1>1, <1>2, <1>3, ReceivesIs DEF Hands, Receives, OtherVars
  <1> QED BY <1>4 DEF Handled

(* Every step handles queues and containers in one of these ways. *)
LEMMA StepHandled ==
  ASSUME Inv, [Next]_vars
  PROVE  Handled
  <1>1. CASE UNCHANGED <<queue, worker, objects>>
    BY <1>1 DEF Handled
  <1>2. ASSUME NEW m \in Messages, Redrive(m)
        PROVE  Handled
    BY <1>2 DEF Redrive, Fault, Handled, Puts, OtherVars
  <1>3. CASE SweepStep \/ SweepStops \/ UNCHANGED vars
             \/ (\E r \in Runs : RunAges(r)) \/ (\E d \in Docs : ArtifactAges(d))
    BY <1>1, <1>3 DEF SweepStep, SweepQuery, SweepClose, SweepStops, RunAges, ArtifactAges,
                      vars
  <1> QED BY <1>2, <1>3, RequestsHandled, DiscoveryHandled, DownloadHandled,
             AnalysisHandled, RecordsHandled, ReceiptHandled
          DEF Next, FaultStep, WorkerStep

-----------------------------------------------------------------------------
(* Who has which message.                                                  *)

(* An idle container has no message. *)
Rested == \A w \in Workers : worker[w].pc = "idle" => worker[w].msg = None

(* A message that waits in a queue is in no container. *)
Waits == \A m \in Messages : queue[m].place \in {"visible", "dead"} => Holders(m) = {}

(* A document that is not stored yet was never announced. *)
Absent == \A d \in Docs, s \in Sums : <<d, s>> \notin objects => Free(Analysis(d, s))

Custody == Rested /\ Waits /\ Absent

(* Without a second delivery, a message is in one container at most, and as
   long as it is there it is in flight. *)
HeldAlone ==
  \A w \in Workers : worker[w].pc # "idle" =>
    /\ queue[worker[w].msg].place = "inflight"
    /\ \A v \in Workers : worker[v].msg = worker[w].msg => v = w

(* The work of a message that is owed is still to be done: it waits, or a
   container has it and none is through with it. *)
Owed(m) ==
  \/ queue[m].place \in {"visible", "dead"}
  \/ /\ queue[m].place = "inflight"
     /\ Holders(m) # {}
     /\ \A w \in Holders(m) : worker[w].pc # "ack"

(* Going on with a record moves no message to another container. *)
LEMMA GoingHolds ==
  ASSUME NEW w \in Workers, NEW p, Goes(w, p), NEW m
  PROVE  Holders(m)' = Holders(m)
  BY DEF Goes, Holders

(* A container that drops its message leaves it to the others. *)
LEMMA DroppingHolds ==
  ASSUME Inv, NEW w \in Workers, Drops(w), NEW m \in Messages
  PROVE  /\ worker[w].msg \in Messages /\ w \in Holders(worker[w].msg)
         /\ Holders(m)' = Holders(m) \ {w}
         /\ m # worker[w].msg => w \notin Holders(m)
  <1>1. worker'[w].msg # m
    BY NoneAssumption DEF Drops, Idle
  <1>2. worker[w].msg \in Messages
    BY WorkerMessage DEF Drops
  <1> QED BY <1>1, <1>2 DEF Drops, Holders

(* A container that is handed a message joins those that have it. *)
LEMMA HandingHolds ==
  ASSUME Inv, NEW w \in Workers, NEW k \in Messages, Hands(w, k), NEW m \in Messages
  PROVE  /\ Holders(m)' = IF m = k THEN Holders(m) \cup {w} ELSE Holders(m)
         /\ w \notin Holders(m)
  <1>1. worker[w].msg # m
    BY NoneAssumption DEF Hands
  <1> QED BY <1>1 DEF Hands, Holders

(* Returning a message changes its own row alone, and that only when no other
   container has it. *)
LEMMA ReleasedIs ==
  ASSUME Inv, NEW w \in Workers, worker[w].msg \in Messages, queue' = Released(w)
  PROVE  /\ \A k \in Messages \ {worker[w].msg} : queue'[k] = queue[k]
         /\ IF Holders(worker[w].msg) = {w} /\ queue[worker[w].msg].place = "inflight"
            THEN queue'[worker[w].msg].place \in {"dead", "visible"}
            ELSE queue'[worker[w].msg] = queue[worker[w].msg]
  <1>1. PICK m : m = worker[w].msg
    OBVIOUS
  <1>2. PICK p \in {"dead", "visible"} :
          queue' = IF ~(Holders(m) = {w} /\ queue[m].place = "inflight") THEN queue
                   ELSE [queue EXCEPT ![m].place = p]
    <2>1. CASE queue[m].receives >= MaxReceives
      BY <1>1, <2>1 DEF Released
    <2>2. CASE ~(queue[m].receives >= MaxReceives)
      BY <1>1, <2>2 DEF Released
    <2> QED BY <2>1, <2>2
  <1>3. m \in Messages
    BY <1>1
  <1> QED BY <1>1, <1>2, <1>3 DEF Inv, Queues, QueueRow

(* A message that was put is visible, and no other message moved. *)
LEMMA PuttingIs ==
  ASSUME Inv, NEW m \in Messages, Puts(m), NEW k \in Messages
  PROVE  /\ queue'[m].place = "visible"
         /\ k # m => queue'[k] = queue[k]
         /\ Holders(k)' = Holders(k)
  <1>1. Holders(k)' = Holders(k)
    <2>1. CASE UNCHANGED worker
      BY <2>1 DEF Holders
    <2> QED BY <2>1, GoingHolds DEF Puts
  <1> QED BY <1>1 DEF Puts, Visible, Inv, Queues

(* A deleted message is gone, and no other message moved. *)
LEMMA DeletingIs ==
  ASSUME Inv, NEW w \in Workers, Deletes(w), NEW k \in Messages
  PROVE  /\ queue'[worker[w].msg].place = "none"
         /\ k # worker[w].msg => queue'[k] = queue[k]
  <1>1. worker[w].msg \in Messages
    BY DroppingHolds DEF Deletes
  <1> QED BY <1>1 DEF Deletes, Unsent, Inv, Queues

(* No step leaves a message with an idle container. *)
LEMMA RestedKept ==
  ASSUME Inv, Rested, Handled
  PROVE  Rested'
  BY DEF Rested, Handled, Goes, Puts, Hands, Deletes, Returns, Drops, Idle

(* No step shows a message that a container still has. *)
LEMMA WaitsKept ==
  ASSUME Inv, Custody, Handled
  PROVE  Waits'
  <1> SUFFICES ASSUME NEW m \in Messages, queue'[m].place \in {"visible", "dead"}
               PROVE  Holders(m)' = {}
    BY DEF Waits
  <1>0. queue[m].place \in {"visible", "dead"} => Holders(m) = {}
    BY DEF Custody, Waits
  <1>1. CASE UNCHANGED <<queue, worker, objects>>
    BY <1>0, <1>1 DEF Holders
  <1>2. ASSUME NEW w \in Workers, NEW p, Goes(w, p), UNCHANGED <<queue, objects>>
        PROVE  Holders(m)' = {}
    BY <1>0, <1>2, GoingHolds
  <1>3. ASSUME NEW k \in Messages, Puts(k)
        PROVE  Holders(m)' = {}
    <2>1. CASE k # m
      BY <1>0, <1>3, <2>1, PuttingIs
    <2>2. CASE k = m
      <3>1. Holders(m) = {}
        <4>1. CASE Free(m)
          BY <4>1 DEF Free
        <4>2. CASE queue[m].place = "dead"
          BY <1>0, <4>2
        <4>3. CASE m.stage = "analysis" /\ Object(m) \notin objects
          BY <4>3, AnalysisIs DEF Custody, Absent, Object, Free
        <4> QED BY <1>3, <2>2, <4>1, <4>2, <4>3 DEF Puts
      <3> QED BY <1>3, <2>2, <3>1, PuttingIs
    <2> QED BY <2>1, <2>2
  <1>4. ASSUME NEW w \in Workers, NEW k \in Messages, Hands(w, k)
        PROVE  Holders(m)' = {}
    <2>1. m # k
      BY <1>4 DEF Hands
    <2> QED BY <1>0, <1>4, <2>1, HandingHolds DEF Hands
  <1>5. ASSUME NEW w \in Workers, Deletes(w)
        PROVE  Holders(m)' = {}
    <2>1. m # worker[w].msg
      BY <1>5, DeletingIs
    <2> QED BY <1>0, <1>5, <2>1, DeletingIs, DroppingHolds DEF Deletes
  <1>6. ASSUME NEW w \in Workers, Returns(w)
        PROVE  Holders(m)' = {}
    <2>1. worker[w].msg \in Messages /\ Holders(m)' = Holders(m) \ {w}
      BY <1>6, DroppingHolds DEF Returns
    <2> QED BY <1>0, <1>6, <2>1, ReleasedIs DEF Returns
  <1> QED BY <1>1, <1>2, <1>3, <1>4, <1>5, <1>6 DEF Handled

(* No step announces an object that was not put. *)
LEMMA AbsentKept ==
  ASSUME Inv, Custody, Handled
  PROVE  Absent'
  <1> SUFFICES ASSUME NEW d \in Docs, NEW s \in Sums, <<d, s>> \notin objects'
               PROVE  Free(Analysis(d, s))'
    BY DEF Absent
  <1>0. PICK m : m = Analysis(d, s)
    OBVIOUS
  <1>1. m \in Messages /\ m.stage = "analysis" /\ Object(m) = <<d, s>>
    BY <1>0, AnalysisIs DEF Object
  <1>2. objects \subseteq objects'
    BY DEF Handled, Puts, Hands, Deletes, Returns
  <1>3. queue[m].place = "none" /\ Holders(m) = {}
    BY <1>0, <1>2 DEF Custody, Absent, Free
  <1>4. queue'[m].place = "none" /\ Holders(m)' = {}
    <2>1. CASE UNCHANGED <<queue, worker, objects>>
      BY <1>3, <2>1 DEF Holders
    <2>2. ASSUME NEW w \in Workers, NEW p, Goes(w, p), UNCHANGED <<queue, objects>>
          PROVE  queue'[m].place = "none" /\ Holders(m)' = {}
      BY <1>3, <2>2, GoingHolds
    <2>3. ASSUME NEW k \in Messages, Puts(k)
          PROVE  queue'[m].place = "none" /\ Holders(m)' = {}
      <3>1. k # m
        BY <1>1, <1>3, <2>3 DEF Puts
      <3> QED BY <1>1, <1>3, <2>3, <3>1, PuttingIs
    <2>4. ASSUME NEW w \in Workers, NEW k \in Messages, Hands(w, k)
          PROVE  queue'[m].place = "none" /\ Holders(m)' = {}
      <3>1. m # k
        BY <1>3, <2>4 DEF Hands
      <3> QED BY <1>1, <1>3, <2>4, <3>1, HandingHolds DEF Hands
    <2>5. ASSUME NEW w \in Workers, Deletes(w) \/ Returns(w)
          PROVE  queue'[m].place = "none" /\ Holders(m)' = {}
      <3>1. worker[w].msg \in Messages /\ m # worker[w].msg /\ Holders(m)' = {}
        BY <1>1, <1>3, <2>5, DroppingHolds DEF Deletes, Returns
      <3> QED BY <1>1, <1>3, <2>5, <3>1, DeletingIs, ReleasedIs DEF Returns
    <2> QED BY <2>1, <2>2, <2>3, <2>4, <2>5 DEF Handled
  <1> QED BY <1>0, <1>4 DEF Free, Holders, Analysis

(* Where messages are is kept by every step, whatever fails. *)
LEMMA CustodyKept ==
  ASSUME Inv, Custody, [Next]_vars
  PROVE  Custody'
  BY StepHandled, RestedKept, WaitsKept, AbsentKept DEF Custody

LEMMA CustodyInit == Init => Custody
  BY MessageKinds, AnalysisIs, NoneAssumption
     DEF Init, Custody, Rested, Waits, Absent, Free, Holders, Idle, Unsent

LEMMA CustodyInvariance == Spec => []Custody
  BY CustodyInit, CustodyKept, Invariance, PTL DEF Spec

(* What is owed stays owed until a container is through with it. *)
LEMMA OwedKept ==
  ASSUME Inv, Custody, [Next]_vars, NEW m \in Messages, Owed(m),
         \A w \in Workers : worker[w].msg = m => ~Goes(w, "ack")
  PROVE  Owed(m)'
  <1>0. /\ queue[m].place \in {"visible", "dead"} => Holders(m) = {}
        /\ Handled
    BY StepHandled DEF Custody, Waits
  <1>1. CASE UNCHANGED <<queue, worker, objects>>
    BY <1>1 DEF Owed, Holders
  <1>2. ASSUME NEW w \in Workers, NEW p, Goes(w, p), UNCHANGED <<queue, objects>>
        PROVE  Owed(m)'
    <2>1. Holders(m)' = Holders(m)
      BY <1>2, GoingHolds
    <2>2. \A v \in Holders(m) : worker[v].pc # "ack" => worker'[v].pc # "ack"
      BY <1>2 DEF Goes, Holders
    <2> QED BY <1>2, <2>1, <2>2 DEF Owed
  <1>3. ASSUME NEW k \in Messages, Puts(k)
        PROVE  Owed(m)'
    <2>1. CASE k = m
      BY <1>3, <2>1, PuttingIs DEF Owed
    <2>2. CASE k # m
      <3>1. queue'[m] = queue[m] /\ Holders(m)' = Holders(m)
        BY <1>3, <2>2, PuttingIs
      <3>2. \A v \in Holders(m) : worker[v].pc # "ack" => worker'[v].pc # "ack"
        BY <1>3 DEF Puts, Goes, Holders
      <3> QED BY <3>1, <3>2 DEF Owed
    <2> QED BY <2>1, <2>2
  <1>4. ASSUME NEW w \in Workers, NEW k \in Messages, Hands(w, k)
        PROVE  Owed(m)'
    <2>1. /\ Holders(m)' = IF m = k THEN Holders(m) \cup {w} ELSE Holders(m)
          /\ w \notin Holders(m)
      BY <1>4, HandingHolds
    <2>2. \A v \in Holders(m) : worker'[v] = worker[v]
      BY <1>4, <2>1 DEF Hands, Holders
    <2>3. CASE m = k
      BY <1>0, <1>4, <2>1, <2>2, <2>3 DEF Owed, Hands
    <2>4. CASE m # k
      BY <1>4, <2>1, <2>2, <2>4 DEF Owed, Hands
    <2> QED BY <2>3, <2>4
  <1>5. ASSUME NEW w \in Workers, Deletes(w)
        PROVE  Owed(m)'
    <2>1. /\ Holders(m)' = Holders(m) \ {w} /\ w \in Holders(worker[w].msg)
          /\ m # worker[w].msg => w \notin Holders(m)
      BY <1>5, DroppingHolds DEF Deletes
    <2>2. m # worker[w].msg
      BY <1>0, <1>5, <2>1 DEF Owed, Deletes
    <2>3. queue'[m] = queue[m]
      BY <1>5, <2>2, DeletingIs
    <2>4. \A v \in Holders(m) : worker'[v] = worker[v]
      BY <1>5, <2>1, <2>2 DEF Deletes, Drops, Holders
    <2> QED BY <2>1, <2>2, <2>3, <2>4 DEF Owed
  <1>6. ASSUME NEW w \in Workers, Returns(w)
        PROVE  Owed(m)'
    <2>1. /\ worker[w].msg \in Messages /\ Holders(m)' = Holders(m) \ {w}
          /\ w \in Holders(worker[w].msg)
          /\ m # worker[w].msg => w \notin Holders(m)
      BY <1>6, DroppingHolds DEF Returns
    <2>2. \A v \in Holders(m) \ {w} : worker'[v] = worker[v]
      BY <1>6 DEF Returns, Drops, Holders
    <2>3. queue' = Released(w)
      BY <1>6 DEF Returns
    <2>4. CASE m # worker[w].msg
      <3>1. queue'[m] = queue[m]
        BY <2>1, <2>3, <2>4, ReleasedIs
      <3> QED BY <2>1, <2>2, <2>4, <3>1 DEF Owed
    <2>5. CASE m = worker[w].msg /\ Holders(m) = {w}
      <3>1. queue[m].place = "inflight"
        BY <1>0, <2>5 DEF Owed
      <3> QED BY <2>1, <2>3, <2>5, <3>1, ReleasedIs DEF Owed
    <2>6. CASE m = worker[w].msg /\ Holders(m) # {w}
      <3>1. queue'[m] = queue[m]
        BY <2>1, <2>3, <2>6, ReleasedIs
      <3>2. Holders(m)' # {}
        BY <2>1, <2>6
      <3> QED BY <1>0, <2>1, <2>2, <2>6, <3>1, <3>2 DEF Owed
    <2> QED BY <2>4, <2>5, <2>6
  <1> QED BY <1>0, <1>1, <1>2, <1>3, <1>4, <1>5, <1>6 DEF Handled

(* Without a second delivery every container stays alone with its message. *)
LEMMA AloneKept ==
  ASSUME Inv, Custody, HeldAlone, MaxDuplicates = 0, [Next]_vars
  PROVE  HeldAlone'
  <1>0. Handled
    BY StepHandled
  <1> SUFFICES ASSUME NEW w \in Workers, worker'[w].pc # "idle"
               PROVE  /\ queue'[worker'[w].msg].place = "inflight"
                      /\ \A v \in Workers : worker'[v].msg = worker'[w].msg => v = w
    BY DEF HeldAlone
  <1> DEFINE Good == /\ queue'[worker'[w].msg].place = "inflight"
                     /\ \A v \in Workers : worker'[v].msg = worker'[w].msg => v = w
  <1> SUFFICES Good
    OBVIOUS
  <1>a. worker[w].pc # "idle" => /\ queue[worker[w].msg].place = "inflight"
                                 /\ worker[w].msg \in Messages
                                 /\ w \in Holders(worker[w].msg)
                                 /\ \A v \in Workers : worker[v].msg = worker[w].msg => v = w
    BY WorkerMessage DEF HeldAlone, Holders
  <1>1. CASE UNCHANGED <<queue, worker, objects>>
    BY <1>1, <1>a
  <1>2. ASSUME NEW u \in Workers, NEW p, Goes(u, p), UNCHANGED queue
        PROVE  Good
    BY <1>2, <1>a DEF Goes
  <1>3. ASSUME NEW k \in Messages, Puts(k)
        PROVE  Good
    <2>1. Holders(k) = {}
      <3>1. CASE Free(k)
        BY <3>1 DEF Free
      <3>2. CASE queue[k].place = "dead"
        BY <3>2 DEF Custody, Waits
      <3>3. CASE k.stage = "analysis" /\ Object(k) \notin objects
        BY <3>3, AnalysisIs DEF Custody, Absent, Object, Free
      <3> QED BY <1>3, <3>1, <3>2, <3>3 DEF Puts
    <2>2. /\ \A v \in Workers : worker'[v].msg = worker[v].msg
          /\ worker'[w].pc # "idle" => worker[w].pc # "idle"
      BY <1>3 DEF Puts, Goes
    <2>3. worker[w].msg # k
      BY <2>1 DEF Holders
    <2>4. queue'[worker[w].msg] = queue[worker[w].msg]
      BY <1>3, <1>a, <2>2, <2>3, PuttingIs
    <2> QED BY <1>a, <2>2, <2>4
  <1>4. ASSUME NEW u \in Workers, NEW k \in Messages, Hands(u, k)
        PROVE  Good
    <2>1. queue[k].place = "visible"
      BY <1>4, BoundsAssumption DEF Hands, Inv, Rest
    <2>2. Holders(k) = {}
      BY <2>1 DEF Custody, Waits
    <2>3. CASE w = u
      BY <1>4, <2>2, <2>3 DEF Hands, Holders
    <2>4. CASE w # u
      <3>1. worker[w].msg # k /\ worker'[w] = worker[w]
        BY <1>4, <2>2, <2>4 DEF Hands, Holders
      <3>2. queue'[worker[w].msg] = queue[worker[w].msg]
        BY <1>4, <1>a, <3>1 DEF Hands
      <3> QED BY <1>4, <1>a, <3>1, <3>2 DEF Hands
    <2> QED BY <2>3, <2>4
  <1>5. ASSUME NEW u \in Workers, Deletes(u) \/ Returns(u)
        PROVE  Good
    <2>1. Drops(u) /\ w # u
      BY <1>5 DEF Deletes, Returns, Drops, Idle
    <2>2. worker'[w] = worker[w] /\ worker'[u].msg = None
      BY <2>1 DEF Drops, Idle
    <2>3. worker[u].msg \in Messages /\ worker[u].msg # worker[w].msg
      BY <1>a, <2>1, <2>2, DroppingHolds
    <2>4. queue'[worker[w].msg] = queue[worker[w].msg]
      BY <1>5, <1>a, <2>2, <2>3, DeletingIs, ReleasedIs DEF Returns
    <2>5. \A v \in Workers \ {u} : worker'[v] = worker[v]
      BY <2>1 DEF Drops
    <2>6. worker[w].msg # None
      BY <1>a, <2>2, NoneAssumption
    <2> QED BY <1>a, <2>2, <2>4, <2>5, <2>6
  <1> QED BY <1>0, <1>1, <1>2, <1>3, <1>4, <1>5 DEF Handled

LEMMA AloneInvariance ==
  ASSUME MaxDuplicates = 0
  PROVE  Spec => []HeldAlone
  <1>1. Init => HeldAlone
    BY DEF Init, HeldAlone, Idle
  <1>2. Inv /\ Custody /\ HeldAlone /\ [Next]_vars => HeldAlone'
    BY AloneKept
  <1> QED BY <1>1, <1>2, Invariance, CustodyInvariance, PTL DEF Spec

-----------------------------------------------------------------------------
(* What a step does to the tables.                                         *)

(* The row of a document has an outcome. *)
Outcome(a) == a.download = "failed" \/ a.analysis \in {"completed", "failed"}

(* A run is finished by FinishedIfTerminal alone, when as many documents
   ended as were found, and it is completed only when none of them failed. *)
Concluded(r) == AllEnded(r) /\ (r.status = "completed" => r.failed = 0)

(* FinishedIfTerminal changes the status alone, and only of a run that ended. *)
LEMMA FinishedEnds ==
  ASSUME NEW r \in RunRow
  PROVE  /\ FinishedIfTerminal(r) \in RunRow
         /\ FinishedIfTerminal(r).found = r.found
         /\ \/ FinishedIfTerminal(r) = r
            \/ /\ Concluded(FinishedIfTerminal(r))
               /\ FinishedIfTerminal(r).status \in {"completed", "partial", "failed"}
  <1> DEFINE f == FinishedIfTerminal(r)
  <1>1. /\ f \in RunRow /\ f.found = r.found /\ f.analyzed = r.analyzed
        /\ f.failed = r.failed
    BY FinishedRow
  <1>2. CASE ~AllEnded(r)
    BY <1>1, <1>2 DEF FinishedIfTerminal
  <1>3. CASE AllEnded(r)
    <2>1. AllEnded(f)
      BY <1>1, <1>3 DEF AllEnded
    <2>2. r.analyzed \in Nat /\ r.failed \in Nat
      BY RunCounters
    <2>3. PICK s : s = CASE r.analyzed = 0 -> "failed"
                         [] r.analyzed > 0 /\ r.failed > 0 -> "partial"
                         [] OTHER -> "completed"
      OBVIOUS
    <2>4. f.status = s
      BY <1>3, <2>3 DEF FinishedIfTerminal, RunRow
    <2>5. s \in {"completed", "partial", "failed"} /\ (s = "completed" => r.failed = 0)
      BY <2>2, <2>3
    <2> QED BY <1>1, <2>1, <2>4, <2>5 DEF Concluded
  <1> QED BY <1>2, <1>3

Ends(r, a, newR, newA) ==
  /\ newR.found = r.found
  /\ newR.status \in {r.status, "downloading", "analyzing", "completed", "partial", "failed"}
  /\ newR.status \in {"completed", "partial"} =>
       \/ Concluded(newR)
       \/ /\ newR.status = r.status
          /\ r.status = "partial" /\ Outcome(a) => Outcome(newA)

(* A failure that is taken back leaves what was found alone. *)
LEMMA TakenBackFound ==
  ASSUME NEW r \in RunRow, NEW b \in BOOLEAN
  PROVE  /\ TakenBack(r, b) \in RunRow
         /\ TakenBack(r, b).found = r.found /\ TakenBack(r, b).status = r.status
  BY TakenBackRow DEF TakenBack, RunRow

(* A counted failure ends its document. *)
LEMMA CountedEnds ==
  ASSUME NEW r \in RunRow, NEW a, NEW newA, Outcome(newA)
  PROVE  Ends(r, a, Counted(r), newA)
  <1> DEFINE n == [r EXCEPT !.failed = @ + 1]
  <1>1. n \in RunRow /\ n.found = r.found /\ n.status = r.status
    BY DEF RunRow
  <1>2. Counted(r) = FinishedIfTerminal(n)
    BY DEF Counted
  <1> HIDE DEF n
  <1> QED BY <1>1, <1>2, FinishedEnds DEF Ends

(* A transition leaves a finished run finished only if it takes no outcome
   away from its document. *)
LEMMA TransitionEnds ==
  ASSUME NEW r \in RunRow, NEW a \in ArtRow, a.download # "none",
         a.analysis = "completed" => a.download = "stored",
         NEW newR, NEW newA, Transition(r, a, newR, newA)
  PROVE  Ends(r, a, newR, newA)
  <1>1. CASE newR = RunDownloadStarted(r, a) /\ newA = DownloadStarted(a)
    <2>1. CASE a.download = "stored"
      BY <1>1, <2>1 DEF RunDownloadStarted, DownloadStarted, Ends
    <2>2. CASE a.download # "stored"
      <3>1. PICK t : t = TakenBack(r, a.download = "failed")
        OBVIOUS
      <3>2. t \in RunRow /\ t.found = r.found /\ t.status = r.status
        BY <3>1, TakenBackFound
      <3>3. newR = [t EXCEPT !.status = IF @ = "completed" THEN @ ELSE "downloading"]
        BY <1>1, <2>2, <3>1 DEF RunDownloadStarted
      <3>4. /\ newR.found = r.found
            /\ newR.status = IF r.status = "completed" THEN "completed" ELSE "downloading"
        BY <3>2, <3>3 DEF RunRow
      <3> QED BY <3>4 DEF Ends
    <2> QED BY <2>1, <2>2
  <1>2. ASSUME NEW s, newR = RunDocumentStored(r, a), newA = DocumentStored(a, s)
        PROVE  Ends(r, a, newR, newA)
    <2>1. CASE a.download = "stored"
      <3>1. newR = r
        BY <1>2, <2>1 DEF RunDocumentStored
      <3>2. newA.analysis = IF a.analysis = "skipped" THEN "pending" ELSE a.analysis
        BY <1>2 DEF DocumentStored, ArtRow
      <3> QED BY <2>1, <3>1, <3>2 DEF Ends, Outcome
    <2>2. CASE a.download # "stored"
      <3>1. PICK t : t = TakenBack(r, a.download = "failed")
        OBVIOUS
      <3>2. t \in RunRow /\ t.found = r.found /\ t.status = r.status
        BY <3>1, TakenBackFound
      <3>3. newR = [t EXCEPT !.downloaded = @ + 1, !.status = "analyzing"]
        BY <1>2, <2>2, <3>1 DEF RunDocumentStored
      <3>4. newR.found = r.found /\ newR.status = "analyzing"
        BY <3>2, <3>3 DEF RunRow
      <3> QED BY <3>4 DEF Ends
    <2> QED BY <2>1, <2>2
  <1>3. CASE newR = RunDownloadFailed(r, a) /\ newA = DownloadFailed(a)
    <2>1. CASE a.download = "stored"
      BY <1>3, <2>1 DEF RunDownloadFailed, DownloadFailed, Ends
    <2>2. CASE a.download # "stored"
      <3>1. Outcome(newA)
        BY <1>3, <2>2 DEF DownloadFailed, ArtRow, Outcome
      <3> QED BY <1>3, <2>2, <3>1, CountedEnds DEF RunDownloadFailed, Ends
    <2> QED BY <2>1, <2>2
  <1>4. CASE /\ a.download = "stored"
             /\ newR = RunAnalysisStarted(r, a) /\ newA = AnalysisStarted(a)
    <2>1. CASE a.analysis = "completed"
      BY <1>4, <2>1 DEF RunAnalysisStarted, AnalysisStarted, Ends
    <2>2. CASE a.analysis # "completed"
      <3>1. PICK t : t = TakenBack(r, a.analysis = "failed")
        OBVIOUS
      <3>2. t \in RunRow /\ t.found = r.found /\ t.status = r.status
        BY <3>1, TakenBackFound
      <3>3. newR = [t EXCEPT !.status = "analyzing"]
        BY <1>4, <2>2, <3>1 DEF RunAnalysisStarted
      <3>4. newR.found = r.found /\ newR.status = "analyzing"
        BY <3>2, <3>3 DEF RunRow
      <3> QED BY <3>4 DEF Ends
    <2> QED BY <2>1, <2>2
  <1>5. CASE /\ a.download = "stored"
             /\ newR = RunAnalysisCompleted(r, a) /\ newA = AnalysisCompleted(a)
    <2>1. Outcome(newA)
      BY <1>5 DEF AnalysisCompleted, ArtRow, Outcome
    <2>2. CASE a.analysis = "completed"
      BY <1>5, <2>1, <2>2 DEF RunAnalysisCompleted, Ends
    <2>3. CASE a.analysis # "completed"
      <3>1. PICK n : n = [r EXCEPT !.analyzed = @ + 1]
        OBVIOUS
      <3>2. n \in RunRow /\ n.found = r.found /\ n.status = r.status
        BY <3>1 DEF RunRow
      <3>3. newR = FinishedIfTerminal(n)
        BY <1>5, <2>3, <3>1 DEF RunAnalysisCompleted
      <3> QED BY <2>1, <3>2, <3>3, FinishedEnds DEF Ends
    <2> QED BY <2>2, <2>3
  <1>6. CASE newR = RunAnalysisFailed(r, a) /\ newA = AnalysisFailed(a)
    <2>1. Outcome(newA)
      BY <1>6 DEF AnalysisFailed, ArtRow, Outcome
    <2> QED BY <1>6, <2>1, CountedEnds DEF RunAnalysisFailed, Ends
  <1> QED BY <1>1, <1>2, <1>3, <1>4, <1>5, <1>6 DEF Transition

(* Runs and documents are as they were, but for their time stamps. *)
Calm ==
  /\ \A r \in Runs : run'[r].status = run[r].status /\ run'[r].found = run[r].found
  /\ \A d \in Docs : /\ art'[d].run = art[d].run
                     /\ art'[d].download = art[d].download
                     /\ art'[d].analysis = art[d].analysis
                     /\ art'[d].copy = art[d].copy

(* A worker or the sweep records that a run's discovery, a download or an
   analysis has failed. *)
RunFailed(r) ==
  /\ run' = [run EXCEPT ![r] = DiscoveryFailed(@)]
  /\ UNCHANGED art
DownloadLost(d) ==
  Known(d) /\ Commit(d, RunDownloadFailed(RunOf(d), art[d]), DownloadFailed(art[d]))
AnalysisLost(d) ==
  /\ Known(d)
  /\ Commit(d, RunAnalysisFailed(RunOf(d), art[d]), AnalysisFailed(art[d]))
  /\ \/ \E w \in Workers : /\ worker[w].pc \in {"rejected", "given up"}
                           /\ worker[w].msg.stage = "analysis"
                           /\ worker[w].msg.doc = d
     \/ sweep.phase = "analyses" /\ d \in sweep.todo

Booked ==
  \/ Calm
  \/ \E q \in Requests :
       (\E r \in Runs : GetOrCreateRun(q, r)) \/ ReopenRun(q) \/ MarkQueued(q)
  \/ \E r \in Runs : RunFailed(r)
  \/ \E d \in Docs : DownloadLost(d) \/ AnalysisLost(d)
  \/ \E w \in Workers :
       \/ BeginDiscovery(w) \/ CompleteDiscovery(w)
       \/ \E d \in Docs : FindArtifact(w, d)
       \/ StartDownload(w) \/ MarkStored(w)
       \/ Reconcile(w) \/ StartAnalysis(w) \/ FinishAnalysis(w)

(* Leaving the tables alone is calm. *)
LEMMA CalmIs == UNCHANGED <<run, art>> => Calm
  BY DEF Calm

(* A final failure is booked on its subject. *)
LEMMA SubjectBooked ==
  ASSUME NEW w \in Workers, worker[w].pc \in {"rejected", "given up"},
         NEW m \in Messages, worker[w].msg = m, SubjectKnown(m), FailSubject(m)
  PROVE  Booked
  BY MessageKinds DEF FailSubject, SubjectKnown, Booked, RunFailed, DownloadLost, AnalysisLost

(* Every step changes the tables in one of these ways. *)
LEMMA StepBooked ==
  ASSUME Inv, [Next]_vars
  PROVE  Booked
  <1>1. CASE UNCHANGED <<run, art>>
    BY <1>1, CalmIs DEF Booked
  <1>2. ASSUME NEW q \in Requests,
               RequestStep(q) \/ SendDiscoveryFails(q) \/ RequestStops(q)
        PROVE  Booked
    <2>1. CASE MarkUnsent(q)
      <3>1. request[q].run \in Runs
        BY <2>1 DEF MarkUnsent, Inv, Calls, RequestOK
      <3>2. RunFailed(request[q].run)
        BY <2>1 DEF MarkUnsent, RunFailed, ServerVars
      <3> QED BY <3>1, <3>2 DEF Booked
    <2> QED BY <1>1, <1>2, <2>1
            DEF RequestStep, SendDiscovery, SendDiscoveryFails, RequestStops, ServerVars,
                Booked
  <1>3. ASSUME NEW w \in Workers, WorkerStep(w) \/ Raise(w) \/ Reject(w) \/ Crash(w)
        PROVE  Booked
    <2>1. CASE RecordFinal(w)
      <3>1. worker[w].msg \in Messages /\ SubjectKnown(worker[w].msg)
        BY <2>1, WorkerMessage DEF RecordFinal
      <3> QED BY <2>1, <3>1, SubjectBooked DEF RecordFinal
    <2>2. CASE ~RecordFinal(w) /\ ~UNCHANGED <<run, art>>
      BY <1>3, <2>2
         DEF WorkerStep, DiscoveryStep, DownloadStep, AnalysisStep, ListDocuments,
             SkipDocument, SendDownload, LoadArtifact, FetchAndPut, ReadFacts, Analyse,
             Alert, Acknowledge, Raise, Reject, Crash, OtherVars, Booked
    <2> QED BY <1>1, <2>1, <2>2
  <1>4. ASSUME NEW x \in Runs \cup Docs, SweepClose(x)
        PROVE  Booked
    <2>1. /\ sweep.phase = "runs" => x \in Runs
          /\ sweep.phase \in {"downloads", "analyses"} => x \in Docs /\ Known(x)
          /\ sweep.phase \in {"runs", "downloads", "analyses"}
      BY <1>4 DEF Inv, SweepOK, SweepClose, SweepPhases
    <2> QED BY <1>4, <2>1 DEF SweepClose, Booked, RunFailed, DownloadLost, AnalysisLost
  <1>5. ASSUME NEW r \in Runs, RunAges(r)
        PROVE  Booked
    <2>1. \A x \in Runs : run'[x].status = run[x].status /\ run'[x].found = run[x].found
      BY <1>5 DEF RunAges, Inv, Tables, RunRow
    <2> QED BY <1>5, <2>1 DEF RunAges, Calm, Booked
  <1>6. ASSUME NEW d \in Docs, ArtifactAges(d)
        PROVE  Booked
    <2>1. \A e \in Docs : /\ art'[e].run = art[e].run
                          /\ art'[e].download = art[e].download
                          /\ art'[e].analysis = art[e].analysis
                          /\ art'[e].copy = art[e].copy
      BY <1>6 DEF ArtifactAges, Inv, Tables, ArtRow
    <2> QED BY <1>6, <2>1 DEF ArtifactAges, Calm, Booked
  <1>7. CASE SweepQuery \/ SweepStops \/ UNCHANGED vars
    BY <1>1, <1>7 DEF SweepQuery, SweepStops, vars
  <1>8. ASSUME NEW m \in Messages,
               Redrive(m) \/ \E w \in Workers : Receive(w, m) \/ ReceiveAgain(w, m)
        PROVE  Booked
    BY <1>1, <1>8 DEF Redrive, Receive, ReceiveAgain, Receives, OtherVars
  <1> QED BY <1>2, <1>3, <1>4, <1>5, <1>6, <1>7, <1>8 DEF Next, FaultStep, SweepStep

(* What one commit writes in the rows of a document and of its run. *)
LEMMA CommitIs ==
  ASSUME Inv, NEW d \in Docs, Known(d), NEW newR, NEW newA \in ArtRow,
         Commit(d, newR, newA)
  PROVE  /\ art[d].run \in Runs /\ run'[art[d].run] = newR
         /\ \A r \in Runs \ {art[d].run} : run'[r] = run[r]
         /\ art'[d].run = newA.run /\ art'[d].download = newA.download
         /\ art'[d].analysis = newA.analysis /\ art'[d].copy = newA.copy
         /\ \A e \in Docs \ {d} : art'[e] = art[e]
  <1>1. art[d].run \in Runs
    BY DEF Inv, Tables, RowOK
  <1> QED BY <1>1 DEF Commit, Touched, Inv, Tables, ArtRow

(* The transitions of a document, column by column. *)
LEMMA RowsAre ==
  ASSUME NEW a \in ArtRow, NEW s \in Sums \cup {None}
  PROVE  /\ DownloadStarted(a) \in ArtRow /\ DocumentStored(a, s) \in ArtRow
         /\ DownloadFailed(a) \in ArtRow /\ AnalysisStarted(a) \in ArtRow
         /\ AnalysisCompleted(a) \in ArtRow /\ AnalysisFailed(a) \in ArtRow
         /\ DownloadStarted(a).copy = a.copy
         /\ DownloadStarted(a).analysis = a.analysis
         /\ DownloadStarted(a).download =
              (IF a.download = "stored" THEN "stored" ELSE "downloading")
         /\ DocumentStored(a, s).copy = s
         /\ DocumentStored(a, s).download = "stored"
         /\ DocumentStored(a, s).analysis =
              (IF a.analysis = "skipped" THEN "pending" ELSE a.analysis)
         /\ DownloadFailed(a).copy = a.copy
         /\ DownloadFailed(a).download =
              (IF a.download = "stored" THEN "stored" ELSE "failed")
         /\ DownloadFailed(a).analysis =
              (IF a.download = "stored" THEN a.analysis ELSE "skipped")
         /\ AnalysisStarted(a).copy = a.copy
         /\ AnalysisStarted(a).download = a.download
         /\ AnalysisCompleted(a).copy = a.copy
         /\ AnalysisCompleted(a).download = a.download
         /\ AnalysisCompleted(a).analysis = "completed"
         /\ AnalysisFailed(a).copy = a.copy
         /\ AnalysisFailed(a).download = a.download
         /\ AnalysisFailed(a).analysis =
              (IF a.analysis = "completed" THEN "completed" ELSE "failed")
  BY DEF DownloadStarted, DocumentStored, DownloadFailed, AnalysisStarted,
         AnalysisCompleted, AnalysisFailed, ArtRow, DownloadStatuses, AnalysisStatuses

(* A document that a run found is in the tables from then on. *)
LEMMA FindingIs ==
  ASSUME Inv, NEW w \in Workers, NEW d \in Docs, FindArtifact(w, d)
  PROVE  /\ UNCHANGED run
         /\ \A e \in Docs \ {d} : art'[e] = art[e]
         /\ IF art[d].run = None
            THEN /\ art'[d] = CreatedArtifact(worker[w].msg.run, None)
                 /\ ~Known(d)
            ELSE art'[d] = art[d] /\ art[d].run = worker[w].msg.run
  BY NoneAssumption DEF FindArtifact, Inv, Tables, RowOK, Known

-----------------------------------------------------------------------------
(* How a container gets through with its record.                           *)

(* The ways to the acknowledgement of a record. *)
Through(w) ==
  \/ CompleteDiscovery(w) \/ LoadArtifact(w) \/ MarkStored(w)
  \/ ReadFacts(w) \/ Alert(w)
  \/ worker[w].pc = "rejected" /\ RecordFinal(w)

(* Only these ways lead to an acknowledgement. *)
LEMMA ThroughIs ==
  ASSUME Inv, [Next]_vars, NEW w \in Workers, Goes(w, "ack"), worker[w].pc # "ack"
  PROVE  Through(w)
  <1>1. worker'[w] # worker[w] /\ worker'[w].pc = "ack"
    BY DEF Goes
  <1>2. ASSUME NEW v \in Workers, NEW p, p # "ack", Goes(v, p)
        PROVE  FALSE
    BY <1>1, <1>2 DEF Goes
  <1>3. ASSUME NEW v \in Workers, Drops(v)
        PROVE  FALSE
    BY <1>1, <1>3 DEF Drops, Idle
  <1>4. CASE UNCHANGED worker
    BY <1>1, <1>4
  <1>5. ASSUME NEW v \in Workers, DiscoveryStep(v)
        PROVE  Through(w)
    <2>1. CASE CompleteDiscovery(v)
      <3>1. v = w
        BY <1>1, <2>1, CompleteDiscoveryIs DEF Goes
      <3> QED BY <2>1, <3>1 DEF Through
    <2> QED BY <1>2, <1>5, <2>1, BeginDiscoveryIs, ListDocumentsIs, FindArtifactIs,
               SkipDocumentIs, SendDownloadIs DEF DiscoveryStep
  <1>6. ASSUME NEW v \in Workers, DownloadStep(v)
        PROVE  Through(w)
    <2>1. CASE LoadArtifact(v) \/ MarkStored(v)
      <3>1. \E p : Goes(v, p)
        <4>1. CASE MarkStored(v)
          BY <4>1, MarkStoredIs
        <4>2. CASE LoadArtifact(v)
          <5>1. PICK p \in {"ack", "start"} : Goto(v, p)
            BY <4>2 DEF LoadArtifact
          <5> QED BY <4>2, <5>1, GotoIs DEF LoadArtifact, At
        <4> QED BY <2>1, <4>1, <4>2
      <3>2. v = w
        BY <1>1, <3>1 DEF Goes
      <3> QED BY <2>1, <3>2 DEF Through
    <2>2. CASE StartDownload(v)
      <3>1. Goes(v, "fetch")
        BY <2>2, GotoIs DEF StartDownload, At
      <3> QED BY <1>2, <3>1
    <2> QED BY <1>2, <1>6, <2>1, <2>2, FetchAndPutIs DEF DownloadStep
  <1>7. ASSUME NEW v \in Workers, AnalysisStep(v)
        PROVE  Through(w)
    <2>1. CASE ReadFacts(v) \/ Alert(v)
      <3>1. \E p : Goes(v, p)
        <4>1. PICK p \in {"ack", "start", "reconcile"} : Goto(v, p)
          BY <2>1 DEF ReadFacts, Alert
        <4> QED BY <2>1, <4>1, GotoIs DEF ReadFacts, Alert, At
      <3>2. v = w
        BY <1>1, <3>1 DEF Goes
      <3> QED BY <2>1, <3>2 DEF Through
    <2>2. CASE Reconcile(v) \/ StartAnalysis(v) \/ Analyse(v) \/ FinishAnalysis(v)
      <3>1. PICK p \in {"start", "analyse", "finish", "alert"} : Goto(v, p)
        BY <2>2 DEF Reconcile, StartAnalysis, Analyse, FinishAnalysis
      <3>2. Goes(v, p)
        BY <2>2, <3>1, GotoIs DEF Reconcile, StartAnalysis, Analyse, FinishAnalysis, At
      <3> QED BY <1>2, <3>1, <3>2
    <2> QED BY <1>7, <2>1, <2>2 DEF AnalysisStep
  <1>8. ASSUME NEW v \in Workers,
               RecordFinal(v) \/ Acknowledge(v) \/ Raise(v) \/ Reject(v) \/ Crash(v)
        PROVE  Through(w)
    <2>0. worker[v].pc # "idle"
      BY <1>8 DEF RecordFinal, Acknowledge, Raise, Reject, Crash, Fallible, Rejectable
    <2>1. CASE worker' = [worker EXCEPT ![v] = Idle]
      BY <1>3, <2>0, <2>1, DropIs
    <2>2. ASSUME NEW p \in {"rejected", "given up"}, Goto(v, p)
          PROVE  FALSE
      BY <1>2, <2>0, <2>2, GotoIs
    <2>3. CASE RecordFinal(v) /\ worker[v].pc = "rejected"
      <3>1. v = w
        BY <1>1, <2>0, <2>3, GotoIs DEF RecordFinal, Goes
      <3> QED BY <2>3, <3>1 DEF Through
    <2> QED BY <1>8, <2>1, <2>2, <2>3 DEF RecordFinal, Acknowledge, Raise, Reject, Crash
  <1>9. ASSUME NEW v \in Workers, NEW m \in Messages, Receives(v, m)
        PROVE  FALSE
    BY <1>1, <1>9, ReceivesIs
  <1>10. CASE \/ SweepStep \/ SweepStops \/ UNCHANGED vars
              \/ (\E r \in Runs : RunAges(r)) \/ (\E d \in Docs : ArtifactAges(d))
    BY <1>4, <1>10 DEF SweepStep, SweepQuery, SweepClose, SweepStops, RunAges,
                       ArtifactAges, vars
  <1>11. ASSUME NEW q \in Requests,
                RequestStep(q) \/ SendDiscoveryFails(q) \/ RequestStops(q)
         PROVE  Through(w)
    BY <1>4, <1>11 DEF RequestStep, GetOrCreateRun, ReopenRun, SendDiscovery, MarkQueued,
                       MarkUnsent, SendDiscoveryFails, RequestStops, ServerVars
  <1>12. ASSUME NEW m \in Messages, Redrive(m)
         PROVE  Through(w)
    BY <1>4, <1>12 DEF Redrive
  <1> QED BY <1>5, <1>6, <1>7, <1>8, <1>9, <1>10, <1>11, <1>12
          DEF Next, FaultStep, WorkerStep, Receive, ReceiveAgain

(* A message that is owed is owed until a container gets through with it. *)
LEMMA OwedUntilThrough ==
  ASSUME Inv, Custody, [Next]_vars, NEW m \in Messages, Owed(m), ~Owed(m)'
  PROVE  \E w \in Workers :
           /\ worker[w].msg = m /\ worker[w].pc \notin {"idle", "ack"}
           /\ Goes(w, "ack") /\ Through(w)
  <1>1. PICK w \in Workers : worker[w].msg = m /\ Goes(w, "ack")
    BY OwedKept
  <1>2. worker[w].pc # "ack"
    BY <1>1 DEF Owed, Holders, Custody, Waits
  <1> QED BY <1>1, <1>2, ThroughIs DEF Goes

-----------------------------------------------------------------------------
(* A queued run has a message on its way.                                  *)

Early == {"enqueueing", "queued"}
Sending(q, r) == request[q].run = r /\ request[q].pc \in {"send", "unsent"}

(* A run that waits for its discovery has a call of request_scrape_run that is
   still to send its message, or to record that it could not, or a discovery
   message that no container is through with. *)
Coming(r) ==
  run[r].status \in Early =>
    \/ \E q \in Requests : Sending(q, r)
    \/ \E n \in Slots : Owed(Discovery(r, n))

(* A call goes on sending until the message is in the queue. *)
LEMMA SendingKept ==
  ASSUME Inv, [Next]_vars, MaxCrashes = 0, NEW r \in Runs, NEW q \in Requests,
         Sending(q, r), run'[r].status \in Early
  PROVE  Sending(q, r)' \/ \E n \in Slots : Owed(Discovery(r, n))'
  <1>1. CASE request'[q] = request[q]
    BY <1>1 DEF Sending
  <1>2. faults.crash \in Nat
    BY DEF Inv, Rest
  <1>3. ASSUME NEW p \in Requests, RequestStep(p) \/ SendDiscoveryFails(p) \/ RequestStops(p)
        PROVE  Sending(q, r)' \/ \E n \in Slots : Owed(Discovery(r, n))'
    <2>1. CASE p # q
      <3>1. request'[q] = request[q]
        BY <1>3, <2>1 DEF RequestStep, GetOrCreateRun, ReopenRun, SendDiscovery, MarkQueued,
                          MarkUnsent, SendDiscoveryFails, RequestStops, Inv, Calls
      <3> QED BY <1>1, <3>1
    <2>2. ASSUME NEW n \in Slots, SendDiscovery(q, n)
          PROVE  Owed(Discovery(r, n))'
      <3>1. PICK m : m = Discovery(r, n)
        OBVIOUS
      <3>2. m \in Messages
        BY <3>1, MessageKinds
      <3>3. queue' = [queue EXCEPT ![m] = Visible]
        BY <2>2, <3>1 DEF SendDiscovery, Sending
      <3>4. queue'[m].place = "visible"
        BY <3>2, <3>3 DEF Visible, Inv, Queues
      <3> QED BY <3>1, <3>4 DEF Owed, Discovery
    <2>3. CASE SendDiscoveryFails(q)
      BY <2>3 DEF SendDiscoveryFails, Sending, Inv, Calls, RequestRow
    <2>4. CASE MarkUnsent(q)
      <3>1. run'[r] = DiscoveryFailed(run[r])
        BY <2>4 DEF MarkUnsent, Sending, Inv, Tables
      <3>2. run'[r].status \notin Early
        BY <3>1 DEF DiscoveryFailed, IsDownstream, Downstream, Early, Inv, Tables, RunRow
      <3> QED BY <3>2
    <2>5. ~RequestStops(q)
      BY <1>2 DEF RequestStops, Fault
    <2> QED BY <1>3, <2>1, <2>2, <2>3, <2>4, <2>5
            DEF RequestStep, GetOrCreateRun, ReopenRun, MarkQueued, Sending
  <1>4. CASE request' = request
    BY <1>1, <1>4
  <1> QED BY <1>3, <1>4
          DEF Next, FaultStep, WorkerStep, DiscoveryStep, DownloadStep, AnalysisStep,
              BeginDiscovery, ListDocuments, FindArtifact, SkipDocument, SendDownload,
              CompleteDiscovery, LoadArtifact, StartDownload, FetchAndPut, MarkStored,
              ReadFacts, Reconcile, StartAnalysis, Analyse, FinishAnalysis, Alert,
              RecordFinal, Acknowledge, Raise, Reject, Crash, Receive, ReceiveAgain,
              Receives, Redrive, SweepStep, SweepQuery, SweepClose, SweepStops, RunAges,
              ArtifactAges, OtherVars, vars

(* A commit on a document never makes its run wait for discovery again. *)
LEMMA CommitNotEarly ==
  ASSUME Inv, NEW d \in Docs, Known(d), NEW newR, NEW newA,
         Transition(RunOf(d), art[d], newR, newA), Commit(d, newR, newA), NEW r \in Runs
  PROVE  run'[r].status \in Early => run[r].status \in Early
  <1>1. /\ art[d] \in ArtRow /\ art[d].download # "none" /\ RunOf(d) \in RunRow
        /\ (art[d].analysis = "completed" => art[d].download = "stored")
        /\ art[d].run \in Runs
    BY DEF Inv, Tables, RowOK, Known, RunOf
  <1>2. newA \in ArtRow
    BY <1>1, TransitionRows
  <1>3. newR.status \in {RunOf(d).status, "downloading", "analyzing", "completed",
                         "partial", "failed"}
    BY <1>1, TransitionEnds DEF Ends
  <1>4. /\ run'[art[d].run] = newR
        /\ \A x \in Runs \ {art[d].run} : run'[x] = run[x]
    BY <1>2, CommitIs
  <1> QED BY <1>3, <1>4 DEF RunOf, Early

(* Discovery ends with a run that waits no longer, and its count is the larger
   one of what this and earlier attempts queued. *)
LEMMA DiscoveryEndsWith ==
  ASSUME NEW r \in RunRow, NEW n \in Nat
  PROVE  LET f == DiscoveryCompleted(r, n) IN
         /\ f \in RunRow /\ f.found = Larger(n, r.found)
         /\ \/ /\ Concluded(f)
               /\ f.status \in {"completed", "partial", "failed"}
            \/ f.status = IF r.status \in Downstream THEN r.status
                          ELSE IF f.found = 0 THEN "completed" ELSE "downloading"
  <1> DEFINE found == Larger(n, r.found)
             next == IF found = 0 THEN "completed" ELSE "downloading"
             m == [r EXCEPT !.found = found,
                            !.status = IF IsDownstream(r) THEN @ ELSE next]
  <1>1. found \in Nat
    BY RunCounters DEF Larger
  <1>2. next \in {"completed", "downloading"}
    OBVIOUS
  <1>3. DiscoveryCompleted(r, n) = FinishedIfTerminal(m)
    BY DEF DiscoveryCompleted
  <1>4. next = IF found = 0 THEN "completed" ELSE "downloading"
    OBVIOUS
  <1>5. found = Larger(n, r.found)
    OBVIOUS
  <1> HIDE DEF found, next
  <1>6. /\ m \in RunRow /\ m.found = found
        /\ m.status = IF r.status \in Downstream THEN r.status ELSE next
    BY <1>1, <1>2 DEF RunRow, RunStatuses, IsDownstream
  <1> HIDE DEF m
  <1>7. PICK f : f = FinishedIfTerminal(m)
    OBVIOUS
  <1>8. /\ f \in RunRow /\ f.found = found
        /\ f = m \/ (Concluded(f) /\ f.status \in {"completed", "partial", "failed"})
    BY <1>6, <1>7, FinishedEnds
  <1>9. DiscoveryCompleted(r, n) = f
    BY <1>3, <1>7
  <1> QED BY <1>4, <1>5, <1>6, <1>8, <1>9

(* Each of these steps is one transition of a known document. *)
LEMMA WorkerCommits ==
  ASSUME Inv, NEW w \in Workers,
         \/ StartDownload(w) \/ MarkStored(w)
         \/ Reconcile(w) \/ StartAnalysis(w) \/ FinishAnalysis(w)
  PROVE  \E d \in Docs : \E newR, newA :
           /\ Known(d) /\ Transition(RunOf(d), art[d], newR, newA)
           /\ Commit(d, newR, newA)
  <1> DEFINE d == worker[w].msg.doc
             Commits == \E newR, newA : /\ Transition(RunOf(d), art[d], newR, newA)
                                        /\ Commit(d, newR, newA)
  <1>1. d \in Docs /\ Known(d)
    BY StageDocument DEF StartDownload, MarkStored, Reconcile, StartAnalysis, FinishAnalysis
  <1>2. CASE StartDownload(w)
    <2>1. Commits
      BY <1>2 DEF StartDownload, Transition
    <2> QED BY <1>1, <2>1
  <1>3. CASE MarkStored(w)
    <2>1. worker[w].sum \in Sums \cup {None}
      BY DEF Inv, Workforce, WorkerRow
    <2>2. Commits
      BY <1>3, <2>1 DEF MarkStored, Transition
    <2> QED BY <1>1, <2>2
  <1>4. CASE Reconcile(w)
    <2>1. worker[w].msg.sum \in Sums
      BY <1>4, StageDocument, MessageKinds DEF Reconcile, At
    <2>2. Commits
      BY <1>4, <2>1 DEF Reconcile, Transition
    <2> QED BY <1>1, <2>2
  <1>5. CASE StartAnalysis(w) \/ FinishAnalysis(w)
    <2>1. art[d].download = "stored"
      BY <1>5 DEF StartAnalysis, FinishAnalysis, At, Inv, Workforce, WorkerOK, Late
    <2>2. Commits
      BY <1>5, <2>1 DEF StartAnalysis, FinishAnalysis, Transition
    <2> QED BY <1>1, <2>2
  <1> QED BY <1>2, <1>3, <1>4, <1>5

(* Only a call that creates or reopens a run, and then sends its message, makes
   it wait for its discovery. *)
LEMMA EarlyIs ==
  ASSUME Inv, [Next]_vars, NEW r \in Runs, run'[r].status \in Early
  PROVE  run[r].status \in Early \/ \E q \in Requests : Sending(q, r)'
  <1>1. CASE Calm
    BY <1>1 DEF Calm
  <1>2. ASSUME NEW q \in Requests, NEW x \in Runs, GetOrCreateRun(q, x)
        PROVE  run[r].status \in Early \/ \E p \in Requests : Sending(p, r)'
    <2>1. CASE x # r
      BY <1>2, <2>1 DEF GetOrCreateRun, Inv, Tables
    <2>2. CASE x = r /\ run[r].status # "none"
      BY <1>2, <2>2 DEF GetOrCreateRun, Inv, Tables
    <2>3. CASE x = r /\ run[r].status = "none"
      <3>1. request' = [request EXCEPT ![q] = [pc |-> "send", run |-> r]]
        BY <1>2, <2>3 DEF GetOrCreateRun, ActiveOrFinished
      <3>2. Sending(q, r)'
        BY <3>1 DEF Sending, Inv, Calls
      <3> QED BY <3>2
    <2> QED BY <2>1, <2>2, <2>3
  <1>3. ASSUME NEW q \in Requests, ReopenRun(q)
        PROVE  run[r].status \in Early \/ \E p \in Requests : Sending(p, r)'
    <2>1. CASE request[q].run = r
      <3>1. Sending(q, r)'
        BY <1>3, <2>1 DEF ReopenRun, Sending, Inv, Calls, RequestRow
      <3> QED BY <3>1
    <2>2. CASE request[q].run # r
      BY <1>3, <2>2 DEF ReopenRun, Inv, Tables
    <2> QED BY <2>1, <2>2
  <1>4. ASSUME NEW q \in Requests, MarkQueued(q)
        PROVE  run[r].status \in Early
    <2>1. run'[r] \in {run[r], QueuedIfEnqueueing(run[r])}
      BY <1>4 DEF MarkQueued, Inv, Tables
    <2> QED BY <2>1 DEF QueuedIfEnqueueing, Early
  <1>5. ASSUME NEW x \in Runs, RunFailed(x)
        PROVE  run[r].status \in Early
    <2>1. run'[r] \in {run[r], DiscoveryFailed(run[r])}
      BY <1>5 DEF RunFailed, Inv, Tables
    <2> QED BY <2>1 DEF DiscoveryFailed, Early, Inv, Tables, RunRow
  <1>6. ASSUME NEW d \in Docs, DownloadLost(d) \/ AnalysisLost(d)
        PROVE  run[r].status \in Early
    BY <1>6, CommitNotEarly DEF DownloadLost, AnalysisLost, Transition
  <1>7. ASSUME NEW w \in Workers, BeginDiscovery(w)
        PROVE  run[r].status \in Early
    <2>1. run'[r] \in {run[r], DiscoveryStarted(run[r])}
      BY <1>7 DEF BeginDiscovery, Inv, Tables
    <2> QED BY <2>1 DEF DiscoveryStarted, Early, Inv, Tables, RunRow
  <1>8. ASSUME NEW w \in Workers, CompleteDiscovery(w)
        PROVE  run[r].status \in Early
    <2>1. run'[r] \in {run[r], DiscoveryCompleted(run[r], worker[w].queued)}
      BY <1>8 DEF CompleteDiscovery, Inv, Tables
    <2>2. DiscoveryCompleted(run[r], worker[w].queued).status \notin Early
      <3>1. run[r] \in RunRow /\ worker[w].queued \in Nat
        BY DEF Inv, Tables, Workforce, WorkerRow
      <3> QED BY <3>1, DiscoveryEndsWith DEF Early, Downstream
    <2> QED BY <2>1, <2>2
  <1>9. ASSUME NEW w \in Workers, NEW d \in Docs, FindArtifact(w, d)
        PROVE  run[r].status \in Early
    BY <1>9 DEF FindArtifact
  <1>10. ASSUME NEW w \in Workers,
                \/ StartDownload(w) \/ MarkStored(w)
                \/ Reconcile(w) \/ StartAnalysis(w) \/ FinishAnalysis(w)
         PROVE  run[r].status \in Early
    <2>1. PICK d \in Docs : \E newR, newA :
            /\ Known(d) /\ Transition(RunOf(d), art[d], newR, newA)
            /\ Commit(d, newR, newA)
      BY <1>10, WorkerCommits
    <2> QED BY <2>1, CommitNotEarly
  <1> QED BY StepBooked, <1>1, <1>2, <1>3, <1>4, <1>5, <1>6, <1>7, <1>8, <1>9, <1>10
          DEF Booked

(* A container that is through with a discovery leaves a run that waits no
   longer. *)
LEMMA DiscoveryThrough ==
  ASSUME Inv, NEW w \in Workers, worker[w].pc # "idle",
         worker[w].msg.stage = "discovery", Through(w)
  PROVE  run'[worker[w].msg.run].status \notin Early
  <1>1. PICK r \in Runs : r = worker[w].msg.run
    BY WorkerMessage
  <1>2. run[r] \in RunRow /\ worker[w].queued \in Nat
    BY DEF Inv, Tables, Workforce, WorkerRow
  <1>3. CASE CompleteDiscovery(w)
    <2>1. run'[r] = DiscoveryCompleted(run[r], worker[w].queued)
      BY <1>1, <1>3 DEF CompleteDiscovery, Inv, Tables
    <2> QED BY <1>1, <1>2, <2>1, DiscoveryEndsWith DEF Early, Downstream
  <1>4. CASE RecordFinal(w)
    <2>1. run'[r] = DiscoveryFailed(run[r])
      BY <1>1, <1>4 DEF RecordFinal, FailSubject, Inv, Tables
    <2>2. run'[r].status \notin Early
      BY <1>2, <2>1 DEF DiscoveryFailed, IsDownstream, Downstream, Early, RunRow
    <2> QED BY <1>1, <2>2
  <1> QED BY <1>3, <1>4 DEF Through, LoadArtifact, MarkStored, ReadFacts, Alert, At

(* No step loses the discovery of a run that waits for it. *)
LEMMA ComingKept ==
  ASSUME Inv, Custody, [Next]_vars, MaxCrashes = 0, NEW r \in Runs, Coming(r)
  PROVE  Coming(r)'
  <1> SUFFICES ASSUME run'[r].status \in Early
               PROVE  \/ \E q \in Requests : Sending(q, r)'
                      \/ \E n \in Slots : Owed(Discovery(r, n))'
    BY DEF Coming
  <1>1. CASE run[r].status \notin Early
    BY <1>1, EarlyIs
  <1>2. ASSUME NEW q \in Requests, Sending(q, r)
        PROVE  \/ Sending(q, r)'
               \/ \E n \in Slots : Owed(Discovery(r, n))'
    BY <1>2, SendingKept
  <1>3. ASSUME NEW n \in Slots, Owed(Discovery(r, n))
        PROVE  Owed(Discovery(r, n))'
    <2>1. PICK m : m = Discovery(r, n)
      OBVIOUS
    <2>2. m \in Messages /\ m.stage = "discovery" /\ m.run = r
      BY <2>1, MessageKinds
    <2>3. ASSUME NEW w \in Workers, worker[w].msg = m, worker[w].pc # "idle", Through(w)
          PROVE  FALSE
      BY <2>2, <2>3, DiscoveryThrough
    <2>4. Owed(m)'
      BY <1>3, <2>1, <2>2, <2>3, OwedUntilThrough
    <2> QED BY <2>1, <2>4 DEF Discovery
  <1> QED BY <1>1, <1>2, <1>3 DEF Coming

(* While no process is stopped, a run that callers are told is queued has a
   discovery message, or a call that is still to send it, whatever is raised,
   delivered twice or moved back from a dead-letter queue: request_scrape_run
   sends before it answers, and a discovery is acknowledged only when the
   status of its run has moved on.  A call that is stopped loses the run. *)
THEOREM QueuedIsComing ==
  ASSUME MaxCrashes = 0
  PROVE  Spec => []QueuedIsOnItsWay
  <1> DEFINE All == \A r \in Runs : Coming(r)
  <1>1. Init => All
    BY DEF Init, NoRun, Coming, Early
  <1>2. Inv /\ Custody /\ All /\ [Next]_vars => All'
    BY ComingKept
  <1>3. Custody /\ All => QueuedIsOnItsWay
    <2> SUFFICES ASSUME Custody, All, NEW r \in Runs, run[r].status = "queued"
                 PROVE  \/ \E n \in Slots : ~Free(Discovery(r, n))
                        \/ \E q \in Requests : request[q].run = r /\ request[q].pc # "done"
      BY DEF QueuedIsOnItsWay
    <2>1. \/ \E q \in Requests : Sending(q, r)
          \/ \E n \in Slots : Owed(Discovery(r, n))
      BY DEF Coming, Early
    <2> QED BY <2>1 DEF Sending, Owed, Free
  <1> HIDE DEF All
  <1> QED BY <1>1, <1>2, <1>3, Invariance, CustodyInvariance, PTL DEF Spec

-----------------------------------------------------------------------------
(* The download messages of a document are deleted when it is settled.     *)

Settled(d) == art[d].download \in {"stored", "failed"}

(* A document that entered the pipeline has its download recorded, or a
   download message that no container is through with. *)
Fetching(d) ==
  d \in entered => Settled(d) \/ \E n \in Slots : Owed(Download(d, n))

(* Two rows of a document agree, but for their time stamp. *)
Like(a, b) ==
  /\ a.run = b.run /\ a.download = b.download
  /\ a.analysis = b.analysis /\ a.copy = b.copy

(* What a step makes of the row of one document. *)
RowMove(d) ==
  \/ Like(art'[d], art[d])
  \/ /\ ~Known(d)
     /\ \E w \in Workers : /\ FindArtifact(w, d)
                          /\ art'[d] = CreatedArtifact(worker[w].msg.run, None)
  \/ /\ Known(d) /\ Like(art'[d], DownloadStarted(art[d]))
     /\ \E w \in Workers : StartDownload(w) /\ worker[w].msg.doc = d
  \/ /\ Known(d)
     /\ \E w \in Workers : \E s \in Sums \cup {None} :
          /\ worker[w].msg.doc = d /\ Like(art'[d], DocumentStored(art[d], s))
          /\ \/ MarkStored(w) /\ s = worker[w].sum
             \/ Reconcile(w) /\ s = worker[w].msg.sum
  \/ Known(d) /\ DownloadLost(d) /\ Like(art'[d], DownloadFailed(art[d]))
  \/ /\ Known(d) /\ Like(art'[d], AnalysisStarted(art[d]))
     /\ \E w \in Workers : StartAnalysis(w) /\ worker[w].msg.doc = d
  \/ /\ Known(d) /\ Like(art'[d], AnalysisCompleted(art[d]))
     /\ \E w \in Workers : FinishAnalysis(w) /\ worker[w].msg.doc = d
  \/ Known(d) /\ AnalysisLost(d) /\ Like(art'[d], AnalysisFailed(art[d]))

(* A transaction changes one document's row, to the row it writes. *)
LEMMA CommitLike ==
  ASSUME Inv, NEW e \in Docs, Known(e), NEW newR, NEW newA \in ArtRow,
         Commit(e, newR, newA), NEW d \in Docs
  PROVE  IF d = e THEN Like(art'[d], newA) ELSE Like(art'[d], art[d])
  BY CommitIs DEF Like

(* Every step makes one of these of a row. *)
LEMMA StepRow ==
  ASSUME Inv, [Next]_vars, NEW d \in Docs
  PROVE  RowMove(d)
  <1>1. CASE Calm
    BY <1>1 DEF Calm, RowMove, Like
  <1>2. CASE UNCHANGED art
    BY <1>2 DEF RowMove, Like
  <1>3. ASSUME NEW e \in Docs, DownloadLost(e)
        PROVE  RowMove(d)
    <2>1. DownloadFailed(art[e]) \in ArtRow
      BY RowsAre DEF Inv, Tables
    <2>2. IF d = e THEN Like(art'[d], DownloadFailed(art[e])) ELSE Like(art'[d], art[d])
      BY <1>3, <2>1, CommitLike DEF DownloadLost
    <2> QED BY <1>3, <2>2 DEF RowMove, DownloadLost
  <1>4. ASSUME NEW e \in Docs, AnalysisLost(e)
        PROVE  RowMove(d)
    <2>1. AnalysisFailed(art[e]) \in ArtRow
      BY RowsAre DEF Inv, Tables
    <2>2. IF d = e THEN Like(art'[d], AnalysisFailed(art[e])) ELSE Like(art'[d], art[d])
      BY <1>4, <2>1, CommitLike DEF AnalysisLost
    <2> QED BY <1>4, <2>2 DEF RowMove, AnalysisLost
  <1>5. ASSUME NEW w \in Workers, NEW e \in Docs, FindArtifact(w, e)
        PROVE  RowMove(d)
    <2>1. CASE d = e /\ art[d].run = None
      BY <1>5, <2>1, FindingIs DEF RowMove
    <2>2. CASE d # e \/ art[d].run # None
      <3>1. art'[d] = art[d]
        BY <1>5, <2>2, FindingIs
      <3> QED BY <3>1 DEF RowMove, Like
    <2> QED BY <2>1, <2>2
  <1>6. ASSUME NEW w \in Workers,
               \/ StartDownload(w) \/ MarkStored(w)
               \/ Reconcile(w) \/ StartAnalysis(w) \/ FinishAnalysis(w)
        PROVE  RowMove(d)
    <2>1. PICK e \in Docs : e = worker[w].msg.doc /\ Known(e)
      BY <1>6, StageDocument
         DEF StartDownload, MarkStored, Reconcile, StartAnalysis, FinishAnalysis
    <2>2. PICK a \in ArtRow : a = art[e]
      BY DEF Inv, Tables
    <2>3. CASE StartDownload(w)
      <3>1. Commit(e, RunDownloadStarted(RunOf(e), a), DownloadStarted(a))
        BY <2>1, <2>2, <2>3 DEF StartDownload
      <3>2. DownloadStarted(a) \in ArtRow
        BY RowsAre
      <3>3. IF d = e THEN Like(art'[d], DownloadStarted(a)) ELSE Like(art'[d], art[d])
        BY <2>1, <3>1, <3>2, CommitLike
      <3> QED BY <2>1, <2>2, <2>3, <3>3 DEF RowMove
    <2>4. CASE MarkStored(w)
      <3>1. PICK s \in Sums \cup {None} : s = worker[w].sum
        BY DEF Inv, Workforce, WorkerRow
      <3>2. Commit(e, RunDocumentStored(RunOf(e), a), DocumentStored(a, s))
        BY <2>1, <2>2, <2>4, <3>1 DEF MarkStored
      <3>3. DocumentStored(a, s) \in ArtRow
        BY RowsAre
      <3>4. IF d = e THEN Like(art'[d], DocumentStored(a, s)) ELSE Like(art'[d], art[d])
        BY <2>1, <3>2, <3>3, CommitLike
      <3> QED BY <2>1, <2>2, <2>4, <3>1, <3>4 DEF RowMove
    <2>5. CASE Reconcile(w)
      <3>1. PICK s \in Sums \cup {None} : s = worker[w].msg.sum
        BY <2>5, WorkerMessage, MessageKinds DEF Reconcile, At
      <3>2. Commit(e, RunDocumentStored(RunOf(e), a), DocumentStored(a, s))
        BY <2>1, <2>2, <2>5, <3>1 DEF Reconcile
      <3>3. DocumentStored(a, s) \in ArtRow
        BY RowsAre
      <3>4. IF d = e THEN Like(art'[d], DocumentStored(a, s)) ELSE Like(art'[d], art[d])
        BY <2>1, <3>2, <3>3, CommitLike
      <3> QED BY <2>1, <2>2, <2>5, <3>1, <3>4 DEF RowMove
    <2>6. CASE StartAnalysis(w)
      <3>1. Commit(e, RunAnalysisStarted(RunOf(e), a), AnalysisStarted(a))
        BY <2>1, <2>2, <2>6 DEF StartAnalysis
      <3>2. AnalysisStarted(a) \in ArtRow
        BY RowsAre
      <3>3. IF d = e THEN Like(art'[d], AnalysisStarted(a)) ELSE Like(art'[d], art[d])
        BY <2>1, <3>1, <3>2, CommitLike
      <3> QED BY <2>1, <2>2, <2>6, <3>3 DEF RowMove
    <2>7. CASE FinishAnalysis(w)
      <3>1. Commit(e, RunAnalysisCompleted(RunOf(e), a), AnalysisCompleted(a))
        BY <2>1, <2>2, <2>7 DEF FinishAnalysis
      <3>2. AnalysisCompleted(a) \in ArtRow
        BY RowsAre
      <3>3. IF d = e THEN Like(art'[d], AnalysisCompleted(a)) ELSE Like(art'[d], art[d])
        BY <2>1, <3>1, <3>2, CommitLike
      <3> QED BY <2>1, <2>2, <2>7, <3>3 DEF RowMove
    <2> QED BY <1>6, <2>3, <2>4, <2>5, <2>6, <2>7
  <1> QED BY StepBooked, <1>1, <1>2, <1>3, <1>4, <1>5, <1>6
          DEF Booked, GetOrCreateRun, ReopenRun, MarkQueued, ServerVars, RunFailed,
              BeginDiscovery, CompleteDiscovery

(* Only the start of another download takes the outcome of one away. *)
LEMMA UnsettledIs ==
  ASSUME Inv, [Next]_vars, NEW d \in Docs, Settled(d), ~Settled(d)'
  PROVE  \E w \in Workers : StartDownload(w) /\ worker[w].msg.doc = d
  <1>1. RowMove(d)
    BY StepRow
  <1>2. art[d] \in ArtRow
    BY DEF Inv, Tables
  <1>3. ~Like(art'[d], art[d])
    BY DEF Like, Settled
  <1>4. Known(d)
    BY DEF Settled, Known
  <1>5. ASSUME NEW s \in Sums \cup {None}, Like(art'[d], DocumentStored(art[d], s))
        PROVE  FALSE
    BY <1>2, <1>5, RowsAre DEF Like, Settled
  <1>6. ~Like(art'[d], DownloadFailed(art[d]))
    BY <1>2, RowsAre DEF Like, Settled
  <1>7. /\ ~Like(art'[d], AnalysisStarted(art[d]))
        /\ ~Like(art'[d], AnalysisCompleted(art[d]))
        /\ ~Like(art'[d], AnalysisFailed(art[d]))
    BY <1>2, RowsAre DEF Like, Settled
  <1> QED BY <1>1, <1>3, <1>4, <1>5, <1>6, <1>7 DEF RowMove

(* A document enters the pipeline when its download message is sent. *)
LEMMA EnteringIs ==
  ASSUME Inv, [Next]_vars, NEW d \in Docs, d \notin entered, d \in entered'
  PROVE  \E n \in Slots : Owed(Download(d, n))'
  <1>1. PICK w \in Workers, n \in Slots : SendDownload(w, n) /\ worker[w].doc = d
    BY DEF Next, FaultStep, RequestStep, GetOrCreateRun, ReopenRun, SendDiscovery,
           MarkQueued, MarkUnsent, SendDiscoveryFails, RequestStops, WorkerStep,
           DiscoveryStep, DownloadStep, AnalysisStep, BeginDiscovery, ListDocuments,
           FindArtifact, SkipDocument, SendDownload, CompleteDiscovery, LoadArtifact,
           StartDownload, FetchAndPut, MarkStored, ReadFacts, Reconcile, StartAnalysis,
           Analyse, FinishAnalysis, Alert, RecordFinal, Acknowledge, Raise, Reject,
           Crash, Receive, ReceiveAgain, Receives, Redrive, SweepStep, SweepQuery,
           SweepClose, SweepStops, RunAges, ArtifactAges, OtherVars, ServerVars, vars
  <1>2. PICK m : m = Download(d, n)
    OBVIOUS
  <1>3. m \in Messages /\ queue' = [queue EXCEPT ![m] = Visible]
    BY <1>1, <1>2, MessageKinds DEF SendDownload
  <1>4. queue'[m].place = "visible"
    BY <1>3 DEF Visible, Inv, Queues
  <1> QED BY <1>2, <1>4 DEF Owed, Download

(* A container that is through with a download leaves a settled document. *)
LEMMA DownloadThrough ==
  ASSUME Inv, NEW w \in Workers, worker[w].pc # "idle", Goes(w, "ack"),
         worker[w].msg.stage = "download", Through(w)
  PROVE  \A d \in Docs : d = worker[w].msg.doc => Settled(d)'
  <1> SUFFICES ASSUME NEW d \in Docs, d = worker[w].msg.doc
               PROVE  Settled(d)'
    OBVIOUS
  <1>1. d = worker[w].msg.doc /\ Known(d)
    BY WorkerMessage
  <1>2. art[d] \in ArtRow /\ worker[w].sum \in Sums \cup {None}
    BY DEF Inv, Tables, Workforce, WorkerRow
  <1>3. CASE LoadArtifact(w)
    <2>1. PICK p : Goto(w, p) /\ (p # "ack" \/ art[d].download = "stored") /\ p # "idle"
      BY <1>1, <1>3 DEF LoadArtifact
    <2>2. p = "ack"
      BY <2>1, GotoIs DEF Goes
    <2> QED BY <1>1, <1>3, <2>1, <2>2 DEF LoadArtifact, OtherVars, Settled
  <1>4. CASE MarkStored(w)
    <2>1. PICK s \in Sums \cup {None} : s = worker[w].sum
      BY <1>2
    <2>2. Commit(d, RunDocumentStored(RunOf(d), art[d]), DocumentStored(art[d], s))
      BY <1>1, <1>4, <2>1 DEF MarkStored
    <2>3. /\ DocumentStored(art[d], s) \in ArtRow
          /\ DocumentStored(art[d], s).download = "stored"
      BY <1>2, RowsAre
    <2>4. art'[d].download = "stored"
      BY <1>1, <2>2, <2>3, CommitIs
    <2> QED BY <2>4 DEF Settled
  <1>5. CASE RecordFinal(w)
    <2>1. Commit(d, RunDownloadFailed(RunOf(d), art[d]), DownloadFailed(art[d]))
      BY <1>1, <1>5 DEF RecordFinal, FailSubject
    <2>2. /\ DownloadFailed(art[d]) \in ArtRow
          /\ DownloadFailed(art[d]).download \in {"stored", "failed"}
      BY <1>2, RowsAre
    <2>3. art'[d].download \in {"stored", "failed"}
      BY <1>1, <2>1, <2>2, CommitIs
    <2> QED BY <2>3 DEF Settled
  <1> QED BY <1>3, <1>4, <1>5 DEF Through, CompleteDiscovery, ReadFacts, Alert, At

(* Without a second delivery, the record a container goes on with is owed
   until the container is through with it. *)
LEMMA GoingOwed ==
  ASSUME Inv, Custody, HeldAlone, MaxDuplicates = 0, [Next]_vars,
         NEW w \in Workers, NEW p, p # "ack", Goes(w, p),
         NEW m, m = worker[w].msg
  PROVE  Owed(m)'
  <1>1. HeldAlone'
    BY AloneKept
  <1>2. worker'[w].pc = p /\ p # "idle" /\ worker'[w].msg = m
    BY DEF Goes
  <1>3. queue'[m].place = "inflight" /\ \A v \in Workers : worker'[v].msg = m => v = w
    BY <1>1, <1>2 DEF HeldAlone
  <1>4. Holders(m)' = {w}
    BY <1>2, <1>3 DEF Holders
  <1> QED BY <1>2, <1>3, <1>4 DEF Owed

(* A download message is told by its document and its slot. *)
LEMMA DownloadMessage ==
  ASSUME NEW m \in Messages, m.stage = "download"
  PROVE  \E n \in Slots : m = Download(m.doc, n)
  <1>1. m \in DownloadMessages
    BY DEF Messages, DiscoveryMessages, AnalysisMessages, DownloadMessages
  <1>2. m.slot \in Slots /\ m = Download(m.doc, m.slot)
    BY <1>1 DEF DownloadMessages, Download
  <1> QED BY <1>2

(* No step deletes the last download message of an unsettled document. *)
LEMMA FetchingKept ==
  ASSUME Inv, Custody, HeldAlone, MaxDuplicates = 0, [Next]_vars,
         NEW d \in Docs, Fetching(d)
  PROVE  Fetching(d)'
  <1> SUFFICES ASSUME d \in entered', ~Settled(d)'
               PROVE  \E n \in Slots : Owed(Download(d, n))'
    BY DEF Fetching
  <1>1. CASE d \notin entered
    BY <1>1, EnteringIs
  <1>2. CASE d \in entered /\ Settled(d)
    <2>1. PICK w \in Workers : StartDownload(w) /\ worker[w].msg.doc = d
      BY <1>2, UnsettledIs
    <2>2. At(w, "download", "start") /\ Goto(w, "fetch")
      BY <2>1 DEF StartDownload
    <2>3. worker[w].pc = "start" /\ worker[w].msg.stage = "download"
      BY <2>2 DEF At
    <2>4. Goes(w, "fetch")
      BY <2>2, <2>3, GotoIs
    <2>5. PICK m \in Messages : m = worker[w].msg
      BY <2>3, WorkerMessage
    <2>6. PICK n \in Slots : m = Download(d, n)
      BY <2>1, <2>3, <2>5, DownloadMessage
    <2>7. Owed(m)'
      BY <2>4, <2>5, GoingOwed
    <2> QED BY <2>6, <2>7 DEF Download
  <1>3. CASE d \in entered /\ ~Settled(d)
    <2>1. PICK n \in Slots : Owed(Download(d, n))
      BY <1>3 DEF Fetching
    <2>2. PICK m \in Messages : m = Download(d, n)
      BY MessageKinds
    <2>3. m.stage = "download" /\ m.doc = d /\ Owed(m)
      BY <2>1, <2>2, MessageKinds
    <2>4. ASSUME NEW w \in Workers, worker[w].msg = m, worker[w].pc # "idle",
                 Goes(w, "ack"), Through(w)
          PROVE  FALSE
      BY <2>3, <2>4, DownloadThrough
    <2>5. Owed(m)'
      BY <2>3, <2>4, OwedUntilThrough
    <2> QED BY <2>2, <2>5 DEF Download
  <1> QED BY <1>1, <1>2, <1>3

(* Without a second delivery, the download messages of a document are deleted
   only when its outcome is recorded: by mark_stored, or, once the last attempt
   failed, by _record_final before the record is acknowledged.  A container
   that is stopped, an exception and a redrive lose nothing. *)
THEOREM DeletedIsSettled ==
  ASSUME MaxDuplicates = 0
  PROVE  Spec => []AcknowledgedIsSettled
  <1> DEFINE All == \A d \in Docs : Fetching(d)
  <1>1. Init => All
    BY DEF Init, Fetching
  <1>2. Inv /\ Custody /\ HeldAlone /\ All /\ [Next]_vars => All'
    BY FetchingKept
  <1>3. Inv /\ Custody /\ All => AcknowledgedIsSettled
    <2> SUFFICES ASSUME Inv, Custody, All, NEW d \in entered,
                        \A n \in Slots : Free(Download(d, n))
                 PROVE  art[d].download \in {"stored", "failed"}
      BY DEF AcknowledgedIsSettled
    <2>1. d \in Docs
      BY DEF Inv, Rest
    <2>2. ASSUME NEW n \in Slots, Owed(Download(d, n)) PROVE FALSE
      BY <2>2 DEF Owed, Free
    <2> QED BY <2>1, <2>2 DEF Fetching, Settled
  <1> HIDE DEF All
  <1> QED BY <1>1, <1>2, <1>3, Invariance, CustodyInvariance, AloneInvariance, PTL DEF Spec

-----------------------------------------------------------------------------
(* The notification of an object is deleted when its analysis has ended.   *)

AnalysisSteps == {"begin", "reconcile", "rejected", "given up", "ack"} \cup Late

(* A container that is to record a stored document has put its object into the
   bucket, and one that has a notification takes the steps of an analysis, and
   can reject only a document that is recorded as stored. *)
WorkOK(w) ==
  /\ worker[w].pc = "store" =>
       /\ worker[w].sum \in Sums
       /\ <<worker[w].msg.doc, worker[w].sum>> \in objects
  /\ worker[w].pc # "idle" /\ worker[w].msg.stage = "analysis" =>
       /\ worker[w].pc \in AnalysisSteps
       /\ worker[w].pc = "rejected" => art[worker[w].msg.doc].download = "stored"

(* The recorded copy of a stored document is an object of the bucket. *)
CopyOK(d) ==
  art[d].download = "stored" =>
    art[d].copy \in Sums /\ <<d, art[d].copy>> \in objects

Ended(d) == art[d].download = "stored" /\ art[d].analysis \in {"completed", "failed"}

(* An object's notification is owed until the analysis of its document ended. *)
Announced(d, s) == <<d, s>> \in objects => Ended(d) \/ Owed(Analysis(d, s))

(* No object leaves the bucket, and a stored document stays stored. *)
LEMMA BucketGrows ==
  ASSUME Inv, [Next]_vars
  PROVE  /\ objects \subseteq objects'
         /\ \A d \in Docs : art[d].download = "stored" => art'[d].download = "stored"
  <1>1. objects \subseteq objects'
    BY StepHandled DEF Handled, Puts, Hands, Deletes, Returns
  <1>2. \A d \in Docs : art[d].download = "stored" => Known(d)
    BY DEF Known
  <1> QED BY <1>1, <1>2, StepInv, SubjectsStay DEF Inv

(* No step leads a container out of its stage. *)
LEMMA WorkKept ==
  ASSUME Inv, [Next]_vars, NEW v \in Workers, WorkOK(v)
  PROVE  WorkOK(v)'
  <1>0. /\ objects \subseteq objects'
        /\ \A d \in Docs : art[d].download = "stored" => art'[d].download = "stored"
    BY BucketGrows
  <1>1. PICK m : m = worker[v].msg
    OBVIOUS
  <1>2. worker[v].pc # "idle" /\ m.stage # "discovery" => m.doc \in Docs
    BY <1>1, WorkerMessage
  <1>3. CASE worker'[v] = worker[v]
    BY <1>0, <1>1, <1>2, <1>3 DEF WorkOK
  <1>4. ASSUME NEW p, Goes(v, p), p \notin {"store", "rejected"},
               m.stage = "analysis" => p \in AnalysisSteps
        PROVE  WorkOK(v)'
    BY <1>1, <1>4 DEF WorkOK, Goes
  <1>5. ASSUME Drops(v)
        PROVE  WorkOK(v)'
    BY <1>5 DEF WorkOK, Drops, Idle
  <1> SUFFICES ASSUME worker'[v] # worker[v]
               PROVE  WorkOK(v)'
    BY <1>3
  <1>6. ASSUME NEW w \in Workers, NEW p, Goes(w, p)
        PROVE  w = v
    BY <1>6 DEF Goes
  <1>7. ASSUME NEW w \in Workers, Drops(w)
        PROVE  WorkOK(v)'
    BY <1>5, <1>7 DEF Drops
  <1>8. ASSUME NEW w \in Workers, DiscoveryStep(w)
        PROVE  WorkOK(v)'
    <2>1. worker[w].msg.stage = "discovery"
          /\ \E p \in {"list", "each", "send", "ack"} : Goes(w, p)
      BY <1>8, BeginDiscoveryIs, ListDocumentsIs, FindArtifactIs, SkipDocumentIs,
         SendDownloadIs, CompleteDiscoveryIs DEF DiscoveryStep, At
    <2> QED BY <1>1, <1>4, <1>6, <2>1
  <1>9. ASSUME NEW w \in Workers, NEW s \in Sums, FetchAndPut(w, s)
        PROVE  WorkOK(v)'
    <2>1. At(w, "download", "fetch") /\ Goes(w, "store") /\ worker'[w].sum = s
      BY <1>9, FetchAndPutIs
    <2>2. w = v
      BY <1>6, <2>1
    <2>3. worker'[v].pc = "store" /\ worker'[v].msg = m /\ m.stage = "download"
      BY <1>1, <2>1, <2>2 DEF Goes, At
    <2>4. <<m.doc, s>> \in objects'
      BY <1>1, <1>9, <2>2 DEF FetchAndPut
    <2> QED BY <2>1, <2>2, <2>3, <2>4 DEF WorkOK
  <1>10. ASSUME NEW w \in Workers, LoadArtifact(w) \/ StartDownload(w) \/ MarkStored(w)
         PROVE  WorkOK(v)'
    <2>1. worker[w].pc # "idle" /\ worker[w].msg.stage = "download"
      BY <1>10 DEF LoadArtifact, StartDownload, MarkStored, At
    <2>2. \E p \in {"ack", "start", "fetch"} : Goes(w, p)
      BY <1>10, <2>1, GotoIs, MarkStoredIs DEF LoadArtifact, StartDownload
    <2> QED BY <1>1, <1>4, <1>6, <2>1, <2>2
  <1>11. ASSUME NEW w \in Workers, AnalysisStep(w)
         PROVE  WorkOK(v)'
    <2>1. worker[w].pc # "idle"
      BY <1>11 DEF AnalysisStep, ReadFacts, Reconcile, StartAnalysis, Analyse,
                   FinishAnalysis, Alert, At
    <2>2. \E p \in {"reconcile", "ack", "start", "analyse", "finish", "alert"} : Goto(w, p)
      BY <1>11 DEF AnalysisStep, ReadFacts, Reconcile, StartAnalysis, Analyse,
                   FinishAnalysis, Alert
    <2>3. PICK p \in {"reconcile", "ack", "start", "analyse", "finish", "alert"} : Goes(w, p)
      BY <2>1, <2>2, GotoIs
    <2>4. w = v
      BY <1>6, <2>3
    <2> QED BY <1>4, <2>3, <2>4 DEF AnalysisSteps, Late
  <1>12. ASSUME NEW w \in Workers, RecordFinal(w)
         PROVE  WorkOK(v)'
    <2>1. worker[w].pc # "idle"
      BY <1>12 DEF RecordFinal
    <2>2. Goes(w, "ack") \/ Drops(w)
      BY <1>12, <2>1, GotoIs, DropIs DEF RecordFinal
    <2> QED BY <1>4, <1>6, <1>7, <2>2 DEF AnalysisSteps
  <1>13. ASSUME NEW w \in Workers, Acknowledge(w) \/ Crash(w)
         PROVE  WorkOK(v)'
    <2>1. worker[w].pc # "idle"
      BY <1>13 DEF Acknowledge, Crash
    <2> QED BY <1>7, <1>13, <2>1, DropIs DEF Acknowledge, Crash
  <1>14. ASSUME NEW w \in Workers, Raise(w)
         PROVE  WorkOK(v)'
    <2>1. worker[w].pc # "idle"
      BY <1>14 DEF Raise, Fallible
    <2>2. Goes(w, "given up") \/ Drops(w)
      BY <1>14, <2>1, GotoIs, DropIs DEF Raise
    <2> QED BY <1>4, <1>6, <1>7, <2>2 DEF AnalysisSteps
  <1>15. ASSUME NEW w \in Workers, Reject(w)
         PROVE  WorkOK(v)'
    <2>1. worker[w].pc \in Rejectable /\ worker[w].pc # "idle"
      BY <1>15 DEF Reject, Rejectable
    <2>2. Goes(w, "rejected")
      BY <1>15, <2>1, GotoIs DEF Reject
    <2>3. w = v
      BY <1>6, <2>2
    <2>4. m.stage = "analysis" => worker[v].pc \in Late
      BY <1>1, <2>1, <2>3 DEF WorkOK, AnalysisSteps, Rejectable
    <2>5. m.stage = "analysis" => art[m.doc].download = "stored" /\ m.doc \in Docs
      BY <1>1, <1>2, <2>1, <2>3, <2>4 DEF Inv, Workforce, WorkerOK
    <2>6. worker'[v].pc = "rejected" /\ worker'[v].msg = m
      BY <1>1, <2>2, <2>3 DEF Goes
    <2> QED BY <1>0, <2>5, <2>6 DEF WorkOK, AnalysisSteps
  <1>16. ASSUME NEW w \in Workers, NEW k \in Messages, Receives(w, k)
         PROVE  WorkOK(v)'
    <2>1. worker'[w].pc = "begin" /\ w = v
      BY <1>16, ReceivesIs
    <2> QED BY <2>1 DEF WorkOK, AnalysisSteps
  <1>17. CASE UNCHANGED worker
    BY <1>17
  <1> QED BY <1>8, <1>9, <1>10, <1>11, <1>12, <1>13, <1>14, <1>15, <1>16, <1>17
          DEF Next, FaultStep, RequestStep, GetOrCreateRun, ReopenRun, SendDiscovery,
              MarkQueued, MarkUnsent, SendDiscoveryFails, RequestStops, WorkerStep,
              DownloadStep, Receive, ReceiveAgain, Redrive, SweepStep, SweepQuery,
              SweepClose, SweepStops, RunAges, ArtifactAges, OtherVars, ServerVars, vars

(* The copy a document records is an object, for a download stores its object
   first and a notification is that of an object. *)
LEMMA CopyKept ==
  ASSUME Inv, Custody, [Next]_vars, NEW d \in Docs, CopyOK(d),
         \A w \in Workers : WorkOK(w)
  PROVE  CopyOK(d)'
  <1>1. RowMove(d)
    BY StepRow
  <1>2. objects \subseteq objects'
    BY BucketGrows
  <1>3. art[d] \in ArtRow
    BY DEF Inv, Tables
  <1>4. ASSUME NEW a, Like(art'[d], a), a.copy = art[d].copy,
               a.download = "stored" => art[d].download = "stored"
        PROVE  CopyOK(d)'
    BY <1>2, <1>4 DEF CopyOK, Like
  <1>5. CASE Like(art'[d], art[d])
    BY <1>4, <1>5
  <1>6. ASSUME NEW r, art'[d] = CreatedArtifact(r, None)
        PROVE  CopyOK(d)'
    BY <1>6 DEF CopyOK, CreatedArtifact
  <1>7. CASE Like(art'[d], DownloadStarted(art[d]))
    <2>1. /\ DownloadStarted(art[d]).copy = art[d].copy
          /\ DownloadStarted(art[d]).download = "stored" => art[d].download = "stored"
      BY <1>3, RowsAre
    <2> QED BY <1>4, <1>7, <2>1
  <1>8. CASE Like(art'[d], DownloadFailed(art[d]))
    <2>1. /\ DownloadFailed(art[d]).copy = art[d].copy
          /\ DownloadFailed(art[d]).download = "stored" => art[d].download = "stored"
      BY <1>3, RowsAre
    <2> QED BY <1>4, <1>8, <2>1
  <1>9. CASE Like(art'[d], AnalysisStarted(art[d]))
    BY <1>3, <1>4, <1>9, RowsAre
  <1>10. CASE Like(art'[d], AnalysisCompleted(art[d]))
    BY <1>3, <1>4, <1>10, RowsAre
  <1>11. CASE Like(art'[d], AnalysisFailed(art[d]))
    BY <1>3, <1>4, <1>11, RowsAre
  <1>12. ASSUME NEW s \in Sums \cup {None}, Like(art'[d], DocumentStored(art[d], s)),
                s \in Sums, <<d, s>> \in objects
         PROVE  CopyOK(d)'
    <2>1. art'[d].copy = s
      BY <1>3, <1>12, RowsAre DEF Like
    <2> QED BY <1>2, <1>12, <2>1 DEF CopyOK
  <1>13. ASSUME NEW w \in Workers, NEW s \in Sums \cup {None}, worker[w].msg.doc = d,
                Like(art'[d], DocumentStored(art[d], s)), MarkStored(w), s = worker[w].sum
         PROVE  CopyOK(d)'
    <2>1. worker[w].pc = "store"
      BY <1>13 DEF MarkStored, At
    <2> QED BY <1>12, <1>13, <2>1 DEF WorkOK
  <1>14. ASSUME NEW w \in Workers, NEW s \in Sums \cup {None}, worker[w].msg.doc = d,
                Like(art'[d], DocumentStored(art[d], s)), Reconcile(w),
                s = worker[w].msg.sum
         PROVE  CopyOK(d)'
    <2>1. worker[w].pc = "reconcile" /\ worker[w].msg.stage = "analysis"
      BY <1>14 DEF Reconcile, At
    <2>2. worker[w].msg \in Messages
      BY <2>1, WorkerMessage
    <2>3. s \in Sums /\ worker[w].msg = Analysis(d, s)
      BY <1>14, <2>1, <2>2, AnalysisIs
    <2>4. ~Free(Analysis(d, s))
      BY <2>3 DEF Free, Holders
    <2>5. <<d, s>> \in objects
      BY <2>3, <2>4 DEF Custody, Absent
    <2> QED BY <1>12, <1>14, <2>3, <2>5
  <1> QED BY <1>1, <1>5, <1>6, <1>7, <1>8, <1>9, <1>10, <1>11, <1>13, <1>14 DEF RowMove

(* Only the start of another analysis takes the outcome of one away. *)
LEMMA ReopenedIs ==
  ASSUME Inv, [Next]_vars, NEW d \in Docs, Ended(d), ~Ended(d)'
  PROVE  \E w \in Workers : StartAnalysis(w) /\ worker[w].msg.doc = d
  <1>1. RowMove(d)
    BY StepRow
  <1>2. art[d] \in ArtRow
    BY DEF Inv, Tables
  <1>3. ASSUME NEW a, Like(art'[d], a), a.download = "stored",
               a.analysis \in {"completed", "failed"}
        PROVE  FALSE
    BY <1>3 DEF Like, Ended
  <1>4. ~Like(art'[d], art[d])
    BY <1>3 DEF Ended
  <1>5. Known(d)
    BY DEF Ended, Known
  <1>6. ~Like(art'[d], DownloadStarted(art[d])) /\ ~Like(art'[d], DownloadFailed(art[d]))
    BY <1>2, <1>3, RowsAre DEF Ended
  <1>7. ASSUME NEW s \in Sums \cup {None}, Like(art'[d], DocumentStored(art[d], s))
        PROVE  FALSE
    <2>1. /\ DocumentStored(art[d], s).download = "stored"
          /\ DocumentStored(art[d], s).analysis = art[d].analysis
      BY <1>2, RowsAre DEF Ended
    <2> QED BY <1>3, <1>7, <2>1 DEF Ended
  <1>8. /\ ~Like(art'[d], AnalysisCompleted(art[d]))
        /\ ~Like(art'[d], AnalysisFailed(art[d]))
    BY <1>2, <1>3, RowsAre DEF Ended
  <1> QED BY <1>1, <1>4, <1>5, <1>6, <1>7, <1>8 DEF RowMove

(* A container that is through with a notification leaves a document whose
   analysis ended.  One that finds another copy recorded is through as well,
   which is why a document may serve only one contents here. *)
LEMMA AnalysisThrough ==
  ASSUME Inv, [Next]_vars, \A s, t \in Sums : s = t,
         NEW w \in Workers, worker[w].pc # "idle", Goes(w, "ack"),
         worker[w].msg.stage = "analysis", Through(w), WorkOK(w),
         NEW d \in Docs, d = worker[w].msg.doc, CopyOK(d)
  PROVE  Ended(d)'
  <1>1. Known(d) /\ art[d] \in ArtRow /\ worker[w].msg.sum \in Sums
    BY WorkerMessage, MessageKinds DEF Inv, Tables
  <1>2. CASE ReadFacts(w)
    <2>1. PICK p : /\ Goto(w, p) /\ p # "idle"
                   /\ p = "ack" => /\ art[d].download = "stored"
                                   /\ \/ art[d].copy # worker[w].msg.sum
                                      \/ art[d].analysis = "completed"
      BY <1>2 DEF ReadFacts
    <2>2. p = "ack"
      BY <2>1, GotoIs DEF Goes
    <2>3. art[d].copy \in Sums
      BY <2>1, <2>2 DEF CopyOK
    <2>4. art[d].copy = worker[w].msg.sum
      BY <1>1, <2>3
    <2>5. Ended(d)
      BY <2>1, <2>2, <2>4 DEF Ended
    <2> QED BY <1>2, <2>5 DEF ReadFacts, OtherVars, Ended
  <1>3. CASE Alert(w)
    <2>1. art[d].analysis = "completed" /\ art[d].download = "stored"
      BY <1>3 DEF Alert, At, Inv, Workforce, WorkerOK, Late
    <2> QED BY <1>3, <2>1 DEF Alert, Ended
  <1>4. CASE worker[w].pc = "rejected" /\ RecordFinal(w)
    <2>1. art[d].download = "stored"
      BY <1>4 DEF WorkOK
    <2>2. Commit(d, RunAnalysisFailed(RunOf(d), art[d]), AnalysisFailed(art[d]))
      BY <1>4 DEF RecordFinal, FailSubject
    <2>3. /\ AnalysisFailed(art[d]) \in ArtRow
          /\ AnalysisFailed(art[d]).download = "stored"
          /\ AnalysisFailed(art[d]).analysis \in {"completed", "failed"}
      BY <1>1, <2>1, RowsAre
    <2> QED BY <1>1, <2>2, <2>3, CommitIs DEF Ended
  <1> QED BY <1>2, <1>3, <1>4 DEF Through, CompleteDiscovery, LoadArtifact, MarkStored, At

(* No step deletes the notification of an object that is still to be analysed. *)
LEMMA AnnouncedKept ==
  ASSUME Inv, Custody, HeldAlone, MaxDuplicates = 0, \A s, t \in Sums : s = t, [Next]_vars,
         \A w \in Workers : WorkOK(w), \A d \in Docs : CopyOK(d),
         NEW d \in Docs, NEW s \in Sums, Announced(d, s)
  PROVE  Announced(d, s)'
  <1>1. PICK m \in Messages : m = Analysis(d, s)
    BY AnalysisIs
  <1>2. m.stage = "analysis" /\ m.doc = d /\ m.sum = s
    BY <1>1, AnalysisIs
  <1>3. Analysis(d, s)' = m
    BY <1>1 DEF Analysis
  <1> SUFFICES ASSUME <<d, s>> \in objects', ~Ended(d)'
               PROVE  Owed(m)'
    BY <1>1, <1>3 DEF Announced, Analysis
  <1>4. CASE <<d, s>> \notin objects
    <2>1. objects' # objects
      BY <1>4
    <2>2. PICK k \in Messages : /\ Puts(k) /\ k.stage = "analysis"
                                /\ objects' = objects \cup {Object(k)}
      BY <2>1, StepHandled DEF Handled, Hands, Deletes, Returns, Puts
    <2>3. Object(k) = <<d, s>>
      BY <1>4, <2>2
    <2>4. k = m
      BY <1>1, <2>2, <2>3, AnalysisIs DEF Object
    <2> QED BY <2>2, <2>4, PuttingIs DEF Owed
  <1>5. CASE <<d, s>> \in objects /\ Ended(d)
    <2>1. PICK w \in Workers : StartAnalysis(w) /\ worker[w].msg.doc = d
      BY <1>5, ReopenedIs
    <2>2. worker[w].pc = "start" /\ worker[w].msg.stage = "analysis" /\ Goto(w, "analyse")
      BY <2>1 DEF StartAnalysis, At
    <2>3. Goes(w, "analyse")
      BY <2>2, GotoIs
    <2>4. worker[w].msg \in Messages
      BY <2>2, WorkerMessage
    <2>5. worker[w].msg = m
      BY <1>1, <2>1, <2>2, <2>4, AnalysisIs
    <2> QED BY <2>3, <2>5, GoingOwed
  <1>6. CASE <<d, s>> \in objects /\ Owed(m)
    <2>1. ASSUME NEW w \in Workers, worker[w].msg = m, worker[w].pc # "idle",
                 Goes(w, "ack"), Through(w)
          PROVE  FALSE
      BY <1>2, <2>1, AnalysisThrough
    <2> QED BY <1>6, <2>1, OwedUntilThrough
  <1> QED BY <1>1, <1>4, <1>5, <1>6 DEF Announced

(* Without a second delivery, and while a document's URL serves the same
   contents to every download, the notification of a stored object is deleted
   only when the analysis of its document ended, completed or failed: also when
   S3 announces the object before the download has recorded it, which the
   analysis then does itself. *)
THEOREM DeletedIsAnalysed ==
  ASSUME MaxDuplicates = 0, \A s, t \in Sums : s = t
  PROVE  Spec => []AnnouncedIsAnalysed
  <1> DEFINE Work == \A w \in Workers : WorkOK(w)
             Copies == \A d \in Docs : CopyOK(d)
             All == \A d \in Docs, s \in Sums : Announced(d, s)
  <1>1. Init => Work /\ Copies /\ All
    BY DEF Init, WorkOK, CopyOK, Announced, Idle, NoArtifact
  <1>2. Inv /\ Custody /\ Work /\ Copies /\ [Next]_vars => Work' /\ Copies'
    BY WorkKept, CopyKept
  <1>3. Inv /\ Custody /\ HeldAlone /\ Work /\ Copies /\ All /\ [Next]_vars => All'
    BY AnnouncedKept
  <1>4. Copies /\ All => AnnouncedIsAnalysed
    <2> SUFFICES ASSUME Copies, All, NEW d \in Docs, art[d].download = "stored",
                        \A s \in Sums : Free(Analysis(d, s))
                 PROVE  art[d].analysis \in {"completed", "failed"}
      BY DEF AnnouncedIsAnalysed
    <2>1. art[d].copy \in Sums /\ <<d, art[d].copy>> \in objects
      BY DEF CopyOK
    <2>2. ~Owed(Analysis(d, art[d].copy))
      BY <2>1 DEF Owed, Free
    <2> QED BY <2>1, <2>2 DEF Announced, Ended
  <1> HIDE DEF Work, Copies, All
  <1> QED BY <1>1, <1>2, <1>3, <1>4, Invariance, CustodyInvariance, AloneInvariance, PTL
          DEF Spec

-----------------------------------------------------------------------------
(* What items_failed counts.                                               *)

(* A failed analysis is completed, or skipped, without having been started
   again. *)
Overwrites(a, newA) == a.analysis = "failed" /\ newA.analysis \in {"completed", "skipped"}

(* The counter of failed documents moves with their columns, except that a
   failure that is overwritten stays counted. *)
Drifts(r, a, newR, newA) ==
  newR.failed = r.failed
    + One(newA.download = "failed") - One(a.download = "failed")
    + One(newA.analysis = "failed") - One(a.analysis = "failed")
    + One(Overwrites(a, newA))

(* A failure that was counted is taken back when its work starts again. *)
LEMMA TakenBackExactly ==
  ASSUME NEW r \in RunRow, NEW b \in BOOLEAN, b => r.failed > 0
  PROVE  TakenBack(r, b).failed = r.failed - One(b) /\ TakenBack(r, b) \in RunRow
  BY DEF TakenBack, OneLess, RunRow, One

(* Completing an analysis counts no failure and takes none back. *)
LEMMA CompletionFails ==
  ASSUME NEW r \in RunRow, NEW a
  PROVE  RunAnalysisCompleted(r, a).failed = r.failed
  <1> DEFINE n == [r EXCEPT !.analyzed = @ + 1]
  <1>1. n \in RunRow /\ n.failed = r.failed
    BY DEF RunRow
  <1>2. RunAnalysisCompleted(r, a) = r \/ RunAnalysisCompleted(r, a) = FinishedIfTerminal(n)
    BY DEF RunAnalysisCompleted
  <1> HIDE DEF n
  <1> QED BY <1>1, <1>2, FinishedRow

(* A transition counts a failure where it makes one, and takes it back where it
   starts its work again. *)
LEMMA TransitionDrifts ==
  ASSUME NEW r \in RunRow, NEW a \in ArtRow, NEW newR, NEW newA,
         Transition(r, a, newR, newA),
         a.download = "failed" \/ a.analysis = "failed" => r.failed > 0
  PROVE  Drifts(r, a, newR, newA)
  <1> USE DEF Drifts, One, Overwrites
  <1>0. r.failed \in Nat
    BY DEF RunRow
  <1>1. CASE newR = RunDownloadStarted(r, a) /\ newA = DownloadStarted(a)
    <2>1. CASE a.download = "stored"
      BY <1>0, <1>1, <2>1 DEF RunDownloadStarted, DownloadStarted
    <2>2. CASE a.download # "stored"
      <3>1. /\ TakenBack(r, a.download = "failed").failed
                 = r.failed - One(a.download = "failed")
            /\ TakenBack(r, a.download = "failed") \in RunRow
        BY TakenBackExactly
      <3>2. newR.failed = r.failed - One(a.download = "failed")
        BY <1>1, <2>2, <3>1 DEF RunDownloadStarted, RunRow
      <3>3. newA.download = "downloading" /\ newA.analysis = a.analysis
        BY <1>1, <2>2, RowsAre
      <3> QED BY <1>0, <3>2, <3>3
    <2> QED BY <2>1, <2>2
  <1>2. ASSUME NEW s \in Sums \cup {None},
               newR = RunDocumentStored(r, a), newA = DocumentStored(a, s)
        PROVE  Drifts(r, a, newR, newA)
    <2>0. /\ newA.download = "stored"
          /\ newA.analysis = IF a.analysis = "skipped" THEN "pending" ELSE a.analysis
      BY <1>2, RowsAre
    <2>1. CASE a.download = "stored"
      BY <1>0, <1>2, <2>0, <2>1 DEF RunDocumentStored
    <2>2. CASE a.download # "stored"
      <3>1. /\ TakenBack(r, a.download = "failed").failed
                 = r.failed - One(a.download = "failed")
            /\ TakenBack(r, a.download = "failed") \in RunRow
        BY TakenBackExactly
      <3>2. newR.failed = r.failed - One(a.download = "failed")
        BY <1>2, <2>2, <3>1 DEF RunDocumentStored, RunRow
      <3> QED BY <1>0, <2>0, <3>2
    <2> QED BY <2>1, <2>2
  <1>3. CASE newR = RunDownloadFailed(r, a) /\ newA = DownloadFailed(a)
    <2>1. CASE a.download = "stored"
      BY <1>0, <1>3, <2>1 DEF RunDownloadFailed, DownloadFailed
    <2>2. CASE a.download # "stored"
      <3>1. newA.download = "failed" /\ newA.analysis = "skipped"
        BY <1>3, <2>2, RowsAre
      <3>2. newR.failed = IF a.download = "failed" THEN r.failed ELSE r.failed + 1
        BY <1>3, <2>2, CountedRow DEF RunDownloadFailed
      <3> QED BY <1>0, <2>2, <3>1, <3>2
    <2> QED BY <2>1, <2>2
  <1>4. CASE newR = RunAnalysisStarted(r, a) /\ newA = AnalysisStarted(a)
    <2>1. CASE a.analysis = "completed"
      BY <1>0, <1>4, <2>1 DEF RunAnalysisStarted, AnalysisStarted
    <2>2. CASE a.analysis # "completed"
      <3>1. /\ TakenBack(r, a.analysis = "failed").failed
                 = r.failed - One(a.analysis = "failed")
            /\ TakenBack(r, a.analysis = "failed") \in RunRow
        BY TakenBackExactly
      <3>2. newR.failed = r.failed - One(a.analysis = "failed")
        BY <1>4, <2>2, <3>1 DEF RunAnalysisStarted, RunRow
      <3>3. newA.download = a.download /\ newA.analysis = "analyzing"
        BY <1>4, <2>2 DEF AnalysisStarted, ArtRow
      <3> QED BY <1>0, <3>2, <3>3
    <2> QED BY <2>1, <2>2
  <1>5. CASE newR = RunAnalysisCompleted(r, a) /\ newA = AnalysisCompleted(a)
    <2>1. newA.download = a.download /\ newA.analysis = "completed"
      BY <1>5, RowsAre
    <2>2. newR.failed = r.failed
      BY <1>5, CompletionFails
    <2> QED BY <1>0, <2>1, <2>2
  <1>6. CASE newR = RunAnalysisFailed(r, a) /\ newA = AnalysisFailed(a)
    <2>1. /\ newA.download = a.download
          /\ newA.analysis = IF a.analysis = "completed" THEN "completed" ELSE "failed"
      BY <1>6, RowsAre
    <2>2. newR.failed = IF a.analysis \in {"completed", "failed"} THEN r.failed
                        ELSE r.failed + 1
      BY <1>6, CountedRow DEF RunAnalysisFailed
    <2> QED BY <1>0, <2>1, <2>2
  <1> QED BY <1>1, <1>2, <1>3, <1>4, <1>5, <1>6 DEF Transition

(* A set with a document in it is not empty. *)
LEMMA FailedIsOne ==
  ASSUME NEW S, S \subseteq Docs, NEW d \in S
  PROVE  Cardinality(S) > 0
  <1>1. S \ {d} \subseteq Docs
    OBVIOUS
  <1>2. /\ Cardinality(S) \in Nat /\ Cardinality(S \ {d}) \in Nat
        /\ Cardinality(S) = Cardinality(S \ {d}) + One(d \in S) - One(d \in S \ {d})
    BY <1>1, OneDiffers
  <1> QED BY <1>2 DEF One

(* The failures that items_failed counts beyond the failed downloads and the
   failed analyses there are. *)
Surplus(r) == run[r].failed - Cardinality(UnfetchedOf(r)) - Cardinality(UnreadOf(r))

(* A step overwrites the failed analysis of a document of run r. *)
Overwritten(r) == \E d \in Of(r) : Overwrites(art[d], art'[d])

(* A step that is no transaction about a document counts no failure, and makes
   and undoes none. *)
LEMMA OthersFailNothing ==
  ASSUME Inv, Effect, ~Committed, NEW r \in Runs
  PROVE  /\ run'[r].failed = run[r].failed
         /\ UnfetchedOf(r)' = UnfetchedOf(r) /\ UnreadOf(r)' = UnreadOf(r)
         /\ \A d \in Docs : art[d].analysis = "failed" => art'[d].analysis = "failed"
  <1> USE DEF Of, UnfetchedOf, UnreadOf
  <1>1. run'[r].failed = run[r].failed
    BY DEF Effect, RunMoves, Created, Alerted, DayPasses, Alone, Inv, Tables
  <1>2. ASSUME NEW d \in Docs
        PROVE  /\ d \in UnfetchedOf(r)' <=> d \in UnfetchedOf(r)
               /\ d \in UnreadOf(r)' <=> d \in UnreadOf(r)
               /\ art[d].analysis = "failed" => art'[d].analysis = "failed"
    <2>1. CASE UNCHANGED art
      BY <2>1
    <2>2. CASE Created
      BY <2>2 DEF Created, CreatedArtifact, Inv, Tables, RowOK, Known
    <2>3. CASE DayPasses
      BY <2>3 DEF DayPasses, Inv, Tables, ArtRow
    <2> QED BY <2>1, <2>2, <2>3 DEF Effect, RunMoves, Alerted
  <1>3. UnfetchedOf(r)' = UnfetchedOf(r) /\ UnreadOf(r)' = UnreadOf(r)
    BY <1>2
  <1> HIDE DEF Of, UnfetchedOf, UnreadOf
  <1> QED BY <1>1, <1>2, <1>3

(* What a transaction about a document does to the rows of it and of its run,
   and to what has failed of that run; the other rows and runs stay. *)
LEMMA CommitFails ==
  ASSUME Inv, Committed
  PROVE  \E d \in Docs : \E newR, newA :
           /\ art[d] \in ArtRow /\ art[d].run \in Runs /\ RunOf(d) \in RunRow
           /\ newA \in ArtRow /\ Transition(RunOf(d), art[d], newR, newA)
           /\ run'[art[d].run] = newR
           /\ \A x \in Runs \ {art[d].run} :
                /\ run'[x] = run[x] /\ Of(x)' = Of(x)
                /\ UnfetchedOf(x)' = UnfetchedOf(x) /\ UnreadOf(x)' = UnreadOf(x)
           /\ art'[d].run = art[d].run /\ art'[d].download = newA.download
           /\ art'[d].analysis = newA.analysis
           /\ \A e \in Docs \ {d} : art'[e] = art[e]
  <1>0. PICK d \in Docs : \E newR, newA :
          /\ Known(d) /\ Transition(RunOf(d), art[d], newR, newA)
          /\ Commit(d, newR, newA)
    BY DEF Committed
  <1>1. PICK newR, newA :
          /\ Known(d) /\ Transition(RunOf(d), art[d], newR, newA)
          /\ Commit(d, newR, newA)
    BY <1>0
  <1>2. /\ art[d] \in ArtRow /\ art[d].run \in Runs /\ RunOf(d) \in RunRow
        /\ art[d].analysis = "completed" => art[d].download = "stored"
    BY <1>1 DEF Inv, Tables, RowOK, RunOf
  <1>3. newA \in ArtRow
    BY <1>1, <1>2, TransitionRows DEF Known
  <1>4. /\ run'[art[d].run] = newR
        /\ \A x \in Runs \ {art[d].run} : run'[x] = run[x]
        /\ art'[d].run = newA.run /\ art'[d].download = newA.download
        /\ art'[d].analysis = newA.analysis
        /\ \A e \in Docs \ {d} : art'[e] = art[e]
    BY <1>1, <1>3, CommitIs
  <1>5. newA.run = art[d].run
    BY <1>1, <1>2, TransitionRows DEF Known, Kept
  <1>6. ASSUME NEW x \in Runs \ {art[d].run}
        PROVE  /\ Of(x)' = Of(x)
               /\ UnfetchedOf(x)' = UnfetchedOf(x) /\ UnreadOf(x)' = UnreadOf(x)
    BY <1>4, <1>5 DEF Of, UnfetchedOf, UnreadOf
  <1> QED BY <1>1, <1>2, <1>3, <1>4, <1>5, <1>6

(* The surplus of a run moves with what is overwritten. *)
LEMMA SurplusMoves ==
  ASSUME Inv, Effect, NEW r \in Runs, CountsAgree(r)
  PROVE  Surplus(r)' = Surplus(r) + One(Overwritten(r))
  <1>0. /\ UnfetchedOf(r) \subseteq Docs /\ UnreadOf(r) \subseteq Docs
        /\ run[r].failed \in Nat
    BY DEF UnfetchedOf, UnreadOf, Of, Inv, Tables, RunRow
  <1>1. Cardinality(UnfetchedOf(r)) \in Nat /\ Cardinality(UnreadOf(r)) \in Nat
    BY <1>0, OneDiffers
  <1>2. CASE ~Committed
    <2>1. ~Overwritten(r)
      BY <1>2, OthersFailNothing DEF Overwritten, Overwrites, Of
    <2>2. Surplus(r)' = Surplus(r)
      BY <1>2, OthersFailNothing DEF Surplus
    <2> QED BY <1>0, <1>1, <2>1, <2>2 DEF One, Surplus
  <1>3. CASE Committed
    <2>0. PICK d \in Docs : \E newR, newA :
           /\ art[d] \in ArtRow /\ art[d].run \in Runs /\ RunOf(d) \in RunRow
           /\ newA \in ArtRow /\ Transition(RunOf(d), art[d], newR, newA)
           /\ run'[art[d].run] = newR
           /\ \A x \in Runs \ {art[d].run} :
                /\ run'[x] = run[x] /\ Of(x)' = Of(x)
                /\ UnfetchedOf(x)' = UnfetchedOf(x) /\ UnreadOf(x)' = UnreadOf(x)
           /\ art'[d].run = art[d].run /\ art'[d].download = newA.download
           /\ art'[d].analysis = newA.analysis
           /\ \A e \in Docs \ {d} : art'[e] = art[e]
      BY <1>3, CommitFails
    <2>1. PICK newR, newA :
           /\ art[d] \in ArtRow /\ art[d].run \in Runs /\ RunOf(d) \in RunRow
           /\ newA \in ArtRow /\ Transition(RunOf(d), art[d], newR, newA)
           /\ run'[art[d].run] = newR
           /\ \A x \in Runs \ {art[d].run} :
                /\ run'[x] = run[x] /\ Of(x)' = Of(x)
                /\ UnfetchedOf(x)' = UnfetchedOf(x) /\ UnreadOf(x)' = UnreadOf(x)
           /\ art'[d].run = art[d].run /\ art'[d].download = newA.download
           /\ art'[d].analysis = newA.analysis
           /\ \A e \in Docs \ {d} : art'[e] = art[e]
      BY <2>0
    <2>2. CASE r # art[d].run
      <3>1. ~Overwritten(r)
        BY <2>1, <2>2 DEF Overwritten, Overwrites, Of
      <3>2. Surplus(r)' = Surplus(r)
        BY <2>1, <2>2 DEF Surplus
      <3> QED BY <1>0, <1>1, <3>1, <3>2 DEF One, Surplus
    <2>3. CASE r = art[d].run
      <3>1. /\ UnfetchedOf(r)' \subseteq Docs
            /\ UnfetchedOf(r) \ {d} = UnfetchedOf(r)' \ {d}
            /\ d \in UnfetchedOf(r) <=> art[d].download = "failed"
            /\ d \in UnfetchedOf(r)' <=> newA.download = "failed"
        BY <2>1, <2>3 DEF UnfetchedOf, Of
      <3>2. /\ UnreadOf(r)' \subseteq Docs
            /\ UnreadOf(r) \ {d} = UnreadOf(r)' \ {d}
            /\ d \in UnreadOf(r) <=> art[d].analysis = "failed"
            /\ d \in UnreadOf(r)' <=> newA.analysis = "failed"
        BY <2>1, <2>3 DEF UnreadOf, Of
      <3>3. Overwritten(r) <=> Overwrites(art[d], newA)
        BY <2>1, <2>3 DEF Overwritten, Overwrites, Of
      <3>4. art[d].download = "failed" \/ art[d].analysis = "failed" => run[r].failed > 0
        <4>1. d \in UnfetchedOf(r) => Cardinality(UnfetchedOf(r)) > 0
          BY <1>0, FailedIsOne
        <4>2. d \in UnreadOf(r) => Cardinality(UnreadOf(r)) > 0
          BY <1>0, FailedIsOne
        <4> QED BY <1>0, <1>1, <3>1, <3>2, <4>1, <4>2 DEF CountsAgree
      <3>5. Drifts(run[r], art[d], run'[r], newA)
        BY <2>1, <2>3, <3>4, TransitionDrifts DEF RunOf
      <3>6. Cardinality(UnfetchedOf(r)') = Cardinality(UnfetchedOf(r))
              + One(newA.download = "failed") - One(art[d].download = "failed")
        BY <1>0, <3>1, OneDiffers DEF One
      <3>7. Cardinality(UnreadOf(r)') = Cardinality(UnreadOf(r))
              + One(newA.analysis = "failed") - One(art[d].analysis = "failed")
        BY <1>0, <3>2, OneDiffers DEF One
      <3>8. run'[r].failed = run[r].failed
               + One(newA.download = "failed") - One(art[d].download = "failed")
               + One(newA.analysis = "failed") - One(art[d].analysis = "failed")
               + One(Overwritten(r))
        BY <3>3, <3>5 DEF Drifts, One
      <3>9. Surplus(r)' = run'[r].failed - Cardinality(UnfetchedOf(r)') - Cardinality(UnreadOf(r)')
        BY DEF Surplus
      <3> QED BY <1>0, <1>1, <3>6, <3>7, <3>8, <3>9 DEF Surplus, One
    <2> QED BY <2>2, <2>3
  <1> QED BY <1>2, <1>3

(* What items_failed is worth, in every behaviour: it is the number of failed
   downloads and failed analyses of the run, and one more for each time a failed
   analysis was overwritten before it was started again: by a completion
   (mark_artifact_analysis_completed takes no failure back) or by the failure of
   a download that had not been recorded.  Duplicates, redrives, retries, the
   sweep and concurrent containers miscount in no other way, and what was
   counted too much is never taken back. *)
THEOREM SurplusIsOverwritten ==
  Spec => /\ \A r \in Runs : Surplus(r) = 0
          /\ [][\A r \in Runs : Surplus(r)' = IF Overwritten(r) THEN Surplus(r) + 1
                                                                ELSE Surplus(r)]_vars
  <1> DEFINE Counts == \A r \in Runs : CountsAgree(r)
             Moves == \A r \in Runs : Surplus(r)' = IF Overwritten(r) THEN Surplus(r) + 1
                                                                     ELSE Surplus(r)
  <1>1. Init => \A r \in Runs : Surplus(r) = 0
    <2> SUFFICES ASSUME Init, NEW r \in Runs
                 PROVE  Surplus(r) = 0
      OBVIOUS
    <2>1. UnfetchedOf(r) = {} /\ UnreadOf(r) = {} /\ run[r].failed = 0
      BY DEF Init, UnfetchedOf, UnreadOf, Of, NoArtifact, NoRun
    <2> QED BY <2>1, FS_EmptySet DEF Surplus
  <1>2. Inv /\ Counts /\ [Next]_vars => Moves
    <2> SUFFICES ASSUME Inv, Counts, [Next]_vars, NEW r \in Runs
                 PROVE  Surplus(r)' = IF Overwritten(r) THEN Surplus(r) + 1 ELSE Surplus(r)
      OBVIOUS
    <2>1. Surplus(r)' = Surplus(r) + One(Overwritten(r))
      BY StepInv, SurplusMoves
    <2>2. Surplus(r) \in Int
      <3>1. /\ UnfetchedOf(r) \subseteq Docs /\ UnreadOf(r) \subseteq Docs
            /\ run[r].failed \in Nat
        BY DEF UnfetchedOf, UnreadOf, Of, Inv, Tables, RunRow
      <3>2. Cardinality(UnfetchedOf(r)) \in Nat /\ Cardinality(UnreadOf(r)) \in Nat
        BY <3>1, OneDiffers
      <3> QED BY <3>1, <3>2 DEF Surplus
    <2> QED BY <2>1, <2>2 DEF One
  <1> HIDE DEF Counts, Moves
  <1>3. Spec => []Counts
    BY CountsInvariance DEF Counts
  <1>4. Spec => (\A r \in Runs : Surplus(r) = 0) /\ [][Moves]_vars
    BY <1>1, <1>2, <1>3, Invariance, PTL DEF Spec
  <1> QED BY <1>4 DEF Moves

-----------------------------------------------------------------------------
(* What is true of a finished run.                                           *)

(* A set is covered by two disjoint parts that are together as large. *)
LEMMA PartsCover ==
  ASSUME NEW S, S \subseteq Docs, NEW A, A \subseteq S, NEW F, F \subseteq S,
         A \cap F = {}, Cardinality(A) + Cardinality(F) >= Cardinality(S)
  PROVE  S = A \cup F /\ (Cardinality(F) = 0 => S = A)
  <1>0. S \in SUBSET Docs /\ A \in SUBSET S /\ F \in SUBSET S
    OBVIOUS
  <1>1. IsFiniteSet(S) /\ IsFiniteSet(A) /\ IsFiniteSet(F)
    <2>1. IsFiniteSet(S)
      BY <1>0, DocsAssumption, FS_Subset
    <2> QED BY <1>0, <2>1, FS_Subset
  <1>2. /\ Cardinality(S) \in Nat /\ Cardinality(A) \in Nat /\ Cardinality(F) \in Nat
        /\ Cardinality({}) = 0
    BY <1>1, FS_CardinalityType, FS_EmptySet
  <1>3. Cardinality(A \cup F) = Cardinality(A) + Cardinality(F) - Cardinality(A \cap F)
    BY <1>1, FS_Union
  <1>4. Cardinality(A \cup F) >= Cardinality(S)
    <2>1. Cardinality(A \cap F) = 0
      BY <1>2
    <2> QED BY <1>2, <1>3, <2>1
  <1>5. A \cup F \in SUBSET S
    OBVIOUS
  <1>6. /\ IsFiniteSet(A \cup F) /\ Cardinality(A \cup F) <= Cardinality(S)
        /\ Cardinality(S) = Cardinality(A \cup F) => S = A \cup F
    BY <1>1, <1>5, FS_Subset
  <1>7. Cardinality(A \cup F) \in Nat
    BY <1>6, FS_CardinalityType
  <1>8. S = A \cup F
    BY <1>2, <1>4, <1>6, <1>7
  <1>9. Cardinality(F) = 0 => F = {}
    BY <1>1, FS_EmptySet
  <1> QED BY <1>8, <1>9

(* A document that belongs to a run stays with it. *)
LEMMA OwnersStay ==
  ASSUME Inv, [Next]_vars, NEW d \in Docs, art[d].run # None
  PROVE  Known(d) /\ art[d].run \in Runs /\ art'[d].run = art[d].run
  <1>1. Known(d) /\ art[d].run \in Runs
    BY DEF Inv, Tables, RowOK
  <1>2. Kept(art[d], art'[d])
    BY <1>1, StepInv, TablesKept DEF Inv, Grows
  <1> QED BY <1>1, <1>2 DEF Kept

(* How a step finishes a run: as many documents ended as were found, or the
   run was finished before and what its documents came to is kept.  Only the
   end of a discovery changes what was found. *)
Finishes(r) ==
  \/ /\ run'[r].found = run[r].found
     /\ run'[r].status \in {"completed", "partial"} =>
          \/ Concluded(run'[r])
          \/ /\ run'[r].status = run[r].status
             /\ run[r].status = "partial" =>
                  \A d \in Of(r) : Outcome(art[d]) => Outcome(art'[d])
  \/ \E w \in Workers : CompleteDiscovery(w) /\ worker[w].msg.run = r

(* A transaction about a document finishes its run only so. *)
LEMMA CommitFinishes ==
  ASSUME Inv, NEW d \in Docs, Known(d), NEW newR, NEW newA,
         Transition(RunOf(d), art[d], newR, newA), Commit(d, newR, newA), NEW r \in Runs
  PROVE  Finishes(r)
  <1>1. /\ art[d] \in ArtRow /\ art[d].download # "none" /\ art[d].run \in Runs
        /\ art[d].analysis = "completed" => art[d].download = "stored"
        /\ RunOf(d) \in RunRow
    BY DEF Inv, Tables, RowOK, Known, RunOf
  <1>2. newA \in ArtRow
    BY <1>1, TransitionRows
  <1>3. Ends(RunOf(d), art[d], newR, newA)
    BY <1>1, TransitionEnds
  <1>4. /\ run'[art[d].run] = newR /\ \A x \in Runs \ {art[d].run} : run'[x] = run[x]
        /\ Outcome(art'[d]) <=> Outcome(newA)
        /\ \A e \in Docs \ {d} : art'[e] = art[e]
    BY <1>2, CommitIs DEF Outcome
  <1>5. CASE r = art[d].run
    <2>1. \A e \in Of(r) \ {d} : Outcome(art[e]) => Outcome(art'[e])
      BY <1>4 DEF Of
    <2>2. run'[r] = newR /\ run[r] = RunOf(d)
      BY <1>4, <1>5 DEF RunOf
    <2> QED BY <1>3, <1>4, <2>1, <2>2 DEF Ends, Finishes
  <1>6. CASE r # art[d].run
    <2>1. run'[r] = run[r] /\ \A e \in Of(r) : art'[e] = art[e]
      BY <1>4, <1>6 DEF Of
    <2> QED BY <2>1 DEF Finishes
  <1> QED BY <1>5, <1>6

(* Every step finishes a run only so. *)
LEMMA StepFinishes ==
  ASSUME Inv, [Next]_vars, NEW r \in Runs
  PROVE  Finishes(r)
  <1>0. run[r] \in RunRow
    BY DEF Inv, Tables
  <1>1. ASSUME UNCHANGED art, run'[r].found = run[r].found,
               run'[r].status \in {run[r].status, "enqueueing", "queued", "discovering", "failed"}
        PROVE  Finishes(r)
    BY <1>1 DEF Finishes
  <1>2. CASE Calm
    BY <1>2 DEF Calm, Finishes, Outcome, Of
  <1>3. ASSUME NEW q \in Requests, NEW x \in Runs, GetOrCreateRun(q, x)
        PROVE  Finishes(r)
    <2>1. UNCHANGED art
      BY <1>3 DEF GetOrCreateRun, ServerVars
    <2>2. run'[r] = run[r] \/ (run'[r] = CreatedRun /\ run[r].status = "none")
      BY <1>3 DEF GetOrCreateRun, Inv, Tables
    <2>3. run[r].status = "none" => run[r].found = 0
      BY DEF Inv, Tables, KnownRun, NoRun
    <2>4. CreatedRun.found = 0 /\ CreatedRun.status = "enqueueing"
      BY DEF CreatedRun, NoRun
    <2> QED BY <1>1, <2>1, <2>2, <2>3, <2>4
  <1>4. ASSUME NEW q \in Requests, ReopenRun(q)
        PROVE  Finishes(r)
    <2>1. run'[r] \in {run[r], Enqueueing(run[r])} /\ UNCHANGED art
      BY <1>4 DEF ReopenRun, Inv, Tables, ServerVars
    <2>2. /\ Enqueueing(run[r]).found = run[r].found
          /\ Enqueueing(run[r]).status \in {run[r].status, "enqueueing"}
      BY <1>0 DEF Enqueueing, RunRow
    <2> QED BY <1>1, <2>1, <2>2
  <1>5. ASSUME NEW q \in Requests, MarkQueued(q)
        PROVE  Finishes(r)
    <2>1. run'[r] \in {run[r], QueuedIfEnqueueing(run[r])} /\ UNCHANGED art
      BY <1>5 DEF MarkQueued, Inv, Tables, ServerVars
    <2>2. /\ QueuedIfEnqueueing(run[r]).found = run[r].found
          /\ QueuedIfEnqueueing(run[r]).status \in {run[r].status, "queued"}
      BY <1>0 DEF QueuedIfEnqueueing, RunRow
    <2> QED BY <1>1, <2>1, <2>2
  <1>6. ASSUME NEW x \in Runs, RunFailed(x)
        PROVE  Finishes(r)
    <2>1. run'[r] \in {run[r], DiscoveryFailed(run[r])} /\ UNCHANGED art
      BY <1>6 DEF RunFailed, Inv, Tables
    <2>2. /\ DiscoveryFailed(run[r]).found = run[r].found
          /\ DiscoveryFailed(run[r]).status \in {run[r].status, "failed"}
      BY <1>0 DEF DiscoveryFailed, RunRow
    <2> QED BY <1>1, <2>1, <2>2
  <1>7. ASSUME NEW w \in Workers, BeginDiscovery(w)
        PROVE  Finishes(r)
    <2>1. run'[r] \in {run[r], DiscoveryStarted(run[r])} /\ UNCHANGED art
      BY <1>7 DEF BeginDiscovery, Inv, Tables
    <2>2. /\ DiscoveryStarted(run[r]).found = run[r].found
          /\ DiscoveryStarted(run[r]).status \in {run[r].status, "discovering"}
      BY <1>0 DEF DiscoveryStarted, RunRow
    <2> QED BY <1>1, <2>1, <2>2
  <1>8. ASSUME NEW w \in Workers, CompleteDiscovery(w)
        PROVE  Finishes(r)
    <2>1. UNCHANGED art /\ (worker[w].msg.run # r => run'[r] = run[r])
      BY <1>8 DEF CompleteDiscovery, Inv, Tables
    <2> QED BY <1>1, <1>8, <2>1 DEF Finishes
  <1>9. ASSUME NEW w \in Workers, NEW d \in Docs, FindArtifact(w, d)
        PROVE  Finishes(r)
    <2>1. /\ UNCHANGED run /\ \A e \in Docs \ {d} : art'[e] = art[e]
          /\ art[d].run # None => art'[d] = art[d]
      BY <1>9, FindingIs
    <2>2. \A e \in Of(r) : art'[e] = art[e]
      BY <2>1, NoneAssumption DEF Of
    <2> QED BY <2>1, <2>2 DEF Finishes
  <1>10. ASSUME NEW d \in Docs, DownloadLost(d) \/ AnalysisLost(d)
         PROVE  Finishes(r)
    BY <1>10, CommitFinishes DEF DownloadLost, AnalysisLost, Transition
  <1>11. ASSUME NEW w \in Workers,
                \/ StartDownload(w) \/ MarkStored(w)
                \/ Reconcile(w) \/ StartAnalysis(w) \/ FinishAnalysis(w)
         PROVE  Finishes(r)
    BY <1>11, WorkerCommits, CommitFinishes
  <1> QED BY StepBooked, <1>2, <1>3, <1>4, <1>5, <1>6, <1>7, <1>8, <1>9, <1>10, <1>11
          DEF Booked

(* The listed documents a discovery has been through that are its run's. *)
Mine(L, x) == {d \in L \ x.todo : art[d].run = x.msg.run}

(* A container counts the documents of its run it has been through, each once,
   and every document it has been through belongs to some run. *)
Pass(L, x) ==
  /\ x.pc \in {"begin", "list"} => x.queued = 0
  /\ x.pc \in {"each", "send"} /\ x.msg.stage = "discovery" =>
       /\ x.todo \subseteq L
       /\ \A d \in L \ x.todo : art[d].run # None
       /\ x.pc = "each" => x.queued = Cardinality(Mine(L, x))
       /\ x.pc = "send" => x.queued + 1 = Cardinality(Mine(L, x))

(* Every document the pipeline knows is on the page. *)
Listed(L) == \A d \in Docs : Known(d) => d \in L

(* A run that knows how many documents were found has them all. *)
Found(L, r) ==
  run[r].found > 0 \/ run[r].status \in {"completed", "partial"} =>
    /\ \A d \in L : art[d].run # None
    /\ run[r].found = Cardinality(Of(r))

(* A run reported completed has analysed each of its documents; one reported
   partial has an outcome for each, unless it counts more failures than it has
   failed documents. *)
Over(r) ==
  /\ run[r].status = "completed" => Of(r) \subseteq AnalyzedOf(r)
  /\ run[r].status = "partial" => \/ Of(r) \subseteq AnalyzedOf(r) \cup FailedOf(r)
                                 \/ run[r].failed > Cardinality(FailedOf(r))

(* Steps of others leave what a container counted alone. *)
LEMMA PassStays ==
  ASSUME Inv, [Next]_vars, NEW L \in SUBSET Docs, NEW x, Pass(L, x)
  PROVE  Pass(L, x)'
  <1>1. CASE x.pc \in {"each", "send"} /\ x.msg.stage = "discovery"
    <2>1. \A d \in L \ x.todo : art[d].run # None
      BY <1>1 DEF Pass
    <2>2. \A d \in L \ x.todo : art'[d].run = art[d].run
      BY <2>1, OwnersStay
    <2>3. Mine(L, x)' = Mine(L, x)
      BY <2>2 DEF Mine
    <2>4. \A d \in L \ x.todo : art'[d].run # None
      BY <2>1, <2>2
    <2> QED BY <2>3, <2>4 DEF Pass
  <1>2. CASE ~(x.pc \in {"each", "send"} /\ x.msg.stage = "discovery")
    BY <1>2 DEF Pass
  <1> QED BY <1>1, <1>2

(* The document a discovery turns to next is one more it has been through:
   its run's, when it is new or the run's already. *)
LEMMA TakingPasses ==
  ASSUME Inv, [Next]_vars, NEW L \in SUBSET Docs, NEW w \in Workers, NEW d \in Docs,
         Pass(L, worker[w]), FindArtifact(w, d) \/ SkipDocument(w, d),
         NEW y, y = worker'[w]
  PROVE  Pass(L, y)'
  <1>1. PICK x : x = worker[w]
    OBVIOUS
  <1>2. /\ x.pc = "each" /\ x.msg.stage = "discovery" /\ d \in x.todo
        /\ x \in WorkerRow /\ x.msg.run \in Runs
    BY <1>1, WorkerMessage DEF FindArtifact, SkipDocument, Takes, At, Inv, Workforce
  <1>3. /\ y.msg = x.msg /\ y.todo = x.todo \ {d} /\ y.queued = x.queued
        /\ y.pc = IF FindArtifact(w, d) THEN "send" ELSE "each"
    <2>1. CASE FindArtifact(w, d)
      BY <1>1, <2>1, FindArtifactIs DEF Goes
    <2>2. CASE SkipDocument(w, d) /\ ~FindArtifact(w, d)
      BY <1>1, <2>2, SkipDocumentIs DEF Goes
    <2> QED BY <2>1, <2>2
  <1>4. /\ x.todo \subseteq L /\ x.queued = Cardinality(Mine(L, x)) /\ x.queued \in Nat
        /\ \A e \in L \ x.todo : art[e].run # None
    BY <1>1, <1>2 DEF Pass, WorkerRow
  <1>5. \A e \in L \ x.todo : art'[e].run = art[e].run
    BY <1>4, OwnersStay
  <1>6. L \ y.todo = (L \ x.todo) \cup {d}
    BY <1>2, <1>3, <1>4
  <1>7. CASE FindArtifact(w, d)
    <2>1. art'[d].run = x.msg.run
      <3>1. CASE art[d].run = None
        <4>1. art'[d] = CreatedArtifact(x.msg.run, None)
          BY <1>1, <1>7, <3>1, FindingIs
        <4> QED BY <4>1 DEF CreatedArtifact
      <3>2. CASE art[d].run # None
        BY <1>1, <1>7, <3>2, FindingIs
      <3> QED BY <3>1, <3>2
    <2>2. Mine(L, y)' = Mine(L, x) \cup {d}
      BY <1>3, <1>5, <1>6, <2>1 DEF Mine
    <2>3. d \notin Mine(L, x) /\ Mine(L, x) \in SUBSET Docs
      BY <1>2 DEF Mine
    <2>4. IsFiniteSet(Mine(L, x))
      BY <2>3, DocsAssumption, FS_Subset
    <2>5. Cardinality(Mine(L, y)') = Cardinality(Mine(L, x)) + 1
      BY <2>2, <2>3, <2>4, FS_AddElement
    <2>6. \A e \in L \ y.todo : art'[e].run # None
      BY <1>2, <1>4, <1>5, <1>6, <2>1, NoneAssumption
    <2>7. Cardinality(Mine(L, y))' = x.queued + 1
      BY <1>4, <2>5
    <2> QED BY <1>3, <1>4, <1>7, <2>6, <2>7 DEF Pass
  <1>8. CASE ~FindArtifact(w, d)
    <2>1. art[d].run \notin {None, x.msg.run}
      BY <1>1, <1>8 DEF SkipDocument
    <2>2. art'[d].run = art[d].run
      BY <2>1, OwnersStay
    <2>3. Mine(L, y)' = Mine(L, x)
      BY <1>3, <1>5, <1>6, <2>1, <2>2 DEF Mine
    <2>4. \A e \in L \ y.todo : art'[e].run # None
      BY <1>4, <1>5, <1>6, <2>1, <2>2
    <2>5. Cardinality(Mine(L, y))' = x.queued
      BY <1>4, <2>3
    <2> QED BY <1>3, <1>4, <1>8, <2>4, <2>5 DEF Pass
  <1> QED BY <1>7, <1>8

(* A sent document is counted once. *)
LEMMA SendingPasses ==
  ASSUME Inv, [Next]_vars, NEW L \in SUBSET Docs, NEW w \in Workers, NEW n \in Slots,
         Pass(L, worker[w]), SendDownload(w, n), NEW y, y = worker'[w]
  PROVE  Pass(L, y)'
  <1>1. PICK x : x = worker[w]
    OBVIOUS
  <1>2. x.pc = "send" /\ x.msg.stage = "discovery"
    BY <1>1 DEF SendDownload, At
  <1>3. /\ y.pc = "each" /\ y.msg = x.msg /\ y.todo = x.todo /\ y.queued = x.queued + 1
    BY <1>1, SendDownloadIs DEF Goes
  <1>4. /\ x.todo \subseteq L /\ x.queued + 1 = Cardinality(Mine(L, x))
        /\ \A d \in L \ x.todo : art[d].run # None
    BY <1>1, <1>2 DEF Pass
  <1>5. UNCHANGED art
    BY DEF SendDownload
  <1>6. Mine(L, y)' = Mine(L, x)
    BY <1>3, <1>5 DEF Mine
  <1> QED BY <1>3, <1>4, <1>5, <1>6 DEF Pass

(* No step miscounts what a discovery has been through. *)
LEMMA PassKept ==
  ASSUME Inv, [Next]_vars, NEW L \in SUBSET Docs, Listings = {L},
         NEW v \in Workers, Pass(L, worker[v])
  PROVE  Pass(L, worker[v])'
  <1>0. PICK y : y = worker'[v]
    OBVIOUS
  <1> SUFFICES Pass(L, y)'
    BY <1>0 DEF Pass, Mine
  <1>1. PICK x : x = worker[v]
    OBVIOUS
  <1>2. CASE y = x
    BY <1>1, <1>2, PassStays
  <1>3. ASSUME y.pc \notin {"begin", "list"},
               y.pc \in {"each", "send"} => y.msg.stage # "discovery"
        PROVE  Pass(L, y)'
    BY <1>3 DEF Pass
  <1>4. CASE y = Idle
    BY <1>3, <1>4 DEF Idle
  <1> SUFFICES ASSUME y # x
               PROVE  Pass(L, y)'
    BY <1>2
  <1>5. ASSUME NEW w \in Workers, NEW p, Goes(w, p)
        PROVE  w = v /\ y.pc = p /\ y.msg = x.msg
    BY <1>0, <1>1, <1>5 DEF Goes
  <1>6. ASSUME NEW w \in Workers, Drops(w)
        PROVE  Pass(L, y)'
    BY <1>0, <1>1, <1>4, <1>6 DEF Drops
  <1>7. ASSUME NEW w \in Workers, NEW p, Goes(w, p), p \notin {"begin", "list", "each", "send"}
        PROVE  Pass(L, y)'
    BY <1>3, <1>5, <1>7
  <1>8. ASSUME NEW w \in Workers, BeginDiscovery(w)
        PROVE  Pass(L, y)'
    <2>1. Goes(w, "list") /\ SameWork(w) /\ worker[w].pc = "begin"
      BY <1>8, BeginDiscoveryIs DEF At
    <2>2. y.pc = "list" /\ y.queued = x.queued /\ x.pc = "begin"
      BY <1>0, <1>1, <1>5, <2>1 DEF SameWork
    <2> QED BY <1>1, <2>2 DEF Pass
  <1>9. ASSUME NEW w \in Workers, ListDocuments(w)
        PROVE  Pass(L, y)'
    <2>1. /\ Goes(w, "each") /\ worker[w].pc = "list"
          /\ worker'[w].todo = L /\ worker'[w].queued = worker[w].queued
      BY <1>9, ListDocumentsIs DEF At
    <2>2. y.pc = "each" /\ y.todo = L /\ y.queued = x.queued /\ x.pc = "list"
      BY <1>0, <1>1, <1>5, <2>1
    <2>3. y.queued = 0
      BY <1>1, <2>2 DEF Pass
    <2>4. Mine(L, y)' = {}
      BY <2>2 DEF Mine
    <2>5. Cardinality(Mine(L, y))' = 0
      BY <2>4, FS_EmptySet
    <2> QED BY <2>2, <2>3, <2>5 DEF Pass
  <1>10. ASSUME NEW w \in Workers, NEW d \in Docs, FindArtifact(w, d) \/ SkipDocument(w, d)
         PROVE  Pass(L, y)'
    <2>1. Goes(w, "send") \/ Goes(w, "each")
      BY <1>10, FindArtifactIs, SkipDocumentIs
    <2>2. w = v
      BY <1>5, <2>1
    <2>3. y = worker'[w]
      BY <1>0, <2>2
    <2>4. Pass(L, worker[w])
      BY <2>2
    <2> QED BY <1>10, <2>3, <2>4, TakingPasses
  <1>11. ASSUME NEW w \in Workers, NEW n \in Slots, SendDownload(w, n)
         PROVE  Pass(L, y)'
    <2>1. w = v
      BY <1>5, <1>11, SendDownloadIs
    <2>2. y = worker'[w]
      BY <1>0, <2>1
    <2>3. Pass(L, worker[w])
      BY <2>1
    <2> QED BY <1>11, <2>2, <2>3, SendingPasses
  <1>12. ASSUME NEW w \in Workers, CompleteDiscovery(w)
         PROVE  Pass(L, y)'
    BY <1>7, <1>12, CompleteDiscoveryIs
  <1>13. ASSUME NEW w \in Workers, DownloadStep(w)
         PROVE  Pass(L, y)'
    <2>1. worker[w].pc # "idle"
      BY <1>13 DEF DownloadStep, LoadArtifact, StartDownload, FetchAndPut, MarkStored, At
    <2>2. \E p \in {"ack", "start", "fetch", "store"} : Goes(w, p)
      BY <1>13, <2>1, GotoIs, MarkStoredIs, FetchAndPutIs
         DEF DownloadStep, LoadArtifact, StartDownload
    <2> QED BY <1>7, <2>2
  <1>14. ASSUME NEW w \in Workers, AnalysisStep(w)
         PROVE  Pass(L, y)'
    <2>1. worker[w].pc # "idle"
      BY <1>14 DEF AnalysisStep, ReadFacts, Reconcile, StartAnalysis, Analyse,
                   FinishAnalysis, Alert, At
    <2>2. \E p \in {"reconcile", "ack", "start", "analyse", "finish", "alert"} : Goto(w, p)
      BY <1>14 DEF AnalysisStep, ReadFacts, Reconcile, StartAnalysis, Analyse,
                   FinishAnalysis, Alert
    <2>3. PICK p \in {"reconcile", "ack", "start", "analyse", "finish", "alert"} : Goes(w, p)
      BY <2>1, <2>2, GotoIs
    <2> QED BY <1>7, <2>3
  <1>15. ASSUME NEW w \in Workers, RecordFinal(w)
         PROVE  Pass(L, y)'
    <2>1. worker[w].pc # "idle"
      BY <1>15 DEF RecordFinal
    <2>2. Goes(w, "ack") \/ Drops(w)
      BY <1>15, <2>1, GotoIs, DropIs DEF RecordFinal
    <2> QED BY <1>6, <1>7, <2>2
  <1>16. ASSUME NEW w \in Workers, Acknowledge(w) \/ Crash(w)
         PROVE  Pass(L, y)'
    <2>1. worker[w].pc # "idle"
      BY <1>16 DEF Acknowledge, Crash
    <2> QED BY <1>6, <1>16, <2>1, DropIs DEF Acknowledge, Crash
  <1>17. ASSUME NEW w \in Workers, Raise(w) \/ Reject(w)
         PROVE  Pass(L, y)'
    <2>1. worker[w].pc # "idle"
      BY <1>17 DEF Raise, Reject, Fallible, Rejectable
    <2>2. Goes(w, "given up") \/ Goes(w, "rejected") \/ Drops(w)
      BY <1>17, <2>1, GotoIs, DropIs DEF Raise, Reject
    <2> QED BY <1>6, <1>7, <2>2
  <1>18. ASSUME NEW w \in Workers, NEW k \in Messages, Receives(w, k)
         PROVE  Pass(L, y)'
    <2>1. worker'[w].pc = "begin" /\ worker'[w].queued = 0 /\ w = v
      BY <1>0, <1>1, <1>18, ReceivesIs
    <2> QED BY <1>0, <2>1 DEF Pass
  <1>19. CASE UNCHANGED worker
    BY <1>0, <1>1, <1>19
  <1> QED BY <1>8, <1>9, <1>10, <1>11, <1>12, <1>13, <1>14, <1>15, <1>16, <1>17, <1>18, <1>19
          DEF Next, FaultStep, RequestStep, GetOrCreateRun, ReopenRun, SendDiscovery,
              MarkQueued, MarkUnsent, SendDiscoveryFails, RequestStops, WorkerStep,
              DiscoveryStep, Receive, ReceiveAgain, Redrive, SweepStep, SweepQuery,
              SweepClose, SweepStops, RunAges, ArtifactAges, OtherVars, ServerVars, vars

(* Only a listed document becomes known. *)
LEMMA ListedKept ==
  ASSUME Inv, [Next]_vars, NEW L \in SUBSET Docs, Listed(L),
         \A w \in Workers : Pass(L, worker[w])
  PROVE  Listed(L)'
  <1> SUFFICES ASSUME NEW d \in Docs, Known(d)'
               PROVE  d \in L
    BY DEF Listed
  <1>1. CASE Known(d)
    BY <1>1 DEF Listed
  <1>2. CASE ~Known(d)
    <2>1. ~Like(art'[d], art[d])
      BY <1>2 DEF Known, Like
    <2>2. PICK w \in Workers : FindArtifact(w, d)
      BY <1>2, <2>1, StepRow DEF RowMove
    <2>3. At(w, "discovery", "each") /\ d \in worker[w].todo
      BY <2>2 DEF FindArtifact, Takes
    <2> QED BY <2>3 DEF Pass, At
  <1> QED BY <1>1, <1>2

(* Once every listed document has its run, the documents of a run stay. *)
LEMMA OwnedStay ==
  ASSUME Inv, [Next]_vars, NEW L \in SUBSET Docs, Listed(L)',
         \A d \in L : art[d].run # None, NEW r \in Runs
  PROVE  /\ \A d \in L : art'[d].run # None
         /\ Of(r)' = Of(r)
  <1>1. \A d \in L : art'[d].run = art[d].run
    BY OwnersStay
  <1>2. \A d \in Docs : art[d].run = r => art'[d].run = r
    BY OwnersStay, NoneAssumption
  <1>3. \A d \in Docs : art'[d].run = r => d \in L
    <2> SUFFICES ASSUME NEW d \in Docs, art'[d].run = r
                 PROVE  d \in L
      OBVIOUS
    <2>1. Inv'
      BY StepInv
    <2>2. Known(d)'
      BY <2>1, NoneAssumption DEF Inv, Tables, RowOK, Known
    <2> QED BY <2>2 DEF Listed
  <1> QED BY <1>1, <1>2, <1>3 DEF Of

(* A discovery is through with its list when it has been through every
   document, or has queued as many as a run may: what it queued is its run's
   documents, all of them. *)
LEMMA PassEnds ==
  ASSUME Inv, NEW L \in SUBSET Docs, Cardinality(L) <= MaxDocuments, Listed(L),
         NEW w \in Workers, Pass(L, worker[w]), CompleteDiscovery(w),
         NEW r \in Runs, worker[w].msg.run = r
  PROVE  /\ \A d \in L : art[d].run # None
         /\ worker[w].queued = Cardinality(Of(r))
  <1>1. PICK x : x = worker[w]
    OBVIOUS
  <1>2. /\ x.pc = "each" /\ x.msg.stage = "discovery" /\ x.msg.run = r
        /\ x.todo = {} \/ x.queued >= MaxDocuments
        /\ x.queued \in Nat
    BY <1>1 DEF CompleteDiscovery, At, Inv, Workforce, WorkerRow
  <1>3. /\ \A d \in L \ x.todo : art[d].run # None
        /\ x.queued = Cardinality(Mine(L, x))
    BY <1>1, <1>2 DEF Pass
  <1>4. Of(r) \subseteq L
    BY NoneAssumption DEF Of, Listed, Inv, Tables, RowOK
  <1>5. CASE x.todo = {}
    <2>1. Mine(L, x) = Of(r)
      BY <1>2, <1>4, <1>5 DEF Mine, Of
    <2> QED BY <1>1, <1>3, <1>5, <2>1
  <1>6. CASE x.queued >= MaxDocuments
    <2>1. Mine(L, x) \in SUBSET L
      BY DEF Mine
    <2>2. IsFiniteSet(L)
      BY DocsAssumption, FS_Subset
    <2>3. /\ Cardinality(Mine(L, x)) <= Cardinality(L)
          /\ Cardinality(L) = Cardinality(Mine(L, x)) => L = Mine(L, x)
      BY <2>1, <2>2, FS_Subset
    <2>4. Cardinality(L) \in Nat /\ MaxDocuments \in Nat
      BY <2>2, FS_CardinalityType, BoundsAssumption
    <2>5. Cardinality(L) = Cardinality(Mine(L, x))
      BY <1>2, <1>3, <1>6, <2>3, <2>4
    <2>6. L = Mine(L, x)
      BY <2>3, <2>5
    <2>7. \A d \in L : d \in Docs /\ art[d].run = r
      BY <1>2, <2>6 DEF Mine
    <2>8. Of(r) = L
      BY <1>4, <2>7 DEF Of
    <2> QED BY <1>1, <1>3, <2>5, <2>7, <2>8, NoneAssumption
  <1> QED BY <1>2, <1>5, <1>6

(* What was found stays the number of the documents of the run. *)
LEMMA FoundKept ==
  ASSUME Inv, [Next]_vars, NEW L \in SUBSET Docs, Cardinality(L) <= MaxDocuments,
         Listed(L), Listed(L)', \A w \in Workers : Pass(L, worker[w]),
         NEW r \in Runs, Found(L, r)
  PROVE  Found(L, r)'
  <1>0. run[r] \in RunRow /\ run[r].found \in Nat
    BY DEF Inv, Tables, RunRow
  <1>1. ASSUME \A d \in L : art[d].run # None, run'[r].found = Cardinality(Of(r))
        PROVE  Found(L, r)'
    BY <1>1, OwnedStay DEF Found
  <1>2. CASE \E w \in Workers : CompleteDiscovery(w) /\ worker[w].msg.run = r
    <2>1. PICK w \in Workers : CompleteDiscovery(w) /\ worker[w].msg.run = r
      BY <1>2
    <2>2. /\ \A d \in L : art[d].run # None
          /\ worker[w].queued = Cardinality(Of(r))
      BY <2>1, PassEnds
    <2>3. worker[w].queued \in Nat
      BY DEF Inv, Workforce, WorkerRow
    <2>4. run'[r].found = Larger(worker[w].queued, run[r].found)
      BY <1>0, <2>1, <2>3, DiscoveryEndsWith DEF CompleteDiscovery, Inv, Tables
    <2>5. run[r].found > 0 => run[r].found = Cardinality(Of(r))
      BY DEF Found
    <2>6. run'[r].found = Cardinality(Of(r))
      BY <1>0, <2>2, <2>3, <2>4, <2>5 DEF Larger
    <2> QED BY <1>1, <2>2, <2>6
  <1>3. CASE /\ run'[r].found = run[r].found
             /\ run'[r].status \in {"completed", "partial"} =>
                  Concluded(run'[r]) \/ run'[r].status = run[r].status
    <2>1. CASE run[r].found > 0 \/ run[r].status \in {"completed", "partial"}
      BY <1>1, <1>3, <2>1 DEF Found
    <2>2. CASE ~(run[r].found > 0 \/ run[r].status \in {"completed", "partial"})
      BY <1>3, <2>2 DEF Found, Concluded, AllEnded
    <2> QED BY <2>1, <2>2
  <1> QED BY <1>2, <1>3, StepFinishes DEF Finishes

(* A run counts at least as many failures as it has failed documents. *)
LEMMA FailedIsCounted ==
  ASSUME Inv', NEW r \in Runs, CountsAgree(r)'
  PROVE  /\ Cardinality(FailedOf(r)') \in Nat /\ run'[r].failed \in Nat
         /\ run'[r].failed >= Cardinality(FailedOf(r)')
  <1>0. PICK U, N : U = UnfetchedOf(r)' /\ N = UnreadOf(r)'
    OBVIOUS
  <1>1. /\ U \subseteq Docs /\ N \subseteq Docs /\ FailedOf(r)' = U \cup N
        /\ run'[r].failed \in Nat
        /\ run'[r].failed >= Cardinality(U) + Cardinality(N)
    BY <1>0 DEF FailedOf, UnfetchedOf, UnreadOf, Of, CountsAgree, Inv, Tables, RunRow
  <1>2. IsFiniteSet(U) /\ IsFiniteSet(N)
    BY <1>1, DocsAssumption, FS_Subset
  <1>3. IsFiniteSet(U \cap N) /\ IsFiniteSet(U \cup N)
    BY <1>2, FS_Union, FS_Intersection
  <1>4. /\ Cardinality(U) \in Nat /\ Cardinality(N) \in Nat
        /\ Cardinality(U \cap N) \in Nat /\ Cardinality(U \cup N) \in Nat
    BY <1>2, <1>3, FS_CardinalityType
  <1>5. Cardinality(U \cup N) = Cardinality(U) + Cardinality(N) - Cardinality(U \cap N)
    BY <1>2, FS_Union
  <1> QED BY <1>1, <1>4, <1>5

(* A run that is concluded has an outcome for as many documents as it has, or
   counts more failures than it has failed documents. *)
LEMMA ConcludedIsOver ==
  ASSUME NEW r \in Runs, NEW L, Inv', CountsAgree(r)', Found(L, r)', Concluded(run'[r])
  PROVE  Over(r)'
  <1>0. /\ Cardinality(FailedOf(r)') \in Nat /\ run'[r].failed \in Nat
        /\ run'[r].failed >= Cardinality(FailedOf(r)')
    BY FailedIsCounted
  <1>1. PICK S, A, F : S = Of(r)' /\ A = AnalyzedOf(r)' /\ F = FailedOf(r)'
    OBVIOUS
  <1>2. S \subseteq Docs /\ A \subseteq S /\ F \subseteq S
    BY <1>1 DEF Of, AnalyzedOf, FailedOf, UnfetchedOf, UnreadOf
  <1>3. A \cap F = {}
    BY <1>1 DEF Of, AnalyzedOf, FailedOf, UnfetchedOf, UnreadOf, Inv, Tables, RowOK
  <1>4. /\ run'[r].analyzed = Cardinality(A) /\ run'[r].found = Cardinality(S)
        /\ run'[r].analyzed + run'[r].failed >= run'[r].found
    BY <1>1 DEF CountsAgree, Found, Concluded, AllEnded
  <1>5. CASE run'[r].failed = Cardinality(F)
    <2>1. Cardinality(A) + Cardinality(F) >= Cardinality(S)
      BY <1>4, <1>5
    <2>2. S = A \cup F /\ (Cardinality(F) = 0 => S = A)
      BY <1>2, <1>3, <2>1, PartsCover
    <2>3. run'[r].status = "completed" => S = A
      BY <1>5, <2>2 DEF Concluded
    <2> QED BY <1>1, <2>2, <2>3 DEF Over
  <1>6. CASE run'[r].failed # Cardinality(F)
    <2>1. run'[r].failed > Cardinality(F)
      BY <1>0, <1>1, <1>6
    <2>2. run'[r].status # "completed"
      BY <1>0, <1>1, <2>1 DEF Concluded
    <2> QED BY <1>1, <2>1, <2>2 DEF Over
  <1> QED BY <1>5, <1>6

(* A document that failed. *)
Fails(a) == a.download = "failed" \/ a.analysis = "failed"

(* A transition that leaves a run partial counts a failure for each document
   that fails with it, and takes none back. *)
LEMMA PartialKeepsCount ==
  ASSUME NEW r \in RunRow, NEW a \in ArtRow, NEW newR, NEW newA,
         Transition(r, a, newR, newA), newR.status = "partial"
  PROVE  newR.failed + One(Fails(a)) >= r.failed + One(Fails(newA))
  <1> USE DEF One, Fails
  <1>0. r.failed \in Nat
    BY DEF RunRow
  <1>1. CASE newR = RunDownloadStarted(r, a) /\ newA = DownloadStarted(a)
    <2>1. CASE a.download = "stored"
      BY <1>0, <1>1, <2>1 DEF RunDownloadStarted, DownloadStarted
    <2>2. CASE a.download # "stored"
      <3>1. PICK t : t = TakenBack(r, a.download = "failed")
        OBVIOUS
      <3>2. t \in RunRow
        BY <3>1, TakenBackFound
      <3>3. newR = [t EXCEPT !.status = IF @ = "completed" THEN @ ELSE "downloading"]
        BY <1>1, <2>2, <3>1 DEF RunDownloadStarted
      <3> QED BY <3>2, <3>3 DEF RunRow
    <2> QED BY <2>1, <2>2
  <1>2. ASSUME NEW s \in Sums \cup {None},
               newR = RunDocumentStored(r, a), newA = DocumentStored(a, s)
        PROVE  newR.failed + One(Fails(a)) >= r.failed + One(Fails(newA))
    <2>1. CASE a.download = "stored"
      <3>1. newR = r /\ newA.download = "stored"
        BY <1>2, <2>1, RowsAre DEF RunDocumentStored
      <3>2. newA.analysis = "failed" => a.analysis = "failed"
        BY <1>2, RowsAre
      <3> QED BY <1>0, <3>1, <3>2
    <2>2. CASE a.download # "stored"
      <3>1. PICK t : t = TakenBack(r, a.download = "failed")
        OBVIOUS
      <3>2. t \in RunRow
        BY <3>1, TakenBackFound
      <3>3. newR = [t EXCEPT !.downloaded = @ + 1, !.status = "analyzing"]
        BY <1>2, <2>2, <3>1 DEF RunDocumentStored
      <3> QED BY <3>2, <3>3 DEF RunRow
    <2> QED BY <2>1, <2>2
  <1>3. CASE newR = RunDownloadFailed(r, a) /\ newA = DownloadFailed(a)
    <2>1. CASE a.download \in {"stored", "failed"}
      <3>1. newR = r /\ (a.download = "stored" => newA = a)
        BY <1>3, <2>1 DEF RunDownloadFailed, DownloadFailed
      <3> QED BY <1>0, <2>1, <3>1
    <2>2. CASE a.download \notin {"stored", "failed"}
      <3>1. newR.failed = r.failed + 1
        BY <1>3, <2>2, CountedRow DEF RunDownloadFailed
      <3> QED BY <1>0, <3>1
    <2> QED BY <2>1, <2>2
  <1>4. CASE newR = RunAnalysisStarted(r, a) /\ newA = AnalysisStarted(a)
    <2>1. CASE a.analysis = "completed"
      BY <1>0, <1>4, <2>1 DEF RunAnalysisStarted, AnalysisStarted
    <2>2. CASE a.analysis # "completed"
      <3>1. PICK t : t = TakenBack(r, a.analysis = "failed")
        OBVIOUS
      <3>2. t \in RunRow
        BY <3>1, TakenBackFound
      <3>3. newR = [t EXCEPT !.status = "analyzing"]
        BY <1>4, <2>2, <3>1 DEF RunAnalysisStarted
      <3> QED BY <3>2, <3>3 DEF RunRow
    <2> QED BY <2>1, <2>2
  <1>5. CASE newR = RunAnalysisCompleted(r, a) /\ newA = AnalysisCompleted(a)
    <2>1. newA.download = a.download /\ newA.analysis = "completed"
      BY <1>5, RowsAre
    <2>2. newR.failed = r.failed
      BY <1>5, CompletionFails
    <2> QED BY <1>0, <2>1, <2>2
  <1>6. CASE newR = RunAnalysisFailed(r, a) /\ newA = AnalysisFailed(a)
    <2>1. /\ newA.download = a.download
          /\ newA.analysis = IF a.analysis = "completed" THEN "completed" ELSE "failed"
      BY <1>6, RowsAre
    <2>2. newR.failed = IF a.analysis \in {"completed", "failed"} THEN r.failed
                        ELSE r.failed + 1
      BY <1>6, CountedRow DEF RunAnalysisFailed
    <2> QED BY <1>0, <2>1, <2>2
  <1> QED BY <1>1, <1>2, <1>3, <1>4, <1>5, <1>6 DEF Transition

(* While a run is partial, what it counts too much stays at least that much. *)
LEMMA OvercountKept ==
  ASSUME Inv, Inv', Effect, NEW r \in Runs, run'[r].status = "partial",
         run[r].failed > Cardinality(FailedOf(r))
  PROVE  run'[r].failed > Cardinality(FailedOf(r)')
  <1>0. FailedOf(r) \subseteq Docs /\ run[r].failed \in Nat
    BY DEF FailedOf, UnfetchedOf, UnreadOf, Of, Inv, Tables, RunRow
  <1>1. Cardinality(FailedOf(r)) \in Nat
    BY <1>0, OneDiffers
  <1>2. CASE ~Committed
    <2>1. run'[r].failed = run[r].failed /\ FailedOf(r)' = FailedOf(r)
      BY <1>2, OthersFailNothing DEF FailedOf
    <2> QED BY <2>1
  <1>3. CASE Committed
    <2>0. PICK d \in Docs : \E newR, newA :
           /\ art[d] \in ArtRow /\ art[d].run \in Runs /\ RunOf(d) \in RunRow
           /\ newA \in ArtRow /\ Transition(RunOf(d), art[d], newR, newA)
           /\ run'[art[d].run] = newR
           /\ \A x \in Runs \ {art[d].run} :
                /\ run'[x] = run[x] /\ Of(x)' = Of(x)
                /\ UnfetchedOf(x)' = UnfetchedOf(x) /\ UnreadOf(x)' = UnreadOf(x)
           /\ art'[d].run = art[d].run /\ art'[d].download = newA.download
           /\ art'[d].analysis = newA.analysis
           /\ \A e \in Docs \ {d} : art'[e] = art[e]
      BY <1>3, CommitFails
    <2>1. PICK newR, newA :
           /\ art[d] \in ArtRow /\ art[d].run \in Runs /\ RunOf(d) \in RunRow
           /\ newA \in ArtRow /\ Transition(RunOf(d), art[d], newR, newA)
           /\ run'[art[d].run] = newR
           /\ \A x \in Runs \ {art[d].run} :
                /\ run'[x] = run[x] /\ Of(x)' = Of(x)
                /\ UnfetchedOf(x)' = UnfetchedOf(x) /\ UnreadOf(x)' = UnreadOf(x)
           /\ art'[d].run = art[d].run /\ art'[d].download = newA.download
           /\ art'[d].analysis = newA.analysis
           /\ \A e \in Docs \ {d} : art'[e] = art[e]
      BY <2>0
    <2>2. CASE r # art[d].run
      <3>1. run'[r] = run[r] /\ FailedOf(r)' = FailedOf(r)
        BY <2>1, <2>2 DEF FailedOf
      <3> QED BY <3>1
    <2>3. CASE r = art[d].run
      <3>1. /\ FailedOf(r)' \subseteq Docs
            /\ FailedOf(r) \ {d} = FailedOf(r)' \ {d}
            /\ d \in FailedOf(r) <=> Fails(art[d])
            /\ d \in FailedOf(r)' <=> Fails(newA)
        BY <2>1, <2>3 DEF FailedOf, UnfetchedOf, UnreadOf, Of, Fails
      <3>2. Cardinality(FailedOf(r)') = Cardinality(FailedOf(r))
              + One(Fails(newA)) - One(Fails(art[d]))
        BY <1>0, <3>1, OneDiffers DEF One
      <3>3. run'[r].failed + One(Fails(art[d])) >= run[r].failed + One(Fails(newA))
        BY <2>1, <2>3, PartialKeepsCount DEF RunOf
      <3>4. run'[r].failed \in Nat
        BY DEF Inv, Tables, RunRow
      <3> QED BY <1>0, <1>1, <3>2, <3>3, <3>4 DEF One
    <2> QED BY <2>2, <2>3
  <1> QED BY <1>2, <1>3

(* No step leaves a finished run with a document that has no outcome, but for
   failures counted too much. *)
LEMMA OverKept ==
  ASSUME Inv, [Next]_vars, NEW L \in SUBSET Docs, Cardinality(L) <= MaxDocuments,
         Listed(L), Listed(L)', \A w \in Workers : Pass(L, worker[w]),
         NEW r \in Runs, Found(L, r), Found(L, r)', Over(r), CountsAgree(r)'
  PROVE  Over(r)'
  <1>0. /\ Inv' /\ run[r] \in RunRow /\ run[r].found \in Nat
        /\ \A d \in Docs : art[d].analysis = "completed" => art'[d].analysis = "completed"
    <2>1. \A d \in Docs : art[d].analysis = "completed" => Known(d)
      BY DEF Inv, Tables, RowOK, Known
    <2> QED BY <2>1, StepInv, SubjectsStay DEF Inv, Tables, RunRow
  <1>1. CASE Concluded(run'[r])
    BY <1>0, <1>1, ConcludedIsOver
  <1>2. CASE /\ run'[r].status = run[r].status
             /\ run[r].status = "partial" =>
                  \A d \in Of(r) : Outcome(art[d]) => Outcome(art'[d])
    <2> SUFFICES ASSUME run[r].status \in {"completed", "partial"}
                 PROVE  Over(r)'
      BY <1>2 DEF Over
    <2>1. Of(r)' = Of(r)
      BY OwnedStay DEF Found
    <2>2. AnalyzedOf(r) \subseteq AnalyzedOf(r)'
      BY <1>0, <2>1 DEF AnalyzedOf, Of
    <2>3. \A d \in Of(r) : Outcome(art[d]) <=> d \in AnalyzedOf(r) \cup FailedOf(r)
      BY DEF Outcome, AnalyzedOf, FailedOf, UnfetchedOf, UnreadOf
    <2>4. \A d \in Of(r) : Outcome(art'[d]) <=> d \in AnalyzedOf(r)' \cup FailedOf(r)'
      BY <2>1 DEF Outcome, AnalyzedOf, FailedOf, UnfetchedOf, UnreadOf
    <2>5. CASE run[r].status = "partial" /\ Of(r) \subseteq AnalyzedOf(r) \cup FailedOf(r)
      <3>1. Of(r)' \subseteq AnalyzedOf(r)' \cup FailedOf(r)'
        BY <1>2, <2>1, <2>3, <2>4, <2>5
      <3> QED BY <1>2, <2>5, <3>1 DEF Over
    <2>6. CASE run[r].status = "partial" /\ run[r].failed > Cardinality(FailedOf(r))
      <3>1. run'[r].failed > Cardinality(FailedOf(r)')
        BY <1>0, <1>2, <2>6, StepInv, OvercountKept
      <3> QED BY <1>2, <2>6, <3>1 DEF Over
    <2>7. CASE run[r].status = "completed"
      BY <1>2, <2>1, <2>2, <2>7 DEF Over
    <2> QED BY <2>5, <2>6, <2>7 DEF Over
  <1>3. CASE \E w \in Workers : CompleteDiscovery(w) /\ worker[w].msg.run = r
    <2>1. PICK w \in Workers : CompleteDiscovery(w) /\ worker[w].msg.run = r
      BY <1>3
    <2>2. UNCHANGED art /\ worker[w].queued \in Nat
      BY <2>1 DEF CompleteDiscovery, Inv, Workforce, WorkerRow
    <2>3. run'[r] = DiscoveryCompleted(run[r], worker[w].queued)
      BY <2>1 DEF CompleteDiscovery, Inv, Tables
    <2>4. \/ Concluded(run'[r])
          \/ run'[r].status = run[r].status
          \/ run'[r].status = "downloading"
          \/ run'[r].status = "completed" /\ run'[r].found = 0
      BY <1>0, <2>2, <2>3, DiscoveryEndsWith
    <2>5. CASE run'[r].status = run[r].status
      BY <1>2, <2>2, <2>5
    <2>6. CASE run'[r].status = "completed" /\ run'[r].found = 0
      <3>1. Cardinality(Of(r)') = 0 /\ IsFiniteSet(Of(r)')
        <4>1. Of(r)' \in SUBSET Docs
          BY DEF Of
        <4> QED BY <2>6, <4>1, DocsAssumption, FS_Subset DEF Found
      <3>2. Of(r)' = {}
        BY <3>1, FS_EmptySet
      <3> QED BY <2>6, <3>2 DEF Over
    <2> QED BY <1>1, <2>4, <2>5, <2>6 DEF Over
  <1> QED BY <1>1, <1>2, <1>3, StepFinishes, <1>0 DEF Finishes, Over

(* What Over says, of every run. *)
FinishedOrOvercounted == \A r \in Runs : Over(r)

(* While the page lists the same documents whenever it is read, at most as many
   as a run may queue: a run that is reported completed has analysed every
   document of its own, and one that is reported partial has an outcome for every
   document of its own, unless items_failed is by then more than the documents
   that failed.  _finish_run_if_terminal compares counters, never documents; so a
   count that is too high is the one thing that ends a run early, and it ends it
   as partial.  No fault is excluded: records come twice, are redriven and come
   late, and containers stop. *)
THEOREM FinishedIsDone ==
  ASSUME NEW L, Listings = {L}, Cardinality(L) <= MaxDocuments
  PROVE  Spec => []FinishedOrOvercounted
  <1> DEFINE Passes == \A w \in Workers : Pass(L, worker[w])
             Ledger == \A r \in Runs : Found(L, r) /\ Over(r)
             Counts == \A r \in Runs : CountsAgree(r)
  <1>0. L \in SUBSET Docs
    BY DocsAssumption
  <1>1. Init => Listed(L) /\ Passes /\ Ledger
    <2> SUFFICES ASSUME Init PROVE Listed(L) /\ Passes /\ Ledger
      OBVIOUS
    <2>1. Listed(L)
      BY DEF Init, Listed, Known, NoArtifact
    <2>2. Passes
      BY DEF Init, Pass, Idle
    <2>3. Ledger
      BY DEF Init, Found, Over, NoRun
    <2> QED BY <2>1, <2>2, <2>3
  <1>2. Inv /\ Listed(L) /\ Passes /\ [Next]_vars => Listed(L)' /\ Passes'
    BY <1>0, ListedKept, PassKept
  <1>3. /\ Inv /\ Listed(L) /\ Listed(L)' /\ Passes /\ Ledger
        /\ Counts' /\ [Next]_vars
        => Ledger'
    <2> SUFFICES ASSUME Inv, Listed(L), Listed(L)', Passes, Ledger, Counts',
                        [Next]_vars, NEW r \in Runs
                 PROVE  Found(L, r)' /\ Over(r)'
      OBVIOUS
    <2>1. Found(L, r)'
      BY <1>0, FoundKept
    <2> QED BY <1>0, <2>1, OverKept
  <1>4. Ledger => FinishedOrOvercounted
    BY DEF FinishedOrOvercounted
  <1> HIDE DEF Passes, Ledger, Counts
  <1>5. Spec => []Counts
    BY CountsInvariance DEF Counts
  <1> QED BY <1>1, <1>2, <1>3, <1>4, <1>5, Invariance, PTL DEF Spec
=============================================================================
