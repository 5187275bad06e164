------------------------------- MODULE Summaries -------------------------------
(* An artifact's summary (services/artifact_summary.py): recorded twice, as keys *)
(* of artifact_metadata and as the joined text of one artifact_summaries row,    *)
(* in one transaction under the artifact's row lock; and read back with a query  *)
(* for each, so a recording may commit between the two.                          *)
EXTENDS Naturals, Sequences

CONSTANTS
  Recorders,    \* transactions that record a summary
  LineBreaks    \* whether a line may have a blank line in it

VARIABLES
  sourceType,   \* the artifact's source type
  metadata,     \* the summary keys of artifact_metadata, as committed
  row,          \* the artifact_summaries row, as committed
  lock,         \* who holds the artifact's row
  recorders, reader,
  last          \* the summary recorded last, or none

vars == <<sourceType, metadata, row, lock, recorders, reader, last>>

TextLines == <<"summary", "about", "changed", "matters">>
LineKeys == {TextLines[i] : i \in 1..4}

\* A line is a sequence of paragraphs, each known by its author and its key.
Line(by, key, broken) == IF broken THEN <<<<by, key>>, <<by, key>>>> ELSE <<<<by, key>>>>

NoLines == [k \in {} |-> <<>>]
NoSummary == [lines |-> NoLines, classified |-> FALSE, evidence |-> FALSE, model |-> "none"]
NoRow == [text |-> <<>>, model |-> "none"]

\* from_answer: a line that is empty or not text is missing.
FromAnswer(by) ==
  {[lines |-> [k \in has |-> Line(by, k, k = broken)], classified |-> c, evidence |-> e,
    model |-> by] :
     has \in {LineKeys, {}} \cup {LineKeys \ {k} : k \in LineKeys},
     broken \in {"none"} \cup (IF LineBreaks THEN {"summary"} ELSE {}),
     c \in BOOLEAN, e \in BOOLEAN}

\* The lines joined by blank lines.
JoinedText(lines) ==
  LET Part(k) == IF k \in DOMAIN lines THEN lines[k] ELSE <<>>
  IN Part("summary") \o Part("about") \o Part("changed") \o Part("matters")

\* The four lines of joined text that splits into exactly four paragraphs.
ParagraphLines(text) ==
  IF Len(text) = 4
  THEN [k \in LineKeys |-> <<text[CHOOSE i \in 1..4 : TextLines[i] = k]>>]
  ELSE NoLines

Over(first, second) ==
  [k \in DOMAIN first \cup DOMAIN second |-> IF k \in DOMAIN first THEN first[k] ELSE second[k]]

(* read: the lines of the metadata over those of the joined text; the model of  *)
(* the row.                                                                      *)
Read(meta, stored) ==
  LET lines == Over(meta.lines, ParagraphLines(stored.text))
      filled == IF lines = NoLines /\ stored.text # <<>>
                THEN [k \in {"summary"} |-> stored.text] ELSE lines
  IN IF filled = NoLines THEN NoSummary
     ELSE [meta EXCEPT !.lines = filled, !.model = stored.model]

IsComplete(summary) ==
  /\ DOMAIN summary.lines = LineKeys
  /\ sourceType = "asx_announcement" => summary.classified /\ summary.evidence

\* brief and clarity: what a card shows of a summary.
Brief(summary) ==
  IF "about" \in DOMAIN summary.lines THEN summary.lines["about"]
  ELSE IF "summary" \in DOMAIN summary.lines THEN summary.lines["summary"] ELSE <<>>

Clarity(summary) == summary.classified

\* Mutant: the new lines are laid over the current ones.
MetadataOver(current, summary) ==
  [summary EXCEPT !.model = "none", !.lines = Over(summary.lines, current.lines)]

\* _metadata_with: the current metadata without every summary key, then the new ones.
MetadataWith(current, summary) == [summary EXCEPT !.model = "none"]

\* Older records kept only the joined text: of four lines, or of something else.
Init ==
  /\ sourceType \in {"asx_announcement", "news"}
  /\ metadata = NoSummary
  /\ \E text \in {<<>>, Line("old", "summary", FALSE),
                  JoinedText([k \in LineKeys |-> Line("old", k, FALSE)])} :
       row = [text |-> text, model |-> IF text = <<>> THEN "none" ELSE "old"]
  /\ lock = "none"
  /\ recorders = [r \in Recorders |-> [pc |-> "idle", summary |-> NoSummary,
                                       metadata |-> NoSummary, row |-> NoRow]]
  /\ reader = [pc |-> "idle", metadata |-> NoSummary, torn |-> FALSE, seen |-> NoSummary]
  /\ last = NoSummary

(* record_summary and record: a backfill keeps only a complete summary, and one  *)
(* without a line is never recorded.                                              *)
Recorded(summary, completeOnly) ==
  summary.lines # NoLines /\ (completeOnly => IsComplete(summary))

Record(r) ==
  /\ recorders[r].pc = "idle"
  /\ \E s \in FromAnswer(r), completeOnly \in BOOLEAN :
       recorders' = [recorders EXCEPT ![r].summary = s,
                       ![r].pc = IF Recorded(s, completeOnly) THEN "record" ELSE "refused"]
  /\ UNCHANGED <<sourceType, metadata, row, lock, reader, last>>

\* The UPDATE locks the artifact until the caller ends its transaction.
UpdateArtifact(r) ==
  /\ recorders[r].pc = "record" /\ lock = "none"
  /\ lock' = r
  /\ recorders' = [recorders EXCEPT ![r].pc = "updated",
                     ![r].metadata = MetadataWith(metadata, recorders[r].summary)]
  /\ UNCHANGED <<sourceType, metadata, row, reader, last>>

UpsertRow(r) ==
  /\ recorders[r].pc = "updated"
  /\ recorders' = [recorders EXCEPT ![r].pc = "upserted",
                     ![r].row = [text |-> JoinedText(recorders[r].summary.lines),
                                 model |-> recorders[r].summary.model]]
  /\ UNCHANGED <<sourceType, metadata, row, lock, reader, last>>

\* The caller commits what it recorded; its session rolls all of it back on an error.
Commit(r) ==
  /\ recorders[r].pc = "upserted"
  /\ metadata' = recorders[r].metadata
  /\ row' = recorders[r].row
  /\ last' = recorders[r].summary
  /\ lock' = "none"
  /\ recorders' = [recorders EXCEPT ![r].pc = "done"]
  /\ reader' = [reader EXCEPT !.torn = reader.pc # "idle"]
  /\ UNCHANGED sourceType

RollBack(r) ==
  /\ lock = r
  /\ lock' = "none"
  /\ recorders' = [recorders EXCEPT ![r].pc = "done"]
  /\ UNCHANGED <<sourceType, metadata, row, reader, last>>

\* A reader loads the artifact, and its summary row in one more query.
ReadArtifact ==
  /\ reader.pc = "idle"
  /\ reader' = [reader EXCEPT !.pc = "read", !.metadata = metadata]
  /\ UNCHANGED <<sourceType, metadata, row, lock, recorders, last>>

ReadRow ==
  /\ reader.pc = "read"
  /\ reader' = [pc |-> "shown", metadata |-> NoSummary, torn |-> reader.torn,
                seen |-> Read(reader.metadata, row)]
  /\ UNCHANGED <<sourceType, metadata, row, lock, recorders, last>>

ReadAgain ==
  /\ reader.pc = "shown"
  /\ reader' = [pc |-> "idle", metadata |-> NoSummary, torn |-> FALSE, seen |-> NoSummary]
  /\ UNCHANGED <<sourceType, metadata, row, lock, recorders, last>>

Next ==
  \/ \E r \in Recorders :
       Record(r) \/ UpdateArtifact(r) \/ UpsertRow(r) \/ Commit(r) \/ RollBack(r)
  \/ ReadArtifact \/ ReadRow \/ ReadAgain

-----------------------------------------------------------------------------
(* Whoever recorded last and whatever an earlier recorder or an older version   *)
(* of the code left, the two stores hold that one summary: reading them gives   *)
(* it back, complete exactly when it was recorded complete.                     *)
ReadBack ==
  last # NoSummary =>
    /\ Read(metadata, row) = last
    /\ IsComplete(Read(metadata, row)) = IsComplete(last)
    /\ row.text = JoinedText(last.lines)

(* A recording between a reader's two queries may mix two summaries, but no     *)
(* line ever stands under the key of another, unless the whole joined text is   *)
(* all there is to show.                                                        *)
NoLineMisplaced ==
  reader.pc = "shown" /\ DOMAIN reader.seen.lines # {"summary"} =>
    /\ \A k \in DOMAIN reader.seen.lines : \A i \in 1..Len(reader.seen.lines[k]) :
         reader.seen.lines[k][i][2] = k
    /\ reader.seen.lines # NoLines => Brief(reader.seen) # <<>>
    /\ ~reader.torn /\ last # NoSummary => reader.seen.model \in Recorders
=============================================================================
