-------------------------- MODULE MCAlertDelivery --------------------------
(* Instances of AlertDelivery for TLC: alerts of a scrape run.             *)
EXTENDS AlertDelivery, TLC

CONSTANTS i1, i2, a1, a2, run1, m1, m2, w1, w2

WorkerSymmetry == Permutations(Workers)

\* Two artifacts of one run, a record for each.
OneRun       == [a \in {a1, a2} |-> run1]
RecordEach   == [r \in {m1, m2} |-> IF r = m1 THEN a1 ELSE a2]
\* One artifact, its record duplicated by the queue.
OneArtifact  == [a \in {a1} |-> run1]
RecordCopies == [r \in {m1, m2} |-> a1]
\* One artifact and one record, for two investors.
OneCopy      == [r \in {m1} |-> a1]
=============================================================================
