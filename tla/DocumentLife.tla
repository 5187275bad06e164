----------------------------- MODULE DocumentLife ----------------------------
(***************************************************************************)
(* What the pipeline promises of one source document: it belongs to the    *)
(* run that found it first, for good; it is fetched once it can be; once   *)
(* its copy is kept it is never fetched again, and once it is read that    *)
(* never changes; only a document that was read is alerted.                *)
(* Failures may be retried, so they are not final.                         *)
(***************************************************************************)
CONSTANTS Runs, Docs, None
VARIABLES stage, owner, alerted

Stages == {"unknown", "open", "unfetched", "kept", "unreadable", "read"}

Init ==
  /\ stage = [d \in Docs |-> "unknown"]
  /\ owner = [d \in Docs |-> None]
  /\ alerted = {}

Moves(d, from, to) ==
  /\ stage[d] \in from
  /\ stage' = [stage EXCEPT ![d] = to]
  /\ UNCHANGED alerted

Find(d, r) == Moves(d, {"unknown"}, "open") /\ owner' = [owner EXCEPT ![d] = r]
GiveUp(d) == Moves(d, {"open"}, "unfetched") /\ UNCHANGED owner
Retry(d) == Moves(d, {"unfetched"}, "open") /\ UNCHANGED owner
Keep(d) == Moves(d, {"open", "unfetched", "unreadable"}, "kept") /\ UNCHANGED owner

\* A notification that ran ahead of the download may have failed before the
\* document was kept.
FailToRead(d) == /\ Moves(d, {"open", "unfetched", "kept"}, "unreadable")
                 /\ UNCHANGED owner
Read(d) == Moves(d, {"kept", "unreadable"}, "read") /\ UNCHANGED owner

Alert(d) ==
  /\ stage[d] = "read"
  /\ alerted' = alerted \cup {d}
  /\ UNCHANGED <<stage, owner>>

Next == \E d \in Docs :
  \/ \E r \in Runs : Find(d, r)
  \/ GiveUp(d) \/ Retry(d) \/ Keep(d) \/ FailToRead(d) \/ Read(d) \/ Alert(d)

Spec == Init /\ [][Next]_<<stage, owner, alerted>>
=============================================================================
