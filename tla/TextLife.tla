------------------------------ MODULE TextLife ------------------------------
(***************************************************************************)
(* What the backend promises of one collected post or news story, with no  *)
(* queue, collector or worker in sight: it is kept once, its analysis may  *)
(* fail and be tried again, and it counts as analysed only once a result   *)
(* is stored, and then for good.                                           *)
(***************************************************************************)
CONSTANT Posts
VARIABLES
  stage,      \* [Posts -> {"unseen", "kept", "failed", "analysed"}]
  results     \* posts a result is stored for

Init == stage = [p \in Posts |-> "unseen"] /\ results = {}

Moves(p, from, to) == /\ stage[p] \in from
                      /\ stage' = [stage EXCEPT ![p] = to]
                      /\ UNCHANGED results

StoreResult(p) == /\ stage[p] # "unseen"
                  /\ results' = results \cup {p}
                  /\ UNCHANGED stage

Next == \E p \in Posts :
  \/ Moves(p, {"unseen"}, "kept")
  \/ Moves(p, {"kept"}, "failed")
  \/ Moves(p, {"failed"}, "kept")
  \/ p \in results /\ Moves(p, {"kept", "failed"}, "analysed")
  \/ StoreResult(p)

Spec == Init /\ [][Next]_<<stage, results>>
=============================================================================
