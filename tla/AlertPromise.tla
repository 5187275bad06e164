---------------------------- MODULE AlertPromise ----------------------------
(***************************************************************************)
(* What alert delivery promises an investor, with no worker, queue or      *)
(* claim in sight: each alert and each run's rollup is decided once and    *)
(* for all; at most Cap alerts of one run are sent to one investor; a      *)
(* rollup goes out only in the place of alerts the cap held back.          *)
(***************************************************************************)
EXTENDS Integers, FiniteSets

CONSTANTS Investors, Artifacts, Runs, RunOf, Cap

VARIABLE fate    \* what became of each delivery

Alerts     == Investors \X Artifacts
Digests    == Investors \X Runs
AllOf(i, run) == {d \in Alerts : d[1] = i /\ RunOf[d[2]] = run}

Init == fate = [d \in Alerts \cup Digests |-> "open"]

Become(d, f) == /\ fate[d] = "open"
                /\ fate' = [fate EXCEPT ![d] = f]

SendAlert(d) ==
  /\ Cardinality({e \in AllOf(d[1], RunOf[d[2]]) : fate[e] = "sent"}) < Cap
  /\ Become(d, "sent")

HoldBack(d) == Become(d, "capped")

SendRollup(d) ==
  /\ \E e \in AllOf(d[1], d[2]) : fate[e] = "capped"
  /\ Become(d, "sent")

Drop(d) == Become(d, "dropped")

Next == \/ \E d \in Alerts : SendAlert(d) \/ HoldBack(d)
        \/ \E d \in Digests : SendRollup(d)
        \/ \E d \in Alerts \cup Digests : Drop(d)

Spec == Init /\ [][Next]_fate
=============================================================================
