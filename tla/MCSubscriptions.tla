-------------------------- MODULE MCSubscriptions --------------------------
(* Instances of Subscriptions for TLC.                                     *)
EXTENDS Subscriptions, TLC

CONSTANTS r1, r2, a1, a2, s1, s2
Symmetry ==
  Permutations(Requests) \cup Permutations(Addresses) \cup Permutations(Secrets)
=============================================================================
