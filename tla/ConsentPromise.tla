--------------------------- MODULE ConsentPromise ---------------------------
(***************************************************************************)
(* What alert subscriptions promise the holder of a mailbox, with no      *)
(* request, clock or token in sight: an address counts as verified only   *)
(* when its holder opened a link sent to it since it last became the      *)
(* subscription's address, and it stays verified until the address        *)
(* changes.                                                                *)
(***************************************************************************)
CONSTANT Addresses

VARIABLES
  address,    \* the subscription's address, or "none" before the first save
  verified,   \* whether alerts may go to it
  opened      \* whether a link sent to it in this spell was opened

Init == address = "none" /\ verified = FALSE /\ opened = FALSE

ChangeAddress(a) == /\ address # a
                    /\ address' = a
                    /\ verified' = FALSE
                    /\ opened' = FALSE

OpenLink == /\ address # "none"
            /\ opened' = TRUE
            /\ UNCHANGED <<address, verified>>

Verify == /\ opened
          /\ verified' = TRUE
          /\ UNCHANGED <<address, opened>>

Next == (\E a \in Addresses : ChangeAddress(a)) \/ OpenLink \/ Verify

Spec == Init /\ [][Next]_<<address, verified, opened>>
=============================================================================
