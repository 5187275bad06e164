---------------------------- MODULE MCStoredText ----------------------------
(* Instances of StoredText for TLC.                                        *)
EXTENDS StoredText, TLC

CONSTANTS p1, c1, c2, w1, w2
=============================================================================
