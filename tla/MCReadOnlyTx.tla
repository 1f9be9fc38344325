---------------------------- MODULE MCReadOnlyTx ----------------------------
(* Instances of ReadOnlyTx for TLC.                                        *)
EXTENDS ReadOnlyTx

CONSTANTS c1, c2, k1, k2
=============================================================================
