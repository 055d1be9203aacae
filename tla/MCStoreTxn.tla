---------------------------- MODULE MCStoreTxn ----------------------------
(* The small instance of StoreTxn for TLC: see MCStoreTxn_all.cfg.  It is   *)
(* without symmetry, as it is checked for liveness too.                    *)
EXTENDS StoreTxnInv, TLC

=============================================================================
