----------------------------- MODULE MCServer -----------------------------
(* The small instance of Server for TLC: see MCServer_all.cfg.             *)
EXTENDS Server, TLC

=============================================================================
