---------------------------- MODULE MCDashboard ----------------------------
(* The small instance of Dashboard for TLC: see MCDashboard_all.cfg.       *)
EXTENDS Dashboard, TLC

=============================================================================
