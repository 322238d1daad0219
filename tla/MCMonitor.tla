----------------------------- MODULE MCMonitor -----------------------------
(* The tools on a small clock.                                             *)
EXTENDS Monitor
============================================================================
