----------------------------- MODULE MCScheduler ------------------------------
(* The scheduler with two checks and two threads for reads, regular scans     *)
(* every two polls and deep ones every five.                                  *)
EXTENDS Scheduler, TLC

CONSTANTS c1, c2

MCChecks == {c1, c2}
=============================================================================
