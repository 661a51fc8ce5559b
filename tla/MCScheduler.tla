---------------------------- MODULE MCScheduler ----------------------------
(* Two jobs with different intervals, and loop delays longer than either.  *)
EXTENDS Scheduler, TLC

CONSTANTS j1, j2, s1, s2

Intervals == (j1 :> 2) @@ (j2 :> 3)
=============================================================================
