---------------------------- MODULE MCScheduler -----------------------------
(***************************************************************************)
(* Up to three processes, the timer, a line of the master and one of the   *)
(* slave.                                                                  *)
(***************************************************************************)
EXTENDS Scheduler

MC_Lines == {0, 1, 8}
MC_Timer == {0}
=============================================================================
