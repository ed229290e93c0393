------------------------------ MODULE MCTraps -------------------------------
(***************************************************************************)
(* Three processes, the timer, a line of each controller; system calls, an *)
(* exception without and two with an error code, and the vector of the     *)
(* timer.                                                                  *)
(***************************************************************************)
EXTENDS Traps

MC_Lines == {0, 1, 8}
MC_Vectors == {0, 13, 17, 32, 128}
=============================================================================
