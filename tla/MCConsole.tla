----------------------------- MODULE MCConsole ------------------------------
(***************************************************************************)
(* A screen of two lines of three, numbers of two digits and more, three   *)
(* interrupts.                                                             *)
(***************************************************************************)
EXTENDS Console

MC_Values == {0, 10, 205}
MC_Frequencies == {10, 100}
=============================================================================
