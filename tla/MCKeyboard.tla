----------------------------- MODULE MCKeyboard -----------------------------
(***************************************************************************)
(* A keyboard with one letter, LSHIFT and CTRL, a queue of two     *)
(* characters and counters modulo 5.                                       *)
(***************************************************************************)
EXTENDS Keyboard, TLC

MC_special_keys == "LSHIFT" :> 1 @@ "CTRL" :> 2
=============================================================================
