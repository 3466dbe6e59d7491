------------------------------ MODULE MCKeyboard ------------------------------
(* Keyboard for TLC: the run gives the constants model values. *)
EXTENDS Keyboard
=============================================================================
