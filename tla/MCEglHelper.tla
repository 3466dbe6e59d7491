----------------------------- MODULE MCEglHelper -----------------------------
(* EglHelper for TLC: the run gives the constants model values. *)
EXTENDS EglHelper
=============================================================================
