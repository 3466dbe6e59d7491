--------------------------- MODULE MCMessageQueue ---------------------------
(* MessageQueue for TLC: the run gives the constants model values. *)
EXTENDS MessageQueue
=============================================================================
