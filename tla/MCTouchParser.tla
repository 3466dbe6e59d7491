---------------------------- MODULE MCTouchParser ----------------------------
(* TouchParser for TLC: three fingers. *)
EXTENDS TouchParser
=============================================================================
