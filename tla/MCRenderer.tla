----------------------------- MODULE MCRenderer -----------------------------
(***************************************************************************)
(* Renderer for TLC.  One window change is enough for windows to come and  *)
(* go: IdleDraw loses the context and IdleDrawTwice brings it back.        *)
(***************************************************************************)
EXTENDS Renderer
=============================================================================
