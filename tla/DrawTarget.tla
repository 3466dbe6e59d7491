----------------------------- MODULE DrawTarget -----------------------------
(***************************************************************************)
(* The window as LorieRenderer sees it: all that setWindow, swap and the   *)
(* renderer's own init, called by them, make of ready, of the window and   *)
(* of the current context.  EglHelper has the calls of EGL behind these    *)
(* steps, Renderer has what they do to textures and redraws.               *)
(***************************************************************************)

VARIABLES
  ready,     \* LorieRenderer::ready
  window,    \* LorieEGLHelper::win is not null
  current    \* its context is current

dtVars == <<ready, window, current>>

DTInit == ready = FALSE /\ window = FALSE /\ current = FALSE

\* There is a window: its context may be made current, and init may succeed.
Shown ==
  /\ window' = TRUE
  /\ current' \in BOOLEAN
  /\ ready' = TRUE \/ UNCHANGED ready

\* The context is given up.  The renderer is not told.
Gone ==
  /\ current' = FALSE
  /\ window' \in BOOLEAN
  /\ UNCHANGED ready

\* A renderer that is ready swaps, which may give the window a new surface.
Redrawn ==
  /\ current' = current \/ (ready /\ (current' = FALSE \/ current' = window))
  /\ UNCHANGED <<ready, window>>

DTNext == Shown \/ Gone \/ Redrawn

DTSpec == DTInit /\ [][DTNext]_dtVars
=============================================================================
