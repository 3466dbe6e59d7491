------------------------------ MODULE EglHelper ------------------------------
(***************************************************************************)
(* The window surface and the GL context: LorieEGLHelper (egl-helper.cpp)  *)
(* with the part of LorieRenderer it calls and that calls it (renderer.cpp *)
(* init, redraw).  setWindow swaps and initialises the renderer, which     *)
(* redraws and swaps; a swap that finds the surface invalid calls          *)
(* setWindow.  The calls are a stack, and a step is one call of EGL, which *)
(* may fail.                                                               *)
(*                                                                         *)
(* The driver may lose a context at any time.  A texture and a program are *)
(* reduced to the context their names were made in.  Left out: a display   *)
(* that is missing from the start, and uninit, which nobody calls.         *)
(***************************************************************************)
EXTENDS Naturals, Sequences

CONSTANTS
  Windows,       \* Android's native windows
  Surfaces,      \* names of EGL surfaces
  Contexts,      \* bound: the contexts the driver can create
  FirstContext,  \* the one of init()
  None,          \* EGL_NO_SURFACE, EGL_NO_CONTEXT, the null pointer
  MaxFaults      \* bound: calls that fail although their arguments are right

ASSUME EglAssumption ==
  /\ None \notin Windows \cup Surfaces \cup Contexts
  /\ FirstContext \in Contexts
  /\ MaxFaults \in Nat

VARIABLES
  calls,       \* the calls under way, the innermost first
  win, sfc, ctx,   \* LorieEGLHelper
  windowOf,    \* of each EGL surface that is not destroyed; None for the others
  bound,       \* what eglMakeCurrent has made current, or None
  created,     \* the contexts created
  lost,        \* those that are lost
  ready,       \* LorieRenderer::ready
  program,     \* the context of gTextureProgram, or None for 0
  texture,     \* the context of the toplevel's texture name; None if not valid()
  faults       \* failures so far

helperVars == <<win, sfc, ctx>>
driverVars == <<windowOf, bound, created, lost>>
drawVars   == <<ready, program, texture>>
vars == <<calls, helperVars, driverVars, drawVars, faults>>

SetWindow(at, w) == [at |-> at, window |-> w]
Call(at)         == [at |-> at, window |-> None]
Points == {"unbind", "destroy", "create", "bind", "swap", "init", "redraw"}

Live(s) == windowOf[s] # None

\* The context GL calls go to.
Current == IF bound = None THEN None ELSE bound.ctx

\* init() ends with no context current.
Init ==
  /\ calls = << >>
  /\ win = None /\ sfc = None /\ ctx \in {FirstContext, None}
  /\ windowOf = [s \in Surfaces |-> None] /\ bound = None
  /\ created = {ctx} \ {None} /\ lost = {}
  /\ ready = FALSE /\ program = None /\ texture = None
  /\ faults = 0

-----------------------------------------------------------------------------
(* The innermost call goes on at a point, calls others first, or returns.  *)

At(point)   == calls # << >> /\ Head(calls).at = point
GoOn(frame) == calls' = <<frame>> \o Tail(calls)
Return      == calls' = Tail(calls)
Fails       == faults < MaxFaults /\ faults' = faults + 1

Here == Head(calls).window

(* setWindow *)

\* Mistake: the new window is noted before the old surface is gone.
UnbindNotingWindow ==
  /\ At("unbind") /\ win' = Here
  /\ \/ sfc = None /\ GoOn(SetWindow("create", Here)) /\ UNCHANGED <<bound, faults>>
     \/ sfc # None /\ GoOn(SetWindow("destroy", Here)) /\ bound' = None /\ UNCHANGED faults
     \/ sfc # None /\ Fails /\ Return /\ UNCHANGED bound
  /\ UNCHANGED <<sfc, ctx, windowOf, created, lost, drawVars>>

\* A surface there is must not stay current, then be destroyed; if either fails
\* the helper keeps it, and its window.
Unbind ==
  /\ At("unbind")
  /\ \/ sfc = None /\ GoOn(SetWindow("create", Here)) /\ UNCHANGED <<bound, faults>>
     \/ sfc # None /\ GoOn(SetWindow("destroy", Here)) /\ bound' = None /\ UNCHANGED faults
     \/ sfc # None /\ Fails /\ Return /\ UNCHANGED bound
  /\ UNCHANGED <<helperVars, windowOf, created, lost, drawVars>>

\* Mistake: a surface that could not be destroyed is given up.
DestroyGivingUp ==
  /\ At("destroy") /\ GoOn(SetWindow("create", Here))
  /\ \/ windowOf' = [windowOf EXCEPT ![sfc] = None] /\ UNCHANGED faults
     \/ Fails /\ UNCHANGED windowOf
  /\ UNCHANGED <<helperVars, bound, created, lost, drawVars>>

Destroy ==
  /\ At("destroy")
  /\ \/ windowOf' = [windowOf EXCEPT ![sfc] = None] /\ UNCHANGED faults
        /\ GoOn(SetWindow("create", Here))
     \/ Fails /\ Return /\ UNCHANGED windowOf
  /\ UNCHANGED <<helperVars, bound, created, lost, drawVars>>

\* A window has one surface at a time.
Create ==
  /\ At("create") /\ win' = Here
  /\ \/ /\ Here # None /\ \A s \in Surfaces : windowOf[s] # Here
        /\ \E s \in Surfaces : ~Live(s) /\ sfc' = s
                               /\ windowOf' = [windowOf EXCEPT ![s] = Here]
        /\ GoOn(Call("bind")) /\ UNCHANGED faults
     \/ /\ Here = None \/ \E s \in Surfaces : windowOf[s] = Here
        /\ sfc' = None /\ Return /\ UNCHANGED <<windowOf, faults>>
     \/ Here # None /\ Fails /\ sfc' = None /\ Return /\ UNCHANGED windowOf
  /\ UNCHANGED <<ctx, bound, created, lost, drawVars>>

\* A context that is lost, or none, cannot be made current.
Bind ==
  /\ At("bind")
  /\ \/ /\ ctx # None /\ ctx \notin lost
        /\ bound' = [ctx |-> ctx, sfc |-> sfc]
        /\ calls' = <<Call("swap"), Call("init")>> \o Tail(calls)
        /\ UNCHANGED faults
     \/ ctx \in lost \cup {None} /\ Return /\ UNCHANGED <<bound, faults>>
     \/ Fails /\ Return /\ UNCHANGED bound
  /\ UNCHANGED <<helperVars, windowOf, created, lost, drawVars>>

-----------------------------------------------------------------------------
(* swap *)

\* eglSwapBuffers succeeds.
Swapped ==
  /\ At("swap") /\ bound # None /\ Current \notin lost
  /\ Return
  /\ UNCHANGED <<helperVars, driverVars, drawVars, faults>>

\* Mistake: the swap is tried again with the new surface.
SwapBadSurfaceAgain ==
  /\ At("swap")
  /\ IF bound = None THEN UNCHANGED faults ELSE Fails
  /\ calls' = <<SetWindow("unbind", win)>> \o calls
  /\ UNCHANGED <<helperVars, driverVars, drawVars>>

\* EGL_BAD_SURFACE, as always when the surface is not current.
SwapBadSurface ==
  /\ At("swap")
  /\ IF bound = None THEN UNCHANGED faults ELSE Fails
  /\ GoOn(SetWindow("unbind", win))
  /\ UNCHANGED <<helperVars, driverVars, drawVars>>

\* Mistake: a context is created whatever the error is.
SwapRegenerating ==
  /\ At("swap") /\ bound # None /\ Return
  /\ \/ \E c \in Contexts \ created : ctx' = c /\ created' = created \cup {c}
     \/ ctx' = None /\ UNCHANGED created
  /\ UNCHANGED <<win, sfc, windowOf, bound, lost, drawVars, faults>>

\* EGL_CONTEXT_LOST: ctx is created anew, or is EGL_NO_CONTEXT.  It is not made
\* current.
SwapLost ==
  /\ At("swap") /\ bound # None /\ Current \in lost /\ Return
  /\ \/ \E c \in Contexts \ created : ctx' = c /\ created' = created \cup {c}
     \/ ctx' = None /\ UNCHANGED created
  /\ UNCHANGED <<win, sfc, windowOf, bound, lost, drawVars, faults>>

\* Any other error.
SwapFails ==
  /\ At("swap") /\ Fails /\ Return
  /\ UNCHANGED <<helperVars, driverVars, drawVars>>

-----------------------------------------------------------------------------
(* LorieRenderer *)

\* Mistake: a renderer without a program is not ready any more.
InitUnready ==
  /\ At("init")
  /\ \/ /\ Current \notin lost \cup {None}
        /\ program' = Current /\ ready' = TRUE /\ GoOn(Call("redraw"))
        /\ UNCHANGED faults
     \/ /\ Current \in lost \cup {None}
        /\ program' = None /\ Return /\ ready' = FALSE /\ UNCHANGED faults
     \/ Fails /\ program' = None /\ Return /\ ready' = FALSE
  /\ UNCHANGED <<helperVars, driverVars, texture>>

\* init: the program, then a redraw; without a program it returns, as ready as
\* it was.
InitRenderer ==
  /\ At("init")
  /\ \/ /\ Current \notin lost \cup {None}
        /\ program' = Current /\ ready' = TRUE /\ GoOn(Call("redraw"))
        /\ UNCHANGED faults
     \/ /\ Current \in lost \cup {None}
        /\ program' = None /\ Return /\ UNCHANGED <<ready, faults>>
     \/ Fails /\ program' = None /\ Return /\ UNCHANGED ready
  /\ UNCHANGED <<helperVars, driverVars, texture>>

\* redraw: reinit makes the name of a texture that has none.
Redraw ==
  /\ At("redraw")
  /\ IF ready THEN GoOn(Call("swap")) /\ texture' = (IF texture = None THEN Current ELSE texture)
              ELSE Return /\ UNCHANGED texture
  /\ UNCHANGED <<helperVars, driverVars, ready, program, faults>>

-----------------------------------------------------------------------------
(* What starts the calls, and what the driver does *)

Idle == calls = << >>

WindowChanged(w) ==
  /\ Idle /\ calls' = <<SetWindow("unbind", w)>>
  /\ UNCHANGED <<helperVars, driverVars, drawVars, faults>>

IdleDraw ==
  /\ Idle /\ calls' = <<Call("redraw")>>
  /\ UNCHANGED <<helperVars, driverVars, drawVars, faults>>

\* The client attaches another buffer, or the surface loses its role: the name
\* is dropped and made anew, or dropped.
NewTexture ==
  /\ Idle /\ texture' \in {Current, None}
  /\ UNCHANGED <<calls, helperVars, driverVars, ready, program, faults>>

LoseContext ==
  /\ faults < MaxFaults /\ faults' = faults + 1
  /\ lost' = created /\ lost # created
  /\ UNCHANGED <<calls, helperVars, windowOf, bound, created, drawVars>>

-----------------------------------------------------------------------------
Step ==
  \/ Unbind \/ Destroy \/ Create \/ Bind
  \/ Swapped \/ SwapBadSurface \/ SwapLost \/ SwapFails
  \/ InitRenderer \/ Redraw

Next ==
  \/ Step
  \/ \E w \in Windows \cup {None} : WindowChanged(w)
  \/ IdleDraw \/ NewTexture \/ LoseContext

\* A thread that is in a call goes on.
Spec == Init /\ [][Next]_vars /\ WF_vars(Step)

-----------------------------------------------------------------------------
Frames == [at : Points, window : Windows \cup {None}]

TypeOK ==
  /\ calls \in Seq(Frames)
  /\ win \in Windows \cup {None} /\ sfc \in Surfaces \cup {None}
  /\ ctx \in Contexts \cup {None}
  /\ windowOf \in [Surfaces -> Windows \cup {None}]
  /\ bound \in [ctx : Contexts, sfc : Surfaces] \cup {None}
  /\ lost \subseteq created /\ created \subseteq Contexts
  /\ ready \in BOOLEAN
  /\ program \in Contexts \cup {None} /\ texture \in Contexts \cup {None}
  /\ faults \in 0 .. MaxFaults

\* Whatever fails half-way, the helper has no EGL surface but sfc, so that the
\* window can be given a new one, and what is current is sfc, not destroyed.
SurfaceOwned ==
  /\ \A s \in Surfaces : Live(s) => s = sfc
  /\ bound # None => bound.sfc = sfc /\ Live(sfc)

\* Between calls, sfc belongs to the window setWindow has noted.
SurfaceOfWindow == Idle /\ sfc # None => windowOf[sfc] = win

\* Drawing goes to ctx, with names of ctx, unless a context was lost.
NamesOfContext ==
  bound # None => {ctx, program, texture} \ lost \subseteq {Current, None} \/ Current \in lost

\* However deep the calls nest, they return once the driver stops failing.
CallsReturn == calls # << >> ~> calls = << >>

\* Whatever the nested calls do and whichever of them fail, Renderer sees steps
\* of DrawTarget: a context is current only while there is a window, and the
\* renderer gets ready only when there is one, and stays so.
Target == INSTANCE DrawTarget WITH window <- win # None, current <- bound # None

ImplementsDrawTarget == Target!DTSpec
=============================================================================
