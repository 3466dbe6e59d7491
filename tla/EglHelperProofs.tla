--------------------------- MODULE EglHelperProofs ---------------------------
(***************************************************************************)
(* Theorems about EglHelper, for any number of windows, surfaces, contexts *)
(* and failures.                                                           *)
(***************************************************************************)
EXTENDS EglHelper, TLAPS

-----------------------------------------------------------------------------
(* The stack of calls *)

\* Only the renderer's init waits for a call to return: setWindow ends in a
\* call of swap and one of init, init in one of redraw, redraw in one of swap,
\* and swap in one of setWindow.
Outer == \A i \in 2 .. Len(calls) : calls[i].at = "init"

StackOK == calls \in Seq(Frames) /\ Outer

\* The head and the tail of a stack that is not empty.
LEMMA HeadTail ==
  ASSUME NEW s \in Seq(Frames), s # << >>
  PROVE  /\ Head(s) = s[1] /\ Head(s) \in Frames
         /\ Tail(s) \in Seq(Frames) /\ Len(Tail(s)) = Len(s) - 1 /\ Len(s) \in Nat \ {0}
         /\ \A i \in 1 .. Len(Tail(s)) : Tail(s)[i] = s[i + 1]
  OBVIOUS

\* What GoOn leaves: the frame, above frames of init.
LEMMA GoOnStack ==
  ASSUME StackOK, calls # << >>, NEW f \in Frames, GoOn(f)
  PROVE  StackOK' /\ calls' # << >> /\ Head(calls') = f
<1>1. /\ Tail(calls) \in Seq(Frames) /\ Len(Tail(calls)) = Len(calls) - 1
      /\ Len(calls) \in Nat \ {0}
      /\ \A i \in 1 .. Len(Tail(calls)) : Tail(calls)[i] = calls[i + 1]
  BY HeadTail DEF StackOK
<1>2. calls' \in Seq(Frames) /\ Len(calls') = Len(calls) /\ calls'[1] = f
  BY <1>1 DEF GoOn
<1>3. \A i \in 2 .. Len(calls) : calls'[i] = calls[i]
  BY <1>1 DEF GoOn
<1> QED
  BY <1>1, <1>2, <1>3 DEF StackOK, Outer

\* What Return leaves: nothing, or a frame of init above frames of init.
LEMMA ReturnStack ==
  ASSUME StackOK, calls # << >>, Return
  PROVE  StackOK' /\ (calls' # << >> => Head(calls').at = "init")
<1>1. /\ Tail(calls) \in Seq(Frames) /\ Len(Tail(calls)) = Len(calls) - 1
      /\ Len(calls) \in Nat \ {0}
      /\ \A i \in 1 .. Len(Tail(calls)) : Tail(calls)[i] = calls[i + 1]
  BY HeadTail DEF StackOK
<1>2. calls' = Tail(calls) /\ calls' \in Seq(Frames)
  BY <1>1 DEF Return
<1>3. \A i \in 1 .. Len(calls') : calls'[i].at = "init"
  BY <1>1, <1>2 DEF StackOK, Outer
<1> QED
  BY <1>2, <1>3 DEF StackOK, Outer

-----------------------------------------------------------------------------
(* The window surface *)

SurfaceTypes ==
  /\ win \in Windows \cup {None} /\ sfc \in Surfaces \cup {None}
  /\ windowOf \in [Surfaces -> Windows \cup {None}]

\* The surface there is is sfc, of the window noted; sfc is destroyed only on
\* the way from "destroy" to "create".
OneSurface ==
  /\ \A s \in Surfaces : Live(s) => s = sfc
  /\ sfc # None => IF At("create") THEN ~Live(sfc) ELSE windowOf[sfc] = win /\ win # None

\* What is current is the surface, and none is where it is replaced.
BoundOK ==
  /\ bound # None => bound.sfc = sfc /\ sfc # None /\ ~At("create")
  /\ At("destroy") \/ At("create") \/ At("bind") => bound = None
  /\ At("destroy") \/ At("bind") => sfc # None

SurfaceInv == StackOK /\ SurfaceTypes /\ OneSurface /\ BoundOK

LEMMA SurfaceInit == Init => SurfaceInv
<1> SUFFICES ASSUME Init PROVE SurfaceInv
  OBVIOUS
<1>1. StackOK
  BY DEF Init, StackOK, Outer
<1>2. SurfaceTypes /\ OneSurface /\ BoundOK
  BY EglAssumption DEF Init, SurfaceTypes, OneSurface, BoundOK, Live, At
<1> QED
  BY <1>1, <1>2 DEF SurfaceInv

\* The frames the calls put on the stack are frames.
LEMMA FramesMade ==
  ASSUME SurfaceTypes, StackOK
  PROVE  /\ \A w \in Windows \cup {None}, p \in Points : SetWindow(p, w) \in Frames
         /\ \A p \in Points : Call(p) \in Frames
         /\ calls # << >> => Here \in Windows \cup {None}
<1>1. calls # << >> => Head(calls) \in Frames
  BY HeadTail DEF StackOK
<1> QED
  BY <1>1 DEF SetWindow, Call, Here, Frames

\* setWindow goes on to another point.
LEMMA SetWindowGoesOn ==
  ASSUME SurfaceTypes, StackOK, calls # << >>, NEW p \in Points,
         GoOn(SetWindow(p, Here))
  PROVE  StackOK' /\ calls' # << >> /\ Head(calls').at = p
<1>1. SetWindow(p, Here) \in Frames
  BY FramesMade
<1>2. SetWindow(p, Here).at = p
  BY DEF SetWindow
<1> QED
  BY <1>1, <1>2, GoOnStack

\* A step that leaves the surface, the window and what is current alone, and
\* does not come from or get to where they change.
LEMMA SurfaceKept ==
  ASSUME SurfaceInv, StackOK', UNCHANGED <<win, sfc, windowOf, bound>>,
         ~At("create"),
         calls' # << >> => Head(calls').at \notin {"destroy", "create", "bind"}
  PROVE  SurfaceInv'
<1>1. ~At("create")' /\ ~At("destroy")' /\ ~At("bind")'
  BY DEF At
<1> QED
  BY <1>1 DEF SurfaceInv, SurfaceTypes, OneSurface, BoundOK, Live

\* setWindow gives up what is current before it destroys the surface, and keeps
\* both the surface and the window it notes if it cannot.
LEMMA UnbindKeeps == SurfaceInv /\ Unbind => SurfaceInv'
<1> SUFFICES ASSUME SurfaceInv, Unbind PROVE SurfaceInv'
  OBVIOUS
<1> USE DEF SurfaceInv
<1>1. calls # << >> /\ At("unbind") /\ Here \in Windows \cup {None}
  BY FramesMade DEF Unbind, At
<1>2. ~At("create") /\ UNCHANGED <<win, sfc, windowOf>>
  BY <1>1 DEF Unbind, At, helperVars
<1>3. CASE sfc = None /\ GoOn(SetWindow("create", Here)) /\ UNCHANGED bound
  <2>1. StackOK' /\ calls' # << >> /\ Head(calls').at = "create"
    BY <1>1, <1>3, SetWindowGoesOn DEF Points
  <2>2. bound' = None
    BY <1>2, <1>3 DEF BoundOK
  <2> QED
    BY <1>2, <1>3, <2>1, <2>2 DEF SurfaceTypes, OneSurface, BoundOK, Live, At
<1>4. CASE sfc # None /\ GoOn(SetWindow("destroy", Here)) /\ bound' = None
  <2>1. StackOK' /\ calls' # << >> /\ Head(calls').at = "destroy"
    BY <1>1, <1>4, SetWindowGoesOn DEF Points
  <2> QED
    BY <1>2, <1>4, <2>1 DEF SurfaceTypes, OneSurface, BoundOK, Live, At
<1>5. CASE Return /\ UNCHANGED bound
  <2>1. StackOK' /\ (calls' # << >> => Head(calls').at = "init")
    BY <1>1, <1>5, ReturnStack
  <2> QED
    BY <1>2, <1>5, <2>1, SurfaceKept
<1> QED
  BY <1>3, <1>4, <1>5 DEF Unbind

LEMMA DestroyKeeps == SurfaceInv /\ Destroy => SurfaceInv'
<1> SUFFICES ASSUME SurfaceInv, Destroy PROVE SurfaceInv'
  OBVIOUS
<1> USE DEF SurfaceInv
<1>1. calls # << >> /\ At("destroy") /\ Here \in Windows \cup {None}
  BY FramesMade DEF Destroy, At
<1>2. ~At("create") /\ sfc # None /\ bound = None /\ UNCHANGED <<win, sfc, bound>>
  BY <1>1 DEF Destroy, At, helperVars, BoundOK
<1>3. CASE /\ windowOf' = [windowOf EXCEPT ![sfc] = None]
           /\ GoOn(SetWindow("create", Here))
  <2>1. StackOK' /\ calls' # << >> /\ Head(calls').at = "create"
    BY <1>1, <1>3, SetWindowGoesOn DEF Points
  <2>2. SurfaceTypes'
    BY <1>2, <1>3 DEF SurfaceTypes
  <2>3. OneSurface'
    BY <1>2, <1>3, <2>1 DEF SurfaceTypes, OneSurface, Live, At
  <2>4. BoundOK'
    BY <1>2, <2>1 DEF BoundOK, At
  <2> QED
    BY <2>1, <2>2, <2>3, <2>4
<1>4. CASE Return /\ UNCHANGED windowOf
  <2>1. StackOK' /\ (calls' # << >> => Head(calls').at = "init")
    BY <1>1, <1>4, ReturnStack
  <2> QED
    BY <1>2, <1>4, <2>1, SurfaceKept
<1> QED
  BY <1>3, <1>4 DEF Destroy

\* No surface is left when a new one is created.
LEMMA CreateKeeps == SurfaceInv /\ Create => SurfaceInv'
<1> SUFFICES ASSUME SurfaceInv, Create PROVE SurfaceInv'
  OBVIOUS
<1> USE DEF SurfaceInv
<1>1. calls # << >> /\ At("create") /\ Here \in Windows \cup {None}
  BY FramesMade DEF Create, At
<1>2. \A s \in Surfaces : ~Live(s)
  BY <1>1, EglAssumption DEF OneSurface, SurfaceTypes
<1>3. bound = None /\ bound' = None /\ win' = Here
  BY <1>1 DEF BoundOK, Create
<1>4. CASE Here # None /\ GoOn(Call("bind"))
           /\ \E s \in Surfaces : ~Live(s) /\ sfc' = s
                                  /\ windowOf' = [windowOf EXCEPT ![s] = Here]
  <2>1. StackOK' /\ calls' # << >> /\ Head(calls').at = "bind"
    BY <1>1, <1>4, FramesMade, GoOnStack DEF Call, Points
  <2>2. PICK s \in Surfaces : sfc' = s /\ windowOf' = [windowOf EXCEPT ![s] = Here]
    BY <1>4
  <2>3. SurfaceTypes'
    BY <1>1, <1>3, <2>2 DEF SurfaceTypes
  <2>4. OneSurface'
    BY <1>2, <1>3, <1>4, <2>1, <2>2 DEF SurfaceTypes, OneSurface, Live, At
  <2>5. BoundOK'
    BY <1>3, <2>1, <2>2, EglAssumption DEF BoundOK, At
  <2> QED
    BY <2>1, <2>3, <2>4, <2>5
<1>5. CASE sfc' = None /\ Return /\ UNCHANGED windowOf
  <2>1. StackOK' /\ (calls' # << >> => Head(calls').at = "init")
    BY <1>1, <1>5, ReturnStack
  <2>2. ~At("create")' /\ ~At("destroy")' /\ ~At("bind")'
    BY <2>1 DEF At
  <2>3. SurfaceTypes' /\ OneSurface'
    BY <1>1, <1>2, <1>3, <1>5 DEF SurfaceTypes, OneSurface, Live
  <2>4. BoundOK'
    BY <1>3, <2>2 DEF BoundOK
  <2> QED
    BY <2>1, <2>3, <2>4
<1> QED
  BY <1>4, <1>5 DEF Create

LEMMA BindKeeps == SurfaceInv /\ Bind => SurfaceInv'
<1> SUFFICES ASSUME SurfaceInv, Bind PROVE SurfaceInv'
  OBVIOUS
<1> USE DEF SurfaceInv
<1>1. calls # << >> /\ At("bind") /\ sfc # None
  BY DEF Bind, At, BoundOK
<1>2. ~At("create") /\ UNCHANGED <<win, sfc, windowOf>>
  BY <1>1 DEF Bind, At, helperVars
<1>3. CASE /\ bound' = [ctx |-> ctx, sfc |-> sfc]
           /\ calls' = <<Call("swap"), Call("init")>> \o Tail(calls)
  <2>1. /\ Tail(calls) \in Seq(Frames) /\ Len(Tail(calls)) = Len(calls) - 1
        /\ Len(calls) \in Nat \ {0}
        /\ \A i \in 1 .. Len(Tail(calls)) : Tail(calls)[i] = calls[i + 1]
    BY <1>1, HeadTail DEF StackOK
  <2>2. Call("swap") \in Frames /\ Call("init") \in Frames
    BY FramesMade DEF Points
  <2>3. /\ calls' \in Seq(Frames) /\ Len(calls') = Len(calls) + 1
        /\ calls'[1] = Call("swap") /\ calls'[2] = Call("init")
        /\ \A i \in 3 .. Len(calls) + 1 : calls'[i] = calls[i - 1]
    BY <1>3, <2>1, <2>2
  <2>4. StackOK'
    <3>1. \A i \in 3 .. Len(calls) + 1 : calls[i - 1].at = "init"
      BY <2>1 DEF StackOK, Outer
    <3>2. Call("init").at = "init"
      BY DEF Call
    <3> QED
      BY <2>1, <2>3, <3>1, <3>2 DEF StackOK, Outer
  <2>5. calls' # << >> /\ Head(calls').at = "swap"
    BY <2>1, <2>3 DEF Call
  <2>6. SurfaceTypes' /\ OneSurface'
    BY <1>2, <2>5 DEF SurfaceTypes, OneSurface, Live, At
  <2>7. BoundOK'
    BY <1>1, <1>2, <1>3, <2>5 DEF BoundOK, At
  <2> QED
    BY <2>4, <2>6, <2>7
<1>4. CASE Return /\ UNCHANGED bound
  <2>1. StackOK' /\ (calls' # << >> => Head(calls').at = "init")
    BY <1>1, <1>4, ReturnStack
  <2> QED
    BY <1>2, <1>4, <2>1, SurfaceKept
<1> QED
  BY <1>3, <1>4 DEF Bind

\* The other calls touch neither the surface nor what is current.
LEMMA CallsKeep ==
  ASSUME SurfaceInv,
         Swapped \/ SwapBadSurface \/ SwapLost \/ SwapFails \/ InitRenderer \/ Redraw
  PROVE  SurfaceInv'
<1> USE DEF SurfaceInv
<1>1. UNCHANGED <<win, sfc, windowOf, bound>>
  BY DEF Swapped, SwapBadSurface, SwapLost, SwapFails, InitRenderer, Redraw,
         helperVars, driverVars
<1>2. calls # << >> /\ ~At("create")
  BY DEF Swapped, SwapBadSurface, SwapLost, SwapFails, InitRenderer, Redraw, At
<1>3. \/ Return \/ GoOn(Call("redraw")) \/ GoOn(Call("swap"))
      \/ GoOn(SetWindow("unbind", win))
  BY DEF Swapped, SwapBadSurface, SwapLost, SwapFails, InitRenderer, Redraw
<1>4. /\ Call("redraw") \in Frames /\ Call("swap") \in Frames
      /\ SetWindow("unbind", win) \in Frames
  BY FramesMade DEF Points, SurfaceTypes
<1>5. StackOK' /\ (calls' # << >> => Head(calls').at \in {"init", "redraw", "swap", "unbind"})
  <2>1. CASE Return
    BY <1>2, <2>1, ReturnStack
  <2>2. CASE GoOn(Call("redraw"))
    BY <1>2, <1>4, <2>2, GoOnStack DEF Call
  <2>3. CASE GoOn(Call("swap"))
    BY <1>2, <1>4, <2>3, GoOnStack DEF Call
  <2>4. CASE GoOn(SetWindow("unbind", win))
    BY <1>2, <1>4, <2>4, GoOnStack DEF SetWindow
  <2> QED
    BY <1>3, <2>1, <2>2, <2>3, <2>4
<1> QED
  BY <1>1, <1>2, <1>5, SurfaceKept

\* Neither do what starts the calls and the driver.
LEMMA OthersKeep ==
  ASSUME SurfaceInv,
         \/ \E w \in Windows \cup {None} : WindowChanged(w)
         \/ IdleDraw \/ NewTexture \/ LoseContext \/ UNCHANGED vars
  PROVE  SurfaceInv'
<1> USE DEF SurfaceInv
<1>1. UNCHANGED <<win, sfc, windowOf, bound>>
  BY DEF WindowChanged, IdleDraw, NewTexture, LoseContext, vars, helperVars, driverVars
<1>2. CASE UNCHANGED calls
  BY <1>1, <1>2 DEF StackOK, Outer, SurfaceTypes, OneSurface, BoundOK, Live, At
<1>3. ASSUME NEW f \in Frames, Idle, calls' = <<f>>, f.at \in {"unbind", "redraw"}
      PROVE  SurfaceInv'
  <2>1. StackOK' /\ Head(calls') = f /\ calls' # << >> /\ ~At("create")
    BY <1>3 DEF StackOK, Outer, Idle, At
  <2> QED
    BY <1>1, <1>3, <2>1, SurfaceKept
<1>4. CASE \E w \in Windows \cup {None} : WindowChanged(w)
  <2>1. PICK w \in Windows \cup {None} : WindowChanged(w)
    BY <1>4
  <2>2. SetWindow("unbind", w) \in Frames /\ SetWindow("unbind", w).at = "unbind"
    BY FramesMade DEF Points, SetWindow
  <2> QED
    BY <1>3, <2>1, <2>2 DEF WindowChanged
<1>5. CASE IdleDraw
  <2>1. Call("redraw") \in Frames /\ Call("redraw").at = "redraw"
    BY FramesMade DEF Points, Call
  <2> QED
    BY <1>3, <1>5, <2>1 DEF IdleDraw
<1> QED
  BY <1>2, <1>4, <1>5 DEF NewTexture, LoseContext, vars

LEMMA SurfaceInvariant == Spec => []SurfaceInv
<1>1. Init => SurfaceInv
  BY SurfaceInit
<1>2. SurfaceInv /\ [Next]_vars => SurfaceInv'
  BY UnbindKeeps, DestroyKeeps, CreateKeeps, BindKeeps, CallsKeep, OthersKeep
  DEF Next, Step
<1> QED
  BY <1>1, <1>2, PTL DEF Spec

\* Whichever calls of EGL fail in setWindow and swap, the helper owns the only
\* window surface, and what is current is that surface.
THEOREM SurfaceNeverLost == Spec => []SurfaceOwned
<1>1. SurfaceInv => SurfaceOwned
  BY DEF SurfaceInv, SurfaceTypes, OneSurface, BoundOK, SurfaceOwned, Live
<1> QED
  BY <1>1, SurfaceInvariant, PTL

\* Between calls the surface belongs to the window setWindow has noted, even if
\* it gave up half-way.
THEOREM SurfaceFitsWindow == Spec => []SurfaceOfWindow
<1>1. SurfaceInv => SurfaceOfWindow
  BY DEF SurfaceInv, OneSurface, SurfaceOfWindow, Idle, At
<1> QED
  BY <1>1, SurfaceInvariant, PTL

-----------------------------------------------------------------------------
(* Contexts and the names made in them *)

ContextTypes ==
  /\ ctx \in created \cup {None} /\ created \subseteq Contexts /\ lost \subseteq created
  /\ bound # None => bound \in [ctx : created, sfc : Surfaces]
  /\ program \in created \cup {None} /\ texture \in created \cup {None}

\* A context that is current and not lost is ctx.  Names are of ctx, or of a
\* lost context; and all of them are lost once the current context is, for
\* every context is lost with it.
NamesInv ==
  /\ bound # None /\ bound.ctx \notin lost => ctx = bound.ctx
  /\ program \in lost \cup {None, ctx} /\ texture \in lost \cup {None, ctx}
  /\ bound # None /\ bound.ctx \in lost =>
       program \in lost \cup {None} /\ texture \in lost \cup {None}

ContextInv == ContextTypes /\ NamesInv

\* What setWindow does to what is current.
LEMMA SetWindowContexts ==
  ASSUME SurfaceInv, ContextInv, Unbind \/ Destroy \/ Create \/ Bind
  PROVE  ContextInv'
<1> USE DEF ContextInv, ContextTypes, NamesInv
<1>1. UNCHANGED <<ctx, created, lost, program, texture>>
  BY DEF Unbind, Destroy, Create, Bind, helperVars, drawVars
<1>2. CASE bound' = bound
  BY <1>1, <1>2
<1>3. CASE bound' = None
  BY <1>1, <1>3
<1>4. CASE bound' = [ctx |-> ctx, sfc |-> sfc] /\ ctx # None /\ ctx \notin lost /\ At("bind")
  <2>1. sfc \in Surfaces /\ ctx \in created
    BY <1>4 DEF SurfaceInv, BoundOK, SurfaceTypes
  <2>2. bound' \in [ctx : created, sfc : Surfaces] /\ bound'.ctx = ctx
    BY <1>4, <2>1
  <2> QED
    BY <1>1, <1>4, <2>2
<1> QED
  BY <1>2, <1>3, <1>4 DEF Unbind, Destroy, Create, Bind, helperVars

\* swap makes a new context only if the current one is lost.
LEMMA SwapContexts ==
  ASSUME SurfaceInv, ContextInv, Swapped \/ SwapBadSurface \/ SwapLost \/ SwapFails
  PROVE  ContextInv'
<1> USE DEF ContextInv, ContextTypes, NamesInv
<1>1. CASE UNCHANGED <<helperVars, driverVars, drawVars>>
  BY <1>1 DEF helperVars, driverVars, drawVars
<1>2. CASE SwapLost
  <2>1. bound # None /\ bound.ctx \in lost /\ UNCHANGED <<bound, lost, program, texture>>
    BY <1>2 DEF SwapLost, Current, drawVars
  <2>2. CASE \E c \in Contexts \ created : ctx' = c /\ created' = created \cup {c}
    BY <2>1, <2>2
  <2>3. CASE ctx' = None /\ UNCHANGED created
    BY <2>1, <2>3
  <2> QED
    BY <1>2, <2>2, <2>3 DEF SwapLost
<1> QED
  BY <1>1, <1>2 DEF Swapped, SwapBadSurface, SwapFails

\* Names are made in the current context.
LEMMA DrawContexts ==
  ASSUME ContextInv, InitRenderer \/ Redraw \/ NewTexture
  PROVE  ContextInv'
<1> USE DEF ContextInv, ContextTypes, NamesInv
<1>1. UNCHANGED <<ctx, created, lost, bound>>
  BY DEF InitRenderer, Redraw, NewTexture, helperVars, driverVars
<1>2. Current = IF bound = None THEN None ELSE bound.ctx
  BY DEF Current
<1>3. Current \in created \cup {None}
  BY <1>2
<1>4. \/ program' \in {program, None}
      \/ program' = Current /\ Current \notin lost \cup {None}
  BY DEF InitRenderer, Redraw, NewTexture
<1>5. texture' \in {texture, Current, None}
  BY DEF InitRenderer, Redraw, NewTexture
<1>6. ContextTypes'
  BY <1>1, <1>3, <1>4, <1>5
<1>7. NamesInv'
  BY <1>1, <1>2, <1>4, <1>5
<1> QED
  BY <1>6, <1>7

\* All contexts are lost together.
LEMMA LoseContexts ==
  ASSUME ContextInv, LoseContext
  PROVE  ContextInv'
<1>1. lost' = created /\ UNCHANGED <<ctx, created, bound, program, texture>>
  BY DEF LoseContext, helperVars, drawVars
<1> QED
  BY <1>1 DEF ContextInv, ContextTypes, NamesInv

LEMMA ContextInvariant == Spec => []ContextInv
<1>1. Init => ContextInv
  BY EglAssumption DEF Init, ContextInv, ContextTypes, NamesInv
<1>2. SurfaceInv /\ ContextInv /\ [Next]_vars => ContextInv'
  <2> SUFFICES ASSUME SurfaceInv, ContextInv, [Next]_vars PROVE ContextInv'
    OBVIOUS
  <2>1. CASE UNCHANGED <<helperVars, driverVars, drawVars>>
    BY <2>1 DEF ContextInv, ContextTypes, NamesInv, helperVars, driverVars, drawVars
  <2>2. CASE (\E w \in Windows \cup {None} : WindowChanged(w)) \/ IdleDraw \/ UNCHANGED vars
    BY <2>1, <2>2 DEF WindowChanged, IdleDraw, vars
  <2> QED
    BY <2>2, SetWindowContexts, SwapContexts, DrawContexts, LoseContexts DEF Next, Step
<1> QED
  BY <1>1, <1>2, SurfaceInvariant, PTL DEF Spec

\* While a context that is not lost is current, it is the helper's, and the
\* program and the texture are of it or of a context that was lost.
THEOREM NamesFitContext == Spec => []NamesOfContext
<1>1. ContextInv => NamesOfContext
  BY DEF ContextInv, NamesInv, NamesOfContext, Current
<1> QED
  BY <1>1, ContextInvariant, PTL

-----------------------------------------------------------------------------
(* The types that are left *)

FaultsOK == faults \in 0 .. MaxFaults

LEMMA FaultsBounded == Spec => []FaultsOK
<1>1. Init => FaultsOK
  BY EglAssumption DEF Init, FaultsOK
<1>2. FaultsOK /\ [Next]_vars => FaultsOK'
  <2> SUFFICES ASSUME FaultsOK, [Next]_vars PROVE FaultsOK'
    OBVIOUS
  <2>1. faults' = faults \/ (faults < MaxFaults /\ faults' = faults + 1)
    BY DEF Next, Step, Unbind, Destroy, Create, Bind, Swapped, SwapBadSurface, SwapLost,
           SwapFails, InitRenderer, Redraw, WindowChanged, IdleDraw, NewTexture, LoseContext,
           Fails, vars
  <2> QED
    BY <2>1, EglAssumption DEF FaultsOK
<1> QED
  BY <1>1, <1>2, PTL DEF Spec

ReadyOK == ready \in BOOLEAN

LEMMA ReadyType == Spec => []ReadyOK
<1>1. Init => ReadyOK
  BY Zenon DEF Init, ReadyOK
<1>2. ReadyOK /\ [Next]_vars => ReadyOK'
  <2> SUFFICES ASSUME ReadyOK, [Next]_vars PROVE ReadyOK'
    OBVIOUS
  <2>1. ready' = TRUE \/ ready' = ready
    BY Zenon DEF Next, Step, Unbind, Destroy, Create, Bind, Swapped, SwapBadSurface, SwapLost,
           SwapFails, InitRenderer, Redraw, WindowChanged, IdleDraw, NewTexture, LoseContext,
           drawVars, vars
  <2> QED
    BY <2>1, Zenon DEF ReadyOK
<1> QED
  BY <1>1, <1>2, PTL DEF Spec

\* Every variable of the helper keeps its type.
THEOREM TypeCorrect == Spec => []TypeOK
<1>1. SurfaceInv /\ ContextInv => bound \in [ctx : Contexts, sfc : Surfaces] \cup {None}
  BY DEF ContextInv, ContextTypes
<1>2. SurfaceInv /\ ContextInv /\ FaultsOK /\ ReadyOK => TypeOK
  BY <1>1 DEF FaultsOK, ReadyOK, SurfaceInv, StackOK, SurfaceTypes, ContextInv, ContextTypes, TypeOK
<1> QED
  BY <1>2, SurfaceInvariant, ContextInvariant, FaultsBounded, ReadyType, PTL

-----------------------------------------------------------------------------
(* The window as the renderer sees it *)

\* What is current belongs to a window, except where the surface is replaced.
LEMMA CurrentHasWindow ==
  ASSUME SurfaceInv
  PROVE  /\ bound # None => win # None
         /\ At("create") \/ At("destroy") \/ At("bind") => bound = None
         /\ At("bind") => win # None
<1>1. bound # None => sfc # None /\ ~At("create")
  BY DEF SurfaceInv, BoundOK
<1>2. sfc # None /\ ~At("create") => win # None
  BY DEF SurfaceInv, OneSurface
<1>3. At("bind") => sfc # None /\ ~At("create")
  BY DEF SurfaceInv, BoundOK, At
<1> QED
  BY <1>1, <1>2, <1>3 DEF SurfaceInv, BoundOK

LEMMA StepTargets ==
  ASSUME SurfaceInv, [Next]_vars
  PROVE  [Target!DTNext]_(Target!dtVars)
<1> USE DEF helperVars, driverVars, drawVars
<1>1. CASE UNCHANGED <<ready, win, bound>>
  BY <1>1 DEF Target!dtVars
<1>2. CASE Unbind \/ Destroy
  <2>1. UNCHANGED <<ready, win>> /\ (bound' = bound \/ bound' = None)
    BY <1>2 DEF Unbind, Destroy
  <2>2. CASE bound' = bound
    BY <1>1, <2>1, <2>2
  <2>3. CASE bound' = None
    BY <2>1, <2>3 DEF Target!DTNext, Target!Gone
  <2> QED
    BY <2>1, <2>2, <2>3
<1>3. CASE Create
  <2>1. bound' = None /\ UNCHANGED ready
    BY <1>3, CurrentHasWindow DEF Create
  <2> QED
    BY <2>1 DEF Target!DTNext, Target!Gone
<1>4. CASE Bind
  <2>1. win # None /\ UNCHANGED <<ready, win>>
    BY <1>4, CurrentHasWindow DEF Bind
  <2> QED
    BY <2>1 DEF Target!DTNext, Target!Shown
<1>5. CASE InitRenderer
  <2>1. UNCHANGED <<win, bound>>
    BY <1>5 DEF InitRenderer
  <2>2. (ready' = TRUE /\ Current # None) \/ UNCHANGED ready
    BY <1>5, Zenon DEF InitRenderer
  <2>3. Current # None => bound # None
    BY DEF Current
  <2>4. CASE UNCHANGED ready
    BY <1>1, <2>1, <2>4
  <2>5. CASE ready' = TRUE /\ Current # None
    <3>1. win' # None
      BY <2>1, <2>3, <2>5, CurrentHasWindow
    <3> QED
      BY <2>5, <3>1 DEF Target!DTNext, Target!Shown
  <2> QED
    BY <2>2, <2>4, <2>5
<1>6. CASE \/ Swapped \/ SwapBadSurface \/ SwapLost \/ SwapFails \/ Redraw
           \/ \E w \in Windows \cup {None} : WindowChanged(w)
           \/ IdleDraw \/ NewTexture \/ LoseContext \/ UNCHANGED vars
  <2>1. UNCHANGED <<ready, win, bound>>
    BY <1>6, Zenon DEF Swapped, SwapBadSurface, SwapLost, SwapFails, Redraw, WindowChanged,
       IdleDraw, NewTexture, LoseContext, vars
  <2> QED
    BY <1>1, <2>1
<1> QED
  BY <1>2, <1>3, <1>4, <1>5, <1>6 DEF Next, Step

\* LorieEGLHelper and the renderer's init, with any number of failures at any
\* call of EGL, implement the window of DrawTarget, on which Renderer is built.
THEOREM Refinement == Spec => ImplementsDrawTarget
<1>1. Init => Target!DTInit
  BY EglAssumption DEF Init, Target!DTInit
<1> QED
  BY <1>1, StepTargets, SurfaceInvariant, PTL DEF Spec, ImplementsDrawTarget, Target!DTSpec
=============================================================================
