------------------------------ MODULE Renderer ------------------------------
(***************************************************************************)
(* From wl_surface requests to pixels: LorieSurface (surface.cpp), its     *)
(* LorieTexture and the redraw scheduling of LorieRenderer (renderer.cpp). *)
(* Everything here runs on the compositor thread; the interleaving is that *)
(* of client requests, of closures posted by the UI thread (window, cursor *)
(* and visibility changes) and of the event loop's idle callbacks.         *)
(*                                                                         *)
(* A texture remembers a pointer into the client's shared memory (data)    *)
(* and uploads it when it is drawn while marked damaged.  The GL context   *)
(* may stop being current; that the driver loses it altogether (the last   *)
(* branch of LorieEGLHelper::swap) is left out.                            *)
(***************************************************************************)
EXTENDS Naturals, Sequences, FiniteSets

CONSTANTS
  Surfaces,     \* the surfaces of the client
  Buffers,      \* its wl_shm buffers
  None,         \* the null pointer
  TexIds,       \* bound: the texture names the GL can hand out
  MaxFrames,    \* bound: frame callbacks the client asks for
  MaxWindows    \* bound: window changes

ASSUME RendererAssumption ==
  /\ None \notin Surfaces \cup Buffers
  /\ TexIds \subseteq Nat \ {0} /\ IsFiniteSet(TexIds)
  /\ MaxFrames \in Nat /\ MaxWindows \in Nat

\* UINT_MAX in the code: no texture name.
NoId == 0

Textures == [id      : TexIds \cup {NoId},
             sized   : BOOLEAN,              \* width # 0 and height # 0
             r       : BOOLEAN,              \* the renderer pointer is set
             data    : Buffers \cup {None},
             damaged : BOOLEAN]

VARIABLES
  texture,    \* LorieSurface::texture
  buffer,     \* LorieSurface::buffer, the buffer attached last
  frame,      \* LorieSurface::frame_callback
  toplevel, cursor, cursorVisible, ready,   \* LorieRenderer
  idle,       \* LorieRenderer::idle is not null
  sources,    \* idle sources in the event loop that will call idleDraw
  window,     \* LorieEGLHelper::win is not null
  current,    \* its GL context is current on the compositor thread
  glTextures, \* the texture names in use in that context
  crashed,    \* a null pointer was dereferenced
  windows,    \* window changes so far
  asked,      \* history: frame callbacks created so far
  answered,   \* history: the callbacks sent done, in that order
  owed        \* history: a redraw was asked for and none was done since

clientVars  == <<buffer, frame, asked, answered>>
sceneVars   == <<toplevel, cursor, cursorVisible>>
drawVars    == <<texture, glTextures>>
idleVars    == <<idle, sources, owed>>
windowVars  == <<ready, window, current, windows>>
vars == <<clientVars, sceneVars, drawVars, idleVars, windowVars, crashed>>

NoTexture == [id |-> NoId, sized |-> FALSE, r |-> FALSE, data |-> None, damaged |-> FALSE]

Init ==
  /\ texture = [s \in Surfaces |-> NoTexture]
  /\ buffer = [s \in Surfaces |-> None]
  /\ frame = [s \in Surfaces |-> 0]
  /\ toplevel = None /\ cursor = None /\ cursorVisible = FALSE
  /\ ready = FALSE /\ window = FALSE /\ current = FALSE /\ windows = 0
  /\ idle = FALSE /\ sources = 0 /\ owed = FALSE
  /\ glTextures = {}
  /\ crashed = FALSE
  /\ asked = 0 /\ answered = << >>

-----------------------------------------------------------------------------
(* LorieTexture.  A GL call without a current context does nothing.          *)

Valid(t) == t.sized /\ t.id # NoId /\ t.r

\* Mistake: the name is deleted and kept.
UninitKeepingId(t) == [t EXCEPT !.sized = FALSE]

\* uninit: the texture forgets its name, and deletes it if it was valid.
Uninit(t) == [t EXCEPT !.id = NoId, !.sized = FALSE, !.r = FALSE]

AfterUninit(gl, t) == IF Valid(t) /\ current THEN gl \ {t.id} ELSE gl

\* glGenTextures: a name not in use.  reinit takes one whatever the texture had.
FreshId(gl) == CHOOSE i \in TexIds : i \notin gl

\* draw: damaged contents count as uploaded once there is something to draw.
Draw(t) == IF Valid(t) THEN [t EXCEPT !.damaged = FALSE] ELSE t

\* What redraw does to the texture of surface s: reinit unless it is valid,
\* then draw.  A scene holds the textures and the names the GL has given out;
\* ctx tells whether a context is current.
DrawSurface(scene, s, ctx) ==
  LET t == scene.tex[s]
  IN  IF Valid(t) \/ ~ctx
        THEN [scene EXCEPT !.tex[s] = Draw(t)]
        ELSE [tex |-> [scene.tex EXCEPT ![s] = Draw([t EXCEPT !.id = FreshId(scene.gl)])],
              gl  |-> scene.gl \cup {FreshId(scene.gl)}]

\* Bound: a redraw takes two names at most.
NamesLeft(gl) == Cardinality(TexIds \ gl) >= 2

-----------------------------------------------------------------------------
(* LorieRenderer: scheduling and redraw *)

\* Mistake: the pointer is set and the source is not added.
ForgetSource ==
  /\ idle' = TRUE
  /\ sources' = sources
  /\ owed' = TRUE

\* An idle source is added unless one is known to be pending.
RequestRedraw ==
  /\ idle' = TRUE
  /\ sources' = IF idle THEN sources ELSE sources + 1
  /\ owed' = TRUE

Scene == [tex |-> texture, gl |-> glTextures]

\* redraw draws the toplevel, then the cursor.
Drawn(scene, ctx) ==
  LET below == IF toplevel = None THEN scene ELSE DrawSurface(scene, toplevel, ctx)
  IN  IF cursorVisible /\ toplevel # None /\ cursor # None
        THEN DrawSurface(below, cursor, ctx) ELSE below

Show(scene) == texture' = scene.tex /\ glTextures' = scene.gl

\* Mistake: the pointer to the idle source that has fired is kept.
RedrawKeepingIdle(isReady, ctx) ==
  /\ UNCHANGED idle
  /\ IF isReady THEN Show(Drawn(Scene, ctx)) /\ owed' = FALSE
                ELSE UNCHANGED <<drawVars, owed>>

\* redraw, by a renderer that is ready or not.
Redraw(isReady, ctx) ==
  /\ idle' = FALSE
  /\ IF isReady THEN Show(Drawn(Scene, ctx)) /\ owed' = FALSE
                ELSE UNCHANGED <<drawVars, owed>>

\* The event loop runs an idle source.  eglSwapBuffers, the last call, may find
\* the surface invalid: setWindow runs again for the same window and ends
\* without a context, or with one and an init() that cannot build its program.
IdleDraw ==
  /\ ~crashed /\ sources > 0 /\ NamesLeft(glTextures)
  /\ sources' = sources - 1
  /\ Redraw(ready, current)
  /\ current' \in {current} \cup (IF ready THEN {FALSE, window} ELSE {})
  /\ UNCHANGED <<clientVars, sceneVars, ready, window, windows, crashed>>

\* The same, where the window gets a new surface and init() redraws at once.
IdleDrawTwice ==
  /\ ~crashed /\ sources > 0 /\ ready /\ window
  /\ sources' = sources - 1
  /\ idle' = FALSE /\ owed' = FALSE
  /\ NamesLeft(glTextures) /\ NamesLeft(Drawn(Scene, current).gl)
  /\ Show(Drawn(Drawn(Scene, current), TRUE))
  /\ current' = TRUE
  /\ UNCHANGED <<clientVars, sceneVars, ready, window, windows, crashed>>

\* setWindow gets a window it can draw to: the context is made current and
\* init() redraws, or fails to build its program and returns.  Idle sources
\* already in the event loop stay there.
WindowShown ==
  /\ ~crashed /\ windows < MaxWindows /\ NamesLeft(glTextures)
  /\ windows' = windows + 1
  /\ window' = TRUE
  /\ current' \in BOOLEAN
  /\ \/ ready' = TRUE /\ Redraw(TRUE, TRUE)
     \/ UNCHANGED <<ready, idle, owed, drawVars>>
  /\ UNCHANGED <<clientVars, sceneVars, sources, crashed>>

\* setWindow without a window, or with one EGL refuses: no context is current
\* any more, and the renderer is not told (android-app.cpp 61).
WindowGone ==
  /\ ~crashed /\ windows < MaxWindows
  /\ windows' = windows + 1
  /\ window' \in BOOLEAN
  /\ current' = FALSE
  /\ UNCHANGED <<clientVars, sceneVars, drawVars, idleVars, ready, crashed>>

-----------------------------------------------------------------------------
(* Requests of the client *)

\* request_attach of a shm buffer, the only kind there is, or of none (None).
\* The texture is given a name and the buffer's memory; its mark stays.
Attach(s, b) ==
  /\ ~crashed /\ NamesLeft(glTextures)
  /\ buffer' = [buffer EXCEPT ![s] = b]
  /\ LET t  == Uninit(texture[s])
         gl == AfterUninit(glTextures, texture[s])
     IN  /\ texture' = [texture EXCEPT ![s] =
                          [t EXCEPT !.r = TRUE, !.sized = (b # None), !.data = b,
                                    !.id = IF current THEN FreshId(gl) ELSE @]]
         /\ glTextures' = IF current THEN gl \cup {FreshId(gl)} ELSE gl
  /\ UNCHANGED <<sceneVars, idleVars, windowVars, crashed,
                 frame, asked, answered>>

\* request_damage: a texture without a renderer pointer is a null dereference.
Damage(s) ==
  /\ ~crashed
  /\ texture' = [texture EXCEPT ![s].damaged = TRUE]
  /\ IF texture[s].r THEN RequestRedraw /\ UNCHANGED crashed
                     ELSE crashed' = TRUE /\ UNCHANGED idleVars
  /\ UNCHANGED <<clientVars, sceneVars, windowVars, glTextures>>

\* request_frame: the callback of an earlier request is overwritten.
Frame(s) ==
  /\ ~crashed /\ asked < MaxFrames
  /\ asked' = asked + 1
  /\ frame' = [frame EXCEPT ![s] = asked + 1]
  /\ UNCHANGED <<buffer, answered, sceneVars, drawVars, idleVars, windowVars, crashed>>

\* Mistake: the pointer to the destroyed callback is kept.
CommitKeepingFrame(s) ==
  /\ ~crashed
  /\ buffer[s] # None
  /\ answered' = IF frame[s] = 0 THEN answered ELSE Append(answered, frame[s])
  /\ UNCHANGED <<buffer, frame, asked, sceneVars, drawVars, idleVars, windowVars, crashed>>

\* Mistake: the test of the callback is left out.
CommitWithoutTest(s) ==
  /\ ~crashed
  /\ buffer[s] # None
  /\ answered' = Append(answered, frame[s])
  /\ frame' = [frame EXCEPT ![s] = 0]
  /\ UNCHANGED <<buffer, asked, sceneVars, drawVars, idleVars, windowVars, crashed>>

\* request_commit: the buffer is released on the spot and the frame callback
\* answered; without a buffer nothing happens.
Commit(s) ==
  /\ ~crashed
  /\ buffer[s] # None
  /\ answered' = IF frame[s] = 0 THEN answered ELSE Append(answered, frame[s])
  /\ frame' = [frame EXCEPT ![s] = 0]
  /\ UNCHANGED <<buffer, asked, sceneVars, drawVars, idleVars, windowVars, crashed>>

-----------------------------------------------------------------------------
(* Roles and the cursor *)

\* The texture of the surface that loses a role, or gets it anew, is dropped.
DropTexture(s) ==
  IF s = None THEN UNCHANGED drawVars
  ELSE /\ texture' = [texture EXCEPT ![s] = Uninit(@)]
       /\ glTextures' = AfterUninit(glTextures, texture[s])

SetToplevel(s) ==
  /\ ~crashed
  /\ DropTexture(toplevel)
  /\ toplevel' = s
  /\ RequestRedraw
  /\ UNCHANGED <<clientVars, cursor, cursorVisible, windowVars, crashed>>

SetCursor(s) ==
  /\ ~crashed
  /\ DropTexture(cursor)
  /\ cursor' = s
  /\ RequestRedraw
  /\ UNCHANGED <<clientVars, toplevel, cursorVisible, windowVars, crashed>>

\* cursorMove, with setCursorVisibility(true) before it (pointer_motion).
PointerMotion ==
  /\ ~crashed /\ toplevel # None
  /\ cursorVisible' = TRUE
  /\ IF cursor # None THEN RequestRedraw ELSE UNCHANGED idleVars
  /\ UNCHANGED <<clientVars, toplevel, cursor, drawVars, windowVars, crashed>>

\* The other input events only show the cursor (pointer) or hide it (touch).
ShowCursor(visible) ==
  /\ ~crashed /\ toplevel # None
  /\ cursorVisible' = visible
  /\ UNCHANGED <<clientVars, toplevel, cursor, drawVars, idleVars, windowVars, crashed>>

\* output_redraw, posted by output_resize.
OutputRedraw ==
  /\ ~crashed
  /\ RequestRedraw
  /\ UNCHANGED <<clientVars, sceneVars, drawVars, windowVars, crashed>>

-----------------------------------------------------------------------------
Request(s) ==
  \/ \E b \in Buffers \cup {None} : Attach(s, b)
  \/ Damage(s) \/ Frame(s) \/ Commit(s)

Next ==
  \/ IdleDraw \/ IdleDrawTwice \/ WindowShown \/ WindowGone \/ OutputRedraw \/ PointerMotion
  \/ \E s \in Surfaces : Request(s)
  \/ \E s \in Surfaces \cup {None} : SetToplevel(s) \/ SetCursor(s)
  \/ \E visible \in BOOLEAN : ShowCursor(visible)

\* Every turn of the event loop runs the idle sources before it waits.
Spec == Init /\ [][Next]_vars /\ WF_vars(IdleDraw)

\* What Renderer takes for granted of window and context: EglHelper implements
\* the same.
Target == INSTANCE DrawTarget

-----------------------------------------------------------------------------
TypeOK ==
  /\ texture \in [Surfaces -> Textures]
  /\ buffer \in [Surfaces -> Buffers \cup {None}]
  /\ frame \in [Surfaces -> Nat]
  /\ toplevel \in Surfaces \cup {None}
  /\ cursor \in Surfaces \cup {None}
  /\ {cursorVisible, ready, window, current, idle, owed, crashed} \subseteq BOOLEAN
  /\ sources \in Nat /\ windows \in Nat /\ asked \in Nat
  /\ glTextures \subseteq TexIds
  /\ answered \in Seq(Nat \ {0})

\* A redraw that was asked for is never lost: the event loop holds an idle
\* source that will draw, or the renderer waits for its first window, whose
\* init() draws.  In particular init() clearing the pointer while its source
\* is still queued does no harm.
RedrawScheduled ==
  /\ owed => idle \/ ~ready
  /\ idle => sources > 0

\* A texture that passes valid() has a name of its own that the GL still
\* knows, whatever was attached, dropped, redrawn or lost in between.
ValidTexturesLive ==
  \A s \in Surfaces : Valid(texture[s]) =>
    /\ texture[s].id \in glTextures
    /\ \A q \in Surfaces \ {s} : texture[q].id # texture[s].id

\* No frame callback is answered twice: the second answer would go to a
\* resource that is already destroyed.
FrameAnsweredOnce ==
  \A i, j \in DOMAIN answered : i # j => answered[i] # answered[j]

\* Once the renderer is ready, a redraw asked for takes place (unless the
\* compositor crashes first, or the model's texture names run out).
RedrawHappens == owed /\ ready ~> ~owed \/ crashed \/ ~NamesLeft(glTextures)
=============================================================================
