---------------------------- MODULE RendererProofs ----------------------------
(***************************************************************************)
(* Proofs about Renderer for any surfaces, buffers and texture names: a    *)
(* requested redraw is never lost, and a valid texture is one the GL knows *)
(* and no other surface uses.                                              *)
(***************************************************************************)
EXTENDS Renderer, FiniteSetTheorems, TLAPS

-----------------------------------------------------------------------------
(* Redraw scheduling *)

LEMMA RedrawKeepsSchedule ==
  ASSUME NEW isReady, NEW ctx, Redraw(isReady, ctx)
  PROVE  ~idle' /\ (isReady => ~owed') /\ (~isReady => owed' = owed)
  BY DEF Redraw

\* A redraw that was asked for is still to come.
THEOREM RedrawNotLost == Spec => []RedrawScheduled
  <1>. DEFINE Inv == RedrawScheduled /\ sources \in Nat /\ ready \in BOOLEAN
  <1>1. Init => Inv
    <2> SUFFICES ASSUME Init PROVE Inv
      OBVIOUS
    <2>1. sources = 0 /\ ~ready /\ ~owed /\ ~idle /\ ready \in BOOLEAN
      BY DEF Init
    <2>. QED BY <2>1 DEF RedrawScheduled
  <1>2. Inv /\ [Next]_vars => Inv'
    <2> SUFFICES ASSUME Inv, [Next]_vars PROVE Inv'
      OBVIOUS
    <2>. USE DEF RedrawScheduled
    <2>1. CASE IdleDraw
      BY <2>1, RedrawKeepsSchedule DEF IdleDraw
    <2>12. CASE IdleDrawTwice
      BY <2>12 DEF IdleDrawTwice
    <2>2. CASE WindowShown
      <3>1. sources' = sources
        BY <2>2 DEF WindowShown
      <3>2. CASE ready' = TRUE /\ Redraw(TRUE, TRUE)
        BY <3>1, <3>2, RedrawKeepsSchedule
      <3>3. CASE UNCHANGED <<ready, idle, owed, drawVars>>
        BY <3>1, <3>3
      <3>. QED BY <2>2, <3>2, <3>3 DEF WindowShown
    <2>3. ASSUME RequestRedraw, ready' = ready PROVE Inv'
      BY <2>3 DEF RequestRedraw
    <2>4. ASSUME UNCHANGED <<idleVars, ready>> PROVE Inv'
      BY <2>4 DEF idleVars
    <2>5. CASE WindowGone
      BY <2>5, <2>4 DEF WindowGone
    <2>6. CASE OutputRedraw
      BY <2>6, <2>3 DEF OutputRedraw, windowVars
    <2>7. CASE PointerMotion
      BY <2>7, <2>3, <2>4 DEF PointerMotion, windowVars
    <2>8. ASSUME NEW s \in Surfaces, Request(s) PROVE Inv'
      BY <2>8, <2>3, <2>4 DEF Request, Attach, Damage, Frame, Commit, windowVars
    <2>9. ASSUME NEW s \in Surfaces \cup {None}, SetToplevel(s) \/ SetCursor(s) PROVE Inv'
      BY <2>9, <2>3 DEF SetToplevel, SetCursor, windowVars
    <2>10. ASSUME NEW visible \in BOOLEAN, ShowCursor(visible) PROVE Inv'
      BY <2>10, <2>4 DEF ShowCursor, windowVars
    <2>11. CASE UNCHANGED vars
      BY <2>11, <2>4 DEF vars, windowVars
    <2>. QED BY <2>1, <2>2, <2>5, <2>6, <2>7, <2>8, <2>9, <2>10, <2>11, <2>12 DEF Next
  <1>3. Inv => RedrawScheduled
    OBVIOUS
  <1>. QED BY <1>1, <1>2, <1>3, PTL DEF Spec

-----------------------------------------------------------------------------
(* Texture names *)

\* The names textures hold are in use in the GL and no two textures share one.
NamesLive(tex, gl) ==
  \A s \in Surfaces : tex[s].id # NoId =>
    /\ tex[s].id \in gl
    /\ \A q \in Surfaces \ {s} : tex[q].id # tex[s].id

\* What the proof needs of the types.
SceneOK(tex, gl) == tex \in [Surfaces -> Textures] /\ gl \subseteq TexIds

LEMMA FreshName ==
  ASSUME NEW gl \in SUBSET TexIds, TexIds \ gl # {}
  PROVE  FreshId(gl) \in TexIds /\ FreshId(gl) \notin gl /\ FreshId(gl) # NoId
  BY RendererAssumption DEF FreshId, NoId

\* With two names left there is one for the toplevel and one for the cursor.
LEMMA TwoNames ==
  ASSUME NEW gl \in SUBSET TexIds, NamesLeft(gl)
  PROVE  /\ TexIds \ gl # {}
         /\ \A i \in TexIds : TexIds \ (gl \cup {i}) # {}
  <1>. DEFINE Left == TexIds \ gl
  <1>1. IsFiniteSet(Left) /\ Cardinality(Left) >= 2
    BY RendererAssumption, FS_Subset DEF NamesLeft
  <1>2. Left # {}
    BY <1>1, FS_EmptySet
  <1>3. ASSUME NEW i \in TexIds, TexIds \ (gl \cup {i}) = {} PROVE FALSE
    <2>1. Left \subseteq {i}
      BY <1>3
    <2>2. IsFiniteSet({i}) /\ Cardinality({i}) = 1
      BY FS_Singleton
    <2>3. Cardinality(Left) <= 1
      BY <2>1, <2>2, FS_Subset
    <2>4. Cardinality(Left) \in Nat
      BY <1>1, FS_CardinalityType
    <2>. QED BY <1>1, <2>3, <2>4
  <1>. QED BY <1>2, <1>3

\* Dropping a texture deletes no name that another one holds.
LEMMA UninitNames ==
  ASSUME NEW tex, NEW gl, SceneOK(tex, gl), NamesLive(tex, gl), NEW s \in Surfaces
  PROVE  LET u == [tex EXCEPT ![s] = Uninit(@)]
             g == AfterUninit(gl, tex[s])
         IN  SceneOK(u, g) /\ NamesLive(u, g)
  BY RendererAssumption DEF SceneOK, NamesLive, Uninit, AfterUninit, Textures, Valid, NoId

LEMMA DrawNames ==
  ASSUME NEW tex, NEW gl, SceneOK(tex, gl), NamesLive(tex, gl), NEW s \in Surfaces,
         NEW ctx, TexIds \ gl # {}
  PROVE  LET d == DrawSurface([tex |-> tex, gl |-> gl], s, ctx)
         IN  /\ SceneOK(d.tex, d.gl) /\ NamesLive(d.tex, d.gl)
             /\ d = [tex |-> d.tex, gl |-> d.gl]
             /\ d.gl = gl \/ d.gl = gl \cup {FreshId(gl)}
  <1>. DEFINE t == tex[s]
  <1>1. t \in Textures /\ Draw(t) \in Textures /\ Draw(t).id = t.id
    BY DEF SceneOK, Draw, Textures
  <1>2. CASE Valid(t) \/ ~ctx
    <2>1. DrawSurface([tex |-> tex, gl |-> gl], s, ctx)
            = [tex |-> [tex EXCEPT ![s] = Draw(t)], gl |-> gl]
      BY <1>2 DEF DrawSurface, SceneOK
    <2>2. SceneOK([tex EXCEPT ![s] = Draw(t)], gl)
      BY <1>1 DEF SceneOK
    <2>3. NamesLive([tex EXCEPT ![s] = Draw(t)], gl)
      BY <1>1 DEF NamesLive, SceneOK
    <2>. QED BY <2>1, <2>2, <2>3
  <1>3. CASE ~(Valid(t) \/ ~ctx)
    <2>. DEFINE f == FreshId(gl)
                n == Draw([t EXCEPT !.id = f])
                u == [tex EXCEPT ![s] = n]
    <2>1. DrawSurface([tex |-> tex, gl |-> gl], s, ctx) = [tex |-> u, gl |-> gl \cup {f}]
      BY <1>3 DEF DrawSurface
    <2>2. f \in TexIds /\ f \notin gl /\ f # NoId
      BY FreshName DEF SceneOK
    <2>3. n \in Textures /\ n.id = f
      BY <1>1, <2>2 DEF Draw, Textures
    <2>4. SceneOK(u, gl \cup {f})
      BY <2>2, <2>3 DEF SceneOK
    <2>5. NamesLive(u, gl \cup {f})
      BY <2>2, <2>3 DEF NamesLive, SceneOK
    <2>. QED BY <2>1, <2>4, <2>5
  <1>. QED BY <1>2, <1>3

\* A whole redraw: the toplevel takes one name at most, the cursor another.
LEMMA DrawnNames ==
  ASSUME NEW tex, NEW gl, SceneOK(tex, gl), NamesLive(tex, gl), NamesLeft(gl),
         toplevel \in Surfaces \cup {None}, cursor \in Surfaces \cup {None}, NEW ctx
  PROVE  LET d == Drawn([tex |-> tex, gl |-> gl], ctx)
         IN  SceneOK(d.tex, d.gl) /\ NamesLive(d.tex, d.gl) /\ d = [tex |-> d.tex, gl |-> d.gl]
  <1>. DEFINE scene == [tex |-> tex, gl |-> gl]
              below == DrawSurface(scene, toplevel, ctx)
  <1>1. gl \in SUBSET TexIds /\ TexIds \ gl # {}
    BY TwoNames DEF SceneOK
  <1>2. CASE toplevel = None
    BY <1>2 DEF Drawn
  <1>3. CASE toplevel # None
    <2>1. /\ SceneOK(below.tex, below.gl) /\ NamesLive(below.tex, below.gl)
          /\ below = [tex |-> below.tex, gl |-> below.gl]
          /\ below.gl = gl \/ below.gl = gl \cup {FreshId(gl)}
      BY <1>1, <1>3, DrawNames
    <2>2. CASE cursorVisible /\ cursor # None
      <3>1. FreshId(gl) \in TexIds
        BY <1>1, FreshName
      <3>2. TexIds \ below.gl # {}
        BY <1>1, <2>1, <3>1, TwoNames
      <3>. DEFINE bt == below.tex
                  bg == below.gl
                  all == DrawSurface([tex |-> bt, gl |-> bg], cursor, ctx)
      <3>3. /\ SceneOK(all.tex, all.gl) /\ NamesLive(all.tex, all.gl)
            /\ all = [tex |-> all.tex, gl |-> all.gl]
        <4>. HIDE DEF bt, bg
        <4>1. SceneOK(bt, bg) /\ NamesLive(bt, bg) /\ TexIds \ bg # {} /\ cursor \in Surfaces
          BY <2>1, <2>2, <3>2 DEF bt, bg
        <4>. QED BY <4>1, DrawNames
      <3>4. Drawn(scene, ctx) = all
        BY <1>3, <2>1, <2>2 DEF Drawn
      <3>. QED BY <3>3, <3>4
    <2>3. CASE ~(cursorVisible /\ cursor # None)
      BY <1>3, <2>1, <2>3 DEF Drawn
    <2>. QED BY <2>2, <2>3
  <1>. QED BY <1>2, <1>3

\* An attach gives the texture a name of its own.
LEMMA AttachNames ==
  ASSUME SceneOK(texture, glTextures), NamesLive(texture, glTextures),
         NEW s \in Surfaces, NEW b \in Buffers \cup {None}, Attach(s, b)
  PROVE  SceneOK(texture', glTextures') /\ NamesLive(texture', glTextures')
  <1>. DEFINE u == [texture EXCEPT ![s] = Uninit(@)]
              g == AfterUninit(glTextures, texture[s])
              n(i) == [u[s] EXCEPT !.r = TRUE, !.sized = (b # None), !.data = b, !.id = i]
  <1>1. SceneOK(u, g) /\ NamesLive(u, g)
    BY UninitNames
  <1>2. u[s] = Uninit(texture[s]) /\ u[s] \in Textures /\ u[s].id = NoId
    BY <1>1 DEF SceneOK, Uninit, Textures
  <1>3. TexIds \ g # {}
    BY TwoNames DEF Attach, AfterUninit, SceneOK
  <1>4. FreshId(g) \in TexIds /\ FreshId(g) \notin g /\ FreshId(g) # NoId
    BY <1>1, <1>3, FreshName DEF SceneOK
  <1>5. \A i \in TexIds \cup {NoId} : n(i) \in Textures /\ n(i).id = i
    BY <1>2 DEF Textures
  <1>6. CASE current
    <2>. DEFINE f == FreshId(g)
    <2>1. texture' = [u EXCEPT ![s] = n(f)] /\ glTextures' = g \cup {f}
      BY <1>2, <1>6 DEF Attach, SceneOK
    <2>2. n(f) \in Textures /\ n(f).id = f
      BY <1>4, <1>5
    <2>. HIDE DEF u, g, n, f
    <2>3. SceneOK(texture', glTextures')
      BY <1>1, <1>4, <2>1, <2>2 DEF SceneOK, f
    <2>4. NamesLive(texture', glTextures')
      BY <1>1, <1>4, <2>1, <2>2 DEF SceneOK, NamesLive, f
    <2>. QED BY <2>3, <2>4
  <1>7. CASE ~current
    <2>1. texture' = [u EXCEPT ![s] = n(NoId)] /\ glTextures' = g
      BY <1>2, <1>7 DEF Attach, SceneOK, AfterUninit
    <2>2. n(NoId) \in Textures /\ n(NoId).id = NoId
      BY <1>5
    <2>. HIDE DEF u, g, n
    <2>3. SceneOK(texture', glTextures')
      BY <1>1, <2>1, <2>2 DEF SceneOK
    <2>4. NamesLive(texture', glTextures')
      BY <1>1, <2>1, <2>2 DEF SceneOK, NamesLive
    <2>. QED BY <2>3, <2>4
  <1>. QED BY <1>6, <1>7

RolesOK == toplevel \in Surfaces \cup {None} /\ cursor \in Surfaces \cup {None}

SceneInv == SceneOK(texture, glTextures) /\ NamesLive(texture, glTextures) /\ RolesOK

\* The textures, their names and the roles.
LEMMA SceneInvariant == Spec => []SceneInv
  <1>. DEFINE Inv == SceneOK(texture, glTextures) /\ NamesLive(texture, glTextures) /\ RolesOK
  <1>1. Init => Inv
    BY DEF Init, NoTexture, SceneOK, NamesLive, Textures, RolesOK
  <1>2. Inv /\ [Next]_vars => Inv'
    <2> SUFFICES ASSUME Inv, [Next]_vars PROVE Inv'
      OBVIOUS
    <2>. USE DEF RolesOK
    <2>1. ASSUME UNCHANGED drawVars, RolesOK' PROVE Inv'
      BY <2>1 DEF drawVars
    <2>2. ASSUME NEW ctx, NamesLeft(glTextures), Show(Drawn(Scene, ctx)), RolesOK' PROVE Inv'
      BY <2>2, DrawnNames DEF Show, Scene
    <2>3. ASSUME NEW isReady, NEW ctx, NamesLeft(glTextures), Redraw(isReady, ctx), RolesOK'
          PROVE Inv'
      BY <2>1, <2>2, <2>3 DEF Redraw
    <2>4. ASSUME NEW s \in Surfaces \cup {None}, DropTexture(s), RolesOK' PROVE Inv'
      BY <2>1, <2>4, UninitNames DEF DropTexture
    <2>5. CASE IdleDraw
      BY <2>3, <2>5 DEF IdleDraw, sceneVars
    <2>6. CASE IdleDrawTwice
      <3>. DEFINE first == Drawn(Scene, current)
      <3>1. /\ SceneOK(first.tex, first.gl) /\ NamesLive(first.tex, first.gl)
            /\ first = [tex |-> first.tex, gl |-> first.gl]
        BY <2>6, DrawnNames DEF IdleDrawTwice, Scene
      <3>2. NamesLeft(first.gl) /\ Show(Drawn(first, TRUE)) /\ RolesOK'
        BY <2>6 DEF IdleDrawTwice, sceneVars
      <3>. HIDE DEF first
      <3>. DEFINE ft == first.tex
                  fg == first.gl
                  second == Drawn([tex |-> ft, gl |-> fg], TRUE)
      <3>3. SceneOK(ft, fg) /\ NamesLive(ft, fg) /\ NamesLeft(fg)
        BY <3>1, <3>2
      <3>4. SceneOK(second.tex, second.gl) /\ NamesLive(second.tex, second.gl)
        <4>. HIDE DEF ft, fg
        <4>. QED BY <3>3, DrawnNames
      <3>. QED BY <3>1, <3>2, <3>4 DEF Show
    <2>7. CASE WindowShown
      <3>1. NamesLeft(glTextures) /\ RolesOK'
        BY <2>7 DEF WindowShown, sceneVars
      <3>2. Redraw(TRUE, TRUE) \/ UNCHANGED drawVars
        BY <2>7 DEF WindowShown
      <3>. QED BY <2>1, <2>3, <3>1, <3>2
    <2>8. ASSUME NEW s \in Surfaces, Request(s) PROVE Inv'
      <3>1. ASSUME NEW b \in Buffers \cup {None}, Attach(s, b) PROVE Inv'
        BY <3>1, AttachNames DEF Attach, sceneVars
      <3>2. CASE Damage(s)
        <4>. DEFINE n == [texture[s] EXCEPT !.damaged = TRUE]
        <4>1. texture' = [texture EXCEPT ![s] = n] /\ glTextures' = glTextures /\ RolesOK'
          BY <3>2 DEF Damage, sceneVars
        <4>2. n \in Textures /\ n.id = texture[s].id
          BY DEF SceneOK, Textures
        <4>. HIDE DEF n
        <4>3. SceneOK(texture', glTextures')
          BY <4>1, <4>2 DEF SceneOK
        <4>4. NamesLive(texture', glTextures')
          BY <4>1, <4>2 DEF SceneOK, NamesLive
        <4>. QED BY <4>1, <4>3, <4>4
      <3>3. CASE Frame(s) \/ Commit(s)
        BY <2>1, <3>3 DEF Frame, Commit, sceneVars
      <3>. QED BY <2>8, <3>1, <3>2, <3>3 DEF Request
    <2>9. ASSUME NEW s \in Surfaces \cup {None}, SetToplevel(s) \/ SetCursor(s) PROVE Inv'
      BY <2>4, <2>9 DEF SetToplevel, SetCursor
    <2>10. ASSUME NEW visible \in BOOLEAN, ShowCursor(visible) PROVE Inv'
      BY <2>1, <2>10 DEF ShowCursor
    <2>11. CASE WindowGone \/ OutputRedraw \/ PointerMotion \/ UNCHANGED vars
      BY <2>1, <2>11 DEF WindowGone, OutputRedraw, PointerMotion, vars, sceneVars
    <2>. QED BY <2>5, <2>6, <2>7, <2>8, <2>9, <2>10, <2>11 DEF Next
  <1>. QED BY <1>1, <1>2, PTL DEF Spec, SceneInv

\* A texture that passes valid() has a live name that is its own.
THEOREM TexturesLive == Spec => []ValidTexturesLive
  <1>1. SceneInv => ValidTexturesLive
    BY DEF SceneInv, NamesLive, ValidTexturesLive, Valid
  <1>. QED BY <1>1, SceneInvariant, PTL

-----------------------------------------------------------------------------
(* Frame callbacks *)

FrameTypes ==
  frame \in [Surfaces -> Nat] /\ asked \in Nat /\ answered \in Seq(Nat \ {0})

\* A callback that waits was asked for, waits with one surface and was not
\* answered.
FrameInv ==
  /\ \A s \in Surfaces : frame[s] <= asked
  /\ \A s, q \in Surfaces : s # q /\ frame[s] = frame[q] => frame[s] = 0
  /\ \A i \in DOMAIN answered : answered[i] <= asked
                                /\ \A s \in Surfaces : frame[s] # answered[i]
  /\ FrameAnsweredOnce

\* request_frame makes a callback no surface has had.
LEMMA FrameKeeps ==
  ASSUME FrameTypes, FrameInv, NEW s \in Surfaces, Frame(s)
  PROVE  FrameTypes' /\ FrameInv'
  <1>1. /\ frame' = [frame EXCEPT ![s] = asked + 1]
        /\ asked' = asked + 1 /\ answered' = answered
    BY DEF Frame
  <1>2. FrameTypes'
    BY <1>1 DEF FrameTypes
  <1>3. \A q \in Surfaces : frame'[q] = IF q = s THEN asked + 1 ELSE frame[q]
    BY <1>1 DEF FrameTypes
  <1>4. \A i \in DOMAIN answered : answered[i] \in Nat
    BY DEF FrameTypes
  <1>5. FrameInv'
    BY <1>1, <1>3, <1>4 DEF FrameTypes, FrameInv, FrameAnsweredOnce
  <1>. QED BY <1>2, <1>5

\* request_commit answers the callback and forgets it.
LEMMA CommitKeeps ==
  ASSUME FrameTypes, FrameInv, NEW s \in Surfaces, Commit(s)
  PROVE  FrameTypes' /\ FrameInv'
  <1>. DEFINE f == frame[s]
  <1>1. /\ frame' = [frame EXCEPT ![s] = 0] /\ asked' = asked
        /\ answered' = IF f = 0 THEN answered ELSE Append(answered, f)
    BY DEF Commit
  <1>2. \A q \in Surfaces : frame'[q] = IF q = s THEN 0 ELSE frame[q]
    BY <1>1 DEF FrameTypes
  <1>3. f \in Nat /\ \A i \in DOMAIN answered : answered[i] \in Nat \ {0}
    BY DEF FrameTypes
  <1>4. CASE f = 0
    BY <1>1, <1>2, <1>3, <1>4 DEF FrameTypes, FrameInv, FrameAnsweredOnce
  <1>5. CASE f # 0
    <2>1. answered' = Append(answered, f)
      BY <1>1, <1>5
    <2>2. /\ Len(answered) \in Nat /\ DOMAIN answered = 1 .. Len(answered)
          /\ DOMAIN answered' = 1 .. Len(answered) + 1
          /\ answered'[Len(answered) + 1] = f
          /\ \A i \in DOMAIN answered : answered'[i] = answered[i]
      BY <1>3, <1>5, <2>1 DEF FrameTypes
    <2>3. FrameTypes'
      BY <1>1, <1>3, <1>5, <2>1 DEF FrameTypes
    <2>4. \A i \in DOMAIN answered' : \/ i \in DOMAIN answered /\ answered'[i] = answered[i]
                                      \/ i = Len(answered) + 1 /\ answered'[i] = f
      BY <2>2
    <2>5. FrameAnsweredOnce'
      BY <2>4 DEF FrameInv, FrameAnsweredOnce
    <2>6. \A i \in DOMAIN answered' : answered'[i] <= asked'
                                      /\ \A q \in Surfaces : frame'[q] # answered'[i]
      BY <1>1, <1>2, <1>3, <1>5, <2>4 DEF FrameInv
    <2>7. /\ \A q \in Surfaces : frame'[q] <= asked'
          /\ \A q, r \in Surfaces : q # r /\ frame'[q] = frame'[r] => frame'[q] = 0
      BY <1>1, <1>2 DEF FrameInv, FrameTypes
    <2>. QED BY <2>3, <2>5, <2>6, <2>7 DEF FrameInv
  <1>. QED BY <1>4, <1>5

LEMMA FrameInvariant == Spec => [](FrameTypes /\ FrameInv)
  <1>1. Init => FrameTypes /\ FrameInv
    BY DEF Init, FrameTypes, FrameInv, FrameAnsweredOnce
  <1>2. FrameTypes /\ FrameInv /\ [Next]_vars => (FrameTypes /\ FrameInv)'
    <2> SUFFICES ASSUME FrameTypes, FrameInv, [Next]_vars PROVE (FrameTypes /\ FrameInv)'
      OBVIOUS
    <2>1. ASSUME UNCHANGED <<frame, asked, answered>> PROVE (FrameTypes /\ FrameInv)'
      BY <2>1 DEF FrameTypes, FrameInv, FrameAnsweredOnce
    <2>2. ASSUME NEW s \in Surfaces, Request(s) PROVE (FrameTypes /\ FrameInv)'
      <3>1. CASE Frame(s)
        BY <3>1, FrameKeeps
      <3>2. CASE Commit(s)
        BY <3>2, CommitKeeps
      <3>3. CASE Damage(s) \/ \E b \in Buffers \cup {None} : Attach(s, b)
        BY <2>1, <3>3 DEF Damage, Attach, clientVars
      <3>. QED BY <2>2, <3>1, <3>2, <3>3 DEF Request
    <2>3. CASE \/ IdleDraw \/ IdleDrawTwice \/ WindowShown \/ WindowGone \/ OutputRedraw
               \/ PointerMotion \/ UNCHANGED vars
      BY <2>1, <2>3 DEF IdleDraw, IdleDrawTwice, WindowShown, WindowGone, OutputRedraw,
                        PointerMotion, vars, clientVars
    <2>4. CASE \/ \E s \in Surfaces \cup {None} : SetToplevel(s) \/ SetCursor(s)
               \/ \E visible \in BOOLEAN : ShowCursor(visible)
      BY <2>1, <2>4 DEF SetToplevel, SetCursor, ShowCursor, clientVars
    <2>. QED BY <2>2, <2>3, <2>4 DEF Next
  <1>. QED BY <1>1, <1>2, PTL DEF Spec

\* No frame callback is answered twice, whatever asks for the next one and
\* commits in between.
THEOREM FramesAnsweredOnce == Spec => []FrameAnsweredOnce
  <1>1. FrameInv => FrameAnsweredOnce
    BY DEF FrameInv
  <1>. QED BY <1>1, FrameInvariant, PTL

-----------------------------------------------------------------------------
(* The types that are left *)

FlagTypes ==
  /\ cursorVisible \in BOOLEAN /\ ready \in BOOLEAN /\ window \in BOOLEAN
  /\ current \in BOOLEAN /\ idle \in BOOLEAN /\ owed \in BOOLEAN /\ crashed \in BOOLEAN

CountTypes ==
  buffer \in [Surfaces -> Buffers \cup {None}] /\ sources \in Nat /\ windows \in Nat

LEMMA FlagTypesKept == Spec => []FlagTypes
  <1>1. Init => FlagTypes
    BY Zenon DEF Init, FlagTypes
  <1>2. FlagTypes /\ [Next]_vars => FlagTypes'
    <2> SUFFICES ASSUME FlagTypes, [Next]_vars PROVE FlagTypes'
      OBVIOUS
    <2>. USE DEF FlagTypes, clientVars, sceneVars, idleVars, windowVars
    <2>1. ASSUME UNCHANGED <<cursorVisible, windowVars>>, crashed' \in BOOLEAN,
                 RequestRedraw \/ UNCHANGED <<idle, owed>>
          PROVE  FlagTypes'
      BY <2>1, Zenon DEF RequestRedraw
    <2>2. ASSUME NEW s \in Surfaces, Request(s) PROVE FlagTypes'
      <3>1. ASSUME NEW b \in Buffers \cup {None}, Attach(s, b) PROVE FlagTypes'
        BY <3>1, Zenon DEF Attach
      <3>2. CASE Damage(s)
        <4>1. UNCHANGED <<cursorVisible, windowVars>>
          BY <3>2, Zenon DEF Damage
        <4>2. \/ RequestRedraw /\ UNCHANGED crashed
              \/ UNCHANGED idleVars /\ crashed' = TRUE
          BY <3>2, Zenon DEF Damage
        <4>. QED BY <2>1, <4>1, <4>2, Zenon
      <3>3. CASE Frame(s) \/ Commit(s)
        BY <3>3, Zenon DEF Frame, Commit
      <3>. QED BY <2>2, <3>1, <3>2, <3>3, Zenon DEF Request
    <2>3. ASSUME NEW isReady, NEW ctx, Redraw(isReady, ctx)
          PROVE  idle' \in BOOLEAN /\ owed' \in BOOLEAN
      BY <2>3, Zenon DEF Redraw
    <2>4. CASE IdleDraw
      <3>1. current' \in BOOLEAN
        BY <2>4, Zenon DEF IdleDraw
      <3>2. Redraw(ready, current) /\ UNCHANGED <<cursorVisible, ready, window, crashed>>
        BY <2>4, Zenon DEF IdleDraw
      <3>. QED BY <2>3, <3>1, <3>2, Zenon
    <2>5. CASE IdleDrawTwice
      BY <2>5, Zenon DEF IdleDrawTwice
    <2>6. CASE WindowShown
      <3>1. window' = TRUE /\ current' \in BOOLEAN /\ UNCHANGED <<cursorVisible, crashed>>
        BY <2>6, Zenon DEF WindowShown
      <3>2. (ready' = TRUE /\ Redraw(TRUE, TRUE)) \/ UNCHANGED <<ready, idle, owed>>
        BY <2>6, Zenon DEF WindowShown
      <3>. QED BY <2>3, <3>1, <3>2, Zenon
    <2>7. CASE WindowGone
      BY <2>7, Zenon DEF WindowGone
    <2>8. CASE OutputRedraw
      <3>1. UNCHANGED <<cursorVisible, windowVars, crashed>> /\ RequestRedraw
        BY <2>8, Zenon DEF OutputRedraw
      <3>. QED BY <2>1, <3>1, Zenon
    <2>9. CASE PointerMotion
      <3>1. cursorVisible' = TRUE /\ UNCHANGED <<windowVars, crashed>>
            /\ (RequestRedraw \/ UNCHANGED idleVars)
        BY <2>9, Zenon DEF PointerMotion
      <3>. QED BY <3>1, Zenon DEF RequestRedraw
    <2>10. ASSUME NEW s \in Surfaces \cup {None}, SetToplevel(s) \/ SetCursor(s) PROVE FlagTypes'
      <3>1. UNCHANGED <<cursorVisible, windowVars, crashed>> /\ RequestRedraw
        BY <2>10, Zenon DEF SetToplevel, SetCursor
      <3>. QED BY <2>1, <3>1, Zenon
    <2>11. ASSUME NEW visible \in BOOLEAN, ShowCursor(visible) PROVE FlagTypes'
      BY <2>11, Zenon DEF ShowCursor
    <2>12. CASE UNCHANGED vars
      BY <2>12, Zenon DEF vars
    <2>. QED BY <2>2, <2>4, <2>5, <2>6, <2>7, <2>8, <2>9, <2>10, <2>11, <2>12, Zenon DEF Next
  <1>. QED BY <1>1, <1>2, PTL DEF Spec

LEMMA CountTypesKept == Spec => []CountTypes
  <1>1. Init => CountTypes
    BY DEF Init, CountTypes
  <1>2. CountTypes /\ [Next]_vars => CountTypes'
    <2> SUFFICES ASSUME CountTypes, [Next]_vars PROVE CountTypes'
      OBVIOUS
    <2>. USE DEF CountTypes, clientVars, sceneVars, idleVars, windowVars
    <2>1. ASSUME NEW s \in Surfaces, Request(s) PROVE CountTypes'
      <3>1. ASSUME NEW b \in Buffers \cup {None}, Attach(s, b) PROVE CountTypes'
        BY <3>1 DEF Attach
      <3>2. CASE Damage(s) \/ Frame(s) \/ Commit(s)
        BY <3>2 DEF Damage, Frame, Commit, RequestRedraw
      <3>. QED BY <2>1, <3>1, <3>2 DEF Request
    <2>2. CASE IdleDraw \/ IdleDrawTwice
      <3>1. sources > 0 /\ sources' = sources - 1 /\ UNCHANGED <<buffer, windows>>
        BY <2>2, Zenon DEF IdleDraw, IdleDrawTwice
      <3>. QED BY <3>1
    <2>3. CASE WindowShown \/ WindowGone
      <3>1. windows' = windows + 1 /\ UNCHANGED <<buffer, sources>>
        BY <2>3, Zenon DEF WindowShown, WindowGone
      <3>. QED BY <3>1
    <2>8. ASSUME RequestRedraw PROVE sources' \in Nat
      BY <2>8 DEF RequestRedraw
    <2>4. CASE OutputRedraw \/ PointerMotion
      BY <2>4, <2>8 DEF OutputRedraw, PointerMotion
    <2>5. ASSUME NEW s \in Surfaces \cup {None}, SetToplevel(s) \/ SetCursor(s) PROVE CountTypes'
      BY <2>5, <2>8 DEF SetToplevel, SetCursor
    <2>6. ASSUME NEW visible \in BOOLEAN, ShowCursor(visible) PROVE CountTypes'
      BY <2>6 DEF ShowCursor
    <2>7. CASE UNCHANGED vars
      BY <2>7 DEF vars
    <2>. QED BY <2>1, <2>2, <2>3, <2>4, <2>5, <2>6, <2>7 DEF Next
  <1>. QED BY <1>1, <1>2, PTL DEF Spec

\* Every variable of the renderer keeps its type.
THEOREM TypeCorrect == Spec => []TypeOK
  <1>1. FlagTypes => {cursorVisible, ready, window, current, idle, owed, crashed} \subseteq BOOLEAN
    BY Zenon DEF FlagTypes
  <1>2. SceneInv /\ FrameTypes /\ FlagTypes /\ CountTypes => TypeOK
    BY <1>1 DEF SceneInv, SceneOK, RolesOK, FrameTypes, CountTypes, TypeOK
  <1>. QED BY <1>2, SceneInvariant, FrameInvariant, FlagTypesKept, CountTypesKept, PTL

-----------------------------------------------------------------------------
(* The window *)

LEMMA RendererTargets ==
  ASSUME [Next]_vars
  PROVE  [Target!DTNext]_(Target!dtVars)
<1>1. CASE UNCHANGED <<ready, window, current>>
  BY <1>1 DEF Target!dtVars
<1>2. CASE IdleDraw
  <2>1. current' \in {current} \cup (IF ready THEN {FALSE, window} ELSE {})
        /\ UNCHANGED <<ready, window>>
    BY <1>2, Zenon DEF IdleDraw
  <2>2. current' = current \/ (ready /\ (current' = FALSE \/ current' = window))
    BY <2>1, Zenon
  <2> QED
    BY <2>1, <2>2, Zenon DEF Target!DTNext, Target!Redrawn
<1>3. CASE IdleDrawTwice
  <2>1. current' = TRUE /\ window /\ UNCHANGED <<ready, window>> /\ ready
    BY <1>3, Zenon DEF IdleDrawTwice
  <2> QED
    BY <2>1, Zenon DEF Target!DTNext, Target!Redrawn
<1>4. CASE WindowShown
  <2>1. window' = TRUE /\ current' \in BOOLEAN /\ (ready' = TRUE \/ UNCHANGED ready)
    BY <1>4, Zenon DEF WindowShown
  <2> QED
    BY <2>1, Zenon DEF Target!DTNext, Target!Shown
<1>5. CASE WindowGone
  <2>1. window' \in BOOLEAN /\ current' = FALSE /\ UNCHANGED ready
    BY <1>5, Zenon DEF WindowGone
  <2> QED
    BY <2>1, Zenon DEF Target!DTNext, Target!Gone
<1>6. CASE UNCHANGED windowVars
  BY <1>1, <1>6, Zenon DEF windowVars
<1>7. CASE \/ OutputRedraw \/ PointerMotion
           \/ \E s \in Surfaces : Request(s)
           \/ \E s \in Surfaces \cup {None} : SetToplevel(s) \/ SetCursor(s)
           \/ \E visible \in BOOLEAN : ShowCursor(visible)
           \/ UNCHANGED vars
  <2>1. UNCHANGED windowVars
    BY <1>7, Zenon DEF OutputRedraw, PointerMotion, Request, Attach, Damage, Frame, Commit,
       SetToplevel, SetCursor, ShowCursor, vars
  <2> QED
    BY <1>6, <2>1
<1> QED
  BY <1>2, <1>3, <1>4, <1>5, <1>7 DEF Next

\* LorieRenderer's window, context and readiness go through steps of DrawTarget
\* alone, which are those EglHelper implements.
THEOREM WindowIsDrawTarget == Spec => Target!DTSpec
<1>1. Init => Target!DTInit
  BY DEF Init, Target!DTInit
<1> QED
  BY <1>1, RendererTargets, PTL DEF Spec, Target!DTSpec
=============================================================================
