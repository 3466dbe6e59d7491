--------------------------- MODULE SurfaceProtocol ---------------------------
(***************************************************************************)
(* What the Wayland protocol (scanner/protocol/wayland.xml, from which the *)
(* bindings are generated) promises to the client about its buffers,       *)
(* stated over Renderer with one history added: the buffers the client may *)
(* write to again.                                                         *)
(***************************************************************************)
EXTENDS Renderer

VARIABLE released   \* buffers released and not attached again since

pvars == <<vars, released>>

PInit == Init /\ released = {}

\* wl_buffer.release is sent by request_commit.
CommitReleases(s) ==
  /\ Commit(s)
  /\ released' = released \cup {buffer[s]}

\* A client attaches a buffer to have it shown again.
AttachTakes(s, b) ==
  /\ Attach(s, b)
  /\ released' = released \ {b}

OtherStep ==
  /\ \/ IdleDraw \/ IdleDrawTwice \/ WindowShown \/ WindowGone
     \/ OutputRedraw \/ PointerMotion
     \/ \E s \in Surfaces : Damage(s) \/ Frame(s)
     \/ \E s \in Surfaces \cup {None} : SetToplevel(s) \/ SetCursor(s)
     \/ \E visible \in BOOLEAN : ShowCursor(visible)
  /\ UNCHANGED released

PNext ==
  \/ \E s \in Surfaces : CommitReleases(s)
  \/ \E s \in Surfaces, b \in Buffers \cup {None} : AttachTakes(s, b)
  \/ OtherStep

PSpec == PInit /\ [][PNext]_pvars

\* The step takes the pixels of the damaged texture of surface s.
Repaints(s) == texture[s].damaged /\ ~texture'[s].damaged

-----------------------------------------------------------------------------
\* wl_buffer.release: a buffer is released when the compositor no longer uses
\* it.  request_commit releases it at once and redraw reads it afterwards.
ReleasedNotRead ==
  [][\A s \in Surfaces : Repaints(s) => texture[s].data \notin released]_pvars
=============================================================================
