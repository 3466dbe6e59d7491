---------------------------- MODULE MCCompositor ----------------------------
(***************************************************************************)
(* Compositor for TLC.  Clients, addresses and resources are               *)
(* interchangeable.                                                        *)
(***************************************************************************)
EXTENDS Compositor, TLC

CompositorSymmetry ==
  Permutations(Clients) \cup Permutations(Slots) \cup Permutations(Outputs)
    \cup Permutations(Ids)

\* Bounds: one wl_touch of a client at a time, and while there is one, at most two
\* surfaces.
FewTouches ==
  \A c \in Clients :
    /\ Cardinality(live[c]["touch"]) <= 1
    /\ live[c]["touch"] # {} => \E s \in Slots : owner[s] = None
=============================================================================
