-------------------------- MODULE MCSurfaceProtocol --------------------------
(***************************************************************************)
(* SurfaceProtocol for TLC: each run looks for the shortest disagreement   *)
(* between the compositor and one promise of the protocol.                 *)
(***************************************************************************)
EXTENDS SurfaceProtocol
=============================================================================
