---------------------------- MODULE MCNv12Overlay ----------------------------
(***************************************************************************)
(* Corners of a detection before, in and behind a small image.              *)
(***************************************************************************)
EXTENDS Nv12Overlay

MCCoords == {-2, 1, 4, 7}
=============================================================================
