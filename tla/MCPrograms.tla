------------------------------ MODULE MCPrograms -----------------------------
(***************************************************************************)
(* Readings of the motion sensor on both sides of zero.                     *)
(***************************************************************************)
EXTENDS Programs

MCReadings == {-2, 1, 3}
=============================================================================
