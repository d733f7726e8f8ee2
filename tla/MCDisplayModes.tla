---------------------------- MODULE MCDisplayModes ----------------------------
(***************************************************************************)
(* A standard mode that is too small and the smallest one; host sizes that  *)
(* are too narrow, and that differ in each dimension.                       *)
(***************************************************************************)
EXTENDS DisplayModes

MCStandard == <<<<1, 2>>, <<2, 2>>>>
MCMin == <<2, 2>>
MCFirst == <<4, 3>>
MCHostSizes == {<<1, 4>>, <<4, 3>>}
=============================================================================
