-------------------------- MODULE MCVirtqueueEvents --------------------------
(***************************************************************************)
(* A ring of two with indexes that wrap after four, so that a batch, a      *)
(* threshold and a wrap of num_added all occur.                            *)
(***************************************************************************)
EXTENDS VirtqueueEvents
=============================================================================
