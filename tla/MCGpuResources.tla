---------------------------- MODULE MCGpuResources ----------------------------
(* Instances of GpuResources: the memory a frame buffer may be given.       *)
EXTENDS GpuResources, TLC

CONSTANTS m1, m2, c     \* two regions for frames, one for the pointer

MemSymmetry == Permutations(FrameMems)
=============================================================================
