------------------------- MODULE MCDeviceLifecycle -------------------------
(* Instances of DeviceLifecycle. *)
EXTENDS DeviceLifecycle, TLC

\* Places in memory differ only in what is there, and so do buffers.
Interchangeable == Permutations(Rings) \cup Permutations(Cmds)
=============================================================================
