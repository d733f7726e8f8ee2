----------------------------- MODULE MCGpuQueues -----------------------------
(***************************************************************************)
(* Instances of GpuQueues: who the clients are, what each of them does, and *)
(* which ISR bits the device raises for a configuration change.            *)
(***************************************************************************)
EXTENDS GpuQueues, TLC

CONSTANTS shape,        \* sets pointer shapes: waits for its transfers
          present,      \* presents frames: posts and returns
          gl1, gl2      \* submit 3D commands

\* What the first two clients do; the others submit 3D commands.
Programs(shape_ops, present_ops) ==
    [c \in Clients |->
        CASE c = shape -> shape_ops
          [] c = present -> present_ops
          [] OTHER -> {"submit"}]
SteadyProgram == Programs({"transfer"}, {"present", "attach"})
AsyncProgram == Programs({}, {"present", "cursor"})
TransferProgram == Programs({"transfer"}, {})
OverrunProgram == Programs({"transfer", "cursor"}, {"present"})

\* QEMU raises both bits, the standard asks for the second alone.
QemuBits == {"QUEUE", "CONFIG"}
StandardBits == {"CONFIG"}

\* Buffers of the pool differ only in where they are.
PoolSymmetry == Permutations(Pool)
=============================================================================
