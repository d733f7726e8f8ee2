----------------------------- MODULE MCVirtqueue -----------------------------
(***************************************************************************)
(* Buffers that need two, three and one descriptor, and one that goes       *)
(* indirect.                                                               *)
(***************************************************************************)
EXTENDS VirtqueueRefinement
CONSTANTS cmd, attach, cursor, table

MCReq ==
    [b \in Bufs |->
        CASE b = cmd    -> [out |-> 1, in |-> 1, indirect |-> FALSE]
          [] b = attach -> [out |-> 2, in |-> 1, indirect |-> FALSE]
          [] b = cursor -> [out |-> 1, in |-> 0, indirect |-> FALSE]
          [] b = table  -> [out |-> 1, in |-> 1, indirect |-> TRUE]]
=============================================================================
