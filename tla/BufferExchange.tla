---------------------------- MODULE BufferExchange ----------------------------
(***************************************************************************)
(* What a virtqueue promises its callers, without descriptors or rings:    *)
(* tokens are lent to the device in the order they were posted, the device *)
(* returns each of them once, in any order, and the driver gets them back  *)
(* in the order the device returned them.  A post is refused exactly when  *)
(* the descriptors of the tokens that are out leave too little room.       *)
(***************************************************************************)
EXTENDS Naturals, Sequences, FiniteSetsExt

CONSTANTS Capacity,     \* descriptors in the table
          Bufs, Req,    \* as in Virtqueue
          NULL

VARIABLES lent,         \* tokens posted and not given back to the driver
          avail,        \* posted, not yet seen by the device, in order
          atDevice,     \* taken by the device
          used,         \* returned, not yet collected, in order
          ret, phase

vars == <<lent, avail, atDevice, used, ret, phase>>

Cost(b) ==
    LET segs == Req[b].out + Req[b].in
    IN  IF Req[b].indirect /\ segs > 1 THEN 1 ELSE segs
HasRoom(b) == MapThenSumSet(Cost, lent) + Cost(b) <= Capacity

Init ==
    /\ lent = {} /\ avail = <<>> /\ atDevice = {} /\ used = <<>>
    /\ ret = NULL /\ phase = "running"

\* A reset that falls inside the operation leaves the token lent all the same.
Post(b) ==
    /\ b \notin lent
    /\ HasRoom(b)
    /\ lent' = lent \cup {b}
    /\ avail' = IF phase = "running" THEN Append(avail, b) ELSE avail
    /\ ret' = "OK"
    /\ UNCHANGED <<atDevice, used, phase>>

Refuse(b) ==
    /\ b \notin lent
    /\ ~HasRoom(b)
    /\ ret' = "ENOSPC"
    /\ UNCHANGED <<lent, avail, atDevice, used, phase>>

Take ==
    /\ avail # <<>>
    /\ atDevice' = atDevice \cup {Head(avail)}
    /\ avail' = Tail(avail)
    /\ UNCHANGED <<lent, used, ret, phase>>

Return(b) ==
    /\ b \in atDevice
    /\ atDevice' = atDevice \ {b}
    /\ used' = Append(used, b)
    /\ UNCHANGED <<lent, avail, ret, phase>>

Collect ==
    /\ used # <<>>
    /\ ret' = Head(used)
    /\ used' = Tail(used)
    /\ lent' = lent \ {Head(used)}
    /\ UNCHANGED <<avail, atDevice, phase>>

CollectNone ==
    /\ used = <<>>
    /\ phase = "running"
    /\ ret' = NULL
    /\ UNCHANGED <<lent, avail, atDevice, used, phase>>

Reset ==
    /\ phase = "running"
    /\ phase' = "stopped"
    /\ avail' = <<>> /\ atDevice' = {} /\ used' = <<>>
    /\ UNCHANGED <<lent, ret>>

\* After a reset the driver may take its tokens back one by one...
Reclaim(b) ==
    /\ phase = "stopped"
    /\ b \in lent
    /\ lent' = lent \ {b}
    /\ ret' = b
    /\ UNCHANGED <<avail, atDevice, used, phase>>

ReclaimNone ==
    /\ phase = "stopped"
    /\ lent = {}
    /\ ret' = NULL
    /\ UNCHANGED <<lent, avail, atDevice, used, phase>>

\* ... or forget them and start again.
Forget ==
    /\ phase = "stopped"
    /\ phase' = "running"
    /\ lent' = {}
    /\ UNCHANGED <<avail, atDevice, used, ret>>

Next ==
    \/ \E b \in Bufs : Post(b) \/ Refuse(b) \/ Return(b) \/ Reclaim(b)
    \/ Take \/ Collect \/ CollectNone
    \/ Reset \/ ReclaimNone \/ Forget

Spec == Init /\ [][Next]_vars
=============================================================================
