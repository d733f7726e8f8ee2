----------------------------- MODULE GpuResources -----------------------------
(***************************************************************************)
(* The two resources the display driver keeps on the host: the frame       *)
(* buffer (m_pFrameBuf) and the pointer's image (m_pCursorBuf).  Each is   *)
(* named by an id from a bitmap (VioGpuIdr), created, backed by memory of  *)
(* the driver, filled, shown and destroyed by commands.                    *)
(*                                                                         *)
(* The driver does not wait for these commands (with one exception): it    *)
(* posts them and goes on, frees memory and gives ids back, while the host *)
(* executes the control queue later, in order, and the cursor queue        *)
(* independently of it.  A thread's step is the posting of one command or  *)
(* one use of the bitmap.  The operating system never runs two mode        *)
(* changes or presents at once, nor two pointer operations, but one of     *)
(* each kind: one thread for each.                                         *)
(*                                                                         *)
(* Buffers, interrupts and refused posts are the business of GpuQueues:    *)
(* here a thread posts when there is room.  Faulty variants of             *)
(* definitions, used by no action, precede the definition they vary.       *)
(***************************************************************************)
EXTENDS Naturals, Sequences

CONSTANTS
    MaxId,        \* last bit of the bitmap, which has room for both objects
    FrameMems,    \* memory that m_FrameSegment may be given
    CursorMem,    \* the memory of m_CursorSegment, allocated once
    MaxShapes,    \* bound on the pointer shapes that are set
    CtrlBound, CrsrBound,   \* bounds on the lengths of the queues
    CursorKeepsUp,\* is the cursor queue empty when a new shape is set?
    NULL

ASSUME IdAssumption == MaxId \in Nat /\ MaxId >= 2 /\ NULL \notin 0..(MaxId + 1)
ASSUME MemAssumption == NULL \notin FrameMems /\ CursorMem \notin FrameMems \cup {NULL}
ASSUME BoundAssumption == MaxShapes \in Nat /\ CtrlBound \in Nat /\ CrsrBound \in Nat
ASSUME ModeAssumption == CursorKeepsUp \in BOOLEAN

VARIABLES
    used,         \* the bits that are set in m_IdBitMap
    frame,        \* the id in m_pFrameBuf, NULL if there is no such object
    cursor,       \* likewise for m_pCursorBuf
    segment,      \* the memory m_FrameSegment owns
    shape,        \* which shape was last set (a number), 0 before the first
    pixels,       \* which shape the cursor's memory holds
    failed,       \* has an allocation of memory failed? (for the properties alone)
    thr,          \* the threads: position, resid, and the id kept in the new object
    ctrl, crsr,   \* commands the host has not executed yet
    host,         \* the host's resources
    scanout       \* the resource on the screen, 0 if none

ids == <<used, frame, cursor>>
memory == <<segment, shape, pixels, failed>>
device == <<host, scanout>>
vars == <<used, frame, cursor, segment, shape, pixels, failed, thr, ctrl, crsr,
          host, scanout>>

-----------------------------------------------------------------------------
StartIndex == 1
NoId == MaxId + 1                       \* 0xFFFFFFFF: the bitmap is full
Ids == 0..NoId
Threads == {"frame", "cursor"}
Positions == {"idle", "detach", "unref", "putid", "segment", "getid", "create",
              "attach", "scanout", "transfer", "flush", "wait", "update"}
Mems == FrameMems \cup {CursorMem}
CtrlCommand ==
    [cmd : {"create", "attach", "scanout", "transfer", "flush", "detach", "unref"},
     id : Ids, mem : Mems \cup {NULL}, event : BOOLEAN]
CrsrCommand == [cmd : {"update", "move"}, id : Ids, shape : 0..MaxShapes]
Resource == [mem : Mems \cup {NULL}, pix : 0..MaxShapes]
Idle == [pc |-> "idle", id |-> NULL, obj |-> NULL]

TypeOK ==
    /\ used \subseteq Ids
    /\ frame \in Ids \cup {NULL} /\ cursor \in Ids \cup {NULL}
    /\ segment \in FrameMems \cup {NULL}
    /\ shape \in 0..MaxShapes /\ pixels \in 0..MaxShapes /\ failed \in BOOLEAN
    /\ thr \in [Threads -> [pc : Positions, id : Ids \cup {NULL}, obj : Ids \cup {NULL}]]
    /\ ctrl \in Seq(CtrlCommand) /\ crsr \in Seq(CrsrCommand)
    /\ DOMAIN host \subseteq Ids /\ host \in [DOMAIN host -> Resource]
    /\ scanout \in Ids

InitUnreserved ==                \* the bits below the first id are not reserved
    /\ used = {}
    /\ frame = NULL /\ cursor = NULL
    /\ segment = NULL /\ shape = 0 /\ pixels = 0 /\ failed = FALSE
    /\ thr = [t \in Threads |-> Idle]
    /\ ctrl = <<>> /\ crsr = <<>>
    /\ host = [id \in {} |-> NULL] /\ scanout = 0

Init ==
    /\ used = 0..(StartIndex - 1)
    /\ frame = NULL /\ cursor = NULL
    /\ segment = NULL /\ shape = 0 /\ pixels = 0 /\ failed = FALSE
    /\ thr = [t \in Threads |-> Idle]
    /\ ctrl = <<>> /\ crsr = <<>>
    /\ host = [id \in {} |-> NULL] /\ scanout = 0

-----------------------------------------------------------------------------
(* Posting                                                                 *)

Send(cmd, id, mem, event) ==
    /\ Len(ctrl) < CtrlBound
    /\ ctrl' = Append(ctrl, [cmd |-> cmd, id |-> id, mem |-> mem, event |-> event])

\* Thread t posts a command that names its resid and goes on to the next step.
Post(t, cmd, next) ==
    /\ thr[t].pc = cmd
    /\ Send(cmd, thr[t].id, NULL, FALSE)
    /\ thr' = [thr EXCEPT ![t].pc = next]
    /\ UNCHANGED <<ids, memory, crsr, device>>

-----------------------------------------------------------------------------
(* The id bitmap                                                           *)

Clear == (0..MaxId) \ used
FirstClear == CHOOSE i \in Clear : \A j \in Clear : i <= j

GetIdUnmarked(t) ==              \* the bit is found but not set
    /\ thr[t].pc = "getid"
    /\ thr' = [thr EXCEPT ![t].pc = "create", ![t].id = IF Clear = {} THEN NoId ELSE FirstClear]
    /\ UNCHANGED <<ids, memory, ctrl, crsr, device>>

GetId(t) ==
    LET id == IF Clear = {} THEN NoId ELSE FirstClear IN
    /\ thr[t].pc = "getid"
    /\ used' = IF Clear = {} THEN used ELSE used \cup {id}
    /\ thr' = [thr EXCEPT ![t].pc = "create", ![t].id = id]
    /\ UNCHANGED <<frame, cursor, memory, ctrl, crsr, device>>

\* The last step of DestroyFrameBufferObj and DestroyCursor.
PutId(t) ==
    /\ thr[t].pc = "putid"
    /\ used' = used \ {thr[t].id}
    /\ frame' = IF t = "frame" THEN NULL ELSE frame
    /\ cursor' = IF t = "cursor" THEN NULL ELSE cursor
    /\ thr' = [thr EXCEPT ![t].pc = IF t = "frame" THEN "segment" ELSE "getid",
                          ![t].id = NULL]
    /\ UNCHANGED <<memory, ctrl, crsr, device>>

-----------------------------------------------------------------------------
(* Destruction: DETACH_BACKING, UNREF, and the id goes back                *)

InvalBackingGivesBack(t) ==      \* the id is given back before UNREF is posted
    /\ thr[t].pc = "detach"
    /\ Send("detach", thr[t].id, NULL, FALSE)
    /\ used' = used \ {thr[t].id}
    /\ thr' = [thr EXCEPT ![t].pc = "unref"]
    /\ UNCHANGED <<frame, cursor, memory, crsr, device>>

InvalBacking(t) == Post(t, "detach", "unref")
UnrefResource(t) == Post(t, "unref", "putid")

StartReplacingLeaks(t, old, next) ==     \* the old object is forgotten
    thr' = [thr EXCEPT ![t] = [pc |-> next, id |-> NULL, obj |-> NULL]]

\* Where a thread begins that replaces the object with this id.
StartReplacing(t, old, next) ==
    thr' = [thr EXCEPT ![t] = [pc |-> IF old = NULL THEN next ELSE "detach",
                               id |-> old, obj |-> NULL]]

-----------------------------------------------------------------------------
(* The frame buffer                                                        *)

SetCurrentModeWithoutDestroy ==  \* the old object is not destroyed first
    /\ thr["frame"].pc = "idle"
    /\ thr' = [thr EXCEPT !["frame"].pc = "segment"]
    /\ UNCHANGED <<ids, memory, ctrl, crsr, device>>

SetCurrentMode ==
    /\ thr["frame"].pc = "idle"
    /\ StartReplacing("frame", frame, "segment")
    /\ UNCHANGED <<ids, memory, ctrl, crsr, device>>

\* m_FrameSegment.Close and Init: the old memory is freed, other memory, or the
\* same again, is allocated.
ReplaceSegment ==
    /\ thr["frame"].pc = "segment"
    /\ \/ /\ segment' \in FrameMems
          /\ thr' = [thr EXCEPT !["frame"].pc = "getid"]
          /\ UNCHANGED failed
       \/ /\ segment' = NULL
          /\ failed' = TRUE
          /\ thr' = [thr EXCEPT !["frame"] = Idle]
    /\ UNCHANGED <<ids, shape, pixels, ctrl, crsr, device>>

CreateResource(t) == Post(t, "create", "attach")

\* GpuObjectAttach.  Its failure is ignored: the object keeps the id 0 it was
\* constructed with.
AttachFrame ==
    /\ thr["frame"].pc = "attach"
    /\ \/ /\ Send("attach", thr["frame"].id, segment, FALSE)
          /\ thr' = [thr EXCEPT !["frame"].pc = "scanout", !["frame"].obj = thr["frame"].id]
          /\ UNCHANGED failed
       \/ /\ failed' = TRUE
          /\ thr' = [thr EXCEPT !["frame"].pc = "scanout", !["frame"].obj = 0]
          /\ UNCHANGED ctrl
    /\ UNCHANGED <<ids, segment, shape, pixels, crsr, device>>

SetScanout == Post("frame", "scanout", "transfer")

\* ExecutePresentDisplayOnly, which takes for granted that there is a frame buffer.
Present ==
    /\ thr["frame"].pc = "idle"
    /\ frame # NULL
    /\ thr' = [thr EXCEPT !["frame"] = [pc |-> "transfer", id |-> frame, obj |-> frame]]
    /\ UNCHANGED <<ids, memory, ctrl, crsr, device>>

TransferFrame == Post("frame", "transfer", "flush")

\* ResFlush, after which a mode change sets m_pFrameBuf.
ResFlush ==
    /\ thr["frame"].pc = "flush"
    /\ Send("flush", thr["frame"].id, NULL, FALSE)
    /\ frame' = thr["frame"].obj
    /\ thr' = [thr EXCEPT !["frame"] = Idle]
    /\ UNCHANGED <<used, cursor, memory, crsr, device>>

-----------------------------------------------------------------------------
(* The pointer                                                             *)

SetPointerShape ==
    /\ thr["cursor"].pc = "idle"
    /\ shape < MaxShapes
    /\ CursorKeepsUp => crsr = <<>>
    /\ shape' = shape + 1
    /\ StartReplacing("cursor", cursor, "getid")
    /\ UNCHANGED <<ids, segment, pixels, failed, ctrl, crsr, device>>

AttachCursorForgets ==           \* m_pCursorBuf is not set
    /\ thr["cursor"].pc = "attach"
    /\ Send("attach", thr["cursor"].id, CursorMem, FALSE)
    /\ thr' = [thr EXCEPT !["cursor"].pc = "transfer"]
    /\ UNCHANGED <<ids, memory, crsr, device>>

\* GpuObjectAttach; m_pCursorBuf is set.  Shapes of unknown formats are given up
\* here, with the object in place.  If attaching fails the id is forgotten.
AttachCursor ==
    /\ thr["cursor"].pc = "attach"
    /\ \/ /\ Send("attach", thr["cursor"].id, CursorMem, FALSE)
          /\ cursor' = thr["cursor"].id
          /\ \/ thr' = [thr EXCEPT !["cursor"].pc = "transfer"]
             \/ thr' = [thr EXCEPT !["cursor"] = Idle]
          /\ UNCHANGED failed
       \/ /\ failed' = TRUE
          /\ thr' = [thr EXCEPT !["cursor"] = Idle]
          /\ UNCHANGED <<ctrl, cursor>>
    /\ UNCHANGED <<used, frame, segment, shape, pixels, crsr, device>>

TransferCursorNoWait ==
    /\ thr["cursor"].pc = "transfer"
    /\ pixels' = shape
    /\ Send("transfer", thr["cursor"].id, NULL, TRUE)
    /\ thr' = [thr EXCEPT !["cursor"].pc = "update"]
    /\ UNCHANGED <<ids, segment, shape, failed, crsr, device>>

\* The shape is drawn into the cursor's memory, and transferred from there.
TransferCursor ==
    /\ thr["cursor"].pc = "transfer"
    /\ pixels' = shape
    /\ Send("transfer", thr["cursor"].id, NULL, TRUE)
    /\ thr' = [thr EXCEPT !["cursor"].pc = "wait"]
    /\ UNCHANGED <<ids, segment, shape, failed, crsr, device>>

\* KeWaitForSingleObject returns once the transfer is done.
TransferWait ==
    /\ thr["cursor"].pc = "wait"
    /\ \A i \in DOMAIN ctrl : ~ctrl[i].event
    /\ thr' = [thr EXCEPT !["cursor"].pc = "update"]
    /\ UNCHANGED <<ids, memory, ctrl, crsr, device>>

UpdateCursor ==
    /\ thr["cursor"].pc = "update"
    /\ Len(crsr) < CrsrBound
    /\ crsr' = Append(crsr, [cmd |-> "update", id |-> cursor, shape |-> shape])
    /\ thr' = [thr EXCEPT !["cursor"] = Idle]
    /\ UNCHANGED <<ids, memory, ctrl, device>>

\* SetPointerPosition names the pointer's resource, or none if it is hidden; it
\* takes for granted that a shape was set before the pointer is shown.
MoveCursor(visible) ==
    /\ thr["cursor"].pc = "idle"
    /\ visible => cursor # NULL
    /\ Len(crsr) < CrsrBound
    /\ crsr' = Append(crsr, [cmd |-> "move", id |-> IF visible THEN cursor ELSE 0,
                             shape |-> 0])
    /\ UNCHANGED <<ids, memory, thr, ctrl, device>>

-----------------------------------------------------------------------------
(* The host                                                                *)

\* Does the host execute the command, rather than answer it with an error?
Accepts(c) ==
    CASE c.cmd = "create" -> c.id # 0 /\ c.id \notin DOMAIN host
      [] c.cmd \in {"attach", "transfer"} ->
            c.id \in DOMAIN host /\ (host[c.id].mem = NULL) = (c.cmd = "attach")
      [] OTHER -> c.id \in DOMAIN host

Execute(c) ==
    /\ host' = CASE c.cmd = "create" ->
                       [id \in DOMAIN host \cup {c.id} |->
                           IF id = c.id THEN [mem |-> NULL, pix |-> 0] ELSE host[id]]
                 [] c.cmd = "attach" -> [host EXCEPT ![c.id].mem = c.mem]
                 [] c.cmd = "detach" -> [host EXCEPT ![c.id].mem = NULL]
                 [] c.cmd = "transfer" ->
                       [host EXCEPT ![c.id].pix = IF host[c.id].mem = CursorMem
                                                  THEN pixels ELSE 0]
                 [] c.cmd = "unref" -> [id \in DOMAIN host \ {c.id} |-> host[id]]
                 [] OTHER -> host
    /\ scanout' = CASE c.cmd = "scanout" -> c.id
                    [] c.cmd = "unref" /\ scanout = c.id -> 0
                    [] OTHER -> scanout

HostCtrl ==
    /\ ctrl # <<>>
    /\ ctrl' = Tail(ctrl)
    /\ IF Accepts(Head(ctrl)) THEN Execute(Head(ctrl)) ELSE UNCHANGED device
    /\ UNCHANGED <<ids, memory, thr, crsr>>

HostCrsr ==
    /\ crsr # <<>>
    /\ crsr' = Tail(crsr)
    /\ UNCHANGED <<ids, memory, thr, ctrl, device>>

-----------------------------------------------------------------------------
Destroy(t) == InvalBacking(t) \/ UnrefResource(t) \/ PutId(t)
Create(t) == GetId(t) \/ CreateResource(t)
Frame == SetCurrentMode \/ ReplaceSegment \/ AttachFrame \/ SetScanout
           \/ Present \/ TransferFrame \/ ResFlush
Cursor == SetPointerShape \/ AttachCursor \/ TransferCursor \/ TransferWait
           \/ UpdateCursor \/ \E visible \in BOOLEAN : MoveCursor(visible)
Host == HostCtrl \/ HostCrsr

Next == (\E t \in Threads : Destroy(t) \/ Create(t)) \/ Frame \/ Cursor \/ Host

Spec == Init /\ [][Next]_vars
-----------------------------------------------------------------------------
(* Properties                                                              *)
(*                                                                         *)
(* After a failed allocation ids leak and the id 0 comes into use; what    *)
(* is promised of ids and resources is promised until then.                *)

\* Every command of the control queue finds what it names: it creates no resource
\* that exists and uses none that is gone, though ids are given back, and taken
\* again by either thread, long before the host hears of it.
CommandsNameLiveResources == ~failed /\ ctrl # <<>> => Accepts(Head(ctrl))

HeldBy(t) == {thr[t].id, IF t = "frame" THEN frame ELSE cursor} \ {NULL}

\* VioGpuIdr: an id is marked as used exactly while an object or a thread has it,
\* and the frame buffer and the pointer never have the same one.
BitmapMatches ==
    /\ used = 0..(StartIndex - 1) \cup HeldBy("frame") \cup HeldBy("cursor")
    /\ HeldBy("frame") \cap HeldBy("cursor") = {}
IdsAccounted == ~failed => BitmapMatches

\* ASSERT(id >= m_uStartIndex) in PutId.
PutIdInRange == \A t \in Threads : thr[t].pc = "putid" => thr[t].id >= StartIndex
PutIdUnlessFailed == ~failed => PutIdInRange

\* When both threads are idle and all is executed, the host has the driver's
\* objects and no others, backed by the driver's memory, and shows the frame.
HostMatchesDriver ==
    (~failed /\ ctrl = <<>> /\ \A t \in Threads : thr[t].pc = "idle") =>
        /\ DOMAIN host = {frame, cursor} \ {NULL}
        /\ scanout = IF frame = NULL THEN 0 ELSE frame
        /\ frame # NULL => host[frame].mem = segment
        /\ cursor # NULL => host[cursor].mem = CursorMem

\* Frame memory that m_FrameSegment has freed, but the host still has, is being
\* taken away: DETACH_BACKING or UNREF is in the queue and no transfer that reads
\* the memory comes after it.  (Transfers before it do read freed memory.)  Failed
\* allocations do not change this, but for NoId, which all share once ids that
\* leaked have filled the bitmap.
FreedBackingIsWithdrawn ==
    \A id \in DOMAIN host \ {NoId} :
        host[id].mem \in FrameMems \ {segment} =>
            \E i \in DOMAIN ctrl :
                /\ ctrl[i].cmd \in {"detach", "unref"} /\ ctrl[i].id = id
                /\ \A j \in (i + 1)..Len(ctrl) :
                      ctrl[j].id = id /\ ctrl[j].cmd = "transfer" =>
                        \E k \in i..j : ctrl[k].cmd = "create" /\ ctrl[k].id = id

\* SetPointerPosition reads the id of m_pCursorBuf without a test: between two calls
\* there is a pointer, once a shape was set, of whatever format, unless an
\* allocation failed.
PointerToMove ==
    ~failed /\ shape > 0 /\ thr["cursor"].pc = "idle" => cursor # NULL

\* "wait for transfer to complete in order to prevent racing with cursor queue
\* handler": when the host executes UPDATE_CURSOR, the resource it names is there
\* and holds the shape the command was posted for.
CursorShown ==
    (~failed /\ crsr # <<>> /\ Head(crsr).cmd = "update") =>
        /\ Head(crsr).id \in DOMAIN host
        /\ host[Head(crsr).id].pix = Head(crsr).shape
=============================================================================
