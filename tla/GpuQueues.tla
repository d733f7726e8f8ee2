------------------------------ MODULE GpuQueues ------------------------------
(***************************************************************************)
(* How the display driver uses its two virtqueues: the pool of command     *)
(* buffers both share (VioGpuBuf), the threads that fill, post and         *)
(* sometimes wait for a command (CtrlQueue, CrsrQueue), the interrupt, the *)
(* DPC that collects replies and wakes the waiters (VioGpuAdapter), and    *)
(* the worker thread that answers a change of the display configuration.   *)
(*                                                                         *)
(* A queue is seen here as BufferExchange describes it: buffers available, *)
(* at the device, used.  An action is one critical section or one step     *)
(* between two points where other processors can interfere: a thread       *)
(* allocates, posts under the queue's lock, kicks after releasing it; the  *)
(* DPC dequeues and sets the event, and only then reads the command again. *)
(*                                                                         *)
(* A NULL buffer is written to as soon as it is allocated, which stops the *)
(* system: crashed.  Faulty variants of definitions, used by no action,    *)
(* precede the definition they vary.                                       *)
(***************************************************************************)
EXTENDS Naturals, Sequences, FiniteSetsExt, SequencesExt

CONSTANTS
    CtrlNum, CursorNum, \* ring sizes
    Pool,         \* the buffers of VioGpuBuf::Init: as many as both rings have entries
    BigBufs,      \* addresses for commands above MAX_INLINE_CMD_SIZE
    Clients,      \* threads that call the driver
    Program,      \* Program[c]: the operations client c performs
    Cpus,         \* processors that may run the DPC
    ConfigBits,   \* ISR bits the device raises for a configuration change
    InOrder,      \* does the device complete commands in order?
    KeepsUp,      \* is the device fast enough that no ring ever fills?
    MaxChanges,   \* bound on configuration changes
    NULL

ASSUME RingAssumption ==
    /\ CtrlNum \in Nat \ {0} /\ CursorNum \in Nat \ {0}
    /\ IsFiniteSet(Pool) /\ Cardinality(Pool) = CtrlNum + CursorNum
ASSUME NameAssumption ==
    /\ Pool \cap BigBufs = {}
    /\ NULL \notin Pool \cup BigBufs \cup Clients \cup {"worker"}
    /\ "worker" \notin Clients
ASSUME ProgramAssumption ==
    Program \in [Clients -> SUBSET {"present", "attach", "transfer", "cursor", "submit"}]
ASSUME DeviceAssumption ==
    /\ ConfigBits \subseteq {"QUEUE", "CONFIG"}
    /\ InOrder \in BOOLEAN /\ KeepsUp \in BOOLEAN
    /\ MaxChanges \in Nat
\* ReleaseCmdBuffer takes the head off and may put it back: two critical
\* sections, one action here, which no second DPC may split.
ASSUME CpuAssumption == BigBufs = {} \/ Cardinality(Cpus) = 1

VARIABLES
    free,         \* VioGpuBuf.m_FreeBufs, in order
    list3d,       \* CtrlQueue.m_3dCmdBuf, in order
    vbuf,         \* what each buffer holds; stale once it is released
    queue,        \* the two virtqueues
    kicked,       \* queues the device was notified of
    thr,          \* the threads
    signalled,    \* threads whose KEVENT is set
    isr,          \* the device's interrupt status register
    pending,      \* m_PendingWorks
    dpc_queued,   \* is the DPC object in a DPC queue?
    dpc,          \* the DPC on each processor
    config_event, \* m_ConfigUpdateEvent
    events_read,  \* the DISPLAY bit of the device's events_read
    display,      \* the device's display configuration (a version number)
    known,        \* the configuration the driver last put into its mode list
    crashed

qvars == <<queue, kicked>>
drivervars == <<free, list3d, thr>>
dpcvars == <<pending, dpc_queued, dpc>>
configvars == <<config_event, events_read, display, known>>
vars == <<free, list3d, vbuf, queue, kicked, thr, signalled, isr, pending,
          dpc_queued, dpc, configvars, crashed>>

-----------------------------------------------------------------------------
Threads == Clients \cup {"worker"}
Bufs == Pool \cup BigBufs
Queues == {"ctrl", "crsr"}
Ops == {"present", "attach", "transfer", "display", "cursor", "submit"}
Waits(op) == op \in {"transfer", "display"}

Num(q) == IF q = "ctrl" THEN CtrlNum ELSE CursorNum
QueueOf(op) == IF op = "cursor" THEN "crsr" ELSE "ctrl"

\* Scatter-gather elements: the command, the reply, and one page of data.
Cost(op) == IF op = "cursor" THEN 1 ELSE IF op = "attach" THEN 3 ELSE 2

Posted(q) == Range(queue[q].avail) \cup Range(queue[q].held) \cup Range(queue[q].used)
BufCost(b) == Cost(vbuf[b].op)
Load(q) == MapThenSumSet(BufCost, Posted(q))

\* Descriptors that threads between allocation and QueueBuffer will need.
ThreadCost(t) == Cost(thr[t].op)
Reserved(q) ==
    MapThenSumSet(ThreadCost,
        {t \in Threads : thr[t].pc = "filled" /\ QueueOf(thr[t].op) = q})
HasRoomOffByOne(q, op) == Load(q) + Cost(op) <= Num(q) + 1
HasRoom(q, op) == Load(q) + Cost(op) <= Num(q)

\* A buffer is zeroed before it is filled.
FreshWithoutEvent(op, t) == [op |-> op, event |-> NULL, reply |-> 0]
Fresh(op, t) == [op |-> op, event |-> IF Waits(op) THEN t ELSE NULL, reply |-> 0]

TypeOK ==
    /\ Len(free) <= Cardinality(Pool) /\ Range(free) \subseteq Pool
    /\ Range(list3d) \subseteq BigBufs
    /\ vbuf \in [Bufs -> [op : Ops \cup {"none"}, event : Threads \cup {NULL},
                          reply : 0..MaxChanges]]
    /\ \A q \in Queues :
          /\ Range(queue[q].avail) \cup Range(queue[q].held) \cup Range(queue[q].used)
               \subseteq Bufs
          /\ Load(q) <= Num(q)
    /\ kicked \subseteq Queues
    /\ thr \in [Threads -> [pc : {"idle", "ask", "filled", "kick", "wait", "clear"},
                            op : Ops \cup {"none"}, buf : Bufs \cup {NULL}]]
    /\ signalled \subseteq Threads
    /\ isr \subseteq {"QUEUE", "CONFIG"}
    /\ pending \subseteq {"DISPLAY", "CURSOR", "CHANGE"}
    /\ dpc_queued \in BOOLEAN
    /\ dpc \in [Cpus -> [pc : {"off", "scan", "settle"},
                         reason : SUBSET {"DISPLAY", "CURSOR", "CHANGE"},
                         buf : Bufs \cup {NULL}]]
    /\ config_event \in BOOLEAN /\ events_read \in BOOLEAN
    /\ display \in 0..MaxChanges /\ known \in 0..MaxChanges
    /\ crashed \in BOOLEAN

Init ==
    /\ free = SetToSeq(Pool)
    /\ list3d = <<>>
    /\ vbuf = [b \in Bufs |-> [op |-> "none", event |-> NULL, reply |-> 0]]
    /\ queue = [q \in Queues |-> [avail |-> <<>>, held |-> <<>>, used |-> <<>>]]
    /\ kicked = {}
    /\ thr = [t \in Threads |-> [pc |-> "idle", op |-> "none", buf |-> NULL]]
    /\ signalled = {}
    /\ isr = {} /\ pending = {} /\ dpc_queued = FALSE
    /\ dpc = [c \in Cpus |-> [pc |-> "off", reason |-> {}, buf |-> NULL]]
    /\ config_event = FALSE /\ events_read = FALSE
    /\ display = 0 /\ known = 0
    /\ crashed = FALSE

-----------------------------------------------------------------------------
(* Threads                                                                 *)

FreeBuf(b) == free' = Append(free, b)

\* May t begin op now?  The worker only asks for the display information.
MayBegin(t, op) ==
    /\ IF t = "worker" THEN thr[t].pc = "ask" /\ op = "display"
                       ELSE thr[t].pc = "idle" /\ op \in Program[t]
    /\ KeepsUp => Load(QueueOf(op)) + Reserved(QueueOf(op)) + Cost(op)
                    <= Num(QueueOf(op))

\* The event of a waiting operation is on the thread's stack, and not set yet.
Begin(t, op, b) ==
    /\ thr' = [thr EXCEPT ![t] = [pc |-> "filled", op |-> op, buf |-> b]]
    /\ UNCHANGED <<qvars, signalled, isr, dpcvars, configvars, crashed>>

GetBufStaleEvent(t, op) ==       \* the buffer is not zeroed
    /\ op # "submit"
    /\ MayBegin(t, op)
    /\ free # <<>>
    /\ free' = Tail(free)
    /\ vbuf' = [vbuf EXCEPT ![Head(free)].op = op,
                             ![Head(free)].event = IF Waits(op) THEN t ELSE @]
    /\ Begin(t, op, Head(free))
    /\ UNCHANGED list3d

\* AllocCmd, AllocCmdResp, AllocCursor, and the filling in of the command.
GetBuf(t, op) ==
    /\ op # "submit"
    /\ MayBegin(t, op)
    /\ free # <<>>
    /\ free' = Tail(free)
    /\ vbuf' = [vbuf EXCEPT ![Head(free)] = Fresh(op, t)]
    /\ Begin(t, op, Head(free))
    /\ UNCHANGED list3d

\* The pool is empty: the callers write through the null pointer.
GetBufNull(t, op) ==
    /\ op # "submit"
    /\ MayBegin(t, op)
    /\ free = <<>>
    /\ crashed' = TRUE
    /\ UNCHANGED <<drivervars, vbuf, qvars, signalled, isr, dpcvars, configvars>>

CreateCmdBufferAtHead(t, b) ==
    /\ MayBegin(t, "submit")
    /\ vbuf[b].op = "none"
    /\ vbuf' = [vbuf EXCEPT ![b] = Fresh("submit", t)]
    /\ list3d' = <<b>> \o list3d
    /\ Begin(t, "submit", b)
    /\ UNCHANGED free

\* A command too long for the pool's buffers gets memory of its own.
CreateCmdBuffer(t, b) ==
    /\ MayBegin(t, "submit")
    /\ vbuf[b].op = "none"
    /\ vbuf' = [vbuf EXCEPT ![b] = Fresh("submit", t)]
    /\ list3d' = Append(list3d, b)
    /\ Begin(t, "submit", b)
    /\ UNCHANGED free

QueueBufferReleases(t) ==        \* the buffer is released once it is queued
    LET q == QueueOf(thr[t].op) IN
    /\ thr[t].pc = "filled"
    /\ queue' = IF HasRoom(q, thr[t].op)
                THEN [queue EXCEPT ![q].avail = Append(@, thr[t].buf)]
                ELSE queue
    /\ FreeBuf(thr[t].buf)
    /\ thr' = [thr EXCEPT ![t].pc = "kick"]
    /\ UNCHANGED <<list3d, vbuf, kicked, signalled, isr, dpcvars, configvars, crashed>>

\* AddBuf under the queue's lock.  Nothing looks at its result: without room
\* the buffer is dropped.
QueueBuffer(t) ==
    LET op == thr[t].op
        q == QueueOf(op)
    IN  /\ thr[t].pc = "filled"
        /\ queue' = IF HasRoom(q, op)
                    THEN [queue EXCEPT ![q].avail = Append(@, thr[t].buf)]
                    ELSE queue
        /\ thr' = [thr EXCEPT ![t].pc = "kick"]
        /\ UNCHANGED <<free, list3d, vbuf, kicked, signalled, isr, dpcvars,
                       configvars, crashed>>

QueueBufferDropsTooBig(t) ==
    /\ thr[t].pc = "filled"
    /\ thr[t].op = "attach"
    /\ thr' = [thr EXCEPT ![t] = [pc |-> "idle", op |-> "none", buf |-> NULL]]
    /\ UNCHANGED <<free, list3d, vbuf, qvars, signalled, isr, dpcvars, configvars, crashed>>

\* A backing store of more pages of entries than the 32 elements can name.
QueueBufferTooBig(t) ==
    /\ thr[t].pc = "filled"
    /\ thr[t].op = "attach"
    /\ FreeBuf(thr[t].buf)
    /\ thr' = [thr EXCEPT ![t] = [pc |-> "idle", op |-> "none", buf |-> NULL]]
    /\ UNCHANGED <<list3d, vbuf, qvars, signalled, isr, dpcvars, configvars, crashed>>

\* Kick, after the lock is released; then return, or wait for the event.
Kick(t) ==
    /\ thr[t].pc = "kick"
    /\ kicked' = kicked \cup {QueueOf(thr[t].op)}
    /\ thr' = [thr EXCEPT ![t] = IF Waits(thr[t].op)
                                 THEN [pc |-> "wait", op |-> thr[t].op,
                                       buf |-> IF thr[t].op = "display" THEN thr[t].buf ELSE NULL]
                                 ELSE [pc |-> "idle", op |-> "none", buf |-> NULL]]
    /\ UNCHANGED <<free, list3d, vbuf, queue, signalled, isr, dpcvars, configvars,
                   crashed>>

\* CreateCursor goes on once its transfer is complete, and its event is no more.
TransferDone(t) ==
    /\ thr[t].pc = "wait" /\ thr[t].op = "transfer"
    /\ t \in signalled
    /\ signalled' = signalled \ {t}
    /\ thr' = [thr EXCEPT ![t] = [pc |-> "idle", op |-> "none", buf |-> NULL]]
    /\ UNCHANGED <<free, list3d, vbuf, qvars, isr, dpcvars, configvars, crashed>>

-----------------------------------------------------------------------------
(* The worker thread                                                       *)

\* m_ConfigUpdateEvent resets itself as it wakes the thread.
WorkerWake ==
    /\ thr["worker"].pc = "idle"
    /\ config_event
    /\ config_event' = FALSE
    /\ thr' = [thr EXCEPT !["worker"].pc = IF events_read THEN "ask" ELSE "idle"]
    /\ UNCHANGED <<free, list3d, vbuf, qvars, signalled, isr, dpcvars, events_read,
                   display, known, crashed>>

\* The reply is read out of the buffer, which the worker itself releases.
GetDisplayInfo ==
    /\ thr["worker"].pc = "wait"
    /\ "worker" \in signalled
    /\ known' = vbuf[thr["worker"].buf].reply
    /\ FreeBuf(thr["worker"].buf)
    /\ signalled' = signalled \ {"worker"}
    /\ thr' = [thr EXCEPT !["worker"] = [pc |-> "clear", op |-> "none", buf |-> NULL]]
    /\ UNCHANGED <<list3d, vbuf, qvars, isr, dpcvars, config_event, events_read,
                   display, crashed>>

\* events_clear is written, and the monitor reported gone and back.
ClearEvents ==
    /\ thr["worker"].pc = "clear"
    /\ events_read' = FALSE
    /\ thr' = [thr EXCEPT !["worker"].pc = "idle"]
    /\ UNCHANGED <<free, list3d, vbuf, qvars, signalled, isr, dpcvars, config_event,
                   display, known, crashed>>

-----------------------------------------------------------------------------
(* Interrupt and DPC                                                       *)

RaiseDpc(reasons) ==
    /\ pending' = pending \cup reasons
    /\ dpc_queued' = TRUE
    /\ isr' = {}                       \* reading the register clears it
    /\ UNCHANGED <<drivervars, vbuf, qvars, signalled, dpc, configvars, crashed>>

InterruptQueueWithoutCursor == isr = {"QUEUE"} /\ RaiseDpc({"DISPLAY"})
InterruptQueue == isr = {"QUEUE"} /\ RaiseDpc({"DISPLAY", "CURSOR"})

InterruptChangeDropped == isr = {"QUEUE", "CONFIG"} /\ RaiseDpc({})
InterruptChange == isr = {"QUEUE", "CONFIG"} /\ RaiseDpc({"CHANGE"})

InterruptUnknown ==
    /\ isr = {"CONFIG"}
    /\ isr' = {}
    /\ UNCHANGED <<drivervars, vbuf, qvars, signalled, dpcvars, configvars, crashed>>

DpcStart(c) ==
    /\ dpc_queued
    /\ dpc[c].pc = "off"
    /\ dpc_queued' = FALSE
    /\ dpc' = [dpc EXCEPT ![c].pc = "scan"]
    /\ UNCHANGED <<drivervars, vbuf, qvars, signalled, isr, pending, configvars, crashed>>

\* The loop condition: what is pending is fetched and cleared at once.
DpcExchange(c) ==
    /\ dpc[c].pc = "scan" /\ dpc[c].reason = {}
    /\ dpc' = [dpc EXCEPT ![c].pc = IF pending = {} THEN "off" ELSE "scan",
                          ![c].reason = pending]
    /\ pending' = {}
    /\ UNCHANGED <<drivervars, vbuf, qvars, signalled, isr, dpc_queued, configvars, crashed>>

\* A completed command is dequeued under the lock, and its event is set.
DpcCollect(c) ==
    /\ dpc[c].pc = "scan" /\ "DISPLAY" \in dpc[c].reason
    /\ queue["ctrl"].used # <<>>
    /\ LET b == Head(queue["ctrl"].used) IN
          /\ queue' = [queue EXCEPT !["ctrl"].used = Tail(@)]
          /\ signalled' = signalled \cup ({vbuf[b].event} \ {NULL})
          /\ dpc' = [dpc EXCEPT ![c].pc = "settle", ![c].buf = b]
    /\ UNCHANGED <<drivervars, vbuf, kicked, isr, pending, dpc_queued, configvars, crashed>>

\* ReleaseCmdBuffer: only the head of the list is ever taken off it.
ReleaseCmdBuffer(b) ==
    /\ IF list3d # <<>> /\ Head(list3d) = b
       THEN /\ list3d' = Tail(list3d)
            /\ vbuf' = [vbuf EXCEPT ![b].op = "none"]
       ELSE UNCHANGED <<list3d, vbuf>>
    /\ UNCHANGED free

DpcSettleReleasesAll(c) ==
    LET b == dpc[c].buf IN
    /\ dpc[c].pc = "settle"
    /\ IF b \in BigBufs THEN ReleaseCmdBuffer(b) ELSE FreeBuf(b) /\ UNCHANGED <<list3d, vbuf>>
    /\ dpc' = [dpc EXCEPT ![c].pc = "scan", ![c].buf = NULL]
    /\ UNCHANGED <<qvars, thr, signalled, isr, pending, dpc_queued, configvars, crashed>>

\* A display information reply is its waiter's to release, all else the DPC's.
DpcSettle(c) ==
    LET b == dpc[c].buf IN
    /\ dpc[c].pc = "settle"
    /\ CASE vbuf[b].op = "display" -> UNCHANGED <<free, list3d, vbuf>>
         [] vbuf[b].op # "display" /\ b \in BigBufs -> ReleaseCmdBuffer(b)
         [] OTHER -> FreeBuf(b) /\ UNCHANGED <<list3d, vbuf>>
    /\ dpc' = [dpc EXCEPT ![c].pc = "scan", ![c].buf = NULL]
    /\ UNCHANGED <<qvars, thr, signalled, isr, pending, dpc_queued, configvars, crashed>>

\* DequeueBuffer returns NULL.
DpcCtrlEmpty(c) ==
    /\ dpc[c].pc = "scan" /\ "DISPLAY" \in dpc[c].reason
    /\ queue["ctrl"].used = <<>>
    /\ dpc' = [dpc EXCEPT ![c].reason = @ \ {"DISPLAY"}]
    /\ UNCHANGED <<drivervars, vbuf, qvars, signalled, isr, pending, dpc_queued,
                   configvars, crashed>>

\* One round of the second loop: a cursor buffer back to the pool, or NULL.
DpcCursor(c) ==
    /\ dpc[c].pc = "scan"
    /\ "CURSOR" \in dpc[c].reason /\ "DISPLAY" \notin dpc[c].reason
    /\ IF queue["crsr"].used # <<>>
       THEN /\ queue' = [queue EXCEPT !["crsr"].used = Tail(@)]
            /\ FreeBuf(Head(queue["crsr"].used))
            /\ UNCHANGED dpc
       ELSE /\ dpc' = [dpc EXCEPT ![c].reason = @ \ {"CURSOR"}]
            /\ UNCHANGED <<queue, free>>
    /\ UNCHANGED <<list3d, thr, vbuf, kicked, signalled, isr, pending, dpc_queued,
                   configvars, crashed>>

DpcChange(c) ==
    /\ dpc[c].pc = "scan" /\ dpc[c].reason = {"CHANGE"}
    /\ config_event' = TRUE
    /\ dpc' = [dpc EXCEPT ![c].reason = {}]
    /\ UNCHANGED <<drivervars, vbuf, qvars, signalled, isr, pending, dpc_queued,
                   events_read, display, known, crashed>>

-----------------------------------------------------------------------------
(* The device                                                              *)

DevTake(q) ==
    /\ q \in kicked
    /\ IF queue[q].avail # <<>>
       THEN /\ queue' = [queue EXCEPT ![q].avail = Tail(@),
                                      ![q].held = Append(@, Head(queue[q].avail))]
            /\ UNCHANGED kicked
       ELSE /\ kicked' = kicked \ {q}
            /\ UNCHANGED queue
    /\ UNCHANGED <<drivervars, vbuf, signalled, isr, dpcvars, configvars, crashed>>

DevComplete(q, i) ==
    /\ i \in DOMAIN queue[q].held
    /\ InOrder => i = 1
    /\ LET b == queue[q].held[i] IN
          /\ queue' = [queue EXCEPT ![q].held = RemoveAt(@, i),
                                    ![q].used = Append(@, b)]
          /\ vbuf' = IF vbuf[b].op = "display"
                     THEN [vbuf EXCEPT ![b].reply = display]
                     ELSE vbuf
    /\ isr' = isr \cup {"QUEUE"}
    /\ UNCHANGED <<drivervars, kicked, signalled, dpcvars, configvars, crashed>>

DevChange ==
    /\ display < MaxChanges
    /\ display' = display + 1
    /\ events_read' = TRUE
    /\ isr' = isr \cup ConfigBits
    /\ UNCHANGED <<drivervars, vbuf, qvars, signalled, dpcvars, config_event, known, crashed>>

-----------------------------------------------------------------------------
Go(t) == QueueBuffer(t) \/ QueueBufferTooBig(t) \/ Kick(t) \/ TransferDone(t)
Allocate(t) == \E op \in Ops : GetBuf(t, op) \/ GetBufNull(t, op)
Worker == WorkerWake \/ GetDisplayInfo \/ ClearEvents
Interrupt == InterruptQueue \/ InterruptChange \/ InterruptUnknown
Dpc(c) ==
    \/ DpcStart(c) \/ DpcExchange(c)
    \/ DpcCollect(c) \/ DpcSettle(c) \/ DpcCtrlEmpty(c)
    \/ DpcCursor(c) \/ DpcChange(c)
DevServe(q) == \E i \in 1..Cardinality(Bufs) : DevComplete(q, i)

Next ==
    /\ ~crashed
    /\ \/ \E t \in Threads : Allocate(t) \/ Go(t)
       \/ \E t \in Clients, b \in BigBufs : CreateCmdBuffer(t, b)
       \/ Worker
       \/ Interrupt
       \/ \E c \in Cpus : Dpc(c)
       \/ \E q \in Queues : DevTake(q) \/ DevServe(q)
       \/ DevChange

Spec == Init /\ [][Next]_vars

\* Threads that are not waiting run, interrupts and DPCs are delivered, and the
\* device works on what it was told about.  Clients need not begin anything, the
\* display need not change.
Fairness ==
    /\ \A t \in Threads : WF_vars(~crashed /\ Go(t))
    /\ WF_vars(~crashed /\ (Worker \/ Allocate("worker")))
    /\ WF_vars(~crashed /\ Interrupt)
    /\ \A c \in Cpus : WF_vars(~crashed /\ Dpc(c))
    /\ \A q \in Queues : WF_vars(~crashed /\ DevTake(q)) /\ WF_vars(~crashed /\ DevServe(q))

FairSpec == Spec /\ Fairness

\* Clients that never stop posting can keep the DPC in its first loop for ever, so
\* that the cursor queue and a change wait.  What must happen, must at the latest
\* happen when the clients pause.
ClientsPause == <>[](\A c \in Clients : thr[c].pc # "filled")
-----------------------------------------------------------------------------
(* Properties                                                              *)

\* How many times b is to be found: in the pool, with a thread, in a queue, with
\* a DPC that will release it, or with the worker once its event is set.
Places(b) ==
      Cardinality({i \in DOMAIN free : free[i] = b})
    + Cardinality({t \in Threads : thr[t].pc = "filled" /\ thr[t].buf = b})
    + Cardinality({q \in Queues : b \in Posted(q)})
    + Cardinality({c \in Cpus : dpc[c].buf = b /\ vbuf[b].op # "display"})
    + Cardinality({t \in {"worker"} \cap signalled : thr[t].buf = b})

\* No buffer of the pool is in two hands at once: what a thread fills, the
\* device reads or the DPC releases is nobody else's, and no buffer is put
\* into the pool twice.
OneOwner == \A b \in Pool : Places(b) <= 1

\* No buffer of the pool is lost either, as long as the device keeps up.
NothingLost == \A b \in Pool : Places(b) = 1

\* The ASSERT(vbuf) of AllocCmd, AllocCmdResp and AllocCursor: the pool always
\* has a buffer for a thread that asks for one.
AllocSucceeds == ~crashed

\* A thread is woken by the reply to its own command.  Its event is set while it
\* waits or is about to (after that the event, a variable of its stack, is gone),
\* and not before its command has been to the device and back.
WokenByReply ==
    \A t \in signalled :
        /\ thr[t].pc \in {"kick", "wait"}
        /\ Waits(thr[t].op)
        /\ \A b \in Posted("ctrl") : vbuf[b].event # t

\* ASSERT(released == TRUE) in ReleaseCmdBuffer: the buffer of a completed 3D
\* command is taken off the list and freed.
CompletedIsReleased ==
    [][\A b \in BigBufs :
          (\E c \in Cpus : dpc[c].buf = b /\ dpc'[c].buf # b)
             => b \notin Range(list3d')]_vars

\* A posted buffer comes back to the pool, so no ring and no pool runs dry for
\* want of an interrupt that was merged, masked or lost.
BuffersComeBack ==
    ClientsPause =>
      \A b \in Pool : (b \in Posted("ctrl") \cup Posted("crsr")) ~> (b \in Range(free))

\* "wait for transfer to complete": the wait of CreateCursor, which has no
\* timeout, ends.
TransferWaitEnds ==
    ClientsPause => \A t \in Clients : (thr[t].pc = "wait") ~> (thr[t].pc # "wait")

\* VIRTIO_PCI_ISR_CONFIG indicates a device configuration change: when the
\* device raises it, the driver learns the new configuration.
ChangeIsNoticed ==
    ClientsPause => \A n \in 1..MaxChanges : (display = n) ~> (known >= n)
=============================================================================
