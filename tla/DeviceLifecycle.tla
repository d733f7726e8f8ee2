--------------------------- MODULE DeviceLifecycle ---------------------------
(***************************************************************************)
(* How the adapter comes up and goes down: HWInit, the power transitions,  *)
(* the destructor, with the virtio PCI transport below them (status        *)
(* register, set-up and deletion of queues, reset), and what does not wait *)
(* for them: the device, the interrupt, the DPC and the worker.            *)
(*                                                                         *)
(* A call of the operating system is a list of steps.  Calls do not        *)
(* overlap, no present is made during one, and a removal finds the adapter *)
(* in D0, or never started.  Everything else may happen between any two    *)
(* steps.  Using a null pointer or freed memory stops the model: fault.    *)
(*                                                                         *)
(* Faulty variants of definitions, used by no action, precede the          *)
(* definition they vary.                                                   *)
(***************************************************************************)
EXTENDS Naturals, SequencesExt

CONSTANTS
    Rings,       \* places in memory for a virtqueue
    Cmds,        \* the command buffers of the pool
    MaxChanges,  \* bound on configuration changes
    MaxPowerUps, \* bound on returns to D0
    NULL

ASSUME LifecycleAssumption ==
    /\ NULL \notin Rings \cup Cmds
    /\ MaxChanges \in Nat /\ MaxPowerUps \in Nat

VARIABLES
    os,       \* the call in progress and its next step; what came of earlier ones
    drv,      \* IsVirtIOInit, IsHardwareInit, m_VioDev, m_pVirtQueue, segments, modes
    mem,      \* memory of virtqueues, commands in it, those replied to; m_FreeBufs
    dev,      \* device registers, enabled queues, configuration
    dpc,      \* interrupt routine and DPC, m_PendingWorks
    worker,   \* the worker, its event, m_ConfigUpdateEvent, m_bStopWorkThread
    fault,
    disturbed \* history: has something happened that the code does not survive?

vars == <<os, drv, mem, dev, dpc, worker, fault, disturbed>>

-----------------------------------------------------------------------------
Queues == {"ctrl", "crsr"}
NoQueues == [q \in Queues |-> NULL]

\* SetPowerState of VioGpuDod calls that of the adapter twice; ~VioGpuAdapter
\* destroys its resources and closes, which its members' destructors complete.
UpSteps == <<"zero", "map", "features", "ctrl", "crsr", "queues", "ready", "go">>
CloseSteps == <<"quiesce", "reset", "delete", "close">>
FreeStepsWakeFirst == <<"event", "stop", "join", "free">>
FreeSteps == <<"stop", "event", "join", "free">>
Steps ==
    [start  |-> <<"pci", "zero", "map", "features", "segments", "ctrl", "crsr",
                  "queues", "pool", "ready", "go", "thread", "modes", "ask", "reply">>,
     up     |-> UpSteps \o UpSteps,
     down   |-> CloseSteps \o CloseSteps,
     remove |-> <<"destroy">> \o CloseSteps \o FreeSteps]

At(step) == os.op # "none" /\ Steps[os.op][os.at] = step

TypeOK ==
    /\ os \in [op : DOMAIN Steps \cup {"none"}, at : 0..20, powered : BOOLEAN,
               cmd : Cmds \cup {NULL},
               life : {"new", "started", "failed", "gone"}, ups : 0..MaxPowerUps]
    /\ os.op # "none" => os.at \in DOMAIN Steps[os.op]
    /\ drv \in [virtio_init : BOOLEAN, hw_init : BOOLEAN, mapped : BOOLEAN,
                segments : BOOLEAN, modes : BOOLEAN, info : [Queues -> Rings \cup {NULL}],
                queue : [Queues -> Rings \cup {NULL}]]
    /\ mem \in [alloc : SUBSET Rings, pool : SUBSET Cmds,
                posted : [Rings -> SUBSET Cmds], used : [Rings -> SUBSET Cmds],
                replied : SUBSET Cmds]
    /\ dev \in [status : SUBSET {"ACKNOWLEDGE", "DRIVER", "FEATURES_OK",
                                 "DRIVER_OK", "FAILED"},
                ring : [Queues -> Rings \cup {NULL}], isr : SUBSET {"QUEUE", "CONFIG"},
                events_read : BOOLEAN, changes : 0..MaxChanges]
    /\ dpc \in [irq : BOOLEAN, queued : BOOLEAN, on : BOOLEAN,
                pending : SUBSET {"DISPLAY", "CHANGE"}, reason : SUBSET {"DISPLAY", "CHANGE"}]
    /\ worker \in [pc : {"none", "idle", "read", "ask", "wait", "clear", "gone"},
                   cmd : Cmds \cup {NULL}, event : BOOLEAN, stop : BOOLEAN]
    /\ fault \in BOOLEAN /\ disturbed \in BOOLEAN

Init ==
    /\ os = [op |-> "none", at |-> 0, powered |-> TRUE, cmd |-> NULL,
             life |-> "new", ups |-> 0]
    /\ drv = [virtio_init |-> FALSE, hw_init |-> FALSE, mapped |-> FALSE,
              segments |-> FALSE, modes |-> FALSE, info |-> NoQueues, queue |-> NoQueues]
    /\ mem = [alloc |-> {}, pool |-> {}, posted |-> [r \in Rings |-> {}],
              used |-> [r \in Rings |-> {}], replied |-> {}]
    /\ dev = [status |-> {}, ring |-> NoQueues, isr |-> {},
              events_read |-> FALSE, changes |-> 0]
    /\ dpc = [irq |-> FALSE, queued |-> FALSE, on |-> FALSE, pending |-> {}, reason |-> {}]
    /\ worker = [pc |-> "none", cmd |-> NULL, event |-> FALSE, stop |-> FALSE]
    /\ fault = FALSE /\ disturbed = FALSE

\* Nothing asynchronous is under way or about to be.
Quiet == /\ ~dpc.irq /\ ~dpc.queued /\ ~dpc.on
         /\ worker.pc \in {"none", "idle", "gone"} /\ ~worker.event

-----------------------------------------------------------------------------
(* Calls                                                                   *)

\* The adapter's SetPowerState returns success whatever VioGpuAdapterInit returned.
Return(success) ==
    os' = [os EXCEPT !.op = "none", !.at = 0, !.cmd = NULL,
                     !.powered = os.op # "down",
                     !.life = CASE os.op = "start" -> IF success THEN "started" ELSE "failed"
                                [] os.op = "remove" -> "gone"
                                [] OTHER -> @]

ProceedPastEnd == IF os.at <= Len(Steps[os.op]) THEN os' = [os EXCEPT !.at = @ + 1]
                                                 ELSE Return(TRUE)
Proceed == IF os.at < Len(Steps[os.op]) THEN os' = [os EXCEPT !.at = @ + 1]
                                         ELSE Return(TRUE)

\* An initialisation fails.  SetPowerState goes on to its second call.
GiveUp == IF os.op = "up" /\ os.at <= Len(UpSteps)
          THEN os' = [os EXCEPT !.at = Len(UpSteps) + 1]
          ELSE Return(FALSE)

Disturb(happens) == disturbed' = (disturbed \/ happens)

Crash == fault' = TRUE /\ UNCHANGED <<os, drv, mem, dev, dpc, worker>>

Call(op) ==
    /\ os.op = "none"
    /\ \/ op = "start" /\ os.life = "new"
       \/ op = "down" /\ os.life = "started" /\ os.powered
       \/ op = "up" /\ os.life = "started" /\ ~os.powered /\ os.ups < MaxPowerUps
       \/ op = "remove" /\ os.life \in {"started", "failed"} /\ os.powered
    /\ os' = [os EXCEPT !.op = op, !.at = 1, !.ups = IF op = "up" THEN @ + 1 ELSE @]
    /\ UNCHANGED <<drv, mem, dev, dpc, worker, fault, disturbed>>

-----------------------------------------------------------------------------
(* Bringing the adapter up                                                 *)

\* m_PciResources.Init fails: HWInit calls virtio_add_status on a VirtIODevice
\* that has never been initialised.
PciResources ==
    /\ At("pci")
    /\ \/ Proceed /\ UNCHANGED <<drv, mem, dev, dpc, worker, fault, disturbed>>
       \/ Crash /\ Disturb(TRUE)

\* RtlZeroMemory at the head of virtio_device_initialize: what m_VioDev knew of
\* the queues is forgotten.
ZeroDevice ==
    /\ At("zero")
    /\ drv' = [drv EXCEPT !.mapped = FALSE, !.info = NoQueues]
    /\ Proceed
    /\ UNCHANGED <<mem, dev, dpc, worker, fault, disturbed>>

MapWithoutReset ==
    /\ At("map")
    /\ drv' = [drv EXCEPT !.mapped = TRUE, !.virtio_init = TRUE]
    /\ dev' = [dev EXCEPT !.status = @ \cup {"ACKNOWLEDGE", "DRIVER"}]
    /\ Proceed
    /\ UNCHANGED <<mem, dpc, worker, fault, disturbed>>

\* The capabilities are found and mapped, the device is reset and acknowledged.
\* virtio_init is what the caller sets then.
MapDevice ==
    /\ At("map")
    /\ \/ /\ drv' = [drv EXCEPT !.mapped = TRUE, !.virtio_init = TRUE]
          /\ dev' = [dev EXCEPT !.status = {"ACKNOWLEDGE", "DRIVER"}, !.ring = NoQueues,
                                !.isr = {}]
          /\ Proceed
          /\ UNCHANGED disturbed
       \/ GiveUp /\ UNCHANGED <<drv, dev>> /\ Disturb(os.op = "up")
    /\ UNCHANGED <<mem, dpc, worker, fault>>

\* Every later failure ends in virtio_add_status(FAILED).
Fails ==
    /\ dev' = [dev EXCEPT !.status = @ \cup {"FAILED"}]
    /\ GiveUp
    /\ Disturb(os.op = "up")
    /\ UNCHANGED <<dpc, worker, fault>>

SetFeatures ==
    /\ At("features")
    /\ \/ /\ dev' = [dev EXCEPT !.status = @ \cup {"FEATURES_OK"}]
          /\ Proceed
          /\ UNCHANGED <<dpc, worker, fault, disturbed>>
       \/ Fails
    /\ UNCHANGED <<drv, mem>>

InitSegments ==
    /\ At("segments")
    /\ \/ /\ drv' = [drv EXCEPT !.segments = TRUE]
          /\ Proceed
          /\ UNCHANGED <<dev, dpc, worker, fault, disturbed>>
       \/ drv' \in {drv, [drv EXCEPT !.segments = TRUE]} /\ Fails
    /\ UNCHANGED mem

\* virtio_delete_queues knows the queues that info names.
DeleteQueues ==
    /\ mem' = [mem EXCEPT !.alloc = @ \ Range(drv.info)]
    /\ drv' = [drv EXCEPT !.info = NoQueues]

\* One round of virtio_find_queues: vio_modern_setup_vq.  When its second
\* allocation fails the first is not released; when it fails otherwise, and
\* after that for the other queue, all is.  The device is not told.
SetupQueue(q) ==
    /\ At(q)
    /\ \/ \E r \in Rings \ mem.alloc :
             /\ mem' = [mem EXCEPT !.alloc = @ \cup {r}, !.posted[r] = {}, !.used[r] = {}]
             /\ drv' = [drv EXCEPT !.info[q] = r]
             /\ dev' = [dev EXCEPT !.ring[q] = r]
             /\ Proceed
             /\ UNCHANGED <<dpc, worker, fault, disturbed>>
       \/ DeleteQueues /\ Fails
       \/ \E r \in Rings \ mem.alloc :
             /\ mem' = [mem EXCEPT !.alloc = (@ \ Range(drv.info)) \cup {r}]
             /\ drv' = [drv EXCEPT !.info = NoQueues]
             /\ Fails

InitQueues ==
    /\ At("queues")
    /\ drv' = [drv EXCEPT !.queue = drv.info]
    /\ Proceed
    /\ UNCHANGED <<mem, dev, dpc, worker, fault, disturbed>>

\* VioGpuBuf::Init fails only if it gets no buffer at all.
InitPool ==
    /\ At("pool")
    /\ \/ /\ mem' = [mem EXCEPT !.pool = Cmds]
          /\ Proceed
          /\ UNCHANGED <<dev, dpc, worker, fault, disturbed>>
       \/ Fails /\ UNCHANGED mem
    /\ UNCHANGED drv

DeviceReady ==
    /\ At("ready")
    /\ dev' = [dev EXCEPT !.status = @ \cup {"DRIVER_OK"}]
    /\ Proceed
    /\ UNCHANGED <<drv, mem, dpc, worker, fault, disturbed>>

SetHardwareInit ==
    /\ At("go")
    /\ drv' = [drv EXCEPT !.hw_init = TRUE]
    /\ Proceed
    /\ UNCHANGED <<mem, dev, dpc, worker, fault, disturbed>>

CreateWorker ==
    /\ At("thread")
    /\ \/ worker' = [worker EXCEPT !.pc = "idle"] /\ Proceed
       \/ GiveUp /\ UNCHANGED worker
    /\ UNCHANGED <<drv, mem, dev, dpc, fault, disturbed>>

\* The worker runs by now.
GetModeList ==
    /\ At("modes")
    /\ \/ drv' = [drv EXCEPT !.modes = TRUE] /\ Proceed
       \/ GiveUp /\ UNCHANGED drv
    /\ UNCHANGED <<mem, dev, dpc, worker, fault, disturbed>>

-----------------------------------------------------------------------------
(* Taking it down                                                          *)

QuiesceKeepsInit ==
    /\ At("quiesce")
    /\ Disturb(~Quiet)
    /\ Proceed
    /\ UNCHANGED <<drv, mem, dev, dpc, worker, fault>>

\* From here on the interrupt and the DPC are turned away; those that are past
\* their test are not waited for, nor is the worker.
Quiesce ==
    /\ At("quiesce")
    /\ drv' = [drv EXCEPT !.hw_init = FALSE]
    /\ Disturb(~Quiet)
    /\ Proceed
    /\ UNCHANGED <<mem, dev, dpc, worker, fault>>

ResetIfHardwareInit ==
    /\ At("reset")
    /\ dev' = IF drv.hw_init
              THEN [dev EXCEPT !.status = {}, !.ring = NoQueues, !.isr = {}]
              ELSE dev
    /\ Proceed
    /\ UNCHANGED <<drv, mem, dpc, worker, fault, disturbed>>

\* A write of 0 to device_status; the pointer to the operations may be null.
ResetDevice ==
    /\ At("reset")
    /\ IF drv.virtio_init /\ ~drv.mapped
       THEN Crash
       ELSE /\ dev' = IF drv.virtio_init
                      THEN [dev EXCEPT !.status = {}, !.ring = NoQueues, !.isr = {}]
                      ELSE dev
            /\ Proceed
            /\ UNCHANGED <<drv, mem, dpc, worker, fault>>
    /\ UNCHANGED disturbed

Delete ==
    /\ At("delete")
    /\ IF drv.virtio_init THEN DeleteQueues ELSE UNCHANGED <<drv, mem>>
    /\ Proceed
    /\ UNCHANGED <<dev, dpc, worker, fault, disturbed>>

CloseQueues ==
    /\ At("close")
    /\ drv' = [drv EXCEPT !.queue = NoQueues, !.virtio_init = FALSE]
    /\ Proceed
    /\ UNCHANGED <<mem, dev, dpc, worker, fault, disturbed>>

\* HWClose.  It clears IsHardwareInit once more.
StopWorker ==
    /\ At("stop")
    /\ worker' = [worker EXCEPT !.stop = TRUE]
    /\ Proceed
    /\ UNCHANGED <<drv, mem, dev, dpc, fault, disturbed>>

WakeWorker ==
    /\ At("event")
    /\ worker' = [worker EXCEPT !.event = TRUE]
    /\ Proceed
    /\ UNCHANGED <<drv, mem, dev, dpc, fault, disturbed>>

JoinNobody ==
    /\ At("join")
    /\ Proceed
    /\ UNCHANGED <<drv, mem, dev, dpc, worker, fault, disturbed>>

\* Without a timeout; there is no worker if HWInit failed.
JoinWorker ==
    /\ At("join")
    /\ worker.pc \in {"none", "gone"}
    /\ Proceed
    /\ UNCHANGED <<drv, mem, dev, dpc, worker, fault, disturbed>>

\* The segments, the mode list, then the members: VioGpuBuf::Close frees what is in the pool.
FreeMembers ==
    /\ At("free")
    /\ drv' = [drv EXCEPT !.segments = FALSE, !.modes = FALSE]
    /\ mem' = [mem EXCEPT !.pool = {}]
    /\ Proceed
    /\ UNCHANGED <<dev, dpc, worker, fault, disturbed>>

-----------------------------------------------------------------------------
(* Commands, the worker, interrupt and DPC, the device                     *)

\* The queue a command would be put into, or taken from, is there.
QueueLives == drv.queue["ctrl"] \in mem.alloc

Post(c) ==
    mem' = [mem EXCEPT !.pool = @ \ {c}, !.posted[drv.queue["ctrl"]] = @ \cup {c}]

ReleaseReplied(c) == mem' = [mem EXCEPT !.pool = @ \cup {c}, !.replied = @ \ {c}]

\* GetModeList ends with GetDisplayInfo, which waits for its reply; afterwards the
\* start may still fail, with everything running.
StartAsk ==
    /\ At("ask")
    /\ \E c \in mem.pool : Post(c) /\ os' = [os EXCEPT !.at = @ + 1, !.cmd = c]
    /\ UNCHANGED <<drv, dev, dpc, worker, fault, disturbed>>

StartReplied ==
    /\ At("reply")
    /\ os.cmd \in mem.replied
    /\ ReleaseReplied(os.cmd)
    /\ Return(TRUE) \/ Return(FALSE)
    /\ UNCHANGED <<drv, dev, dpc, worker, fault, disturbed>>

\* A command nobody waits for.  That the pool may be empty is GpuQueues' concern.
Present ==
    /\ os.op = "none" /\ os.life = "started" /\ os.powered
    /\ mem.pool # {}
    /\ IF QueueLives
       THEN (\E c \in mem.pool : Post(c)) /\ UNCHANGED <<os, drv, dev, dpc, worker, fault>>
       ELSE Crash
    /\ UNCHANGED disturbed

\* DestroyCursor and DestroyFrameBufferObj, if there are such objects.
DestroyResources ==
    /\ At("destroy")
    /\ \/ Proceed /\ UNCHANGED <<mem, drv, dev, dpc, worker, fault>>
       \/ /\ os.life = "started" /\ mem.pool # {}
          /\ IF QueueLives
             THEN /\ \E c \in mem.pool : Post(c)
                  /\ Proceed
                  /\ UNCHANGED <<drv, dev, dpc, worker, fault>>
             ELSE Crash
    /\ UNCHANGED disturbed

WorkerWake ==
    /\ worker.pc = "idle" /\ worker.event
    /\ worker' = [worker EXCEPT !.event = FALSE,
                                !.pc = IF worker.stop THEN "gone" ELSE "read"]
    /\ UNCHANGED <<os, drv, mem, dev, dpc, fault, disturbed>>

\* ConfigChanged: read events_read, ask for the display information and wait.
WorkerRead ==
    /\ worker.pc = "read"
    /\ IF drv.mapped
       THEN /\ worker' = [worker EXCEPT !.pc = IF dev.events_read THEN "ask" ELSE "idle"]
            /\ UNCHANGED <<os, drv, mem, dev, dpc, fault>>
       ELSE Crash
    /\ UNCHANGED disturbed

WorkerAsk ==
    /\ worker.pc = "ask"
    /\ mem.pool # {}
    /\ IF QueueLives
       THEN /\ \E c \in mem.pool : /\ Post(c)
                                   /\ worker' = [worker EXCEPT !.pc = "wait", !.cmd = c]
            /\ UNCHANGED <<os, drv, dev, dpc, fault>>
       ELSE Crash
    /\ UNCHANGED disturbed

\* SetCustomDisplay, if the reply has a size, writes to the mode list.
WorkerReplied ==
    /\ worker.pc = "wait" /\ worker.cmd \in mem.replied
    /\ \/ ~drv.modes /\ Crash
       \/ /\ ReleaseReplied(worker.cmd)
          /\ worker' = [worker EXCEPT !.pc = "clear", !.cmd = NULL]
          /\ UNCHANGED <<os, drv, dev, dpc, fault>>
    /\ UNCHANGED disturbed

WorkerClear ==
    /\ worker.pc = "clear"
    /\ IF drv.mapped
       THEN /\ dev' = [dev EXCEPT !.events_read = FALSE]
            /\ worker' = [worker EXCEPT !.pc = "idle"]
            /\ UNCHANGED <<os, drv, mem, dpc, fault>>
       ELSE Crash
    /\ UNCHANGED disturbed

\* Without IsHardwareInit the interrupt is not claimed, and stays.
Interrupt ==
    /\ dev.isr # {} /\ ~dpc.irq
    /\ drv.hw_init
    /\ dpc' = [dpc EXCEPT !.irq = TRUE]
    /\ UNCHANGED <<os, drv, mem, dev, worker, fault, disturbed>>

\* Reading the register clears it.
InterruptRead ==
    /\ dpc.irq
    /\ IF drv.mapped
       THEN /\ dev' = [dev EXCEPT !.isr = {}]
            /\ dpc' = [dpc EXCEPT !.irq = FALSE,
                          !.queued = @ \/ dev.isr # {},
                          !.pending = @ \cup CASE dev.isr = {} -> {}
                                               [] "CONFIG" \in dev.isr -> {"CHANGE"}
                                               [] OTHER -> {"DISPLAY"}]
            /\ UNCHANGED <<os, drv, mem, worker, fault>>
       ELSE Crash
    /\ UNCHANGED disturbed

DpcStart ==
    /\ dpc.queued /\ ~dpc.on
    /\ dpc' = [dpc EXCEPT !.queued = FALSE, !.on = drv.hw_init]
    /\ UNCHANGED <<os, drv, mem, dev, worker, fault, disturbed>>

DpcExchange ==
    /\ dpc.on /\ dpc.reason = {}
    /\ dpc' = [dpc EXCEPT !.on = dpc.pending # {}, !.reason = dpc.pending, !.pending = {}]
    /\ UNCHANGED <<os, drv, mem, dev, worker, fault, disturbed>>

\* A reply is dequeued: its waiter is woken, or its buffer released.
DpcCollect ==
    /\ dpc.on /\ "DISPLAY" \in dpc.reason
    /\ IF ~QueueLives
       THEN Crash
       ELSE LET q == drv.queue["ctrl"] IN
            /\ \/ /\ mem.used[q] = {}
                  /\ dpc' = [dpc EXCEPT !.reason = @ \ {"DISPLAY"}]
                  /\ UNCHANGED mem
               \/ \E c \in mem.used[q] :
                     /\ mem' = IF c \in {os.cmd, worker.cmd}
                               THEN [mem EXCEPT !.used[q] = @ \ {c}, !.replied = @ \cup {c}]
                               ELSE [mem EXCEPT !.used[q] = @ \ {c}, !.pool = @ \cup {c}]
                     /\ UNCHANGED dpc
            /\ UNCHANGED <<os, drv, dev, worker, fault>>
    /\ UNCHANGED disturbed

DpcChange ==
    /\ dpc.on /\ dpc.reason = {"CHANGE"}
    /\ worker' = [worker EXCEPT !.event = TRUE]
    /\ dpc' = [dpc EXCEPT !.reason = {}]
    /\ UNCHANGED <<os, drv, mem, dev, fault, disturbed>>

\* The device executes commands of enabled queues, raises interrupts, and lets
\* the display change.  A change while the adapter is powering up may find
\* m_VioDev zeroed and IsHardwareInit set, one during the start no mode list.
DevServe ==
    /\ "DRIVER_OK" \in dev.status
    /\ \E c \in mem.posted[dev.ring["ctrl"]] :
          mem' = [mem EXCEPT !.posted[dev.ring["ctrl"]] = @ \ {c},
                             !.used[dev.ring["ctrl"]] = @ \cup {c}]
    /\ dev' = [dev EXCEPT !.isr = @ \cup {"QUEUE"}]
    /\ UNCHANGED <<os, drv, dpc, worker, fault, disturbed>>

DevChange ==
    /\ "DRIVER_OK" \in dev.status
    /\ dev.changes < MaxChanges
    /\ dev' = [dev EXCEPT !.isr = {"QUEUE", "CONFIG"}, !.events_read = TRUE,
                          !.changes = @ + 1]
    /\ Disturb(os.op = "up" \/ ~drv.modes)
    /\ UNCHANGED <<os, drv, mem, dpc, worker, fault>>

-----------------------------------------------------------------------------
BringUp ==
    \/ PciResources \/ ZeroDevice \/ MapDevice \/ SetFeatures \/ InitSegments
    \/ \E q \in Queues : SetupQueue(q)
    \/ InitQueues \/ InitPool \/ DeviceReady \/ SetHardwareInit
    \/ CreateWorker \/ GetModeList \/ StartAsk \/ StartReplied
TakeDown ==
    \/ DestroyResources \/ Quiesce \/ ResetDevice \/ Delete \/ CloseQueues
    \/ StopWorker \/ WakeWorker \/ JoinWorker \/ FreeMembers
Worker == WorkerWake \/ WorkerRead \/ WorkerAsk \/ WorkerReplied \/ WorkerClear
Dpc == DpcStart \/ DpcExchange \/ DpcCollect \/ DpcChange

Next ==
    /\ ~fault
    /\ \/ \E op \in DOMAIN Steps : Call(op)
       \/ BringUp \/ TakeDown \/ Present
       \/ Worker \/ Interrupt \/ InterruptRead \/ Dpc
       \/ DevServe \/ DevChange

Spec == Init /\ [][Next]_vars

-----------------------------------------------------------------------------
(* Properties                                                              *)

\* As long as the device may use them, the virtqueues it was given and the
\* memory of the segments are there: a queue is deleted, and memory freed, only
\* after a reset, whichever step failed before.
MemoryOutlivesDevice ==
    "DRIVER_OK" \in dev.status =>
        /\ \A q \in Queues : dev.ring[q] \in mem.alloc
        /\ os.life = "started" => drv.segments

\* What IsHardwareInit promises to the interrupt and the DPC, between calls: the
\* device runs, and driver, transport and device agree about two live queues.
HardwareInitIsTruthful ==
    os.op = "none" /\ os.life = "started" /\ ~disturbed =>
        /\ drv.hw_init = os.powered
        /\ drv.hw_init = ("DRIVER_OK" \in dev.status)
        /\ drv.hw_init => /\ drv.mapped /\ drv.virtio_init
                          /\ drv.queue = dev.ring /\ drv.info = dev.ring
                          /\ Range(drv.queue) \subseteq mem.alloc

\* No null pointer and no deleted queue is used, by whatever runs beside a
\* call, unless it was already running when the adapter was taken down or zeroed,
\* the display changed before there was a mode list, or an initialisation failed.
FaultNeedsDisturbance == fault => disturbed

\* The worker runs on the adapter's memory: it is gone when that is freed.
WorkerGoneFirst == os.life = "gone" => worker.pc \in {"none", "gone"}

\* HWClose waits for the worker without a timeout.  The worker it waits for is
\* about to see m_bStopWorkThread: it is not waiting for the device, which has been
\* reset, and the event that wakes it is not spent.
JoinEnds ==
    At("join") /\ ~disturbed =>
        \/ worker.pc \in {"none", "gone"}
        \/ worker.pc = "idle" /\ worker.event /\ worker.stop
=============================================================================
