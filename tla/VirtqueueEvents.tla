--------------------------- MODULE VirtqueueEvents ---------------------------
(***************************************************************************)
(* Notification in VirtIO/VirtIORing.c.  The driver kicks the device after *)
(* it has made buffers available, the device interrupts the driver after   *)
(* it has used some, and each may ask the other not to: by a flag, or,     *)
(* with the event index feature, by publishing the index whose crossing it *)
(* wants to be told of.                                                    *)
(*                                                                         *)
(* Only the counts matter here: the descriptors and the contents of the    *)
(* rings are Virtqueue's, and a buffer is one descriptor.  The device and  *)
(* the interrupt handler are external; they follow the rules of the other  *)
(* side: ask to be told, look once more, sleep.                            *)
(***************************************************************************)
EXTENDS Naturals

CONSTANTS Num,      \* vring.num
          IdxMod    \* indexes and num_added are counted modulo this

ASSUME NumAssumption == Num \in Nat \ {0} /\ IdxMod \in Nat /\ 2 * Num <= IdxMod

VARIABLES
    avail_idx, used_idx, last_used_idx,
    dev_avail,    \* the device's position in the available ring
    inside,       \* "publish" or "kick" in the middle of add_buf, else "no"
    running,      \* FALSE between a reset of the device and virtqueue_shutdown
    event,        \* vq->event: the event index feature is used
    num_added,    \* buffers added since the last kick
    no_interrupt, \* VRING_AVAIL_F_NO_INTERRUPT
    used_event,   \* vring_used_event
    no_notify,    \* VRING_USED_F_NO_NOTIFY, written by the device
    avail_event,  \* vring_avail_event, written by the device
    told,         \* a kick is on its way to the device
    irq,          \* an interrupt is on its way to the driver
    dev,          \* the device: "running", "checking" before it sleeps, "asleep"
    signalled,    \* used_idx when the device last considered an interrupt
    drv,          \* the driver's completion handling, in the same way
    threshold     \* the driver sleeps until more than this many are used

rings == <<avail_idx, used_idx, last_used_idx, dev_avail, inside, running>>
driver == <<event, num_added, no_interrupt, used_event, drv, threshold>>
device == <<no_notify, avail_event, dev, signalled>>
vars == <<rings, driver, device, told, irq>>

Idx == 0 .. (IdxMod - 1)
Succ(i) == (i + 1) % IdxMod
Distance(from, to) == (to + IdxMod - from) % IdxMod

TypeOK ==
    /\ {avail_idx, used_idx, last_used_idx, dev_avail, num_added, used_event,
        avail_event, signalled} \subseteq Idx
    /\ {running, event, no_interrupt, no_notify, told, irq} \subseteq BOOLEAN
    /\ inside \in {"no", "publish", "kick"}
    /\ {dev, drv} \subseteq {"running", "checking", "asleep"}
    /\ threshold \in 0..Num

Init ==
    /\ avail_idx = 0 /\ used_idx = 0 /\ last_used_idx = 0 /\ dev_avail = 0
    /\ inside = "no" /\ running = TRUE
    /\ event \in BOOLEAN       \* virtio_set_queue_event_suppression
    /\ num_added = 0
    /\ no_interrupt = FALSE /\ used_event = 0
    /\ no_notify = FALSE /\ avail_event = 0
    /\ told = FALSE /\ irq = FALSE
    /\ dev = "asleep" /\ signalled = 0
    /\ drv = "asleep" /\ threshold = 0

\* vring_need_event: did the index cross event_idx on its way from old to new?
NeedEvent(event_idx, new, old) ==
    (new + 2 * IdxMod - event_idx - 1) % IdxMod < Distance(old, new)

\* The driver's operations are serialised: none starts inside another.
Free == inside = "no" /\ drv # "checking"

Posted == Distance(last_used_idx, avail_idx)

-----------------------------------------------------------------------------
(* Kicks                                                                   *)

AutoKickNever(added) == FALSE
\* The last value that num_added can have before it is taken for zero.
AutoKick(added) == added = IdxMod - 1

\* virtqueue_add_buf up to its write barrier.
AddBuf ==
    /\ running /\ Free
    /\ Posted < Num
    /\ inside' = "publish"
    /\ UNCHANGED <<avail_idx, used_idx, last_used_idx, dev_avail, running, driver,
                   device, told, irq>>

AddBufPublish ==
    /\ inside = "publish"
    /\ avail_idx' = Succ(avail_idx)
    /\ num_added' = Succ(num_added)
    /\ inside' = IF AutoKick(num_added') THEN "kick" ELSE "no"
    /\ UNCHANGED <<used_idx, last_used_idx, dev_avail, running, event, no_interrupt,
                   used_event, drv, threshold, device, told, irq>>

\* A full ring is kicked if the buffer has a part for the device to read.
AddBufNoSpace(out) ==
    /\ running /\ Free
    /\ Posted = Num
    /\ told' = (told \/ out > 0)
    /\ UNCHANGED <<rings, driver, device, irq>>

\* virtqueue_kick_prepare, past its barrier.
NeedsKick ==
    IF event THEN NeedEvent(avail_event, avail_idx, Distance(num_added, avail_idx))
             ELSE ~no_notify

\* virtqueue_kick: called by the driver, or at the end of add_buf.
Kick ==
    /\ running /\ (Free \/ inside = "kick")
    /\ told' = (told \/ NeedsKick)
    /\ num_added' = 0
    /\ inside' = "no"
    /\ UNCHANGED <<avail_idx, used_idx, last_used_idx, dev_avail, running, event,
                   no_interrupt, used_event, drv, threshold, device, irq>>

\* virtqueue_kick_always, the one that viogpudo uses.
KickAlways ==
    /\ running /\ Free
    /\ told' = TRUE
    /\ num_added' = 0
    /\ UNCHANGED <<rings, event, no_interrupt, used_event, drv, threshold, device, irq>>

-----------------------------------------------------------------------------
(* Callbacks                                                               *)

\* The interrupt wakes the driver's completion handling.
Interrupt ==
    /\ irq /\ drv # "checking"
    /\ irq' = FALSE
    /\ drv' = "running"
    /\ UNCHANGED <<rings, event, num_added, no_interrupt, used_event, threshold,
                   device, told>>

Handling == running /\ Free /\ drv = "running"

GetBufSilent ==                 \* the event index is not moved on
    /\ Handling
    /\ last_used_idx # used_idx
    /\ last_used_idx' = Succ(last_used_idx)
    /\ threshold' = IF no_interrupt THEN threshold ELSE 0
    /\ UNCHANGED <<avail_idx, used_idx, dev_avail, inside, running, event, num_added,
                   no_interrupt, used_event, drv, device, told, irq>>

\* If an interrupt is expected for the next entry, the event index follows.
GetBuf ==
    /\ Handling
    /\ last_used_idx # used_idx
    /\ last_used_idx' = Succ(last_used_idx)
    /\ used_event' = IF no_interrupt THEN used_event ELSE last_used_idx'
    /\ threshold' = IF no_interrupt THEN threshold ELSE 0
    /\ UNCHANGED <<avail_idx, used_idx, dev_avail, inside, running, event, num_added,
                   no_interrupt, drv, device, told, irq>>

\* With interrupts on, the driver may leave it at that until the next one.
GetBufNull ==
    /\ Handling /\ ~no_interrupt
    /\ last_used_idx = used_idx
    /\ drv' = "asleep"
    /\ UNCHANGED <<rings, event, num_added, no_interrupt, used_event, threshold,
                   device, told, irq>>

DisableCb ==
    /\ Handling
    /\ no_interrupt' = TRUE
    /\ UNCHANGED <<rings, event, num_added, used_event, drv, threshold, device, told, irq>>

\* virtqueue_enable_cb (later = 0) and virtqueue_enable_cb_delayed up to their
\* barrier.
EnableCb(later) ==
    /\ Handling
    /\ no_interrupt' = FALSE
    /\ used_event' = (last_used_idx + later) % IdxMod
    /\ threshold' = later
    /\ drv' = "checking"
    /\ UNCHANGED <<rings, event, num_added, device, told, irq>>

ThreeQuarters == (Posted * 3) \div 4

EnableCbUnchecked ==            \* no second look
    /\ drv = "checking"
    /\ drv' = "asleep"
    /\ UNCHANGED <<rings, event, num_added, no_interrupt, used_event, threshold,
                   device, told, irq>>

\* Past the barrier: with more used buffers than that they return false, and the
\* driver goes on; otherwise it may sleep.
EnableCbCheck ==
    /\ drv = "checking"
    /\ drv' = IF Distance(last_used_idx, used_idx) > threshold THEN "running" ELSE "asleep"
    /\ UNCHANGED <<rings, event, num_added, no_interrupt, used_event, threshold,
                   device, told, irq>>

-----------------------------------------------------------------------------
(* Reset and shutdown                                                      *)

DevReset ==
    /\ running /\ Free
    /\ running' = FALSE
    /\ UNCHANGED <<avail_idx, used_idx, last_used_idx, dev_avail, inside, driver,
                   device, told, irq>>

\* virtqueue_shutdown leaves the feature as it is and clears all else.
Shutdown ==
    /\ ~running
    /\ avail_idx' = 0 /\ used_idx' = 0 /\ last_used_idx' = 0 /\ dev_avail' = 0
    /\ running' = TRUE
    /\ num_added' = 0
    /\ no_interrupt' = FALSE /\ used_event' = 0
    /\ no_notify' = FALSE /\ avail_event' = 0
    /\ dev' = "asleep" /\ signalled' = 0 /\ drv' = "asleep" /\ threshold' = 0
    /\ told' = FALSE /\ irq' = FALSE
    /\ UNCHANGED <<inside, event>>

-----------------------------------------------------------------------------
(* The device                                                              *)

DevFetch ==
    /\ running /\ dev = "running"
    /\ dev_avail # avail_idx
    /\ dev_avail' = Succ(dev_avail)
    /\ UNCHANGED <<avail_idx, used_idx, last_used_idx, inside, running, driver, device,
                   told, irq>>

\* It asks for a kick beyond what it has seen, looks again, and sleeps.
DevAsk ==
    /\ running /\ dev = "running" /\ dev_avail = avail_idx
    /\ no_notify' = FALSE /\ avail_event' = dev_avail
    /\ dev' = "checking"
    /\ UNCHANGED <<rings, driver, signalled, told, irq>>

DevCheck ==
    /\ running /\ dev = "checking"
    /\ dev' = IF dev_avail # avail_idx THEN "running" ELSE "asleep"
    /\ UNCHANGED <<rings, driver, no_notify, avail_event, signalled, told, irq>>

\* While it runs it may want no kicks.
DevWake ==
    /\ running /\ told /\ dev # "checking"
    /\ told' = FALSE
    /\ dev' = "running"
    /\ no_notify' \in BOOLEAN
    /\ UNCHANGED <<rings, driver, avail_event, signalled, irq>>

\* It may use several buffers before it considers an interrupt.
DevUse ==
    /\ running
    /\ used_idx # dev_avail
    /\ Distance(signalled, used_idx) < Num
    /\ used_idx' = Succ(used_idx)
    /\ UNCHANGED <<avail_idx, last_used_idx, dev_avail, inside, running, driver, device,
                   told, irq>>

DevSignal ==
    /\ running
    /\ signalled # used_idx
    /\ irq' = (irq \/ IF event THEN NeedEvent(used_event, used_idx, signalled)
                               ELSE ~no_interrupt)
    /\ signalled' = used_idx
    /\ UNCHANGED <<rings, driver, no_notify, avail_event, dev, told>>

Next ==
    \/ AddBuf \/ AddBufPublish \/ \E out \in 0..1 : AddBufNoSpace(out)
    \/ Kick \/ KickAlways
    \/ Interrupt \/ GetBuf \/ GetBufNull
    \/ DisableCb \/ EnableCb(0) \/ EnableCb(ThreeQuarters) \/ EnableCbCheck
    \/ DevReset \/ Shutdown
    \/ DevFetch \/ DevAsk \/ DevCheck \/ DevWake \/ DevUse \/ DevSignal

Spec == Init /\ [][Next]_vars
-----------------------------------------------------------------------------
(* Properties                                                              *)

\* No kick that the device needs is suppressed: a device that sleeps is being
\* told of any buffer the driver made available before its last kick, whatever
\* the event index, the flag and the wrapping counts were.
DeviceIsTold ==
    running /\ dev = "asleep" =>
        (Distance(dev_avail, avail_idx) > num_added => told)

\* No interrupt that the driver needs is suppressed: a driver that sleeps is
\* being told, or the device has yet to consider it, once more buffers are used
\* than it sleeps for.
DriverIsTold ==
    running /\ drv = "asleep" =>
        (Distance(last_used_idx, used_idx) > threshold => irq \/ signalled # used_idx)
=============================================================================
