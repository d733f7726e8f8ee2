# Verification of the virtio-gpu display-only driver

The repository is a Windows WDDM display-only miniport for virtio-gpu: a generic
virtio library in C (`VirtIO/`) and the driver in C++ (`viogpudo/`). This directory
holds TLA+ models of its parts, the TLC configurations that check them on small
instances, and proofs, checked by TLAPS, of what holds for every instance.

Paths below are relative to the repository root; `viogpudo.cpp` and
`viogpu_queue.cpp` are in `viogpudo/`.

## 1. Inventory

| Component | State | Operations | Correct when |
|---|---|---|---|
| Split virtqueue (`VirtIO/VirtIORing.c`, `virtio_ring.h`) | descriptor table, free list, `num_free`, `data[]`, available and used rings, `last_used_idx` | add_buf, get_buf, detach_unused_buf, shutdown, kick, enable/disable_cb | no descriptor is lost or in two chains; the device sees whole buffers; each token comes back once |
| Buffer pool (`VioGpuBuf`) | free list, count | Init, GetBuf, FreeBuf, Close | each buffer has one owner; none is lost; a request finds one |
| Control and cursor queues (`CtrlQueue`, `CrsrQueue`) | virtqueue, spin lock, `m_3dCmdBuf` | one method per command, QueueBuffer, DequeueBuffer, SubmitCmd, Create/ReleaseCmdBuffer | a posted command is answered, its buffer released, its waiter woken, by its own reply |
| Interrupt and DPC (`InterruptRoutine`, `DpcRoutine`) | ISR register, `m_PendingWorks` | read the ISR, queue the DPC, collect | no completion is left behind |
| Configuration worker (`ThreadWorkRoutine`, `ConfigChanged`) | `m_ConfigUpdateEvent`, the device's `events_read` | ask the display information, set the custom mode, report the monitor | a change is noticed |
| Host resources (`m_pFrameBuf`, `m_pCursorBuf`, `VioGpuIdr`) | id bitmap, two objects, two memory segments | Create/DestroyFrameBufferObj, Create/DestroyCursor, present, pointer shape and position | commands name what exists; ids are held once; host and driver agree when quiet; memory is withdrawn from the host |
| Memory segments (`VioGpuMemSegment`, `VioGpuObj`) | memory, MDL, page list | Init, Close | the page list covers the memory; freed once |
| Adapter life cycle (`HWInit`, `HWClose`, `VioGpuAdapterInit/Close`, `SetPowerState`) | the two "initialised" flags, device status, worker thread | start, stop, power up and down | the status handshake's order; nothing runs on deleted queues; stop ends |
| virtio PCI transport (`VirtIOPCICommon.c`, `VirtIOPCIModern.c`, `VirtIOPCILegacy.c`) | device status, queue registers, features | initialise, negotiate, find and delete queues, reset | the order the virtio standard prescribes; clean-up after a failure |
| PCI resources (`viogpu_pci.cpp`) | bars | mapping, configuration reads | a bar is mapped once |
| Display miniport (`VioGpuDod`) | `m_CurrentModes`, power states, flags | DDI calls: commit, visibility, present, blackout, bugcheck screen, power | what is drawn fits the frame buffer; mode and frame buffer agree |
| Mode list (`GetModeList`, `SetCustomDisplay`) | `m_ModeInfo`, `m_ModeNumbers`, `m_CustomMode` | build, customise, enumerate, search | a size that was offered is found when it is committed; the host's size is offered |
| Mode negotiation (`EnumVidPnCofuncModality`, `RecommendMonitorModes`, `CommitVidPn`) | dxgkrnl's mode sets, mode infos and path infos, borrowed during a call | acquire, create, add, assign, release | everything borrowed is given back once, whatever fails; what is offered is accepted |
| Blitting and rectangles (`bitops.cpp`, `FindUpdateRect`) | none | BltBits with rotations, union of rectangles | right pixels; the union covers what changed |
| Entry points, VGA adapter, escapes, base objects, build files | little or none | forwarding | see section 7 |

How they interact: the operating system calls the miniport on several threads; each
call becomes a few commands, taken from the pool, filled, posted on a queue under
its lock, and kicked after the lock is released. The device executes commands and
interrupts; the interrupt routine reads and thereby clears the ISR register and
queues the DPC; the DPC dequeues replies, sets waiters' events and releases buffers.
Only two calls wait for their reply: `AskDisplayInfo` and the transfer of a new
pointer shape; neither has a timeout. A configuration change reaches the worker
through the DPC, and the worker itself posts a command and waits.

Hard here: the device and up to four kinds of thread interleave on both queues, the
pool and the ISR register; results of posting are ignored; ids and memory are given
back before the host has executed the commands that release them; nothing times
out; the mode list is shared by three threads without a lock; some ten callbacks of one
call may each fail, and the rest of the call must clean up. `PROJECT.json` lists each hazard with its line and the properties aimed at it.

## 2. Modules

| Module | Models | Notes |
|---|---|---|
| `Virtqueue` | `VirtIORing.c` against any device | add_buf is split at its write barrier |
| `BufferExchange` | what a virtqueue promises: tokens are posted, taken, used, collected, and detached after a reset | abstract |
| `VirtqueueRefinement` | the mapping from `Virtqueue` to `BufferExchange` | checked as a PROPERTY |
| `VirtqueueProofs` | proofs about `Virtqueue`, the mapping to `BufferExchange` among them | section 5 |
| `VirtqueueEvents` | `VirtIORing.c`'s kicks and callbacks: who may sleep, and who wakes it | counts only |
| `VirtqueueEventsProofs` | proofs about `VirtqueueEvents`, with the arithmetic modulo the index width | section 5 |
| `GpuQueues` | pool, both queues, client threads, interrupt, DPC, worker, device | a queue appears as `BufferExchange` describes it: available, held by the device, used |
| `GpuQueuesProofs` | proofs about `GpuQueues` | section 5 |
| `GpuResources` | ids, frame buffer, pointer, their memory, commands in flight, the host's resources | posts succeed when there is room; refusals are `GpuQueues`' |
| `GpuResourcesProofs` | proofs about `GpuResources`: ids, driver and host, pointer, freed memory | section 5 |
| `DeviceLifecycle` | start, power transitions, removal, with the PCI transport below them and everything that runs beside them | the queues' protocol is reduced to what is in which queue |
| `DeviceLifecycleProofs` | proofs about `DeviceLifecycle` | section 5 |
| `VidPn` | the mode negotiation with dxgkrnl, callback by callback | dxgkrnl is external |
| `VidPnProofs` | proofs about `VidPn` | section 5 |
| `DisplayModes` | the mode list, commits, and all that draws | commands at the host are `GpuResources`' |
| `DisplayModesProofs` | proofs about `DisplayModes` | section 5 |
| `NumberSets` | least element, interval induction, remainders, sums over finite sets | facts for the proofs |
| `MC*` | instances for TLC | |

Definitions keep the names of the source where that is possible. Some definitions
have a faulty variant beside them, used by no action, that says how a plausible bug
in that code would look; for every checked property one of these makes TLC find a
violation, so no property holds vacuously.

### Virtqueue

State: the C structures' fields by name; `pc` is the driver's position (operations are
serialised by the caller, as the source's comments require); `dev_avail`, `held` and
`phase` are the device's. The device takes chains in ring order, returns them in any,
and in one run returns ids it should not. Notification suppression is
`VirtqueueEvents`'.
`DescriptorAccounting` says that free list and chains partition the table; it is
stated by following `next`, not by a count. `DeviceSeesWholeBuffer`: what the device
finds from the head it is given is the buffer that was posted. `OnePlace`: a token
is in exactly one stage between posting and return.

### VirtqueueEvents

The rings are reduced to their indexes, counted modulo `IdxMod`, and the driver's calls
are those a driver of this library can make: add, kick, kick always, collect, disable
and enable callbacks, at once or delayed, reset and shutdown. What is written before
and what is read after a barrier are two actions. The device is external and follows
the rule of the other side: ask to be told, look once more, sleep. `DeviceIsTold` and
`DriverIsTold` say that a sleeper is being told, with event indexes as with flags. The
display driver itself uses the library's simplest calls only: `virtqueue_kick_always`
(`viogpu_queue.h:118`), and it never disables or enables callbacks (its two wrappers,
lines 119 and 120, have no caller).

### GpuQueues

A thread allocates (`GetBuf`), posts (`QueueBuffer`, with the refusal by a full ring,
and `QueueBufferTooBig` for a backing store of too many pages), kicks after it
released the lock, and returns or waits. The DPC's steps are its loop: exchange
`m_PendingWorks`, dequeue and set the event, then look at the command and release
it. The worker's are `ConfigChanged`'s. Scatter lists are abstracted to their length.

`KeepsUp` says that clients post only what fits, that is, that the device is faster
than they are; runs with it FALSE show what a full ring does. `ClientsPause` is the
premise of the liveness properties: clients that never stop can keep the DPC in the
loop of the control queue, so the cursor queue and a change wait.

What the model shows of the DPC's order (it sets a waiter's event, line 3512, before
it reads the command's type, line 3514): the worker may release the buffer in
between, and another thread take it. A released buffer goes to the end of the free
list, so it is not taken again soon: `OneOwner` holds as long as nothing changes the
display (`gpu_overrun`), and `NothingLost` with one change and a pool that loses no
buffers (`gpu_change`). The margin is the length of the list. With one change added
to `gpu_overrun`, whose pool is down to its last buffer, TLC finds the DPC releasing
a buffer that a presenting thread has just taken. What the theorems add (section 5) is the reason:
that order is the only way to two owners.

### GpuResources

One thread changes modes and presents, the other sets pointer shapes and positions;
a step posts one command or uses the bitmap. The host executes the control queue in
order and the cursor queue independently, rejecting what names no resource.
`CommandsNameLiveResources` is the reason why giving ids back before the host has
heard of it is safe: all users of an id go through the same queue.
`FreedBackingIsWithdrawn` is what is true of freed frame memory. It is not that the
host never reads it: a transfer posted before the mode change may still be in the
queue when the memory goes. Windows serialises mode changes with presents, and
pointer calls with each other; this is assumed.

`PointerToMove`: SetPointerPosition may read the id of the pointer's object untested, once
a shape was set and as long as no allocation fails.

### VidPn

`pc` is the callback to come, `local` what the call's local variables name, `live` what
was obtained and not given back. A callback that obtains and one that releases have
one shape each (`ObtainOrFail`, `ReleaseOrFail`), with a failure that goes where the
code's `break`, `return` or `goto` goes. `GivenBackOnce` has one exception, and it is
needed: `pVidPnPresentPathTemp` still names the last path when `pfnAcquireNextPathInfo`
fails, so if that call leaves its result alone, the cleanup releases the path twice.

What the model shows and no property forbids, since nothing is lost by it:

- the set of target modes holds the mode of index 0 only, as the loop asks
  `GetModeInfo(SourceId)` every time (line 745); `WholeListOffered` says so;
- a monitor that knows the current mode by itself gets none of the list: the first
  refusal, `STATUS_GRAPHICS_MODE_ALREADY_IN_MODESET`, ends AddSingleMonitorMode with
  success, and `WholeListOffered` promises the list only past it (`m > 1`);
- the rotation is offered for a path that is the pivot only when the rotation *is* the
  pivot, the opposite of the comment at line 1157 (`OffersRotation`);
- a commit without a pinned mode leaves the current one as it is, where the comment
  speaks of clearing it.

Assumed of dxgkrnl: a topology without paths is reported as such, the order of paths
does not change during a call, and it uses an enumeration's answer only if that succeeded.

### DisplayModes

The start, the worker and an escape write the list (`SetCustomDisplay`), in five
steps: `m_CustomMode` is loaded, the other slot stored to it, `m_CustomMode` read again as
the index (line 3273), the width written, the height and stride written. dxgkrnl
reads it entry by entry, commits a size it found, the miniport searches the list for
that size and then reads the entry it found three times more: for the memory, for the
host's resource, for the scanout. Presents, blackouts and the bugcheck screen
write between these steps, where their tests let them. `raced`, `lost` and the other
history variables record what happened on the way; the properties name them as their
exceptions, each of which is needed: TLC finds a violation without it.

1. A commit that finds no entry of its size succeeds and keeps the old frame
   buffer, with the new size as the current mode: presents write past the end (`lost`).
   This takes two stores of `m_CustomMode` after the enumeration, or a setter that was on
   its way to the newest slot when the enumeration began (`OnItsWay`: one that stored
   another slot earlier and reads `m_CustomMode` only now overwrites the newest entry with no
   store at all), or an entry that was read half written.
2. The entry changes between the computation of the memory's size and the creation of
   the resource (`raced`).
3. A commit that fails has freed the old frame buffer, and presents draw through the old
   pointer; the blackout tests `FrameBufferIsActive` and does not.
4. The bugcheck screen is drawn while the old frame buffer is gone and the new not there.
5. The display changes after the device's reply and before the worker clears
   `events_read`: the change is not looked at (`missed`); two setters at once may
   choose the same slot (`overlapped`).

Two slots for custom sizes, used in turn, are what keeps one setter from
disturbing a commit: `CommittedIsShown` is false with one slot. It promises a standard size
without condition, since no setter writes to those, and the newest custom size past one
store. `since` counts the stores, and starts at two if a setter is on its way.

Abstracted: an entry is read at one instant; the interrupt and the DPC of a change
are one step with it (`GpuQueues` has them); sizes do not exceed 16 bits; the visible
region is the whole surface, so the shift that centres a picture is zero; the
monitor's power state is always on, as in the code. Before the first commit
`m_CurrentModes` describes the firmware's display with a pitch that is never
used. A blackout and the bugcheck screen write to memory that the host is not told to
read again; what is shown then is not modelled.

### DeviceLifecycle

A call of the operating system is a list of named steps (`Steps`) and `os.at` the next
one; each step is an action, and between two of them the device, the interrupt, the
DPC and the worker move. `SetPowerState` has its steps twice, as in the code, where the
miniport's calls the adapter's twice. A step that can fail has a disjunct per way of
failing, with what the code cleans up then. `drv.info` is what `m_VioDev` knows of the
queues and `drv.queue` what the queue classes hold; after `RtlZeroMemory` they differ,
and the queues of the first initialisation stay allocated after the second: each
return to D0 leaks two.

Using a null pointer or deleted memory sets `fault` and ends the behaviour. The code
does not exclude this, so `FaultNeedsDisturbance` says exactly when it happens:

1. `m_PciResources.Init` fails: `virtio_add_status` calls through an `m_VioDev` without
   operations (line 2626, a few lines above, knows better: "cannot call
   virtio_add_status if we failed");
2. a power-up fails: `SetPowerState` returns success all the same, and presents follow;
3. the interrupt routine, the DPC or the worker was past its test when the adapter was
   taken down: nothing waits for it, except HWClose for the worker, after the queues
   are gone;
4. the display changes while the adapter powers up: the second initialisation zeroes
   `m_VioDev` while `IsHardwareInit` is set;
5. the display changes between the start of the worker and the end of `GetModeList`,
   or after `GetModeList` failed: `SetCustomDisplay` writes through a null
   `m_ModeInfo`.

`disturbed` records these causes, and each is needed: without any one of them TLC
finds a fault that the others do not explain. `JoinEnds` has the same premise: a
worker taken by surprise while it waits for a reply waits for ever, and HWClose with
it. Commands in flight when the device is reset are in neither the pool nor a queue
afterwards; they are lost, as the destructor's own commands are, and
`ASSERT(m_uCount == 0)` in `VioGpuBuf::Close` does not hold then. The allocation of
the reply buffer in `AskDisplayInfo`, whose failure the caller does not look at, is
taken to succeed.

Assumed of Windows: calls do not overlap, nothing is presented during one, and the
device is removed in D0.

## 3. Runs

States are distinct states found by TLC.

| Run | Instance | Shows |
|---|---|---|
| `virtqueue` | 3 descriptors, indexes mod 6; buffers of 1, 2 and 3 and an indirect one; 0.9 million | all of `Virtqueue`'s properties and the refinement, through wraps, refusals, resets, and chains across a shuffled free list |
| `virtqueue_faulty_device` | 2 descriptors, bad ids 0, 1, 2; 13 thousand | get_buf's checks keep the table sound |
| `events` | ring of 2, counts mod 4; 0.9 million | no needed kick or interrupt is suppressed |
| `gpu_steady` | control ring 4, cursor ring 1, a waiter and a presenter, device that keeps up; 0.7 million | nothing is lost, waiters wake on their own reply |
| `gpu_replies` | both queues, any completion order; 82 thousand | every buffer comes back |
| `gpu_change` | one change, merged or not with a completion; 0.3 million | the change is noticed, waits end, nothing is lost |
| `gpu_overrun` | clients faster than the device; 0.4 million | refusals leak buffers until the pool is dry, but never share one |
| `gpu_3d` | one submitting thread, in-order device; 31 thousand | ReleaseCmdBuffer finds its buffer |
| `resources` | two ids, two memory regions, three shapes, five commands in flight, any allocation may fail; 2.8 million | until one fails, all of `GpuResources`' properties; whatever fails, freed memory is withdrawn |
| `vidpn` | two paths, three modes with one size twice, up to two failing callbacks; 1.0 million | borrowed objects go back once, the sets have the modes they should, offers are accepted, a commit refused before its first path changes nothing |
| `display` | a suitable standard size, one that is not, the two slots; two sizes of the host's display, or none; two changes; 11.9 million | what is drawn fits, a standard mode is shown always and an offered custom one past one store of `m_CustomMode`, the host's size is offered |
| `lifecycle` | four places for queues, two commands, one change, one power cycle; 1.0 million | whichever step fails, the device has no memory that is gone; the flags tell the truth; removal ends; the ways in which memory can be misused are the listed ones |

Why the bounds suffice: a ring of three reaches full, empty, wrap and refusal in every
combination of the four kinds of buffer the driver posts, and its free list every
order, with a chain of three across each. For notification, a modulus of twice the
ring is the least the library allows: all comparisons of indexes happen across the
wrap, and `num_added` wraps if nobody kicks. For the pool, one more command than fits is
all an overrun needs; two clients, the worker and one DPC give every pair of actors.
The first initialisation of a power-up leaves two queues allocated for good and the
second adds two, so four places hold whatever can exist at once. For resources, a
queue of five holds a whole destruction and the start of a creation by the other
thread, and with two ids each one given back is the next taken. `MAX_CHILDREN` is 1 in
the source; the run of `VidPn` has 2, so that the loops over paths go round and a failure
on the second path follows a success on the first; two failures are a callback and its
cleanup. The sizes of `DisplayModes` include one below the least width, and after clamping some that
differ in one coordinate and some in both, so half-written entries are sizes of neither
setter; two changes are what it takes to overwrite both slots, or for one setter to be
overtaken by another between its store of `m_CustomMode` and its reading back.

Deadlock is checked in all runs but four. `lifecycle` ends when the adapter is gone,
`display` when the driver is stopped. `gpu_overrun` stops where a null buffer is
written to. In `gpu_3d` the interrupt routine may leave
completions that met a change uncollected, with nothing else to do; `gpu_change`
shows that with one change, raised the way QEMU raises it, the worker's query still
collects them.

Where the code does not do what it should, the properties name the case as a premise,
as listed with the modules above. Five more cases, outside what the runs promise:

- two threads that submit 3D commands insert in `m_3dCmdBuf` in one order and may post
  in the other; the assertions of ReleaseCmdBuffer (`viogpu_queue.cpp:584` and 595) fail
  then. `gpu_3d` has one such thread;
- an interrupt that reports a change and a completion serves the change only
  (`viogpudo.cpp:3433`). The worker's own query makes up for the first such; a second
  one, while the query is in flight, leaves both threads waiting. `gpu_change` has one;
- a pointer shape's UPDATE_CURSOR can be overtaken by the destruction of its resource for
  the next shape, since the two go through different queues (`viogpudo.cpp:2956`, 3729);
  the run assumes that the cursor queue is
  empty when a new shape is set (`CursorKeepsUp`);
- a device that raises the configuration bit of the ISR register without the queue bit,
  as the standard has it, is ignored (`InterruptUnknown`, which `gpu_3d` reaches);
- a frame buffer whose memory could not be attached keeps the id 0, which `PutId` then
  clears although it is reserved (the premise `~failed` of `PutIdUnlessFailed`).

An id that virtqueue_get_buf refuses stays in the used ring: the queue collects
nothing more until it is reset.

## 4. Fairness

Only `GpuQueues` has liveness properties. Weak fairness is assumed of each thread
that is in the middle of a call (the scheduler runs it), of the worker, of interrupt
delivery, of each DPC, and of the device: it takes what it was told of and completes
what it took. Nothing makes a client begin a call or the display change. A queue the
device was not notified of is not served: `Kick` matters. What `VirtqueueEvents` must not lose is
stated as safety: who sleeps is being told. `DisplayModes` states what holds when all is
quiet.

## 5. What is proved

A theorem holds for every value of the constants that satisfies the module's named
assumptions: ring sizes, numbers of buffers, threads, modes, failures. Each proof rests
on an inductive invariant, named below. The theorems state every property that the
runs check, but for liveness: the invariants, the action property and the refinement.

### Virtqueue (`VirtqueueProofs`)

- `TypeCorrect`, `AccountingCorrect`: for every ring size, request shape and device,
  `TypeOK` and `DescriptorAccounting` hold, from a positive ring size that divides the
  index modulus and requests that fit the ring (the source's BUG_ONs). The
  inductive invariant partitions the table into the free list and the chains of
  posted heads, each followed by `next` with an explicit length; what `Follow` reaches
  is related before and after a step by induction over an interval.
- `OnePlaceCorrect`, under the hypothesis `BadIds = {}` (the device returns only what it
  was given, as `OnePlace` itself says): `PlaceInv` counts the windows of the two rings
  between their indexes, and says that the heads in them, those the device holds and the
  one not yet published are distinct and are all that is posted. The arithmetic is that
  of a window on a circle: what it contains when it grows at one end and shrinks at the
  other.
- `WholeBufferCorrect`, same hypothesis: `DescribeInv` says what every posted chain, direct
  or indirect, describes; an operation on one chain writes no descriptor of another.
- `ExchangeImplemented`, same hypothesis: every step of `Virtqueue` is a step of
  `BufferExchange` under the mapping of `VirtqueueRefinement`, or none. One lemma per action.
  The mapped queues are the tokens in the rings' windows, as sequences; the
  abstract room is a sum over the tokens lent out, equal to the descriptors in use
  (`TokenInv`, and the lemmas on sums in `NumberSets`).

### VirtqueueEvents (`VirtqueueEventsProofs`)

- `DeviceToldCorrect`, `DriverToldCorrect`: no kick and no interrupt that a sleeper needs is
  suppressed, for every ring and every index width that holds two rings. `RingInv`
  orders the positions of both sides; `KickInv` says that a sleeping device has its
  position as the event index; `CallInv` that the driver's event index is `threshold` ahead
  of it and what the device considered beyond it has raised an interrupt. `NeedEventIs`
  proves `vring_need_event`'s comparison right across the wrap.

### GpuQueues (`GpuQueuesProofs`)

The theorems on who has a buffer have one hypothesis, `SettlesFirst`: the worker, once
its event is set, resumes after the DPC that set it has decided who releases the command.
The code leaves this to the scheduler, and without it `OneOwner` is false (section 2).
Two theorems say when it holds: `ThreadsYieldSettles`, where no thread runs beside a
DPC, as on one processor; `NoChangeSettles`, on any number of them, for a device that
reports no change of the display. They take it from the same invariant, so nothing is
assumed about other threads: presenting threads may run between any two steps of a DPC.

- `OneOwnerCorrect`, `WokenCorrect` (with `OwnerCorrect`): every pool, any rings, clients,
  programs and processors. `OwnerInv` says of each place a buffer can be in (free list, in
  a thread's hands, available, held, used, in a DPC's hands) what the buffer looks like
  there, and `Apart` that it is in one place; `WakeInv` and `SettleInv` pair a set event with
  the DPC that set it. A step moves at most one buffer (`Kept`, `Dropped`, `Handed`).
- `TypeCorrect`: also that no ring is overfilled. The load of a ring is the sum of what the
  buffers posted in it cost.
- `NothingLostCorrect`, under the runs' `KeepsUp`: `RoomInv` reserves the room of
  those who have a buffer and have not posted it yet, so that no post is refused; `Placed`
  says that every buffer is in some place.
- `AllocCorrect`, under `KeepsUp`: a thread that asks the pool for a buffer gets one,
  if less than half as many DPCs run at once as the control ring has entries. A
  control command takes two descriptors or more, so half the pool cannot be in the rings;
  the rest is counted over the threads and DPCs that can have one.
- `ReleasedCorrect`, under `KeepsUp`, an in-order device and one submitting thread
  (section 3 says why): a completed 3D command is taken off `m_3dCmdBuf` and freed.
  `OrderInv` says that the list holds exactly the commands that are somewhere: the DPC's is
  the first, the one not posted yet the last, and the queue's used, held and available
  parts in a row have the rest in the list's order. Taking and completing leave that row
  as it is, posting adds at its end, collecting removes its first.

### GpuResources (`GpuResourcesProofs`)

- `TypeCorrect`, with any allocation failing. Strengthened by `IdKnown`: a thread
  about to name an object has its id.
- `IdsCorrect`, `PutIdCorrect`: until an allocation fails, the bitmap marks what is held,
  nothing is held twice, and the assertion of `PutId` holds. Inductive only with
  `Handover`: before a destruction thread and object have the same id, before `GetId`
  neither has one. Then at most one id is held by others when `GetId` is called, so a
  bitmap with room for two has a clear bit.
- `CommandsCorrect`, `HostCorrect`, `PointerCorrect`: until an allocation fails, the host accepts
  every command, agrees with the driver when all is quiet, and SetPointerPosition finds
  its object. `Belief` is the host as the positions of the two threads imply it will
  be; `HostInv` says that the control queue leads there: there are intermediate states,
  the first the host's, the last `Belief`, such that each command is accepted in one and
  leads to the next.
- `CursorCorrect`: the pointer the host shows has the shape last set, under the run's
  condition `CursorKeepsUp` (section 3). `CursorInv` follows the one event that
  tells the pointer's thread that its transfer is done.
- `WithdrawCorrect`: whatever allocation fails, freed memory is being withdrawn.
  `BackingInv` pairs each region the host has, or will have, with an object that
  holds it or with the later command that takes it away.

### DeviceLifecycle (`DeviceLifecycleProofs`)

- `TypeCorrect`, `MemoryCorrect`, `WorkerCorrect`: for every number of rings, commands, changes
  and power cycles, whichever steps fail. `DeviceInv` says up to which step of which call
  a running device has its queues; `WorkerInv` that only `join` passes a worker.
- `FaultCorrect`, `TruthCorrect`, `JoinCorrect`: `Healthy` is a table with what is live, still and
  silent at each step of each call, until a cause listed in `disturbed` happens: the list
  of section 2 is complete for every instance, not only for the run's.

### VidPn (`VidPnProofs`)

- `GivenBackOnceCorrect`, `SuccessCorrect`, `CurrentCorrect`, `WholeListCorrect`: for every number of
  paths and modes and any number of failing callbacks. `PlaceInv` lists the places the
  calls can be in; `ObjectInv` says for each which local variables name an object
  (`Named`), that no two name the same and nothing live is unnamed (`Owned`), and at each label
  of the cleanup that what is left is released further on (`ExitInv`); `CurrentInv` and
  `FillInv` follow the current mode through a commit and the three mode sets through their
  loops.
- `OfferCorrect`, under the hypothesis `PathsOffered`: every path dxgkrnl pins has a
  transformation the offer of an enumeration can have. The hypothesis is about the
  constant that lists dxgkrnl's VidPns, and the run's instance satisfies it.

### DisplayModes (`DisplayModesProofs`)

For every list of standard sizes, every display and any number of changes, escapes and
commits, with no hypothesis: what can go wrong is in the properties' own exceptions.

- `DrawsCorrect`: `EntryInv` says that an entry no setter is in, and no two met in, has the
  stride of its width; `CommitInv` says what a commit has read at each of its steps unless
  it is raced, and that one that succeeded has left the frame buffer as large as the
  current mode.
- `CommittedCorrect`: `KeptInv` says that while `m_CustomMode` was stored at most once since
  dxgkrnl began to read the list, no setter writes to `KeptSlot`, the custom slot that the
  store did not take, nor will it; that every size dxgkrnl kept is there or in a standard
  entry; and that the search for a chosen size is not beyond its entry. `StandardInv` says
  that standard entries stay and that the search for one does not pass it.
- `HostSizeCorrect`: `HostInv` says where the size of the display is (to be asked for, in the
  hands of a setter, or in the newest slot), `AloneInv` that a setter that meets no
  other writes its size into the newest slot, `OfferInv` that dxgkrnl has what is there
  or will read the list again.

### Only model-checked

Liveness under fairness (`BuffersComeBack`, `TransferWaitEnds`, `ChangeIsNoticed`) and ENABLED
are beyond the prover. What the recursive function `Follow` computes is proved only as
far as the facts above need it.

## 6. Plan

In order; each with the run or theorem it is for.

1. `PnpPatch`: the patched PnP entry of `driver.cpp` with two adapters.
2. `Rectangles` and `ScatterLists`: FindUpdateRect, BltBits' rotations, BuildSGElement
   and the page lists, as functions compared to reference definitions.
3. `TransportInit`: the walk over the PCI capabilities and the mapping of bars, as functions.

## 7. Not modelled, and why

Build files, packaging and debug output have no behaviour. The VGA adapter, which
one build flag selects, drives the BIOS through operating system calls and keeps no protocol
state. `baseobj.cpp` wraps the kernel's allocator, `viogpu_pci.cpp` its bus interface;
that bars may fail to map is part of `DeviceLifecycle`. The legacy transport cannot
succeed, since the driver requires `VIRTIO_F_VERSION_1`. The object escapes always fail
(their `object` is null when tested, or the result is overwritten with
STATUS_NOT_IMPLEMENTED). Queries that answer with constants, registry strings, contents
of commands other than ids, pixels, scanlines and timing are abstracted everywhere.
The branch of `VioGpuDod::SetPowerState` for the return from D3 (`viogpudo.cpp:280`) is dead:
`m_AdapterPowerState` is never anything but D0.
