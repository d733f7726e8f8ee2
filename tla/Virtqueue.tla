------------------------------ MODULE Virtqueue ------------------------------
(***************************************************************************)
(* The split virtqueue of VirtIO/VirtIORing.c: a table of descriptors that *)
(* the driver links into a free list and into one chain per posted buffer, *)
(* an "available" ring through which it hands chains to the device, and a  *)
(* "used" ring through which the device hands them back.                   *)
(*                                                                         *)
(* The driver's operations are serialised by its caller (the comments in   *)
(* the source require it; viogpudo holds a spin lock), so one variable pc  *)
(* is the driver's position.  virtqueue_add_buf is split at its write      *)
(* barrier: the device runs on its own and may look at the rings between   *)
(* the filling of the descriptors and the store to avail->idx.             *)
(*                                                                         *)
(* avail->idx and its shadow avail_idx_shadow are stored in one step, and  *)
(* are one variable here.  Notification (num_added, the event indexes and  *)
(* flags) touches none of these variables and is left out.                 *)
(*                                                                         *)
(* A few definitions are followed or preceded by a faulty variant of       *)
(* themselves; no action uses one.  They are the mutants that show each    *)
(* property can fail.                                                      *)
(***************************************************************************)
EXTENDS Naturals, FiniteSets

CONSTANTS Num,      \* vring.num, the number of descriptors
          IdxMod,   \* ring indexes are counted modulo this (2^16 in the code)
          Bufs,     \* the tokens (void *data) that callers post
          Req,      \* Req[b]: the scatter list that goes with token b
          NULL,     \* the null pointer
          BadIds    \* ids a faulty device may return without owning them

ASSUME NumAssumption == Num \in Nat \ {0}

\* vring_new_virtqueue wants a power of two below 2^16: all that is used of it
\* is that the ring size divides the index modulus and is smaller.
ASSUME IdxModAssumption ==
    IdxMod \in Nat /\ \E k \in 2..IdxMod : IdxMod = k * Num

\* The three BUG_ONs of virtqueue_add_buf on its arguments.
ASSUME BufsAssumption ==
    /\ NULL \notin Bufs
    /\ Req \in [Bufs -> [out : 0..Num, in : 0..Num, indirect : BOOLEAN]]
    /\ \A b \in Bufs : Req[b].out + Req[b].in \in 1..Num

\* The null pointer is no segment's address.
ASSUME NullAssumption == NULL \notin [buf : Bufs, first : 1..Num, last : 1..Num]

ASSUME BadIdsAssumption == BadIds \subseteq Nat

VARIABLES desc,           \* the descriptor table
          free_head,      \* head of the free list, meaningless when num_free = 0
          num_free,
          data,           \* data[head]: the token of the chain that starts at head
          avail_ring, avail_idx,
          used_ring, used_idx,        \* written by the device only
          last_used_idx,
          pc,             \* "idle", or "publish" in the middle of add_buf
          ret,            \* what the driver's last operation returned
          phase,          \* "running", or "stopped" once the device was reset
          dev_avail,      \* the device's position in the available ring
          held            \* heads the device took and has not returned

driver == <<desc, free_head, num_free, data, avail_ring, avail_idx,
            last_used_idx, pc, ret>>
device == <<used_ring, used_idx, dev_avail, held>>
vars == <<driver, device, phase>>

-----------------------------------------------------------------------------
Descs == 0 .. (Num - 1)
Flags == {"NEXT", "WRITE", "INDIRECT"}
Idx == 0 .. (IdxMod - 1)

Slot(i) == i % Num
Succ(i) == (i + 1) % IdxMod
Pred(i) == (i + IdxMod - 1) % IdxMod
Distance(from, to) == (to + IdxMod - from) % IdxMod

\* A descriptor points at segments first..last of the scatter list of buf.
Addr == [buf : Bufs, first : 1..Num, last : 1..Num] \cup {NULL}
Descriptor == [addr : Addr, flags : SUBSET Flags, next : Descs]

Segs(b) == Req[b].out + Req[b].in
Heads == {h \in Descs : data[h] # NULL}
Outstanding == {data[h] : h \in Heads}

\* The descriptors met when the next fields of a table are followed.
Follow(table, from) ==
    LET walk[k \in 1..Num] == IF k = 1 THEN from ELSE table[walk[k - 1]].next
    IN  walk

\* n descriptors long is the chain of head: NEXT is set in all but the last.
ChainLength(table, head, n) ==
    \A k \in 1..n : "NEXT" \in table[Follow(table, head)[k]].flags <=> k < n

TypeOK ==
    /\ desc \in [Descs -> Descriptor]
    /\ free_head \in Descs
    /\ num_free \in 0..Num
    /\ data \in [Descs -> Bufs \cup {NULL}]
    /\ avail_ring \in [Descs -> Descs]
    /\ avail_idx \in Idx
    /\ used_ring \in [Descs -> Descs \cup BadIds]
    /\ used_idx \in Idx
    /\ last_used_idx \in Idx
    /\ pc \in {"idle", "publish"}
    /\ ret \in Bufs \cup {NULL, "OK", "ENOSPC"}
    /\ phase \in {"running", "stopped"}
    /\ dev_avail \in Idx
    /\ held \subseteq Descs

FreshDesc ==
    [d \in Descs |-> [addr |-> NULL, flags |-> {},
                      next |-> IF d + 1 \in Descs THEN d + 1 ELSE 0]]

Init ==
    /\ desc = FreshDesc
    /\ free_head = 0
    /\ num_free = Num
    /\ data = [d \in Descs |-> NULL]
    /\ avail_ring = [d \in Descs |-> 0] /\ avail_idx = 0
    /\ used_ring = [d \in Descs |-> 0] /\ used_idx = 0
    /\ last_used_idx = 0
    /\ pc = "idle" /\ ret = NULL
    /\ phase = "running"
    /\ dev_avail = 0 /\ held = {}

-----------------------------------------------------------------------------
(* virtqueue_add_buf                                                       *)

UsesIndirect(b) == Req[b].indirect /\ Segs(b) > 1 /\ num_free > 0

\* Descriptors that b takes out of the free list.
Cost(b) == IF UsesIndirect(b) THEN 1 ELSE Segs(b)

HasRoomOffByOne(b) == num_free + 1 >= Cost(b)
HasRoom(b) == num_free >= Cost(b)

FilledUncut(b, k, d) ==      \* the last NEXT is not cleared
    [addr |-> [buf |-> b, first |-> k, last |-> k],
     flags |-> {"NEXT"} \cup {f \in {"WRITE"} : k > Req[b].out},
     next |-> desc[d].next]

\* Descriptor d once it is the k-th of b's chain; "next" is left alone.
Filled(b, k, d) ==
    IF UsesIndirect(b)
    THEN [addr |-> [buf |-> b, first |-> 1, last |-> Segs(b)],
          flags |-> {"INDIRECT"},
          next |-> desc[d].next]
    ELSE [addr |-> [buf |-> b, first |-> k, last |-> k],
          flags |-> {f \in {"NEXT"} : k < Cost(b)}
                      \cup {f \in {"WRITE"} : k > Req[b].out},
          next |-> desc[d].next]

\* Up to the write barrier.
AddBuf(b) ==
    /\ phase = "running" /\ pc = "idle"
    /\ b \notin Outstanding
    /\ HasRoom(b)
    /\ LET chain == Follow(desc, free_head)
           filled == [k \in 1..Cost(b) |-> Filled(b, k, chain[k])]
       IN  /\ desc' = [d \in Descs |->
                         IF \E k \in 1..Cost(b) : chain[k] = d
                         THEN filled[CHOOSE k \in 1..Cost(b) : chain[k] = d]
                         ELSE desc[d]]
           /\ free_head' = desc[chain[Cost(b)]].next
    /\ num_free' = num_free - Cost(b)
    /\ data' = [data EXCEPT ![free_head] = b]
    /\ avail_ring' = [avail_ring EXCEPT ![Slot(avail_idx)] = free_head]
    /\ pc' = "publish"
    /\ UNCHANGED <<avail_idx, last_used_idx, ret, device, phase>>

\* After the write barrier.
AddBufPublish ==
    /\ pc = "publish"
    /\ avail_idx' = Succ(avail_idx)
    /\ pc' = "idle"
    /\ ret' = "OK"
    /\ UNCHANGED <<desc, free_head, num_free, data, avail_ring, last_used_idx,
                   device, phase>>

AddBufNoSpace(b) ==
    /\ phase = "running" /\ pc = "idle"
    /\ b \notin Outstanding
    /\ ~HasRoom(b)
    /\ ret' = "ENOSPC"
    /\ UNCHANGED <<desc, free_head, num_free, data, avail_ring, avail_idx,
                   last_used_idx, pc, device, phase>>

-----------------------------------------------------------------------------
(* virtqueue_get_buf                                                       *)

MoreUsedWithoutWrap == last_used_idx < used_idx
MoreUsed == last_used_idx # used_idx

DetachUncounted(head) ==      \* "plus final descriptor" is forgotten
    \E n \in 1..Num :
        /\ ChainLength(desc, head, n)
        /\ desc' = [desc EXCEPT ![Follow(desc, head)[n]].next = free_head]
        /\ free_head' = head
        /\ num_free' = num_free + n - 1
        /\ data' = [data EXCEPT ![head] = NULL]

\* detach_buf: the chain of head goes back to the front of the free list.
Detach(head) ==
    \E n \in 1..Num :
        /\ ChainLength(desc, head, n)
        /\ desc' = [desc EXCEPT ![Follow(desc, head)[n]].next = free_head]
        /\ free_head' = head
        /\ num_free' = num_free + n
        /\ data' = [data EXCEPT ![head] = NULL]

UsedId == used_ring[Slot(last_used_idx)]
IsHeadUnchecked(id) == id \in Descs
IsHead(id) == id \in Descs /\ data[id] # NULL

GetBuf ==
    /\ phase = "running" /\ pc = "idle"
    /\ MoreUsed
    /\ IsHead(UsedId)
    /\ Detach(UsedId)
    /\ last_used_idx' = Succ(last_used_idx)
    /\ ret' = data[UsedId]
    /\ UNCHANGED <<avail_ring, avail_idx, pc, device, phase>>

\* Nothing used, or BAD_RING: NULL, and last_used_idx stays where it is.
GetBufNull ==
    /\ phase = "running" /\ pc = "idle"
    /\ MoreUsed => ~IsHead(UsedId)
    /\ ret' = NULL
    /\ UNCHANGED <<desc, free_head, num_free, data, avail_ring, avail_idx,
                   last_used_idx, pc, device, phase>>

-----------------------------------------------------------------------------
(* virtqueue_detach_unused_buf and virtqueue_shutdown, for a queue whose   *)
(* device was reset                                                        *)

DetachUnusedBuf ==
    /\ phase = "stopped" /\ pc = "idle"
    /\ \E head \in Heads :
          /\ \A h \in Heads : head <= h
          /\ Detach(head)
          /\ ret' = data[head]
    /\ avail_idx' = Pred(avail_idx)
    /\ UNCHANGED <<avail_ring, last_used_idx, pc, device, phase>>

DetachUnusedBufNone ==
    /\ phase = "stopped" /\ pc = "idle"
    /\ Heads = {}
    /\ ret' = NULL
    /\ UNCHANGED <<desc, free_head, num_free, data, avail_ring, avail_idx,
                   last_used_idx, pc, device, phase>>

ShutdownKeepsIndex ==         \* last_used_idx survives the reset
    /\ phase = "stopped" /\ pc = "idle"
    /\ desc' = FreshDesc
    /\ free_head' = 0
    /\ num_free' = Num
    /\ data' = [d \in Descs |-> NULL]
    /\ avail_ring' = [d \in Descs |-> 0] /\ avail_idx' = 0
    /\ used_ring' = [d \in Descs |-> 0] /\ used_idx' = 0
    /\ phase' = "running"
    /\ UNCHANGED <<last_used_idx, pc, ret, dev_avail, held>>

\* The queue is as initialize_virtqueue made it; the device may start again.
Shutdown ==
    /\ phase = "stopped" /\ pc = "idle"
    /\ desc' = FreshDesc
    /\ free_head' = 0
    /\ num_free' = Num
    /\ data' = [d \in Descs |-> NULL]
    /\ avail_ring' = [d \in Descs |-> 0] /\ avail_idx' = 0
    /\ used_ring' = [d \in Descs |-> 0] /\ used_idx' = 0
    /\ last_used_idx' = 0
    /\ phase' = "running"
    /\ UNCHANGED <<pc, ret, dev_avail, held>>

-----------------------------------------------------------------------------
(* The device: it takes available chains in order and returns them in any  *)
(* order.                                                                  *)

DevFetch ==
    /\ phase = "running"
    /\ dev_avail # avail_idx
    /\ held' = held \cup {avail_ring[Slot(dev_avail)]}
    /\ dev_avail' = Succ(dev_avail)
    /\ UNCHANGED <<driver, used_ring, used_idx, phase>>

DevWriteUsed(id) ==
    /\ used_ring' = [used_ring EXCEPT ![Slot(used_idx)] = id]
    /\ used_idx' = Succ(used_idx)
    /\ UNCHANGED <<driver, dev_avail, phase>>

DevUse(head) ==
    /\ phase = "running"
    /\ head \in held
    /\ held' = held \ {head}
    /\ DevWriteUsed(head)

\* A used element for an id the device was not given (room permitting).
DevUseBadId(id) ==
    /\ phase = "running"
    /\ ~IsHead(id)
    /\ Distance(last_used_idx, used_idx) < Num
    /\ DevWriteUsed(id)
    /\ UNCHANGED held

\* A reset through the status register: the device forgets the queue.
DevReset ==
    /\ phase = "running"
    /\ phase' = "stopped"
    /\ dev_avail' = 0
    /\ held' = {}
    /\ UNCHANGED <<driver, used_ring, used_idx>>

Next ==
    \/ \E b \in Bufs : AddBuf(b) \/ AddBufNoSpace(b)
    \/ AddBufPublish
    \/ GetBuf \/ GetBufNull
    \/ DetachUnusedBuf \/ DetachUnusedBufNone \/ Shutdown
    \/ DevFetch \/ DevReset
    \/ \E head \in Descs : DevUse(head)
    \/ \E id \in BadIds : DevUseBadId(id)

Spec == Init /\ [][Next]_vars
-----------------------------------------------------------------------------
(* Properties                                                              *)

\* The n descriptors of the free list and the len[h] descriptors of the chain of
\* each posted head are all different, and are all the descriptors there are.
Partition(table, first, n, heads, len) ==
    LET free == Follow(table, first)
        chain(h) == Follow(table, h)
    IN  /\ \A j, k \in 1..n : free[j] = free[k] => j = k
        /\ \A h \in heads :
              /\ ChainLength(table, h, len[h])
              /\ \A j, k \in 1..len[h] : chain(h)[j] = chain(h)[k] => j = k
              /\ \A j \in 1..len[h], k \in 1..n : chain(h)[j] # free[k]
              /\ \A g \in heads \ {h} :
                    \A j \in 1..len[h], k \in 1..len[g] : chain(h)[j] # chain(g)[k]
        /\ \A d \in Descs :
              \/ \E k \in 1..n : d = free[k]
              \/ \E h \in heads : \E k \in 1..len[h] : d = chain(h)[k]

\* Every descriptor is in the free list or in the chain of exactly one posted
\* buffer, the pointers of each reach all of it, and num_free counts the free
\* list: virtqueue_add_buf and detach_buf neither lose a descriptor nor give it
\* out twice, in whatever order the device returns the chains.
DescriptorAccounting ==
    /\ num_free <= Num
    /\ \E len \in [Heads -> 1..Num] :
          Partition(desc, free_head, num_free, Heads, len)

\* The heads in the part of a ring between two indexes.
Window(ring, from, to) ==
    {ring[Slot((from + k) % IdxMod)] : k \in {j \in 0..(Num - 1) : j < Distance(from, to)}}
Available == Window(avail_ring, dev_avail, avail_idx)
Used == Window(used_ring, last_used_idx, used_idx)
Unpublished == {h \in Descs : pc = "publish" /\ h = avail_ring[Slot(avail_idx)]}

\* While the device runs, every posted chain is in exactly one of: being
\* posted, available, held by the device, used; no slot of a ring is
\* overwritten before the other side has read it.
OnePlace ==
    phase = "running" =>
        /\ Heads = Unpublished \cup Available \cup held \cup Used
        /\ Distance(dev_avail, avail_idx) = Cardinality(Available)
        /\ Distance(last_used_idx, used_idx) = Cardinality(Used)
        /\ Cardinality(Heads) = Cardinality(Unpublished) + Cardinality(Available)
                                  + Cardinality(held) + Cardinality(Used)

\* The n descriptors from head tell the device the whole scatter list of b, in
\* order, with the device-writable part after the readable one.
Describes(table, head, n, b) ==
    LET at(k) == table[Follow(table, head)[k]] IN
    /\ \A k \in 1..n : at(k).addr # NULL /\ at(k).addr.buf = b
    /\ at(1).addr.first = 1
    /\ at(n).addr.last = Segs(b)
    /\ \A k \in 1..(n - 1) : at(k + 1).addr.first = at(k).addr.last + 1
    /\ \A k \in 1..n : "INDIRECT" \notin at(k).flags =>
          ("WRITE" \in at(k).flags <=> at(k).addr.first > Req[b].out)

\* Whenever the device may read a chain (from the store to avail->idx until it
\* returns the chain), the descriptors describe the buffer that was posted.
DeviceSeesWholeBuffer ==
    phase = "running" =>
      \A h \in Available \cup held :
        \E n \in 1..Num : ChainLength(desc, h, n) /\ Describes(desc, h, n, data[h])
=============================================================================
