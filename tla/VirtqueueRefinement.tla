------------------------- MODULE VirtqueueRefinement -------------------------
(***************************************************************************)
(* The descriptor table and the rings of Virtqueue implement the exchange  *)
(* of tokens that BufferExchange promises, as long as the device returns   *)
(* what it was given (BadIds = {}).                                        *)
(***************************************************************************)
EXTENDS Virtqueue, Sequences

\* The tokens in a ring, from one index up to another, in ring order.
Tokens(ring, from, to) ==
    IF phase = "running"
    THEN [k \in 1..Distance(from, to) |-> data[ring[Slot((from + k - 1) % IdxMod)]]]
    ELSE <<>>

Exchange ==
    INSTANCE BufferExchange WITH
        Capacity <- Num,
        lent     <- {data[h] : h \in Heads \ Unpublished},
        avail    <- Tokens(avail_ring, dev_avail, avail_idx),
        atDevice <- {data[h] : h \in held},
        used     <- Tokens(used_ring, last_used_idx, used_idx)

\* Tokens reach the device in the order of virtqueue_add_buf and come back from
\* virtqueue_get_buf in the order the device used them, none lost, none twice;
\* -ENOSPC means exactly that the chains that are out leave too few descriptors.
ImplementsExchange == Exchange!Spec
=============================================================================
