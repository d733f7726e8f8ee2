------------------------ MODULE VirtqueueEventsProofs ------------------------
(***************************************************************************)
(* That no notification is lost in VirtIORing.c (VirtqueueEvents), for     *)
(* every ring size and every width of the indexes that holds two rings.    *)
(*                                                                         *)
(* The arithmetic comes first: what Distance, Succ and vring_need_event    *)
(* are without the modulus. NeedEventIs is the heart of it: the event      *)
(* index is crossed exactly when it is nearer to the new index than the    *)
(* old one is, wrapping or not.                                            *)
(*                                                                         *)
(* EventsInv then says how far apart the positions are. KickInv has the    *)
(* device's half: one that sleeps has its position as the event index, so  *)
(* that a kick is suppressed only if there is nothing between that         *)
(* position and the last kick. CallInv has the driver's half: the event    *)
(* index is threshold ahead of the driver, and what the device has         *)
(* considered beyond it has raised an interrupt. The second look of both   *)
(* sides, after they have asked to be told, is what makes the two hold     *)
(* when they fall asleep.                                                  *)
(***************************************************************************)
EXTENDS VirtqueueEvents, TLAPS

-----------------------------------------------------------------------------
(* Counting modulo IdxMod                                                  *)

\* The indexes are counted modulo something that holds two rings.
LEMMA Modulus == IdxMod \in Nat /\ Num \in Nat /\ Num >= 1 /\ 2 * Num <= IdxMod /\ IdxMod >= 2
BY NumAssumption

\* The modulus does nothing to small numbers.
LEMMA Mod0 == ASSUME NEW x \in Nat, x < IdxMod PROVE x % IdxMod = x
BY Modulus
\* One turn is taken off.
LEMMA Mod1 == ASSUME NEW x \in Nat, x < IdxMod PROVE (x + IdxMod) % IdxMod = x
BY Modulus
\* Two turns are taken off.
LEMMA Mod2 == ASSUME NEW x \in Nat, x < IdxMod PROVE (x + 2 * IdxMod) % IdxMod = x
BY Modulus

\* The next index.
LEMMA SuccIs ==
    ASSUME NEW i \in Idx
    PROVE  Succ(i) = (IF i = IdxMod - 1 THEN 0 ELSE i + 1) /\ Succ(i) \in Idx
<1>1. i \in Nat /\ i < IdxMod
  BY Modulus DEF Idx
<1>2. CASE i = IdxMod - 1
  <2>1. (i + 1) % IdxMod = 0
    BY <1>2, Modulus, Mod1
  <2>. QED
    BY <1>2, <2>1, Modulus DEF Succ, Idx
<1>3. CASE i # IdxMod - 1
  <2>1. i + 1 \in Nat /\ i + 1 < IdxMod
    BY <1>1, <1>3, Modulus
  <2>2. (i + 1) % IdxMod = i + 1
    BY <2>1, Mod0
  <2>. QED
    BY <1>3, <2>1, <2>2, Modulus DEF Succ, Idx
<1>. QED
  BY <1>2, <1>3

\* The distance between two indexes, forward.
LEMMA DistanceIs ==
    ASSUME NEW a \in Idx, NEW b \in Idx
    PROVE  /\ Distance(a, b) = IF a <= b THEN b - a ELSE b + IdxMod - a
           /\ Distance(a, b) \in Idx
<1>1. a \in Nat /\ a < IdxMod /\ b \in Nat /\ b < IdxMod
  BY Modulus DEF Idx
<1>2. CASE a <= b
  <2>1. b - a \in Nat /\ b - a < IdxMod /\ b + IdxMod - a = (b - a) + IdxMod
    BY <1>1, <1>2, Modulus
  <2>2. (b + IdxMod - a) % IdxMod = b - a
    BY <2>1, Mod1
  <2>. QED
    BY <1>2, <2>1, <2>2, Modulus DEF Distance, Idx
<1>3. CASE ~(a <= b)
  <2>1. b + IdxMod - a \in Nat /\ b + IdxMod - a < IdxMod
    BY <1>1, <1>3, Modulus
  <2>2. (b + IdxMod - a) % IdxMod = b + IdxMod - a
    BY <2>1, Mod0
  <2>. QED
    BY <1>3, <2>1, <2>2, Modulus DEF Distance, Idx
<1>. QED
  BY <1>2, <1>3

\* An index some steps on.
LEMMA OffsetIs ==
    ASSUME NEW a \in Idx, NEW t \in Idx
    PROVE  /\ (a + t) % IdxMod = IF a + t < IdxMod THEN a + t ELSE a + t - IdxMod
           /\ (a + t) % IdxMod \in Idx
<1>1. a \in Nat /\ a < IdxMod /\ t \in Nat /\ t < IdxMod
  BY Modulus DEF Idx
<1>2. CASE a + t < IdxMod
  <2>1. a + t \in Nat
    BY <1>1
  <2>2. (a + t) % IdxMod = a + t
    BY <1>2, <2>1, Mod0
  <2>. QED
    BY <1>2, <2>1, <2>2, Modulus DEF Idx
<1>3. CASE ~(a + t < IdxMod)
  <2>1. a + t - IdxMod \in Nat /\ a + t - IdxMod < IdxMod /\ a + t = (a + t - IdxMod) + IdxMod
    BY <1>1, <1>3, Modulus
  <2>2. (a + t) % IdxMod = a + t - IdxMod
    BY <2>1, Mod1
  <2>. QED
    BY <1>3, <2>1, <2>2, Modulus DEF Idx
<1>. QED
  BY <1>2, <1>3

\* vring_need_event: the index after the event index is nearer to the new index than the
\* old one is.
LEMMA NeedEventIs ==
    ASSUME NEW e \in Idx, NEW n \in Idx, NEW o \in Idx
    PROVE  NeedEvent(e, n, o) <=> Distance(Succ(e), n) < Distance(o, n)
<1>1. e \in Nat /\ e < IdxMod /\ n \in Nat /\ n < IdxMod
  BY Modulus DEF Idx
<1>2. Succ(e) = (IF e = IdxMod - 1 THEN 0 ELSE e + 1) /\ Succ(e) \in Idx
  BY SuccIs
<1>3. Distance(Succ(e), n) = IF Succ(e) <= n THEN n - Succ(e) ELSE n + IdxMod - Succ(e)
  BY <1>2, DistanceIs
<1>4. (n + 2 * IdxMod - e - 1) % IdxMod = Distance(Succ(e), n)
  <2>1. CASE n >= e + 1
    <3>1. n - e - 1 \in Nat /\ n - e - 1 < IdxMod
          /\ n + 2 * IdxMod - e - 1 = (n - e - 1) + 2 * IdxMod
      BY <1>1, <2>1, Modulus
    <3>2. (n + 2 * IdxMod - e - 1) % IdxMod = n - e - 1
      BY <3>1, Mod2
    <3>. QED
      BY <1>1, <1>2, <1>3, <2>1, <3>2, Modulus
  <2>2. CASE ~(n >= e + 1)
    <3>1. n + IdxMod - e - 1 \in Nat /\ n + IdxMod - e - 1 < IdxMod
          /\ n + 2 * IdxMod - e - 1 = (n + IdxMod - e - 1) + IdxMod
      BY <1>1, <2>2, Modulus
    <3>2. (n + 2 * IdxMod - e - 1) % IdxMod = n + IdxMod - e - 1
      BY <3>1, Mod1
    <3>. QED
      BY <1>1, <1>2, <1>3, <2>2, <3>2, Modulus
  <2>. QED
    BY <2>1, <2>2
<1>. QED
  BY <1>4 DEF NeedEvent

\* vring_need_event has an answer.
LEMMA NeedEventType ==
    ASSUME NEW e \in Idx, NEW n \in Idx, NEW o \in Idx
    PROVE  NeedEvent(e, n, o) \in BOOLEAN
<1>1. (n + 2 * IdxMod - e - 1) % IdxMod \in Nat
  BY Modulus DEF Idx
<1>2. Distance(o, n) \in Nat
  BY DistanceIs DEF Idx
<1>. QED
  BY <1>1, <1>2 DEF NeedEvent

\* One step further, one step behind.
LEMMA DistanceSteps ==
    ASSUME NEW a \in Idx, NEW b \in Idx
    PROVE  /\ Distance(a, a) = 0 /\ (Distance(a, b) = 0 => a = b)
           /\ Distance(a, b) + 1 < IdxMod => Distance(a, Succ(b)) = Distance(a, b) + 1
           /\ a # b => Distance(Succ(a), b) = Distance(a, b) - 1 /\ Distance(a, b) > 0
<1>1. a \in Nat /\ a < IdxMod /\ b \in Nat /\ b < IdxMod
  BY Modulus DEF Idx
<1>2. /\ Succ(a) = (IF a = IdxMod - 1 THEN 0 ELSE a + 1) /\ Succ(a) \in Idx
      /\ Succ(b) = (IF b = IdxMod - 1 THEN 0 ELSE b + 1) /\ Succ(b) \in Idx
  BY SuccIs
<1>3. /\ Distance(a, b) = IF a <= b THEN b - a ELSE b + IdxMod - a
      /\ Distance(a, Succ(b)) = IF a <= Succ(b) THEN Succ(b) - a ELSE Succ(b) + IdxMod - a
      /\ Distance(Succ(a), b) = IF Succ(a) <= b THEN b - Succ(a) ELSE b + IdxMod - Succ(a)
      /\ Distance(a, a) = IF a <= a THEN a - a ELSE a + IdxMod - a
  BY <1>2, DistanceIs
<1>. QED
  BY <1>1, <1>2, <1>3, Modulus

\* What t steps on from a is t away from it, and what is u away is u - t - 1 away from
\* the next one, if t is less than u.
LEMMA DistanceBeyond ==
    ASSUME NEW a \in Idx, NEW b \in Idx, NEW e \in Idx, Distance(a, e) < Distance(a, b)
    PROVE  Distance(Succ(e), b) = Distance(a, b) - Distance(a, e) - 1
<1>1. a \in Nat /\ a < IdxMod /\ b \in Nat /\ b < IdxMod /\ e \in Nat /\ e < IdxMod
  BY Modulus DEF Idx
<1>2. Succ(e) = (IF e = IdxMod - 1 THEN 0 ELSE e + 1) /\ Succ(e) \in Idx
  BY SuccIs
<1>3. /\ Distance(a, b) = IF a <= b THEN b - a ELSE b + IdxMod - a
      /\ Distance(a, e) = IF a <= e THEN e - a ELSE e + IdxMod - a
      /\ Distance(Succ(e), b) = IF Succ(e) <= b THEN b - Succ(e) ELSE b + IdxMod - Succ(e)
  BY <1>2, DistanceIs
<1>. QED
  BY <1>1, <1>2, <1>3, Modulus

\* What is t steps on is t away.
LEMMA DistanceOffset ==
    ASSUME NEW a \in Idx, NEW t \in Idx
    PROVE  Distance(a, (a + t) % IdxMod) = t
<1>1. a \in Nat /\ a < IdxMod /\ t \in Nat /\ t < IdxMod
  BY Modulus DEF Idx
<1>. DEFINE e == (a + t) % IdxMod
<1>2. e = (IF a + t < IdxMod THEN a + t ELSE a + t - IdxMod) /\ e \in Idx
  BY OffsetIs
<1>3. Distance(a, e) = IF a <= e THEN e - a ELSE e + IdxMod - a
  BY <1>2, DistanceIs
<1>. QED
  BY <1>1, <1>2, <1>3, Modulus

\* Going t steps back, and forward again.
LEMMA DistanceBack ==
    ASSUME NEW a \in Idx, NEW t \in Idx
    PROVE  Distance(t, a) \in Idx /\ Distance(Distance(t, a), a) = t
<1>1. a \in Nat /\ a < IdxMod /\ t \in Nat /\ t < IdxMod
  BY Modulus DEF Idx
<1>. DEFINE o == Distance(t, a)
<1>2. o = (IF t <= a THEN a - t ELSE a + IdxMod - t) /\ o \in Idx
  BY DistanceIs
<1>3. Distance(o, a) = IF o <= a THEN a - o ELSE a + IdxMod - o
  BY <1>2, DistanceIs
<1>. QED
  BY <1>1, <1>2, <1>3, Modulus

\* Three in a row.
LEMMA DistanceChain ==
    ASSUME NEW a \in Idx, NEW b \in Idx, NEW c \in Idx, Distance(a, b) + Distance(b, c) < IdxMod
    PROVE  Distance(a, c) = Distance(a, b) + Distance(b, c)
<1>1. a \in Nat /\ a < IdxMod /\ b \in Nat /\ b < IdxMod /\ c \in Nat /\ c < IdxMod
  BY Modulus DEF Idx
<1>2. /\ Distance(a, b) = IF a <= b THEN b - a ELSE b + IdxMod - a
      /\ Distance(b, c) = IF b <= c THEN c - b ELSE c + IdxMod - b
      /\ Distance(a, c) = IF a <= c THEN c - a ELSE c + IdxMod - a
  BY DistanceIs
<1>. QED
  BY <1>1, <1>2, Modulus

-----------------------------------------------------------------------------
(* The invariant                                                           *)

\* The four positions follow each other around the ring, and the driver kicks before
\* its count of buffers wraps.
RingInv ==
    /\ Distance(last_used_idx, used_idx) + Distance(used_idx, dev_avail)
         + Distance(dev_avail, avail_idx) <= Num
    /\ Posted = Distance(last_used_idx, used_idx) + Distance(used_idx, dev_avail)
                  + Distance(dev_avail, avail_idx)
    /\ inside = "publish" => Posted < Num
    /\ ~running => inside = "no"
    /\ inside = "kick" \/ num_added < IdxMod - 1
    /\ Distance(signalled, used_idx) <= Num

\* A device that sleeps, or is about to, has asked to be told of the next buffer, and
\* has been told of all that were made available before the last kick.
KickInv ==
    /\ dev # "running" => avail_event = dev_avail /\ ~no_notify
    /\ dev = "asleep" => (Distance(dev_avail, avail_idx) > num_added => told)

\* While the driver takes interrupts, the event index is threshold ahead of it; one that
\* sleeps is being told if the device has considered more than threshold buffers.
CallInv ==
    /\ drv # "running" => ~no_interrupt
    /\ ~no_interrupt => Distance(last_used_idx, used_event) = threshold
    /\ drv = "asleep" /\ ~irq =>
          Distance(last_used_idx, used_idx) <= Distance(signalled, used_idx) + threshold

\* The inductive invariant.
EventsInv == TypeOK /\ RingInv /\ KickInv /\ CallInv

\* A fresh ring is at rest.
LEMMA InitEvents == Init => EventsInv
<1>. SUFFICES ASSUME Init PROVE EventsInv
  OBVIOUS
<1>1. 0 \in Idx /\ Distance(0, 0) = 0
  BY Modulus, DistanceSteps DEF Idx
<1>2. TypeOK
  <2>1. 0 \in 0..Num
    BY Modulus
  <2>2. {running, event, no_interrupt, no_notify, told, irq} \subseteq BOOLEAN
    BY Zenon DEF Init
  <2>. QED
    BY <1>1, <2>1, <2>2 DEF Init, TypeOK
<1>3. RingInv
  BY <1>1, Modulus DEF Init, RingInv, Posted
<1>4. KickInv /\ CallInv
  BY <1>1 DEF Init, KickInv, CallInv
<1>. QED
  BY <1>2, <1>3, <1>4 DEF EventsInv

\* What the indexes are, and how far apart.
LEMMA IndexFacts ==
    ASSUME TypeOK
    PROVE  /\ avail_idx \in Idx /\ used_idx \in Idx /\ last_used_idx \in Idx /\ dev_avail \in Idx
           /\ num_added \in Idx /\ used_event \in Idx /\ avail_event \in Idx /\ signalled \in Idx
           /\ threshold \in Idx /\ threshold \in 0..Num
           /\ Distance(last_used_idx, used_idx) \in Nat /\ Distance(used_idx, dev_avail) \in Nat
           /\ Distance(dev_avail, avail_idx) \in Nat /\ Distance(signalled, used_idx) \in Nat
           /\ num_added \in Nat /\ threshold \in Nat
<1>1. /\ avail_idx \in Idx /\ used_idx \in Idx /\ last_used_idx \in Idx /\ dev_avail \in Idx
      /\ num_added \in Idx /\ used_event \in Idx /\ avail_event \in Idx /\ signalled \in Idx
      /\ threshold \in 0..Num
  BY DEF TypeOK
<1>2. threshold \in Idx /\ \A i \in Idx : i \in Nat
  BY <1>1, Modulus DEF Idx
<1>3. \A a, b \in Idx : Distance(a, b) \in Idx
  BY DistanceIs
<1>. QED
  BY <1>1, <1>2, <1>3

-----------------------------------------------------------------------------
(* The driver's side                                                       *)

\* A buffer is added, up to the barrier, or there is no space.
LEMMA AddBufInv == ASSUME EventsInv, AddBuf \/ \E out \in 0..1 : AddBufNoSpace(out) PROVE EventsInv'
<1>1. CASE AddBuf
  BY <1>1 DEF AddBuf, EventsInv, TypeOK, RingInv, KickInv, CallInv, Posted, driver, device, Free
<1>2. CASE \E out \in 0..1 : AddBufNoSpace(out)
  <2>. PICK out \in 0..1 : AddBufNoSpace(out)
    BY <1>2
  <2>1. told' \in BOOLEAN /\ (told => told')
    BY DEF AddBufNoSpace, EventsInv, TypeOK
  <2>. QED
    BY <2>1 DEF AddBufNoSpace, EventsInv, TypeOK, RingInv, KickInv, CallInv, Posted, rings, driver, device
<1>. QED
  BY <1>1, <1>2

\* A buffer becomes available: one more to kick for, and it is counted.
LEMMA AddBufPublishInv == ASSUME EventsInv, AddBufPublish PROVE EventsInv'
<1>. DEFINE lu == Distance(last_used_idx, used_idx)
            ud == Distance(used_idx, dev_avail)
            da == Distance(dev_avail, avail_idx)
<1>1. /\ avail_idx \in Idx /\ used_idx \in Idx /\ last_used_idx \in Idx /\ dev_avail \in Idx
      /\ num_added \in Idx /\ num_added \in Nat /\ lu \in Nat /\ ud \in Nat /\ da \in Nat
  BY IndexFacts DEF EventsInv
<1>2. /\ inside = "publish" /\ avail_idx' = Succ(avail_idx) /\ num_added' = Succ(num_added)
      /\ inside' = (IF num_added' = IdxMod - 1 THEN "kick" ELSE "no")
      /\ UNCHANGED <<used_idx, last_used_idx, dev_avail, running, event, no_interrupt,
                   used_event, drv, threshold, no_notify, avail_event, dev, signalled, told, irq>>
  BY DEF AddBufPublish, AutoKick, device
<1>3. lu + ud + da = Posted /\ Posted < Num /\ num_added < IdxMod - 1
  BY <1>2 DEF EventsInv, RingInv
<1>4. /\ num_added' = num_added + 1 /\ num_added' \in Idx /\ avail_idx' \in Idx
      /\ inside' = "kick" \/ num_added' < IdxMod - 1
  BY <1>1, <1>2, <1>3, SuccIs, Modulus DEF Idx
<1>5. Distance(dev_avail, avail_idx') = da + 1 /\ Distance(last_used_idx, avail_idx') = Posted + 1
  <2>1. da + 1 < IdxMod /\ Posted + 1 < IdxMod
    BY <1>1, <1>3, Modulus
  <2>. QED
    BY <1>1, <1>2, <2>1, DistanceSteps DEF Posted
<1>6. TypeOK'
  BY <1>2, <1>4 DEF EventsInv, TypeOK
<1>7. RingInv'
  BY <1>1, <1>2, <1>3, <1>4, <1>5, Modulus DEF EventsInv, RingInv, Posted
<1>8. KickInv'
  BY <1>1, <1>2, <1>4, <1>5 DEF EventsInv, KickInv
<1>9. CallInv'
  BY <1>2 DEF EventsInv, CallInv
<1>. QED
  BY <1>6, <1>7, <1>8, <1>9 DEF EventsInv

\* A kick that is not suppressed, or was not needed.
LEMMA KickInvariant == ASSUME EventsInv, Kick \/ KickAlways PROVE EventsInv'
<1>. DEFINE da == Distance(dev_avail, avail_idx)
<1>1. /\ num_added' = 0 /\ (inside' = "no" \/ inside' = inside) /\ inside' \in {"no", "publish", "kick"}
      /\ inside' # "publish"
      /\ UNCHANGED <<avail_idx, used_idx, last_used_idx, dev_avail, running, event,
                   no_interrupt, used_event, drv, threshold, no_notify, avail_event, dev, signalled, irq>>
      /\ told' = TRUE \/ told' = (told \/ NeedsKick)
  BY DEF Kick, KickAlways, device, rings, Free
<1>2. told' \in BOOLEAN /\ (told => told')
  <2>1. NeedsKick \in BOOLEAN
    <3>1. /\ avail_event \in Idx /\ avail_idx \in Idx /\ Distance(num_added, avail_idx) \in Idx
          /\ event \in BOOLEAN /\ no_notify \in BOOLEAN
      BY IndexFacts, DistanceIs DEF EventsInv, TypeOK
    <3>2. NeedEvent(avail_event, avail_idx, Distance(num_added, avail_idx)) \in BOOLEAN
      BY <3>1, NeedEventType
    <3>. QED
      BY <3>1, <3>2 DEF NeedsKick
  <2>. QED
    BY <1>1, <2>1 DEF EventsInv, TypeOK
<1>3. /\ dev_avail \in Idx /\ avail_idx \in Idx /\ num_added \in Idx /\ num_added \in Nat
      /\ da \in Nat
  BY IndexFacts DEF EventsInv
<1>4. ASSUME dev = "asleep", da > 0 PROVE told'
  <2>1. avail_event = dev_avail /\ ~no_notify /\ (da > num_added => told)
    BY <1>4 DEF EventsInv, KickInv
  <2>2. ASSUME da <= num_added PROVE NeedsKick
    <3>1. CASE ~event
      BY <2>1, <3>1 DEF NeedsKick
    <3>2. CASE event
      <4>1. dev_avail # avail_idx
        BY <1>3, <1>4, DistanceSteps
      <4>2. Distance(Succ(dev_avail), avail_idx) = da - 1
        BY <1>3, <4>1, DistanceSteps
      <4>3. /\ Distance(num_added, avail_idx) \in Idx
            /\ Distance(Distance(num_added, avail_idx), avail_idx) = num_added
        BY <1>3, DistanceBack
      <4>4. da - 1 < num_added
        BY <1>3, <1>4, <2>2
      <4>. QED
        BY <1>3, <2>1, <3>2, <4>2, <4>3, <4>4, NeedEventIs DEF NeedsKick
    <3>. QED
      BY <3>1, <3>2
  <2>. QED
    BY <1>1, <1>2, <1>3, <2>1, <2>2
<1>5. TypeOK'
  <2>1. 0 \in Idx
    BY Modulus DEF Idx
  <2>. QED
    BY <1>1, <1>2, <2>1 DEF EventsInv, TypeOK
<1>6. RingInv'
  BY <1>1, Modulus DEF EventsInv, RingInv, Posted
<1>7. KickInv'
  BY <1>1, <1>4 DEF EventsInv, KickInv
<1>8. CallInv'
  BY <1>1 DEF EventsInv, CallInv
<1>. QED
  BY <1>5, <1>6, <1>7, <1>8 DEF EventsInv

\* The driver wakes, sleeps with interrupts on after it has seen an empty ring, or turns
\* them off.
LEMMA InterruptInv == ASSUME EventsInv, Interrupt \/ GetBufNull \/ DisableCb PROVE EventsInv'
<1>1. CASE Interrupt
  BY <1>1 DEF Interrupt, EventsInv, TypeOK, RingInv, KickInv, CallInv, Posted, rings, device
<1>2. CASE DisableCb
  BY <1>2 DEF DisableCb, EventsInv, TypeOK, RingInv, KickInv, CallInv, Posted, rings, device, Handling
<1>3. CASE GetBufNull
  <2>1. Distance(last_used_idx, used_idx) = 0
    BY <1>3, IndexFacts, DistanceSteps DEF EventsInv, GetBufNull
  <2>2. Distance(signalled, used_idx) \in Nat /\ threshold \in Nat
    BY IndexFacts DEF EventsInv
  <2>3. CallInv'
    BY <1>3, <2>1, <2>2 DEF GetBufNull, EventsInv, CallInv, rings, device
  <2>. QED
    BY <1>3, <2>3 DEF GetBufNull, EventsInv, TypeOK, RingInv, KickInv, Posted, rings, device
<1>. QED
  BY <1>1, <1>2, <1>3

\* The driver takes a used buffer, and the event index follows.
LEMMA GetBufInv == ASSUME EventsInv, GetBuf PROVE EventsInv'
<1>. DEFINE lu == Distance(last_used_idx, used_idx)
            ud == Distance(used_idx, dev_avail)
            da == Distance(dev_avail, avail_idx)
<1>1. /\ avail_idx \in Idx /\ used_idx \in Idx /\ last_used_idx \in Idx /\ dev_avail \in Idx
      /\ lu \in Nat /\ ud \in Nat /\ da \in Nat
  BY IndexFacts DEF EventsInv
<1>2. /\ inside = "no" /\ drv = "running" /\ last_used_idx # used_idx
      /\ last_used_idx' = Succ(last_used_idx) /\ Succ(last_used_idx) \in Idx
      /\ used_event' = (IF no_interrupt THEN used_event ELSE last_used_idx')
      /\ threshold' = (IF no_interrupt THEN threshold ELSE 0)
      /\ UNCHANGED <<avail_idx, used_idx, dev_avail, inside, running, event, num_added,
                   no_interrupt, drv, no_notify, avail_event, dev, signalled, told, irq>>
  BY <1>1, SuccIs DEF GetBuf, Handling, Free, device
<1>3. lu + ud + da = Posted /\ Posted <= Num
  BY <1>1 DEF EventsInv, RingInv
<1>4. Distance(last_used_idx', used_idx) = lu - 1 /\ lu > 0
  BY <1>1, <1>2, DistanceSteps
<1>5. Distance(last_used_idx', avail_idx) = Posted - 1
  <2>1. Posted > 0
    BY <1>1, <1>3, <1>4
  <2>2. last_used_idx # avail_idx
    BY <1>1, <2>1, DistanceSteps DEF Posted
  <2>. QED
    BY <1>1, <1>2, <2>2, DistanceSteps DEF Posted
<1>6. TypeOK'
  BY <1>2, Modulus DEF EventsInv, TypeOK
<1>7. RingInv'
  BY <1>1, <1>2, <1>3, <1>4, <1>5, Modulus DEF EventsInv, RingInv, Posted
<1>8. KickInv'
  BY <1>2 DEF EventsInv, KickInv
<1>9. CallInv'
  BY <1>2, DistanceSteps DEF EventsInv, CallInv
<1>. QED
  BY <1>6, <1>7, <1>8, <1>9 DEF EventsInv

\* The driver asks for an interrupt, now or three quarters of the ring later.
LEMMA EnableCbInv ==
    ASSUME EventsInv, NEW later \in {0, ThreeQuarters}, EnableCb(later)
    PROVE  EventsInv'
<1>1. /\ last_used_idx \in Idx /\ Distance(signalled, used_idx) \in Nat
  BY IndexFacts DEF EventsInv
<1>2. later \in 0..Num
  <2>1. Posted \in Nat /\ Posted <= Num
    BY IndexFacts DEF EventsInv, RingInv
  <2>. QED
    BY <2>1, Modulus DEF ThreeQuarters
<1>3. later \in Idx
  BY <1>2, Modulus DEF Idx
<1>4. /\ used_event' = (last_used_idx + later) % IdxMod /\ used_event' \in Idx
      /\ Distance(last_used_idx, used_event') = later
  BY <1>1, <1>3, OffsetIs, DistanceOffset DEF EnableCb
<1>5. /\ no_interrupt' = FALSE /\ threshold' = later /\ drv' = "checking" /\ inside = "no"
      /\ UNCHANGED <<avail_idx, used_idx, last_used_idx, dev_avail, inside, running, event, num_added,
                     no_notify, avail_event, dev, signalled, told, irq>>
  BY DEF EnableCb, rings, device, Handling, Free
<1>6. TypeOK'
  BY <1>2, <1>4, <1>5, ZenonT(60) DEF EventsInv, TypeOK
<1>7. RingInv'
  BY <1>5 DEF EventsInv, RingInv, Posted
<1>8. KickInv'
  BY <1>5 DEF EventsInv, KickInv
<1>9. CallInv'
  BY <1>4, <1>5 DEF EventsInv, CallInv
<1>. QED
  BY <1>6, <1>7, <1>8, <1>9 DEF EventsInv

\* The second look: it sleeps only if no more than threshold buffers are used.
LEMMA EnableCbCheckInv == ASSUME EventsInv, EnableCbCheck PROVE EventsInv'
<1>1. Distance(last_used_idx, used_idx) \in Nat /\ Distance(signalled, used_idx) \in Nat /\ threshold \in Nat
  BY IndexFacts DEF EventsInv
<1>2. /\ drv = "checking" /\ drv' \in {"running", "asleep"}
      /\ drv' = "asleep" => Distance(last_used_idx, used_idx) <= threshold
      /\ UNCHANGED <<avail_idx, used_idx, last_used_idx, dev_avail, inside, running, event, num_added,
                     no_interrupt, used_event, threshold, no_notify, avail_event, dev, signalled, told, irq>>
  BY <1>1 DEF EnableCbCheck, rings, device
<1>3. CallInv'
  BY <1>1, <1>2 DEF EventsInv, CallInv
<1>. QED
  BY <1>2, <1>3 DEF EventsInv, TypeOK, RingInv, KickInv, Posted

\* A reset stops the device between two operations, and the ring starts afresh.
LEMMA ResetInv == ASSUME EventsInv, DevReset \/ Shutdown PROVE EventsInv'
<1>1. 0 \in Idx /\ Distance(0, 0) = 0
  BY Modulus, DistanceSteps DEF Idx
<1>2. CASE DevReset
  BY <1>2 DEF DevReset, EventsInv, TypeOK, RingInv, KickInv, CallInv, Posted, driver, device, Free
<1>3. CASE Shutdown
  <2>1. inside' = "no"
    BY <1>3 DEF Shutdown, EventsInv, RingInv
  <2>2. TypeOK'
    <3>1. 0 \in 0..Num
      BY Modulus
    <3>2. event' \in BOOLEAN
      BY <1>3 DEF Shutdown, EventsInv, TypeOK
    <3>3. {running', event', no_interrupt', no_notify', told', irq'} \subseteq BOOLEAN
      BY <1>3, <3>2, Zenon DEF Shutdown
    <3>. QED
      BY <1>1, <1>3, <2>1, <3>1, <3>3 DEF Shutdown, TypeOK
  <2>3. RingInv'
    BY <1>1, <1>3, <2>1, Modulus DEF Shutdown, RingInv, Posted
  <2>4. KickInv' /\ CallInv'
    BY <1>1, <1>3 DEF Shutdown, KickInv, CallInv
  <2>. QED
    BY <2>2, <2>3, <2>4 DEF EventsInv
<1>. QED
  BY <1>2, <1>3

-----------------------------------------------------------------------------
(* The device's side                                                       *)

\* The device takes an available buffer.
LEMMA DevFetchInv == ASSUME EventsInv, DevFetch PROVE EventsInv'
<1>. DEFINE lu == Distance(last_used_idx, used_idx)
            ud == Distance(used_idx, dev_avail)
            da == Distance(dev_avail, avail_idx)
<1>1. /\ avail_idx \in Idx /\ used_idx \in Idx /\ last_used_idx \in Idx /\ dev_avail \in Idx
      /\ lu \in Nat /\ ud \in Nat /\ da \in Nat
  BY IndexFacts DEF EventsInv
<1>2. /\ dev = "running" /\ dev_avail # avail_idx /\ dev_avail' = Succ(dev_avail)
      /\ Succ(dev_avail) \in Idx
      /\ UNCHANGED <<avail_idx, used_idx, last_used_idx, inside, running, event, num_added, no_interrupt,
                     used_event, drv, threshold, no_notify, avail_event, dev, signalled, told, irq>>
  BY <1>1, SuccIs DEF DevFetch, driver, device
<1>3. lu + ud + da = Posted /\ Posted <= Num
  BY <1>1 DEF EventsInv, RingInv
<1>4. Distance(dev_avail', avail_idx) = da - 1 /\ da > 0
  BY <1>1, <1>2, DistanceSteps
<1>5. Distance(used_idx, dev_avail') = ud + 1
  <2>1. ud + 1 < IdxMod
    BY <1>1, <1>3, <1>4, Modulus
  <2>. QED
    BY <1>1, <1>2, <2>1, DistanceSteps
<1>6. TypeOK'
  BY <1>2 DEF EventsInv, TypeOK
<1>7. RingInv'
  BY <1>1, <1>2, <1>3, <1>4, <1>5, Modulus DEF EventsInv, RingInv, Posted
<1>8. KickInv' /\ CallInv'
  BY <1>2 DEF EventsInv, KickInv, CallInv
<1>. QED
  BY <1>6, <1>7, <1>8 DEF EventsInv

\* The device asks to be told before it looks again, and sleeps only on an empty ring.
LEMMA DevSleepInv == ASSUME EventsInv, DevAsk \/ DevCheck \/ DevWake PROVE EventsInv'
<1>1. CASE DevAsk
  BY <1>1, ZenonT(60) DEF DevAsk, EventsInv, TypeOK, RingInv, KickInv, CallInv, Posted, rings, driver
<1>2. CASE DevCheck
  <2>1. dev_avail = avail_idx => Distance(dev_avail, avail_idx) = 0
    BY IndexFacts, DistanceSteps DEF EventsInv
  <2>2. num_added \in Nat
    BY IndexFacts DEF EventsInv
  <2>3. KickInv'
    BY <1>2, <2>1, <2>2 DEF DevCheck, EventsInv, KickInv, rings, driver
  <2>. QED
    BY <1>2, <2>3 DEF DevCheck, EventsInv, TypeOK, RingInv, CallInv, Posted, rings, driver
<1>3. CASE DevWake
  BY <1>3 DEF DevWake, EventsInv, TypeOK, RingInv, KickInv, CallInv, Posted, rings, driver
<1>. QED
  BY <1>1, <1>2, <1>3

\* The device gives a buffer back.
LEMMA DevUseInv == ASSUME EventsInv, DevUse PROVE EventsInv'
<1>. DEFINE lu == Distance(last_used_idx, used_idx)
            ud == Distance(used_idx, dev_avail)
            da == Distance(dev_avail, avail_idx)
            su == Distance(signalled, used_idx)
<1>1. /\ avail_idx \in Idx /\ used_idx \in Idx /\ last_used_idx \in Idx /\ dev_avail \in Idx
      /\ signalled \in Idx /\ lu \in Nat /\ ud \in Nat /\ da \in Nat /\ su \in Nat /\ threshold \in Nat
  BY IndexFacts DEF EventsInv
<1>2. /\ used_idx # dev_avail /\ su < Num /\ used_idx' = Succ(used_idx) /\ Succ(used_idx) \in Idx
      /\ UNCHANGED <<avail_idx, last_used_idx, dev_avail, inside, running, event, num_added, no_interrupt,
                     used_event, drv, threshold, no_notify, avail_event, dev, signalled, told, irq>>
  BY <1>1, SuccIs DEF DevUse, driver, device
<1>3. lu + ud + da = Posted /\ Posted <= Num
  BY <1>1 DEF EventsInv, RingInv
<1>4. Distance(used_idx', dev_avail) = ud - 1 /\ ud > 0
  BY <1>1, <1>2, DistanceSteps
<1>5. Distance(last_used_idx, used_idx') = lu + 1 /\ Distance(signalled, used_idx') = su + 1
  <2>1. lu + 1 < IdxMod /\ su + 1 < IdxMod
    BY <1>1, <1>2, <1>3, <1>4, Modulus
  <2>. QED
    BY <1>1, <1>2, <2>1, DistanceSteps
<1>6. TypeOK'
  BY <1>2 DEF EventsInv, TypeOK
<1>7. RingInv'
  BY <1>1, <1>2, <1>3, <1>4, <1>5, Modulus DEF EventsInv, RingInv, Posted
<1>8. KickInv'
  BY <1>2 DEF EventsInv, KickInv
<1>9. CallInv'
  BY <1>1, <1>2, <1>5 DEF EventsInv, CallInv
<1>. QED
  BY <1>6, <1>7, <1>8, <1>9 DEF EventsInv

\* The interrupt that is not suppressed, or was not needed.
LEMMA DevSignalInv == ASSUME EventsInv, DevSignal PROVE EventsInv'
<1>. DEFINE lu == Distance(last_used_idx, used_idx)
            su == Distance(signalled, used_idx)
            Needed == IF event THEN NeedEvent(used_event, used_idx, signalled) ELSE ~no_interrupt
<1>1. /\ used_idx \in Idx /\ last_used_idx \in Idx /\ used_event \in Idx /\ threshold \in Nat
      /\ signalled \in Idx /\ lu \in Nat /\ su \in Nat
  BY IndexFacts DEF EventsInv
<1>2. /\ signalled' = used_idx /\ irq' = (irq \/ Needed)
      /\ UNCHANGED <<avail_idx, used_idx, last_used_idx, dev_avail, inside, running, event, num_added,
                     no_interrupt, used_event, drv, threshold, no_notify, avail_event, dev, told>>
  BY DEF DevSignal, rings, driver
<1>3. Needed \in BOOLEAN
  <2>1. NeedEvent(used_event, used_idx, signalled) \in BOOLEAN
    BY <1>1, NeedEventType
  <2>2. event \in BOOLEAN /\ no_interrupt \in BOOLEAN
    BY DEF EventsInv, TypeOK
  <2>. QED
    BY <2>1, <2>2
<1>4. Distance(signalled', used_idx) = 0
  BY <1>1, <1>2, DistanceSteps
<1>5. ASSUME drv = "asleep", ~irq' PROVE lu <= threshold
  <2>1. ~irq /\ ~Needed
    BY <1>2, <1>5
  <2>2. ~no_interrupt /\ event /\ ~NeedEvent(used_event, used_idx, signalled)
    BY <1>5, <2>1 DEF EventsInv, CallInv, TypeOK
  <2>3. Distance(last_used_idx, used_event) = threshold /\ lu <= su + threshold
    BY <1>5, <2>1, <2>2 DEF EventsInv, CallInv
  <2>. SUFFICES ASSUME threshold < lu PROVE FALSE
    BY <1>1
  <2>4. Distance(Succ(used_event), used_idx) = lu - threshold - 1
    BY <1>1, <2>3, DistanceBeyond
  <2>5. Distance(Succ(used_event), used_idx) < su
    BY <1>1, <2>3, <2>4
  <2>. QED
    BY <1>1, <2>2, <2>5, NeedEventIs
<1>6. TypeOK'
  BY <1>1, <1>2, <1>3 DEF EventsInv, TypeOK
<1>7. RingInv'
  BY <1>2, <1>4, Modulus DEF EventsInv, RingInv, Posted
<1>8. KickInv'
  BY <1>2 DEF EventsInv, KickInv
<1>9. CallInv'
  BY <1>1, <1>2, <1>4, <1>5 DEF EventsInv, CallInv
<1>. QED
  BY <1>6, <1>7, <1>8, <1>9 DEF EventsInv

-----------------------------------------------------------------------------
\* Every step keeps the invariant.
LEMMA NextEvents == EventsInv /\ [Next]_vars => EventsInv'
<1>. SUFFICES ASSUME EventsInv, [Next]_vars PROVE EventsInv'
  OBVIOUS
<1>1. CASE UNCHANGED vars
  BY <1>1 DEF vars, rings, driver, device, EventsInv, TypeOK, RingInv, KickInv, CallInv, Posted
<1>2. CASE Next
  BY <1>2, AddBufInv, AddBufPublishInv, KickInvariant, InterruptInv, GetBufInv, EnableCbInv,
     EnableCbCheckInv, ResetInv, DevFetchInv, DevSleepInv, DevUseInv, DevSignalInv DEF Next
<1>. QED
  BY <1>1, <1>2

\* Every state satisfies the inductive invariant.
THEOREM EventsCorrect == Spec => []EventsInv
<1>. QED
  BY InitEvents, NextEvents, PTL DEF Spec

\* virtqueue_kick_prepare never suppresses a kick that a sleeping device needs.
THEOREM DeviceToldCorrect == Spec => []DeviceIsTold
<1>1. EventsInv => DeviceIsTold
  BY DEF EventsInv, KickInv, DeviceIsTold
<1>. QED
  BY <1>1, EventsCorrect, PTL

\* No interrupt that a sleeping driver needs is suppressed, by the flag or by the event
\* index that virtqueue_get_buf and virtqueue_enable_cb publish.
THEOREM DriverToldCorrect == Spec => []DriverIsTold
<1>1. EventsInv => DriverIsTold
  <2>. SUFFICES ASSUME EventsInv, drv = "asleep", ~irq, signalled = used_idx,
                       Distance(last_used_idx, used_idx) > threshold
                PROVE  FALSE
    BY DEF DriverIsTold
  <2>1. Distance(signalled, used_idx) = 0
    BY IndexFacts, DistanceSteps DEF EventsInv
  <2>2. Distance(last_used_idx, used_idx) \in Nat /\ threshold \in Nat
    BY IndexFacts DEF EventsInv
  <2>. QED
    BY <2>1, <2>2 DEF EventsInv, CallInv
<1>. QED
  BY <1>1, EventsCorrect, PTL

=============================================================================
