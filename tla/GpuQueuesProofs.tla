--------------------------- MODULE GpuQueuesProofs ---------------------------
(***************************************************************************)
(* Theorems about GpuQueues, for every pool and every two rings, any       *)
(* clients and programs, any number of processors and every device: who    *)
(* has a buffer, whose reply wakes a thread, how much a ring holds; and,   *)
(* as long as the device keeps up, that no buffer is lost and the pool     *)
(* never empty, and that 3D commands are freed in the order in which they  *)
(* were made.                                                              *)
(*                                                                         *)
(* The DPC sets the event of a command before it reads the command again,  *)
(* to decide who releases it.  The theorems are about the runs in which    *)
(* the worker, once woken, resumes after that (SettlesFirst); the last two *)
(* say when it does.                                                       *)
(*                                                                         *)
(* Sequences without repetitions come first, then the invariant, what a    *)
(* step does to each buffer (Kept, Dropped, Handed), one lemma per action, *)
(* and the sums of descriptors on top.                                     *)
(***************************************************************************)
EXTENDS GpuQueues, NumberSets, SequenceTheorems, FunctionTheorems

-----------------------------------------------------------------------------
(* Sequences in which nothing occurs twice                                 *)

\* The elements of a sequence are at its positions.
LEMMA RangeIs ==
    ASSUME NEW T, NEW s \in Seq(T)
    PROVE  /\ DOMAIN s = 1 .. Len(s) /\ Len(s) \in Nat
           /\ \A y : y \in Range(s) <=> \E i \in 1 .. Len(s) : s[i] = y
           /\ Range(s) \subseteq T
           /\ IsInjective(s) <=> \A i, j \in 1 .. Len(s) : s[i] = s[j] => i = j
           /\ s = <<>> <=> Range(s) = {}
<1>1. DOMAIN s = 1 .. Len(s) /\ Len(s) \in Nat /\ \A i \in 1 .. Len(s) : s[i] \in T
  OBVIOUS
<1>2. \A y : y \in Range(s) <=> \E i \in 1 .. Len(s) : s[i] = y
  BY <1>1, Zenon DEF Range
<1>3. s = <<>> <=> Len(s) = 0
  OBVIOUS
<1>4. Len(s) # 0 => 1 \in 1 .. Len(s)
  BY <1>1
<1>5. s = <<>> <=> Range(s) = {}
  <2>1. ASSUME s = <<>>, NEW y \in Range(s)
        PROVE  FALSE
    <3>1. Len(s) = 0
      BY <1>3, <2>1
    <3>2. PICK i \in 1 .. Len(s) : s[i] = y
      BY <1>2, <2>1
    <3>. QED
      BY <3>1, <3>2
  <2>2. s # <<>> => s[1] \in Range(s)
    BY <1>2, <1>3, <1>4
  <2>. QED
    BY <2>1, <2>2
<1>. QED
  BY <1>1, <1>2, <1>5 DEF IsInjective

\* One more at the end.
LEMMA AppendFacts ==
    ASSUME NEW T, NEW s \in Seq(T), NEW x \in T
    PROVE  /\ Append(s, x) \in Seq(T)
           /\ Range(Append(s, x)) = Range(s) \cup {x}
           /\ IsInjective(s) /\ x \notin Range(s) => IsInjective(Append(s, x))
<1> DEFINE t == Append(s, x)
           n == Len(s)
<1>1. /\ t \in Seq(T) /\ n \in Nat /\ Len(t) = n + 1
      /\ \A i \in 1 .. n : t[i] = s[i]
      /\ t[n + 1] = x
  OBVIOUS
<1> HIDE DEF t
<1>2. /\ \A y : y \in Range(s) <=> \E i \in 1 .. n : s[i] = y
      /\ \A y : y \in Range(t) <=> \E i \in 1 .. (n + 1) : t[i] = y
  BY <1>1, RangeIs
<1> HIDE DEF n
<1>3. \A i : i \in 1 .. (n + 1) <=> i \in 1 .. n \/ i = n + 1
  BY <1>1
<1>4. \A y : y \in Range(t) <=> y \in Range(s) \/ y = x
  BY <1>1, <1>2, <1>3
<1>5. ASSUME IsInjective(s), x \notin Range(s)
      PROVE  IsInjective(t)
  <2>1. \A i, j \in 1 .. n : s[i] = s[j] => i = j
    BY <1>5, RangeIs DEF n
  <2>2. \A i \in 1 .. n : s[i] # x
    BY <1>2, <1>5
  <2>3. \A i, j \in 1 .. (n + 1) : t[i] = t[j] => i = j
    BY <1>1, <1>3, <2>1, <2>2
  <2>. QED
    BY <1>1, <2>3, RangeIs
<1>6. Range(t) = Range(s) \cup {x}
  BY <1>4
<1>. QED
  BY <1>1, <1>5, <1>6 DEF t

\* One less at the front.
LEMMA TailFacts ==
    ASSUME NEW T, NEW s \in Seq(T), s # <<>>
    PROVE  /\ Head(s) \in Range(s) /\ Head(s) \in T
           /\ Tail(s) \in Seq(T)
           /\ IsInjective(s) => IsInjective(Tail(s)) /\ Range(Tail(s)) = Range(s) \ {Head(s)}
           /\ Range(Tail(s)) \subseteq Range(s)
<1> DEFINE t == Tail(s)
           n == Len(s)
<1>1. /\ t \in Seq(T) /\ n \in Nat /\ n > 0 /\ Len(t) = n - 1
      /\ \A i \in 1 .. (n - 1) : t[i] = s[i + 1]
      /\ Head(s) = s[1] /\ s[1] \in T
  OBVIOUS
<1> HIDE DEF t
<1>2. /\ \A y : y \in Range(s) <=> \E i \in 1 .. n : s[i] = y
      /\ \A y : y \in Range(t) <=> \E i \in 1 .. (n - 1) : t[i] = y
  BY <1>1, RangeIs
<1>3. IsInjective(s) <=> \A i, j \in 1 .. n : s[i] = s[j] => i = j
  BY RangeIs
<1> HIDE DEF n
<1>4. /\ \A i \in 1 .. (n - 1) : i + 1 \in 1 .. n /\ i + 1 # 1
      /\ \A i \in 1 .. n : i = 1 \/ (i - 1 \in 1 .. (n - 1) /\ (i - 1) + 1 = i)
      /\ 1 \in 1 .. n
  BY <1>1
<1>5. Head(s) \in Range(s) /\ Range(t) \subseteq Range(s)
  BY <1>1, <1>2, <1>4
<1>6. ASSUME IsInjective(s)
      PROVE  IsInjective(t) /\ Range(t) = Range(s) \ {Head(s)}
  <2>1. \A i, j \in 1 .. n : s[i] = s[j] => i = j
    BY <1>3, <1>6
  <2>2. \A i, j \in 1 .. (n - 1) : t[i] = t[j] => i = j
    <3> SUFFICES ASSUME NEW i \in 1 .. (n - 1), NEW j \in 1 .. (n - 1), t[i] = t[j]
                 PROVE  i = j
      OBVIOUS
    <3>1. s[i + 1] = s[j + 1]
      BY <1>1
    <3>2. i + 1 = j + 1
      BY <1>4, <2>1, <3>1
    <3>. QED
      BY <3>2
  <2>3. IsInjective(t)
    BY <1>1, <2>2, RangeIs
  <2>4. \A y : y \in Range(t) <=> y \in Range(s) /\ y # Head(s)
    <3>1. ASSUME NEW i \in 1 .. (n - 1)
          PROVE  t[i] \in Range(s) /\ t[i] # Head(s)
      <4>1. i + 1 \in 1 .. n /\ i + 1 # 1 /\ 1 \in 1 .. n /\ t[i] = s[i + 1]
        BY <1>1, <1>4
      <4>2. s[i + 1] # s[1]
        BY <2>1, <4>1
      <4>. QED
        BY <1>1, <1>2, <4>1, <4>2
    <3>2. ASSUME NEW i \in 1 .. n, s[i] # Head(s)
          PROVE  s[i] \in Range(t)
      <4>1. i - 1 \in 1 .. (n - 1) /\ t[i - 1] = s[i]
        BY <1>1, <1>4, <3>2
      <4>. QED
        BY <1>2, <4>1
    <3>. QED
      BY <1>2, <3>1, <3>2
  <2>. QED
    BY <2>3, <2>4
<1>. QED
  BY <1>1, <1>5, <1>6 DEF t

\* One less somewhere.
LEMMA RemoveAtFacts ==
    ASSUME NEW T, NEW s \in Seq(T), NEW k \in 1 .. Len(s)
    PROVE  /\ s[k] \in Range(s) /\ s[k] \in T
           /\ RemoveAt(s, k) \in Seq(T)
           /\ IsInjective(s) => /\ IsInjective(RemoveAt(s, k))
                                /\ Range(RemoveAt(s, k)) = Range(s) \ {s[k]}
<1> DEFINE t == RemoveAt(s, k)
           n == Len(s)
           left == SubSeq(s, 1, k - 1)
           right == SubSeq(s, k + 1, n)
<1>1. n \in Nat /\ k \in Int /\ 1 <= k /\ k <= n /\ s[k] \in T /\ \A i \in 1 .. n : s[i] \in T
  OBVIOUS
<1>2. /\ left \in Seq(T) /\ Len(left) = k - 1
      /\ \A i \in 1 .. (k - 1) : left[i] = s[i]
  <2>1. 1 \in Int /\ k - 1 \in Int /\ \A i \in 1 .. (k - 1) : s[i] \in T
    BY <1>1
  <2>2. /\ left \in Seq(T)
        /\ Len(left) = IF 1 <= k - 1 THEN k - 1 - 1 + 1 ELSE 0
        /\ \A i \in 1 .. k - 1 - 1 + 1 : left[i] = s[1 + i - 1]
    BY <2>1, SubSeqProperties
  <2>. QED
    BY <1>1, <2>2
<1>3. /\ right \in Seq(T) /\ Len(right) = n - k
      /\ \A i \in 1 .. (n - k) : right[i] = s[i + k]
  <2>1. k + 1 \in Int /\ n \in Int /\ \A i \in k + 1 .. n : s[i] \in T
    BY <1>1
  <2>2. /\ right \in Seq(T)
        /\ Len(right) = IF k + 1 <= n THEN n - (k + 1) + 1 ELSE 0
        /\ \A i \in 1 .. n - (k + 1) + 1 : right[i] = s[(k + 1) + i - 1]
    BY <2>1, SubSeqProperties
  <2>. QED
    BY <1>1, <2>2
<1>4. t = left \o right
  BY DEF RemoveAt
<1> HIDE DEF t, left, right
<1>5. /\ t \in Seq(T) /\ Len(t) = n - 1
      /\ \A i \in 1 .. (n - 1) : t[i] = IF i <= k - 1 THEN s[i] ELSE s[i + 1]
  <2>1. /\ t \in Seq(T) /\ Len(t) = Len(left) + Len(right)
        /\ \A i \in 1 .. Len(left) + Len(right) :
             t[i] = IF i <= Len(left) THEN left[i] ELSE right[i - Len(left)]
    BY <1>2, <1>3, <1>4, ConcatProperties
  <2>2. ASSUME NEW i \in 1 .. (n - 1)
        PROVE  t[i] = IF i <= k - 1 THEN s[i] ELSE s[i + 1]
    <3>1. CASE i <= k - 1
      <4>1. i \in 1 .. (k - 1) /\ i \in 1 .. Len(left) + Len(right)
        BY <1>1, <1>2, <1>3, <3>1
      <4>2. t[i] = left[i] /\ left[i] = s[i]
        BY <1>2, <2>1, <3>1, <4>1
      <4>. QED
        BY <3>1, <4>2
    <3>2. CASE ~(i <= k - 1)
      <4>1. i - (k - 1) \in 1 .. (n - k) /\ i - (k - 1) + k = i + 1
        BY <1>1, <3>2
      <4>2. t[i] = right[i - (k - 1)]
        <5>1. i \in 1 .. Len(left) + Len(right) /\ Len(left) = k - 1
          BY <1>1, <1>2, <1>3
        <5>. QED
          BY <2>1, <3>2, <5>1
      <4>. QED
        BY <1>3, <3>2, <4>1, <4>2
    <3>. QED
      BY <3>1, <3>2
  <2>. QED
    BY <1>1, <1>2, <1>3, <2>1, <2>2
<1>6. /\ \A y : y \in Range(s) <=> \E i \in 1 .. n : s[i] = y
      /\ \A y : y \in Range(t) <=> \E i \in 1 .. (n - 1) : t[i] = y
  BY <1>5, RangeIs
<1>7. ASSUME IsInjective(s)
      PROVE  IsInjective(t) /\ Range(t) = Range(s) \ {s[k]}
  <2> DEFINE move(i) == IF i <= k - 1 THEN i ELSE i + 1
  <2>1. \A i, j \in 1 .. n : s[i] = s[j] => i = j
    BY <1>7, RangeIs
  <2>2. /\ \A i \in 1 .. (n - 1) : move(i) \in 1 .. n /\ move(i) # k /\ t[i] = s[move(i)]
        /\ \A i, j \in 1 .. (n - 1) : move(i) = move(j) => i = j
        /\ \A i \in 1 .. n : i = k \/ \E j \in 1 .. (n - 1) : move(j) = i
    <3>1. ASSUME NEW i \in 1 .. n, i # k
          PROVE  \E j \in 1 .. (n - 1) : move(j) = i
      <4>1. CASE i < k
        BY <1>1, <4>1
      <4>2. CASE i > k
        <5>1. i - 1 \in 1 .. (n - 1) /\ move(i - 1) = i
          BY <1>1, <4>2
        <5>. QED
          BY <5>1
      <4>. QED
        BY <1>1, <3>1, <4>1, <4>2
    <3>. QED
      BY <1>1, <1>5, <3>1
  <2> HIDE DEF move, n
  <2>3. \A i, j \in 1 .. (n - 1) : t[i] = t[j] => i = j
    BY <2>1, <2>2
  <2>4. IsInjective(t)
    BY <1>5, <2>3, RangeIs
  <2>5. k \in 1 .. n
    BY DEF n
  <2>6. \A y : y \in Range(t) <=> y \in Range(s) /\ y # s[k]
    <3>1. ASSUME NEW i \in 1 .. (n - 1)
          PROVE  t[i] \in Range(s) /\ t[i] # s[k]
      BY <1>6, <2>1, <2>2, <2>5
    <3>2. ASSUME NEW i \in 1 .. n, s[i] # s[k]
          PROVE  s[i] \in Range(t)
      BY <1>6, <2>2, <3>2
    <3>. QED
      BY <1>6, <3>1, <3>2
  <2>. QED
    BY <2>4, <2>6
<1>8. s[k] \in Range(s)
  BY <1>6
<1>. QED
  BY <1>1, <1>5, <1>7, <1>8 DEF t

\* A finite set put in order.
LEMMA SetToSeqFacts ==
    ASSUME NEW S, IsFiniteSet(S)
    PROVE  SetToSeq(S) \in Seq(S) /\ IsInjective(SetToSeq(S)) /\ Range(SetToSeq(S)) = S
<1> DEFINE n == Cardinality(S)
           f == SetToSeq(S)
<1>1. n \in Nat
  BY FS_CardinalityType
<1>2. ExistsBijection(1 .. n, S)
  BY FS_CardinalityType
<1>3. PICK g : g \in [1 .. n -> S] /\ IsInjective(g)
  BY <1>2 DEF ExistsBijection, Bijection, Injection, IsInjective
<1>4. f \in [1 .. n -> S] /\ IsInjective(f)
  BY <1>3, Zenon DEF SetToSeq
<1> HIDE DEF f
<1>5. f \in Seq(S) /\ Len(f) = n
  BY <1>1, <1>4
<1>6. f \in Surjection(1 .. n, S)
  <2>1. f \in Injection(1 .. n, S)
    BY <1>4, Fun_IsInj DEF IsInjective
  <2>2. IsFiniteSet(1 .. n) /\ Cardinality(1 .. n) = n
    BY <1>1, FS_Interval
  <2>. QED
    BY <2>1, <2>2, FS_Injection
<1>7. Range(f) = S
  BY <1>4, <1>6 DEF Surjection, Range
<1>. QED
  BY <1>4, <1>5, <1>7 DEF f

-----------------------------------------------------------------------------
(* The invariant                                                           *)

\* The worker resumes only when the DPC that set its event is done with the
\* buffer: the one thing between the two that the code leaves to the scheduler.
SettlesFirst == GetDisplayInfo => \A c \in Cpus : dpc[c].buf # thr["worker"].buf

\* What is in a virtqueue, and that nothing is in it twice.
Members(l) == Range(l.avail) \cup Range(l.held) \cup Range(l.used)
\* A virtqueue of which no part, and no two parts, hold the same buffer twice.
Line(l) ==
    /\ l \in [avail : Seq(Bufs), held : Seq(Bufs), used : Seq(Bufs)]
    /\ IsInjective(l.avail) /\ IsInjective(l.held) /\ IsInjective(l.used)
    /\ Range(l.avail) \cap Range(l.held) = {}
    /\ Range(l.avail) \cap Range(l.used) = {}
    /\ Range(l.held) \cap Range(l.used) = {}

\* What a buffer, a thread and a DPC are made of.
BufType == [op : Ops \cup {"none"}, event : Threads \cup {NULL}, reply : 0 .. MaxChanges]
ThreadType == [pc : {"idle", "ask", "filled", "kick", "wait", "clear"},
               op : Ops \cup {"none"}, buf : Bufs \cup {NULL}]
DpcType == [pc : {"off", "scan", "settle"}, reason : SUBSET {"DISPLAY", "CURSOR", "CHANGE"},
            buf : Bufs \cup {NULL}]

\* Types, but for the sizes of the pool and of the queues.
Typed ==
    /\ free \in Seq(Pool) /\ IsInjective(free)
    /\ list3d \in Seq(BigBufs)
    /\ vbuf \in [Bufs -> BufType]
    /\ DOMAIN queue = Queues /\ \A q \in Queues : Line(queue[q])
    /\ thr \in [Threads -> ThreadType]
    /\ signalled \subseteq Threads
    /\ dpc \in [Cpus -> DpcType]
    /\ display \in 0 .. MaxChanges

\* The rest: nothing else depends on it.
FlagsTyped ==
    /\ kicked \subseteq Queues
    /\ isr \subseteq {"QUEUE", "CONFIG"}
    /\ pending \subseteq {"DISPLAY", "CURSOR", "CHANGE"}
    /\ dpc_queued \in BOOLEAN
    /\ config_event \in BOOLEAN /\ events_read \in BOOLEAN
    /\ known \in 0 .. MaxChanges
    /\ crashed \in BOOLEAN

\* Buffer b is in the hands of x: of the pool, of a thread that fills it, of a
\* queue, of a DPC that will release it, of the worker woken by it.
At(b, k, x) ==
    \/ k = "pool" /\ x = NULL /\ b \in Range(free)
    \/ k = "thread" /\ x \in Threads /\ thr[x].pc = "filled" /\ thr[x].buf = b
    \/ k = "queue" /\ x \in Queues /\ b \in Posted(x)
    \/ k = "dpc" /\ x \in Cpus /\ dpc[x].buf = b /\ vbuf[b].op # "display"
    \/ k = "woken" /\ x = "worker" /\ "worker" \in signalled /\ thr["worker"].buf = b

\* The kinds of hands there are, and whose they are.
Kinds == {"pool", "thread", "queue", "dpc", "woken"}
Hands == {NULL} \cup Threads \cup Queues \cup Cpus

\* Nothing is in two hands.
Apart ==
    \A b \in Bufs : \A k1, k2 \in Kinds : \A x1, x2 \in Hands :
       At(b, k1, x1) /\ At(b, k2, x2) => k1 = k2 /\ x1 = x2

\* What a thread does and has at each place.
ThreadInv ==
    \A t \in Threads :
       /\ thr[t].pc \in {"idle", "ask", "clear"} => thr[t].op = "none" /\ thr[t].buf = NULL
       /\ thr[t].pc \in {"ask", "clear"} => t = "worker"
       /\ thr[t].pc \in {"filled", "kick", "wait"} =>
             /\ thr[t].op \in Ops
             /\ t = "worker" <=> thr[t].op = "display"
             /\ t = "worker" => thr[t].buf \in Pool
       /\ thr[t].pc = "filled" =>
             /\ thr[t].buf \in Bufs
             /\ thr[t].buf \in BigBufs <=> thr[t].op = "submit"
             /\ vbuf[thr[t].buf].op = thr[t].op
             /\ vbuf[thr[t].buf].event = IF Waits(thr[t].op) THEN t ELSE NULL
       /\ thr[t].pc = "wait" => Waits(thr[t].op)

\* A posted command is of its queue, and names the event of the thread that
\* waits for it, which is not set; no other command names that event.
Awaited(b) ==
    LET t == vbuf[b].event IN
    /\ t \in Threads \ signalled
    /\ thr[t].pc \in {"kick", "wait"} /\ thr[t].op = vbuf[b].op
    /\ t = "worker" => thr[t].buf = b
\* So for every posted command.
PostInv ==
    /\ \A q \in Queues : \A b \in Posted(q) :
          /\ vbuf[b].op \in Ops /\ QueueOf(vbuf[b].op) = q
          /\ b \in BigBufs <=> vbuf[b].op = "submit"
          /\ IF Waits(vbuf[b].op) THEN Awaited(b) ELSE vbuf[b].event = NULL
    /\ \A b1, b2 \in Posted("ctrl") :
          vbuf[b1].event = vbuf[b2].event => b1 = b2 \/ vbuf[b1].event = NULL

\* A thread whose event is set is still waiting for it.
WakeInv == \A t \in signalled : thr[t].pc \in {"kick", "wait"} /\ Waits(thr[t].op)

\* A command that a DPC has dequeued: the display information is the worker's.
SettleInv ==
    \A c \in Cpus :
       /\ dpc[c].pc = "settle" <=> dpc[c].buf # NULL
       /\ dpc[c].pc = "settle" =>
             LET b == dpc[c].buf IN
             /\ vbuf[b].op \in Ops
             /\ b \in BigBufs <=> vbuf[b].op = "submit"
             /\ vbuf[b].op = "display" => At(b, "woken", "worker")

\* The inductive invariant: nothing in it refers to the sizes of the rings.
OwnerInv == Typed /\ Apart /\ ThreadInv /\ PostInv /\ WakeInv /\ SettleInv

\* The threads that have a buffer to post to q.
Filling(q) == {t \in Threads : thr[t].pc = "filled" /\ QueueOf(thr[t].op) = q}

-----------------------------------------------------------------------------
(* A virtqueue's line of buffers                                           *)

\* The parts of a virtqueue are sequences of buffers.
LEMMA LineFacts ==
    ASSUME NEW l, Line(l)
    PROVE  /\ DOMAIN l = {"avail", "held", "used"}
           /\ l.avail \in Seq(Bufs) /\ l.held \in Seq(Bufs) /\ l.used \in Seq(Bufs)
           /\ l \in [avail : Seq(Bufs), held : Seq(Bufs), used : Seq(Bufs)]
           /\ Members(l) \subseteq Bufs
<1>0. l \in [avail : Seq(Bufs), held : Seq(Bufs), used : Seq(Bufs)]
  BY DEF Line
<1>1. /\ DOMAIN l = {"avail", "held", "used"}
      /\ l.avail \in Seq(Bufs) /\ l.held \in Seq(Bufs) /\ l.used \in Seq(Bufs)
  BY DEF Line
<1>2. Range(l.avail) \subseteq Bufs /\ Range(l.held) \subseteq Bufs /\ Range(l.used) \subseteq Bufs
  BY <1>1, RangeIs
<1>. QED
  BY <1>0, <1>1, <1>2 DEF Members

\* Posting
LEMMA LineAdds ==
    ASSUME NEW l, Line(l), NEW b \in Bufs, b \notin Members(l)
    PROVE  LET m == [l EXCEPT !.avail = Append(@, b)]
           IN  Line(m) /\ Members(m) = Members(l) \cup {b}
<1> DEFINE a == Append(l.avail, b)
           m == [l EXCEPT !.avail = Append(@, b)]
<1>1. /\ l.avail \in Seq(Bufs) /\ l.held \in Seq(Bufs) /\ l.used \in Seq(Bufs)
  BY LineFacts
<1>2. b \notin Range(l.avail) /\ b \notin Range(l.held) /\ b \notin Range(l.used)
  BY DEF Members
<1>3. a \in Seq(Bufs) /\ Range(a) = Range(l.avail) \cup {b} /\ IsInjective(a)
  BY <1>1, <1>2, AppendFacts DEF Line
<1> HIDE DEF a
<1>4. /\ m \in [avail : Seq(Bufs), held : Seq(Bufs), used : Seq(Bufs)]
      /\ m.avail = a /\ m.held = l.held /\ m.used = l.used
  BY <1>1, <1>3, LineFacts DEF a
<1> HIDE DEF m
<1>5. Members(m) = Members(l) \cup {b}
  BY <1>3, <1>4 DEF Members
<1>6. Line(m)
  BY <1>2, <1>3, <1>4 DEF Line
<1>. QED
  BY <1>5, <1>6 DEF m

\* The device takes the next.
LEMMA LineTakes ==
    ASSUME NEW l, Line(l), l.avail # <<>>
    PROVE  LET m == [l EXCEPT !.avail = Tail(@), !.held = Append(@, Head(l.avail))]
           IN  Line(m) /\ Members(m) = Members(l)
<1> DEFINE a == Tail(l.avail)
           b == Head(l.avail)
           h == Append(l.held, b)
           m == [l EXCEPT !.avail = Tail(@), !.held = Append(@, Head(l.avail))]
<1>1. /\ l.avail \in Seq(Bufs) /\ l.held \in Seq(Bufs) /\ l.used \in Seq(Bufs)
  BY LineFacts
<1>2. /\ b \in Range(l.avail) /\ b \in Bufs /\ a \in Seq(Bufs) /\ IsInjective(a)
      /\ Range(a) = Range(l.avail) \ {b}
  BY <1>1, TailFacts DEF Line
<1> HIDE DEF a, b
<1>3. b \notin Range(l.held) /\ b \notin Range(l.used)
  BY <1>2 DEF Line
<1>4. h \in Seq(Bufs) /\ Range(h) = Range(l.held) \cup {b} /\ IsInjective(h)
  BY <1>1, <1>2, <1>3, AppendFacts DEF Line
<1> HIDE DEF h
<1>5. /\ m \in [avail : Seq(Bufs), held : Seq(Bufs), used : Seq(Bufs)]
      /\ m.avail = a /\ m.held = h /\ m.used = l.used
  BY <1>1, <1>2, <1>4, LineFacts DEF a, h, b
<1> HIDE DEF m
<1>6. Members(m) = Members(l)
  BY <1>2, <1>4, <1>5 DEF Members
<1>7. Line(m)
  BY <1>2, <1>3, <1>4, <1>5 DEF Line
<1>. QED
  BY <1>6, <1>7 DEF m

\* The device completes the i-th it holds.
LEMMA LineCompletes ==
    ASSUME NEW l, Line(l), NEW i \in DOMAIN l.held
    PROVE  LET m == [l EXCEPT !.held = RemoveAt(@, i), !.used = Append(@, l.held[i])]
           IN  Line(m) /\ Members(m) = Members(l) /\ l.held[i] \in Members(l)
<1> DEFINE h == RemoveAt(l.held, i)
           b == l.held[i]
           u == Append(l.used, b)
           m == [l EXCEPT !.held = RemoveAt(@, i), !.used = Append(@, l.held[i])]
<1>1. /\ l.avail \in Seq(Bufs) /\ l.held \in Seq(Bufs) /\ l.used \in Seq(Bufs)
  BY LineFacts
<1>2. i \in 1 .. Len(l.held)
  BY <1>1, RangeIs
<1>3. /\ b \in Range(l.held) /\ b \in Bufs /\ h \in Seq(Bufs) /\ IsInjective(h)
      /\ Range(h) = Range(l.held) \ {b}
  BY <1>1, <1>2, RemoveAtFacts DEF Line
<1> HIDE DEF h, b
<1>4. b \notin Range(l.avail) /\ b \notin Range(l.used)
  BY <1>3 DEF Line
<1>5. u \in Seq(Bufs) /\ Range(u) = Range(l.used) \cup {b} /\ IsInjective(u)
  BY <1>1, <1>3, <1>4, AppendFacts DEF Line
<1> HIDE DEF u
<1>6. /\ m \in [avail : Seq(Bufs), held : Seq(Bufs), used : Seq(Bufs)]
      /\ m.avail = l.avail /\ m.held = h /\ m.used = u
  BY <1>1, <1>3, <1>5, LineFacts DEF h, u, b
<1> HIDE DEF m
<1>7. Members(m) = Members(l)
  BY <1>3, <1>5, <1>6 DEF Members
<1>8. Line(m)
  BY <1>3, <1>4, <1>5, <1>6 DEF Line
<1>9. b \in Members(l)
  BY <1>3 DEF Members
<1>. QED
  BY <1>7, <1>8, <1>9 DEF m, b, h, u

\* The driver collects the first that is used.
LEMMA LineCollects ==
    ASSUME NEW l, Line(l), l.used # <<>>
    PROVE  LET m == [l EXCEPT !.used = Tail(@)]
           IN  /\ Line(m) /\ Members(m) = Members(l) \ {Head(l.used)}
               /\ Head(l.used) \in Members(l)
<1> DEFINE u == Tail(l.used)
           b == Head(l.used)
           m == [l EXCEPT !.used = Tail(@)]
<1>1. /\ l.avail \in Seq(Bufs) /\ l.held \in Seq(Bufs) /\ l.used \in Seq(Bufs)
  BY LineFacts
<1>2. /\ b \in Range(l.used) /\ u \in Seq(Bufs) /\ IsInjective(u)
      /\ Range(u) = Range(l.used) \ {b}
  BY <1>1, TailFacts DEF Line
<1> HIDE DEF u, b
<1>3. b \notin Range(l.avail) /\ b \notin Range(l.held)
  BY <1>2 DEF Line
<1>4. /\ m \in [avail : Seq(Bufs), held : Seq(Bufs), used : Seq(Bufs)]
      /\ m.avail = l.avail /\ m.held = l.held /\ m.used = u
  BY <1>1, <1>2, LineFacts DEF u
<1> HIDE DEF m
<1>5. Members(m) = Members(l) \ {b} /\ b \in Members(l)
  BY <1>2, <1>3, <1>4 DEF Members
<1>6. Line(m)
  BY <1>2, <1>4 DEF Line
<1>. QED
  BY <1>5, <1>6 DEF m, b

-----------------------------------------------------------------------------
(* Hands                                                                   *)

\* After a step everything is where it was; or all but b, which was dropped, or is
\* now in the hands of x.
Kept ==
    \A b \in Bufs, k \in Kinds, x \in Hands : At(b, k, x)' <=> At(b, k, x)
Dropped(c) ==
    \A b \in Bufs, k \in Kinds, x \in Hands : At(b, k, x)' <=> At(b, k, x) /\ b # c
Handed(c, kind, to) ==
    \A b \in Bufs, k \in Kinds, x \in Hands :
       At(b, k, x)' <=> IF b = c THEN k = kind /\ x = to ELSE At(b, k, x)

\* A buffer that changes hands, or is dropped, leaves nothing in two hands.
LEMMA ApartNext ==
    ASSUME Apart,
           \/ Kept
           \/ \E c \in Bufs : Dropped(c)
           \/ \E c \in Bufs, k \in Kinds, x \in Hands : Handed(c, k, x)
    PROVE  Apart'
<1>1. CASE Kept
  BY <1>1 DEF Kept, Apart
<1>2. CASE \E c \in Bufs : Dropped(c)
  BY <1>2 DEF Dropped, Apart
<1>3. ASSUME NEW c \in Bufs, NEW k \in Kinds, NEW x \in Hands, Handed(c, k, x)
      PROVE  Apart'
  BY <1>3 DEF Handed, Apart
<1>. QED
  BY <1>1, <1>2, <1>3

\* What the names of the parts have in common.
LEMMA Names ==
    /\ NULL \notin Bufs /\ NULL \notin Threads /\ "worker" \in Threads /\ "worker" \notin Clients
    /\ Pool \cap BigBufs = {} /\ Pool \subseteq Bufs /\ BigBufs \subseteq Bufs
    /\ Threads \subseteq Hands /\ Queues \subseteq Hands /\ Cpus \subseteq Hands /\ NULL \in Hands
    /\ \A c \in Clients : c \in Threads /\ c # "worker" /\ Program[c] \subseteq Ops \ {"display"}
BY NameAssumption, ProgramAssumption DEF Threads, Bufs, Hands, Ops

\* One kind at a time.
LEMMA AtIs ==
    ASSUME NEW b \in Bufs, NEW x \in Hands
    PROVE  /\ At(b, "pool", x) <=> x = NULL /\ b \in Range(free)
           /\ At(b, "thread", x) <=> x \in Threads /\ thr[x].pc = "filled" /\ thr[x].buf = b
           /\ At(b, "queue", x) <=> x \in Queues /\ b \in Posted(x)
           /\ At(b, "dpc", x) <=> x \in Cpus /\ dpc[x].buf = b /\ vbuf[b].op # "display"
           /\ At(b, "woken", x) <=> x = "worker" /\ "worker" \in signalled /\ thr["worker"].buf = b
BY DEF At

\* The same of the next state.
LEMMA AtNext ==
    ASSUME NEW b \in Bufs, NEW x \in Hands
    PROVE  /\ At(b, "pool", x)' <=> x = NULL /\ b \in Range(free')
           /\ At(b, "thread", x)' <=> x \in Threads /\ thr'[x].pc = "filled" /\ thr'[x].buf = b
           /\ At(b, "queue", x)' <=> x \in Queues /\ b \in Posted(x)'
           /\ At(b, "dpc", x)' <=> x \in Cpus /\ dpc'[x].buf = b /\ vbuf'[b].op # "display"
           /\ At(b, "woken", x)' <=> /\ x = "worker" /\ "worker" \in signalled'
                                     /\ thr'["worker"].buf = b
BY DEF At

\* The line of each queue.
LEMMA PostedIs ==
    ASSUME Typed, NEW q \in Queues
    PROVE  /\ Line(queue[q]) /\ Posted(q) = Members(queue[q]) /\ Posted(q) \subseteq Bufs
           /\ queue[q].avail \in Seq(Bufs) /\ queue[q].held \in Seq(Bufs) /\ queue[q].used \in Seq(Bufs)
BY LineFacts DEF Typed, Posted, Members

\* At the start the pool has everything.
LEMMA InitOwner == Init => OwnerInv /\ FlagsTyped
<1> SUFFICES ASSUME Init PROVE OwnerInv /\ FlagsTyped
  OBVIOUS
<1> USE DEF Init
<1>1. free \in Seq(Pool) /\ IsInjective(free) /\ Range(free) = Pool
  BY RingAssumption, SetToSeqFacts
<1>2. <<>> \in Seq(Bufs) /\ Range(<<>>) = {} /\ IsInjective(<<>>) /\ list3d \in Seq(BigBufs)
  BY RangeIs DEF Range, IsInjective
<1>3. \A q \in Queues : Line(queue[q]) /\ Posted(q) = {}
  <2> TAKE q \in Queues
  <2>1. queue[q] = [avail |-> <<>>, held |-> <<>>, used |-> <<>>]
    OBVIOUS
  <2>2. Members(queue[q]) = {} /\ Line(queue[q])
    <3>1. /\ queue[q] \in [avail : Seq(Bufs), held : Seq(Bufs), used : Seq(Bufs)]
          /\ queue[q].avail = <<>> /\ queue[q].held = <<>> /\ queue[q].used = <<>>
      BY <1>2, <2>1
    <3>. QED
      BY <1>2, <3>1 DEF Line, Members
  <2>. QED
    BY <2>2 DEF Posted, Members
<1>4. 0 \in 0 .. MaxChanges
  BY DeviceAssumption
<1>5. Typed
  BY <1>1, <1>2, <1>3, <1>4 DEF Typed, BufType, ThreadType, DpcType
<1>6. \A b \in Bufs, k \in Kinds, x \in Hands : At(b, k, x) => k = "pool" /\ x = NULL
  BY <1>3, Names DEF At
<1>7. Apart
  BY <1>6 DEF Apart
<1>8. ThreadInv /\ PostInv /\ WakeInv /\ SettleInv
  BY <1>3, Names DEF ThreadInv, PostInv, WakeInv, SettleInv, Queues
<1>9. FlagsTyped
  BY <1>4 DEF FlagsTyped
<1>. QED
  BY <1>5, <1>7, <1>8, <1>9 DEF OwnerInv

-----------------------------------------------------------------------------
(* One step at a time: first those that move no buffer.                    *)

\* A step that only moves within a queue, fills in a reply, or changes the reasons of a
\* DPC.
LEMMA QuietOwner ==
    ASSUME OwnerInv, Typed', UNCHANGED <<free, thr, signalled>>,
           \A q \in Queues : Posted(q)' = Posted(q),
           \A b \in Bufs : vbuf'[b].op = vbuf[b].op /\ vbuf'[b].event = vbuf[b].event,
           \A c \in Cpus : /\ dpc'[c].buf = dpc[c].buf
                           /\ dpc'[c].pc = "settle" <=> dpc[c].pc = "settle"
    PROVE  OwnerInv' /\ Kept
<1> USE DEF OwnerInv
<1>1. Kept
  BY DEF Kept, At
<1>2. Apart'
  BY <1>1, ApartNext
<1>3. ThreadInv'
  BY DEF ThreadInv
<1>4. PostInv'
  <2>1. \A q \in Queues : Posted(q) \subseteq Bufs
    BY PostedIs
  <2>2. "ctrl" \in Queues
    BY DEF Queues
  <2>. QED
    BY <2>1, <2>2 DEF PostInv, Awaited
<1>5. WakeInv'
  BY DEF WakeInv
<1>6. SettleInv'
  <2>1. \A c \in Cpus : dpc[c].buf \in Bufs \cup {NULL}
    BY DEF Typed, DpcType
  <2>2. \A c \in Cpus : dpc[c].pc = "settle" => dpc[c].buf \in Bufs
    BY <2>1 DEF SettleInv
  <2>3. \A b : At(b, "woken", "worker")' <=> At(b, "woken", "worker")
    BY DEF At
  <2>. QED
    BY <2>2, <2>3 DEF SettleInv
<1>. QED
  BY <1>1, <1>2, <1>3, <1>4, <1>5, <1>6

\* A queue is changed at q.
LEMMA QueueChanges ==
    ASSUME Typed, NEW q \in Queues, NEW m, Line(m), queue' = [queue EXCEPT ![q] = m]
    PROVE  /\ DOMAIN queue' = Queues /\ \A r \in Queues : Line(queue'[r])
           /\ \A r \in Queues : Posted(r)' = IF r = q THEN Members(m) ELSE Posted(r)
<1>1. /\ DOMAIN queue' = Queues
      /\ \A r \in Queues : queue'[r] = IF r = q THEN m ELSE queue[r]
  BY DEF Typed
<1>. QED
  BY <1>1 DEF Typed, Posted, Members

\* The steps of a DPC between two commands.
LEMMA DpcQuiet ==
    ASSUME OwnerInv, FlagsTyped, NEW c \in Cpus,
           DpcStart(c) \/ DpcExchange(c) \/ DpcCtrlEmpty(c) \/ DpcChange(c)
    PROVE  OwnerInv' /\ Kept
<1> USE DEF drivervars, qvars, dpcvars, configvars, OwnerInv
<1>1. UNCHANGED <<free, list3d, thr, vbuf, queue, signalled, display>>
  BY DEF DpcStart, DpcExchange, DpcCtrlEmpty, DpcChange
<1>2. PICK d \in DpcType : /\ dpc' = [dpc EXCEPT ![c] = d]
                           /\ d.buf = dpc[c].buf /\ (d.pc = "settle" <=> dpc[c].pc = "settle")
  <2>1. /\ dpc \in [Cpus -> DpcType] /\ dpc[c] \in DpcType
        /\ pending \subseteq {"DISPLAY", "CURSOR", "CHANGE"}
    BY DEF Typed, FlagsTyped
  <2>2. CASE DpcStart(c)
    <3>1. [dpc[c] EXCEPT !.pc = "scan"] \in DpcType
      BY <2>1 DEF DpcType
    <3>. QED
      BY <2>1, <2>2, <3>1 DEF DpcStart, DpcType
  <2>3. CASE DpcExchange(c)
    <3>1. PICK p \in {"off", "scan"} :
             dpc' = [dpc EXCEPT ![c] = [dpc[c] EXCEPT !.pc = p, !.reason = pending]]
      BY <2>1, <2>3 DEF DpcExchange
    <3>2. [dpc[c] EXCEPT !.pc = p, !.reason = pending] \in DpcType
      BY <2>1 DEF DpcType
    <3>. QED
      BY <2>1, <2>3, <3>1, <3>2 DEF DpcExchange, DpcType
  <2>4. CASE DpcCtrlEmpty(c) \/ DpcChange(c)
    <3>1. PICK r \in SUBSET {"DISPLAY", "CURSOR", "CHANGE"} :
             dpc' = [dpc EXCEPT ![c] = [dpc[c] EXCEPT !.reason = r]]
      BY <2>1, <2>4 DEF DpcCtrlEmpty, DpcChange, DpcType
    <3>2. [dpc[c] EXCEPT !.reason = r] \in DpcType
      BY <2>1 DEF DpcType
    <3>. QED
      BY <2>1, <3>1, <3>2 DEF DpcType
  <2>. QED
    BY <2>2, <2>3, <2>4
<1>3. /\ dpc' \in [Cpus -> DpcType]
      /\ \A e \in Cpus : /\ dpc'[e].buf = dpc[e].buf
                         /\ dpc'[e].pc = "settle" <=> dpc[e].pc = "settle"
  BY <1>2 DEF Typed
<1>4. Typed'
  BY <1>1, <1>3 DEF Typed
<1>5. \A q \in Queues : Posted(q)' = Posted(q)
  BY <1>1 DEF Posted
<1>. QED
  BY <1>1, <1>3, <1>4, <1>5, QuietOwner

\* The steps that change flags and registers only.
LEMMA FlagsQuiet ==
    ASSUME OwnerInv,
           \/ InterruptQueue \/ InterruptChange \/ InterruptUnknown \/ DevChange
           \/ \E t \in Threads, op \in Ops : GetBufNull(t, op)
    PROVE  OwnerInv' /\ Kept
<1> USE DEF drivervars, qvars, dpcvars, configvars, OwnerInv
<1>1. /\ UNCHANGED <<free, list3d, thr, vbuf, queue, signalled, dpc>>
      /\ display' = display \/ (display < MaxChanges /\ display' = display + 1)
  BY DEF InterruptQueue, InterruptChange, InterruptUnknown, RaiseDpc, DevChange, GetBufNull
<1>2. display' \in 0 .. MaxChanges
  BY <1>1, DeviceAssumption DEF Typed
<1>3. Typed'
  BY <1>1, <1>2 DEF Typed
<1>4. \A q \in Queues : Posted(q)' = Posted(q)
  BY <1>1 DEF Posted
<1>. QED
  BY <1>1, <1>3, <1>4, QuietOwner

\* The device takes a buffer: it stays in its queue.
LEMMA DevTakeOwner ==
    ASSUME OwnerInv, NEW q \in Queues, DevTake(q)
    PROVE  OwnerInv' /\ Kept
<1> USE DEF drivervars, qvars, dpcvars, configvars, OwnerInv
<1>1. UNCHANGED <<free, list3d, thr, vbuf, signalled, dpc, display>>
  BY DEF DevTake
<1>2. Line(queue[q]) /\ Posted(q) = Members(queue[q])
  BY PostedIs
<1>3. /\ DOMAIN queue' = Queues /\ \A r \in Queues : Line(queue'[r])
      /\ \A r \in Queues : Posted(r)' = Posted(r)
  <2>1. CASE queue[q].avail = <<>>
    BY <2>1 DEF DevTake, Typed, Posted
  <2>2. CASE queue[q].avail # <<>>
    <3>1. PICK m : m = [queue[q] EXCEPT !.avail = Tail(@), !.held = Append(@, Head(queue[q].avail))]
      OBVIOUS
    <3>2. queue' = [queue EXCEPT ![q] = m]
      BY <2>2, <3>1 DEF DevTake, Typed
    <3>3. Line(m) /\ Members(m) = Members(queue[q])
      BY <1>2, <2>2, <3>1, LineTakes
    <3>. QED
      BY <1>2, <3>2, <3>3, QueueChanges
  <2>. QED
    BY <2>1, <2>2
<1>4. Typed'
  BY <1>1, <1>3 DEF Typed
<1>. QED
  BY <1>1, <1>3, <1>4, QuietOwner

\* The device completes one, and fills in the reply the worker asked for.
LEMMA DevCompleteOwner ==
    ASSUME OwnerInv, NEW q \in Queues, NEW i, DevComplete(q, i)
    PROVE  OwnerInv' /\ Kept
<1> USE DEF drivervars, qvars, dpcvars, configvars, OwnerInv
<1>1. UNCHANGED <<free, list3d, thr, signalled, dpc, display>>
  BY DEF DevComplete
<1>2. Line(queue[q]) /\ Posted(q) = Members(queue[q]) /\ Posted(q) \subseteq Bufs
  BY PostedIs
<1>3. PICK m : m = [queue[q] EXCEPT !.held = RemoveAt(@, i), !.used = Append(@, queue[q].held[i])]
  OBVIOUS
<1>4. Line(m) /\ Members(m) = Members(queue[q]) /\ queue[q].held[i] \in Members(queue[q])
  BY <1>2, <1>3, LineCompletes DEF DevComplete
<1>5. queue' = [queue EXCEPT ![q] = m]
  BY <1>3 DEF DevComplete, Typed
<1>6. /\ DOMAIN queue' = Queues /\ \A r \in Queues : Line(queue'[r])
      /\ \A r \in Queues : Posted(r)' = Posted(r)
  BY <1>2, <1>4, <1>5, QueueChanges
<1>7. /\ vbuf' \in [Bufs -> BufType]
      /\ \A b \in Bufs : vbuf'[b].op = vbuf[b].op /\ vbuf'[b].event = vbuf[b].event
  <2>1. PICK b \in Bufs : b = queue[q].held[i]
    BY <1>2, <1>4
  <2>2. vbuf' = [vbuf EXCEPT ![b] = [vbuf[b] EXCEPT !.reply = display]] \/ vbuf' = vbuf
    BY <2>1 DEF DevComplete, Typed
  <2>3. vbuf \in [Bufs -> BufType] /\ vbuf[b] \in BufType
    BY DEF Typed
  <2>4. [vbuf[b] EXCEPT !.reply = display] \in BufType
    BY <2>3 DEF Typed, BufType
  <2>. QED
    BY <2>2, <2>3, <2>4 DEF BufType
<1>8. Typed'
  BY <1>1, <1>6, <1>7 DEF Typed
<1>. QED
  BY <1>1, <1>6, <1>7, <1>8, QuietOwner

-----------------------------------------------------------------------------
(* Threads                                                                 *)

\* The event of a command that is waited for is of the thread that filled it in.
LEMMA OpFacts ==
    /\ \A op \in Ops : QueueOf(op) \in Queues
    /\ Waits("display") /\ Waits("transfer")
    /\ \A op \in Ops \ {"display", "transfer"} : ~Waits(op)
    /\ ~Waits("none") /\ "none" \notin Ops
    /\ \A op \in Ops : Waits(op) => QueueOf(op) = "ctrl"
    /\ "ctrl" \in Queues /\ "crsr" \in Queues /\ "ctrl" # "crsr"
    /\ \A op \in Ops : QueueOf(op) = "crsr" <=> op = "cursor"
BY DEF Ops, QueueOf, Queues, Waits

\* A thread that has notified the device returns, or waits.
LEMMA KickOwner ==
    ASSUME OwnerInv, NEW t \in Threads, Kick(t)
    PROVE  OwnerInv' /\ Kept
<1> USE DEF drivervars, qvars, dpcvars, configvars, OwnerInv
<1>1. UNCHANGED <<free, list3d, vbuf, queue, signalled, dpc, display>> /\ thr[t].pc = "kick"
  BY DEF Kick
<1>2. /\ thr \in [Threads -> ThreadType] /\ thr[t] \in ThreadType
      /\ thr[t].op \in Ops /\ (t = "worker" <=> thr[t].op = "display")
      /\ t = "worker" => thr[t].buf \in Pool
  BY <1>1 DEF Typed, ThreadInv
<1>3. PICK w \in ThreadType :
         /\ thr' = [thr EXCEPT ![t] = w]
         /\ Waits(thr[t].op) => w.pc = "wait" /\ w.op = thr[t].op
         /\ ~Waits(thr[t].op) => w.pc = "idle" /\ w.op = "none" /\ w.buf = NULL
         /\ t = "worker" => w.buf = thr[t].buf
  <2>1. CASE Waits(thr[t].op)
    <3>1. PICK b \in Bufs \cup {NULL} : b = IF thr[t].op = "display" THEN thr[t].buf ELSE NULL
      BY <1>2 DEF ThreadType
    <3>2. PICK op \in Ops : op = thr[t].op
      BY <1>2
    <3>3. thr' = [thr EXCEPT ![t] = [pc |-> "wait", op |-> op, buf |-> b]]
      BY <2>1, <3>1, <3>2 DEF Kick
    <3>4. [pc |-> "wait", op |-> op, buf |-> b] \in ThreadType
      BY DEF ThreadType
    <3>. QED
      BY <1>2, <2>1, <3>1, <3>2, <3>3, <3>4
  <2>2. CASE ~Waits(thr[t].op)
    <3>1. /\ thr' = [thr EXCEPT ![t] = [pc |-> "idle", op |-> "none", buf |-> NULL]]
          /\ [pc |-> "idle", op |-> "none", buf |-> NULL] \in ThreadType
      BY <2>2 DEF Kick, ThreadType
    <3>. QED
      BY <1>2, <2>2, <3>1, OpFacts
  <2>. QED
    BY <2>1, <2>2
<1>4. /\ thr' \in [Threads -> ThreadType]
      /\ \A u \in Threads : thr'[u] = IF u = t THEN w ELSE thr[u]
  BY <1>2, <1>3
<1>5. Typed'
  BY <1>1, <1>4 DEF Typed
<1>6. \A q \in Queues : Posted(q)' = Posted(q)
  BY <1>1 DEF Posted
<1>7. Kept
  BY <1>1, <1>3, <1>4, <1>6, Names DEF Kept, At
<1>8. Apart'
  BY <1>7, ApartNext
<1>9. ThreadInv'
  BY <1>1, <1>2, <1>3, <1>4, OpFacts DEF ThreadInv
<1>10. PostInv'
  <2>1. ASSUME NEW b, Awaited(b), Waits(vbuf[b].op)
        PROVE  Awaited(b)'
    BY <1>1, <1>3, <1>4, <2>1 DEF Awaited
  <2>2. \A q \in Queues : \A b \in Posted(q) : Waits(vbuf[b].op) => Awaited(b)'
    BY <2>1 DEF PostInv
  <2>. QED
    BY <1>1, <1>6, <2>2, OpFacts DEF PostInv
<1>11. WakeInv'
  BY <1>1, <1>3, <1>4 DEF WakeInv, Typed
<1>12. SettleInv'
  <2>1. \A b : At(b, "woken", "worker")' <=> At(b, "woken", "worker")
    BY <1>1, <1>3, <1>4, Names DEF At
  <2>. QED
    BY <1>1, <2>1 DEF SettleInv
<1>. QED
  BY <1>5, <1>7, <1>8, <1>9, <1>10, <1>11, <1>12

\* A waiting client resumes: no posted command names its event any more.
LEMMA TransferDoneOwner ==
    ASSUME OwnerInv, NEW t \in Threads, TransferDone(t)
    PROVE  OwnerInv' /\ Kept
<1> USE DEF drivervars, qvars, dpcvars, configvars, OwnerInv
<1>1. /\ UNCHANGED <<free, list3d, vbuf, queue, dpc, display>>
      /\ thr[t].pc = "wait" /\ thr[t].op = "transfer" /\ t \in signalled
      /\ signalled' = signalled \ {t}
  BY DEF TransferDone
<1>2. thr \in [Threads -> ThreadType] /\ t # "worker"
  BY <1>1 DEF Typed, ThreadInv
<1> DEFINE w == [pc |-> "idle", op |-> "none", buf |-> NULL]
<1>3. w \in ThreadType /\ w.pc = "idle" /\ w.op = "none" /\ w.buf = NULL
  BY DEF ThreadType
<1>4. thr' = [thr EXCEPT ![t] = w]
  BY DEF TransferDone
<1> HIDE DEF w
<1>5. /\ thr' \in [Threads -> ThreadType]
      /\ \A u \in Threads : thr'[u] = IF u = t THEN w ELSE thr[u]
  BY <1>2, <1>3, <1>4
<1>6. Typed'
  BY <1>1, <1>5 DEF Typed
<1>7. \A q \in Queues : Posted(q)' = Posted(q)
  BY <1>1 DEF Posted
<1>8. Kept
  BY <1>1, <1>2, <1>3, <1>5, <1>7, Names DEF Kept, At
<1>9. Apart'
  BY <1>8, ApartNext
<1>10. ThreadInv'
  BY <1>1, <1>2, <1>3, <1>5 DEF ThreadInv
<1>11. PostInv'
  <2>1. ASSUME NEW b, Awaited(b)
        PROVE  Awaited(b)'
    BY <1>1, <1>5, <2>1 DEF Awaited
  <2>2. \A q \in Queues : \A b \in Posted(q) : Waits(vbuf[b].op) => Awaited(b)'
    BY <2>1 DEF PostInv
  <2>. QED
    BY <1>1, <1>7, <2>2, OpFacts DEF PostInv
<1>12. WakeInv'
  BY <1>1, <1>5 DEF WakeInv, Typed
<1>13. SettleInv'
  <2>1. \A b : At(b, "woken", "worker")' <=> At(b, "woken", "worker")
    BY <1>1, <1>2, <1>5, Names DEF At
  <2>. QED
    BY <1>1, <2>1 DEF SettleInv
<1>. QED
  BY <1>6, <1>8, <1>9, <1>10, <1>11, <1>12, <1>13

\* The worker between two questions.
LEMMA WorkerOwner ==
    ASSUME OwnerInv, WorkerWake \/ ClearEvents
    PROVE  OwnerInv' /\ Kept
<1> USE DEF drivervars, qvars, dpcvars, configvars, OwnerInv
<1>1. UNCHANGED <<free, list3d, vbuf, queue, signalled, dpc, display>>
  BY DEF WorkerWake, ClearEvents
<1>2. /\ thr \in [Threads -> ThreadType] /\ "worker" \in Threads
      /\ thr["worker"].pc \in {"idle", "clear"}
      /\ thr["worker"].op = "none" /\ thr["worker"].buf = NULL
  BY Names DEF WorkerWake, ClearEvents, Typed, ThreadInv
<1>3. PICK p \in {"idle", "ask"} : thr' = [thr EXCEPT !["worker"] = [thr["worker"] EXCEPT !.pc = p]]
  BY DEF WorkerWake, ClearEvents
<1>4. PICK w : w = [thr["worker"] EXCEPT !.pc = p]
  OBVIOUS
<1>5. w \in ThreadType /\ w.pc = p /\ w.op = "none" /\ w.buf = NULL
  BY <1>2, <1>4 DEF ThreadType
<1>6. /\ thr' \in [Threads -> ThreadType]
      /\ \A u \in Threads : thr'[u] = IF u = "worker" THEN w ELSE thr[u]
  BY <1>2, <1>3, <1>4, <1>5
<1>7. Typed'
  BY <1>1, <1>6 DEF Typed
<1>8. \A q \in Queues : Posted(q)' = Posted(q)
  BY <1>1 DEF Posted
<1>9. Kept
  BY <1>1, <1>2, <1>5, <1>6, <1>8, Names DEF Kept, At
<1>10. Apart'
  BY <1>9, ApartNext
<1>11. ThreadInv'
  BY <1>1, <1>2, <1>5, <1>6 DEF ThreadInv
<1>12. PostInv'
  <2>1. ASSUME NEW b, Awaited(b)
        PROVE  Awaited(b)'
    BY <1>1, <1>2, <1>6, <2>1 DEF Awaited
  <2>2. \A q \in Queues : \A b \in Posted(q) : Waits(vbuf[b].op) => Awaited(b)'
    BY <2>1 DEF PostInv
  <2>. QED
    BY <1>1, <1>8, <2>2, OpFacts DEF PostInv
<1>13. WakeInv'
  BY <1>1, <1>2, <1>6 DEF WakeInv, Typed
<1>14. SettleInv'
  <2>1. \A b \in Bufs : At(b, "woken", "worker")' <=> At(b, "woken", "worker")
    BY <1>1, <1>2, <1>5, <1>6, Names DEF At
  <2>2. \A c \in Cpus : dpc[c].buf \in Bufs \cup {NULL}
    BY DEF Typed, DpcType
  <2>. QED
    BY <1>1, <2>1, <2>2 DEF SettleInv
<1>. QED
  BY <1>7, <1>9, <1>10, <1>11, <1>12, <1>13, <1>14

\* The worker gives back the buffer it was woken by.
LEMMA GetDisplayInfoOwner ==
    ASSUME OwnerInv, GetDisplayInfo, SettlesFirst
    PROVE  /\ OwnerInv'
           /\ \E b \in Pool : At(b, "woken", "worker") /\ Handed(b, "pool", NULL)
<1> USE DEF drivervars, qvars, dpcvars, configvars, OwnerInv
<1>1. /\ UNCHANGED <<list3d, vbuf, queue, dpc, display>>
      /\ thr["worker"].pc = "wait" /\ "worker" \in signalled
      /\ signalled' = signalled \ {"worker"}
  BY DEF GetDisplayInfo
<1>2. /\ thr \in [Threads -> ThreadType] /\ "worker" \in Threads
      /\ thr["worker"].buf \in Pool
  BY <1>1, Names DEF Typed, ThreadInv
<1>3. PICK b \in Pool : b = thr["worker"].buf
  BY <1>2
<1>4. b \in Bufs /\ b # NULL /\ At(b, "woken", "worker")
  BY <1>1, <1>3, Names DEF At
<1>5. \A k \in Kinds, x \in Hands : At(b, k, x) => k = "woken" /\ x = "worker"
  BY <1>4, Names DEF Apart, Kinds
<1>6. /\ free' \in Seq(Pool) /\ IsInjective(free') /\ Range(free') = Range(free) \cup {b}
  <2>1. b \notin Range(free)
    <3>1. "pool" \in Kinds /\ "pool" # "woken" /\ NULL \in Hands
      BY Names DEF Kinds
    <3>. QED
      BY <1>4, <1>5, <3>1, AtIs
  <2>. QED
    BY <1>3, <2>1, AppendFacts DEF GetDisplayInfo, FreeBuf, Typed
<1> DEFINE w == [pc |-> "clear", op |-> "none", buf |-> NULL]
<1>7. w \in ThreadType /\ w.pc = "clear" /\ w.op = "none" /\ w.buf = NULL
  BY DEF ThreadType
<1>8. thr' = [thr EXCEPT !["worker"] = w]
  BY DEF GetDisplayInfo
<1> HIDE DEF w
<1>9. /\ thr' \in [Threads -> ThreadType]
      /\ \A u \in Threads : thr'[u] = IF u = "worker" THEN w ELSE thr[u]
  BY <1>2, <1>7, <1>8
<1>10. Typed'
  BY <1>1, <1>6, <1>9 DEF Typed
<1>11. \A q \in Queues : Posted(q)' = Posted(q)
  BY <1>1 DEF Posted
<1>12. Handed(b, "pool", NULL)
  <2> SUFFICES ASSUME NEW c \in Bufs, NEW k \in Kinds, NEW x \in Hands
               PROVE  At(c, k, x)' <=> IF c = b THEN k = "pool" /\ x = NULL ELSE At(c, k, x)
    BY DEF Handed
  <2>1. CASE c = b
    <3>1. k # "pool" => ~At(c, k, x)'
      <4>1. ASSUME k # "pool", At(c, k, x)'
            PROVE  At(c, k, x)
        BY <1>1, <1>7, <1>9, <1>11, <4>1 DEF At
      <4>2. ASSUME At(c, k, x)', At(c, k, x)
            PROVE  FALSE
        BY <1>1, <1>5, <2>1, <4>2 DEF At
      <4>. QED
        BY <4>1, <4>2
    <3>2. At(c, "pool", x)' <=> x = NULL
      BY <1>6, <2>1 DEF At
    <3>. QED
      BY <2>1, <3>1, <3>2
  <2>2. CASE c # b
    BY <1>1, <1>3, <1>6, <1>7, <1>9, <1>11, <2>2, Names DEF At
  <2>. QED
    BY <2>1, <2>2
<1>13. Apart'
  BY <1>4, <1>12, ApartNext, Names DEF Kinds
<1>14. ThreadInv'
  BY <1>1, <1>2, <1>7, <1>9 DEF ThreadInv
<1>15. PostInv'
  <2>1. ASSUME NEW c, Awaited(c)
        PROVE  Awaited(c)'
    BY <1>1, <1>2, <1>9, <2>1 DEF Awaited
  <2>2. \A q \in Queues : \A c \in Posted(q) : Waits(vbuf[c].op) => Awaited(c)'
    BY <2>1 DEF PostInv
  <2>. QED
    BY <1>1, <1>11, <2>2, OpFacts DEF PostInv
<1>16. WakeInv'
  BY <1>1, <1>2, <1>9 DEF WakeInv, Typed
<1>17. SettleInv'
  <2>1. ASSUME NEW c \in Cpus, dpc[c].pc = "settle", vbuf[dpc[c].buf].op = "display"
        PROVE  FALSE
    <3>1. At(dpc[c].buf, "woken", "worker")
      BY <2>1 DEF SettleInv
    <3>. QED
      BY <3>1 DEF At, SettlesFirst
  <2>. QED
    BY <1>1, <2>1 DEF SettleInv
<1>. QED
  BY <1>3, <1>4, <1>10, <1>12, <1>13, <1>14, <1>15, <1>16, <1>17

\* A thread that fills a buffer is the only one to have it.
LEMMA FillerHas ==
    ASSUME OwnerInv, NEW t \in Threads, thr[t].pc = "filled"
    PROVE  /\ thr[t].buf \in Bufs /\ At(thr[t].buf, "thread", t)
           /\ \A k \in Kinds, x \in Hands : At(thr[t].buf, k, x) => k = "thread" /\ x = t
           /\ thr[t].buf \notin Range(free)
           /\ \A q \in Queues : thr[t].buf \notin Posted(q)
<1>1. thr[t].buf \in Bufs
  BY DEF OwnerInv, ThreadInv
<1>2. At(thr[t].buf, "thread", t)
  BY DEF At
<1>3. \A k \in Kinds, x \in Hands : At(thr[t].buf, k, x) => k = "thread" /\ x = t
  BY <1>1, <1>2, Names DEF OwnerInv, Apart, Kinds
<1>4. "pool" \in Kinds /\ "queue" \in Kinds /\ Queues \subseteq Hands /\ NULL \in Hands
  BY Names DEF Kinds
<1>5. thr[t].buf \in Range(free) => At(thr[t].buf, "pool", NULL)
  BY DEF At
<1>6. \A q \in Queues : thr[t].buf \in Posted(q) => At(thr[t].buf, "queue", q)
  BY DEF At
<1>. QED
  BY <1>1, <1>2, <1>3, <1>4, <1>5, <1>6

\* Posting, with room or without.
LEMMA QueueBufferOwner ==
    ASSUME OwnerInv, NEW t \in Threads, QueueBuffer(t)
    PROVE  /\ OwnerInv'
           /\ IF HasRoom(QueueOf(thr[t].op), thr[t].op)
              THEN Handed(thr[t].buf, "queue", QueueOf(thr[t].op))
              ELSE Dropped(thr[t].buf)
<1> USE DEF drivervars, qvars, dpcvars, configvars, OwnerInv
<1>1. UNCHANGED <<free, list3d, vbuf, signalled, dpc, display>> /\ thr[t].pc = "filled"
  BY DEF QueueBuffer
<1>2. PICK b \in Bufs : b = thr[t].buf
  BY <1>1, FillerHas
<1>3. PICK op \in Ops : op = thr[t].op
  BY <1>1 DEF ThreadInv
<1>4. PICK q \in Queues : q = QueueOf(op)
  BY OpFacts
<1>5. /\ At(b, "thread", t)
      /\ \A k \in Kinds, x \in Hands : At(b, k, x) => k = "thread" /\ x = t
      /\ b \notin Range(free) /\ \A r \in Queues : b \notin Posted(r)
  BY <1>1, <1>2, FillerHas
<1>6. PICK w \in ThreadType : /\ thr' = [thr EXCEPT ![t] = w]
                              /\ w.pc = "kick" /\ w.op = op /\ w.buf = b
  <2>1. thr' = [thr EXCEPT ![t] = [thr[t] EXCEPT !.pc = "kick"]] /\ thr[t] \in ThreadType
    BY DEF QueueBuffer, Typed
  <2>2. PICK w : w = [thr[t] EXCEPT !.pc = "kick"]
    OBVIOUS
  <2>3. w \in ThreadType /\ w.pc = "kick" /\ w.op = thr[t].op /\ w.buf = thr[t].buf
    BY <2>1, <2>2 DEF ThreadType
  <2>. QED
    BY <1>2, <1>3, <2>1, <2>2, <2>3
<1>7. /\ thr' \in [Threads -> ThreadType]
      /\ \A u \in Threads : thr'[u] = IF u = t THEN w ELSE thr[u]
  BY <1>6 DEF Typed
<1> DEFINE room == HasRoom(q, op)
<1>8. /\ DOMAIN queue' = Queues /\ \A r \in Queues : Line(queue'[r])
      /\ \A r \in Queues : Posted(r)' = IF room /\ r = q THEN Posted(q) \cup {b} ELSE Posted(r)
  <2>1. CASE room
    <3>1. Line(queue[q]) /\ Posted(q) = Members(queue[q])
      BY PostedIs
    <3>2. PICK m : m = [queue[q] EXCEPT !.avail = Append(@, b)]
      OBVIOUS
    <3>3. Line(m) /\ Members(m) = Members(queue[q]) \cup {b}
      BY <1>5, <3>1, <3>2, LineAdds
    <3>4. queue' = [queue EXCEPT ![q] = m]
      BY <1>2, <1>3, <1>4, <2>1, <3>2 DEF QueueBuffer
    <3>. QED
      BY <2>1, <3>1, <3>3, <3>4, QueueChanges
  <2>2. CASE ~room
    <3>1. queue' = queue
      BY <1>3, <1>4, <2>2 DEF QueueBuffer
    <3>. QED
      BY <2>2, <3>1 DEF Typed, Posted
  <2>. QED
    BY <2>1, <2>2
<1> HIDE DEF room
<1>9. Typed'
  BY <1>1, <1>7, <1>8 DEF Typed
<1>10. IF room THEN Handed(b, "queue", q) ELSE Dropped(b)
  <2> SUFFICES ASSUME NEW c \in Bufs, NEW x \in Hands
               PROVE  \A k \in Kinds :
                         At(c, k, x)' <=> IF c = b THEN room /\ k = "queue" /\ x = q
                                          ELSE At(c, k, x)
    BY DEF Handed, Dropped
  <2>1. \A k \in Kinds : At(b, k, x) => k = "thread"
    BY <1>5
  <2>2. At(c, "pool", x)' <=> c # b /\ At(c, "pool", x)
    BY <1>1, <1>5, AtIs, AtNext
  <2>3. At(c, "thread", x)' <=> c # b /\ At(c, "thread", x)
    <3>1. CASE x = t
      BY <1>1, <1>2, <1>6, <1>7, <3>1, AtIs, AtNext
    <3>2. CASE x # t
      <4>1. At(c, "thread", x)' <=> At(c, "thread", x)
        BY <1>7, <3>2, AtIs, AtNext
      <4>2. "thread" \in Kinds
        BY DEF Kinds
      <4>3. ~At(b, "thread", x)
        BY <1>5, <3>2, <4>2
      <4>. QED
        BY <4>1, <4>3
    <3>. QED
      BY <3>1, <3>2
  <2>4. At(c, "queue", x)' <=> IF c = b THEN room /\ x = q ELSE At(c, "queue", x)
    BY <1>5, <1>8, AtIs, AtNext
  <2>5. At(c, "dpc", x)' <=> At(c, "dpc", x)
    BY <1>1, AtIs, AtNext
  <2>6. At(c, "woken", x)' <=> At(c, "woken", x)
    <3>1. thr'["worker"].buf = thr["worker"].buf
      BY <1>2, <1>6, <1>7, Names
    <3>. QED
      BY <1>1, <3>1, AtIs, AtNext
  <2>. QED
    BY <2>1, <2>2, <2>3, <2>4, <2>5, <2>6 DEF Kinds
<1>11. Apart'
  BY <1>10, ApartNext, Names DEF Kinds
<1>12. ThreadInv'
  BY <1>1, <1>2, <1>3, <1>6, <1>7 DEF ThreadInv
<1>13. PostInv'
  <2>1. ASSUME NEW c, Awaited(c)
        PROVE  Awaited(c)' /\ vbuf[c].event # t
    BY <1>1, <1>6, <1>7, <2>1 DEF Awaited
  <2>2. ASSUME NEW r \in Queues, NEW c \in Posted(r)
        PROVE  /\ vbuf[c].op \in Ops /\ QueueOf(vbuf[c].op) = r
               /\ c \in BigBufs <=> vbuf[c].op = "submit"
               /\ IF Waits(vbuf[c].op) THEN Awaited(c)' ELSE vbuf[c].event = NULL
               /\ vbuf[c].event # t
    BY <2>1, Names DEF PostInv
  <2>3. /\ vbuf[b].op = op /\ (b \in BigBufs <=> op = "submit")
        /\ IF Waits(op) THEN vbuf[b].event = t /\ Awaited(b)' ELSE vbuf[b].event = NULL
    <3>1. /\ vbuf[b].op = op /\ (b \in BigBufs <=> op = "submit")
          /\ vbuf[b].event = IF Waits(op) THEN t ELSE NULL
      BY <1>1, <1>2, <1>3 DEF ThreadInv
    <3>2. t \notin signalled
      BY <1>1 DEF WakeInv
    <3>. QED
      BY <1>1, <1>6, <1>7, <3>1, <3>2 DEF Awaited
  <2>4. \A r \in Queues : \A c \in Posted(r)' :
           /\ vbuf'[c].op \in Ops /\ QueueOf(vbuf'[c].op) = r
           /\ c \in BigBufs <=> vbuf'[c].op = "submit"
           /\ IF Waits(vbuf'[c].op) THEN Awaited(c)' ELSE vbuf'[c].event = NULL
    BY <1>1, <1>4, <1>8, <2>2, <2>3
  <2>5. \A b1, b2 \in Posted("ctrl")' :
           vbuf'[b1].event = vbuf'[b2].event => b1 = b2 \/ vbuf'[b1].event = NULL
    <3>1. \A b1, b2 \in Posted("ctrl") :
             vbuf[b1].event = vbuf[b2].event => b1 = b2 \/ vbuf[b1].event = NULL
      BY DEF PostInv
    <3>2. \A b1 \in Posted("ctrl") : vbuf[b1].event = vbuf[b].event => vbuf[b].event = NULL
      BY <2>2, <2>3, OpFacts
    <3>. QED
      BY <1>1, <1>8, <3>1, <3>2, OpFacts
  <2>. QED
    BY <2>4, <2>5 DEF PostInv
<1>14. WakeInv'
  BY <1>1, <1>7 DEF WakeInv, Typed
<1>15. SettleInv'
  <2>1. \A c : At(c, "woken", "worker") => At(c, "woken", "worker")'
    BY <1>1, <1>2, <1>6, <1>7, Names DEF At
  <2>. QED
    BY <1>1, <2>1 DEF SettleInv
<1>. QED
  BY <1>2, <1>3, <1>4, <1>9, <1>10, <1>11, <1>12, <1>13, <1>14, <1>15 DEF room

\* Giving up a backing store that has too many pages.
LEMMA TooBigOwner ==
    ASSUME OwnerInv, NEW t \in Threads, QueueBufferTooBig(t)
    PROVE  /\ OwnerInv'
           /\ thr[t].buf \in Pool /\ Handed(thr[t].buf, "pool", NULL)
<1> USE DEF drivervars, qvars, dpcvars, configvars, OwnerInv
<1>1. /\ UNCHANGED <<list3d, vbuf, queue, signalled, dpc, display>>
      /\ thr[t].pc = "filled" /\ thr[t].op = "attach"
  BY DEF QueueBufferTooBig
<1>2. t # "worker" /\ thr[t].buf \in Pool
  BY <1>1, FillerHas DEF ThreadInv, Bufs
<1>3. PICK b \in Pool : b = thr[t].buf
  BY <1>2
<1>4. /\ At(b, "thread", t) /\ b \in Bufs
      /\ \A k \in Kinds, x \in Hands : At(b, k, x) => k = "thread" /\ x = t
      /\ b \notin Range(free)
  BY <1>1, <1>3, FillerHas
<1> DEFINE w == [pc |-> "idle", op |-> "none", buf |-> NULL]
<1>5. w \in ThreadType /\ w.pc = "idle" /\ w.op = "none" /\ w.buf = NULL
  BY DEF ThreadType
<1>6. thr' = [thr EXCEPT ![t] = w]
  BY DEF QueueBufferTooBig
<1> HIDE DEF w
<1>7. /\ thr' \in [Threads -> ThreadType]
      /\ \A u \in Threads : thr'[u] = IF u = t THEN w ELSE thr[u]
  BY <1>5, <1>6 DEF Typed
<1>8. free' \in Seq(Pool) /\ IsInjective(free') /\ Range(free') = Range(free) \cup {b}
  BY <1>3, <1>4, AppendFacts DEF QueueBufferTooBig, FreeBuf, Typed
<1>9. Typed'
  BY <1>1, <1>7, <1>8 DEF Typed
<1>10. \A q \in Queues : Posted(q)' = Posted(q)
  BY <1>1 DEF Posted
<1>11. Handed(b, "pool", NULL)
  <2> SUFFICES ASSUME NEW c \in Bufs, NEW x \in Hands
               PROVE  \A k \in Kinds :
                         At(c, k, x)' <=> IF c = b THEN k = "pool" /\ x = NULL ELSE At(c, k, x)
    BY DEF Handed
  <2>1. \A k \in Kinds : At(b, k, x) => k = "thread"
    BY <1>4
  <2>2. At(c, "pool", x)' <=> IF c = b THEN x = NULL ELSE At(c, "pool", x)
    BY <1>8, AtIs, AtNext
  <2>3. At(c, "thread", x)' <=> c # b /\ At(c, "thread", x)
    <3>1. CASE x = t
      BY <1>1, <1>3, <1>5, <1>7, <3>1, AtIs, AtNext
    <3>2. CASE x # t
      <4>1. At(c, "thread", x)' <=> At(c, "thread", x)
        BY <1>7, <3>2, AtIs, AtNext
      <4>2. "thread" \in Kinds
        BY DEF Kinds
      <4>3. ~At(b, "thread", x)
        BY <1>4, <3>2, <4>2
      <4>. QED
        BY <4>1, <4>3
    <3>. QED
      BY <3>1, <3>2
  <2>4. At(c, "queue", x)' <=> At(c, "queue", x)
    BY <1>10, AtIs, AtNext
  <2>5. At(c, "dpc", x)' <=> At(c, "dpc", x)
    BY <1>1, AtIs, AtNext
  <2>6. At(c, "woken", x)' <=> At(c, "woken", x)
    <3>1. thr'["worker"].buf = thr["worker"].buf
      BY <1>2, <1>7, Names
    <3>. QED
      BY <1>1, <3>1, AtIs, AtNext
  <2>. QED
    BY <2>1, <2>2, <2>3, <2>4, <2>5, <2>6 DEF Kinds
<1>12. Apart'
  BY <1>4, <1>11, ApartNext, Names DEF Kinds
<1>13. ThreadInv'
  BY <1>1, <1>2, <1>5, <1>7 DEF ThreadInv
<1>14. PostInv'
  <2>1. ASSUME NEW c, Awaited(c)
        PROVE  Awaited(c)'
    BY <1>1, <1>7, <2>1 DEF Awaited
  <2>2. \A q \in Queues : \A c \in Posted(q) : Waits(vbuf[c].op) => Awaited(c)'
    BY <2>1 DEF PostInv
  <2>. QED
    BY <1>1, <1>10, <2>2, OpFacts DEF PostInv
<1>15. WakeInv'
  BY <1>1, <1>7 DEF WakeInv, Typed
<1>16. SettleInv'
  <2>1. \A c : At(c, "woken", "worker") => At(c, "woken", "worker")'
    BY <1>1, <1>2, <1>7, Names DEF At
  <2>. QED
    BY <1>1, <2>1 DEF SettleInv
<1>. QED
  BY <1>2, <1>3, <1>9, <1>11, <1>12, <1>13, <1>14, <1>15, <1>16

\* A thread fills in a buffer that nothing refers to any more: it was in the
\* pool, or is a large one that is free.
LEMMA BeginOwner ==
    ASSUME OwnerInv, NEW t \in Threads, NEW op \in Ops, NEW b \in Bufs,
           MayBegin(t, op), Begin(t, op, b),
           vbuf' = [vbuf EXCEPT ![b] = Fresh(op, t)],
           b \in BigBufs <=> op = "submit",
           free' \in Seq(Pool), IsInjective(free'), Range(free') = Range(free) \ {b},
           list3d' \in Seq(BigBufs),
           \A k \in Kinds, x \in Hands : At(b, k, x) => k = "pool",
           \A c \in Cpus : dpc[c].buf # b
    PROVE  OwnerInv' /\ Handed(b, "thread", t)
<1> USE DEF drivervars, qvars, dpcvars, configvars, OwnerInv
<1>1. UNCHANGED <<queue, signalled, dpc, display>>
  BY DEF Begin
<1>2. /\ thr[t].pc \in {"idle", "ask"} /\ thr[t].op = "none" /\ thr[t].buf = NULL
      /\ t = "worker" <=> op = "display"
  BY Names DEF MayBegin, ThreadInv, Threads
<1> DEFINE w == [pc |-> "filled", op |-> op, buf |-> b]
           f == Fresh(op, t)
<1>3. w \in ThreadType /\ w.pc = "filled" /\ w.op = op /\ w.buf = b
  BY DEF ThreadType
<1>4. thr' = [thr EXCEPT ![t] = w]
  BY DEF Begin
<1>5. f \in BufType /\ f.op = op /\ f.event = IF Waits(op) THEN t ELSE NULL
  BY DeviceAssumption DEF BufType, Fresh
<1> HIDE DEF w, f
<1>6. /\ thr' \in [Threads -> ThreadType]
      /\ \A u \in Threads : thr'[u] = IF u = t THEN w ELSE thr[u]
  BY <1>3, <1>4 DEF Typed
<1>7. /\ vbuf' \in [Bufs -> BufType]
      /\ \A c \in Bufs : vbuf'[c] = IF c = b THEN f ELSE vbuf[c]
  BY <1>5 DEF Typed, f
<1>8. Typed'
  BY <1>1, <1>6, <1>7 DEF Typed
<1>9. /\ \A q \in Queues : Posted(q)' = Posted(q) /\ b \notin Posted(q) /\ Posted(q) \subseteq Bufs
  <2>1. \A q \in Queues : b \in Posted(q) => At(b, "queue", q)
    BY DEF At
  <2>2. "queue" \in Kinds /\ "queue" # "pool" /\ Queues \subseteq Hands
    BY Names DEF Kinds
  <2>. QED
    BY <1>1, <2>1, <2>2, PostedIs DEF Posted
<1>10. t \notin signalled
  BY <1>2 DEF WakeInv
<1>11. Handed(b, "thread", t)
  <2> SUFFICES ASSUME NEW c \in Bufs, NEW x \in Hands
               PROVE  \A k \in Kinds :
                         At(c, k, x)' <=> IF c = b THEN k = "thread" /\ x = t ELSE At(c, k, x)
    BY DEF Handed
  <2>1. \A k \in Kinds : At(b, k, x) => k = "pool"
    OBVIOUS
  <2>2. At(c, "pool", x)' <=> c # b /\ At(c, "pool", x)
    BY AtIs, AtNext
  <2>3. At(c, "thread", x)' <=> IF c = b THEN x = t ELSE At(c, "thread", x)
    <3>1. CASE x = t
      BY <1>2, <1>3, <1>6, <3>1, AtIs, AtNext
    <3>2. CASE x # t
      <4>1. At(c, "thread", x)' <=> At(c, "thread", x)
        BY <1>6, <3>2, AtIs, AtNext
      <4>2. ~At(b, "thread", x)
        BY <2>1 DEF Kinds
      <4>. QED
        BY <3>2, <4>1, <4>2
    <3>. QED
      BY <3>1, <3>2
  <2>4. At(c, "queue", x)' <=> At(c, "queue", x)
    BY <1>9, AtIs, AtNext
  <2>5. At(c, "dpc", x)' <=> c # b /\ At(c, "dpc", x)
    BY <1>1, <1>7, AtIs, AtNext
  <2>6. At(c, "woken", x)' <=> At(c, "woken", x)
    BY <1>1, <1>6, <1>10, Names, AtIs, AtNext
  <2>. QED
    BY <2>1, <2>2, <2>3, <2>4, <2>5, <2>6 DEF Kinds
<1>12. Apart'
  BY <1>11, ApartNext, Names DEF Kinds
<1>13. ThreadInv'
  <2>1. ASSUME NEW u \in Threads, thr[u].pc = "filled", u # t
        PROVE  thr[u].buf # b
    <3>1. At(thr[u].buf, "thread", u)
      BY <2>1 DEF At
    <3>2. "thread" \in Kinds /\ "thread" # "pool" /\ u \in Hands
      BY Names DEF Kinds
    <3>. QED
      BY <3>1, <3>2
  <2>2. op = "display" => b \in Pool
    BY DEF Bufs
  <2>. QED
    BY <1>2, <1>3, <1>5, <1>6, <1>7, <2>1, <2>2 DEF ThreadInv
<1>14. PostInv'
  <2>1. ASSUME NEW c \in Bufs, c # b, Awaited(c)
        PROVE  Awaited(c)'
    BY <1>1, <1>2, <1>6, <1>7, <2>1 DEF Awaited
  <2>2. \A q \in Queues : \A c \in Posted(q) : Waits(vbuf[c].op) => Awaited(c)'
    BY <1>9, <2>1 DEF PostInv
  <2>3. \A q \in Queues : \A c \in Posted(q) : vbuf'[c] = vbuf[c]
    BY <1>7, <1>9
  <2>. QED
    BY <1>1, <1>9, <2>2, <2>3, OpFacts DEF PostInv
<1>15. WakeInv'
  BY <1>1, <1>6, <1>10 DEF WakeInv, Typed
<1>16. SettleInv'
  <2>1. \A c \in Cpus : dpc[c].buf \in Bufs \cup {NULL}
    BY DEF Typed, DpcType
  <2>2. \A c \in Bufs : At(c, "woken", "worker") => At(c, "woken", "worker")'
    BY <1>1, <1>6, <1>10, Names DEF At
  <2>3. \A c \in Cpus : dpc[c].buf \in Bufs => vbuf'[dpc[c].buf] = vbuf[dpc[c].buf]
    BY <1>7
  <2>4. \A c \in Cpus : dpc[c].pc = "settle" => dpc[c].buf \in Bufs
    BY <2>1 DEF SettleInv
  <2>. QED
    BY <1>1, <2>2, <2>3, <2>4 DEF SettleInv
<1>. QED
  BY <1>8, <1>11, <1>12, <1>13, <1>14, <1>15, <1>16

\* The buffer comes from the head of the pool.
LEMMA GetBufOwner ==
    ASSUME OwnerInv, NEW t \in Threads, NEW op \in Ops, GetBuf(t, op)
    PROVE  /\ OwnerInv'
           /\ Head(free) \in Pool /\ At(Head(free), "pool", NULL)
           /\ Handed(Head(free), "thread", t)
<1> USE DEF drivervars, qvars, dpcvars, configvars, OwnerInv
<1>1. free \in Seq(Pool) /\ free # <<>> /\ IsInjective(free)
  BY DEF GetBuf, Typed
<1>2. PICK b \in Pool : b = Head(free)
  BY <1>1, TailFacts
<1>3. /\ b \in Range(free) /\ b \in Bufs
      /\ free' \in Seq(Pool) /\ IsInjective(free') /\ Range(free') = Range(free) \ {b}
  BY <1>1, <1>2, TailFacts, Names DEF GetBuf
<1>4. At(b, "pool", NULL)
  BY <1>3 DEF At
<1>5. \A k \in Kinds, x \in Hands : At(b, k, x) => k = "pool"
  BY <1>3, <1>4, Names DEF Apart, Kinds
<1>6. \A c \in Cpus : dpc[c].buf # b
  <2>1. ASSUME NEW c \in Cpus, dpc[c].buf = b
        PROVE  FALSE
    <3>1. CASE vbuf[b].op = "display"
      <4>1. At(b, "woken", "worker")
        BY <1>3, <2>1, <3>1, Names DEF SettleInv
      <4>. QED
        BY <1>5, <4>1, Names DEF Kinds
    <3>2. CASE vbuf[b].op # "display"
      <4>1. At(b, "dpc", c)
        BY <2>1, <3>2 DEF At
      <4>. QED
        BY <1>5, <4>1, Names DEF Kinds
    <3>. QED
      BY <3>1, <3>2
  <2>. QED
    BY <2>1
<1>7. /\ MayBegin(t, op) /\ Begin(t, op, b) /\ vbuf' = [vbuf EXCEPT ![b] = Fresh(op, t)]
      /\ b \in BigBufs <=> op = "submit"
      /\ list3d' \in Seq(BigBufs)
  BY <1>2, Names DEF GetBuf, Typed
<1>. QED
  BY <1>2, <1>3, <1>4, <1>5, <1>6, <1>7, BeginOwner

\* The buffer is memory of its own, in no one's hands.
LEMMA CreateCmdBufferOwner ==
    ASSUME OwnerInv, NEW t \in Clients, NEW b \in BigBufs, CreateCmdBuffer(t, b)
    PROVE  OwnerInv' /\ Handed(b, "thread", t)
<1> USE DEF drivervars, qvars, dpcvars, configvars, OwnerInv
<1>1. b \in Bufs /\ b \notin Pool /\ b # NULL /\ t \in Threads /\ "submit" \in Ops
  BY Names DEF Ops
<1>2. vbuf[b].op = "none" /\ free \in Seq(Pool) /\ IsInjective(free)
  BY DEF CreateCmdBuffer, Typed
<1>3. b \notin Range(free)
  BY <1>1, <1>2, RangeIs
<1>4. \A c \in Cpus : dpc[c].buf # b
  BY <1>1, <1>2, OpFacts DEF SettleInv
<1>5. \A k \in Kinds, x \in Hands : ~At(b, k, x)
  <2> SUFFICES ASSUME NEW x \in Hands PROVE \A k \in Kinds : ~At(b, k, x)
    OBVIOUS
  <2>1. ~At(b, "pool", x) /\ ~At(b, "dpc", x)
    BY <1>1, <1>3, <1>4, AtIs
  <2>2. ~At(b, "thread", x)
    BY <1>1, <1>2, OpFacts, AtIs DEF ThreadInv
  <2>3. ~At(b, "queue", x)
    BY <1>1, <1>2, OpFacts, AtIs DEF PostInv
  <2>4. ~At(b, "woken", x)
    BY <1>1, AtIs, Names DEF WakeInv, ThreadInv
  <2>. QED
    BY <2>1, <2>2, <2>3, <2>4 DEF Kinds
<1>6. list3d' \in Seq(BigBufs)
  BY DEF CreateCmdBuffer, Typed
<1>7. /\ MayBegin(t, "submit") /\ Begin(t, "submit", b)
      /\ vbuf' = [vbuf EXCEPT ![b] = Fresh("submit", t)]
      /\ free' = free
  BY DEF CreateCmdBuffer
<1>. QED
  BY <1>1, <1>2, <1>3, <1>4, <1>5, <1>6, <1>7, BeginOwner

-----------------------------------------------------------------------------
(* The DPC                                                                 *)

\* What a DPC dequeued is its to release, or its waiter's.
LEMMA DpcCollectOwner ==
    ASSUME OwnerInv, NEW c \in Cpus, DpcCollect(c)
    PROVE  /\ OwnerInv'
           /\ LET b == Head(queue["ctrl"].used)
              IN  /\ b \in Bufs /\ At(b, "queue", "ctrl")
                  /\ \/ Handed(b, "woken", "worker") /\ "worker" \in signalled'
                     \/ Handed(b, "dpc", c)
<1> USE DEF drivervars, qvars, dpcvars, configvars, OwnerInv
<1>1. /\ UNCHANGED <<free, list3d, thr, vbuf, display>>
      /\ dpc[c].pc = "scan" /\ queue["ctrl"].used # <<>> /\ "ctrl" \in Queues
  BY DEF DpcCollect, Queues
<1>2. Line(queue["ctrl"]) /\ Posted("ctrl") = Members(queue["ctrl"]) /\ Posted("ctrl") \subseteq Bufs
  BY <1>1, PostedIs
<1>3. Head(queue["ctrl"].used) \in Posted("ctrl")
  BY <1>1, <1>2, LineCollects
<1>4. PICK b \in Bufs : b = Head(queue["ctrl"].used)
  BY <1>2, <1>3
<1>5. b \in Posted("ctrl") /\ At(b, "queue", "ctrl")
  BY <1>1, <1>3, <1>4 DEF At
<1>6. /\ DOMAIN queue' = Queues /\ \A q \in Queues : Line(queue'[q])
      /\ \A q \in Queues : Posted(q)' = IF q = "ctrl" THEN Posted("ctrl") \ {b} ELSE Posted(q)
  <2>1. PICK m : m = [queue["ctrl"] EXCEPT !.used = Tail(@)]
    OBVIOUS
  <2>2. Line(m) /\ Members(m) = Members(queue["ctrl"]) \ {b}
    BY <1>1, <1>2, <1>4, <2>1, LineCollects
  <2>3. queue' = [queue EXCEPT !["ctrl"] = m]
    BY <2>1 DEF DpcCollect
  <2>. QED
    BY <1>1, <1>2, <2>2, <2>3, QueueChanges
<1>7. PICK e \in Threads \cup {NULL} : e = vbuf[b].event
  BY DEF Typed, BufType
<1>8. signalled' = signalled \cup ({e} \ {NULL}) /\ signalled' \subseteq Threads
  BY <1>4, <1>7 DEF DpcCollect, Typed
<1>9. PICK d \in DpcType : dpc' = [dpc EXCEPT ![c] = d] /\ d.pc = "settle" /\ d.buf = b
  <2>1. dpc' = [dpc EXCEPT ![c] = [dpc[c] EXCEPT !.pc = "settle", !.buf = b]] /\ dpc[c] \in DpcType
    BY <1>4 DEF DpcCollect, Typed
  <2>2. PICK d : d = [dpc[c] EXCEPT !.pc = "settle", !.buf = b]
    OBVIOUS
  <2>3. d \in DpcType /\ d.pc = "settle" /\ d.buf = b
    BY <2>1, <2>2 DEF DpcType
  <2>. QED
    BY <2>1, <2>2, <2>3
<1>10. /\ dpc' \in [Cpus -> DpcType]
       /\ \A x \in Cpus : dpc'[x] = IF x = c THEN d ELSE dpc[x]
  BY <1>9 DEF Typed
<1>11. Typed'
  BY <1>1, <1>6, <1>8, <1>10 DEF Typed
<1>12. dpc[c].buf = NULL
  BY <1>1 DEF SettleInv
<1>13. /\ vbuf[b].op \in Ops /\ (b \in BigBufs <=> vbuf[b].op = "submit")
       /\ e # NULL => Waits(vbuf[b].op) /\ Awaited(b)
       /\ Waits(vbuf[b].op) => Awaited(b)
  BY <1>1, <1>5, <1>7 DEF PostInv
<1>14. e = "worker" <=> vbuf[b].op = "display"
  <2>1. e # NULL => /\ e \in Threads /\ thr[e].pc \in {"kick", "wait"} /\ thr[e].op = vbuf[b].op
    BY <1>7, <1>13 DEF Awaited
  <2>2. e # NULL => (e = "worker" <=> vbuf[b].op = "display")
    BY <2>1 DEF ThreadInv
  <2>3. vbuf[b].op = "display" => e # NULL
    BY <1>7, <1>13, OpFacts, Names DEF Awaited
  <2>. QED
    BY <2>2, <2>3, Names
<1>15. e = "worker" => thr["worker"].buf = b /\ "worker" \notin signalled
  BY <1>7, <1>13, Names DEF Awaited
<1>16. \A k \in Kinds, x \in Hands : At(b, k, x) => k = "queue" /\ x = "ctrl"
  BY <1>1, <1>5, Names DEF Apart, Kinds
<1> DEFINE kind == IF e = "worker" THEN "woken" ELSE "dpc"
           to == IF e = "worker" THEN "worker" ELSE c
<1>17. Handed(b, kind, to)
  <2> SUFFICES ASSUME NEW a \in Bufs, NEW x \in Hands
               PROVE  \A k \in Kinds :
                         At(a, k, x)' <=> IF a = b THEN k = kind /\ x = to ELSE At(a, k, x)
    BY DEF Handed
  <2>1. \A k \in Kinds : At(b, k, x) => k = "queue"
    BY <1>16
  <2>2. At(a, "pool", x)' <=> At(a, "pool", x)
    BY <1>1, AtIs, AtNext
  <2>3. At(a, "thread", x)' <=> At(a, "thread", x)
    BY <1>1, AtIs, AtNext
  <2>4. At(a, "queue", x)' <=> a # b /\ At(a, "queue", x)
    <3>1. x \in Queues \ {"ctrl"} => b \notin Posted(x)
      BY <1>16, AtIs DEF Kinds
    <3>. QED
      BY <1>6, <3>1, AtIs, AtNext
  <2>5. At(a, "dpc", x)' <=> IF a = b THEN e # "worker" /\ x = c ELSE At(a, "dpc", x)
    <3>1. CASE x = c
      BY <1>1, <1>9, <1>10, <1>12, <1>14, <3>1, Names, AtIs, AtNext
    <3>2. CASE x # c
      <4>1. At(a, "dpc", x)' <=> At(a, "dpc", x)
        BY <1>1, <1>10, <3>2, AtIs, AtNext
      <4>2. ~At(b, "dpc", x)
        BY <2>1 DEF Kinds
      <4>. QED
        BY <3>2, <4>1, <4>2
    <3>. QED
      BY <3>1, <3>2
  <2>6. At(a, "woken", x)' <=> IF a = b THEN e = "worker" /\ x = "worker" ELSE At(a, "woken", x)
    <3>1. ~At(b, "woken", x)
      BY <2>1 DEF Kinds
    <3>2. At(a, "woken", x)' <=> /\ x = "worker" /\ ("worker" \in signalled \/ e = "worker")
                                 /\ thr["worker"].buf = a
      BY <1>1, <1>8, Names, AtNext
    <3>. QED
      BY <1>15, <3>1, <3>2, AtIs
  <2>. QED
    BY <2>1, <2>2, <2>3, <2>4, <2>5, <2>6 DEF Kinds
<1>18. kind \in Kinds /\ to \in Hands
  BY Names DEF Kinds
<1>19. Apart'
  BY <1>17, <1>18, ApartNext
<1>20. ThreadInv'
  BY <1>1 DEF ThreadInv
<1>21. PostInv'
  <2>1. ASSUME NEW q \in Queues, NEW a \in Posted(q), a # b, Waits(vbuf[a].op)
        PROVE  Awaited(a)'
    <3>1. Awaited(a) /\ vbuf[a].event \in Threads /\ vbuf[a].op \in Ops /\ QueueOf(vbuf[a].op) = q
      BY <2>1 DEF PostInv, Awaited
    <3>2. q = "ctrl"
      BY <2>1, <3>1, OpFacts
    <3>3. vbuf[a].event # e
      BY <1>5, <1>7, <2>1, <3>1, <3>2, Names DEF PostInv
    <3>. QED
      BY <1>1, <1>8, <3>1, <3>3 DEF Awaited
  <2>2. b \notin Posted("crsr")
    <3>1. "crsr" \in Queues /\ "crsr" # "ctrl" /\ "queue" \in Kinds /\ "crsr" \in Hands
      BY OpFacts, Names DEF Kinds
    <3>2. b \in Posted("crsr") => At(b, "queue", "crsr")
      BY <3>1 DEF At
    <3>. QED
      BY <1>16, <3>1, <3>2
  <2>3. \A q \in Queues : Posted(q)' \subseteq Posted(q) \ {b}
    BY <1>6, <2>2 DEF Queues
  <2>4. \A q \in Queues : \A a \in Posted(q)' :
           /\ vbuf'[a].op \in Ops /\ QueueOf(vbuf'[a].op) = q
           /\ a \in BigBufs <=> vbuf'[a].op = "submit"
           /\ IF Waits(vbuf'[a].op) THEN Awaited(a)' ELSE vbuf'[a].event = NULL
    BY <1>1, <2>1, <2>3 DEF PostInv
  <2>5. \A b1, b2 \in Posted("ctrl")' :
           vbuf'[b1].event = vbuf'[b2].event => b1 = b2 \/ vbuf'[b1].event = NULL
    BY <1>1, <2>3 DEF PostInv
  <2>. QED
    BY <2>4, <2>5 DEF PostInv
<1>22. WakeInv'
  <2>1. e # NULL => thr[e].pc \in {"kick", "wait"} /\ Waits(thr[e].op)
    BY <1>7, <1>13 DEF Awaited
  <2>. QED
    BY <1>1, <1>8, <2>1 DEF WakeInv
<1>23. SettleInv'
  <2>1. \A a : At(a, "woken", "worker") => At(a, "woken", "worker")'
    BY <1>1, <1>8 DEF At
  <2>2. vbuf[b].op = "display" => At(b, "woken", "worker")'
    BY <1>1, <1>8, <1>14, <1>15, Names DEF At
  <2>. QED
    BY <1>1, <1>9, <1>10, <1>13, <2>1, <2>2, Names DEF SettleInv
<1>. QED
  BY <1>4, <1>5, <1>8, <1>11, <1>17, <1>19, <1>20, <1>21, <1>22, <1>23, Names

\* The DPC is done with a command.
LEMMA DpcSettleOwner ==
    ASSUME OwnerInv, NEW c \in Cpus, DpcSettle(c)
    PROVE  /\ OwnerInv'
           /\ \/ Kept
              \/ \E b \in BigBufs : Dropped(b)
              \/ \E b \in Pool : Handed(b, "pool", NULL) /\ At(b, "dpc", c)
<1> USE DEF drivervars, qvars, dpcvars, configvars, OwnerInv
<1>1. UNCHANGED <<queue, thr, signalled, display>> /\ dpc[c].pc = "settle"
  BY DEF DpcSettle
<1>2. PICK b \in Bufs : b = dpc[c].buf
  BY <1>1 DEF SettleInv, Typed, DpcType
<1>3. /\ vbuf[b].op \in Ops /\ (b \in BigBufs <=> vbuf[b].op = "submit")
      /\ vbuf[b].op # "none"
  BY <1>1, <1>2, OpFacts DEF SettleInv
<1>4. PICK d \in DpcType : dpc' = [dpc EXCEPT ![c] = d] /\ d.pc = "scan" /\ d.buf = NULL
  <2>1. dpc' = [dpc EXCEPT ![c] = [dpc[c] EXCEPT !.pc = "scan", !.buf = NULL]] /\ dpc[c] \in DpcType
    BY DEF DpcSettle, Typed
  <2>2. PICK d : d = [dpc[c] EXCEPT !.pc = "scan", !.buf = NULL]
    OBVIOUS
  <2>3. d \in DpcType /\ d.pc = "scan" /\ d.buf = NULL
    BY <2>1, <2>2 DEF DpcType
  <2>. QED
    BY <2>1, <2>2, <2>3
<1>5. /\ dpc' \in [Cpus -> DpcType]
      /\ \A x \in Cpus : dpc'[x] = IF x = c THEN d ELSE dpc[x]
  BY <1>4 DEF Typed
<1>6. \A q \in Queues : Posted(q)' = Posted(q)
  BY <1>1 DEF Posted
<1>7. CASE vbuf[b].op = "display"
  <2>1. UNCHANGED <<free, list3d, vbuf>>
    BY <1>2, <1>7 DEF DpcSettle
  <2>2. Typed'
    BY <1>1, <1>5, <2>1 DEF Typed
  <2>3. Kept
    <3> SUFFICES ASSUME NEW a \in Bufs, NEW x \in Hands
                 PROVE  \A k \in Kinds : At(a, k, x)' <=> At(a, k, x)
      BY DEF Kept
    <3>1. At(a, "pool", x)' <=> At(a, "pool", x)
      BY <2>1, AtIs, AtNext
    <3>2. At(a, "thread", x)' <=> At(a, "thread", x)
      BY <1>1, AtIs, AtNext
    <3>3. At(a, "queue", x)' <=> At(a, "queue", x)
      BY <1>6, AtIs, AtNext
    <3>4. At(a, "dpc", x)' <=> At(a, "dpc", x)
      BY <1>2, <1>4, <1>5, <1>7, <2>1, AtIs, AtNext, Names
    <3>5. At(a, "woken", x)' <=> At(a, "woken", x)
      BY <1>1, AtIs, AtNext
    <3>. QED
      BY <3>1, <3>2, <3>3, <3>4, <3>5 DEF Kinds
  <2>4. Apart'
    BY <2>3, ApartNext
  <2>5. ThreadInv' /\ WakeInv'
    BY <1>1, <2>1 DEF ThreadInv, WakeInv
  <2>6. PostInv'
    BY <1>1, <1>6, <2>1, OpFacts DEF PostInv, Awaited
  <2>7. SettleInv'
    <3>1. \A a : At(a, "woken", "worker") => At(a, "woken", "worker")'
      BY <1>1 DEF At
    <3>. QED
      BY <1>1, <1>4, <1>5, <2>1, <3>1 DEF SettleInv
  <2>. QED
    BY <2>2, <2>3, <2>4, <2>5, <2>6, <2>7
<1>8. CASE vbuf[b].op # "display"
  <2>1. At(b, "dpc", c)
    BY <1>2, <1>8 DEF At
  <2>2. \A k \in Kinds, x \in Hands : At(b, k, x) => k = "dpc" /\ x = c
    BY <2>1, Names DEF Apart, Kinds
  <2>3. /\ free' \in Seq(Pool) /\ IsInjective(free')
        /\ Range(free') = IF b \in BigBufs THEN Range(free) ELSE Range(free) \cup {b}
        /\ list3d' \in Seq(BigBufs)
        /\ vbuf' \in [Bufs -> BufType]
        /\ \A a \in Bufs : a # b => vbuf'[a] = vbuf[a]
    <3>1. CASE b \in BigBufs
      <4>1. ReleaseCmdBuffer(b)
        BY <1>2, <1>8, <3>1 DEF DpcSettle
      <4>2. free' = free
        BY <4>1 DEF ReleaseCmdBuffer
      <4>3. list3d' \in Seq(BigBufs)
        <5>1. list3d \in Seq(BigBufs) /\ (list3d # <<>> => Tail(list3d) \in Seq(BigBufs))
          BY DEF Typed
        <5>. QED
          BY <4>1, <5>1 DEF ReleaseCmdBuffer
      <4>4. vbuf' = vbuf \/ vbuf' = [vbuf EXCEPT ![b] = [vbuf[b] EXCEPT !.op = "none"]]
        BY <4>1 DEF ReleaseCmdBuffer
      <4>5. vbuf \in [Bufs -> BufType] /\ [vbuf[b] EXCEPT !.op = "none"] \in BufType
        BY DEF Typed, BufType
      <4>. QED
        BY <3>1, <4>2, <4>3, <4>4, <4>5 DEF Typed
    <3>2. CASE b \notin BigBufs
      <4>1. free' = Append(free, b) /\ UNCHANGED <<list3d, vbuf>>
        BY <1>2, <1>8, <3>2 DEF DpcSettle, FreeBuf
      <4>2. b \in Pool
        BY <3>2 DEF Bufs
      <4>3. b \notin Range(free)
        <5>1. "pool" \in Kinds /\ "pool" # "dpc" /\ NULL \in Hands
          BY Names DEF Kinds
        <5>. QED
          BY <2>2, <5>1, AtIs
      <4>. QED
        BY <3>2, <4>1, <4>2, <4>3, AppendFacts DEF Typed
    <3>. QED
      BY <3>1, <3>2
  <2>4. Typed'
    BY <1>1, <1>5, <2>3 DEF Typed
  <2>5. ASSUME NEW a \in Bufs, NEW k \in Kinds, NEW x \in Hands
        PROVE  At(a, k, x)' <=> IF a = b THEN b \notin BigBufs /\ k = "pool" /\ x = NULL
                                ELSE At(a, k, x)
    <3>1. At(a, "pool", x)' <=> IF a = b THEN b \notin BigBufs /\ x = NULL ELSE At(a, "pool", x)
      <4>1. ~At(b, "pool", x)
        BY <2>2, Names DEF Kinds
      <4>. QED
        BY <2>3, <4>1, AtIs, AtNext
    <3>2. At(a, "thread", x)' <=> a # b /\ At(a, "thread", x)
      <4>1. ~At(b, "thread", x)
        BY <2>2 DEF Kinds
      <4>. QED
        BY <1>1, <4>1, AtIs, AtNext
    <3>3. At(a, "queue", x)' <=> a # b /\ At(a, "queue", x)
      <4>1. ~At(b, "queue", x)
        BY <2>2 DEF Kinds
      <4>. QED
        BY <1>6, <4>1, AtIs, AtNext
    <3>4. At(a, "dpc", x)' <=> a # b /\ At(a, "dpc", x)
      <4>1. CASE x = c
        BY <1>2, <1>4, <1>5, <4>1, AtIs, AtNext, Names
      <4>2. CASE x # c
        <5>1. ~At(b, "dpc", x)
          BY <2>2, <4>2 DEF Kinds
        <5>2. x \in Cpus => dpc[x].buf # b
          BY <1>8, <5>1, AtIs
        <5>. QED
          BY <1>5, <2>3, <4>2, <5>1, <5>2, AtIs, AtNext
      <4>. QED
        BY <4>1, <4>2
    <3>5. At(a, "woken", x)' <=> a # b /\ At(a, "woken", x)
      <4>1. ~At(b, "woken", x)
        BY <2>2 DEF Kinds
      <4>. QED
        BY <1>1, <4>1, AtIs, AtNext
    <3>. QED
      BY <3>1, <3>2, <3>3, <3>4, <3>5 DEF Kinds
  <2>6. IF b \in BigBufs THEN Dropped(b) ELSE Handed(b, "pool", NULL)
    BY <2>5 DEF Handed, Dropped
  <2>7. Apart'
    BY <2>6, ApartNext, Names DEF Kinds
  <2>8. ThreadInv'
    <3>1. ASSUME NEW t \in Threads, thr[t].pc = "filled"
          PROVE  thr[t].buf # b
      <4>1. At(thr[t].buf, "thread", t)
        BY <3>1 DEF At
      <4>. QED
        BY <2>2, <4>1, Names DEF Kinds
    <3>. QED
      BY <1>1, <2>3, <3>1 DEF ThreadInv
  <2>9. PostInv'
    <3>1. \A q \in Queues : Posted(q) \subseteq Bufs \ {b}
      <4>1. \A q \in Queues : b \in Posted(q) => At(b, "queue", q)
        BY DEF At
      <4>. QED
        BY <2>2, <4>1, PostedIs, Names DEF Kinds
    <3>2. \A q \in Queues : \A a \in Posted(q) : vbuf'[a] = vbuf[a]
      BY <2>3, <3>1
    <3>3. ASSUME NEW a \in Bufs \ {b}, Awaited(a)
          PROVE  Awaited(a)'
      BY <1>1, <2>3, <3>3 DEF Awaited
    <3>4. \A q \in Queues : \A a \in Posted(q) : Waits(vbuf[a].op) => Awaited(a)'
      BY <3>1, <3>3 DEF PostInv
    <3>. QED
      BY <1>1, <1>6, <3>2, <3>4, OpFacts DEF PostInv
  <2>10. WakeInv'
    BY <1>1 DEF WakeInv
  <2>11. SettleInv'
    <3>1. \A a : At(a, "woken", "worker") => At(a, "woken", "worker")'
      BY <1>1 DEF At
    <3>2. \A x \in Cpus : x # c => dpc[x].buf # b
      <4>1. \A x \in Cpus : dpc[x].buf = b => At(b, "dpc", x)
        BY <1>8 DEF At
      <4>. QED
        BY <2>2, <4>1, Names DEF Kinds
    <3>3. \A x \in Cpus : dpc[x].pc = "settle" => dpc[x].buf \in Bufs
      BY DEF SettleInv, Typed, DpcType
    <3>4. \A x \in Cpus : x # c /\ dpc[x].pc = "settle" => vbuf'[dpc[x].buf] = vbuf[dpc[x].buf]
      BY <2>3, <3>2, <3>3
    <3>. QED
      BY <1>1, <1>4, <1>5, <3>1, <3>4 DEF SettleInv
  <2>12. b \notin BigBufs => b \in Pool
    BY DEF Bufs
  <2>. QED
    BY <2>1, <2>4, <2>6, <2>7, <2>8, <2>9, <2>10, <2>11, <2>12
<1>. QED
  BY <1>7, <1>8

\* A cursor command goes back to the pool.
LEMMA DpcCursorOwner ==
    ASSUME OwnerInv, FlagsTyped, NEW c \in Cpus, DpcCursor(c)
    PROVE  /\ OwnerInv'
           /\ \/ Kept
              \/ \E b \in Pool : At(b, "queue", "crsr") /\ Handed(b, "pool", NULL)
<1> USE DEF drivervars, qvars, dpcvars, configvars, OwnerInv
<1>1. UNCHANGED <<list3d, vbuf, thr, signalled, display>> /\ "crsr" \in Queues
  BY DEF DpcCursor, Queues
<1>2. Line(queue["crsr"]) /\ Posted("crsr") = Members(queue["crsr"]) /\ Posted("crsr") \subseteq Bufs
  BY <1>1, PostedIs
<1>3. CASE queue["crsr"].used = <<>>
  <2>1. UNCHANGED <<free, queue>>
    BY <1>3 DEF DpcCursor
  <2>2. dpc[c] \in DpcType
    BY DEF Typed
  <2>3. PICK r \in SUBSET {"DISPLAY", "CURSOR", "CHANGE"} :
           dpc' = [dpc EXCEPT ![c] = [dpc[c] EXCEPT !.reason = r]]
    BY <1>3, <2>2 DEF DpcCursor, DpcType
  <2>4. [dpc[c] EXCEPT !.reason = r] \in DpcType
    BY <2>2 DEF DpcType
  <2>5. /\ dpc' \in [Cpus -> DpcType]
        /\ \A e \in Cpus : /\ dpc'[e].buf = dpc[e].buf
                           /\ dpc'[e].pc = "settle" <=> dpc[e].pc = "settle"
    BY <2>3, <2>4 DEF Typed, DpcType
  <2>6. Typed'
    BY <1>1, <2>1, <2>5 DEF Typed
  <2>7. \A q \in Queues : Posted(q)' = Posted(q)
    BY <2>1 DEF Posted
  <2>. QED
    BY <1>1, <2>1, <2>5, <2>6, <2>7, QuietOwner
<1>4. CASE queue["crsr"].used # <<>>
  <2>1. Head(queue["crsr"].used) \in Posted("crsr")
    BY <1>2, <1>4, LineCollects
  <2>2. PICK b \in Bufs : b = Head(queue["crsr"].used)
    BY <1>2, <2>1
  <2>3. b \in Pool /\ b \in Posted("crsr") /\ At(b, "queue", "crsr")
    <3>1. vbuf[b].op \in Ops /\ QueueOf(vbuf[b].op) = "crsr" /\ (b \in BigBufs <=> vbuf[b].op = "submit")
      BY <1>1, <2>1, <2>2 DEF PostInv
    <3>2. vbuf[b].op = "cursor"
      BY <3>1, OpFacts
    <3>3. b \notin BigBufs
      BY <3>1, <3>2
    <3>. QED
      BY <1>1, <2>1, <2>2, <3>3 DEF At, Bufs
  <2>4. \A k \in Kinds, x \in Hands : At(b, k, x) => k = "queue" /\ x = "crsr"
    BY <1>1, <2>3, Names DEF Apart, Kinds
  <2>5. /\ DOMAIN queue' = Queues /\ \A q \in Queues : Line(queue'[q])
        /\ \A q \in Queues : Posted(q)' = IF q = "crsr" THEN Posted("crsr") \ {b} ELSE Posted(q)
    <3>1. PICK m : m = [queue["crsr"] EXCEPT !.used = Tail(@)]
      OBVIOUS
    <3>2. Line(m) /\ Members(m) = Members(queue["crsr"]) \ {b}
      BY <1>2, <1>4, <2>2, <3>1, LineCollects
    <3>3. queue' = [queue EXCEPT !["crsr"] = m]
      BY <1>4, <3>1 DEF DpcCursor
    <3>. QED
      BY <1>1, <1>2, <3>2, <3>3, QueueChanges
  <2>6. /\ dpc' = dpc
        /\ free' \in Seq(Pool) /\ IsInjective(free') /\ Range(free') = Range(free) \cup {b}
    <3>1. b \notin Range(free)
      BY <2>4, AtIs, Names DEF Kinds
    <3>2. free' = Append(free, b) /\ dpc' = dpc
      BY <1>4, <2>2, <2>3 DEF DpcCursor, FreeBuf
    <3>3. free \in Seq(Pool) /\ IsInjective(free)
      BY <1>1 DEF Typed
    <3>. HIDE DEF Typed
    <3>. QED
      BY <2>3, <3>1, <3>2, <3>3, AppendFacts
  <2>7. Typed'
    BY <1>1, <2>5, <2>6 DEF Typed
  <2>8. Handed(b, "pool", NULL)
    <3> SUFFICES ASSUME NEW a \in Bufs, NEW x \in Hands
                 PROVE  \A k \in Kinds :
                           At(a, k, x)' <=> IF a = b THEN k = "pool" /\ x = NULL ELSE At(a, k, x)
      BY DEF Handed
    <3>1. \A k \in Kinds : At(b, k, x) => k = "queue" /\ x = "crsr"
      BY <2>4
    <3>2. At(a, "pool", x)' <=> IF a = b THEN x = NULL ELSE At(a, "pool", x)
      BY <2>6, AtIs, AtNext
    <3>3. At(a, "thread", x)' <=> At(a, "thread", x)
      BY <1>1, AtIs, AtNext
    <3>4. At(a, "queue", x)' <=> a # b /\ At(a, "queue", x)
      <4>1. x \in Queues \ {"crsr"} => b \notin Posted(x)
        BY <3>1, AtIs DEF Kinds
      <4>. QED
        BY <2>5, <4>1, AtIs, AtNext
    <3>5. At(a, "dpc", x)' <=> At(a, "dpc", x)
      BY <1>1, <2>6, AtIs, AtNext
    <3>6. At(a, "woken", x)' <=> At(a, "woken", x)
      BY <1>1, AtIs, AtNext
    <3>. QED
      BY <3>1, <3>2, <3>3, <3>4, <3>5, <3>6 DEF Kinds
  <2>9. Apart'
    BY <2>8, ApartNext, Names DEF Kinds
  <2>10. ThreadInv' /\ WakeInv'
    BY <1>1 DEF ThreadInv, WakeInv
  <2>11. PostInv'
    <3>1. \A q \in Queues : Posted(q)' \subseteq Posted(q)
      BY <2>5
    <3>2. \A a : Awaited(a) => Awaited(a)'
      BY <1>1 DEF Awaited
    <3>. QED
      BY <1>1, <3>1, <3>2, OpFacts DEF PostInv
  <2>12. SettleInv'
    <3>1. \A a : At(a, "woken", "worker") => At(a, "woken", "worker")'
      BY <1>1 DEF At
    <3>. QED
      BY <1>1, <2>6, <3>1 DEF SettleInv
  <2>. QED
    BY <2>3, <2>7, <2>8, <2>9, <2>10, <2>11, <2>12
<1>. QED
  BY <1>3, <1>4

\* The flags and registers keep their types.
LEMMA NextFlags == OwnerInv /\ FlagsTyped /\ [Next]_vars => FlagsTyped'
<1> SUFFICES ASSUME OwnerInv, FlagsTyped, [Next]_vars PROVE FlagsTyped'
  OBVIOUS
<1> USE DEF drivervars, qvars, dpcvars, configvars, FlagsTyped
<1>1. ASSUME NEW t \in Threads, NEW op \in Ops, GetBuf(t, op) \/ GetBufNull(t, op)
      PROVE  FlagsTyped'
  BY <1>1 DEF GetBuf, GetBufNull, Begin
<1>2. ASSUME NEW t \in Threads, QueueBuffer(t) \/ QueueBufferTooBig(t) \/ TransferDone(t)
      PROVE  FlagsTyped'
  BY <1>2 DEF QueueBuffer, QueueBufferTooBig, TransferDone
<1>3. ASSUME NEW t \in Threads, Kick(t)
      PROVE  FlagsTyped'
  BY <1>3 DEF Kick, QueueOf, Queues
<1>4. ASSUME NEW t \in Clients, NEW b \in BigBufs, CreateCmdBuffer(t, b)
      PROVE  FlagsTyped'
  BY <1>4 DEF CreateCmdBuffer, Begin
<1>5. CASE WorkerWake \/ ClearEvents
  BY <1>5 DEF WorkerWake, ClearEvents
<1>6. CASE GetDisplayInfo
  <2>1. thr["worker"].buf \in Bufs
    BY <1>6, Names DEF GetDisplayInfo, OwnerInv, ThreadInv
  <2>2. vbuf[thr["worker"].buf].reply \in 0 .. MaxChanges
    BY <2>1 DEF OwnerInv, Typed, BufType
  <2>. QED
    BY <1>6, <2>2 DEF GetDisplayInfo
<1>7. CASE Interrupt
  BY <1>7 DEF Interrupt, InterruptQueue, InterruptChange, InterruptUnknown, RaiseDpc
<1>8. ASSUME NEW c \in Cpus, Dpc(c)
      PROVE  FlagsTyped'
  BY <1>8 DEF Dpc, DpcStart, DpcExchange, DpcCollect, DpcSettle, DpcCtrlEmpty, DpcCursor, DpcChange
<1>9. ASSUME NEW q \in Queues, DevTake(q) \/ DevServe(q)
      PROVE  FlagsTyped'
  BY <1>9 DEF DevTake, DevServe, DevComplete
<1>10. CASE DevChange
  BY <1>10, DeviceAssumption DEF DevChange
<1>11. CASE UNCHANGED vars
  BY <1>11 DEF vars
<1>. QED
  BY <1>1, <1>2, <1>3, <1>4, <1>5, <1>6, <1>7, <1>8, <1>9, <1>10, <1>11
     DEF Next, Allocate, Go, Worker

\* A step of the rest of the system.
LEMMA StutterOwner ==
    ASSUME OwnerInv, UNCHANGED vars
    PROVE  OwnerInv' /\ Kept
<1>1. UNCHANGED <<free, list3d, vbuf, queue, thr, signalled, dpc, display>>
  BY DEF vars, configvars
<1>2. Typed'
  BY <1>1 DEF OwnerInv, Typed
<1>3. \A q \in Queues : Posted(q)' = Posted(q)
  BY <1>1 DEF Posted
<1>. QED
  BY <1>1, <1>2, <1>3, QuietOwner

\* Every step preserves the invariant.
LEMMA NextOwner ==
    OwnerInv /\ FlagsTyped /\ [Next]_vars /\ [SettlesFirst]_vars => OwnerInv'
<1> SUFFICES ASSUME OwnerInv, FlagsTyped, [Next]_vars, [SettlesFirst]_vars PROVE OwnerInv'
  OBVIOUS
<1>1. ASSUME NEW t \in Threads, NEW op \in Ops, GetBuf(t, op)
      PROVE  OwnerInv'
  BY <1>1, GetBufOwner
<1>2. ASSUME NEW t \in Threads, NEW op \in Ops, GetBufNull(t, op)
      PROVE  OwnerInv'
  BY <1>2, FlagsQuiet
<1>3. ASSUME NEW t \in Threads, Go(t)
      PROVE  OwnerInv'
  BY <1>3, QueueBufferOwner, TooBigOwner, KickOwner, TransferDoneOwner DEF Go
<1>4. ASSUME NEW t \in Clients, NEW b \in BigBufs, CreateCmdBuffer(t, b)
      PROVE  OwnerInv'
  BY <1>4, CreateCmdBufferOwner
<1>5. CASE WorkerWake \/ ClearEvents
  BY <1>5, WorkerOwner
<1>6. CASE GetDisplayInfo
  <2>1. CASE SettlesFirst
    BY <1>6, <2>1, GetDisplayInfoOwner
  <2>2. CASE UNCHANGED vars
    BY <2>2, StutterOwner
  <2>. QED
    BY <2>1, <2>2
<1>7. CASE Interrupt
  BY <1>7, FlagsQuiet DEF Interrupt
<1>8. ASSUME NEW c \in Cpus, Dpc(c)
      PROVE  OwnerInv'
  BY <1>8, DpcQuiet, DpcCollectOwner, DpcSettleOwner, DpcCursorOwner DEF Dpc
<1>9. ASSUME NEW q \in Queues, DevTake(q) \/ DevServe(q)
      PROVE  OwnerInv'
  BY <1>9, DevTakeOwner, DevCompleteOwner DEF DevServe
<1>10. CASE DevChange
  BY <1>10, FlagsQuiet
<1>11. CASE UNCHANGED vars
  BY <1>11, StutterOwner
<1>. QED
  BY <1>1, <1>2, <1>3, <1>4, <1>5, <1>6, <1>7, <1>8, <1>9, <1>10, <1>11
     DEF Next, Allocate, Worker

-----------------------------------------------------------------------------
(* The theorems                                                            *)

\* The invariant holds in every state.
THEOREM OwnerCorrect == Spec /\ [][SettlesFirst]_vars => [](OwnerInv /\ FlagsTyped)
BY InitOwner, NextOwner, NextFlags, PTL DEF Spec

\* A thread is woken by the reply to its own command, whatever the sizes of the rings, the
\* number of threads and of processors: the event named in a buffer is that of the thread
\* that filled it in, because the buffer is zeroed when it is allocated (GetBuf).
THEOREM WokenCorrect == Spec /\ [][SettlesFirst]_vars => []WokenByReply
<1>1. OwnerInv => WokenByReply
  <2> SUFFICES ASSUME OwnerInv, NEW t \in signalled
               PROVE  /\ thr[t].pc \in {"kick", "wait"}
                      /\ Waits(thr[t].op)
                      /\ \A b \in Posted("ctrl") : vbuf[b].event # t
    BY DEF WokenByReply
  <2>1. \A b \in Posted("ctrl") : vbuf[b].event # t
    BY OpFacts, Names DEF OwnerInv, PostInv, Awaited, Typed
  <2>. QED
    BY <2>1 DEF OwnerInv, WakeInv
<1>. QED
  BY <1>1, OwnerCorrect, PTL

\* Sets that have at most one element, and at most one of which has one.
LEMMA OneOfFive ==
    ASSUME NEW A, NEW B, NEW C, NEW D, NEW E,
           \A x, y \in A : x = y, \A x, y \in B : x = y, \A x, y \in C : x = y,
           \A x, y \in D : x = y, \A x, y \in E : x = y,
           A = {} \/ (B = {} /\ C = {} /\ D = {} /\ E = {}),
           B = {} \/ (C = {} /\ D = {} /\ E = {}),
           C = {} \/ (D = {} /\ E = {}),
           D = {} \/ E = {}
    PROVE  LET n == Cardinality(A) + Cardinality(B) + Cardinality(C) + Cardinality(D) + Cardinality(E)
           IN  /\ n \in {0, 1}
               /\ n = 0 <=> A = {} /\ B = {} /\ C = {} /\ D = {} /\ E = {}
<1>1. ASSUME NEW S, \A x, y \in S : x = y
      PROVE  /\ S # {} => Cardinality(S) = 1
             /\ S = {} => Cardinality(S) = 0
  <2>1. ASSUME NEW x \in S
        PROVE  Cardinality(S) = 1
    <3>1. S = {x}
      BY <1>1
    <3>. QED
      BY <3>1, FS_Singleton
  <2>. QED
    BY <2>1, FS_EmptySet
<1>2. /\ Cardinality(A) = IF A = {} THEN 0 ELSE 1
      /\ Cardinality(B) = IF B = {} THEN 0 ELSE 1
      /\ Cardinality(C) = IF C = {} THEN 0 ELSE 1
      /\ Cardinality(D) = IF D = {} THEN 0 ELSE 1
      /\ Cardinality(E) = IF E = {} THEN 0 ELSE 1
  BY <1>1
<1>. QED
  BY <1>2

\* Counting hands
LEMMA PlacesIs ==
    ASSUME OwnerInv, NEW b \in Bufs
    PROVE  /\ Places(b) \in {0, 1}
           /\ Places(b) = 0 <=> \A k \in Kinds, x \in Hands : ~At(b, k, x)
<1> DEFINE A == {i \in DOMAIN free : free[i] = b}
           B == {t \in Threads : thr[t].pc = "filled" /\ thr[t].buf = b}
           C == {q \in Queues : b \in Posted(q)}
           D == {c \in Cpus : dpc[c].buf = b /\ vbuf[b].op # "display"}
           E == {t \in {"worker"} \cap signalled : thr[t].buf = b}
<1>1. /\ A # {} <=> At(b, "pool", NULL)
      /\ \A x, y \in A : x = y
  <2>1. free \in Seq(Pool) /\ IsInjective(free)
    BY DEF OwnerInv, Typed
  <2>. QED
    BY <2>1, RangeIs DEF At, IsInjective
<1>2. B = {x \in Hands : At(b, "thread", x)}
  BY Names, AtIs
<1>3. C = {x \in Hands : At(b, "queue", x)}
  BY Names, AtIs
<1>4. D = {x \in Hands : At(b, "dpc", x)}
  BY Names, AtIs
<1>5. E = {x \in Hands : At(b, "woken", x)}
  BY Names, AtIs
<1>6. \A k1, k2 \in Kinds : \A x1, x2 \in Hands :
         At(b, k1, x1) /\ At(b, k2, x2) => k1 = k2 /\ x1 = x2
  BY DEF OwnerInv, Apart
<1>7. Places(b) = Cardinality(A) + Cardinality(B) + Cardinality(C) + Cardinality(D) + Cardinality(E)
  BY DEF Places
<1>8. NULL \in Hands /\ \A x \in Hands : At(b, "pool", x) => x = NULL
  BY Names, AtIs
<1> HIDE DEF A, B, C, D, E
<1>9. /\ \A x, y \in B : x = y
      /\ \A x, y \in C : x = y
      /\ \A x, y \in D : x = y
      /\ \A x, y \in E : x = y
  BY <1>2, <1>3, <1>4, <1>5, <1>6 DEF Kinds
<1>10. /\ A = {} \/ (B = {} /\ C = {} /\ D = {} /\ E = {})
       /\ B = {} \/ (C = {} /\ D = {} /\ E = {})
       /\ C = {} \/ (D = {} /\ E = {})
       /\ D = {} \/ E = {}
  BY <1>1, <1>2, <1>3, <1>4, <1>5, <1>6, <1>8 DEF Kinds
<1>11. /\ Places(b) \in {0, 1}
       /\ Places(b) = 0 <=> A = {} /\ B = {} /\ C = {} /\ D = {} /\ E = {}
  BY <1>1, <1>7, <1>9, <1>10, OneOfFive, SMTT(60)
<1>12. (\A k \in Kinds, x \in Hands : ~At(b, k, x)) <=>
          A = {} /\ B = {} /\ C = {} /\ D = {} /\ E = {}
  BY <1>1, <1>2, <1>3, <1>4, <1>5, <1>8 DEF Kinds
<1>. QED
  BY <1>11, <1>12

\* No buffer of the pool is in two hands at once: none is filled by one thread while the
\* device, a DPC, or another thread still has it, and none is put into the pool twice
\* (GetBuf, QueueBuffer, DequeueBuffer, FreeBuf).
THEOREM OneOwnerCorrect == Spec /\ [][SettlesFirst]_vars => []OneOwner
<1>1. OwnerInv => OneOwner
  <2> SUFFICES ASSUME OwnerInv, NEW b \in Pool PROVE Places(b) <= 1
    BY DEF OneOwner
  <2>1. Places(b) \in {0, 1}
    BY PlacesIs, Names
  <2>. QED
    BY <2>1
<1>. QED
  BY <1>1, OwnerCorrect, PTL

-----------------------------------------------------------------------------
(* Room in the queues                                                      *)

\* What each command costs, and each thread's command.
costs == [b \in Bufs |-> Cost(vbuf[b].op)]
thrcosts == [t \in Threads |-> Cost(thr[t].op)]

\* A command takes one descriptor at least, two in the control queue.
LEMMA CostFacts ==
    /\ \A op : Cost(op) \in Nat /\ Cost(op) >= 1
    /\ \A op \in Ops : QueueOf(op) = "ctrl" => Cost(op) >= 2
    /\ \A q \in Queues : Num(q) \in Nat /\ Num(q) >= 1
BY RingAssumption DEF Cost, Ops, QueueOf, Queues, Num

\* Finite are the pool, what is in a sequence, and so what is in a queue.
LEMMA PostedFinite == Typed => \A q \in Queues : IsFiniteSet(Posted(q))
<1> SUFFICES ASSUME Typed, NEW q \in Queues PROVE IsFiniteSet(Posted(q))
  OBVIOUS
<1>1. ASSUME NEW s \in Seq(Bufs)
      PROVE  IsFiniteSet(Range(s))
  <2>1. Len(s) \in Nat /\ IsFiniteSet(1 .. Len(s))
    BY FS_Interval
  <2>2. s \in Surjection(1 .. Len(s), Range(s))
    <3>1. s \in [1 .. Len(s) -> Range(s)]
      BY RangeIs
    <3>. QED
      BY <3>1, RangeIs DEF Surjection
  <2>. QED
    BY <2>1, <2>2, FS_Surjection
<1>2. /\ queue[q].avail \in Seq(Bufs) /\ queue[q].held \in Seq(Bufs)
      /\ queue[q].used \in Seq(Bufs)
  BY PostedIs
<1>3. /\ IsFiniteSet(Range(queue[q].avail)) /\ IsFiniteSet(Range(queue[q].held))
      /\ IsFiniteSet(Range(queue[q].used))
  BY <1>1, <1>2
<1>. QED
  BY <1>3, FS_Union DEF Posted

\* The load of a queue is a sum of costs.
LEMMA LoadIs == Typed => \A q \in Queues : Load(q) = Sum(costs, Posted(q))
<1> SUFFICES ASSUME Typed, NEW q \in Queues PROVE Load(q) = Sum(costs, Posted(q))
  OBVIOUS
<1> DEFINE Solves(G, S) == G = [T \in SUBSET S |-> IF T = {} THEN 0
                               ELSE BufCost(Pick(T)) + G[T \ {Pick(T)}]]
           G0 == CHOOSE G : Solves(G, Posted(q))
           S == Posted(q)
<1>1. Load(q) = G0[S]
  BY Zenon DEF Load, MapThenSumSet, MapThenFoldSet, Pick
<1>2. \A x \in Bufs : costs[x] = BufCost(x) /\ costs[x] \in Nat
  BY CostFacts DEF costs, BufCost
<1>3. S \in SUBSET Bufs /\ IsFiniteSet(S)
  BY PostedIs, PostedFinite
<1>. HIDE DEF S
<1>5. PICK F : IsSum(F, costs, S)
  BY <1>2, <1>3, SumExists
<1>6. Solves(F, S)
  <2>1. \A T \in SUBSET S : T # {} => Pick(T) \in Bufs
    BY <1>3 DEF Pick
  <2>. QED
    BY <1>2, <1>5, <2>1 DEF IsSum
<1>7. IsSum(G0, costs, S)
  <2>1. Solves(G0, S)
    BY <1>6, Zenon DEF S
  <2> HIDE DEF G0
  <2>2. \A T \in SUBSET S : T # {} => Pick(T) \in Bufs
    BY <1>3 DEF Pick
  <2>. QED
    BY <1>2, <2>1, <2>2 DEF IsSum
<1> HIDE DEF G0
<1>8. Sum(costs, S) = G0[S]
  BY <1>2, <1>3, <1>7, SumIs
<1>. QED
  BY <1>1, <1>8 DEF S

\* So is what is reserved.
LEMMA ReservedIs ==
    \A q \in Queues : IsFiniteSet(Filling(q)) => Reserved(q) = Sum(thrcosts, Filling(q))
<1> SUFFICES ASSUME NEW q \in Queues, IsFiniteSet(Filling(q))
             PROVE  Reserved(q) = Sum(thrcosts, Filling(q))
  OBVIOUS
<1> DEFINE Solves(G, S) == G = [T \in SUBSET S |-> IF T = {} THEN 0
                               ELSE ThreadCost(Pick(T)) + G[T \ {Pick(T)}]]
           G0 == CHOOSE G : Solves(G, Filling(q))
           S == Filling(q)
<1>1. Reserved(q) = G0[S]
  BY Zenon DEF Reserved, Filling, MapThenSumSet, MapThenFoldSet, Pick
<1>2. \A x \in Threads : thrcosts[x] = ThreadCost(x) /\ thrcosts[x] \in Nat
  BY CostFacts DEF thrcosts, ThreadCost
<1>3. S \in SUBSET Threads /\ IsFiniteSet(S)
  BY DEF Filling
<1>. HIDE DEF S
<1>5. PICK F : IsSum(F, thrcosts, S)
  BY <1>2, <1>3, SumExists
<1>6. Solves(F, S)
  <2>1. \A T \in SUBSET S : T # {} => Pick(T) \in Threads
    BY <1>3 DEF Pick
  <2>. QED
    BY <1>2, <1>5, <2>1 DEF IsSum
<1>7. IsSum(G0, thrcosts, S)
  <2>1. Solves(G0, S)
    BY <1>6, Zenon DEF S
  <2> HIDE DEF G0
  <2>2. \A T \in SUBSET S : T # {} => Pick(T) \in Threads
    BY <1>3 DEF Pick
  <2>. QED
    BY <1>2, <2>1, <2>2 DEF IsSum
<1> HIDE DEF G0
<1>8. Sum(thrcosts, S) = G0[S]
  BY <1>2, <1>3, <1>7, SumIs
<1>. QED
  BY <1>1, <1>8 DEF S

\* A finite sum of numbers over a set that does not change, gains or loses one.
LEMMA SumChanges ==
    ASSUME NEW S, IsFiniteSet(S), NEW R, NEW g, NEW h,
           \A x \in S \cup R : g[x] \in Nat /\ h[x] = g[x]
    PROVE  /\ R = S => Sum(h, R) = Sum(g, S)
           /\ \A x : x \notin S /\ R = S \cup {x} => Sum(h, R) = Sum(g, S) + g[x]
           /\ \A x \in S : R = S \ {x} => Sum(g, S) = Sum(h, R) + g[x]
           /\ Sum(g, S) \in Nat
<1>1. R = S => Sum(h, R) = Sum(g, S)
  BY SumSame
<1>2. ASSUME NEW x, x \notin S, R = S \cup {x}
      PROVE  Sum(h, R) = Sum(g, S) + g[x]
  <2>1. IsFiniteSet(R)
    BY <1>2, FS_AddElement
  <2>2. Sum(h, R) = Sum(g, R)
    BY <2>1, SumSame
  <2>3. Sum(g, S \cup {x}) = Sum(g, S) + g[x]
    BY <1>2, SumAdd
  <2>. QED
    BY <1>2, <2>2, <2>3
<1>3. ASSUME NEW x \in S, R = S \ {x}
      PROVE  Sum(g, S) = Sum(h, R) + g[x]
  <2>1. IsFiniteSet(R)
    BY <1>3, FS_RemoveElement
  <2>2. Sum(h, R) = Sum(g, R)
    BY <2>1, SumSame
  <2>3. Sum(g, S) = Sum(g, S \ {x}) + g[x]
    BY <1>3, SumRemove
  <2>. QED
    BY <1>3, <2>2, <2>3
<1>4. Sum(g, S) \in Nat
  BY SumType
<1>. QED
  BY <1>1, <1>2, <1>3, <1>4

\* The same of the next state.
LEMMA LoadsNext ==
    /\ Typed' => \A q \in Queues : /\ Load(q)' = Sum(costs', Posted(q)')
                                  /\ IsFiniteSet(Posted(q)') /\ Posted(q)' \subseteq Bufs
    /\ \A q \in Queues : IsFiniteSet(Filling(q)') => Reserved(q)' = Sum(thrcosts', Filling(q)')
<1>1. (Typed => \A q \in Queues : Load(q) = Sum(costs, Posted(q)))'
  BY LoadIs, PTL
<1>2. (Typed => \A q \in Queues : IsFiniteSet(Posted(q)))'
  BY PostedFinite, PTL
<1>3. Typed => \A q \in Queues : Posted(q) \subseteq Bufs
  BY PostedIs
<1>4. (Typed => \A q \in Queues : Posted(q) \subseteq Bufs)'
  BY <1>3, PTL
<1>5. (\A q \in Queues : IsFiniteSet(Filling(q)) => Reserved(q) = Sum(thrcosts, Filling(q)))'
  BY ReservedIs, PTL
<1>. QED
  BY <1>1, <1>2, <1>4, <1>5

\* The commands that are posted keep their type.
SameOps ==
    \A q \in Queues : \A b \in Posted(q) \cup Posted(q)' : vbuf'[b].op = vbuf[b].op

\* How the loads change with what is posted.
LEMMA LoadNext ==
    ASSUME Typed, Typed', SameOps, NEW q \in Queues
    PROVE  /\ Posted(q)' = Posted(q) => Load(q)' = Load(q)
           /\ \A b \in Bufs : b \notin Posted(q) /\ Posted(q)' = Posted(q) \cup {b} =>
                 Load(q)' = Load(q) + Cost(vbuf[b].op)
           /\ \A b \in Posted(q) : Posted(q)' = Posted(q) \ {b} =>
                 Load(q) = Load(q)' + Cost(vbuf[b].op)
           /\ Load(q) \in Nat /\ Load(q)' \in Nat
<1>1. Load(q) = Sum(costs, Posted(q)) /\ Load(q)' = Sum(costs', Posted(q)')
  BY LoadIs, LoadsNext
<1>2. IsFiniteSet(Posted(q)) /\ IsFiniteSet(Posted(q)')
  BY PostedFinite, LoadsNext
<1>3. Posted(q) \subseteq Bufs /\ Posted(q)' \subseteq Bufs
  BY PostedIs, LoadsNext
<1>4. \A b \in Posted(q) \cup Posted(q)' :
         costs[b] \in Nat /\ costs'[b] = costs[b] /\ costs[b] = Cost(vbuf[b].op)
  BY <1>3, CostFacts DEF costs, SameOps
<1>5. costs' = [b \in Bufs |-> Cost(vbuf'[b].op)]
  BY DEF costs
<1>6. /\ Posted(q)' = Posted(q) => Sum(costs', Posted(q)') = Sum(costs, Posted(q))
      /\ \A x : x \notin Posted(q) /\ Posted(q)' = Posted(q) \cup {x} =>
            Sum(costs', Posted(q)') = Sum(costs, Posted(q)) + costs[x]
      /\ \A x \in Posted(q) : Posted(q)' = Posted(q) \ {x} =>
            Sum(costs, Posted(q)) = Sum(costs', Posted(q)') + costs[x]
      /\ Sum(costs, Posted(q)) \in Nat
  BY <1>2, <1>4, SumChanges
<1>7. Sum(costs', Posted(q)') \in Nat
  BY <1>2, <1>4, SumType
<1>. QED
  BY <1>1, <1>4, <1>6, <1>7

\* Where the posted buffers are follows from whose hands they are in.
LEMMA PostedNext ==
    ASSUME Typed, Typed', NEW q \in Queues
    PROVE  /\ Kept => Posted(q)' = Posted(q)
           /\ \A b \in Bufs : Dropped(b) => Posted(q)' = Posted(q) \ {b}
           /\ \A b \in Bufs : \A k \in Kinds, x \in Hands : Handed(b, k, x) =>
                 Posted(q)' = IF k = "queue" /\ x = q THEN Posted(q) \cup {b}
                                                      ELSE Posted(q) \ {b}
<1>1. Posted(q) \subseteq Bufs /\ Posted(q)' \subseteq Bufs
  BY PostedIs, LoadsNext
<1>2. "queue" \in Kinds /\ q \in Hands
  BY Names DEF Kinds
<1>3. \A b \in Bufs : /\ At(b, "queue", q) <=> b \in Posted(q)
                      /\ At(b, "queue", q)' <=> b \in Posted(q)'
  BY <1>2, AtIs, AtNext
<1>4. Kept => Posted(q)' = Posted(q)
  BY <1>1, <1>2, <1>3 DEF Kept
<1>5. ASSUME NEW b \in Bufs, Dropped(b)
      PROVE  Posted(q)' = Posted(q) \ {b}
  BY <1>1, <1>2, <1>3, <1>5 DEF Dropped
<1>6. ASSUME NEW b \in Bufs, NEW k \in Kinds, NEW x \in Hands, Handed(b, k, x)
      PROVE  Posted(q)' = IF k = "queue" /\ x = q THEN Posted(q) \cup {b} ELSE Posted(q) \ {b}
  <2>1. \A c \in Bufs : c \in Posted(q)' <=> IF c = b THEN k = "queue" /\ x = q
                                             ELSE c \in Posted(q)
    BY <1>2, <1>3, <1>6 DEF Handed
  <2>. QED
    BY <1>1, <2>1
<1>. QED
  BY <1>4, <1>5, <1>6

\* A load only grows when a buffer is handed to its queue.
LEMMA LoadShrinks ==
    ASSUME Typed, Typed', SameOps, NEW q \in Queues,
           \/ Kept
           \/ \E b \in Bufs : Dropped(b)
           \/ \E b \in Bufs, k \in Kinds \ {"queue"}, x \in Hands : Handed(b, k, x)
    PROVE  Load(q)' <= Load(q) /\ Load(q) \in Nat /\ Load(q)' \in Nat
<1>1. Posted(q)' = Posted(q) \/ \E b \in Posted(q) : Posted(q)' = Posted(q) \ {b}
  <2>1. Posted(q)' = Posted(q) \/ \E b \in Bufs : Posted(q)' = Posted(q) \ {b}
    BY PostedNext
  <2>2. ASSUME NEW b, Posted(q)' = Posted(q) \ {b}, b \notin Posted(q)
        PROVE  Posted(q)' = Posted(q)
    BY <2>2
  <2>. QED
    BY <2>1, <2>2
<1>2. /\ Posted(q)' = Posted(q) => Load(q)' = Load(q)
      /\ \A b \in Posted(q) : Posted(q)' = Posted(q) \ {b} =>
            Load(q) = Load(q)' + Cost(vbuf[b].op)
      /\ Load(q) \in Nat /\ Load(q)' \in Nat
  BY LoadNext
<1>3. \A b : Cost(vbuf[b].op) \in Nat
  BY CostFacts
<1>. QED
  BY <1>1, <1>2, <1>3

\* The threads that have a buffer to post are finitely many.
FewFill == \A q \in Queues : IsFiniteSet(Filling(q))

\* How the reservations change with what the threads do.
LEMMA ReservedKept ==
    ASSUME FewFill,
           \A t \in Threads : thr[t].pc = "filled" \/ thr'[t].pc = "filled" =>
              thr'[t].pc = thr[t].pc /\ thr'[t].op = thr[t].op
    PROVE  FewFill' /\ \A q \in Queues : Reserved(q)' = Reserved(q)
<1>1. \A q \in Queues : Filling(q)' = Filling(q)
  BY DEF Filling
<1>2. FewFill'
  BY <1>1 DEF FewFill
<1>3. ASSUME NEW q \in Queues
      PROVE  Reserved(q)' = Reserved(q)
  <2>1. IsFiniteSet(Filling(q)) /\ IsFiniteSet(Filling(q)')
    BY <1>2 DEF FewFill
  <2>2. Reserved(q) = Sum(thrcosts, Filling(q)) /\ Reserved(q)' = Sum(thrcosts', Filling(q)')
    BY <2>1, ReservedIs, LoadsNext
  <2>3. \A t \in Filling(q) : /\ thrcosts[t] \in Nat
                              /\ thrcosts'[t] = thrcosts[t]
    BY CostFacts DEF thrcosts, Filling
  <2>. QED
    BY <1>1, <2>1, <2>2, <2>3, SumSame
<1>. QED
  BY <1>2, <1>3

\* One thread begins to fill, or stops.
LEMMA ReservedNext ==
    ASSUME FewFill, NEW t \in Threads,
           \A u \in Threads : u # t => thr'[u].pc = thr[u].pc /\ thr'[u].op = thr[u].op
    PROVE  /\ FewFill'
           /\ thr[t].pc # "filled" /\ thr'[t].pc = "filled" =>
                 \A q \in Queues : Reserved(q)' =
                    Reserved(q) + IF q = QueueOf(thr'[t].op) THEN Cost(thr'[t].op) ELSE 0
           /\ thr[t].pc = "filled" /\ thr'[t].pc # "filled" =>
                 \A q \in Queues : Reserved(q) =
                    Reserved(q)' + IF q = QueueOf(thr[t].op) THEN Cost(thr[t].op) ELSE 0
           /\ \A q \in Queues : Reserved(q) \in Nat /\ Reserved(q)' \in Nat
<1>1. \A q \in Queues : Filling(q)' \subseteq Filling(q) \cup {t}
  BY DEF Filling
<1>2. FewFill'
  BY <1>1, FS_AddElement, FS_Subset DEF FewFill
<1>3. ASSUME NEW q \in Queues
      PROVE  /\ Reserved(q) = Sum(thrcosts, Filling(q)) /\ Reserved(q)' = Sum(thrcosts', Filling(q)')
             /\ Reserved(q) \in Nat /\ Reserved(q)' \in Nat
  <2>1. IsFiniteSet(Filling(q)) /\ IsFiniteSet(Filling(q)')
    BY <1>2 DEF FewFill
  <2>2. Reserved(q) = Sum(thrcosts, Filling(q)) /\ Reserved(q)' = Sum(thrcosts', Filling(q)')
    BY <2>1, ReservedIs, LoadsNext
  <2>3. /\ \A u \in Filling(q) : thrcosts[u] \in Nat
        /\ \A u \in Filling(q)' : thrcosts'[u] \in Nat
    BY CostFacts DEF thrcosts, Filling
  <2>. QED
    BY <2>1, <2>2, <2>3, SumType
<1>4. ASSUME thr[t].pc # "filled", thr'[t].pc = "filled", NEW q \in Queues
      PROVE  Reserved(q)' =
                Reserved(q) + IF q = QueueOf(thr'[t].op) THEN Cost(thr'[t].op) ELSE 0
  <2>1. /\ t \notin Filling(q)
        /\ Filling(q)' = IF q = QueueOf(thr'[t].op) THEN Filling(q) \cup {t} ELSE Filling(q)
    BY <1>4 DEF Filling
  <2>2. /\ \A u \in Filling(q) : thrcosts[u] \in Nat /\ thrcosts'[u] = thrcosts[u]
        /\ thrcosts'[t] = Cost(thr'[t].op) /\ thrcosts'[t] \in Nat
    BY <2>1, CostFacts DEF thrcosts, Filling
  <2>3. IsFiniteSet(Filling(q))
    BY DEF FewFill
  <2>4. Sum(thrcosts', Filling(q)) = Sum(thrcosts, Filling(q))
    BY <2>2, <2>3, SumSame
  <2>5. \A u \in Filling(q) \cup {t} : thrcosts'[u] \in Nat
    BY <2>2
  <2>6. Sum(thrcosts', Filling(q) \cup {t}) = Sum(thrcosts', Filling(q)) + thrcosts'[t]
    BY <2>1, <2>3, <2>5, SumAdd
  <2>7. CASE q = QueueOf(thr'[t].op)
    BY <1>3, <2>1, <2>2, <2>4, <2>6, <2>7
  <2>8. CASE q # QueueOf(thr'[t].op)
    BY <1>3, <2>1, <2>4, <2>8
  <2>. QED
    BY <2>7, <2>8
<1>5. ASSUME thr[t].pc = "filled", thr'[t].pc # "filled", NEW q \in Queues
      PROVE  Reserved(q) =
                Reserved(q)' + IF q = QueueOf(thr[t].op) THEN Cost(thr[t].op) ELSE 0
  <2>1. /\ Filling(q)' = Filling(q) \ {t}
        /\ t \in Filling(q) <=> q = QueueOf(thr[t].op)
    BY <1>5 DEF Filling
  <2>2. /\ \A u \in Filling(q) : thrcosts[u] \in Nat
        /\ \A u \in Filling(q) \ {t} : thrcosts'[u] = thrcosts[u]
        /\ thrcosts[t] = Cost(thr[t].op)
    BY <2>1, CostFacts DEF thrcosts, Filling
  <2>3. IsFiniteSet(Filling(q)) /\ IsFiniteSet(Filling(q) \ {t})
    BY FS_Subset DEF FewFill
  <2>4. Sum(thrcosts', Filling(q) \ {t}) = Sum(thrcosts, Filling(q) \ {t})
    BY <2>2, <2>3, SumSame
  <2>5. CASE t \in Filling(q)
    <3>1. Sum(thrcosts, Filling(q)) = Sum(thrcosts, Filling(q) \ {t}) + thrcosts[t]
      BY <2>2, <2>3, <2>5, SumRemove
    <3>. QED
      BY <1>3, <2>1, <2>2, <2>4, <2>5, <3>1
  <2>6. CASE t \notin Filling(q)
    <3>1. Filling(q) \ {t} = Filling(q) /\ q # QueueOf(thr[t].op)
      BY <2>1, <2>6
    <3>2. Reserved(q) = Reserved(q)'
      BY <1>3, <2>1, <2>4, <3>1
    <3>. QED
      BY <1>3, <3>1, <3>2
  <2>. QED
    BY <2>5, <2>6
<1>. QED
  BY <1>2, <1>3, <1>4, <1>5

-----------------------------------------------------------------------------
(* Every step, as far as the room is concerned                             *)

\* Nothing is posted and no thread begins to fill.
Lightens ==
    /\ FewFill'
    /\ \A q \in Queues : Load(q)' <= Load(q) /\ Reserved(q)' <= Reserved(q)

\* A thread begins: what it will post is reserved.
Starts(t, op) ==
    /\ MayBegin(t, op) /\ op \in Ops
    /\ FewFill'
    /\ \A q \in Queues :
          /\ Load(q)' = Load(q)
          /\ Reserved(q)' = Reserved(q) + IF q = QueueOf(op) THEN Cost(op) ELSE 0

\* It posts: what was reserved is used.
Posts(op) ==
    /\ HasRoom(QueueOf(op), op) /\ op \in Ops
    /\ FewFill'
    /\ \A q \in Queues :
          LET n == IF q = QueueOf(op) THEN Cost(op) ELSE 0
          IN  Load(q)' = Load(q) + n /\ Reserved(q) = Reserved(q)' + n

\* Loads and reservations are numbers.
LEMMA RoomTypes == Typed /\ FewFill => \A q \in Queues : Load(q) \in Nat /\ Reserved(q) \in Nat
<1> SUFFICES ASSUME Typed, FewFill, NEW q \in Queues PROVE Load(q) \in Nat /\ Reserved(q) \in Nat
  OBVIOUS
<1>1. Load(q) = Sum(costs, Posted(q)) /\ IsFiniteSet(Posted(q)) /\ Posted(q) \subseteq Bufs
  BY LoadIs, PostedFinite, PostedIs
<1>2. \A b \in Posted(q) : costs[b] \in Nat
  BY <1>1, CostFacts DEF costs
<1>3. IsFiniteSet(Filling(q)) /\ Reserved(q) = Sum(thrcosts, Filling(q))
  BY ReservedIs DEF FewFill
<1>4. \A t \in Filling(q) : thrcosts[t] \in Nat
  BY CostFacts DEF thrcosts, Filling
<1>. QED
  BY <1>1, <1>2, <1>3, <1>4, SumType

\* A step that posts nothing and has no thread begin or stop filling.
LEMMA Lighter ==
    ASSUME OwnerInv, OwnerInv', FewFill, SameOps,
           \/ Kept
           \/ \E b \in Bufs : Dropped(b)
           \/ \E b \in Bufs, k \in Kinds \ {"queue"}, x \in Hands : Handed(b, k, x),
           \A t \in Threads : thr[t].pc = "filled" \/ thr'[t].pc = "filled" =>
              thr'[t].pc = thr[t].pc /\ thr'[t].op = thr[t].op
    PROVE  Lightens
<1>1. FewFill' /\ \A q \in Queues : Reserved(q)' = Reserved(q)
  BY ReservedKept
<1>2. \A q \in Queues : Load(q)' <= Load(q)
  BY LoadShrinks DEF OwnerInv
<1>3. \A q \in Queues : Reserved(q) \in Nat
  BY RoomTypes DEF OwnerInv
<1>. QED
  BY <1>1, <1>2, <1>3 DEF Lightens

\* The steps of the device, of the interrupt, of the DPC and of the worker, and those
\* of a thread after it has posted.
LEMMA OthersLighten ==
    ASSUME OwnerInv, OwnerInv', FlagsTyped, FewFill,
           \/ \E t \in Threads : Kick(t) \/ TransferDone(t)
           \/ \E t \in Threads, op \in Ops : GetBufNull(t, op)
           \/ Worker /\ SettlesFirst
           \/ Interrupt
           \/ \E c \in Cpus : Dpc(c)
           \/ \E q \in Queues : DevTake(q) \/ DevServe(q)
           \/ DevChange
           \/ UNCHANGED vars
    PROVE  Lightens
<1> DEFINE Still == \A t \in Threads : thr[t].pc = "filled" \/ thr'[t].pc = "filled" =>
                       thr'[t].pc = thr[t].pc /\ thr'[t].op = thr[t].op
           Moves == \/ Kept
                    \/ \E b \in Bufs : Dropped(b)
                    \/ \E b \in Bufs, k \in Kinds \ {"queue"}, x \in Hands : Handed(b, k, x)
<1> USE DEF drivervars, qvars, dpcvars, configvars
<1>1. UNCHANGED vbuf => SameOps
  BY DEF SameOps
<1>2. UNCHANGED thr => Still
  OBVIOUS
<1>3. /\ Pool \subseteq Bufs /\ BigBufs \subseteq Bufs /\ NULL \in Hands /\ "worker" \in Hands
      /\ Cpus \subseteq Hands
      /\ {"pool", "dpc", "woken"} \subseteq Kinds \ {"queue"}
      /\ thr \in [Threads -> ThreadType] /\ "worker" \in Threads
  BY Names DEF Kinds, OwnerInv, Typed
<1>4. ASSUME NEW t \in Threads, Kick(t) \/ TransferDone(t)
      PROVE  SameOps /\ Still /\ Moves
  <2>1. UNCHANGED vbuf
    BY <1>4 DEF Kick, TransferDone
  <2>2. PICK w \in [pc : {"wait", "idle"}, op : Ops \cup {"none"}, buf : Bufs \cup {NULL}] :
           thr' = [thr EXCEPT ![t] = w]
    <3>1. CASE Kick(t)
      <4>1. /\ [pc |-> "wait", op |-> thr[t].op, buf |-> thr[t].buf]
                 \in [pc : {"wait", "idle"}, op : Ops \cup {"none"}, buf : Bufs \cup {NULL}]
            /\ [pc |-> "wait", op |-> thr[t].op, buf |-> NULL]
                 \in [pc : {"wait", "idle"}, op : Ops \cup {"none"}, buf : Bufs \cup {NULL}]
            /\ [pc |-> "idle", op |-> "none", buf |-> NULL]
                 \in [pc : {"wait", "idle"}, op : Ops \cup {"none"}, buf : Bufs \cup {NULL}]
        BY <1>3 DEF ThreadType
      <4>. QED
        BY <3>1, <4>1 DEF Kick
    <3>2. CASE TransferDone(t)
      BY <3>2 DEF TransferDone
    <3>. QED
      BY <1>4, <3>1, <3>2
  <2>3. thr[t].pc # "filled" /\ thr'[t].pc # "filled" /\ \A u \in Threads : u # t => thr'[u] = thr[u]
    BY <1>3, <1>4, <2>2 DEF Kick, TransferDone
  <2>. QED
    BY <1>1, <1>4, <2>1, <2>3, KickOwner, TransferDoneOwner
<1>5. ASSUME NEW t \in Threads, NEW op \in Ops, GetBufNull(t, op)
      PROVE  SameOps /\ Still /\ Moves
  BY <1>1, <1>2, <1>5, FlagsQuiet DEF GetBufNull
<1>6. ASSUME Worker, SettlesFirst
      PROVE  SameOps /\ Still /\ Moves
  <2>1. UNCHANGED vbuf
    BY <1>6 DEF Worker, WorkerWake, GetDisplayInfo, ClearEvents
  <2>2. Still
    <3>1. /\ thr["worker"].pc # "filled" /\ thr'["worker"].pc # "filled"
          /\ \A t \in Threads : t # "worker" => thr'[t] = thr[t]
      <4>1. CASE WorkerWake
        BY <1>3, <4>1 DEF WorkerWake, ThreadType
      <4>2. CASE GetDisplayInfo
        BY <1>3, <4>2 DEF GetDisplayInfo
      <4>3. CASE ClearEvents
        BY <1>3, <4>3 DEF ClearEvents, ThreadType
      <4>. QED
        BY <1>6, <4>1, <4>2, <4>3 DEF Worker
    <3>. QED
      BY <3>1
  <2>3. WorkerWake \/ ClearEvents => Moves
    BY WorkerOwner
  <2>4. GetDisplayInfo => Moves
    BY <1>3, <1>6, GetDisplayInfoOwner
  <2>. QED
    BY <1>1, <1>6, <2>1, <2>2, <2>3, <2>4 DEF Worker
<1>7. Interrupt => SameOps /\ Still /\ Moves
  BY <1>1, <1>2, FlagsQuiet
     DEF Interrupt, InterruptQueue, InterruptChange, InterruptUnknown, RaiseDpc
<1>8. ASSUME NEW c \in Cpus, Dpc(c)
      PROVE  SameOps /\ Still /\ Moves
  <2>1. UNCHANGED thr
    BY <1>8 DEF Dpc, DpcStart, DpcExchange, DpcCollect, DpcSettle, DpcCtrlEmpty, DpcCursor, DpcChange
  <2>2. CASE DpcStart(c) \/ DpcExchange(c) \/ DpcCtrlEmpty(c) \/ DpcChange(c)
    <3>1. UNCHANGED vbuf
      BY <2>2 DEF DpcStart, DpcExchange, DpcCtrlEmpty, DpcChange
    <3>. QED
      BY <1>1, <1>2, <2>1, <2>2, <3>1, DpcQuiet
  <2>3. CASE DpcCollect(c)
    <3>1. UNCHANGED vbuf
      BY <2>3 DEF DpcCollect
    <3>. QED
      BY <1>1, <1>2, <1>3, <2>1, <2>3, <3>1, DpcCollectOwner
  <2>4. CASE DpcCursor(c)
    <3>1. UNCHANGED vbuf
      BY <2>4 DEF DpcCursor
    <3>. QED
      BY <1>1, <1>2, <1>3, <2>1, <2>4, <3>1, DpcCursorOwner
  <2>5. CASE DpcSettle(c)
    <3>1. Moves
      BY <1>3, <2>5, DpcSettleOwner
    <3>2. \A b \in Bufs : b # dpc[c].buf \/ vbuf[b].op = "display" => vbuf'[b] = vbuf[b]
      BY <2>5 DEF DpcSettle, ReleaseCmdBuffer, OwnerInv, Typed
    <3>3. ASSUME NEW q \in Queues, NEW b \in Posted(q), vbuf[b].op # "display"
          PROVE  b # dpc[c].buf
      <4>1. b \in Bufs /\ q \in Hands /\ c \in Hands /\ "queue" \in Kinds /\ "dpc" \in Kinds
        BY <1>3, PostedIs, Names DEF OwnerInv, Kinds
      <4>2. At(b, "queue", q)
        BY DEF At
      <4>3. b = dpc[c].buf => At(b, "dpc", c)
        BY <3>3 DEF At
      <4>. QED
        BY <4>1, <4>2, <4>3 DEF OwnerInv, Apart
    <3>4. \A q \in Queues : Posted(q)' = Posted(q) /\ Posted(q) \subseteq Bufs
      BY <2>5, PostedIs DEF DpcSettle, Posted, OwnerInv
    <3>5. SameOps
      BY <3>2, <3>3, <3>4 DEF SameOps
    <3>. QED
      BY <1>2, <2>1, <3>1, <3>5
  <2>. QED
    BY <1>8, <2>2, <2>3, <2>4, <2>5 DEF Dpc
<1>9. ASSUME NEW q \in Queues, DevTake(q) \/ DevServe(q)
      PROVE  SameOps /\ Still /\ Moves
  <2>1. CASE DevTake(q)
    BY <1>1, <1>2, <2>1, DevTakeOwner DEF DevTake
  <2>2. ASSUME NEW i, DevComplete(q, i)
        PROVE  SameOps /\ Still /\ Moves
    <3>1. Still
      BY <2>2 DEF DevComplete
    <3>2. Moves
      BY <2>2, DevCompleteOwner
    <3>3. \A b \in Bufs : vbuf'[b].op = vbuf[b].op
      <4>1. PICK b : vbuf' = vbuf \/ vbuf' = [vbuf EXCEPT ![b] = [vbuf[b] EXCEPT !.reply = display]]
        BY <2>2 DEF DevComplete
      <4>2. vbuf \in [Bufs -> BufType]
        BY DEF OwnerInv, Typed
      <4>. QED
        BY <4>1, <4>2 DEF BufType
    <3>4. \A r \in Queues : Posted(r) \cup Posted(r)' \subseteq Bufs
      BY PostedIs, LoadsNext DEF OwnerInv
    <3>. QED
      BY <3>1, <3>2, <3>3, <3>4 DEF SameOps
  <2>. QED
    BY <1>9, <2>1, <2>2 DEF DevServe
<1>10. DevChange => SameOps /\ Still /\ Moves
  BY <1>1, <1>2, FlagsQuiet DEF DevChange
<1>11. UNCHANGED vars => SameOps /\ Still /\ Moves
  BY <1>1, <1>2, StutterOwner DEF vars
<1>12. SameOps /\ Still /\ Moves
  BY <1>4, <1>5, <1>6, <1>7, <1>8, <1>9, <1>10, <1>11
<1> HIDE DEF Still, Moves
<1>13. Still /\ Moves
  BY <1>12
<1>. QED
  BY <1>12, <1>13, Lighter DEF Still, Moves

\* A thread allocates: large commands and small.
LEMMA AllocateStarts ==
    ASSUME OwnerInv, OwnerInv', FewFill, NEW t \in Threads, NEW op \in Ops,
           GetBuf(t, op) \/ (op = "submit" /\ \E b \in BigBufs : t \in Clients /\ CreateCmdBuffer(t, b))
    PROVE  Starts(t, op)
<1>1. PICK b \in Bufs :
         /\ MayBegin(t, op) /\ Begin(t, op, b) /\ vbuf' = [vbuf EXCEPT ![b] = Fresh(op, t)]
         /\ \A q \in Queues : b \notin Posted(q)
  <2>1. CASE GetBuf(t, op)
    <3>1. Head(free) \in Pool /\ At(Head(free), "pool", NULL)
      BY <2>1, GetBufOwner
    <3>2. \A q \in Queues : Head(free) \notin Posted(q)
      <4>1. "pool" \in Kinds /\ "queue" \in Kinds /\ NULL \in Hands /\ Queues \subseteq Hands
        BY Names DEF Kinds
      <4>2. \A q \in Queues : Head(free) \in Posted(q) => At(Head(free), "queue", q)
        BY DEF At
      <4>3. Head(free) \in Bufs
        BY <3>1, Names
      <4>. QED
        BY <3>1, <4>1, <4>2, <4>3 DEF OwnerInv, Apart
    <3>. QED
      BY <2>1, <3>1, <3>2, Names DEF GetBuf
  <2>2. ASSUME op = "submit", NEW b \in BigBufs, t \in Clients, CreateCmdBuffer(t, b)
        PROVE  /\ b \in Bufs
               /\ MayBegin(t, op) /\ Begin(t, op, b) /\ vbuf' = [vbuf EXCEPT ![b] = Fresh(op, t)]
               /\ \A q \in Queues : b \notin Posted(q)
    <3>1. vbuf[b].op = "none"
      BY <2>2 DEF CreateCmdBuffer
    <3>2. \A q \in Queues : b \notin Posted(q)
      BY <3>1, OpFacts DEF OwnerInv, PostInv
    <3>. QED
      BY <2>2, <3>2, Names DEF CreateCmdBuffer
  <2>. QED
    BY <2>1, <2>2
<1>2. UNCHANGED queue /\ thr' = [thr EXCEPT ![t] = [pc |-> "filled", op |-> op, buf |-> b]]
  BY <1>1 DEF Begin, qvars
<1>3. \A q \in Queues : Posted(q)' = Posted(q) /\ Posted(q) \subseteq Bufs
  BY <1>2, PostedIs DEF Posted, OwnerInv
<1>4. SameOps
  <2>1. \A c \in Bufs : c # b => vbuf'[c] = vbuf[c]
    BY <1>1 DEF OwnerInv, Typed
  <2>. QED
    BY <1>1, <1>3, <2>1 DEF SameOps
<1>5. \A q \in Queues : Load(q)' = Load(q)
  BY <1>3, <1>4, LoadNext DEF OwnerInv
<1>6. /\ thr'[t].pc = "filled" /\ thr'[t].op = op
      /\ \A u \in Threads : u # t => thr'[u] = thr[u]
  BY <1>2 DEF OwnerInv, Typed
<1>7. thr[t].pc # "filled"
  BY <1>1 DEF MayBegin
<1>8. /\ FewFill'
      /\ \A q \in Queues : Reserved(q)' =
            Reserved(q) + IF q = QueueOf(thr'[t].op) THEN Cost(thr'[t].op) ELSE 0
  BY <1>6, <1>7, ReservedNext
<1>. QED
  BY <1>1, <1>5, <1>6, <1>8 DEF Starts

\* A thread posts what it filled in, or drops it because there is no room.
LEMMA QueueBufferPosts ==
    ASSUME OwnerInv, OwnerInv', FewFill, NEW t \in Threads, QueueBuffer(t)
    PROVE  /\ thr[t].op \in Ops /\ Cost(thr[t].op) <= Reserved(QueueOf(thr[t].op))
           /\ IF HasRoom(QueueOf(thr[t].op), thr[t].op) THEN Posts(thr[t].op) ELSE Lightens
<1>1. thr[t].pc = "filled" /\ UNCHANGED vbuf
  BY DEF QueueBuffer
<1>2. PICK op \in Ops : op = thr[t].op
  BY <1>1 DEF OwnerInv, ThreadInv
<1>3. PICK q \in Queues : q = QueueOf(op)
  BY OpFacts
<1>4. PICK b \in Bufs : b = thr[t].buf /\ \A r \in Queues : b \notin Posted(r)
  BY <1>1, FillerHas
<1>5. vbuf[b].op = op
  BY <1>1, <1>2, <1>4 DEF OwnerInv, ThreadInv
<1>6. SameOps
  BY <1>1 DEF SameOps
<1>7. /\ thr'[t].pc = "kick"
      /\ \A u \in Threads : u # t => thr'[u] = thr[u]
  BY DEF QueueBuffer, OwnerInv, Typed, ThreadType
<1>8. /\ FewFill'
      /\ \A r \in Queues : Reserved(r) = Reserved(r)' + IF r = q THEN Cost(op) ELSE 0
      /\ \A r \in Queues : Reserved(r) \in Nat /\ Reserved(r)' \in Nat
  <2>1. thr[t].pc = "filled" /\ thr'[t].pc # "filled"
    BY <1>1, <1>7
  <2>2. \A u \in Threads : u # t => thr'[u].pc = thr[u].pc /\ thr'[u].op = thr[u].op
    BY <1>7
  <2>. QED
    BY <1>2, <1>3, <2>1, <2>2, ReservedNext
<1>9. Cost(op) \in Nat /\ Cost(op) <= Reserved(q)
  <2>1. Cost(op) \in Nat
    BY CostFacts
  <2>2. Reserved(q) = Reserved(q)' + Cost(op)
    BY <1>8
  <2>. QED
    BY <1>8, <2>1, <2>2
<1>10. CASE HasRoom(q, op)
  <2>1. Handed(b, "queue", q)
    BY <1>2, <1>3, <1>4, <1>10, QueueBufferOwner
  <2>2. "queue" \in Kinds /\ q \in Hands
    BY Names DEF Kinds
  <2>3. ASSUME NEW r \in Queues
        PROVE  Load(r)' = Load(r) + IF r = q THEN Cost(op) ELSE 0
    <3>1. Posted(r)' = IF r = q THEN Posted(r) \cup {b} ELSE Posted(r) \ {b}
      BY <2>1, <2>2, PostedNext DEF OwnerInv
    <3>2. CASE r = q
      BY <1>4, <1>5, <1>6, <3>1, <3>2, LoadNext DEF OwnerInv
    <3>3. CASE r # q
      <4>1. Posted(r)' = Posted(r)
        BY <1>4, <3>1, <3>3
      <4>. QED
        BY <1>6, <3>3, <4>1, LoadNext DEF OwnerInv
    <3>. QED
      BY <3>2, <3>3
  <2>4. Posts(op)
    BY <1>3, <1>8, <1>10, <2>3 DEF Posts
  <2>. QED
    BY <1>2, <1>3, <1>9, <1>10, <2>4
<1>11. CASE ~HasRoom(q, op)
  <2>1. Dropped(b)
    BY <1>2, <1>3, <1>4, <1>11, QueueBufferOwner
  <2>2. \A r \in Queues : Load(r)' <= Load(r)
    BY <1>6, <2>1, LoadShrinks DEF OwnerInv
  <2>3. \A r \in Queues : Reserved(r)' <= Reserved(r)
    BY <1>8, <1>9
  <2>4. Lightens
    BY <1>8, <2>2, <2>3 DEF Lightens
  <2>. QED
    BY <1>2, <1>3, <1>9, <1>11, <2>4
<1>. QED
  BY <1>10, <1>11

\* A thread gives up.
LEMMA TooBigLightens ==
    ASSUME OwnerInv, OwnerInv', FewFill, NEW t \in Threads, QueueBufferTooBig(t)
    PROVE  Lightens
<1>1. thr[t].pc = "filled" /\ UNCHANGED <<vbuf, queue>>
  BY DEF QueueBufferTooBig, qvars
<1>2. SameOps /\ \A q \in Queues : Posted(q)' = Posted(q)
  BY <1>1 DEF SameOps, Posted
<1>3. \A q \in Queues : Load(q)' = Load(q) /\ Load(q) \in Nat
  BY <1>2, LoadNext DEF OwnerInv
<1>4. /\ thr'[t].pc # "filled"
      /\ \A u \in Threads : u # t => thr'[u] = thr[u]
  BY DEF QueueBufferTooBig, OwnerInv, Typed
<1>5. /\ FewFill'
      /\ \A q \in Queues : Reserved(q) =
            Reserved(q)' + IF q = QueueOf(thr[t].op) THEN Cost(thr[t].op) ELSE 0
      /\ \A q \in Queues : Reserved(q) \in Nat /\ Reserved(q)' \in Nat
  <2>1. \A u \in Threads : u # t => thr'[u].pc = thr[u].pc /\ thr'[u].op = thr[u].op
    BY <1>4
  <2>. QED
    BY <1>1, <1>4, <2>1, ReservedNext
<1>6. Cost(thr[t].op) \in Nat
  BY CostFacts
<1>7. \A q \in Queues : Reserved(q)' <= Reserved(q)
  BY <1>5, <1>6
<1>. QED
  BY <1>3, <1>5, <1>7 DEF Lightens

\* All steps together.
LEMMA NextLoads ==
    ASSUME OwnerInv, OwnerInv', FlagsTyped, FewFill, [Next]_vars, [SettlesFirst]_vars
    PROVE  \/ Lightens
           \/ \E t \in Threads, op \in Ops : Starts(t, op)
           \/ \E op \in Ops : Posts(op)
<1>1. ASSUME NEW t \in Threads, NEW op \in Ops, GetBuf(t, op)
      PROVE  Starts(t, op)
  BY <1>1, AllocateStarts
<1>2. ASSUME NEW t \in Clients, NEW b \in BigBufs, CreateCmdBuffer(t, b)
      PROVE  t \in Threads /\ "submit" \in Ops /\ Starts(t, "submit")
  <2>1. t \in Threads /\ "submit" \in Ops
    BY Names DEF Ops
  <2>. QED
    BY <1>2, <2>1, AllocateStarts
<1>3. ASSUME NEW t \in Threads, QueueBuffer(t)
      PROVE  Lightens \/ \E op \in Ops : Posts(op)
  BY <1>3, QueueBufferPosts
<1>4. ASSUME NEW t \in Threads, QueueBufferTooBig(t)
      PROVE  Lightens
  BY <1>4, TooBigLightens
<1>5. CASE \/ \E t \in Threads : Kick(t) \/ TransferDone(t)
           \/ \E t \in Threads, op \in Ops : GetBufNull(t, op)
           \/ Interrupt
           \/ \E c \in Cpus : Dpc(c)
           \/ \E q \in Queues : DevTake(q) \/ DevServe(q)
           \/ DevChange
           \/ UNCHANGED vars
  BY <1>5, OthersLighten
<1>6. CASE Worker
  <2>1. CASE UNCHANGED vars
    BY <2>1, OthersLighten
  <2>2. CASE SettlesFirst
    BY <1>6, <2>2, OthersLighten
  <2>. QED
    BY <2>1, <2>2
<1>. QED
  BY <1>1, <1>2, <1>3, <1>4, <1>5, <1>6 DEF Next, Allocate, Go

-----------------------------------------------------------------------------
(* The types of everything                                                 *)

\* A queue never takes more descriptors than it has.
LoadInv == \A q \in Queues : Load(q) <= Num(q)

\* What TypeOK is proved from.
IInv == OwnerInv /\ FlagsTyped /\ FewFill /\ LoadInv

\* At the start nothing is posted and nothing reserved.
LEMMA InitLoads == Init => FewFill /\ \A q \in Queues : Load(q) = 0 /\ Reserved(q) = 0
<1> SUFFICES ASSUME Init PROVE FewFill /\ \A q \in Queues : Load(q) = 0 /\ Reserved(q) = 0
  OBVIOUS
<1>1. Typed
  BY InitOwner DEF OwnerInv
<1>2. ASSUME NEW q \in Queues
      PROVE  Posted(q) = {} /\ Filling(q) = {}
  <2>1. queue[q].avail = <<>> /\ queue[q].held = <<>> /\ queue[q].used = <<>>
    BY DEF Init
  <2>2. \A t \in Threads : thr[t].pc = "idle"
    BY DEF Init
  <2>. QED
    BY <2>1, <2>2 DEF Posted, Range, Filling
<1>3. FewFill
  BY <1>2, FS_EmptySet DEF FewFill
<1>4. ASSUME NEW q \in Queues
      PROVE  Load(q) = 0 /\ Reserved(q) = 0
  <2>1. Load(q) = Sum(costs, {}) /\ Reserved(q) = Sum(thrcosts, {})
    BY <1>1, <1>2, FS_EmptySet, LoadIs, ReservedIs
  <2>. QED
    BY <2>1, SumEmpty
<1>. QED
  BY <1>3, <1>4

\* Loads and reservations stay numbers.
LEMMA RoomTypesNext ==
    Typed' /\ FewFill' => \A q \in Queues : Load(q)' \in Nat /\ Reserved(q)' \in Nat
<1>1. (Typed /\ FewFill => \A q \in Queues : Load(q) \in Nat /\ Reserved(q) \in Nat)'
  BY RoomTypes, PTL
<1>. QED
  BY <1>1

\* Only a command that has room is added to a queue.
LEMMA NextTyped == IInv /\ [Next]_vars /\ [SettlesFirst]_vars => IInv'
<1> SUFFICES ASSUME IInv, [Next]_vars, [SettlesFirst]_vars PROVE IInv'
  OBVIOUS
<1> USE DEF IInv
<1>1. OwnerInv' /\ FlagsTyped'
  BY NextOwner, NextFlags
<1>2. \/ Lightens
      \/ \E t \in Threads, op \in Ops : Starts(t, op)
      \/ \E op \in Ops : Posts(op)
  BY <1>1, NextLoads
<1>3. FewFill'
  BY <1>2 DEF Lightens, Starts, Posts
<1>4. ASSUME NEW q \in Queues
      PROVE  Load(q)' <= Num(q)
  <2>1. Load(q) \in Nat /\ Load(q)' \in Nat /\ Num(q) \in Nat /\ Load(q) <= Num(q)
    BY <1>1, <1>3, RoomTypes, RoomTypesNext, CostFacts DEF OwnerInv, LoadInv
  <2>2. CASE Lightens
    BY <2>1, <2>2 DEF Lightens
  <2>3. ASSUME NEW t \in Threads, NEW op \in Ops, Starts(t, op)
        PROVE  Load(q)' <= Num(q)
    BY <2>1, <2>3 DEF Starts
  <2>4. ASSUME NEW op \in Ops, Posts(op)
        PROVE  Load(q)' <= Num(q)
    <3>1. CASE q = QueueOf(op)
      <4>1. Load(q)' = Load(q) + Cost(op) /\ HasRoom(q, op)
        BY <2>4, <3>1 DEF Posts
      <4>. QED
        BY <4>1 DEF HasRoom
    <3>2. CASE q # QueueOf(op)
      <4>1. Load(q)' = Load(q) + 0
        BY <2>4, <3>2 DEF Posts
      <4>. QED
        BY <2>1, <4>1
    <3>. QED
      BY <3>1, <3>2
  <2>. QED
    BY <1>2, <2>2, <2>3, <2>4
<1>5. LoadInv'
  <2>1. \A q \in Queues : Num(q)' = Num(q)
    BY DEF Num
  <2>. QED
    BY <1>4, <2>1 DEF LoadInv
<1>. QED
  BY <1>1, <1>3, <1>5

\* Nothing is posted at the start.
LEMMA InitTyped == Init => IInv
<1> SUFFICES ASSUME Init PROVE IInv
  OBVIOUS
<1>1. LoadInv
  BY InitLoads, CostFacts DEF LoadInv
<1>. QED
  BY <1>1, InitOwner, InitLoads DEF IInv

\* Every variable has its type, and no virtqueue ever holds more descriptors than its ring
\* has: AddBuf refuses what does not fit, and the pool never grows beyond its buffers.
THEOREM TypeCorrect == Spec /\ [][SettlesFirst]_vars => []TypeOK
<1>1. IInv => TypeOK
  <2> SUFFICES ASSUME IInv PROVE TypeOK
    OBVIOUS
  <2> USE DEF IInv, OwnerInv
  <2>1. Len(free) <= Cardinality(Pool) /\ Range(free) \subseteq Pool
    <3>1. free \in Seq(Pool) /\ IsInjective(free)
      BY DEF Typed
    <3>2. free \in Injection(1 .. Len(free), Pool)
      <4>1. free \in [1 .. Len(free) -> Pool]
        BY <3>1
      <4>. QED
        BY <3>1, <4>1, RangeIs DEF Injection
    <3>3. Cardinality(1 .. Len(free)) <= Cardinality(Pool)
      BY <3>2, RingAssumption, FS_Injection
    <3>4. Cardinality(1 .. Len(free)) = Len(free)
      <4>1. Len(free) \in Nat
        BY <3>1
      <4>. QED
        BY <4>1, FS_Interval, SMTT(60)
    <3>. QED
      BY <3>1, <3>3, <3>4, RangeIs
  <2>2. Range(list3d) \subseteq BigBufs
    BY RangeIs DEF Typed
  <2>3. ASSUME NEW q \in Queues
        PROVE  /\ Range(queue[q].avail) \cup Range(queue[q].held) \cup Range(queue[q].used)
                    \subseteq Bufs
               /\ Load(q) <= Num(q)
    BY PostedIs DEF LoadInv, Posted
  <2>. QED
    BY <2>1, <2>2, <2>3 DEF TypeOK, Typed, FlagsTyped, BufType, ThreadType, DpcType
<1>. QED
  BY <1>1, InitTyped, NextTyped, PTL DEF Spec

-----------------------------------------------------------------------------
(* While the device keeps up                                               *)

\* There is room for all that was promised, and every buffer of the pool is somewhere.
RoomInv == \A q \in Queues : Load(q) + Reserved(q) <= Num(q)
Placed == \A b \in Pool : \E k \in Kinds, x \in Hands : At(b, k, x)

\* No step takes more room than was free when its thread began.
LEMMA NextRoom ==
    ASSUME KeepsUp, IInv, IInv', RoomInv, [Next]_vars, [SettlesFirst]_vars
    PROVE  RoomInv'
<1> USE DEF IInv
<1>1. \/ Lightens
      \/ \E t \in Threads, op \in Ops : Starts(t, op)
      \/ \E op \in Ops : Posts(op)
  BY NextLoads
<1>2. ASSUME NEW q \in Queues
      PROVE  Load(q)' + Reserved(q)' <= Num(q)
  <2>1. /\ Load(q) \in Nat /\ Load(q)' \in Nat /\ Reserved(q) \in Nat /\ Reserved(q)' \in Nat
        /\ Num(q) \in Nat /\ Load(q) + Reserved(q) <= Num(q)
    BY RoomTypes, RoomTypesNext, CostFacts DEF OwnerInv, RoomInv
  <2>2. CASE Lightens
    <3>1. Load(q)' <= Load(q) /\ Reserved(q)' <= Reserved(q)
      BY <2>2 DEF Lightens
    <3>. QED
      BY <2>1, <3>1
  <2>3. ASSUME NEW t \in Threads, NEW op \in Ops, Starts(t, op)
        PROVE  Load(q)' + Reserved(q)' <= Num(q)
    <3>1. CASE q = QueueOf(op)
      <4>1. Load(q) + Reserved(q) + Cost(op) <= Num(q)
        BY <2>3, <3>1 DEF Starts, MayBegin
      <4>2. Load(q)' = Load(q) /\ Reserved(q)' = Reserved(q) + Cost(op)
        BY <2>3, <3>1 DEF Starts
      <4>3. Cost(op) \in Nat
        BY CostFacts
      <4>. QED
        BY <2>1, <4>1, <4>2, <4>3
    <3>2. CASE q # QueueOf(op)
      <4>1. Load(q)' = Load(q) /\ Reserved(q)' = Reserved(q) + 0
        BY <2>3, <3>2 DEF Starts
      <4>. QED
        BY <2>1, <4>1
    <3>. QED
      BY <3>1, <3>2
  <2>4. ASSUME NEW op \in Ops, Posts(op)
        PROVE  Load(q)' + Reserved(q)' <= Num(q)
    <3>1. PICK n : n = IF q = QueueOf(op) THEN Cost(op) ELSE 0
      OBVIOUS
    <3>2. n \in Nat
      BY <3>1, CostFacts
    <3>3. Load(q)' = Load(q) + n /\ Reserved(q) = Reserved(q)' + n
      BY <2>4, <3>1 DEF Posts
    <3>. QED
      BY <2>1, <3>2, <3>3
  <2>. QED
    BY <1>1, <2>2, <2>3, <2>4
<1>3. \A q \in Queues : Num(q)' = Num(q)
  BY DEF Num
<1>. QED
  BY <1>2, <1>3 DEF RoomInv

\* What was promised is enough for what is posted.
LEMMA RoomToPost ==
    ASSUME IInv, IInv', RoomInv, NEW t \in Threads, QueueBuffer(t)
    PROVE  HasRoom(QueueOf(thr[t].op), thr[t].op)
<1> USE DEF IInv
<1>1. PICK op \in Ops : op = thr[t].op /\ Cost(op) <= Reserved(QueueOf(op))
  BY QueueBufferPosts
<1>2. PICK q \in Queues : q = QueueOf(op)
  BY OpFacts
<1>3. /\ Load(q) \in Nat /\ Reserved(q) \in Nat /\ Num(q) \in Nat /\ Cost(op) \in Nat
      /\ Load(q) + Reserved(q) <= Num(q)
  BY RoomTypes, CostFacts DEF RoomInv, OwnerInv
<1>. QED
  BY <1>1, <1>2, <1>3 DEF HasRoom

\* A buffer that is not dropped is somewhere.
LEMMA NextPlaced ==
    ASSUME IInv, IInv', RoomInv, Placed, [Next]_vars, [SettlesFirst]_vars
    PROVE  Placed'
<1> USE DEF IInv
<1>1. Pool \cap BigBufs = {} /\ Pool \subseteq Bufs /\ NULL \in Hands /\ "worker" \in Hands
      /\ Threads \subseteq Hands /\ Cpus \subseteq Hands /\ Queues \subseteq Hands
  BY Names
<1>2. Kept => Placed'
  BY <1>1 DEF Kept, Placed
<1>3. ASSUME NEW b \in BigBufs, Dropped(b)
      PROVE  Placed'
  BY <1>1, <1>3 DEF Dropped, Placed
<1>4. ASSUME NEW b \in Bufs, NEW k \in Kinds, NEW x \in Hands, Handed(b, k, x)
      PROVE  Placed'
  <2> SUFFICES ASSUME NEW c \in Pool PROVE \E j \in Kinds, y \in Hands : At(c, j, y)'
    BY DEF Placed
  <2>1. CASE c = b
    BY <1>1, <1>4, <2>1 DEF Handed
  <2>2. CASE c # b
    <3>1. PICK j \in Kinds, y \in Hands : At(c, j, y)
      BY DEF Placed
    <3>. QED
      BY <1>1, <1>4, <2>2, <3>1 DEF Handed
  <2>. QED
    BY <2>1, <2>2
<1>5. ASSUME NEW t \in Threads, QueueBuffer(t)
      PROVE  Placed'
  <2>1. HasRoom(QueueOf(thr[t].op), thr[t].op)
    BY <1>5, RoomToPost
  <2>2. Handed(thr[t].buf, "queue", QueueOf(thr[t].op))
    BY <1>5, <2>1, QueueBufferOwner
  <2>3. thr[t].buf \in Bufs /\ QueueOf(thr[t].op) \in Hands /\ "queue" \in Kinds
    <3>1. thr[t].pc = "filled"
      BY <1>5 DEF QueueBuffer
    <3>2. thr[t].op \in Ops
      BY <1>5, QueueBufferPosts
    <3>. QED
      BY <1>1, <3>1, <3>2, FillerHas, OpFacts DEF Kinds
  <2>. QED
    BY <1>4, <2>2, <2>3
<1>6. ASSUME NEW t \in Threads, QueueBufferTooBig(t)
      PROVE  Placed'
  BY <1>1, <1>4, <1>6, TooBigOwner DEF Kinds
<1>7. ASSUME NEW t \in Threads, NEW op \in Ops, GetBuf(t, op)
      PROVE  Placed'
  BY <1>1, <1>4, <1>7, GetBufOwner DEF Kinds
<1>8. ASSUME NEW t \in Clients, NEW b \in BigBufs, CreateCmdBuffer(t, b)
      PROVE  Placed'
  BY <1>1, <1>4, <1>8, CreateCmdBufferOwner DEF Kinds, Bufs, Threads
<1>9. ASSUME NEW t \in Threads, Kick(t) \/ TransferDone(t)
      PROVE  Placed'
  BY <1>2, <1>9, KickOwner, TransferDoneOwner
<1>10. ASSUME Worker
       PROVE  Placed'
  <2>1. WorkerWake \/ ClearEvents => Placed'
    BY <1>2, WorkerOwner
  <2>2. GetDisplayInfo /\ SettlesFirst => Placed'
    BY <1>1, <1>4, GetDisplayInfoOwner DEF Kinds
  <2>3. UNCHANGED vars => Placed'
    BY <1>2, StutterOwner
  <2>. QED
    BY <1>10, <2>1, <2>2, <2>3 DEF Worker
<1>11. Interrupt \/ DevChange => Placed'
  BY <1>2, FlagsQuiet DEF Interrupt
<1>12. ASSUME NEW t \in Threads, NEW op \in Ops, GetBufNull(t, op)
       PROVE  Placed'
  BY <1>2, <1>12, FlagsQuiet
<1>13. ASSUME NEW c \in Cpus, Dpc(c)
       PROVE  Placed'
  <2>1. DpcStart(c) \/ DpcExchange(c) \/ DpcCtrlEmpty(c) \/ DpcChange(c) => Placed'
    BY <1>2, DpcQuiet
  <2>2. DpcCollect(c) => Placed'
    BY <1>1, <1>4, DpcCollectOwner DEF Kinds
  <2>3. DpcSettle(c) => Placed'
    BY <1>1, <1>2, <1>3, <1>4, DpcSettleOwner DEF Kinds
  <2>4. DpcCursor(c) => Placed'
    BY <1>1, <1>2, <1>4, DpcCursorOwner DEF Kinds
  <2>. QED
    BY <1>13, <2>1, <2>2, <2>3, <2>4 DEF Dpc
<1>14. ASSUME NEW q \in Queues, DevTake(q) \/ DevServe(q)
       PROVE  Placed'
  BY <1>2, <1>14, DevTakeOwner, DevCompleteOwner DEF DevServe
<1>15. UNCHANGED vars => Placed'
  BY <1>2, StutterOwner
<1>. QED
  BY <1>5, <1>6, <1>7, <1>8, <1>9, <1>10, <1>11, <1>12, <1>13, <1>14, <1>15
     DEF Next, Allocate, Go

\* What NothingLost is proved from.
SteadyInv == IInv /\ RoomInv /\ Placed

\* At the start every buffer is in the pool.
LEMMA InitSteady == Init => SteadyInv
<1> SUFFICES ASSUME Init PROVE SteadyInv
  OBVIOUS
<1>1. RoomInv
  BY InitLoads, CostFacts DEF RoomInv
<1>2. Placed
  <2>1. Range(free) = Pool
    BY RingAssumption, SetToSeqFacts DEF Init
  <2>2. "pool" \in Kinds /\ NULL \in Hands
    BY Names DEF Kinds
  <2>3. \A b \in Pool : At(b, "pool", NULL)
    BY <2>1 DEF At
  <2>. QED
    BY <2>2, <2>3 DEF Placed
<1>. QED
  BY <1>1, <1>2, InitTyped DEF SteadyInv

\* Every step preserves both.
LEMMA NextSteady ==
    ASSUME KeepsUp
    PROVE  SteadyInv /\ [Next]_vars /\ [SettlesFirst]_vars => SteadyInv'
<1> SUFFICES ASSUME SteadyInv, [Next]_vars, [SettlesFirst]_vars PROVE SteadyInv'
  OBVIOUS
<1>1. IInv'
  BY NextTyped DEF SteadyInv
<1>. QED
  BY <1>1, NextRoom, NextPlaced DEF SteadyInv

\* While the device keeps up no buffer of the pool is lost, whether a command is posted,
\* given up because its backing store is too large, or waited for: each is in exactly one
\* hand (QueueBuffer drops a buffer only when its ring is full, which it then never is).
THEOREM NothingLostCorrect == KeepsUp => (Spec /\ [][SettlesFirst]_vars => []NothingLost)
<1> SUFFICES ASSUME KeepsUp PROVE Spec /\ [][SettlesFirst]_vars => []NothingLost
  OBVIOUS
<1>1. SteadyInv => NothingLost
  <2> SUFFICES ASSUME SteadyInv, NEW b \in Pool PROVE Places(b) = 1
    BY DEF NothingLost
  <2>1. b \in Bufs /\ \E k \in Kinds, x \in Hands : At(b, k, x)
    BY Names DEF SteadyInv, Placed
  <2>. QED
    BY <2>1, PlacesIs DEF SteadyInv, IInv
<1>2. SteadyInv /\ [Next]_vars /\ [SettlesFirst]_vars => SteadyInv'
  BY NextSteady
<1>. QED
  BY <1>1, <1>2, InitSteady, PTL DEF Spec

-----------------------------------------------------------------------------
(* The pool is never empty                                                 *)

\* A union has at most as many elements as its two sides.
LEMMA UnionCount ==
    ASSUME NEW S, IsFiniteSet(S), NEW T, IsFiniteSet(T)
    PROVE  /\ IsFiniteSet(S \cup T)
           /\ Cardinality(S \cup T) <= Cardinality(S) + Cardinality(T)
<1>1. /\ IsFiniteSet(S \cup T) /\ IsFiniteSet(S \cap T)
      /\ Cardinality(S \cup T) = Cardinality(S) + Cardinality(T) - Cardinality(S \cap T)
  BY FS_Union, FS_Subset
<1>2. /\ Cardinality(S) \in Nat /\ Cardinality(T) \in Nat /\ Cardinality(S \cap T) \in Nat
  BY <1>1, FS_CardinalityType
<1>. QED
  BY <1>1, <1>2

\* The buffers that the threads filling for q, and the DPCs, have.
FillBufs(q) == {thr[t].buf : t \in Filling(q)}
DpcBufs == {dpc[c].buf : c \in Cpus}

\* A set of buffers named by its holders is no larger than they are many.
LEMMA ImageCount ==
    ASSUME NEW S, IsFiniteSet(S), NEW f
    PROVE  LET T == {f[x].buf : x \in S}
           IN  IsFiniteSet(T) /\ Cardinality(T) <= Cardinality(S)
<1> DEFINE T == {f[x].buf : x \in S}
           g == [x \in S |-> f[x].buf]
<1>1. g \in Surjection(S, T)
  BY DEF Surjection
<1>. QED
  BY <1>1, FS_Surjection

\* Every command in a queue, or promised to it, takes its descriptors.
LEMMA RoomCounts ==
    ASSUME Typed, ThreadInv, PostInv, FewFill
    PROVE  /\ \A q \in Queues : /\ Cardinality(Posted(q)) + Cardinality(Filling(q))
                                      <= Load(q) + Reserved(q)
                                /\ Cardinality(Posted(q)) \in Nat
                                /\ Cardinality(Filling(q)) \in Nat
           /\ 2 * (Cardinality(Posted("ctrl")) + Cardinality(Filling("ctrl")))
                 <= Load("ctrl") + Reserved("ctrl")
<1>1. ASSUME NEW q \in Queues
      PROVE  /\ Load(q) = Sum(costs, Posted(q)) /\ Reserved(q) = Sum(thrcosts, Filling(q))
             /\ Load(q) \in Nat /\ Reserved(q) \in Nat
             /\ IsFiniteSet(Posted(q)) /\ IsFiniteSet(Filling(q))
             /\ Cardinality(Posted(q)) \in Nat /\ Cardinality(Filling(q)) \in Nat
  <2>1. IsFiniteSet(Posted(q)) /\ IsFiniteSet(Filling(q))
    BY PostedFinite DEF FewFill
  <2>. QED
    BY <2>1, LoadIs, ReservedIs, RoomTypes, FS_CardinalityType
<1>2. ASSUME NEW q \in Queues, NEW k \in Nat, \A op \in Ops : QueueOf(op) = q => Cost(op) >= k
      PROVE  /\ k * Cardinality(Posted(q)) <= Load(q)
             /\ k * Cardinality(Filling(q)) <= Reserved(q)
  <2>1. \A b \in Posted(q) : costs[b] \in Nat /\ costs[b] >= k
    BY <1>2, PostedIs, CostFacts DEF costs, PostInv
  <2>2. \A t \in Filling(q) : thrcosts[t] \in Nat /\ thrcosts[t] >= k
    BY <1>2, CostFacts DEF thrcosts, Filling, ThreadInv
  <2>. QED
    BY <1>1, <2>1, <2>2, SumAtLeast
<1>3. ASSUME NEW q \in Queues
      PROVE  Cardinality(Posted(q)) + Cardinality(Filling(q)) <= Load(q) + Reserved(q)
  <2>1. /\ 1 * Cardinality(Posted(q)) <= Load(q)
        /\ 1 * Cardinality(Filling(q)) <= Reserved(q)
    BY <1>2, CostFacts
  <2>. QED
    BY <1>1, <2>1
<1>4. 2 * (Cardinality(Posted("ctrl")) + Cardinality(Filling("ctrl")))
         <= Load("ctrl") + Reserved("ctrl")
  <2>1. /\ 2 * Cardinality(Posted("ctrl")) <= Load("ctrl")
        /\ 2 * Cardinality(Filling("ctrl")) <= Reserved("ctrl")
    BY <1>2, CostFacts, OpFacts
  <2>. QED
    BY <1>1, <2>1, OpFacts
<1>. QED
  BY <1>1, <1>3, <1>4

\* A thread that may begin finds a buffer: the queues cannot hold all of them, as the
\* commands of the control queue take two descriptors each, and the DPCs and the worker
\* have one each at most.
LEMMA PoolNotEmpty ==
    ASSUME KeepsUp, SteadyInv, IsFiniteSet(Cpus), 2 * Cardinality(Cpus) < CtrlNum,
           NEW t \in Threads, NEW op \in Ops, MayBegin(t, op)
    PROVE  free # <<>>
<1> USE DEF SteadyInv, IInv, OwnerInv
<1> SUFFICES ASSUME free = <<>> PROVE FALSE
  OBVIOUS
<1> DEFINE PC == Posted("ctrl")
           PR == Posted("crsr")
           FC == FillBufs("ctrl")
           FR == FillBufs("crsr")
           W == {thr["worker"].buf}
           All == ((PC \cup FC) \cup (PR \cup FR)) \cup (DpcBufs \cup W)
<1>1. Pool \subseteq All
  <2> SUFFICES ASSUME NEW b \in Pool PROVE b \in All
    OBVIOUS
  <2>1. PICK k \in Kinds, x \in Hands : At(b, k, x)
    BY DEF Placed
  <2>2. Range(free) = {}
    BY RangeIs DEF Typed
  <2>3. CASE k = "thread"
    <3>1. x \in Threads /\ thr[x].pc = "filled" /\ thr[x].buf = b
      BY <2>1, <2>3 DEF At
    <3>2. QueueOf(thr[x].op) \in Queues
      BY <3>1, OpFacts DEF ThreadInv
    <3>. QED
      BY <3>1, <3>2 DEF FillBufs, Filling, Queues
  <2>4. CASE k = "queue"
    BY <2>1, <2>4 DEF At, Queues
  <2>5. CASE k = "dpc"
    BY <2>1, <2>5 DEF At, DpcBufs
  <2>6. CASE k = "woken"
    BY <2>1, <2>6 DEF At
  <2>7. k # "pool"
    BY <2>1, <2>2 DEF At
  <2>. QED
    BY <2>3, <2>4, <2>5, <2>6, <2>7 DEF Kinds
<1> DEFINE pc == Cardinality(Posted("ctrl"))
           pr == Cardinality(Posted("crsr"))
           fc == Cardinality(Filling("ctrl"))
           fr == Cardinality(Filling("crsr"))
           n == Cardinality(Cpus)
<1>2. /\ pc \in Nat /\ pr \in Nat /\ fc \in Nat /\ fr \in Nat /\ n \in Nat
      /\ 2 * (pc + fc) <= Load("ctrl") + Reserved("ctrl")
      /\ pr + fr <= Load("crsr") + Reserved("crsr")
  BY RoomCounts, OpFacts, FS_CardinalityType
<1>3. /\ IsFiniteSet(PC) /\ IsFiniteSet(PR) /\ IsFiniteSet(FC) /\ IsFiniteSet(FR)
      /\ Cardinality(FC) <= fc /\ Cardinality(FR) <= fr
  BY PostedFinite, ImageCount, OpFacts DEF FewFill, FillBufs
<1>4. IsFiniteSet(DpcBufs) /\ Cardinality(DpcBufs) <= n
  BY ImageCount DEF DpcBufs
<1>5. IsFiniteSet(W) /\ Cardinality(W) = 1
  BY FS_Singleton
<1>6. Cardinality(All) <= pc + fc + pr + fr + n + 1 /\ IsFiniteSet(All)
  <2> HIDE DEF PC, PR, FC, FR, W
  <2>1. /\ Cardinality(PC) \in Nat /\ Cardinality(PR) \in Nat /\ Cardinality(FC) \in Nat
        /\ Cardinality(FR) \in Nat /\ Cardinality(DpcBufs) \in Nat
    BY <1>3, <1>4, FS_CardinalityType
  <2>2. /\ IsFiniteSet(PC \cup FC) /\ Cardinality(PC \cup FC) <= Cardinality(PC) + Cardinality(FC)
        /\ IsFiniteSet(PR \cup FR) /\ Cardinality(PR \cup FR) <= Cardinality(PR) + Cardinality(FR)
        /\ IsFiniteSet(DpcBufs \cup W) /\ Cardinality(DpcBufs \cup W) <= Cardinality(DpcBufs) + 1
    BY <1>3, <1>4, <1>5, UnionCount
  <2>3. /\ IsFiniteSet((PC \cup FC) \cup (PR \cup FR))
        /\ Cardinality((PC \cup FC) \cup (PR \cup FR))
              <= Cardinality(PC \cup FC) + Cardinality(PR \cup FR)
    BY <2>2, UnionCount
  <2>4. /\ IsFiniteSet(All)
        /\ Cardinality(All) <= Cardinality((PC \cup FC) \cup (PR \cup FR)) + Cardinality(DpcBufs \cup W)
    BY <2>2, <2>3, UnionCount
  <2>5. /\ Cardinality(PC \cup FC) \in Nat /\ Cardinality(PR \cup FR) \in Nat
        /\ Cardinality((PC \cup FC) \cup (PR \cup FR)) \in Nat
        /\ Cardinality(DpcBufs \cup W) \in Nat /\ Cardinality(All) \in Nat
    BY <2>2, <2>3, <2>4, FS_CardinalityType
  <2>6. Cardinality(PC) = pc /\ Cardinality(PR) = pr
    BY DEF PC, PR
  <2> HIDE DEF All, pc, pr, fc, fr, n
  <2>7. Cardinality(PC \cup FC) <= pc + fc /\ Cardinality(PR \cup FR) <= pr + fr
    <3>1. Cardinality(PC) + Cardinality(FC) <= pc + fc
      BY <1>2, <1>3, <2>1, <2>6
    <3>2. Cardinality(PR) + Cardinality(FR) <= pr + fr
      BY <1>2, <1>3, <2>1, <2>6
    <3>. QED
      BY <1>2, <2>1, <2>2, <2>5, <3>1, <3>2, SMTT(60)
  <2>8. Cardinality(DpcBufs \cup W) <= n + 1
    BY <1>2, <1>4, <2>1, <2>2, <2>5, SMTT(60)
  <2>9. Cardinality((PC \cup FC) \cup (PR \cup FR)) <= (pc + fc) + (pr + fr)
    BY <1>2, <2>3, <2>5, <2>7
  <2>10. Cardinality(All) <= ((pc + fc) + (pr + fr)) + (n + 1)
    BY <1>2, <2>4, <2>5, <2>8, <2>9
  <2>11. pc + fc + pr + fr + n + 1 = ((pc + fc) + (pr + fr)) + (n + 1)
    BY <1>2
  <2>. QED
    BY <2>4, <2>10, <2>11
<1>7. Cardinality(Pool) <= Cardinality(All) /\ Cardinality(Pool) = CtrlNum + CursorNum
  BY <1>1, <1>6, RingAssumption, FS_Subset
<1>8. Cardinality(All) \in Nat
  BY <1>6, FS_CardinalityType
<1>9. /\ Load("ctrl") + Reserved("ctrl") <= CtrlNum
      /\ Load("crsr") + Reserved("crsr") <= CursorNum
      /\ \/ Load("ctrl") + Reserved("ctrl") + 2 <= CtrlNum
         \/ Load("crsr") + Reserved("crsr") + 1 <= CursorNum
      /\ Load("ctrl") \in Nat /\ Load("crsr") \in Nat
      /\ Reserved("ctrl") \in Nat /\ Reserved("crsr") \in Nat
  <2>1. /\ Load("ctrl") \in Nat /\ Load("crsr") \in Nat
        /\ Reserved("ctrl") \in Nat /\ Reserved("crsr") \in Nat
    BY RoomTypes, OpFacts
  <2>2. Num("ctrl") = CtrlNum /\ Num("crsr") = CursorNum
    BY DEF Num
  <2>3. /\ Load("ctrl") + Reserved("ctrl") <= CtrlNum
        /\ Load("crsr") + Reserved("crsr") <= CursorNum
    BY <2>2, OpFacts DEF RoomInv
  <2>4. Load(QueueOf(op)) + Reserved(QueueOf(op)) + Cost(op) <= Num(QueueOf(op))
    BY DEF MayBegin
  <2>5. Cost(op) \in Nat /\ Cost(op) >= 1 /\ (QueueOf(op) = "ctrl" => Cost(op) >= 2)
    BY CostFacts
  <2>6. CASE QueueOf(op) = "ctrl"
    <3>1. Load("ctrl") + Reserved("ctrl") + Cost(op) <= CtrlNum /\ Cost(op) >= 2
      BY <2>2, <2>4, <2>5, <2>6
    <3>. QED
      BY <2>1, <2>3, <2>5, <3>1, RingAssumption, SMTT(60)
  <2>7. CASE QueueOf(op) = "crsr"
    <3>1. Load("crsr") + Reserved("crsr") + Cost(op) <= CursorNum /\ Cost(op) >= 1
      BY <2>2, <2>4, <2>5, <2>7
    <3>. QED
      BY <2>1, <2>3, <2>5, <3>1, RingAssumption, SMTT(60)
  <2>. QED
    BY <2>6, <2>7, OpFacts DEF Queues
<1>10. CtrlNum \in Nat /\ CursorNum \in Nat /\ 2 * n < CtrlNum
  BY RingAssumption
<1> HIDE DEF All, pc, pr, fc, fr, n
<1>. QED
  BY <1>2, <1>6, <1>7, <1>8, <1>9, <1>10, SMTT(60)

\* The ASSERT(vbuf) of AllocCmd, AllocCmdResp and AllocCursor: while the device keeps up, and
\* less than half as many DPCs run at once as the control ring has entries, a thread that
\* asks the pool for a buffer gets one.
THEOREM AllocCorrect ==
    KeepsUp /\ IsFiniteSet(Cpus) /\ 2 * Cardinality(Cpus) < CtrlNum
      => (Spec /\ [][SettlesFirst]_vars => []AllocSucceeds)
<1> SUFFICES ASSUME KeepsUp, IsFiniteSet(Cpus), 2 * Cardinality(Cpus) < CtrlNum
             PROVE  Spec /\ [][SettlesFirst]_vars => []AllocSucceeds
  OBVIOUS
<1>1. Init => AllocSucceeds
  BY DEF Init, AllocSucceeds
<1>2. SteadyInv /\ AllocSucceeds /\ [Next]_vars => AllocSucceeds'
  <2> SUFFICES ASSUME SteadyInv, AllocSucceeds, [Next]_vars PROVE ~crashed'
    BY DEF AllocSucceeds
  <2> USE DEF drivervars, qvars, dpcvars, configvars
  <2>1. ASSUME NEW t \in Threads, NEW op \in Ops, GetBufNull(t, op)
        PROVE  FALSE
    BY <2>1, PoolNotEmpty DEF GetBufNull
  <2>2. ASSUME NEW t \in Threads, NEW op \in Ops, GetBuf(t, op)
        PROVE  UNCHANGED crashed
    BY <2>2 DEF GetBuf, Begin
  <2>3. ASSUME NEW t \in Threads, Go(t)
        PROVE  UNCHANGED crashed
    BY <2>3 DEF Go, QueueBuffer, QueueBufferTooBig, Kick, TransferDone
  <2>4. ASSUME NEW t \in Clients, NEW b \in BigBufs, CreateCmdBuffer(t, b)
        PROVE  UNCHANGED crashed
    BY <2>4 DEF CreateCmdBuffer, Begin
  <2>5. Worker \/ Interrupt \/ DevChange => UNCHANGED crashed
    BY DEF Worker, WorkerWake, GetDisplayInfo, ClearEvents, Interrupt, InterruptQueue,
           InterruptChange, InterruptUnknown, RaiseDpc, DevChange
  <2>6. ASSUME NEW c \in Cpus, Dpc(c)
        PROVE  UNCHANGED crashed
    BY <2>6 DEF Dpc, DpcStart, DpcExchange, DpcCollect, DpcSettle, DpcCtrlEmpty, DpcCursor, DpcChange
  <2>7. ASSUME NEW q \in Queues, DevTake(q) \/ DevServe(q)
        PROVE  UNCHANGED crashed
    BY <2>7 DEF DevTake, DevServe, DevComplete
  <2>8. UNCHANGED vars => UNCHANGED crashed
    BY DEF vars
  <2>. QED
    BY <2>1, <2>2, <2>3, <2>4, <2>5, <2>6, <2>7, <2>8 DEF Next, Allocate, AllocSucceeds
<1>3. SteadyInv /\ [Next]_vars /\ [SettlesFirst]_vars => SteadyInv'
  BY NextSteady
<1>. QED
  BY <1>1, <1>2, <1>3, InitSteady, PTL DEF Spec

-----------------------------------------------------------------------------
(* 3D commands come back in the order in which they went                   *)

\* The commands in the control queue, the one that will be collected first at the front.
Ring == (queue["ctrl"].used \o queue["ctrl"].held) \o queue["ctrl"].avail

\* At most one thread submits 3D commands.
OneSubmitter ==
    \A t, u \in Clients : "submit" \in Program[t] /\ "submit" \in Program[u] => t = u

\* On the list are the 3D commands that are somewhere; the first is the one the DPC has, the
\* last the one its thread has not posted yet, and those in the queue are in the list's order.
OrderInv ==
    /\ IsInjective(list3d)
    /\ \A b \in BigBufs : b \in Range(list3d) <=> \E k \in Kinds, x \in Hands : At(b, k, x)
    /\ \A b \in BigBufs, x \in Hands : At(b, "dpc", x) => list3d # <<>> /\ Head(list3d) = b
    /\ \A b \in BigBufs, x \in Hands : At(b, "thread", x) =>
          list3d[Len(list3d)] = b /\ x \in Clients /\ "submit" \in Program[x]
    /\ \A k, l \in 1 .. Len(list3d) : \A i, j \in 1 .. Len(Ring) :
          Ring[i] = list3d[k] /\ Ring[j] = list3d[l] /\ k < l => i < j

\* The elements of two sequences in a row.
LEMMA ConcatRange ==
    ASSUME NEW T, NEW s \in Seq(T), NEW t \in Seq(T)
    PROVE  s \o t \in Seq(T) /\ Range(s \o t) = Range(s) \cup Range(t)
<1> DEFINE w == s \o t
<1>1. /\ w \in Seq(T) /\ Len(w) = Len(s) + Len(t)
      /\ \A i \in 1 .. Len(s) + Len(t) : w[i] = IF i <= Len(s) THEN s[i] ELSE t[i - Len(s)]
  BY ConcatProperties
<1> HIDE DEF w
<1>2. Len(s) \in Nat /\ Len(t) \in Nat
  OBVIOUS
<1>3. /\ \A y : y \in Range(w) <=> \E i \in 1 .. Len(w) : w[i] = y
      /\ \A y : y \in Range(s) <=> \E i \in 1 .. Len(s) : s[i] = y
      /\ \A y : y \in Range(t) <=> \E i \in 1 .. Len(t) : t[i] = y
  BY <1>1, RangeIs
<1>4. \A i \in 1 .. Len(w) : w[i] \in Range(s) \cup Range(t)
  <2> SUFFICES ASSUME NEW i \in 1 .. Len(w) PROVE w[i] \in Range(s) \cup Range(t)
    OBVIOUS
  <2>1. i <= Len(s) => i \in 1 .. Len(s)
    BY <1>1, <1>2
  <2>2. ~(i <= Len(s)) => i - Len(s) \in 1 .. Len(t)
    BY <1>1, <1>2
  <2>. QED
    BY <1>1, <1>3, <2>1, <2>2
<1>5. \A i \in 1 .. Len(s) : s[i] \in Range(w)
  <2> SUFFICES ASSUME NEW i \in 1 .. Len(s) PROVE s[i] \in Range(w)
    OBVIOUS
  <2>1. i \in 1 .. Len(w) /\ w[i] = s[i]
    BY <1>1, <1>2
  <2>. QED
    BY <1>3, <2>1
<1>6. \A i \in 1 .. Len(t) : t[i] \in Range(w)
  <2> SUFFICES ASSUME NEW i \in 1 .. Len(t) PROVE t[i] \in Range(w)
    OBVIOUS
  <2>1. i + Len(s) \in 1 .. Len(s) + Len(t) /\ ~(i + Len(s) <= Len(s)) /\ (i + Len(s)) - Len(s) = i
    BY <1>2
  <2>2. w[i + Len(s)] = t[i]
    BY <1>1, <2>1
  <2>. QED
    BY <1>1, <1>3, <2>1, <2>2
<1>. QED
  BY <1>1, <1>3, <1>4, <1>5, <1>6, ZenonT(60) DEF w

\* One more at the end, as a concatenation.
LEMMA AppendIs ==
    ASSUME NEW T, NEW s \in Seq(T), NEW x \in T
    PROVE  Append(s, x) = s \o <<x>> /\ <<x>> \in Seq(T)
<1>1. <<x>> \in Seq(T) /\ Len(<<x>>) = 1 /\ <<x>>[1] = x
  OBVIOUS
<1>2. Append(s, x) \in Seq(T) /\ Len(Append(s, x)) = Len(s) + 1
      /\ \A i \in 1 .. (Len(s) + 1) : Append(s, x)[i] = IF i <= Len(s) THEN s[i] ELSE x
  OBVIOUS
<1>3. s \o <<x>> \in Seq(T) /\ Len(s \o <<x>>) = Len(s) + 1
      /\ \A i \in 1 .. (Len(s) + 1) : (s \o <<x>>)[i] = IF i <= Len(s) THEN s[i] ELSE <<x>>[i - Len(s)]
  BY <1>1, ConcatProperties
<1>4. \A i \in 1 .. (Len(s) + 1) : Append(s, x)[i] = (s \o <<x>>)[i]
  <2> SUFFICES ASSUME NEW i \in 1 .. (Len(s) + 1)
               PROVE  Append(s, x)[i] = (s \o <<x>>)[i]
    OBVIOUS
  <2>1. Len(s) \in Nat /\ (~(i <= Len(s)) => i - Len(s) = 1)
    OBVIOUS
  <2>. QED
    BY <1>1, <1>2, <1>3, <2>1
<1>. QED
  BY <1>1, <1>2, <1>3, <1>4, SeqEqual

\* A sequence is its head and its tail.
LEMMA HeadTailIs ==
    ASSUME NEW T, NEW s \in Seq(T), s # <<>>
    PROVE  /\ Head(s) \in T /\ Tail(s) \in Seq(T) /\ s = <<Head(s)>> \o Tail(s)
           /\ <<Head(s)>> \in Seq(T)
<1> DEFINE r == <<Head(s)>>
<1>1. Head(s) \in T /\ Tail(s) \in Seq(T) /\ Len(Tail(s)) = Len(s) - 1
      /\ \A i \in 1 .. Len(Tail(s)) : Tail(s)[i] = s[i + 1]
  BY HeadTailProperties
<1>2. r \in Seq(T) /\ Len(r) = 1 /\ r[1] = s[1] /\ Len(s) \in Nat \ {0}
  BY <1>1, EmptySeq
<1> HIDE DEF r
<1>3. r \o Tail(s) \in Seq(T) /\ Len(r \o Tail(s)) = Len(s)
      /\ \A i \in 1 .. Len(s) : (r \o Tail(s))[i] = IF i <= 1 THEN r[i] ELSE Tail(s)[i - 1]
  <2>1. /\ r \o Tail(s) \in Seq(T) /\ Len(r \o Tail(s)) = Len(r) + Len(Tail(s))
        /\ \A i \in 1 .. Len(r) + Len(Tail(s)) :
             (r \o Tail(s))[i] = IF i <= Len(r) THEN r[i] ELSE Tail(s)[i - Len(r)]
    BY <1>1, <1>2, ConcatProperties, ZenonT(60)
  <2>2. Len(r) + Len(Tail(s)) = Len(s)
    BY <1>1, <1>2
  <2>. QED
    BY <1>2, <2>1, <2>2
<1>4. \A i \in 1 .. Len(s) : (r \o Tail(s))[i] = s[i]
  <2> SUFFICES ASSUME NEW i \in 1 .. Len(s) PROVE (r \o Tail(s))[i] = s[i]
    OBVIOUS
  <2>1. CASE i = 1
    BY <1>2, <1>3, <2>1
  <2>2. CASE i # 1
    <3>1. i - 1 \in 1 .. Len(Tail(s)) /\ (i - 1) + 1 = i /\ ~(i <= 1)
      BY <1>1, <1>2, <2>2
    <3>. QED
      BY <1>1, <1>3, <3>1
  <2>. QED
    BY <2>1, <2>2
<1>5. r \o Tail(s) = s
  BY <1>2, <1>3, <1>4, SeqEqual
<1>. QED
  BY <1>1, <1>2, <1>5 DEF r

\* Sequences in a row are a sequence, however they are bracketed.
LEMMA Rows ==
    ASSUME NEW T
    PROVE  /\ \A s, t \in Seq(T) : s \o t \in Seq(T)
           /\ \A s, t, v \in Seq(T) : (s \o t) \o v = s \o (t \o v)
<1>1. ASSUME NEW s \in Seq(T), NEW t \in Seq(T)
      PROVE  s \o t \in Seq(T)
  BY ConcatProperties
<1>2. ASSUME NEW s \in Seq(T), NEW t \in Seq(T), NEW v \in Seq(T)
      PROVE  (s \o t) \o v = s \o (t \o v)
  BY ConcatAssociative, SMTT(60)
<1>. QED
  BY <1>1, <1>2, Zenon

\* The first one leaves.
LEMMA FirstOut ==
    ASSUME NEW T, NEW h \in Seq(T), h # <<>>
    PROVE  RemoveAt(h, 1) = Tail(h)
<1>1. Len(h) \in Nat \ {0} /\ \A i \in 1 .. Len(h) : h[i] \in T
  BY EmptySeq
<1>2. SubSeq(h, 1, 1 - 1) = <<>>
  BY SubSeqEmpty
<1>3. SubSeq(h, 1 + 1, Len(h)) = Tail(h) /\ Tail(h) \in Seq(T)
  BY HeadTailIs, TailIsSubSeq
<1>. QED
  BY <1>2, <1>3, ConcatEmptySeq DEF RemoveAt

\* Three rows can be bracketed either way.
Brackets(s, t, v) == (s \o t) \o v = s \o (t \o v)

\* Rows of commands, in particular.
LEMMA BufRows == \A s, t, v \in Seq(Bufs) : Brackets(s, t, v)
BY Rows DEF Brackets

\* The row of the used, held and available commands is the same when the head of the
\* available ones becomes the last held one, and when the head of the held ones becomes
\* the last used one.
RowKept(u, h, a) ==
    /\ a # <<>> => (u \o Append(h, Head(a))) \o Tail(a) = (u \o h) \o a
    /\ h # <<>> => (Append(u, Head(h)) \o RemoveAt(h, 1)) \o a = (u \o h) \o a

\* A command passes from one part of a queue to the next, in order: when the device takes
\* it, and when the device completes it.
LEMMA RowsMove == \A u, h, a \in Seq(Bufs) : RowKept(u, h, a)
<1> USE DEF RowKept
<1> SUFFICES ASSUME NEW u \in Seq(Bufs), NEW h \in Seq(Bufs), NEW a \in Seq(Bufs)
             PROVE  /\ a # <<>> => (u \o Append(h, Head(a))) \o Tail(a) = (u \o h) \o a
                    /\ h # <<>> => (Append(u, Head(h)) \o RemoveAt(h, 1)) \o a = (u \o h) \o a
  OBVIOUS
<1>1. ASSUME NEW s \in Seq(Bufs), NEW v \in Seq(Bufs), v # <<>>
      PROVE  \E x, y \in Seq(Bufs) : Append(s, Head(v)) = s \o x /\ v = x \o y /\ y = Tail(v)
  <2>1. /\ Head(v) \in Bufs /\ Tail(v) \in Seq(Bufs) /\ v = <<Head(v)>> \o Tail(v)
        /\ <<Head(v)>> \in Seq(Bufs)
    BY <1>1, HeadTailIs
  <2>2. PICK z \in Bufs : z = Head(v)
    BY <2>1
  <2>3. Append(s, z) = s \o <<z>>
    BY AppendIs
  <2>. QED
    BY <2>1, <2>2, <2>3
<1>2. ASSUME a # <<>> PROVE (u \o Append(h, Head(a))) \o Tail(a) = (u \o h) \o a
  <2>1. PICK x \in Seq(Bufs), y \in Seq(Bufs) :
          Append(h, Head(a)) = h \o x /\ a = x \o y /\ y = Tail(a)
    BY <1>1, <1>2
  <2>2. PICK v \in Seq(Bufs) : v = u \o h
    BY Rows
  <2>3. Brackets(u, h, x) /\ Brackets(v, x, y)
    BY BufRows, Zenon
  <2>. QED
    BY <2>1, <2>2, <2>3, Zenon DEF Brackets
<1>3. ASSUME h # <<>> PROVE (Append(u, Head(h)) \o RemoveAt(h, 1)) \o a = (u \o h) \o a
  <2>1. PICK x \in Seq(Bufs), y \in Seq(Bufs) :
          Append(u, Head(h)) = u \o x /\ h = x \o y /\ y = Tail(h)
    BY <1>1, <1>3
  <2>2. Brackets(u, x, y)
    BY BufRows, Zenon
  <2>3. RemoveAt(h, 1) = Tail(h)
    BY <1>3, FirstOut
  <2>. QED
    BY <2>1, <2>2, <2>3, Zenon DEF Brackets
<1>. QED
  BY <1>2, <1>3

\* One enters at the end.
LEMMA LastIn ==
    ASSUME NEW T, NEW u \in Seq(T), NEW h \in Seq(T), NEW a \in Seq(T), NEW b \in T
    PROVE  (u \o h) \o Append(a, b) = Append((u \o h) \o a, b)
<1>1. <<b>> \in Seq(T) /\ Append(a, b) = a \o <<b>>
  BY AppendIs
<1>2. Append((u \o h) \o a, b) = ((u \o h) \o a) \o <<b>>
  BY AppendIs, Rows
<1>3. ((u \o h) \o a) \o <<b>> = (u \o h) \o (a \o <<b>>)
  BY <1>1, Rows, SMTT(60)
<1>. QED
  BY <1>1, <1>2, <1>3

\* The row of the used, held and available commands begins with the used ones.
RowStarts(u, h, a) ==
    /\ (Tail(u) \o h) \o a = Tail((u \o h) \o a)
    /\ (u \o h) \o a # <<>> /\ Head((u \o h) \o a) = Head(u)

\* One is collected at the front.
LEMMA CollectedInOrder ==
    ASSUME NEW T, NEW u \in Seq(T), NEW h \in Seq(T), NEW a \in Seq(T), u # <<>>
    PROVE  RowStarts(u, h, a)
<1> USE DEF RowStarts
<1>1. PICK x \in T, y \in Seq(T) : x = Head(u) /\ y = Tail(u) /\ u = <<x>> \o y /\ <<x>> \in Seq(T)
  BY HeadTailIs
<1>2. (u \o h) \o a = <<x>> \o ((y \o h) \o a)
  <2>1. (<<x>> \o y) \o h = <<x>> \o (y \o h)
    BY <1>1, Rows
  <2>2. (<<x>> \o (y \o h)) \o a = <<x>> \o ((y \o h) \o a)
    BY <1>1, Rows
  <2>. QED
    BY <1>1, <2>1, <2>2
<1>3. PICK v \in Seq(T) : v = (y \o h) \o a
  BY Rows
<1>4. PICK w \in Seq(T) : w = <<x>> \o v
  BY <1>1, Rows
<1>5. /\ Len(w) = 1 + Len(v)
      /\ \A i \in 1 .. 1 + Len(v) : w[i] = IF i <= 1 THEN <<x>>[i] ELSE v[i - 1]
  <2>1. Len(<<x>>) = 1
    OBVIOUS
  <2>. QED
    BY <1>1, <1>4, <2>1, ConcatProperties
<1>6. Len(v) \in Nat /\ Len(w) # 0 /\ w[1] = x
  BY <1>5
<1>7. w # <<>> /\ Head(w) = x
  BY <1>6
<1>8. Tail(w) = v
  <2>1. Tail(w) \in Seq(T) /\ Len(Tail(w)) = Len(v)
        /\ \A i \in 1 .. Len(v) : Tail(w)[i] = w[i + 1]
    BY <1>5, <1>6, <1>7, HeadTailProperties
  <2>2. \A i \in 1 .. Len(v) : w[i + 1] = v[i]
    <3> SUFFICES ASSUME NEW i \in 1 .. Len(v) PROVE w[i + 1] = v[i]
      OBVIOUS
    <3>1. i + 1 \in 1 .. 1 + Len(v) /\ ~(i + 1 <= 1) /\ (i + 1) - 1 = i
      BY <1>6
    <3>. QED
      BY <1>5, <3>1
  <2>. QED
    BY <2>1, <2>2, SeqEqual
<1>. QED
  BY <1>1, <1>2, <1>3, <1>4, <1>7, <1>8

\* The control queue's ring is a sequence of what is posted there.
LEMMA RingFacts ==
    ASSUME Typed
    PROVE  /\ Ring \in Seq(Bufs) /\ Range(Ring) = Posted("ctrl")
           /\ \A b \in Posted("ctrl") : \E i \in 1 .. Len(Ring) : Ring[i] = b
           /\ \A i \in 1 .. Len(Ring) : Ring[i] \in Posted("ctrl")
<1>1. "ctrl" \in Queues
  BY DEF Queues
<1>2. /\ queue["ctrl"].avail \in Seq(Bufs) /\ queue["ctrl"].held \in Seq(Bufs)
      /\ queue["ctrl"].used \in Seq(Bufs)
  BY <1>1, PostedIs
<1>3. Ring \in Seq(Bufs)
      /\ Range(Ring) = Range(queue["ctrl"].used) \cup Range(queue["ctrl"].held) \cup Range(queue["ctrl"].avail)
  <2>1. PICK u \in Seq(Bufs), h \in Seq(Bufs), a \in Seq(Bufs) :
          u = queue["ctrl"].used /\ h = queue["ctrl"].held /\ a = queue["ctrl"].avail
    BY <1>2
  <2>2. u \o h \in Seq(Bufs) /\ Range(u \o h) = Range(u) \cup Range(h)
    BY ConcatRange
  <2>3. PICK v \in Seq(Bufs) : v = u \o h
    BY <2>2
  <2>4. v \o a \in Seq(Bufs) /\ Range(v \o a) = Range(v) \cup Range(a)
    BY ConcatRange
  <2>. QED
    BY <2>1, <2>2, <2>3, <2>4 DEF Ring
<1>4. Range(Ring) = Posted("ctrl")
  BY <1>3 DEF Posted
<1>5. \A y : y \in Range(Ring) <=> \E i \in 1 .. Len(Ring) : Ring[i] = y
  BY <1>3, RangeIs
<1>. QED
  BY <1>3, <1>4, <1>5

\* A 3D command is with the thread that posts it, in the control queue, or with the DPC.
LEMMA BigHands ==
    ASSUME OwnerInv, NEW b \in BigBufs, NEW k \in Kinds, NEW x \in Hands, At(b, k, x)
    PROVE  /\ \/ k = "thread" /\ x \in Threads /\ thr[x].pc = "filled" /\ thr[x].buf = b
              \/ k = "queue" /\ x = "ctrl" /\ b \in Posted("ctrl")
              \/ k = "dpc" /\ x \in Cpus /\ dpc[x].buf = b
           /\ vbuf[b].op = "submit"
<1>1. b \in Bufs /\ b \notin Pool /\ b # NULL
  BY Names
<1>2. k # "pool"
  <2>1. Range(free) \subseteq Pool
    BY RangeIs DEF OwnerInv, Typed
  <2>. QED
    BY <1>1, <2>1, AtIs
<1>3. k # "woken"
  BY <1>1, AtIs, Names DEF OwnerInv, WakeInv, ThreadInv
<1>4. ASSUME k = "thread"
      PROVE  x \in Threads /\ thr[x].pc = "filled" /\ thr[x].buf = b /\ vbuf[b].op = "submit"
  BY <1>1, <1>4, AtIs DEF OwnerInv, ThreadInv
<1>5. ASSUME k = "queue"
      PROVE  x = "ctrl" /\ b \in Posted("ctrl") /\ vbuf[b].op = "submit"
  <2>1. x \in Queues /\ b \in Posted(x)
    BY <1>1, <1>5, AtIs
  <2>2. vbuf[b].op = "submit" /\ QueueOf(vbuf[b].op) = x
    BY <2>1 DEF OwnerInv, PostInv
  <2>3. QueueOf("submit") = "ctrl"
    BY DEF QueueOf
  <2>. QED
    BY <2>1, <2>2, <2>3
<1>6. ASSUME k = "dpc"
      PROVE  x \in Cpus /\ dpc[x].buf = b /\ vbuf[b].op = "submit"
  <2>1. x \in Cpus /\ dpc[x].buf = b
    BY <1>1, <1>6, AtIs
  <2>. QED
    BY <1>1, <2>1 DEF OwnerInv, SettleInv
<1>. QED
  BY <1>2, <1>3, <1>4, <1>5, <1>6 DEF Kinds

\* Every 3D command stays where it is.
BigKept == \A b \in BigBufs, k \in Kinds, x \in Hands : At(b, k, x)' <=> At(b, k, x)

\* Then the order stays, if the list and the ring do.
LEMMA OrderKept ==
    ASSUME OrderInv, BigKept, list3d' = list3d, Ring' = Ring
    PROVE  OrderInv'
<1>1. "dpc" \in Kinds /\ "thread" \in Kinds
  BY DEF Kinds
<1>2. IsInjective(list3d')
  BY DEF OrderInv
<1>3. \A b \in BigBufs : b \in Range(list3d') <=> \E k \in Kinds, x \in Hands : At(b, k, x)'
  <2>1. \A b \in BigBufs : b \in Range(list3d) <=> \E k \in Kinds, x \in Hands : At(b, k, x)
    BY DEF OrderInv
  <2>. QED
    BY <2>1 DEF BigKept
<1>4. \A b \in BigBufs, x \in Hands : At(b, "dpc", x)' => list3d' # <<>> /\ Head(list3d') = b
  BY <1>1 DEF OrderInv, BigKept
<1>5. \A b \in BigBufs, x \in Hands : At(b, "thread", x)' =>
          list3d'[Len(list3d')] = b /\ x \in Clients /\ "submit" \in Program[x]
  BY <1>1 DEF OrderInv, BigKept
<1>6. \A k, l \in 1 .. Len(list3d') : \A i, j \in 1 .. Len(Ring') :
          Ring'[i] = list3d'[k] /\ Ring'[j] = list3d'[l] /\ k < l => i < j
  BY DEF OrderInv
<1> HIDE DEF Ring, At
<1>. QED
  BY <1>2, <1>3, <1>4, <1>5, <1>6 DEF OrderInv

\* Buffers of the pool may change hands meanwhile.
LEMMA PoolMoves ==
    ASSUME \/ Kept \/ \E b \in Pool, k \in Kinds, x \in Hands : Handed(b, k, x)
    PROVE  BigKept
<1>1. \A b \in BigBufs : b \in Bufs /\ b \notin Pool
  BY Names
<1>. QED
  BY <1>1 DEF Kept, Handed, BigKept

\* A new command goes to the end of the list.
LEMMA CreateOrder ==
    ASSUME OneSubmitter, OwnerInv, OrderInv, NEW t \in Clients, NEW b \in BigBufs, CreateCmdBuffer(t, b)
    PROVE  OrderInv'
<1>1. list3d' = Append(list3d, b) /\ Ring' = Ring /\ thr[t].pc = "idle" /\ "submit" \in Program[t]
      /\ vbuf[b].op = "none"
  BY NameAssumption DEF CreateCmdBuffer, MayBegin, Begin, qvars, Ring
<1>2. Handed(b, "thread", t)
  BY CreateCmdBufferOwner
<1>3. "thread" \in Kinds /\ "dpc" \in Kinds /\ t \in Hands /\ t \in Threads /\ b \in Bufs /\ BigBufs \subseteq Bufs
  BY Names DEF Kinds
<1>4. b \notin Range(list3d)
  BY <1>1, BigHands DEF OrderInv
<1>5. list3d \in Seq(BigBufs)
  BY DEF OwnerInv, Typed
<1>6. IsInjective(list3d') /\ Range(list3d') = Range(list3d) \cup {b} /\ list3d' \in Seq(BigBufs)
  BY <1>1, <1>4, <1>5, AppendFacts DEF OrderInv
<1>7. /\ Len(list3d) \in Nat /\ Len(list3d') = Len(list3d) + 1 /\ list3d'[Len(list3d')] = b
      /\ \A i \in 1 .. Len(list3d) : list3d'[i] = list3d[i] /\ list3d[i] \in Range(list3d)
  BY <1>1, <1>5, RangeIs
<1>8. ASSUME NEW a \in BigBufs
      PROVE  a \in Range(list3d') <=> \E k \in Kinds, x \in Hands : At(a, k, x)'
  <2>1. CASE a = b
    BY <1>2, <1>3, <1>6, <2>1 DEF Handed
  <2>2. CASE a # b
    BY <1>2, <1>3, <1>6, <2>2 DEF Handed, OrderInv
  <2>. QED
    BY <2>1, <2>2
<1>9. ASSUME NEW a \in BigBufs, NEW x \in Hands, At(a, "dpc", x)'
      PROVE  list3d' # <<>> /\ Head(list3d') = a
  <2>1. At(a, "dpc", x)
    BY <1>2, <1>3, <1>9 DEF Handed
  <2>2. list3d # <<>> /\ list3d[1] = a
    BY <2>1, <1>5 DEF OrderInv
  <2>3. 1 \in 1 .. Len(list3d)
    BY <1>5, <2>2, EmptySeq
  <2>. QED
    BY <1>6, <1>7, <2>2, <2>3
<1>10. ASSUME NEW a \in BigBufs, NEW x \in Hands, At(a, "thread", x)'
       PROVE  list3d'[Len(list3d')] = a /\ x \in Clients /\ "submit" \in Program[x]
  <2>1. CASE a = b
    BY <1>1, <1>2, <1>3, <1>7, <1>10, <2>1 DEF Handed
  <2>2. CASE a # b
    <3>1. At(a, "thread", x)
      BY <1>2, <1>3, <1>10, <2>2 DEF Handed
    <3>2. x \in Clients /\ "submit" \in Program[x] /\ thr[x].pc = "filled"
      BY <1>3, <3>1, AtIs DEF OrderInv
    <3>3. x = t
      BY <1>1, <3>2 DEF OneSubmitter
    <3>. QED
      BY <1>1, <3>2, <3>3
  <2>. QED
    BY <2>1, <2>2
<1>11. ASSUME NEW k \in 1 .. Len(list3d'), NEW l \in 1 .. Len(list3d'),
              NEW i \in 1 .. Len(Ring), NEW j \in 1 .. Len(Ring),
              Ring[i] = list3d'[k], Ring[j] = list3d'[l], k < l
       PROVE  i < j
  <2>1. b \notin Posted("ctrl")
    <3>1. "ctrl" \in Queues /\ "ctrl" \in Hands /\ "queue" \in Kinds
      BY Names DEF Queues, Kinds
    <3>. QED
      BY <1>1, <1>3, <3>1, BigHands, AtIs
  <2>2. Ring[i] # b /\ Ring[j] # b
    BY <2>1, RingFacts DEF OwnerInv
  <2>3. k \in 1 .. Len(list3d) /\ l \in 1 .. Len(list3d)
    BY <1>7, <1>11, <2>2, SMTT(60)
  <2>. QED
    BY <1>7, <1>11, <2>3 DEF OrderInv
<1> HIDE DEF Ring, At
<1>. QED
  BY <1>1, <1>6, <1>8, <1>9, <1>10, <1>11 DEF OrderInv

\* Nothing is posted twice, so the ring has every command once.
LEMMA RingMoved ==
    ASSUME Typed, NEW l, queue' = [queue EXCEPT !["ctrl"] = l],
           \/ /\ queue["ctrl"].avail # <<>> /\ l.used = queue["ctrl"].used
              /\ l.avail = Tail(queue["ctrl"].avail)
              /\ l.held = Append(queue["ctrl"].held, Head(queue["ctrl"].avail))
           \/ /\ queue["ctrl"].held # <<>> /\ l.avail = queue["ctrl"].avail
              /\ l.held = RemoveAt(queue["ctrl"].held, 1)
              /\ l.used = Append(queue["ctrl"].used, Head(queue["ctrl"].held))
    PROVE  Ring' = Ring
<1>1. "ctrl" \in Queues
  BY DEF Queues
<1>2. PICK m \in [avail : Seq(Bufs), held : Seq(Bufs), used : Seq(Bufs)] : m = queue["ctrl"]
  BY <1>1 DEF Typed, Line
<1>3. PICK u \in Seq(Bufs), h \in Seq(Bufs), a \in Seq(Bufs) : u = m.used /\ h = m.held /\ a = m.avail
  BY <1>2
<1>4. queue'["ctrl"] = l
  BY <1>1 DEF Typed
<1>5. Ring = (u \o h) \o a /\ Ring' = (l.used \o l.held) \o l.avail
  BY <1>2, <1>3, <1>4 DEF Ring
<1>6. /\ a # <<>> => (u \o Append(h, Head(a))) \o Tail(a) = (u \o h) \o a
      /\ h # <<>> => (Append(u, Head(h)) \o RemoveAt(h, 1)) \o a = (u \o h) \o a
  <2>1. RowKept(u, h, a)
    BY RowsMove, Zenon
  <2>. QED
    BY <2>1, Zenon DEF RowKept
<1>7. CASE a # <<>> /\ l.used = u /\ l.avail = Tail(a) /\ l.held = Append(h, Head(a))
  BY <1>5, <1>6, <1>7, Zenon
<1>8. CASE h # <<>> /\ l.avail = a /\ l.held = RemoveAt(h, 1) /\ l.used = Append(u, Head(h))
  BY <1>5, <1>6, <1>8, Zenon
<1>. QED
  BY <1>2, <1>3, <1>7, <1>8, Zenon

\* A device that completes in order leaves the ring as it is.
LEMMA DeviceOrder ==
    ASSUME InOrder, OwnerInv, OrderInv, NEW q \in Queues, DevTake(q) \/ DevServe(q)
    PROVE  OrderInv'
<1>1. BigKept
  BY DevTakeOwner, DevCompleteOwner, PoolMoves DEF DevServe
<1>2. list3d' = list3d
  BY DEF DevTake, DevServe, DevComplete, drivervars
<1>3. Typed /\ "ctrl" \in Queues /\ DOMAIN queue = Queues
  BY DEF OwnerInv, Typed, Queues
<1>4. q # "ctrl" => queue'["ctrl"] = queue["ctrl"]
  BY <1>3 DEF DevTake, DevServe, DevComplete
<1>5. ASSUME q = "ctrl", DevTake(q)
      PROVE  Ring' = Ring
  <2>1. CASE queue["ctrl"].avail # <<>>
    <3>1. PICK l : l = [queue["ctrl"] EXCEPT !.avail = Tail(@), !.held = Append(@, Head(queue["ctrl"].avail))]
      OBVIOUS
    <3>2. queue' = [queue EXCEPT !["ctrl"] = l]
      BY <1>3, <1>5, <2>1, <3>1 DEF DevTake
    <3>3. PICK m \in [avail : Seq(Bufs), held : Seq(Bufs), used : Seq(Bufs)] : m = queue["ctrl"]
      BY <1>3 DEF Typed, Line
    <3>4. l = [m EXCEPT !.avail = Tail(m.avail), !.held = Append(m.held, Head(m.avail))]
      BY <3>1, <3>3
    <3>5. /\ l.used = queue["ctrl"].used /\ l.avail = Tail(queue["ctrl"].avail)
          /\ l.held = Append(queue["ctrl"].held, Head(queue["ctrl"].avail))
      BY <3>3, <3>4
    <3>. QED
      BY <1>3, <2>1, <3>2, <3>5, RingMoved
  <2>2. CASE queue["ctrl"].avail = <<>>
    BY <1>5, <2>2 DEF DevTake, Ring
  <2>. QED
    BY <2>1, <2>2
<1>6. ASSUME q = "ctrl", DevServe(q)
      PROVE  Ring' = Ring
  <2>1. PICK i : DevComplete("ctrl", i)
    BY <1>6 DEF DevServe
  <2>2. i = 1 /\ 1 \in DOMAIN queue["ctrl"].held
    BY <2>1 DEF DevComplete
  <2>3. queue["ctrl"].held # <<>>
    BY <2>2
  <2>4. PICK l : l = [queue["ctrl"] EXCEPT !.held = RemoveAt(@, 1), !.used = Append(@, queue["ctrl"].held[1])]
    OBVIOUS
  <2>5. queue' = [queue EXCEPT !["ctrl"] = l]
    BY <1>3, <2>1, <2>2, <2>4 DEF DevComplete
  <2>6. PICK m \in [avail : Seq(Bufs), held : Seq(Bufs), used : Seq(Bufs)] : m = queue["ctrl"]
    BY <1>3 DEF Typed, Line
  <2>7. l = [m EXCEPT !.held = RemoveAt(m.held, 1), !.used = Append(m.used, m.held[1])]
    BY <2>4, <2>6
  <2>8. m.held[1] = Head(m.held)
    BY <2>6
  <2>9. /\ l.avail = queue["ctrl"].avail /\ l.held = RemoveAt(queue["ctrl"].held, 1)
        /\ l.used = Append(queue["ctrl"].used, Head(queue["ctrl"].held))
    BY <2>6, <2>7, <2>8
  <2>. QED
    BY <1>3, <2>3, <2>5, <2>9, RingMoved
<1>7. q # "ctrl" => Ring' = Ring
  BY <1>4 DEF Ring
<1>. QED
  BY <1>1, <1>2, <1>5, <1>6, <1>7, OrderKept

\* A post: what goes to the end of the ring is at the end of the list.
LEMMA PostOrder ==
    ASSUME IInv, IInv', RoomInv, OrderInv, NEW t \in Threads, QueueBuffer(t)
    PROVE  OrderInv'
<1> USE DEF IInv
<1> DEFINE b == thr[t].buf
           q == QueueOf(thr[t].op)
<1>1. HasRoom(q, thr[t].op)
  BY RoomToPost
<1>2. thr[t].pc = "filled" /\ queue' = [queue EXCEPT ![q].avail = Append(@, b)] /\ list3d' = list3d
  BY <1>1 DEF QueueBuffer
<1>3. Handed(b, "queue", q)
  BY <1>1, QueueBufferOwner
<1>4. b \in Bufs /\ At(b, "thread", t) /\ \A r \in Queues : b \notin Posted(r)
  BY <1>2, FillerHas
<1>5. q \in Queues /\ q \in Hands /\ {"queue", "dpc", "thread"} \subseteq Kinds /\ "ctrl" \in Queues
      /\ DOMAIN queue = Queues /\ BigBufs \subseteq Bufs /\ t \in Hands /\ thr[t].op \in Ops
      /\ (b \in BigBufs => q = "ctrl")
  <2>1. thr[t].op \in Ops /\ (b \in BigBufs => thr[t].op = "submit")
    BY <1>2 DEF OwnerInv, ThreadInv
  <2>2. QueueOf("submit") = "ctrl"
    BY DEF QueueOf
  <2>. QED
    BY <2>1, <2>2, Names, OpFacts DEF Kinds, OwnerInv, Typed
<1>6. Ring' = IF q = "ctrl" THEN Append(Ring, b) ELSE Ring
  <2>1. q # "ctrl" => Ring' = Ring
    BY <1>2, <1>5 DEF Ring
  <2>2. ASSUME q = "ctrl"
        PROVE  Ring' = Append(Ring, b)
    <3>1. PICK m \in [avail : Seq(Bufs), held : Seq(Bufs), used : Seq(Bufs)] : m = queue["ctrl"]
      BY <1>5 DEF OwnerInv, Typed, Line
    <3>2. PICK u \in Seq(Bufs), h \in Seq(Bufs), a \in Seq(Bufs) : u = m.used /\ h = m.held /\ a = m.avail
      BY <3>1
    <3>3. PICK l : l = [m EXCEPT !.avail = Append(m.avail, b)]
      OBVIOUS
    <3>4. queue'["ctrl"] = l
      BY <1>2, <1>5, <2>2, <3>1, <3>3
    <3>5. l.used = u /\ l.held = h /\ l.avail = Append(a, b)
      BY <3>1, <3>2, <3>3
    <3>6. (u \o h) \o Append(a, b) = Append((u \o h) \o a, b)
      BY <1>4, LastIn, SMTT(60)
    <3>. QED
      BY <3>1, <3>2, <3>4, <3>5, <3>6 DEF Ring
  <2>. QED
    BY <2>1, <2>2
<1>7. CASE b \notin BigBufs
  <2>1. BigKept
    BY <1>3, <1>5, <1>7 DEF Handed, BigKept
  <2>2. /\ IsInjective(list3d') /\ list3d \in Seq(BigBufs)
        /\ \A c \in BigBufs : c \in Range(list3d') <=> \E k \in Kinds, x \in Hands : At(c, k, x)'
        /\ \A c \in BigBufs, x \in Hands : At(c, "dpc", x)' => list3d' # <<>> /\ Head(list3d') = c
        /\ \A c \in BigBufs, x \in Hands : At(c, "thread", x)' =>
              list3d'[Len(list3d')] = c /\ x \in Clients /\ "submit" \in Program[x]
    <3>1. \A c \in BigBufs : c \in Range(list3d) <=> \E k \in Kinds, x \in Hands : At(c, k, x)
      BY DEF OrderInv
    <3>. QED
      BY <1>2, <1>5, <2>1, <3>1 DEF OrderInv, OwnerInv, Typed, BigKept
  <2>3. ASSUME NEW k \in 1 .. Len(list3d), NEW l \in 1 .. Len(list3d),
               NEW i \in 1 .. Len(Ring'), NEW j \in 1 .. Len(Ring'),
               Ring'[i] = list3d[k], Ring'[j] = list3d[l], k < l
        PROVE  i < j
    <3>1. Ring \in Seq(Bufs)
      BY RingFacts DEF OwnerInv
    <3>2. list3d[k] # b /\ list3d[l] # b
      BY <1>7, <2>2
    <3>3. i \in 1 .. Len(Ring) /\ Ring[i] = list3d[k] /\ j \in 1 .. Len(Ring) /\ Ring[j] = list3d[l]
      BY <1>4, <1>6, <2>3, <3>1, <3>2
    <3>. QED
      BY <2>3, <3>3 DEF OrderInv
  <2> HIDE DEF Ring, At
  <2>. QED
    BY <1>2, <2>2, <2>3 DEF OrderInv
<1>8. CASE b \in BigBufs
  <2>1. q = "ctrl" /\ Ring' = Append(Ring, b) /\ Ring \in Seq(Bufs)
    BY <1>5, <1>6, <1>8, RingFacts DEF OwnerInv
  <2>2. list3d[Len(list3d)] = b /\ list3d \in Seq(BigBufs) /\ IsInjective(list3d)
    BY <1>4, <1>5, <1>8 DEF OrderInv, OwnerInv, Typed
  <2>3. ASSUME NEW c \in BigBufs
        PROVE  c \in Range(list3d') <=> \E k \in Kinds, x \in Hands : At(c, k, x)'
    <3>1. c \in Range(list3d) <=> \E k \in Kinds, x \in Hands : At(c, k, x)
      BY DEF OrderInv
    <3>2. CASE c = b
      BY <1>2, <1>3, <1>4, <1>5, <3>1, <3>2 DEF Handed
    <3>3. CASE c # b
      BY <1>2, <1>3, <1>5, <3>1, <3>3 DEF Handed
    <3>. QED
      BY <3>2, <3>3
  <2>4. \A c \in BigBufs, x \in Hands : At(c, "dpc", x)' => list3d' # <<>> /\ Head(list3d') = c
    BY <1>2, <1>3, <1>5 DEF Handed, OrderInv
  <2>5. \A c \in BigBufs, x \in Hands : At(c, "thread", x)' =>
              list3d'[Len(list3d')] = c /\ x \in Clients /\ "submit" \in Program[x]
    BY <1>2, <1>3, <1>5 DEF Handed, OrderInv
  <2>6. ASSUME NEW k \in 1 .. Len(list3d), NEW l \in 1 .. Len(list3d),
               NEW i \in 1 .. Len(Ring'), NEW j \in 1 .. Len(Ring'),
               Ring'[i] = list3d[k], Ring'[j] = list3d[l], k < l
        PROVE  i < j
    <3>1. Len(Ring) \in Nat /\ Len(Ring') = Len(Ring) + 1 /\ Ring'[Len(Ring) + 1] = b
          /\ \A n \in 1 .. Len(Ring) : Ring'[n] = Ring[n]
      BY <1>4, <2>1
    <3>2. Len(list3d) \in Nat /\ k \in Nat /\ l \in Nat /\ k < Len(list3d)
      BY <2>2, <2>6
    <3>3. list3d[k] # b
      <4>1. k # Len(list3d) /\ Len(list3d) \in 1 .. Len(list3d)
        BY <3>2
      <4>. QED
        BY <2>2, <4>1, RangeIs
    <3>4. i \in 1 .. Len(Ring) /\ Ring[i] = list3d[k]
      BY <2>6, <3>1, <3>3
    <3>5. CASE j = Len(Ring) + 1
      BY <3>1, <3>4, <3>5
    <3>6. CASE j # Len(Ring) + 1
      <4>1. j \in 1 .. Len(Ring) /\ Ring[j] = list3d[l]
        BY <2>6, <3>1, <3>6
      <4>. QED
        BY <2>6, <3>4, <4>1 DEF OrderInv
    <3>. QED
      BY <3>5, <3>6
  <2> HIDE DEF Ring, At
  <2>. QED
    BY <1>2, <2>2, <2>3, <2>4, <2>5, <2>6 DEF OrderInv
<1>. QED
  BY <1>7, <1>8

\* What the DPC collects, if it is a 3D command, is the first on the list: the one before
\* it would be with another DPC, with its thread as the last, or before it in the ring.
LEMMA CollectsFirst ==
    ASSUME IsFiniteSet(Cpus), OwnerInv, OrderInv, NEW c \in Cpus, dpc[c].pc = "scan",
           Ring # <<>>, NEW b \in BigBufs, Head(Ring) = b
    PROVE  list3d # <<>> /\ Head(list3d) = b
<1>1. Ring \in Seq(Bufs) /\ Ring[1] = b /\ 1 \in 1 .. Len(Ring) /\ b \in Posted("ctrl")
  <2>1. Ring \in Seq(Bufs)
    BY RingFacts DEF OwnerInv
  <2> HIDE DEF Ring
  <2>2. Ring[1] = b /\ 1 \in 1 .. Len(Ring)
    BY <2>1, EmptySeq
  <2>. QED
    BY <2>1, <2>2, RingFacts DEF OwnerInv
<1>2. "ctrl" \in Hands /\ "ctrl" \in Queues /\ "queue" \in Kinds /\ b \in Bufs
  BY Names DEF Queues, Kinds
<1>3. b \in Range(list3d)
  BY <1>1, <1>2, AtIs DEF OrderInv
<1>4. list3d \in Seq(BigBufs) /\ IsInjective(list3d)
  BY DEF OwnerInv, Typed, OrderInv
<1>5. PICK k \in 1 .. Len(list3d) : list3d[k] = b
  BY <1>3, <1>4, RangeIs
<1>6. PICK n \in Nat : n = Len(list3d) /\ n # 0 /\ 1 \in 1 .. Len(list3d) /\ n \in 1 .. Len(list3d)
  BY <1>4, <1>5
<1>7. PICK a \in BigBufs : a = list3d[1] /\ a \in Range(list3d)
  BY <1>4, <1>6, RangeIs
<1>8. ASSUME k # 1
      PROVE  FALSE
  <2>1. PICK h \in Kinds, x \in Hands : At(a, h, x)
    BY <1>7 DEF OrderInv
  <2>2. CASE h = "thread"
    <3>1. list3d[n] = a
      BY <1>6, <2>1, <2>2 DEF OrderInv
    <3>2. n = 1
      BY <1>4, <1>6, <1>7, <3>1 DEF IsInjective
    <3>. QED
      BY <1>6, <1>8, <3>2
  <2>3. CASE a \in Posted("ctrl")
    <3>1. PICK i \in 1 .. Len(Ring) : Ring[i] = a
      BY <2>3, RingFacts DEF OwnerInv
    <3>2. 1 < k
      BY <1>8
    <3>3. i < 1
      BY <1>1, <1>5, <1>6, <1>7, <3>1, <3>2 DEF OrderInv
    <3>. QED
      BY <3>1, <3>3
  <2>4. CASE x \in Cpus /\ dpc[x].buf = a
    <3>1. x = c
      BY <2>4, CpuAssumption, FS_Singleton
    <3>2. dpc[c].buf = NULL
      BY DEF OwnerInv, SettleInv
    <3>. QED
      BY <2>4, <3>1, <3>2, Names
  <2>. QED
    BY <2>1, <2>2, <2>3, <2>4, BigHands
<1>. QED
  BY <1>4, <1>5, <1>6, <1>8, EmptySeq

\* The DPC collects a command.
LEMMA CollectOrder ==
    ASSUME IsFiniteSet(Cpus), OwnerInv, OrderInv, NEW c \in Cpus, DpcCollect(c)
    PROVE  OrderInv'
<1>1. /\ list3d' = list3d /\ thr' = thr /\ dpc[c].pc = "scan"
      /\ queue["ctrl"].used # <<>>
  BY DEF DpcCollect, drivervars
<1>2. "ctrl" \in Queues /\ {"queue", "dpc", "thread", "woken"} \subseteq Kinds /\ BigBufs \subseteq Bufs
      /\ DOMAIN queue = Queues /\ c \in Hands /\ "worker" \in Hands
  BY Names DEF Queues, Kinds, OwnerInv, Typed
<1>3. PICK b \in Bufs : /\ b = Head(queue["ctrl"].used) /\ At(b, "queue", "ctrl")
                        /\ \/ Handed(b, "woken", "worker") /\ "worker" \in signalled'
                           \/ Handed(b, "dpc", c)
  BY DpcCollectOwner
<1>4. /\ Ring # <<>> /\ Head(Ring) = b /\ Ring' = Tail(Ring)
  <2>1. PICK m \in [avail : Seq(Bufs), held : Seq(Bufs), used : Seq(Bufs)] : m = queue["ctrl"]
    BY <1>2 DEF OwnerInv, Typed, Line
  <2>2. PICK u \in Seq(Bufs), h \in Seq(Bufs), a \in Seq(Bufs) : u = m.used /\ h = m.held /\ a = m.avail
    BY <2>1
  <2>3. PICK l : l = [m EXCEPT !.used = Tail(m.used)]
    OBVIOUS
  <2>4. queue'["ctrl"] = l
    BY <1>2, <2>1, <2>3 DEF DpcCollect
  <2>5. l.used = Tail(u) /\ l.held = h /\ l.avail = a
    BY <2>1, <2>2, <2>3
  <2>6. u # <<>> /\ b = Head(u)
    BY <1>1, <1>3, <2>1, <2>2
  <2>7. /\ (Tail(u) \o h) \o a = Tail((u \o h) \o a)
        /\ (u \o h) \o a # <<>> /\ Head((u \o h) \o a) = Head(u)
    <3>1. RowStarts(u, h, a)
      BY <2>6, CollectedInOrder, Zenon
    <3>. QED
      BY <3>1, Zenon DEF RowStarts
  <2>8. Ring = (u \o h) \o a
    BY <2>1, <2>2 DEF Ring
  <2>9. Ring' = (Tail(u) \o h) \o a
    BY <2>4, <2>5 DEF Ring
  <2>. QED
    BY <2>6, <2>7, <2>8, <2>9
<1>5. Ring \in Seq(Bufs)
  BY RingFacts DEF OwnerInv
<1> HIDE DEF Ring, At
<1>6. /\ Len(Ring) \in Nat /\ Len(Ring') = Len(Ring) - 1
      /\ \A i \in 1 .. Len(Ring') : i \in Nat /\ i + 1 \in 1 .. Len(Ring) /\ Ring'[i] = Ring[i + 1]
  <2>1. /\ Len(Tail(Ring)) = Len(Ring) - 1
        /\ \A i \in 1 .. Len(Tail(Ring)) : Tail(Ring)[i] = Ring[i + 1]
    BY <1>4, <1>5, HeadTailProperties
  <2>. QED
    BY <1>4, <1>5, <2>1
<1>7. \A k, l \in 1 .. Len(list3d') : \A i, j \in 1 .. Len(Ring') :
          Ring'[i] = list3d'[k] /\ Ring'[j] = list3d'[l] /\ k < l => i < j
  <2> SUFFICES ASSUME NEW k \in 1 .. Len(list3d), NEW l \in 1 .. Len(list3d),
                      NEW i \in 1 .. Len(Ring'), NEW j \in 1 .. Len(Ring'),
                      Ring'[i] = list3d[k], Ring'[j] = list3d[l], k < l
               PROVE  i < j
    BY <1>1
  <2>1. i \in Nat /\ j \in Nat /\ Ring[i + 1] = list3d[k] /\ Ring[j + 1] = list3d[l]
        /\ i + 1 \in 1 .. Len(Ring) /\ j + 1 \in 1 .. Len(Ring)
    BY <1>6
  <2>2. PICK m \in 1 .. Len(Ring), n \in 1 .. Len(Ring) : m = i + 1 /\ n = j + 1
    BY <2>1
  <2>3. m < n
    BY <2>1, <2>2 DEF OrderInv
  <2>. QED
    BY <2>1, <2>2, <2>3
<1>8. b \in BigBufs => Handed(b, "dpc", c)
  <2>1. ASSUME b \in BigBufs, Handed(b, "woken", "worker"), "worker" \in signalled'
        PROVE  FALSE
    <3>1. At(b, "woken", "worker")'
      BY <1>2, <2>1 DEF Handed
    <3>2. thr'["worker"].buf = b
      BY <3>1 DEF At
    <3>3. OwnerInv'
      BY DpcCollectOwner
    <3>4. b \in Pool
      BY <2>1, <3>2, <3>3, Names DEF OwnerInv, WakeInv, ThreadInv
    <3>. QED
      BY <2>1, <3>4, Names
  <2>. QED
    BY <1>3, <2>1
<1>9. b \in BigBufs => list3d # <<>> /\ Head(list3d) = b
  BY <1>1, <1>4, CollectsFirst
<1>10. ASSUME NEW a \in BigBufs
       PROVE  a \in Range(list3d') <=> \E k \in Kinds, x \in Hands : At(a, k, x)'
  <2>1. a \in Range(list3d) <=> \E k \in Kinds, x \in Hands : At(a, k, x)
    BY DEF OrderInv
  <2>2. CASE a = b
    BY <1>1, <1>2, <1>3, <1>8, <2>1, <2>2, Names DEF Handed
  <2>3. CASE a # b
    BY <1>1, <1>2, <1>3, <2>1, <2>3 DEF Handed
  <2>. QED
    BY <2>2, <2>3
<1>11. \A a \in BigBufs, x \in Hands : At(a, "dpc", x)' => list3d' # <<>> /\ Head(list3d') = a
  BY <1>1, <1>2, <1>3, <1>8, <1>9 DEF Handed, OrderInv
<1>12. \A a \in BigBufs, x \in Hands : At(a, "thread", x)' =>
          list3d'[Len(list3d')] = a /\ x \in Clients /\ "submit" \in Program[x]
  BY <1>1, <1>2, <1>3, <1>8 DEF Handed, OrderInv
<1>13. IsInjective(list3d')
  BY <1>1 DEF OrderInv
<1>. QED
  BY <1>7, <1>10, <1>11, <1>12, <1>13 DEF OrderInv

\* The DPC is done with a command: one for 3D was the first on the list, and is freed.
LEMMA SettleOrder ==
    ASSUME OwnerInv, OrderInv, NEW c \in Cpus, DpcSettle(c)
    PROVE  /\ OrderInv'
           /\ dpc[c].buf \in BigBufs => dpc[c].buf \notin Range(list3d')
<1>1. queue' = queue /\ thr' = thr /\ dpc[c].pc = "settle" /\ Ring' = Ring
  BY DEF DpcSettle, qvars, Ring
<1>2. {"queue", "dpc", "thread", "pool", "woken"} = Kinds /\ BigBufs \subseteq Bufs /\ c \in Hands
      /\ Pool \cap BigBufs = {}
  BY Names DEF Kinds
<1>3. PICK b \in Bufs : b = dpc[c].buf
  BY <1>1 DEF OwnerInv, SettleInv, Typed, DpcType
<1>4. ASSUME NEW a \in BigBufs, NEW x \in Hands
      PROVE  /\ At(a, "thread", x)' <=> At(a, "thread", x)
             /\ At(a, "queue", x)' <=> At(a, "queue", x)
             /\ At(a, "woken", x)' <=> At(a, "woken", x)
  BY <1>1, <1>2, AtIs, AtNext DEF DpcSettle, Posted
<1>5. OwnerInv'
  BY DpcSettleOwner
<1>6. CASE b \notin BigBufs
  <2>1. list3d' = list3d /\ vbuf' = vbuf
    BY <1>3, <1>6 DEF DpcSettle
  <2>2. ASSUME NEW a \in BigBufs, NEW x \in Hands
        PROVE  /\ At(a, "dpc", x)' <=> At(a, "dpc", x)
               /\ ~At(a, "pool", x) /\ ~At(a, "pool", x)'
    <3>1. Range(free) \subseteq Pool /\ Range(free') \subseteq Pool
      BY <1>5, RangeIs DEF OwnerInv, Typed
    <3>2. dpc' = [dpc EXCEPT ![c] = [dpc[c] EXCEPT !.pc = "scan", !.buf = NULL]]
          /\ DOMAIN dpc = Cpus /\ dpc[c] \in DpcType
      BY DEF DpcSettle, OwnerInv, Typed
    <3>3. dpc'[c].buf = NULL /\ \A y \in Cpus : y # c => dpc'[y] = dpc[y]
      BY <3>2 DEF DpcType
    <3>. QED
      BY <1>2, <1>3, <1>6, <2>1, <3>1, <3>3, AtIs, AtNext, Names
  <2>3. BigKept
    BY <1>2, <1>4, <2>2 DEF BigKept
  <2>. QED
    BY <1>1, <1>3, <1>6, <2>1, <2>3, OrderKept
<1>7. CASE b \in BigBufs
  <2>1. vbuf[b].op = "submit"
    BY <1>1, <1>3, <1>7 DEF OwnerInv, SettleInv
  <2>2. ReleaseCmdBuffer(b)
    BY <1>3, <1>7, <2>1 DEF DpcSettle
  <2>3. At(b, "dpc", c)
    BY <1>2, <1>3, <2>1, AtIs
  <2>4. list3d # <<>> /\ Head(list3d) = b
    BY <1>2, <1>7, <2>3 DEF OrderInv
  <2>5. list3d' = Tail(list3d) /\ free' = free /\ \A a \in Bufs : a # b => vbuf'[a] = vbuf[a]
    BY <2>2, <2>4 DEF ReleaseCmdBuffer, OwnerInv, Typed
  <2>6. /\ list3d \in Seq(BigBufs) /\ list3d' \in Seq(BigBufs) /\ IsInjective(list3d')
        /\ Range(list3d') = Range(list3d) \ {b}
    BY <2>4, <2>5, TailFacts DEF OwnerInv, Typed, OrderInv
  <2>7. /\ Len(list3d) \in Nat \ {0} /\ Len(list3d') = Len(list3d) - 1
        /\ \A k \in 1 .. Len(list3d') : list3d'[k] = list3d[k + 1]
    BY <2>4, <2>5, <2>6, HeadTailProperties, EmptySeq
  <2>8. \A k \in Kinds, x \in Hands : At(b, k, x) => k = "dpc" /\ x = c
    BY <1>2, <1>3, <2>3 DEF OwnerInv, Apart
  <2>9. ASSUME NEW k \in Kinds, NEW x \in Hands
        PROVE  ~At(b, k, x)'
    <3>1. dpc' = [dpc EXCEPT ![c] = [dpc[c] EXCEPT !.pc = "scan", !.buf = NULL]]
          /\ DOMAIN dpc = Cpus /\ dpc[c] \in DpcType
      BY DEF DpcSettle, OwnerInv, Typed
    <3>2. dpc'[c].buf = NULL /\ \A y \in Cpus : y # c => dpc'[y] = dpc[y]
      BY <3>1 DEF DpcType
    <3>3. k = "dpc" => ~At(b, k, x)'
      <4>1. \A y \in Cpus : y # c => dpc[y].buf # b
        <5> SUFFICES ASSUME NEW y \in Cpus, y # c, dpc[y].buf = b PROVE FALSE
          OBVIOUS
        <5>1. y \in Hands /\ At(b, "dpc", y)
          BY <1>2, <2>1, AtIs, Names
        <5>. QED
          BY <1>2, <2>8, <5>1
      <4>. QED
        BY <1>3, <3>2, <4>1, AtNext, Names
    <3>4. k = "pool" => ~At(b, k, x)'
      <4>1. ~At(b, "pool", x)
        BY <1>2, <2>8
      <4>. QED
        BY <2>5, <4>1, AtIs, AtNext
    <3>5. k \in {"thread", "queue", "woken"} => ~At(b, k, x)'
      BY <1>2, <1>4, <1>7, <2>8
    <3>. QED
      BY <1>2, <3>3, <3>4, <3>5
  <2>10. ASSUME NEW a \in BigBufs, a # b, NEW k \in Kinds, NEW x \in Hands
         PROVE  At(a, k, x)' <=> At(a, k, x)
    <3>1. dpc' = [dpc EXCEPT ![c] = [dpc[c] EXCEPT !.pc = "scan", !.buf = NULL]]
          /\ DOMAIN dpc = Cpus /\ dpc[c] \in DpcType
      BY DEF DpcSettle, OwnerInv, Typed
    <3>2. dpc'[c].buf = NULL /\ \A y \in Cpus : y # c => dpc'[y] = dpc[y]
      BY <3>1 DEF DpcType
    <3>3. k = "dpc" => (At(a, k, x)' <=> At(a, k, x))
      BY <1>2, <1>3, <2>5, <2>10, <3>2, AtIs, AtNext, Names
    <3>4. k = "pool" => (At(a, k, x)' <=> At(a, k, x))
      BY <1>2, <2>5, AtIs, AtNext
    <3>. QED
      BY <1>2, <1>4, <3>3, <3>4
  <2>11. ASSUME NEW a \in BigBufs
         PROVE  a \in Range(list3d') <=> \E k \in Kinds, x \in Hands : At(a, k, x)'
    <3>1. a \in Range(list3d) <=> \E k \in Kinds, x \in Hands : At(a, k, x)
      BY DEF OrderInv
    <3>2. CASE a = b
      BY <2>6, <2>9, <3>2
    <3>3. CASE a # b
      BY <2>6, <2>10, <3>1, <3>3
    <3>. QED
      BY <3>2, <3>3
  <2>12. ASSUME NEW a \in BigBufs, NEW x \in Hands, At(a, "dpc", x)'
         PROVE  FALSE
    <3>1. a # b
      BY <1>2, <2>9, <2>12
    <3>2. At(a, "dpc", x)
      BY <1>2, <2>10, <2>12, <3>1
    <3>. QED
      BY <2>4, <3>1, <3>2 DEF OrderInv
  <2>13. ASSUME NEW a \in BigBufs, NEW x \in Hands, At(a, "thread", x)'
         PROVE  list3d'[Len(list3d')] = a /\ x \in Clients /\ "submit" \in Program[x]
    <3>1. a # b
      BY <1>2, <2>9, <2>13
    <3>2. At(a, "thread", x)
      BY <1>4, <2>13
    <3>3. list3d[Len(list3d)] = a /\ x \in Clients /\ "submit" \in Program[x]
      BY <3>2 DEF OrderInv
    <3>4. Len(list3d) # 1
      BY <2>4, <3>1, <3>3
    <3>5. Len(list3d') \in 1 .. Len(list3d') /\ Len(list3d') + 1 = Len(list3d)
      BY <2>7, <3>4
    <3>. QED
      BY <2>7, <3>3, <3>5
  <2>14. ASSUME NEW k \in 1 .. Len(list3d'), NEW l \in 1 .. Len(list3d'),
                NEW i \in 1 .. Len(Ring), NEW j \in 1 .. Len(Ring),
                Ring[i] = list3d'[k], Ring[j] = list3d'[l], k < l
         PROVE  i < j
    <3>1. k + 1 \in 1 .. Len(list3d) /\ l + 1 \in 1 .. Len(list3d)
      BY <2>7
    <3>2. PICK m \in 1 .. Len(list3d), n \in 1 .. Len(list3d) : m = k + 1 /\ n = l + 1
      BY <3>1
    <3>3. m < n /\ Ring[i] = list3d[m] /\ Ring[j] = list3d[n]
      BY <2>7, <2>14, <3>2
    <3>. QED
      BY <3>3 DEF OrderInv
  <2> HIDE DEF Ring, At
  <2>15. OrderInv'
    BY <1>1, <2>6, <2>11, <2>12, <2>13, <2>14 DEF OrderInv
  <2>16. b \notin Range(list3d')
    BY <2>6
  <2>. QED
    BY <1>3, <2>15, <2>16
<1>. QED
  BY <1>6, <1>7

\* At the start nothing is on the list or posted.
LEMMA InitOrder == Init => OrderInv
<1> SUFFICES ASSUME Init PROVE OrderInv
  OBVIOUS
<1>1. OwnerInv
  BY InitOwner
<1>2. list3d = <<>> /\ Len(list3d) = 0 /\ list3d \in Seq(BigBufs) /\ Range(list3d) = {}
      /\ IsInjective(list3d)
  BY RangeIs DEF Init, Range, IsInjective
<1>3. ASSUME NEW b \in BigBufs, NEW k \in Kinds, NEW x \in Hands, At(b, k, x)
      PROVE  FALSE
  BY <1>1, <1>3, BigHands, Names, OpFacts DEF Init
<1>4. {"dpc", "thread"} \subseteq Kinds
  BY DEF Kinds
<1> HIDE DEF Ring, At
<1>. QED
  BY <1>2, <1>3, <1>4 DEF OrderInv

\* Every step preserves the order.
LEMMA NextOrder ==
    ASSUME KeepsUp, InOrder, OneSubmitter, IsFiniteSet(Cpus),
           IInv, IInv', RoomInv, OrderInv, [Next]_vars, [SettlesFirst]_vars
    PROVE  OrderInv'
<1> USE DEF IInv
<1> HIDE DEF OrderInv, SettlesFirst
<1>1. ASSUME BigKept, list3d' = list3d, queue' = queue
      PROVE  OrderInv'
  BY <1>1, OrderKept DEF Ring
<1>2. NULL \in Hands /\ "worker" \in Hands /\ Threads \subseteq Hands /\ Queues \subseteq Hands
      /\ Cpus \subseteq Hands
  BY Names
<1>3. ASSUME NEW t \in Threads, NEW op \in Ops, GetBuf(t, op)
      PROVE  OrderInv'
  <2>1. BigKept
    BY <1>2, <1>3, GetBufOwner, PoolMoves DEF Kinds
  <2>2. list3d' = list3d /\ queue' = queue
    BY <1>3 DEF GetBuf, Begin, qvars
  <2>. QED
    BY <1>1, <2>1, <2>2
<1>4. ASSUME NEW t \in Threads, NEW op \in Ops, GetBufNull(t, op)
      PROVE  OrderInv'
  <2>1. BigKept
    BY <1>4, FlagsQuiet, PoolMoves
  <2>2. list3d' = list3d /\ queue' = queue
    BY <1>4 DEF GetBufNull, drivervars, qvars
  <2>. QED
    BY <1>1, <2>1, <2>2
<1>5. ASSUME NEW t \in Threads, QueueBuffer(t)
      PROVE  OrderInv'
  BY <1>5, PostOrder
<1>6. ASSUME NEW t \in Threads, QueueBufferTooBig(t)
      PROVE  OrderInv'
  <2>1. BigKept
    <3>1. thr[t].buf \in Pool
      BY <1>6, FillerHas DEF QueueBufferTooBig, OwnerInv, ThreadInv, Bufs
    <3>2. Handed(thr[t].buf, "pool", NULL) /\ "pool" \in Kinds
      BY <1>6, TooBigOwner DEF Kinds
    <3>. QED
      BY <1>2, <3>1, <3>2, PoolMoves
  <2>2. list3d' = list3d /\ queue' = queue
    BY <1>6 DEF QueueBufferTooBig, qvars
  <2>. QED
    BY <1>1, <2>1, <2>2
<1>7. ASSUME NEW t \in Threads, Kick(t) \/ TransferDone(t)
      PROVE  OrderInv'
  <2>1. BigKept
    BY <1>7, KickOwner, TransferDoneOwner, PoolMoves
  <2>2. list3d' = list3d /\ queue' = queue
    BY <1>7 DEF Kick, TransferDone, qvars
  <2>. QED
    BY <1>1, <2>1, <2>2
<1>8. ASSUME NEW t \in Clients, NEW b \in BigBufs, CreateCmdBuffer(t, b)
      PROVE  OrderInv'
  BY <1>8, CreateOrder
<1>9. CASE WorkerWake \/ ClearEvents
  <2>1. BigKept
    BY <1>9, WorkerOwner, PoolMoves
  <2>2. list3d' = list3d /\ queue' = queue
    BY <1>9 DEF WorkerWake, ClearEvents, qvars
  <2>. QED
    BY <1>1, <2>1, <2>2
<1>10. CASE UNCHANGED vars
  <2>1. BigKept
    BY <1>10, StutterOwner, PoolMoves
  <2>2. list3d' = list3d /\ queue' = queue
    BY <1>10 DEF vars
  <2>. QED
    BY <1>1, <2>1, <2>2
<1>11. CASE GetDisplayInfo
  <2>1. CASE SettlesFirst
    <3>1. BigKept
      BY <1>2, <1>11, <2>1, GetDisplayInfoOwner, PoolMoves DEF Kinds
    <3>2. list3d' = list3d /\ queue' = queue
      BY <1>11 DEF GetDisplayInfo, qvars
    <3>. QED
      BY <1>1, <3>1, <3>2
  <2>. QED
    BY <1>10, <2>1
<1>12. CASE Interrupt \/ DevChange
  <2>1. BigKept
    BY <1>12, FlagsQuiet, PoolMoves DEF Interrupt
  <2>2. list3d' = list3d /\ queue' = queue
    BY <1>12 DEF Interrupt, InterruptQueue, InterruptChange, InterruptUnknown, RaiseDpc, DevChange,
                 drivervars, qvars
  <2>. QED
    BY <1>1, <2>1, <2>2
<1>13. ASSUME NEW c \in Cpus, Dpc(c)
       PROVE  OrderInv'
  <2>1. CASE DpcStart(c) \/ DpcExchange(c) \/ DpcCtrlEmpty(c) \/ DpcChange(c)
    <3>1. BigKept
      BY <2>1, DpcQuiet, PoolMoves
    <3>2. list3d' = list3d /\ queue' = queue
      BY <2>1 DEF DpcStart, DpcExchange, DpcCtrlEmpty, DpcChange, drivervars, qvars
    <3>. QED
      BY <1>1, <3>1, <3>2
  <2>2. CASE DpcCursor(c)
    <3>1. BigKept
      BY <1>2, <2>2, DpcCursorOwner, PoolMoves DEF Kinds
    <3>2. list3d' = list3d /\ Ring' = Ring
      <4>1. "ctrl" \in Queues /\ DOMAIN queue = Queues
        BY DEF OwnerInv, Typed, Queues
      <4>2. queue'["ctrl"] = queue["ctrl"] /\ list3d' = list3d
        BY <2>2, <4>1 DEF DpcCursor
      <4>. QED
        BY <4>2 DEF Ring
    <3>. QED
      BY <3>1, <3>2, OrderKept
  <2>. QED
    BY <1>13, <2>1, <2>2, CollectOrder, SettleOrder DEF Dpc
<1>14. ASSUME NEW q \in Queues, DevTake(q) \/ DevServe(q)
       PROVE  OrderInv'
  BY <1>14, DeviceOrder
<1>. QED
  BY <1>3, <1>4, <1>5, <1>6, <1>7, <1>8, <1>9, <1>10, <1>11, <1>12, <1>13, <1>14
     DEF Next, Allocate, Go, Worker

\* "ASSERT(released == TRUE)" in ReleaseCmdBuffer: while the device keeps up and completes
\* in order, and one thread submits, every completed 3D command is the first on the list
\* and is freed.  One thread: two could put their commands on the list in one order and
\* into the queue in the other.
THEOREM ReleasedCorrect ==
    KeepsUp /\ InOrder /\ OneSubmitter /\ IsFiniteSet(Cpus)
      => (Spec /\ [][SettlesFirst]_vars => CompletedIsReleased)
<1> SUFFICES ASSUME KeepsUp, InOrder, OneSubmitter, IsFiniteSet(Cpus)
             PROVE  Spec /\ [][SettlesFirst]_vars => CompletedIsReleased
  OBVIOUS
<1>1. Init => SteadyInv /\ OrderInv
  BY InitSteady, InitOrder
<1>2. SteadyInv /\ OrderInv /\ [Next]_vars /\ [SettlesFirst]_vars => (SteadyInv /\ OrderInv)'
  <2> SUFFICES ASSUME SteadyInv, OrderInv, [Next]_vars, [SettlesFirst]_vars
               PROVE  (SteadyInv /\ OrderInv)'
    OBVIOUS
  <2>1. SteadyInv'
    BY NextSteady
  <2>. QED
    BY <2>1, NextOrder DEF SteadyInv
<1>3. SteadyInv /\ OrderInv /\ [Next]_vars =>
        [\A b \in BigBufs :
           (\E c \in Cpus : dpc[c].buf = b /\ dpc'[c].buf # b) => b \notin Range(list3d')]_vars
  <2> SUFFICES ASSUME SteadyInv, OrderInv, [Next]_vars, NEW b \in BigBufs, NEW c \in Cpus,
                      dpc[c].buf = b, dpc'[c].buf # b
               PROVE  b \notin Range(list3d')
    OBVIOUS
  <2>1. OwnerInv /\ FlagsTyped /\ dpc[c].pc = "settle"
    BY Names DEF SteadyInv, IInv, OwnerInv, SettleInv
  <2>2. dpc' # dpc
    OBVIOUS
  <2>3. PICK d \in Cpus : Dpc(d)
    BY <2>2, ZenonT(60) DEF Next, vars, dpcvars, configvars, drivervars, Allocate, GetBuf, GetBufNull, Begin, Go,
         QueueBuffer, QueueBufferTooBig, Kick, TransferDone, CreateCmdBuffer, Worker, WorkerWake,
         GetDisplayInfo, ClearEvents, Interrupt, InterruptQueue, InterruptChange, InterruptUnknown,
         RaiseDpc, DevTake, DevServe, DevComplete, DevChange
  <2>4. d = c
    <3>1. Cardinality(Cpus) = 1
      BY CpuAssumption
    <3>. QED
      BY <3>1, FS_Singleton
  <2>5. DpcSettle(c)
    BY <2>1, <2>3, <2>4 DEF Dpc, DpcStart, DpcExchange, DpcCollect, DpcCtrlEmpty, DpcCursor, DpcChange
  <2>. QED
    BY <2>1, <2>5, SettleOrder
<1>. QED
  BY <1>1, <1>2, <1>3, PTL DEF Spec, CompletedIsReleased

-----------------------------------------------------------------------------
(* Without display changes                                                 *)

\* No reason to wake the worker has been seen.
NoChange ==
    /\ "CONFIG" \notin isr /\ "CHANGE" \notin pending /\ ~config_event
    /\ DOMAIN dpc = Cpus /\ \A c \in Cpus : "CHANGE" \notin dpc[c].reason
    /\ DOMAIN thr = Threads /\ thr["worker"].pc = "idle"
    /\ \A c \in Cpus : DOMAIN dpc[c] = {"pc", "reason", "buf"}

\* Where the device reports no change of the display the worker never asks for anything, and
\* SettlesFirst, the hypothesis of the theorems above, holds.
THEOREM NoChangeSettles ==
    "CONFIG" \notin ConfigBits => (Spec => [][SettlesFirst]_vars)
<1> SUFFICES ASSUME "CONFIG" \notin ConfigBits PROVE Spec => [][SettlesFirst]_vars
  OBVIOUS
<1>1. Init => NoChange
  BY DEF Init, NoChange, Threads
<1>2. NoChange /\ [Next]_vars => NoChange' /\ [SettlesFirst]_vars
  <2> SUFFICES ASSUME NoChange, [Next]_vars PROVE NoChange' /\ ~GetDisplayInfo
    BY DEF SettlesFirst
  <2> USE DEF NoChange, drivervars, qvars, dpcvars, configvars
  <2>0. ~GetDisplayInfo
    BY DEF GetDisplayInfo
  <2>1. ASSUME NEW t \in Threads, NEW op \in Ops, GetBuf(t, op) \/ GetBufNull(t, op)
        PROVE  NoChange'
    <3>1. t # "worker"
      BY <2>1 DEF GetBuf, GetBufNull, MayBegin
    <3>2. UNCHANGED <<isr, pending, config_event, dpc>>
      BY <2>1 DEF GetBuf, GetBufNull, Begin
    <3>3. thr' = thr \/ \E w : thr' = [thr EXCEPT ![t] = w]
      BY <2>1 DEF GetBuf, GetBufNull, Begin
    <3>4. DOMAIN thr' = Threads /\ thr'["worker"] = thr["worker"]
      BY <3>1, <3>3, Names
    <3>. QED
      BY <3>2, <3>4
  <2>2. ASSUME NEW t \in Clients, NEW b \in BigBufs, CreateCmdBuffer(t, b)
        PROVE  NoChange'
    BY <2>2, NameAssumption DEF CreateCmdBuffer, Begin
  <2>3. ASSUME NEW t \in Threads, Go(t)
        PROVE  NoChange'
    <3>1. t # "worker"
      BY <2>3 DEF Go, QueueBuffer, QueueBufferTooBig, Kick, TransferDone
    <3>2. UNCHANGED <<isr, pending, config_event, dpc>>
      BY <2>3 DEF Go, QueueBuffer, QueueBufferTooBig, Kick, TransferDone
    <3>3. \E w : thr' = [thr EXCEPT ![t] = w]
      BY <2>3 DEF Go, QueueBuffer, QueueBufferTooBig, Kick, TransferDone
    <3>4. DOMAIN thr' = Threads /\ thr'["worker"] = thr["worker"]
      BY <3>1, <3>3, Names
    <3>. QED
      BY <3>2, <3>4
  <2>4. Worker => NoChange'
    BY DEF Worker, WorkerWake, GetDisplayInfo, ClearEvents
  <2>5. Interrupt => NoChange'
    BY DEF Interrupt, InterruptQueue, InterruptChange, InterruptUnknown, RaiseDpc
  <2>6. ASSUME NEW c \in Cpus, Dpc(c)
        PROVE  NoChange'
    <3>1. CASE DpcStart(c)
      BY <3>1 DEF DpcStart
    <3>2. CASE DpcExchange(c)
      BY <3>2 DEF DpcExchange
    <3>3. CASE DpcCollect(c)
      BY <3>3 DEF DpcCollect
    <3>4. CASE DpcSettle(c)
      BY <3>4 DEF DpcSettle, ReleaseCmdBuffer
    <3>5. CASE DpcCtrlEmpty(c)
      BY <3>5 DEF DpcCtrlEmpty
    <3>6. CASE DpcCursor(c)
      BY <3>6 DEF DpcCursor
    <3>7. CASE DpcChange(c)
      BY <3>7 DEF DpcChange
    <3>. QED
      BY <2>6, <3>1, <3>2, <3>3, <3>4, <3>5, <3>6, <3>7 DEF Dpc
  <2>7. ASSUME NEW q \in Queues, DevTake(q) \/ DevServe(q)
        PROVE  NoChange'
    <3>1. UNCHANGED <<thr, pending, config_event, dpc>> /\ "CONFIG" \notin isr'
      <4>1. CASE DevTake(q)
        BY <4>1 DEF DevTake
      <4>2. CASE DevServe(q)
        BY <4>2 DEF DevServe, DevComplete
      <4>. QED
        BY <2>7, <4>1, <4>2
    <3>. QED
      BY <3>1
  <2>8. DevChange \/ UNCHANGED vars => NoChange'
    BY DEF DevChange, vars
  <2>. QED
    BY <2>0, <2>1, <2>2, <2>3, <2>4, <2>5, <2>6, <2>7, <2>8 DEF Next, Allocate
<1>. QED
  BY <1>1, <1>2, PTL DEF Spec

\* No thread runs while a DPC does: so it is on one processor, where a DPC, at
\* DISPATCH_LEVEL, runs to its end before a thread is scheduled again.
ThreadsYield == GetDisplayInfo => \A c \in Cpus : dpc[c].pc = "off"

\* On one processor the DPC has decided who releases a command before its waiter runs
\* (the event is set at viogpudo.cpp:3518, the command read after it): SettlesFirst,
\* the hypothesis of the theorems above, holds.
THEOREM ThreadsYieldSettles == Spec /\ [][ThreadsYield]_vars => [][SettlesFirst]_vars
<1>1. OwnerInv /\ [Next]_vars /\ [ThreadsYield]_vars => [SettlesFirst]_vars
  <2> SUFFICES ASSUME OwnerInv, ThreadsYield, GetDisplayInfo, NEW c \in Cpus
               PROVE  dpc[c].buf # thr["worker"].buf
    BY DEF SettlesFirst
  <2>1. dpc[c].buf = NULL
    BY DEF ThreadsYield, OwnerInv, SettleInv
  <2>2. thr["worker"].buf \in Pool
    BY Names DEF GetDisplayInfo, OwnerInv, ThreadInv
  <2>. QED
    BY <2>1, <2>2, Names
<1>. QED
  BY <1>1, InitOwner, NextOwner, NextFlags, PTL DEF Spec
==============================================================================
