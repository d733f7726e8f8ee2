--------------------------- MODULE VirtqueueProofs ---------------------------
(***************************************************************************)
(* Theorems about Virtqueue, for every ring size, every set of buffers and *)
(* scatter lists, and every order in which the device returns the chains.  *)
(* The accounting of the descriptors holds for every device, the one that  *)
(* returns ids it was never given included; where the chains are, what the *)
(* device reads in them, and that the queue implements BufferExchange, is  *)
(* proved of a device that returns what it was given (BadIds = {}).        *)
(*                                                                         *)
(* The chains are followed first (the walk that Follow defines exists, is  *)
(* unique, and survives what the driver does to other descriptors), then   *)
(* come the three ways to rearrange the table, the accounting invariant,   *)
(* and on top of it the places and the contents of the posted chains.  The *)
(* last part reads the tokens off the table and the rings and shows, step  *)
(* by step, that they behave as the abstract specification says.           *)
(***************************************************************************)
EXTENDS VirtqueueRefinement, NumberSets

-----------------------------------------------------------------------------
(* Following next                                                           *)

\* The sizes, in the form the proofs below use them.
LEMMA DescsFacts ==
    /\ 0 \in Descs
    /\ Num \in Nat /\ Num >= 1
    /\ Descs \subseteq Nat
    /\ IdxMod \in Nat /\ IdxMod > Num
BY NumAssumption, IdxModAssumption DEF Descs

\* Follow(table, from) is the walk it is meant to be: the recursive equation that
\* defines it has a solution.
LEMMA FollowWalks ==
    ASSUME NEW table \in [Descs -> Descriptor], NEW from \in Descs
    PROVE  /\ Follow(table, from) \in [1 .. Num -> Descs]
           /\ Follow(table, from)[1] = from
           /\ \A k \in 1 .. (Num - 1) :
                Follow(table, from)[k + 1] = table[Follow(table, from)[k]].next
<1> USE DescsFacts
<1>0. \A d \in Descs : table[d].next \in Descs
  BY DEF Descriptor
<1> DEFINE Walk(n, w) ==
             /\ w \in [1 .. n -> Descs]
             /\ w[1] = from
             /\ \A k \in 1 .. (n - 1) : w[k + 1] = table[w[k]].next
           S == {n \in Nat : \E w : Walk(n, w)}
<1>1. 1 \in S
  <2>1. Walk(1, [k \in 1 .. 1 |-> from])
    OBVIOUS
  <2>. QED
    BY <2>1
<1>2. ASSUME NEW n \in 1 .. (Num - 1), n \in S
      PROVE  n + 1 \in S
  <2>1. PICK w : Walk(n, w)
    BY <1>2
  <2> DEFINE v == [k \in 1 .. (n + 1) |-> IF k <= n THEN w[k] ELSE table[w[n]].next]
  <2>2. v \in [1 .. (n + 1) -> Descs]
    <3>1. table[w[n]].next \in Descs
      <4>1. w[n] \in Descs
        BY <2>1
      <4>. QED
        BY <1>0, <4>1
    <3>2. \A k \in 1 .. (n + 1) : k <= n => w[k] \in Descs
      BY <2>1
    <3>. QED
      BY <3>1, <3>2
  <2>3. v[1] = from
    BY <2>1
  <2>4. ASSUME NEW k \in 1 .. n
        PROVE  v[k + 1] = table[v[k]].next
    <3>1. CASE k = n
      BY <3>1
    <3>2. CASE k < n
      BY <2>1, <3>2
    <3>. QED
      BY <3>1, <3>2
  <2>5. Walk(n + 1, v)
    BY <2>2, <2>3, <2>4, SMTT(60)
  <2> HIDE DEF v, Walk
  <2>. QED
    BY <2>5
<1>3. 1 .. Num \subseteq S
  <2> HIDE DEF S
  <2>. QED
    BY <1>1, <1>2, IntervalInduction
<1>4. PICK w : Walk(Num, w)
  <2>1. Num \in S
    BY <1>3, SMTT(60)
  <2> HIDE DEF Walk
  <2>. QED
    BY <2>1
<1>5. w = [k \in 1 .. Num |-> IF k = 1 THEN from ELSE table[w[k - 1]].next]
  <2>1. ASSUME NEW k \in 1 .. Num, k # 1
        PROVE  w[k] = table[w[k - 1]].next
    <3>1. k - 1 \in 1 .. (Num - 1) /\ (k - 1) + 1 = k
      BY <2>1
    <3>. QED
      BY <1>4, <3>1
  <2>. QED
    BY <1>4, <2>1
<1> DEFINE f == Follow(table, from)
<1>6. f = [k \in 1 .. Num |-> IF k = 1 THEN from ELSE table[f[k - 1]].next]
  BY <1>5, Zenon DEF Follow
<1> HIDE DEF f
<1>7. f[1] = from /\ \A k \in 1 .. (Num - 1) : f[k + 1] = table[f[k]].next
  BY <1>6
<1>8. ASSUME NEW n \in 1 .. (Num - 1), f[n] \in Descs
      PROVE  f[n + 1] \in Descs
  BY <1>0, <1>7, <1>8
<1> DEFINE R == {n \in Nat : f[n] \in Descs}
<1>9. 1 .. Num \subseteq R
  <2>1. 1 \in R
    BY <1>7
  <2>2. \A n \in 1 .. (Num - 1) : n \in R => n + 1 \in R
    BY <1>8
  <2> HIDE DEF R
  <2>. QED
    BY <2>1, <2>2, IntervalInduction
<1>10. f \in [1 .. Num -> Descs]
  BY <1>6, <1>9
<1>. QED
  BY <1>7, <1>10 DEF f

\* The first n elements of c start at from and follow the next fields.
Traces(table, from, n, c) ==
    c[1] = from /\ \A k \in 1 .. (n - 1) : c[k + 1] = table[c[k]].next

\* t and u have the same next fields on a walk (the last one's excepted).
SameNexts(t, u, from, n) ==
    \A k \in 1 .. (n - 1) : u[Follow(t, from)[k]].next = t[Follow(t, from)[k]].next

\* Only one sequence starts at from and follows the next fields.
LEMMA FollowUnique ==
    ASSUME NEW table \in [Descs -> Descriptor], NEW from \in Descs,
           NEW n \in 1 .. Num, NEW c, Traces(table, from, n, c)
    PROVE  \A k \in 1 .. n : Follow(table, from)[k] = c[k]
<1> USE DEF Traces
<1> DEFINE f == Follow(table, from)
           S == {k \in Nat : f[k] = c[k]}
<1>1. 1 \in S
  BY FollowWalks
<1>2. ASSUME NEW k \in 1 .. (n - 1), k \in S
      PROVE  k + 1 \in S
  <2>1. k \in 1 .. (Num - 1) /\ k + 1 \in Nat
    BY DescsFacts
  <2>2. f[k + 1] = table[f[k]].next
    BY <2>1, FollowWalks
  <2>. QED
    BY <1>2, <2>1, <2>2
<1>3. 1 .. n \subseteq S
  <2> HIDE DEF S
  <2>1. n \in Nat
    BY DescsFacts
  <2>. QED
    BY <1>1, <1>2, <2>1, IntervalInduction
<1>. QED
  BY <1>3

\* A walk does not change when the next fields on it (the last one's excepted)
\* do not.
LEMMA FollowFrame ==
    ASSUME NEW t \in [Descs -> Descriptor], NEW u \in [Descs -> Descriptor],
           NEW from \in Descs, NEW n \in 1 .. Num, SameNexts(t, u, from, n)
    PROVE  \A k \in 1 .. n : Follow(u, from)[k] = Follow(t, from)[k]
<1> DEFINE c == Follow(t, from)
<1> USE DEF SameNexts
<1>1. c[1] = from
  BY FollowWalks
<1>2. \A k \in 1 .. (n - 1) : c[k + 1] = u[c[k]].next
  <2>1. \A k \in 1 .. (n - 1) : k \in 1 .. (Num - 1)
    BY DescsFacts
  <2>. QED
    BY <2>1, FollowWalks
<1> HIDE DEF c
<1>3. Traces(u, from, n, c)
  BY <1>1, <1>2 DEF Traces
<1>4. \A k \in 1 .. n : Follow(u, from)[k] = c[k]
  BY <1>3, FollowUnique
<1>. QED
  BY <1>4 DEF c

\* The rest of a walk is a walk.
LEMMA FollowShift ==
    ASSUME NEW table \in [Descs -> Descriptor], NEW from \in Descs,
           NEW m \in 1 .. (Num - 1)
    PROVE  LET rest == table[Follow(table, from)[m]].next
           IN  \A k \in 1 .. (Num - m) :
                 Follow(table, rest)[k] = Follow(table, from)[m + k]
<1> DEFINE f == Follow(table, from)
           c == [k \in 1 .. (Num - m) |-> f[m + k]]
           rest == table[f[m]].next
           n == Num - m
<1> USE DescsFacts
<1>1. /\ f \in [1 .. Num -> Descs]
      /\ \A k \in 1 .. (Num - 1) : f[k + 1] = table[f[k]].next
  BY FollowWalks
<1> HIDE DEF f
<1>2. rest \in Descs /\ c[1] = rest
  BY <1>1
<1>3. n \in 1 .. Num
  OBVIOUS
<1>4. \A k \in 1 .. (n - 1) : c[k + 1] = table[c[k]].next
  <2> TAKE k \in 1 .. (n - 1)
  <2>1. m + k \in 1 .. (Num - 1) /\ m + (k + 1) = (m + k) + 1
    OBVIOUS
  <2>2. c[k + 1] = f[(m + k) + 1] /\ c[k] = f[m + k]
    BY <2>1
  <2>. QED
    BY <1>1, <2>1, <2>2
<1> HIDE DEF c, rest, n
<1>5. \A k \in 1 .. n : Follow(table, rest)[k] = c[k]
  <2>1. Traces(table, rest, n, c)
    BY <1>2, <1>4 DEF Traces
  <2>. QED
    BY <1>2, <1>3, <2>1, FollowUnique
<1>. QED
  BY <1>5 DEF c, rest, f, n
-----------------------------------------------------------------------------
(* The three ways in which the driver rearranges the table                  *)

\* initialize_virtqueue links all descriptors into the free list.
LEMMA FreshPartition ==
    ASSUME NEW len
    PROVE  /\ FreshDesc \in [Descs -> Descriptor]
           /\ Partition(FreshDesc, 0, Num, {}, len)
<1> USE DescsFacts
<1>1. FreshDesc \in [Descs -> Descriptor]
  BY DEF FreshDesc, Descriptor, Addr
<1> DEFINE c == [k \in 1 .. Num |-> k - 1]
<1>2. c[1] = 0
  OBVIOUS
<1>3. \A k \in 1 .. (Num - 1) : c[k + 1] = FreshDesc[c[k]].next
  <2> TAKE k \in 1 .. (Num - 1)
  <2>1. c[k] = k - 1 /\ c[k + 1] = k /\ k - 1 \in Descs /\ k \in Descs
    BY DEF Descs
  <2>2. FreshDesc[k - 1].next = k
    BY <2>1 DEF FreshDesc
  <2>. QED
    BY <2>1, <2>2
<1> HIDE DEF c
<1>4. \A k \in 1 .. Num : Follow(FreshDesc, 0)[k] = c[k]
  <2>1. Num \in 1 .. Num /\ 0 \in Descs
    OBVIOUS
  <2>2. Traces(FreshDesc, 0, Num, c)
    BY <1>2, <1>3 DEF Traces
  <2>. QED
    BY <1>1, <2>1, <2>2, FollowUnique
<1>5. \A k \in 1 .. Num : Follow(FreshDesc, 0)[k] = k - 1
  BY <1>4 DEF c
<1>6. \A j, k \in 1 .. Num :
        Follow(FreshDesc, 0)[j] = Follow(FreshDesc, 0)[k] => j = k
  BY <1>5
<1>7. \A d \in Descs : \E k \in 1 .. Num : d = Follow(FreshDesc, 0)[k]
  <2> TAKE d \in Descs
  <2>1. d + 1 \in 1 .. Num
    BY DEF Descs
  <2>2. d = Follow(FreshDesc, 0)[d + 1]
    BY <1>5, <2>1 DEF Descs
  <2>. QED
    BY <2>1, <2>2
<1>. QED
  BY <1>1, <1>6, <1>7 DEF Partition

\* virtqueue_add_buf takes the first n descriptors of the free list and makes
\* them a chain; it changes no next field, and flags on that chain only.
LEMMA AddPartition ==
    ASSUME NEW t \in [Descs -> Descriptor], NEW u \in [Descs -> Descriptor],
           NEW first \in Descs, NEW nf \in 0 .. Num,
           NEW heads \in SUBSET Descs, NEW len \in [heads -> 1 .. Num],
           Partition(t, first, nf, heads, len),
           NEW n \in 1 .. nf,
           \A d \in Descs : u[d].next = t[d].next,
           \A d \in Descs : (\A k \in 1 .. n : Follow(t, first)[k] # d)
                                => u[d].flags = t[d].flags,
           \A k \in 1 .. n : "NEXT" \in u[Follow(t, first)[k]].flags <=> k < n,
           NEW len2, \A h \in heads \cup {first} : len2[h] = IF h = first THEN n ELSE len[h]
    PROVE  Partition(u, t[Follow(t, first)[n]].next, nf - n, heads \cup {first}, len2)
<1> DEFINE free == Follow(t, first)
           rest == t[free[n]].next
<1> USE DescsFacts
<1>1. /\ free \in [1 .. Num -> Descs]
      /\ free[1] = first
  BY FollowWalks
<1>2. /\ \A j, k \in 1 .. nf : free[j] = free[k] => j = k
      /\ \A h \in heads :
           /\ ChainLength(t, h, len[h])
           /\ \A j, k \in 1 .. len[h] : Follow(t, h)[j] = Follow(t, h)[k] => j = k
           /\ \A j \in 1 .. len[h], k \in 1 .. nf : Follow(t, h)[j] # free[k]
           /\ \A g \in heads \ {h} :
                \A j \in 1 .. len[h], k \in 1 .. len[g] :
                  Follow(t, h)[j] # Follow(t, g)[k]
      /\ \A d \in Descs :
           \/ \E k \in 1 .. nf : d = free[k]
           \/ \E h \in heads : \E k \in 1 .. len[h] : d = Follow(t, h)[k]
  BY DEF Partition
<1>3. \A h \in Descs : \A k \in 1 .. Num : Follow(u, h)[k] = Follow(t, h)[k]
  <2> TAKE h \in Descs
  <2>1. Follow(t, h) \in [1 .. Num -> Descs]
    BY FollowWalks
  <2>2. Num \in 1 .. Num /\ \A k \in 1 .. (Num - 1) : k \in 1 .. Num
    OBVIOUS
  <2>3. \A k \in 1 .. (Num - 1) :
          u[Follow(t, h)[k]].next = t[Follow(t, h)[k]].next
    BY <2>1, <2>2
  <2>4. SameNexts(t, u, h, Num)
    BY <2>3, Zenon DEF SameNexts
  <2>. QED
    BY <2>2, <2>4, FollowFrame
<1>4. \A h \in heads : Follow(t, h)[1] = h /\ h \in Descs /\ 1 \in 1 .. len[h]
  BY FollowWalks
<1>5. first \notin heads
  <2>1. 1 \in 1 .. nf
    OBVIOUS
  <2>. QED
    BY <1>1, <1>2, <1>4, <2>1
<1>6. /\ rest \in Descs
      /\ \A k \in 1 .. (nf - n) : Follow(u, rest)[k] = free[n + k]
  <2>1. n \in 1 .. Num /\ free[n] \in Descs /\ rest \in Descs
    <3>1. n \in 1 .. Num
      OBVIOUS
    <3>. QED
      BY <1>1, <3>1 DEF Descriptor
  <2>2. CASE n = Num
    BY <2>1, <2>2
  <2>3. CASE n < Num
    <3>1. n \in 1 .. (Num - 1) /\ 1 .. (nf - n) \subseteq 1 .. (Num - n)
          /\ 1 .. (nf - n) \subseteq 1 .. Num
      BY <2>3
    <3>2. \A k \in 1 .. (Num - n) : Follow(t, rest)[k] = free[n + k]
      BY <3>1, FollowShift
    <3>. QED
      BY <1>3, <2>1, <3>1, <3>2
  <2>. QED
    BY <2>1, <2>2, <2>3
<1>7. \A h \in heads \cup {first} : h \in Descs /\ len2[h] \in 1 .. Num
  OBVIOUS
<1>8. len2[first] = n /\ \A h \in heads : len2[h] = len[h]
  BY <1>5
<1> HIDE DEF rest, free
<1>9. /\ \A k \in 1 .. Num : Follow(u, first)[k] = free[k]
      /\ \A h \in heads : \A k \in 1 .. len2[h] : Follow(u, h)[k] = Follow(t, h)[k]
  BY <1>3, <1>4, <1>7, <1>8 DEF free
<1>10. \A j, k \in 1 .. (nf - n) : Follow(u, rest)[j] = Follow(u, rest)[k] => j = k
  <2> TAKE j, k \in 1 .. (nf - n)
  <2>1. n + j \in 1 .. nf /\ n + k \in 1 .. nf
    OBVIOUS
  <2>. QED
    BY <1>2, <1>6, <2>1
<1>11. \A k \in 1 .. (nf - n) : n + k \in 1 .. nf /\ n + k \notin 1 .. n
  OBVIOUS
<1>12. 1 .. n \subseteq 1 .. nf /\ 1 .. n \subseteq 1 .. Num
  OBVIOUS
<1>13. \A h \in heads \cup {first} : ChainLength(u, h, len2[h])
  <2>1. ChainLength(u, first, n)
    BY <1>9, <1>12 DEF ChainLength, free
  <2>2. ASSUME NEW h \in heads
        PROVE  ChainLength(u, h, len2[h])
    <3> SUFFICES ASSUME NEW k \in 1 .. len2[h]
                 PROVE  "NEXT" \in u[Follow(u, h)[k]].flags <=> k < len2[h]
      BY DEF ChainLength
    <3>1. k \in 1 .. Num /\ Follow(t, h)[k] \in Descs
      <4>1. k \in 1 .. Num
        BY <1>7
      <4>. QED
        BY <4>1, <1>4, FollowWalks, SMTT(60)
    <3>2. \A j \in 1 .. n : free[j] # Follow(t, h)[k]
      BY <1>2, <1>8, <1>12
    <3>3. u[Follow(t, h)[k]].flags = t[Follow(t, h)[k]].flags
      BY <3>1, <3>2 DEF free
    <3>4. "NEXT" \in t[Follow(t, h)[k]].flags <=> k < len[h]
      BY <1>2, <1>8 DEF ChainLength
    <3>. QED
      BY <1>8, <1>9, <3>3, <3>4
  <2>. QED
    BY <1>8, <2>1, <2>2
<1>14. \A h \in heads \cup {first} : \A j, k \in 1 .. len2[h] :
         Follow(u, h)[j] = Follow(u, h)[k] => j = k
  <2>1. \A j, k \in 1 .. n : Follow(u, first)[j] = Follow(u, first)[k] => j = k
    BY <1>2, <1>9, <1>12
  <2>2. \A h \in heads : \A j, k \in 1 .. len2[h] :
          Follow(u, h)[j] = Follow(u, h)[k] => j = k
    BY <1>2, <1>8, <1>9
  <2>. QED
    BY <1>8, <2>1, <2>2
<1>15. \A h \in heads \cup {first} : \A j \in 1 .. len2[h], k \in 1 .. (nf - n) :
         Follow(u, h)[j] # Follow(u, rest)[k]
  BY <1>2, <1>6, <1>8, <1>9, <1>11, <1>12
<1>16. \A h \in heads \cup {first} : \A g \in (heads \cup {first}) \ {h} :
         \A j \in 1 .. len2[h], k \in 1 .. len2[g] : Follow(u, h)[j] # Follow(u, g)[k]
  BY <1>2, <1>8, <1>9, <1>12
<1>17. ASSUME NEW d \in Descs
       PROVE  \/ \E k \in 1 .. (nf - n) : d = Follow(u, rest)[k]
              \/ \E h \in heads \cup {first} : \E k \in 1 .. len2[h] : d = Follow(u, h)[k]
  <2>1. CASE \E k \in 1 .. nf : d = free[k]
    <3>1. PICK k \in 1 .. nf : d = free[k]
      BY <2>1
    <3>2. CASE k <= n
      <4>1. k \in 1 .. n /\ d = Follow(u, first)[k]
        BY <1>9, <1>12, <3>1, <3>2
      <4>. QED
        BY <1>8, <4>1
    <3>3. CASE k > n
      <4>1. PICK m \in 1 .. (nf - n) : n + m = k
        <5>1. k - n \in 1 .. (nf - n) /\ n + (k - n) = k
          BY <3>3
        <5>. QED
          BY <5>1
      <4>2. d = Follow(u, rest)[m]
        BY <1>6, <3>1, <4>1
      <4>. QED
        BY <4>2
    <3>4. k <= n \/ k > n
      OBVIOUS
    <3>. QED
      BY <3>2, <3>3, <3>4, Zenon
  <2>2. CASE \E h \in heads : \E k \in 1 .. len[h] : d = Follow(t, h)[k]
    BY <1>8, <1>9, <2>2
  <2>. QED
    BY <1>2, <2>1, <2>2
<1>18. Partition(u, rest, nf - n, heads \cup {first}, len2)
  BY <1>10, <1>13, <1>14, <1>15, <1>16, <1>17 DEF Partition
<1>. QED
  BY <1>18 DEF rest, free

\* There are no more than Num different descriptors.
LEMMA DescsCount ==
    ASSUME NEW n \in Nat, NEW f \in [1 .. n -> Descs],
           \A j, k \in 1 .. n : f[j] = f[k] => j = k
    PROVE  n <= Num
<1>1. IsFiniteSet(Descs) /\ Cardinality(Descs) = Num
  <2>1. IsFiniteSet(0 .. (Num - 1)) /\ Cardinality(0 .. (Num - 1)) = Num
    BY DescsFacts, FS_Interval, SMTT(60)
  <2>. QED
    BY <2>1 DEF Descs
<1>2. IsFiniteSet(1 .. n) /\ Cardinality(1 .. n) = n
  BY FS_Interval
<1>3. ASSUME n > Num
      PROVE  FALSE
  <2>1. Cardinality(Descs) < Cardinality(1 .. n)
    BY <1>1, <1>2, <1>3
  <2>2. \E j, k \in 1 .. n : j # k /\ f[j] = f[k]
    BY <1>1, <1>2, <2>1, FS_PigeonHole
  <2>. QED
    BY <2>2
<1>. QED
  BY <1>3, DescsFacts

\* u is t but for last, which is followed by first.
Relinked(t, u, last, first) ==
    /\ \A d \in Descs : u[d].flags = t[d].flags
    /\ \A d \in Descs : u[d].next = IF d = last THEN first ELSE t[d].next

\* detach_buf puts the whole chain of h in front of the free list.
LEMMA DetachPartition ==
    ASSUME NEW t \in [Descs -> Descriptor], NEW u \in [Descs -> Descriptor],
           NEW first \in Descs, NEW nf \in 0 .. Num,
           NEW heads \in SUBSET Descs, NEW len \in [heads -> 1 .. Num],
           Partition(t, first, nf, heads, len),
           NEW h \in heads, Relinked(t, u, Follow(t, h)[len[h]], first),
           NEW len2, \A g \in heads \ {h} : len2[g] = len[g]
    PROVE  /\ nf + len[h] \in 0 .. Num
           /\ Partition(u, h, nf + len[h], heads \ {h}, len2)
<1> DEFINE free == Follow(t, first)
           mine == Follow(t, h)
           n == len[h]
           last == mine[n]
           all == [k \in 1 .. (n + nf) |-> IF k <= n THEN mine[k] ELSE free[k - n]]
<1> USE DescsFacts
<1>1. /\ free \in [1 .. Num -> Descs] /\ free[1] = first
      /\ mine \in [1 .. Num -> Descs] /\ mine[1] = h
      /\ n \in 1 .. Num /\ last \in Descs
      /\ \A k \in 1 .. (Num - 1) : /\ free[k + 1] = t[free[k]].next
                                 /\ mine[k + 1] = t[mine[k]].next
  BY FollowWalks, SMTT(60)
<1>2. /\ \A j, k \in 1 .. nf : free[j] = free[k] => j = k
      /\ \A g \in heads :
           /\ ChainLength(t, g, len[g])
           /\ \A j, k \in 1 .. len[g] : Follow(t, g)[j] = Follow(t, g)[k] => j = k
           /\ \A j \in 1 .. len[g], k \in 1 .. nf : Follow(t, g)[j] # free[k]
           /\ \A f \in heads \ {g} :
                \A j \in 1 .. len[g], k \in 1 .. len[f] :
                  Follow(t, g)[j] # Follow(t, f)[k]
      /\ \A d \in Descs :
           \/ \E k \in 1 .. nf : d = free[k]
           \/ \E g \in heads : \E k \in 1 .. len[g] : d = Follow(t, g)[k]
  BY DEF Partition
<1>3. /\ u[last].next = first
      /\ \A d \in Descs : u[d].flags = t[d].flags
      /\ \A d \in Descs : d # last => u[d].next = t[d].next
  BY <1>1, Zenon DEF Relinked
<1>4. /\ \A j, k \in 1 .. n : mine[j] = mine[k] => j = k
      /\ \A j \in 1 .. n, k \in 1 .. nf : mine[j] # free[k]
  BY <1>2
<1>5. \A g \in heads \ {h} : len2[g] = len[g] /\ len[g] \in 1 .. Num /\ g \in Descs
  OBVIOUS
<1> HIDE DEF free, mine, n, last, all
<1>6. /\ all \in [1 .. (n + nf) -> Descs]
      /\ \A k \in 1 .. n : all[k] = mine[k]
      /\ \A k \in 1 .. nf : all[n + k] = free[k]
  <2>1. \A k \in 1 .. (n + nf) : IF k <= n THEN k \in 1 .. Num
                                          ELSE k - n \in 1 .. nf /\ k - n \in 1 .. Num
    BY <1>1
  <2>2. \A k \in 1 .. n : k \in 1 .. (n + nf) /\ k <= n
    BY <1>1
  <2>3. \A k \in 1 .. nf : n + k \in 1 .. (n + nf) /\ ~(n + k <= n) /\ (n + k) - n = k
    BY <1>1
  <2>. QED
    BY <1>1, <2>1, <2>2, <2>3 DEF all
<1>7. \A k \in 1 .. (n + nf) : k \in 1 .. n \/ \E m \in 1 .. nf : k = n + m
  <2> TAKE k \in 1 .. (n + nf)
  <2>1. CASE k <= n
    BY <1>1, <2>1
  <2>2. CASE k > n
    <3>1. k - n \in 1 .. nf /\ k = n + (k - n)
      BY <1>1, <2>2
    <3>. QED
      BY <3>1
  <2>3. k <= n \/ k > n
    BY <1>1
  <2>. QED
    BY <2>1, <2>2, <2>3, Zenon
<1>8. \A j, k \in 1 .. (n + nf) : all[j] = all[k] => j = k
  <2> SUFFICES ASSUME NEW j \in 1 .. (n + nf), NEW k \in 1 .. (n + nf), all[j] = all[k]
               PROVE  j = k
    OBVIOUS
  <2>1. CASE j \in 1 .. n /\ k \in 1 .. n
    BY <1>4, <1>6, <2>1
  <2>2. CASE j \in 1 .. n /\ k \notin 1 .. n
    BY <1>4, <1>6, <1>7, <2>2
  <2>3. CASE j \notin 1 .. n /\ k \in 1 .. n
    BY <1>4, <1>6, <1>7, <2>3
  <2>4. CASE j \notin 1 .. n /\ k \notin 1 .. n
    <3>1. PICK i \in 1 .. nf : j = n + i
      BY <1>7, <2>4
    <3>2. PICK m \in 1 .. nf : k = n + m
      BY <1>7, <2>4
    <3>3. free[i] = free[m]
      BY <1>6, <3>1, <3>2
    <3>. QED
      BY <1>2, <3>1, <3>2, <3>3
  <2>. QED
    BY <2>1, <2>2, <2>3, <2>4
<1> DEFINE total == n + nf
<1>9. total \in 1 .. Num
  <2>1. total \in Nat /\ total >= 1
    BY <1>1
  <2> HIDE DEF total
  <2>2. total <= Num
    BY <1>6, <1>8, <2>1, DescsCount DEF total
  <2>. QED
    BY <2>1, <2>2
<1>10. \A k \in 1 .. (n + nf) : Follow(u, h)[k] = all[k]
  <2>1. all[1] = h
    <3>1. 1 \in 1 .. n
      BY <1>1
    <3>. QED
      BY <1>1, <1>6, <3>1
  <2>2. ASSUME NEW k \in 1 .. (total - 1)
        PROVE  all[k + 1] = u[all[k]].next
    <3>1. CASE k < n
      <4>1. k \in 1 .. n /\ k + 1 \in 1 .. n /\ n \in 1 .. n /\ k \in 1 .. (Num - 1)
            /\ k # n /\ k \in 1 .. Num
        BY <1>1, <3>1
      <4>2. mine[k] # last
        BY <1>4, <4>1 DEF last
      <4>3. mine[k] \in Descs
        BY <1>1, <4>1
      <4>4. mine[k + 1] = t[mine[k]].next
        BY <1>1, <4>1
      <4>5. all[k] = mine[k] /\ all[k + 1] = mine[k + 1]
        BY <1>6, <4>1
      <4>6. u[mine[k]].next = t[mine[k]].next
        BY <1>3, <4>2, <4>3
      <4>. QED
        BY <4>4, <4>5, <4>6
    <3>2. CASE k = n
      <4>1. n \in 1 .. n /\ 1 \in 1 .. nf
        BY <1>1, <3>2
      <4>2. all[k] = last /\ all[k + 1] = first
        BY <1>1, <1>6, <3>2, <4>1 DEF last
      <4>3. u[last].next = first
        BY <1>1, <1>3
      <4>. QED
        BY <4>2, <4>3
    <3>3. CASE k > n
      <4> DEFINE m == k - n
      <4>1. m \in 1 .. nf /\ m + 1 \in 1 .. nf /\ m \in 1 .. (Num - 1) /\ m \in 1 .. Num
            /\ n \in 1 .. n /\ k = n + m /\ k + 1 = n + (m + 1)
        <5>1. k \in Nat /\ n \in Nat /\ k + 1 <= n + nf /\ n >= 1
          BY <1>1
        <5>. QED
          BY <3>3, <5>1
      <4> HIDE DEF m
      <4>2. all[k] = free[m] /\ all[k + 1] = free[m + 1]
        BY <1>6, <4>1
      <4>3. free[m] # last
        BY <1>4, <4>1 DEF last
      <4>4. free[m] \in Descs
        BY <1>1, <4>1
      <4>5. free[m + 1] = t[free[m]].next
        BY <1>1, <4>1
      <4>6. u[free[m]].next = t[free[m]].next
        BY <1>3, <4>3, <4>4
      <4>. QED
        BY <4>2, <4>5, <4>6
    <3>4. k < n \/ k = n \/ k > n
      BY <1>1
    <3>. QED
      BY <3>1, <3>2, <3>3, <3>4, Zenon
  <2>3. h \in Descs
    OBVIOUS
  <2>4. \A k \in 1 .. (total - 1) : all[k + 1] = u[all[k]].next
    BY <2>2
  <2> HIDE DEF total
  <2>5. Traces(u, h, total, all)
    BY <2>1, <2>4, Zenon DEF Traces
  <2>6. \A k \in 1 .. total : Follow(u, h)[k] = all[k]
    BY <1>9, <2>3, <2>5, FollowUnique
  <2>. QED
    BY <2>6, Zenon DEF total
<1> HIDE DEF total
<1>11. ASSUME NEW g \in heads \ {h}
       PROVE  \A k \in 1 .. len2[g] : Follow(u, g)[k] = Follow(t, g)[k]
  <2> DEFINE m == len[g]
  <2>1. m \in 1 .. Num /\ g \in Descs /\ n \in 1 .. n
    BY <1>1, <1>5
  <2>2. \A k \in 1 .. m : Follow(t, g)[k] \in Descs /\ Follow(t, g)[k] # last
    <3>1. \A k \in 1 .. m : k \in 1 .. Num
      BY <2>1
    <3>2. \A k \in 1 .. m : Follow(t, g)[k] # mine[n]
      BY <1>2, <2>1 DEF mine, n
    <3>3. Follow(t, g) \in [1 .. Num -> Descs]
      BY <2>1, FollowWalks, SMTT(60)
    <3>. QED
      BY <3>1, <3>2, <3>3 DEF last
  <2>3. \A k \in 1 .. (m - 1) : u[Follow(t, g)[k]].next = t[Follow(t, g)[k]].next
    <3> TAKE k \in 1 .. (m - 1)
    <3>1. k \in 1 .. m
      BY <2>1
    <3>2. Follow(t, g)[k] \in Descs /\ Follow(t, g)[k] # last
      BY <2>2, <3>1
    <3>. QED
      BY <1>3, <3>2
  <2> HIDE DEF m
  <2>4. SameNexts(t, u, g, m)
    BY <2>3, Zenon DEF SameNexts
  <2>5. \A k \in 1 .. m : Follow(u, g)[k] = Follow(t, g)[k]
    BY <2>1, <2>4, FollowFrame
  <2>. QED
    BY <1>5, <2>5, Zenon DEF m
<1>12. \A j, k \in 1 .. (n + nf) : Follow(u, h)[j] = Follow(u, h)[k] => j = k
  BY <1>8, <1>10
<1>13. ASSUME NEW g \in heads \ {h}
       PROVE  /\ ChainLength(u, g, len2[g])
              /\ \A j, k \in 1 .. len2[g] : Follow(u, g)[j] = Follow(u, g)[k] => j = k
              /\ \A f \in (heads \ {h}) \ {g} :
                   \A j \in 1 .. len2[g], k \in 1 .. len2[f] :
                     Follow(u, g)[j] # Follow(u, f)[k]
  <2>1. \A k \in 1 .. len2[g] : Follow(t, g)[k] \in Descs
    <3>1. \A k \in 1 .. len2[g] : k \in 1 .. Num
      BY <1>5
    <3>. QED
      BY <1>5, <3>1, FollowWalks, SMTT(60)
  <2>2. ChainLength(u, g, len2[g])
    <3> SUFFICES ASSUME NEW k \in 1 .. len2[g]
                 PROVE  "NEXT" \in u[Follow(u, g)[k]].flags <=> k < len2[g]
      BY DEF ChainLength
    <3>1. u[Follow(t, g)[k]].flags = t[Follow(t, g)[k]].flags
      BY <1>3, <2>1
    <3>2. "NEXT" \in t[Follow(t, g)[k]].flags <=> k < len[g]
      BY <1>2, <1>5 DEF ChainLength
    <3>. QED
      BY <1>5, <1>11, <3>1, <3>2
  <2>. QED
    BY <1>2, <1>5, <1>11, <2>2
<1>14. ASSUME NEW g \in heads \ {h}, NEW j \in 1 .. len2[g], NEW k \in 1 .. (n + nf)
       PROVE  Follow(u, g)[j] # Follow(u, h)[k]
  <2>1. Follow(u, g)[j] = Follow(t, g)[j] /\ Follow(u, h)[k] = all[k] /\ j \in 1 .. len[g]
    BY <1>5, <1>10, <1>11
  <2>2. CASE k \in 1 .. n
    <3>1. all[k] = Follow(t, h)[k] /\ k \in 1 .. len[h]
      BY <1>6, <2>2 DEF mine, n
    <3>. QED
      BY <1>2, <2>1, <3>1
  <2>3. CASE \E m \in 1 .. nf : k = n + m
    BY <1>2, <1>6, <2>1, <2>3
  <2>. QED
    BY <1>7, <2>2, <2>3
<1>15. ASSUME NEW d \in Descs
       PROVE  \/ \E k \in 1 .. (n + nf) : d = Follow(u, h)[k]
              \/ \E g \in heads \ {h} : \E k \in 1 .. len2[g] : d = Follow(u, g)[k]
  <2>1. CASE \E k \in 1 .. nf : d = free[k]
    <3>1. PICK k \in 1 .. nf : d = free[k]
      BY <2>1
    <3>2. n + k \in 1 .. (n + nf)
      BY <1>1
    <3>. QED
      BY <1>6, <1>10, <3>1, <3>2
  <2>2. CASE \E g \in heads : \E k \in 1 .. len[g] : d = Follow(t, g)[k]
    <3>1. PICK g \in heads : \E k \in 1 .. len[g] : d = Follow(t, g)[k]
      BY <2>2
    <3> PICK k \in 1 .. len[g] : d = Follow(t, g)[k]
      BY <3>1
    <3>2. CASE g = h
      <4>1. k \in 1 .. n /\ d = mine[k] /\ k \in 1 .. (n + nf)
        BY <1>1, <3>2 DEF mine, n
      <4>. QED
        BY <1>6, <1>10, <4>1
    <3>3. CASE g # h
      BY <1>5, <1>11, <3>3
    <3>. QED
      BY <3>2, <3>3
  <2>. QED
    BY <1>2, <2>1, <2>2
<1>16. n + nf = nf + n /\ nf + n \in 0 .. Num
  BY <1>1, <1>9 DEF total
<1>17. Partition(u, h, n + nf, heads \ {h}, len2)
  BY <1>12, <1>13, <1>14, <1>15 DEF Partition
<1>. QED
  BY <1>16, <1>17 DEF n

-----------------------------------------------------------------------------
(* Type correctness and descriptor accounting                               *)

\* Neither is inductive alone: num_free stays below Num only because the chains
\* are disjoint, and the chains can be followed only in a well-typed table.
IInv == TypeOK /\ DescriptorAccounting

\* The part of the state that the accounting is about.
tableVars == <<desc, free_head, num_free, data>>

\* An index has a slot, a successor and a predecessor.
LEMMA IndexFacts ==
    /\ \A i \in Idx : Slot(i) \in Descs /\ Succ(i) \in Idx /\ Pred(i) \in Idx
    /\ 0 \in Idx
<1> USE DescsFacts
<1>1. ASSUME NEW i \in Idx
      PROVE  Slot(i) \in Descs /\ Succ(i) \in Idx /\ Pred(i) \in Idx
  <2>1. i \in Nat /\ i + 1 \in Nat /\ i + IdxMod - 1 \in Nat
    BY DEF Idx
  <2>2. Slot(i) \in Descs
    BY <2>1 DEF Slot, Descs
  <2>3. (i + 1) % IdxMod \in 0 .. (IdxMod - 1)
    BY <2>1
  <2>4. (i + IdxMod - 1) % IdxMod \in 0 .. (IdxMod - 1)
    BY <2>1
  <2>. QED
    BY <2>2, <2>3, <2>4 DEF Succ, Pred, Idx
<1>. QED
  BY <1>1 DEF Idx

\* What leaves the table alone leaves the accounting alone.
LEMMA AccountingFrame ==
    ASSUME DescriptorAccounting, UNCHANGED tableVars
    PROVE  DescriptorAccounting'
BY DEF DescriptorAccounting, tableVars, Heads

\* A fresh queue has all its descriptors in the free list.
LEMMA InitIInv == Init => IInv
<1> SUFFICES ASSUME Init PROVE IInv
  OBVIOUS
<1> USE DEF Init
<1>1. FreshDesc \in [Descs -> Descriptor]
  BY FreshPartition
<1>2. TypeOK
  BY <1>1, DescsFacts, IndexFacts DEF TypeOK
<1>3. Heads = {}
  BY DEF Heads
<1>4. DescriptorAccounting
  <2> DEFINE len == [h \in Heads |-> 1]
  <2>1. len \in [Heads -> 1 .. Num]
    BY <1>3
  <2>2. Partition(desc, free_head, num_free, Heads, len)
    BY <1>3, FreshPartition
  <2> HIDE DEF len
  <2>3. num_free <= Num
    BY DescsFacts
  <2>. QED
    BY <2>1, <2>2, <2>3 DEF DescriptorAccounting
<1>. QED
  BY <1>2, <1>4 DEF IInv

\* A buffer that fits takes at least one descriptor, and no more than are free.
LEMMA CostFacts ==
    ASSUME NEW b \in Bufs, num_free \in 0 .. Num, HasRoom(b)
    PROVE  /\ Segs(b) \in 1 .. Num
           /\ Cost(b) \in 1 .. num_free
<1>1. Segs(b) \in 1 .. Num
  BY BufsAssumption DEF Segs
<1>. QED
  BY <1>1, DescsFacts DEF Cost, HasRoom, UsesIndirect

\* virtqueue_add_buf writes well-formed descriptors and leaves next as it is.
LEMMA FilledType ==
    ASSUME TypeOK, NEW b \in Bufs, NEW k \in 1 .. Cost(b), NEW d \in Descs, HasRoom(b)
    PROVE  /\ Filled(b, k, d) \in Descriptor
           /\ Filled(b, k, d).next = desc[d].next
           /\ "NEXT" \in Filled(b, k, d).flags <=> k < Cost(b)
<1>1. num_free \in 0 .. Num /\ desc[d].next \in Descs
  BY DEF TypeOK, Descriptor
<1>2. /\ Segs(b) \in 1 .. Num /\ Cost(b) \in 1 .. Num /\ k \in 1 .. Num
  BY <1>1, CostFacts, DescsFacts
<1>3. CASE UsesIndirect(b)
  <2>1. Cost(b) = 1 /\ k = 1
    BY <1>3, <1>2 DEF Cost
  <2>2. [buf |-> b, first |-> 1, last |-> Segs(b)] \in Addr
    BY <1>2, DescsFacts DEF Addr
  <2>3. Filled(b, k, d) = [addr |-> [buf |-> b, first |-> 1, last |-> Segs(b)],
                           flags |-> {"INDIRECT"}, next |-> desc[d].next]
    BY <1>3 DEF Filled
  <2>. QED
    BY <1>1, <2>1, <2>2, <2>3 DEF Descriptor, Flags
<1>4. CASE ~UsesIndirect(b)
  <2> DEFINE f == {g \in {"NEXT"} : k < Cost(b)} \cup {g \in {"WRITE"} : k > Req[b].out}
  <2>1. [buf |-> b, first |-> k, last |-> k] \in Addr
    BY <1>2 DEF Addr
  <2>2. Filled(b, k, d) = [addr |-> [buf |-> b, first |-> k, last |-> k],
                           flags |-> f, next |-> desc[d].next]
    BY <1>4 DEF Filled
  <2>3. f \in SUBSET Flags /\ ("NEXT" \in f <=> k < Cost(b))
    BY DEF Flags
  <2> HIDE DEF f
  <2>. QED
    BY <1>1, <2>1, <2>2, <2>3 DEF Descriptor
<1>. QED
  BY <1>3, <1>4

\* What virtqueue_add_buf does to the table: the first Cost(b) descriptors of the free
\* list are filled, and no next field is changed.
LEMMA AddBufTable ==
    ASSUME IInv, NEW b \in Bufs, AddBuf(b)
    PROVE  LET free == Follow(desc, free_head)
           IN  /\ Cost(b) \in 1 .. num_free /\ Cost(b) \in 1 .. Num
               /\ desc' \in [Descs -> Descriptor]
               /\ \A k \in 1 .. Cost(b) : desc'[free[k]] = Filled(b, k, free[k])
               /\ \A k \in 1 .. Cost(b) : "NEXT" \in desc'[free[k]].flags <=> k < Cost(b)
               /\ \A d \in Descs :
                     (\A k \in 1 .. Cost(b) : free[k] # d) => desc'[d] = desc[d]
               /\ \A d \in Descs : desc'[d].next = desc[d].next
<1> DEFINE n == Cost(b)
           free == Follow(desc, free_head)
           filled == [k \in 1 .. n |-> Filled(b, k, free[k])]
<1> USE DescsFacts
<1>1. TypeOK /\ DescriptorAccounting /\ HasRoom(b)
  BY DEF IInv, AddBuf
<1>2. /\ desc \in [Descs -> Descriptor] /\ free_head \in Descs
      /\ num_free \in 0 .. Num
  BY <1>1 DEF TypeOK
<1>3. n \in 1 .. num_free /\ n \in 1 .. Num
  BY <1>1, <1>2, CostFacts
<1>4. free \in [1 .. Num -> Descs] /\ free[1] = free_head
  BY <1>2, FollowWalks
<1>5. desc' = [d \in Descs |->
                IF \E k \in 1 .. n : free[k] = d
                THEN filled[CHOOSE k \in 1 .. n : free[k] = d]
                ELSE desc[d]]
  BY DEF AddBuf
<1>6. PICK len \in [Heads -> 1 .. Num] :
        Partition(desc, free_head, num_free, Heads, len)
  BY <1>1 DEF DescriptorAccounting
<1>7. \A j, k \in 1 .. num_free : free[j] = free[k] => j = k
  BY <1>6 DEF Partition
<1>8. \A k \in 1 .. n :
        /\ free[k] \in Descs
        /\ filled[k] = Filled(b, k, free[k])
        /\ filled[k] \in Descriptor
        /\ filled[k].next = desc[free[k]].next
        /\ "NEXT" \in filled[k].flags <=> k < n
  <2> TAKE k \in 1 .. n
  <2>1. free[k] \in Descs
    BY <1>3, <1>4
  <2>2. filled[k] = Filled(b, k, free[k])
    OBVIOUS
  <2>. QED
    BY <1>1, <2>1, <2>2, FilledType
<1> HIDE DEF n, free, filled
<1>9. \A k \in 1 .. n : desc'[free[k]] = filled[k]
  <2> TAKE k \in 1 .. n
  <2> DEFINE j == CHOOSE i \in 1 .. n : free[i] = free[k]
  <2>1. j \in 1 .. n /\ free[j] = free[k]
    OBVIOUS
  <2>2. j = k
    BY <1>3, <1>7, <2>1
  <2>3. desc'[free[k]] = filled[j]
    BY <1>5, <1>8
  <2>. QED
    BY <2>2, <2>3
<1>10. \A d \in Descs : (\A k \in 1 .. n : free[k] # d) => desc'[d] = desc[d]
  BY <1>5
<1>11. desc' \in [Descs -> Descriptor]
  <2>1. ASSUME NEW d \in Descs
        PROVE  desc'[d] \in Descriptor
    BY <1>2, <1>8, <1>9, <1>10
  <2>. QED
    BY <1>5, <2>1
<1>12. ASSUME NEW d \in Descs
       PROVE  desc'[d].next = desc[d].next
  <2>1. CASE \E k \in 1 .. n : free[k] = d
    <3>1. PICK k \in 1 .. n : free[k] = d
      BY <2>1
    <3>2. desc'[d] = filled[k] /\ filled[k].next = desc[d].next
      BY <1>8, <1>9, <3>1
    <3>. QED
      BY <3>2
  <2>2. CASE \A k \in 1 .. n : free[k] # d
    BY <1>10, <2>2
  <2>. QED
    BY <2>1, <2>2
<1>. QED
  BY <1>3, <1>8, <1>9, <1>10, <1>11, <1>12 DEF n, free

\* virtqueue_add_buf moves descriptors from the free list into one new chain.
LEMMA AddBufIInv ==
    ASSUME IInv, NEW b \in Bufs, AddBuf(b)
    PROVE  IInv'
<1> DEFINE n == Cost(b)
           free == Follow(desc, free_head)
<1> USE DescsFacts
<1>1. TypeOK /\ DescriptorAccounting
  BY DEF IInv
<1>2. /\ desc \in [Descs -> Descriptor] /\ free_head \in Descs
      /\ num_free \in 0 .. Num /\ data \in [Descs -> Bufs \cup {NULL}]
      /\ avail_idx \in Idx
  BY <1>1 DEF TypeOK
<1>3. /\ n \in 1 .. num_free /\ n \in 1 .. Num
      /\ desc' \in [Descs -> Descriptor]
      /\ \A k \in 1 .. n : "NEXT" \in desc'[free[k]].flags <=> k < n
      /\ \A d \in Descs : (\A k \in 1 .. n : free[k] # d) => desc'[d] = desc[d]
      /\ \A d \in Descs : desc'[d].next = desc[d].next
  BY AddBufTable
<1>4. free \in [1 .. Num -> Descs]
  BY <1>2, FollowWalks
<1> HIDE DEF n, free
<1>5. /\ free_head' = desc[free[n]].next
      /\ num_free' = num_free - n
      /\ data' = [data EXCEPT ![free_head] = b]
      /\ avail_ring' = [avail_ring EXCEPT ![Slot(avail_idx)] = free_head]
      /\ pc' = "publish"
      /\ UNCHANGED <<avail_idx, last_used_idx, ret, device, phase>>
  BY DEF AddBuf, n, free
<1>6. PICK len \in [Heads -> 1 .. Num] :
        Partition(desc, free_head, num_free, Heads, len)
  BY <1>1 DEF DescriptorAccounting
<1>7. free_head' \in Descs
  BY <1>2, <1>3, <1>4, <1>5 DEF Descriptor
<1>8. TypeOK'
  <2>1. num_free' \in 0 .. Num
    BY <1>2, <1>3, <1>5
  <2>2. data' \in [Descs -> Bufs \cup {NULL}]
    BY <1>2, <1>5
  <2>3. avail_ring' \in [Descs -> Descs]
    BY <1>1, <1>2, <1>5, IndexFacts DEF TypeOK
  <2>. QED
    BY <1>1, <1>3, <1>5, <1>7, <2>1, <2>2, <2>3 DEF TypeOK, device
<1>9. Heads' = Heads \cup {free_head}
  BY <1>2, <1>5, BufsAssumption DEF Heads
<1> DEFINE len2 == [h \in Heads \cup {free_head} |-> IF h = free_head THEN n ELSE len[h]]
<1>10. \A h \in Heads \cup {free_head} : len2[h] = IF h = free_head THEN n ELSE len[h]
  OBVIOUS
<1>11. len2 \in [Heads' -> 1 .. Num]
  BY <1>3, <1>9
<1> HIDE DEF len2
<1>12. Partition(desc', free_head', num_free', Heads', len2)
  <2>1. Heads \in SUBSET Descs
    BY DEF Heads
  <2>2. \A d \in Descs : (\A k \in 1 .. n : Follow(desc, free_head)[k] # d)
                           => desc'[d].flags = desc[d].flags
    BY <1>3 DEF free
  <2>3. \A k \in 1 .. n : "NEXT" \in desc'[Follow(desc, free_head)[k]].flags <=> k < n
    BY <1>3 DEF free
  <2>4. Partition(desc', desc[Follow(desc, free_head)[n]].next, num_free - n,
                  Heads \cup {free_head}, len2)
    BY <1>2, <1>3, <1>6, <1>10, <2>1, <2>2, <2>3, AddPartition, ZenonT(60)
  <2>. QED
    BY <1>5, <1>9, <2>4 DEF free
<1>13. DescriptorAccounting'
  <2>1. num_free' <= Num
    BY <1>2, <1>3, <1>5
  <2>. QED
    BY <1>11, <1>12, <2>1 DEF DescriptorAccounting
<1>. QED
  BY <1>8, <1>13 DEF IInv

\* A chain has one length: what follows its last descriptor is not part of it.
LEMMA ChainLengthUnique ==
    ASSUME NEW table, NEW head, NEW n \in 1 .. Num, NEW m \in 1 .. Num,
           ChainLength(table, head, n), ChainLength(table, head, m)
    PROVE  n = m
<1>1. n \in Nat /\ m \in Nat /\ n \in 1 .. n /\ m \in 1 .. m
  BY DescsFacts
<1>2. ASSUME n < m
      PROVE  FALSE
  <2>1. n \in 1 .. m
    BY <1>1, <1>2
  <2>. QED
    BY <1>1, <1>2, <2>1 DEF ChainLength
<1>3. ASSUME m < n
      PROVE  FALSE
  <2>1. m \in 1 .. n
    BY <1>1, <1>3
  <2>. QED
    BY <1>1, <1>3, <2>1 DEF ChainLength
<1>. QED
  BY <1>1, <1>2, <1>3

\* detach_buf gives the chain of a posted head back, whole.
LEMMA DetachIInv ==
    ASSUME TypeOK, DescriptorAccounting, NEW head \in Heads, Detach(head)
    PROVE  /\ desc' \in [Descs -> Descriptor]
           /\ free_head' \in Descs
           /\ num_free' \in 0 .. Num
           /\ data' \in [Descs -> Bufs \cup {NULL}]
           /\ DescriptorAccounting'
<1> USE DescsFacts
<1>1. /\ desc \in [Descs -> Descriptor] /\ free_head \in Descs
      /\ num_free \in 0 .. Num /\ data \in [Descs -> Bufs \cup {NULL}]
      /\ head \in Descs /\ Heads \in SUBSET Descs
  BY DEF TypeOK, Heads
<1>2. PICK n \in 1 .. Num :
        /\ ChainLength(desc, head, n)
        /\ desc' = [desc EXCEPT ![Follow(desc, head)[n]].next = free_head]
        /\ free_head' = head
        /\ num_free' = num_free + n
        /\ data' = [data EXCEPT ![head] = NULL]
  BY DEF Detach
<1>3. PICK len \in [Heads -> 1 .. Num] :
        Partition(desc, free_head, num_free, Heads, len)
  BY DEF DescriptorAccounting
<1>4. len[head] = n
  BY <1>2, <1>3, ChainLengthUnique DEF Partition
<1>5. Follow(desc, head)[n] \in Descs
  BY <1>1, FollowWalks
<1>6. /\ desc' \in [Descs -> Descriptor]
      /\ \A d \in Descs : desc'[d].flags = desc[d].flags
      /\ \A d \in Descs : desc'[d].next = IF d = Follow(desc, head)[len[head]]
                                         THEN free_head ELSE desc[d].next
  BY <1>1, <1>2, <1>4, <1>5 DEF Descriptor
<1>7. Heads' = Heads \ {head}
  BY <1>1, <1>2 DEF Heads
<1> DEFINE len2 == [g \in Heads \ {head} |-> len[g]]
<1>8. len2 \in [Heads' -> 1 .. Num]
  BY <1>7
<1>9. \A g \in Heads \ {head} : len2[g] = len[g]
  OBVIOUS
<1> HIDE DEF len2
<1>10. /\ num_free + len[head] \in 0 .. Num
      /\ Partition(desc', head, num_free + len[head], Heads \ {head}, len2)
  <2>1. Relinked(desc, desc', Follow(desc, head)[len[head]], free_head)
    BY <1>6, Zenon DEF Relinked
  <2>. QED
    BY <1>1, <1>3, <1>6, <1>9, <2>1, DetachPartition, Zenon
<1>11. Partition(desc', free_head', num_free', Heads', len2)
  BY <1>2, <1>4, <1>7, <1>10
<1>12. DescriptorAccounting'
  <2>1. num_free' <= Num
    BY <1>2, <1>4, <1>10
  <2>. QED
    BY <1>8, <1>11, <2>1 DEF DescriptorAccounting
<1>13. data' \in [Descs -> Bufs \cup {NULL}]
  BY <1>1, <1>2
<1>. QED
  BY <1>1, <1>2, <1>4, <1>6, <1>10, <1>12, <1>13

\* Every step of the driver and of the device keeps the invariant, whatever id
\* the device writes into the used ring.
LEMMA NextIInv == IInv /\ [Next]_vars => IInv'
<1> SUFFICES ASSUME IInv, [Next]_vars
             PROVE  IInv'
  OBVIOUS
<1> USE DescsFacts, IndexFacts
<1>1. TypeOK /\ DescriptorAccounting
  BY DEF IInv
<1>2. ASSUME NEW b \in Bufs, AddBuf(b)
      PROVE  IInv'
  BY <1>2, AddBufIInv
<1>3. ASSUME NEW b \in Bufs, AddBufNoSpace(b)
      PROVE  IInv'
  <2>1. DescriptorAccounting'
    BY <1>1, <1>3, AccountingFrame DEF AddBufNoSpace, tableVars
  <2>. QED
    BY <1>1, <1>3, <2>1 DEF IInv, TypeOK, AddBufNoSpace, device
<1>4. CASE AddBufPublish
  <2>1. DescriptorAccounting'
    BY <1>1, <1>4, AccountingFrame DEF AddBufPublish, tableVars
  <2>. QED
    BY <1>1, <1>4, <2>1 DEF IInv, TypeOK, AddBufPublish, device
<1>5. CASE GetBuf
  <2>1. UsedId \in Heads /\ Detach(UsedId)
    BY <1>5 DEF GetBuf, IsHead, Heads
  <2>2. /\ desc' \in [Descs -> Descriptor]
        /\ free_head' \in Descs
        /\ num_free' \in 0 .. Num
        /\ data' \in [Descs -> Bufs \cup {NULL}]
        /\ DescriptorAccounting'
    BY <1>1, <2>1, DetachIInv
  <2>3. ret' \in Bufs \cup {NULL, "OK", "ENOSPC"}
    BY <1>1, <1>5, <2>1 DEF GetBuf, Heads, TypeOK
  <2>. QED
    BY <1>1, <1>5, <2>2, <2>3 DEF IInv, TypeOK, GetBuf, device
<1>6. CASE GetBufNull
  <2>1. DescriptorAccounting'
    BY <1>1, <1>6, AccountingFrame DEF GetBufNull, tableVars
  <2>. QED
    BY <1>1, <1>6, <2>1 DEF IInv, TypeOK, GetBufNull, device
<1>7. CASE DetachUnusedBuf
  <2>1. PICK head \in Heads : Detach(head) /\ ret' = data[head]
    BY <1>7 DEF DetachUnusedBuf
  <2>2. /\ desc' \in [Descs -> Descriptor]
        /\ free_head' \in Descs
        /\ num_free' \in 0 .. Num
        /\ data' \in [Descs -> Bufs \cup {NULL}]
        /\ DescriptorAccounting'
    BY <1>1, <2>1, DetachIInv
  <2>3. ret' \in Bufs \cup {NULL, "OK", "ENOSPC"}
    BY <1>1, <2>1 DEF Heads, TypeOK
  <2>. QED
    BY <1>1, <1>7, <2>2, <2>3 DEF IInv, TypeOK, DetachUnusedBuf, device
<1>8. CASE DetachUnusedBufNone
  <2>1. DescriptorAccounting'
    BY <1>1, <1>8, AccountingFrame DEF DetachUnusedBufNone, tableVars
  <2>. QED
    BY <1>1, <1>8, <2>1 DEF IInv, TypeOK, DetachUnusedBufNone, device
<1>9. CASE Shutdown
  <2>1. Heads' = {}
    BY <1>9 DEF Shutdown, Heads
  <2> DEFINE len == [h \in {} |-> 1]
  <2>2. len \in [Heads' -> 1 .. Num]
    BY <2>1
  <2>3. Partition(desc', free_head', num_free', Heads', len)
    BY <1>9, <2>1, FreshPartition DEF Shutdown
  <2> HIDE DEF len
  <2>4. DescriptorAccounting'
    <3>1. num_free' <= Num
      BY <1>9 DEF Shutdown
    <3>. QED
      BY <2>2, <2>3, <3>1 DEF DescriptorAccounting
  <2>5. desc' \in [Descs -> Descriptor]
    BY <1>9, FreshPartition DEF Shutdown
  <2>. QED
    BY <1>1, <1>9, <2>4, <2>5 DEF IInv, TypeOK, Shutdown
<1>10. CASE DevFetch
  <2>1. DescriptorAccounting'
    BY <1>1, <1>10, AccountingFrame DEF DevFetch, driver, tableVars
  <2>2. avail_ring[Slot(dev_avail)] \in Descs
    BY <1>1 DEF TypeOK
  <2>. QED
    BY <1>1, <1>10, <2>1, <2>2 DEF IInv, TypeOK, DevFetch, driver
<1>11. CASE DevReset
  <2>1. DescriptorAccounting'
    BY <1>1, <1>11, AccountingFrame DEF DevReset, driver, tableVars
  <2>. QED
    BY <1>1, <1>11, <2>1 DEF IInv, TypeOK, DevReset, driver
<1>12. ASSUME NEW id \in Descs \cup BadIds, DevWriteUsed(id), held' \subseteq held
       PROVE  IInv'
  <2>1. DescriptorAccounting'
    BY <1>1, <1>12, AccountingFrame DEF DevWriteUsed, driver, tableVars
  <2>2. used_ring' \in [Descs -> Descs \cup BadIds]
    BY <1>1, <1>12 DEF DevWriteUsed, TypeOK
  <2>. QED
    BY <1>1, <1>12, <2>1, <2>2 DEF IInv, TypeOK, DevWriteUsed, driver
<1>13. ASSUME NEW head \in Descs, DevUse(head)
       PROVE  IInv'
  BY <1>12, <1>13 DEF DevUse
<1>14. ASSUME NEW id \in BadIds, DevUseBadId(id)
       PROVE  IInv'
  BY <1>12, <1>14 DEF DevUseBadId
<1>15. CASE UNCHANGED vars
  <2>1. DescriptorAccounting'
    BY <1>1, <1>15, AccountingFrame DEF vars, driver, tableVars
  <2>. QED
    BY <1>1, <1>15, <2>1 DEF IInv, TypeOK, vars, driver, device
<1>. QED
  BY <1>2, <1>3, <1>4, <1>5, <1>6, <1>7, <1>8, <1>9, <1>10, <1>11, <1>13, <1>14,
     <1>15 DEF Next

\* The driver's and the device's view of the queue stay within their ranges.
THEOREM TypeCorrect == Spec => []TypeOK
<1>1. IInv => TypeOK
  BY DEF IInv
<1>. QED
  BY <1>1, InitIInv, NextIInv, PTL DEF Spec

\* virtqueue_add_buf, virtqueue_get_buf, virtqueue_detach_unused_buf and
\* virtqueue_shutdown never lose a descriptor nor give one out twice, for every
\* ring size, every set of scatter lists and every device.
THEOREM AccountingCorrect == Spec => []DescriptorAccounting
<1>1. IInv => DescriptorAccounting
  BY DEF IInv
<1>. QED
  BY <1>1, InitIInv, NextIInv, PTL DEF Spec

-----------------------------------------------------------------------------
(* Positions in a ring                                                     *)

\* The indexes are positions on a circle.
LEMMA IndexCircle ==
    ASSUME NEW a \in Idx, NEW b \in Idx
    PROVE  /\ Succ(a) = (IF a = IdxMod - 1 THEN 0 ELSE a + 1) /\ Succ(a) \in Idx
           /\ Distance(a, b) = IF a <= b THEN b - a ELSE b + IdxMod - a
           /\ Distance(a, b) \in Idx
           /\ (a + b) % IdxMod = IF a + b < IdxMod THEN a + b ELSE a + b - IdxMod
<1>1. /\ a \in 0 .. (IdxMod - 1) /\ b \in 0 .. (IdxMod - 1)
      /\ IdxMod \in Nat /\ IdxMod >= 2
  BY DescsFacts DEF Idx
<1>2. /\ (a + 1) % IdxMod = (IF a = IdxMod - 1 THEN 0 ELSE a + 1)
      /\ (b + IdxMod - a) % IdxMod = (IF a <= b THEN b - a ELSE b + IdxMod - a)
      /\ (a + b) % IdxMod = (IF a + b < IdxMod THEN a + b ELSE a + b - IdxMod)
  BY <1>1, Circle
<1>. QED
  BY <1>1, <1>2 DEF Succ, Distance, Idx

\* One step further, one step behind.
LEMMA IndexSteps ==
    ASSUME NEW a \in Idx, NEW b \in Idx
    PROVE  /\ Distance(a, b) \in Idx
           /\ Distance(a, a) = 0
           /\ Distance(a, b) = 0 => a = b
           /\ Distance(a, b) + 1 < IdxMod => Distance(a, Succ(b)) = Distance(a, b) + 1
           /\ a # b => Distance(a, b) > 0 /\ Distance(Succ(a), b) = Distance(a, b) - 1
<1> USE DescsFacts DEF Idx
<1>1. /\ Succ(a) = (IF a = IdxMod - 1 THEN 0 ELSE a + 1) /\ Succ(a) \in Idx
      /\ Succ(b) = (IF b = IdxMod - 1 THEN 0 ELSE b + 1) /\ Succ(b) \in Idx
  BY IndexCircle
<1>2. /\ Distance(a, b) = (IF a <= b THEN b - a ELSE b + IdxMod - a)
      /\ Distance(a, a) = (IF a <= a THEN a - a ELSE a + IdxMod - a)
      /\ Distance(a, Succ(b)) = (IF a <= Succ(b) THEN Succ(b) - a ELSE Succ(b) + IdxMod - a)
      /\ Distance(Succ(a), b) = (IF Succ(a) <= b THEN b - Succ(a) ELSE b + IdxMod - Succ(a))
  BY <1>1, IndexCircle
<1>3. a \in Nat /\ b \in Nat /\ a < IdxMod /\ b < IdxMod
  OBVIOUS
<1>. QED
  BY <1>1, <1>2, <1>3

\* The slots that follow that of an index, which go round the ring.
LEMMA SlotSteps ==
    ASSUME NEW a \in Idx
    PROVE  /\ \A k \in Idx : Slot((a + k) % IdxMod) = (a + k) % Num
           /\ \A k \in Idx : Slot((a + k) % IdxMod) \in Descs
           /\ \A j, k \in Descs : Slot((a + j) % IdxMod) = Slot((a + k) % IdxMod) => j = k
           /\ \A k \in Descs : Slot((Succ(a) + k) % IdxMod) = Slot((a + (k + 1)) % IdxMod)
           /\ \A b \in Idx : Slot((a + Distance(a, b)) % IdxMod) = Slot(b)
           /\ Slot((a + 0) % IdxMod) = Slot(a)
<1> USE DescsFacts
<1>1. PICK q \in 2 .. IdxMod : IdxMod = q * Num
  BY IdxModAssumption
<1>2. ASSUME NEW x \in Int, NEW y \in Int, x = y \/ x = y - IdxMod
      PROVE  x % Num = y % Num
  <2>1. CASE x = y
    BY <2>1
  <2>2. CASE x = y - IdxMod
    <3> DEFINE m == -q
    <3>1. x = y + m * Num /\ m \in Int
      BY <1>1, <2>2
    <3> HIDE DEF m
    <3>. QED
      BY <3>1, RemainderTurns
  <2>. QED
    BY <1>2, <2>1, <2>2
<1>3. \A i, k \in Idx : /\ \/ (i + k) % IdxMod = i + k
                           \/ (i + k) % IdxMod = (i + k) - IdxMod
                        /\ i + k \in Int /\ (i + k) % IdxMod \in Int
  <2> TAKE i, k \in Idx
  <2>1. i \in Int /\ k \in Int /\ IdxMod \in Int
    BY DEF Idx
  <2>2. (i + k) % IdxMod = IF i + k < IdxMod THEN i + k ELSE i + k - IdxMod
    BY IndexCircle
  <2>. QED
    BY <2>1, <2>2
<1>4. \A i, k \in Idx : Slot((i + k) % IdxMod) = (i + k) % Num
  <2> TAKE i, k \in Idx
  <2> DEFINE x == (i + k) % IdxMod
             y == i + k
  <2>1. x \in Int /\ y \in Int /\ (x = y \/ x = y - IdxMod)
    BY <1>3, Zenon
  <2> HIDE DEF x, y
  <2>2. x % Num = y % Num
    BY <1>2, <2>1
  <2>. QED
    BY <2>2 DEF Slot, x, y
<1>5. \A i, k \in Idx : Slot((i + k) % IdxMod) \in Descs
  <2> TAKE i, k \in Idx
  <2>1. i + k \in Int
    BY <1>3
  <2>2. (i + k) % Num \in 0 .. (Num - 1)
    BY <2>1, Division
  <2>. QED
    BY <1>4, <2>2 DEF Descs
<1>6. Descs \subseteq Idx /\ \A k \in Descs : k + 1 \in Idx
  BY DEF Descs, Idx
<1>7. ASSUME NEW j \in Descs, NEW k \in Descs,
             Slot((a + j) % IdxMod) = Slot((a + k) % IdxMod)
      PROVE  j = k
  <2> DEFINE x == a + j
             y == a + k
  <2>1. x \in Int /\ y \in Int /\ x - y < Num /\ y - x < Num
    BY DEF Descs, Idx
  <2>2. x % Num = y % Num
    BY <1>4, <1>6, <1>7
  <2> HIDE DEF x, y
  <2>3. x = y
    BY <2>1, <2>2, RemainderSpread
  <2>. QED
    BY <2>3 DEF x, y, Descs, Idx
<1>8. ASSUME NEW k \in Descs
      PROVE  Slot((Succ(a) + k) % IdxMod) = Slot((a + (k + 1)) % IdxMod)
  <2>1. Succ(a) \in {a + 1, a + 1 - IdxMod} /\ Succ(a) \in Idx
    BY IndexCircle DEF Idx
  <2> DEFINE x == Succ(a) + k
             y == a + (k + 1)
  <2>2. x \in Int /\ y \in Int /\ (x = y \/ x = y - IdxMod)
    BY <2>1 DEF Descs, Idx
  <2> HIDE DEF x, y
  <2>3. x % Num = y % Num
    BY <1>2, <2>2
  <2>. QED
    BY <1>4, <1>6, <2>1, <2>3 DEF x, y
<1>9. ASSUME NEW b \in Idx
      PROVE  Slot((a + Distance(a, b)) % IdxMod) = Slot(b)
  <2>1. Distance(a, b) = (IF a <= b THEN b - a ELSE b + IdxMod - a) /\ Distance(a, b) \in Idx
    BY IndexCircle
  <2> DEFINE x == a + Distance(a, b)
  <2>2. x \in Int /\ b \in Int /\ (x = b \/ b = x - IdxMod)
    BY <2>1 DEF Idx
  <2> HIDE DEF x
  <2>3. x % Num = b % Num
    BY <1>2, <2>2
  <2>. QED
    BY <1>4, <2>1, <2>3 DEF x, Slot
<1>10. Slot((a + 0) % IdxMod) = Slot(a)
  <2>1. 0 \in Idx /\ a + 0 = a
    BY DEF Idx
  <2>. QED
    BY <1>4, <2>1 DEF Slot
<1>. QED
  BY <1>4, <1>5, <1>6, <1>7, <1>8, <1>9, <1>10

-----------------------------------------------------------------------------
(* The part of a ring between two indexes                                  *)

\* What lies k slots on from an index.
At(ring, from, k) == ring[Slot((from + k) % IdxMod)]

\* A part no longer than the ring, in which nothing occurs twice.
Spread(ring, from, to) ==
    /\ Distance(from, to) <= Num
    /\ \A j, k \in 0 .. (Distance(from, to) - 1) :
         At(ring, from, j) = At(ring, from, k) => j = k

\* A part of a ring is what lies fewer slots on than it is long.
LEMMA WindowIs ==
    ASSUME NEW ring, NEW from \in Idx, NEW to \in Idx, Distance(from, to) <= Num
    PROVE  /\ Distance(from, to) \in Nat
           /\ Window(ring, from, to) =
                {At(ring, from, k) : k \in 0 .. (Distance(from, to) - 1)}
<1> DEFINE D == Distance(from, to)
<1>1. D \in Nat
  BY IndexSteps DEF Idx
<1>2. D <= Num
  OBVIOUS
<1> HIDE DEF D
<1>3. {j \in 0 .. (Num - 1) : j < D} = 0 .. (D - 1)
  BY <1>1, <1>2, DescsFacts
<1>. QED
  BY <1>1, <1>3 DEF Window, At, D

\* The same, element by element.
LEMMA WindowHas ==
    ASSUME NEW ring, NEW from \in Idx, NEW to \in Idx, Distance(from, to) <= Num
    PROVE  \A y : y \in Window(ring, from, to) <=>
                    \E k \in 0 .. (Distance(from, to) - 1) : y = At(ring, from, k)
BY WindowIs

\* The elements of a part that is no longer than the ring, in order.
LEMMA WindowTypes ==
    ASSUME NEW ring \in [Descs -> Descs], NEW from \in Idx, NEW k \in 0 .. Num
    PROVE  At(ring, from, k) \in Descs
<1>1. k \in Idx
  BY DescsFacts DEF Idx
<1>. QED
  BY <1>1, SlotSteps DEF At

\* There are as many elements as the indexes say.
LEMMA WindowCount ==
    ASSUME NEW ring, NEW from \in Idx, NEW to \in Idx, Spread(ring, from, to)
    PROVE  /\ IsFiniteSet(Window(ring, from, to))
           /\ Cardinality(Window(ring, from, to)) = Distance(from, to)
<1> DEFINE D == Distance(from, to)
           W == Window(ring, from, to)
           S == 0 .. (D - 1)
           f == [k \in S |-> At(ring, from, k)]
<1>1. D \in Nat /\ W = {At(ring, from, k) : k \in S}
  BY WindowIs DEF Spread
<1>2. \A j, k \in S : At(ring, from, j) = At(ring, from, k) => j = k
  BY DEF Spread
<1> HIDE DEF D, W
<1>3. f \in Bijection(S, W)
  <2>1. f \in [S -> W]
    BY <1>1
  <2>2. \A j, k \in S : f[j] = f[k] => j = k
    BY <1>2
  <2>3. \A w \in W : \E k \in S : f[k] = w
    BY <1>1
  <2>. QED
    BY <2>1, <2>2, <2>3 DEF Bijection, Injection, Surjection, IsInjective
<1>4. IsFiniteSet(S) /\ Cardinality(S) = D
  BY <1>1, FS_Interval
<1>5. IsFiniteSet(W) /\ Cardinality(W) = Cardinality(S)
  <2>1. ExistsBijection(S, W)
    BY <1>3 DEF ExistsBijection
  <2>. QED
    BY <1>4, <2>1, FS_Bijection
<1>. QED
  BY <1>4, <1>5 DEF D, W

\* Something new is written behind the last element: there is room for it, and it
\* disturbs nothing before the index moves.
LEMMA WindowGrows ==
    ASSUME NEW ring \in [Descs -> Descs], NEW from \in Idx, NEW to \in Idx,
           Spread(ring, from, to), NEW x \in Descs, x \notin Window(ring, from, to),
           NEW ring2, ring2[Slot(to)] = x,
           \A d \in Descs : d # Slot(to) => ring2[d] = ring[d]
    PROVE  /\ Spread(ring2, from, to) /\ Window(ring2, from, to) = Window(ring, from, to)
           /\ Spread(ring2, from, Succ(to))
           /\ Window(ring2, from, Succ(to)) = Window(ring, from, to) \cup {x}
           /\ Distance(from, to) \in Nat /\ Distance(from, Succ(to)) = Distance(from, to) + 1
           /\ At(ring2, from, Distance(from, to)) = x
           /\ \A k \in 0 .. (Distance(from, to) - 1) : At(ring2, from, k) = At(ring, from, k)
<1> DEFINE D == Distance(from, to)
           S == 0 .. (D - 1)
           old(k) == At(ring, from, k)
           new(k) == At(ring2, from, k)
<1> USE DescsFacts
<1>1. D \in Nat /\ D <= Num /\ Window(ring, from, to) = {old(k) : k \in S}
  BY WindowIs DEF Spread
<1>2. \A j, k \in S : old(j) = old(k) => j = k
  BY DEF Spread
<1>3. \A k \in S : old(k) \in Descs /\ old(k) # x
  <2> TAKE k \in S
  <2>1. k \in 0 .. Num
    BY <1>1
  <2>2. old(k) \in Descs
    BY <2>1, WindowTypes
  <2>3. old(k) # x
    BY <1>1
  <2>. QED
    BY <2>2, <2>3
<1>4. D < Num
  <2> DEFINE f == [k \in 1 .. (D + 1) |-> IF k <= D THEN old(k - 1) ELSE x]
             n == D + 1
  <2> HIDE DEF D, old
  <2>1. f \in [1 .. n -> Descs]
    <3>1. \A k \in 1 .. (D + 1) : k <= D => k - 1 \in S
      BY <1>1
    <3>. QED
      BY <1>3, <3>1
  <2>2. \A j, k \in 1 .. n : f[j] = f[k] => j = k
    <3> SUFFICES ASSUME NEW j \in 1 .. n, NEW k \in 1 .. n, f[j] = f[k]
                 PROVE  j = k
      OBVIOUS
    <3>1. CASE j <= D /\ k <= D
      <4>1. j - 1 \in S /\ k - 1 \in S /\ old(j - 1) = old(k - 1)
        BY <1>1, <3>1
      <4>2. j - 1 = k - 1
        BY <1>2, <4>1
      <4>. QED
        BY <4>2
    <3>2. CASE ~(j <= D) /\ k <= D
      <4>1. k - 1 \in S /\ old(k - 1) = x
        BY <1>1, <3>2
      <4>. QED
        BY <1>3, <4>1
    <3>3. CASE j <= D /\ ~(k <= D)
      <4>1. j - 1 \in S /\ old(j - 1) = x
        BY <1>1, <3>3
      <4>. QED
        BY <1>3, <4>1
    <3>4. CASE ~(j <= D) /\ ~(k <= D)
      BY <1>1, <3>4
    <3>. QED
      BY <3>1, <3>2, <3>3, <3>4
  <2>3. n \in Nat
    BY <1>1
  <2> HIDE DEF f, n
  <2>4. n <= Num
    BY <2>1, <2>2, <2>3, DescsCount
  <2>. QED
    BY <1>1, <2>4 DEF n
<1>5. D \in Descs /\ S \subseteq Descs /\ D \notin S
  <2>1. \A d \in Nat : d < Num => /\ d \in Descs /\ 0 .. (d - 1) \subseteq Descs
                                 /\ d \notin 0 .. (d - 1)
    BY SMT DEF Descs
  <2> HIDE DEF D
  <2>. QED
    BY <1>1, <1>4, <2>1, Zenon DEF S
<1>6. Slot((from + D) % IdxMod) = Slot(to) /\ Slot(to) \in Descs
  BY SlotSteps, IndexFacts
<1>7. Succ(to) \in Idx /\ Distance(from, Succ(to)) = D + 1
  <2>1. D + 1 < IdxMod
    BY <1>1, <1>4
  <2>. QED
    BY <2>1, IndexSteps, IndexFacts
<1> HIDE DEF D
<1>8. new(D) = x
  BY <1>6 DEF At
<1>9. \A k \in S : new(k) = old(k)
  <2> TAKE k \in S
  <2>1. k \in Descs /\ D \in Descs /\ k # D
    BY <1>5
  <2>2. Slot((from + k) % IdxMod) # Slot(to)
    BY <1>6, <2>1, SlotSteps
  <2>3. Slot((from + k) % IdxMod) \in Descs
    <3>1. k \in Idx
      BY <2>1 DEF Descs, Idx
    <3>. QED
      BY <3>1, SlotSteps
  <2>. QED
    BY <2>2, <2>3 DEF At
<1>10. Spread(ring2, from, to) /\ Window(ring2, from, to) = Window(ring, from, to)
  <2>1. \A y : y \in Window(ring2, from, to) <=> \E k \in S : y = new(k)
    BY <1>1, WindowHas DEF D
  <2>2. \A y : y \in Window(ring, from, to) <=> \E k \in S : y = old(k)
    BY <1>1
  <2>3. \A j, k \in S : new(j) = new(k) => j = k
    BY <1>2, <1>9
  <2> HIDE DEF S, old, new
  <2>4. Window(ring2, from, to) = Window(ring, from, to)
    BY <1>9, <2>1, <2>2
  <2>. QED
    BY <1>1, <2>3, <2>4 DEF Spread, D, S, new
<1> DEFINE T == 0 .. ((D + 1) - 1)
<1>11. T = S \cup {D}
  BY <1>1
<1>12. Spread(ring2, from, Succ(to))
  <2>1. D + 1 <= Num
    BY <1>1, <1>4
  <2>2. \A j, k \in T : new(j) = new(k) => j = k
    BY <1>2, <1>3, <1>8, <1>9, <1>11
  <2>. QED
    BY <1>7, <2>1, <2>2 DEF Spread
<1>13. Window(ring2, from, Succ(to)) = Window(ring, from, to) \cup {x}
  <2>1. Distance(from, Succ(to)) <= Num
    BY <1>1, <1>4, <1>7
  <2>2. \A y : y \in Window(ring2, from, Succ(to)) <=> \E k \in T : y = new(k)
    BY <1>7, <2>1, WindowHas
  <2>3. \A y : y \in Window(ring, from, to) <=> \E k \in S : y = old(k)
    BY <1>1
  <2> HIDE DEF S, T, old, new
  <2>. QED
    BY <1>8, <1>9, <1>11, <2>2, <2>3
<1>. QED
  BY <1>1, <1>7, <1>8, <1>9, <1>10, <1>12, <1>13 DEF D, S, old, new

\* The first element is passed.
LEMMA WindowShrinks ==
    ASSUME NEW ring, NEW from \in Idx, NEW to \in Idx, Spread(ring, from, to), from # to
    PROVE  /\ Spread(ring, Succ(from), to)
           /\ ring[Slot(from)] \in Window(ring, from, to)
           /\ Window(ring, Succ(from), to) = Window(ring, from, to) \ {ring[Slot(from)]}
           /\ Distance(from, to) \in Nat /\ Distance(from, to) > 0
           /\ Distance(Succ(from), to) = Distance(from, to) - 1
           /\ At(ring, from, 0) = ring[Slot(from)]
           /\ \A k \in 0 .. ((Distance(from, to) - 1) - 1) :
                At(ring, Succ(from), k) = At(ring, from, k + 1)
<1> DEFINE D == Distance(from, to)
           S == 0 .. (D - 1)
           old(k) == At(ring, from, k)
           new(k) == At(ring, Succ(from), k)
           T == 0 .. ((D - 1) - 1)
<1> USE DescsFacts
<1>1. D \in Nat /\ D <= Num /\ Window(ring, from, to) = {old(k) : k \in S}
  BY WindowIs DEF Spread
<1>2. \A j, k \in S : old(j) = old(k) => j = k
  BY DEF Spread
<1>3. Succ(from) \in Idx /\ D > 0 /\ Distance(Succ(from), to) = D - 1
  BY IndexSteps, IndexFacts
<1>4. ring[Slot(from)] = old(0)
  BY SlotSteps DEF At
<1> HIDE DEF D
<1>5. \A k \in T : new(k) = old(k + 1)
  <2> TAKE k \in T
  <2>1. k \in Descs
    BY <1>1, <1>3 DEF Descs
  <2>. QED
    BY <2>1, SlotSteps DEF At
<1>6. /\ 0 \in S
      /\ \A k \in T : k + 1 \in S /\ k + 1 # 0
      /\ \A k \in S : k = 0 \/ (k - 1 \in T /\ k = (k - 1) + 1)
  BY <1>1, <1>3
<1> HIDE DEF S, T, old, new
<1>7. {new(k) : k \in T} = {old(k) : k \in S} \ {old(0)}
  <2>1. ASSUME NEW k \in T
        PROVE  new(k) \in {old(j) : j \in S} \ {old(0)}
    BY <1>2, <1>5, <1>6
  <2>2. ASSUME NEW k \in S, old(k) # old(0)
        PROVE  old(k) \in {new(j) : j \in T}
    BY <1>5, <1>6, <2>2
  <2>. QED
    BY <2>1, <2>2
<1>8. \A j, k \in T : new(j) = new(k) => j = k
  <2> SUFFICES ASSUME NEW j \in T, NEW k \in T, new(j) = new(k) PROVE j = k
    OBVIOUS
  <2>1. j + 1 = k + 1
    BY <1>2, <1>5, <1>6
  <2>. QED
    BY <2>1 DEF T
<1>9. Spread(ring, Succ(from), to)
  BY <1>1, <1>3, <1>8 DEF Spread, T, new
<1>10. Window(ring, Succ(from), to) = {new(k) : k \in T}
  BY <1>3, <1>9, WindowIs DEF Spread, T, new
<1>11. Window(ring, Succ(from), to) = Window(ring, from, to) \ {ring[Slot(from)]}
       /\ ring[Slot(from)] \in Window(ring, from, to)
  BY <1>1, <1>4, <1>6, <1>7, <1>10
<1>. QED
  BY <1>1, <1>3, <1>4, <1>5, <1>9, <1>11 DEF D, T, old, new

-----------------------------------------------------------------------------
(* Where the posted chains are                                             *)

\* The four places are disjoint and hold all the posted chains; no ring holds a chain
\* twice.  This is what OnePlace counts.
Places ==
    /\ Spread(avail_ring, dev_avail, avail_idx)
    /\ Spread(used_ring, last_used_idx, used_idx)
    /\ Heads = Unpublished \cup Available \cup held \cup Used
    /\ Unpublished \cap (Available \cup held \cup Used) = {}
    /\ Available \cap (held \cup Used) = {}
    /\ held \cap Used = {}

\* A device that was reset holds nothing, and starts again from index 0.
PlaceInv ==
    /\ phase = "running" => Places
    /\ phase = "stopped" => dev_avail = 0 /\ held = {}

\* The types that the proofs about places use, for a device that returns heads.
LEMMA PlaceTypes ==
    ASSUME IInv, BadIds = {}
    PROVE  /\ avail_ring \in [Descs -> Descs] /\ used_ring \in [Descs -> Descs]
           /\ avail_idx \in Idx /\ used_idx \in Idx
           /\ dev_avail \in Idx /\ last_used_idx \in Idx
           /\ free_head \in Descs /\ num_free \in 0 .. Num
           /\ data \in [Descs -> Bufs \cup {NULL}]
           /\ held \subseteq Descs /\ Heads \subseteq Descs
           /\ Slot(avail_idx) \in Descs /\ Slot(used_idx) \in Descs
BY IndexFacts DEF IInv, TypeOK, Heads

\* The places depend on the rings, their indexes and the posted heads only.
placeVars == <<avail_ring, dev_avail, avail_idx, used_ring, last_used_idx, used_idx, held, pc>>

\* The head of the free list is not the head of a posted chain.
LEMMA FreeIsFree ==
    ASSUME IInv, num_free >= 1
    PROVE  free_head \notin Heads
<1>1. /\ desc \in [Descs -> Descriptor] /\ free_head \in Descs /\ num_free \in 0 .. Num
      /\ Heads \subseteq Descs
  BY DEF IInv, TypeOK, Heads
<1>2. PICK len \in [Heads -> 1 .. Num] : Partition(desc, free_head, num_free, Heads, len)
  BY DEF IInv, DescriptorAccounting
<1>3. \A h \in Descs : Follow(desc, h)[1] = h
  BY <1>1, FollowWalks
<1>4. 1 \in 1 .. num_free /\ \A h \in Heads : 1 \in 1 .. len[h]
  BY <1>1
<1>5. ASSUME NEW h \in Heads
      PROVE  h # free_head
  <2>1. Follow(desc, h)[1] # Follow(desc, free_head)[1]
    BY <1>2, <1>4 DEF Partition
  <2>. QED
    BY <1>1, <1>3, <2>1
<1>. QED
  BY <1>5

\* Between an index and itself lies nothing.
LEMMA EmptyWindow ==
    ASSUME NEW ring, NEW i \in Idx
    PROVE  Spread(ring, i, i) /\ Window(ring, i, i) = {}
<1>1. Distance(i, i) = 0
  BY IndexSteps
<1>2. 0 .. (0 - 1) = {} /\ 0 <= Num
  BY DescsFacts
<1>3. Spread(ring, i, i)
  BY <1>1, <1>2 DEF Spread
<1>4. \A y : y \notin Window(ring, i, i)
  BY <1>1, <1>2, WindowHas
<1>. QED
  BY <1>3, <1>4

\* A fresh queue has nothing anywhere.
LEMMA InitPlaces == Init => PlaceInv
<1> SUFFICES ASSUME Init PROVE PlaceInv
  OBVIOUS
<1>1. /\ avail_idx = 0 /\ dev_avail = 0 /\ used_idx = 0 /\ last_used_idx = 0
      /\ pc = "idle" /\ phase = "running" /\ held = {}
      /\ data = [d \in Descs |-> NULL]
  BY DEF Init
<1>2. Heads = {} /\ Unpublished = {}
  BY <1>1 DEF Heads, Unpublished
<1>3. /\ Spread(avail_ring, dev_avail, avail_idx) /\ Available = {}
      /\ Spread(used_ring, last_used_idx, used_idx) /\ Used = {}
  BY <1>1, IndexFacts, EmptyWindow DEF Available, Used
<1>. QED
  BY <1>1, <1>2, <1>3 DEF PlaceInv, Places

\* The new chain is unpublished; the slot it is written to was free.
LEMMA AddBufPlaces ==
    ASSUME IInv, PlaceInv, BadIds = {}, NEW b \in Bufs, AddBuf(b)
    PROVE  PlaceInv'
<1>1. /\ phase = "running" /\ pc = "idle" /\ HasRoom(b) /\ Places
      /\ data' = [data EXCEPT ![free_head] = b]
      /\ avail_ring' = [avail_ring EXCEPT ![Slot(avail_idx)] = free_head]
      /\ pc' = "publish"
      /\ UNCHANGED <<avail_idx, last_used_idx, used_ring, used_idx, dev_avail, held, phase>>
  BY DEF AddBuf, device, PlaceInv
<1>2. num_free >= 1
  BY <1>1, PlaceTypes, CostFacts
<1>3. free_head \notin Heads /\ free_head \in Descs
  BY <1>2, FreeIsFree, PlaceTypes
<1>4. Heads' = Heads \cup {free_head}
  BY <1>1, PlaceTypes, BufsAssumption DEF Heads
<1>5. Spread(avail_ring', dev_avail, avail_idx)
      /\ Window(avail_ring', dev_avail, avail_idx) = Window(avail_ring, dev_avail, avail_idx)
  <2>1. free_head \notin Window(avail_ring, dev_avail, avail_idx)
    BY <1>1, <1>3 DEF Places, Available
  <2>2. /\ avail_ring'[Slot(avail_idx)] = free_head
        /\ \A d \in Descs : d # Slot(avail_idx) => avail_ring'[d] = avail_ring[d]
    BY <1>1, PlaceTypes
  <2>3. /\ avail_ring \in [Descs -> Descs] /\ dev_avail \in Idx /\ avail_idx \in Idx
        /\ Spread(avail_ring, dev_avail, avail_idx)
    BY <1>1, PlaceTypes DEF Places
  <2> DEFINE ring2 == avail_ring'
  <2>4. /\ ring2[Slot(avail_idx)] = free_head
        /\ \A d \in Descs : d # Slot(avail_idx) => ring2[d] = avail_ring[d]
    BY <2>2
  <2> HIDE DEF ring2
  <2>5. Spread(ring2, dev_avail, avail_idx)
        /\ Window(ring2, dev_avail, avail_idx) = Window(avail_ring, dev_avail, avail_idx)
    BY <1>3, <2>1, <2>3, <2>4, WindowGrows
  <2>. QED
    BY <2>5 DEF ring2
<1>6. Available' = Available /\ Used' = Used /\ held' = held
  BY <1>1, <1>5 DEF Available, Used
<1>7. Unpublished = {} /\ Unpublished' = {free_head}
  BY <1>1, <1>3, PlaceTypes DEF Unpublished
<1>8. /\ Spread(avail_ring', dev_avail', avail_idx')
      /\ Spread(used_ring', last_used_idx', used_idx')
  BY <1>1, <1>5 DEF Places
<1>9. Places'
  <2>1. Heads' = Unpublished' \cup Available' \cup held' \cup Used'
    BY <1>1, <1>4, <1>6, <1>7 DEF Places
  <2>2. free_head \notin Available \cup held \cup Used
    BY <1>1, <1>3 DEF Places
  <2>. QED
    BY <1>1, <1>6, <1>7, <1>8, <2>1, <2>2 DEF Places
<1>. QED
  BY <1>1, <1>9 DEF PlaceInv

\* The store to avail->idx makes the unpublished chain available.
LEMMA PublishPlaces ==
    ASSUME IInv, PlaceInv, BadIds = {}, AddBufPublish
    PROVE  PlaceInv'
<1> DEFINE x == avail_ring[Slot(avail_idx)]
<1>1. /\ pc = "publish" /\ pc' = "idle" /\ avail_idx' = Succ(avail_idx)
      /\ UNCHANGED <<data, avail_ring, last_used_idx, used_ring, used_idx, dev_avail, held, phase>>
  BY DEF AddBufPublish, device
<1>2. CASE phase = "running"
  <2>1. Places
    BY <1>2 DEF PlaceInv
  <2>2. x \in Descs /\ Unpublished = {x} /\ Unpublished' = {}
    BY <1>1, PlaceTypes DEF Unpublished
  <2>3. x \notin Available
    BY <2>1, <2>2 DEF Places
  <2>4. Spread(avail_ring, dev_avail, Succ(avail_idx))
        /\ Window(avail_ring, dev_avail, Succ(avail_idx)) = Available \cup {x}
    <3>1. x \notin Window(avail_ring, dev_avail, avail_idx)
      BY <2>3 DEF Available
    <3>2. Spread(avail_ring, dev_avail, avail_idx)
      BY <2>1 DEF Places
    <3>3. \A d \in Descs : d # Slot(avail_idx) => avail_ring[d] = avail_ring[d]
      OBVIOUS
    <3> DEFINE y == x
    <3>4. y = avail_ring[Slot(avail_idx)]
      OBVIOUS
    <3> HIDE DEF x, y
    <3>. QED
      BY <2>2, <3>1, <3>2, <3>3, <3>4, PlaceTypes, WindowGrows DEF Available, x, y
  <2>5. Available' = Available \cup {x} /\ Used' = Used /\ Heads' = Heads
    BY <1>1, <2>4 DEF Available, Used, Heads
  <2> HIDE DEF x
  <2>6. Places'
    <3>1. /\ Spread(avail_ring', dev_avail', avail_idx')
          /\ Spread(used_ring', last_used_idx', used_idx')
      BY <1>1, <2>1, <2>4 DEF Places
    <3>2. Heads' = Unpublished' \cup Available' \cup held' \cup Used'
      BY <1>1, <2>1, <2>2, <2>5 DEF Places
    <3>. QED
      BY <1>1, <2>1, <2>2, <2>5, <3>1, <3>2 DEF Places
  <2>. QED
    BY <1>1, <1>2, <2>6 DEF PlaceInv
<1>3. CASE phase # "running"
  BY <1>1, <1>3 DEF PlaceInv
<1>. QED
  BY <1>2, <1>3

\* virtqueue_get_buf takes the oldest used chain, which is a posted one.
LEMMA GetBufPlaces ==
    ASSUME IInv, PlaceInv, BadIds = {}, GetBuf
    PROVE  PlaceInv'
<1> DEFINE x == used_ring[Slot(last_used_idx)]
<1>1. /\ phase = "running" /\ pc = "idle" /\ last_used_idx # used_idx
      /\ last_used_idx' = Succ(last_used_idx)
      /\ data' = [data EXCEPT ![x] = NULL]
      /\ UNCHANGED <<avail_ring, avail_idx, used_ring, used_idx, dev_avail, held, phase, pc>>
  BY DEF GetBuf, MoreUsed, Detach, UsedId, device
<1>2. Places
  BY <1>1 DEF PlaceInv
<1>3. /\ Spread(used_ring, Succ(last_used_idx), used_idx)
      /\ x \in Used
      /\ Window(used_ring, Succ(last_used_idx), used_idx) = Used \ {x}
  BY <1>1, <1>2, PlaceTypes, WindowShrinks DEF Places, Used
<1>4. Heads' = Heads \ {x}
  BY <1>1, PlaceTypes, BufsAssumption DEF Heads
<1>5. Used' = Used \ {x} /\ Available' = Available /\ Unpublished' = Unpublished
  BY <1>1, <1>3 DEF Used, Available, Unpublished
<1> HIDE DEF x
<1>6. Places'
  <2>1. /\ Spread(avail_ring', dev_avail', avail_idx')
        /\ Spread(used_ring', last_used_idx', used_idx')
    BY <1>1, <1>2, <1>3 DEF Places
  <2>2. Heads' = Unpublished' \cup Available' \cup held' \cup Used'
    BY <1>1, <1>2, <1>3, <1>4, <1>5 DEF Places
  <2>. QED
    BY <1>1, <1>2, <1>5, <2>1, <2>2 DEF Places
<1>. QED
  BY <1>1, <1>6 DEF PlaceInv

\* The device takes the oldest available chain.
LEMMA DevFetchPlaces ==
    ASSUME IInv, PlaceInv, BadIds = {}, DevFetch
    PROVE  PlaceInv'
<1> DEFINE x == avail_ring[Slot(dev_avail)]
<1>1. /\ phase = "running" /\ dev_avail # avail_idx
      /\ held' = held \cup {x} /\ dev_avail' = Succ(dev_avail)
      /\ UNCHANGED <<data, avail_ring, avail_idx, used_ring, last_used_idx, used_idx, phase, pc>>
  BY DEF DevFetch, driver
<1>2. Places
  BY <1>1 DEF PlaceInv
<1>3. /\ Spread(avail_ring, Succ(dev_avail), avail_idx)
      /\ x \in Available
      /\ Window(avail_ring, Succ(dev_avail), avail_idx) = Available \ {x}
  BY <1>1, <1>2, PlaceTypes, WindowShrinks DEF Places, Available
<1>4. Used' = Used /\ Available' = Available \ {x} /\ Unpublished' = Unpublished /\ Heads' = Heads
  BY <1>1, <1>3 DEF Used, Available, Unpublished, Heads
<1> HIDE DEF x
<1>5. Places'
  <2>1. /\ Spread(avail_ring', dev_avail', avail_idx')
        /\ Spread(used_ring', last_used_idx', used_idx')
    BY <1>1, <1>2, <1>3 DEF Places
  <2>2. Heads' = Unpublished' \cup Available' \cup held' \cup Used'
    BY <1>1, <1>2, <1>3, <1>4 DEF Places
  <2>. QED
    BY <1>1, <1>2, <1>3, <1>4, <2>1, <2>2 DEF Places
<1>. QED
  BY <1>1, <1>5 DEF PlaceInv

\* The device returns a chain it holds; the slot of the used ring was free.
LEMMA DevUsePlaces ==
    ASSUME IInv, PlaceInv, BadIds = {}, NEW head \in Descs, DevUse(head)
    PROVE  PlaceInv'
<1>1. /\ phase = "running" /\ head \in held /\ held' = held \ {head}
      /\ used_ring' = [used_ring EXCEPT ![Slot(used_idx)] = head]
      /\ used_idx' = Succ(used_idx)
      /\ UNCHANGED <<data, avail_ring, avail_idx, last_used_idx, dev_avail, phase, pc>>
  BY DEF DevUse, DevWriteUsed, driver
<1>2. Places
  BY <1>1 DEF PlaceInv
<1>3. /\ Spread(used_ring', last_used_idx, Succ(used_idx))
      /\ Window(used_ring', last_used_idx, Succ(used_idx)) = Used \cup {head}
  <2>1. head \notin Window(used_ring, last_used_idx, used_idx)
    BY <1>1, <1>2 DEF Places, Used
  <2>2. /\ used_ring \in [Descs -> Descs] /\ last_used_idx \in Idx /\ used_idx \in Idx
        /\ Spread(used_ring, last_used_idx, used_idx)
    BY <1>2, PlaceTypes DEF Places
  <2> DEFINE ring2 == used_ring'
  <2>3. /\ ring2[Slot(used_idx)] = head
        /\ \A d \in Descs : d # Slot(used_idx) => ring2[d] = used_ring[d]
    BY <1>1, PlaceTypes
  <2> HIDE DEF ring2
  <2>4. /\ Spread(ring2, last_used_idx, Succ(used_idx))
        /\ Window(ring2, last_used_idx, Succ(used_idx)) =
             Window(used_ring, last_used_idx, used_idx) \cup {head}
    BY <2>1, <2>2, <2>3, WindowGrows
  <2>. QED
    BY <2>4 DEF ring2, Used
<1>4. Used' = Used \cup {head} /\ Available' = Available /\ Unpublished' = Unpublished
      /\ Heads' = Heads
  BY <1>1, <1>3 DEF Used, Available, Unpublished, Heads
<1>5. Places'
  <2>1. /\ Spread(avail_ring', dev_avail', avail_idx')
        /\ Spread(used_ring', last_used_idx', used_idx')
    BY <1>1, <1>2, <1>3 DEF Places
  <2>2. Heads' = Unpublished' \cup Available' \cup held' \cup Used'
    BY <1>1, <1>2, <1>4 DEF Places
  <2>. QED
    BY <1>1, <1>2, <1>4, <2>1, <2>2 DEF Places
<1>. QED
  BY <1>1, <1>5 DEF PlaceInv

\* virtqueue_shutdown starts again with nothing anywhere.
LEMMA ShutdownPlaces ==
    ASSUME IInv, PlaceInv, BadIds = {}, Shutdown
    PROVE  PlaceInv'
<1>1. /\ avail_idx' = 0 /\ dev_avail' = 0 /\ used_idx' = 0 /\ last_used_idx' = 0
      /\ pc' = "idle" /\ phase' = "running" /\ held' = {}
      /\ data' = [d \in Descs |-> NULL]
  BY DEF Shutdown, PlaceInv
<1>2. Heads' = {} /\ Unpublished' = {}
  BY <1>1 DEF Heads, Unpublished
<1>3. /\ Spread(avail_ring', dev_avail', avail_idx') /\ Available' = {}
      /\ Spread(used_ring', last_used_idx', used_idx') /\ Used' = {}
  BY <1>1, IndexFacts, EmptyWindow DEF Available, Used
<1>. QED
  BY <1>1, <1>2, <1>3 DEF PlaceInv, Places

\* Every step of the driver and the device moves a chain from one place to the next.
LEMMA NextPlaces == IInv /\ PlaceInv /\ BadIds = {} /\ [Next]_vars => PlaceInv'
<1> SUFFICES ASSUME IInv, PlaceInv, BadIds = {}, [Next]_vars
             PROVE  PlaceInv'
  OBVIOUS
<1>1. ASSUME UNCHANGED <<placeVars, data, phase>>
      PROVE  PlaceInv'
  <2>1. /\ Heads' = Heads /\ Unpublished' = Unpublished /\ Available' = Available
        /\ Used' = Used /\ held' = held
    BY <1>1 DEF placeVars, Heads, Unpublished, Available, Used
  <2>2. /\ Spread(avail_ring', dev_avail', avail_idx') = Spread(avail_ring, dev_avail, avail_idx)
        /\ Spread(used_ring', last_used_idx', used_idx') =
             Spread(used_ring, last_used_idx, used_idx)
    BY <1>1 DEF placeVars
  <2>. QED
    BY <1>1, <2>1, <2>2 DEF PlaceInv, Places, placeVars
<1>2. ASSUME NEW b \in Bufs, AddBuf(b)
      PROVE  PlaceInv'
  BY <1>2, AddBufPlaces
<1>3. ASSUME NEW b \in Bufs, AddBufNoSpace(b)
      PROVE  PlaceInv'
  BY <1>1, <1>3 DEF AddBufNoSpace, placeVars, device
<1>4. CASE AddBufPublish
  BY <1>4, PublishPlaces
<1>5. CASE GetBuf
  BY <1>5, GetBufPlaces
<1>6. CASE GetBufNull
  BY <1>1, <1>6 DEF GetBufNull, placeVars, device
<1>7. CASE DetachUnusedBuf
  BY <1>7 DEF DetachUnusedBuf, PlaceInv, device
<1>8. CASE DetachUnusedBufNone
  BY <1>1, <1>8 DEF DetachUnusedBufNone, placeVars, device
<1>9. CASE Shutdown
  BY <1>9, ShutdownPlaces
<1>10. CASE DevFetch
  BY <1>10, DevFetchPlaces
<1>11. CASE DevReset
  BY <1>11 DEF DevReset, PlaceInv
<1>12. ASSUME NEW head \in Descs, DevUse(head)
       PROVE  PlaceInv'
  BY <1>12, DevUsePlaces
<1>13. CASE UNCHANGED vars
  BY <1>1, <1>13 DEF vars, driver, device, placeVars
<1>. QED
  BY <1>2, <1>3, <1>4, <1>5, <1>6, <1>7, <1>8, <1>9, <1>10, <1>11, <1>12, <1>13 DEF Next

\* Disjoint sets are counted separately.
LEMMA DisjointCount ==
    ASSUME NEW S, NEW T, IsFiniteSet(S), IsFiniteSet(T), S \cap T = {}
    PROVE  /\ IsFiniteSet(S \cup T)
           /\ Cardinality(S \cup T) = Cardinality(S) + Cardinality(T)
<1>1. IsFiniteSet(S \cup T)
      /\ Cardinality(S \cup T) = Cardinality(S) + Cardinality(T) - Cardinality(S \cap T)
  BY FS_Union
<1>2. Cardinality(S \cap T) = 0
  BY FS_EmptySet
<1>3. Cardinality(S) \in Nat /\ Cardinality(T) \in Nat
  BY FS_CardinalityType
<1>. QED
  BY <1>1, <1>2, <1>3

\* The places are counted.
LEMMA PlacesCount ==
    ASSUME IInv, PlaceInv, BadIds = {}
    PROVE  OnePlace
<1> SUFFICES ASSUME phase = "running"
             PROVE  /\ Heads = Unpublished \cup Available \cup held \cup Used
                    /\ Distance(dev_avail, avail_idx) = Cardinality(Available)
                    /\ Distance(last_used_idx, used_idx) = Cardinality(Used)
                    /\ Cardinality(Heads) = Cardinality(Unpublished) + Cardinality(Available)
                                              + Cardinality(held) + Cardinality(Used)
  BY DEF OnePlace
<1>1. Places
  BY DEF PlaceInv
<1>2. /\ IsFiniteSet(Available) /\ Distance(dev_avail, avail_idx) = Cardinality(Available)
      /\ IsFiniteSet(Used) /\ Distance(last_used_idx, used_idx) = Cardinality(Used)
  BY <1>1, PlaceTypes, WindowCount DEF Places, Available, Used
<1>3. IsFiniteSet(held) /\ IsFiniteSet(Unpublished)
  <2>1. IsFiniteSet(Descs)
    BY DescsFacts, FS_Interval DEF Descs
  <2>2. held \subseteq Descs /\ Unpublished \subseteq Descs
    BY PlaceTypes DEF Unpublished
  <2>. QED
    BY <2>1, <2>2, FS_Subset
<1> DEFINE A == Unpublished \cup Available
           B == A \cup held
<1>4. /\ IsFiniteSet(A) /\ Cardinality(A) = Cardinality(Unpublished) + Cardinality(Available)
  <2>1. Unpublished \cap Available = {}
    BY <1>1 DEF Places
  <2>. QED
    BY <1>2, <1>3, <2>1, DisjointCount
<1>5. /\ IsFiniteSet(B) /\ Cardinality(B) = Cardinality(A) + Cardinality(held)
  <2>1. A \cap held = {}
    BY <1>1 DEF Places
  <2>. QED
    BY <1>3, <1>4, <2>1, DisjointCount
<1>6. Cardinality(B \cup Used) = Cardinality(B) + Cardinality(Used)
  <2>1. B \cap Used = {}
    BY <1>1 DEF Places
  <2>. QED
    BY <1>2, <1>5, <2>1, DisjointCount
<1>7. Heads = B \cup Used
  BY <1>1 DEF Places
<1>. QED
  BY <1>1, <1>2, <1>4, <1>5, <1>6, <1>7 DEF Places

\* While the device runs and returns what it was given, every posted chain is in
\* exactly one of four places, and no slot of a ring is overwritten before it was read.
THEOREM OnePlaceCorrect == ASSUME BadIds = {} PROVE Spec => []OnePlace
<1>1. Init => IInv /\ PlaceInv
  BY InitIInv, InitPlaces
<1>2. IInv /\ PlaceInv /\ [Next]_vars => IInv' /\ PlaceInv'
  BY NextIInv, NextPlaces
<1>3. IInv /\ PlaceInv => OnePlace
  BY PlacesCount
<1>. QED
  BY <1>1, <1>2, <1>3, PTL DEF Spec

-----------------------------------------------------------------------------
(* What the chains describe                                                *)

\* The descriptors that b takes when it finds room.
Takes(b) == IF Req[b].indirect /\ Segs(b) > 1 THEN 1 ELSE Segs(b)

\* The chain of every posted head has the length its buffer needs and describes the
\* buffer, whether the device can see it already or not.
DescribeInv ==
    \A h \in Heads :
      LET n == Takes(data[h])
      IN  n \in 1 .. Num /\ ChainLength(desc, h, n) /\ Describes(desc, h, n, data[h])

\* With room for b, that is what it costs; without, it costs more than there is.
LEMMA TakesIs ==
    ASSUME NEW b \in Bufs, num_free \in 0 .. Num
    PROVE  /\ Takes(b) \in 1 .. Num
           /\ HasRoom(b) => Cost(b) = Takes(b)
           /\ HasRoom(b) <=> num_free >= Takes(b)
<1>1. Segs(b) \in 1 .. Num
  BY BufsAssumption DEF Segs
<1>. QED
  BY <1>1, DescsFacts DEF Takes, Cost, HasRoom, UsesIndirect

\* A chain none of whose descriptors changes goes on describing its buffer.
LEMMA DescribesFrame ==
    ASSUME NEW t \in [Descs -> Descriptor], NEW u \in [Descs -> Descriptor],
           NEW h \in Descs, NEW n \in 1 .. Num, NEW b,
           \A k \in 1 .. n : u[Follow(t, h)[k]] = t[Follow(t, h)[k]],
           ChainLength(t, h, n), Describes(t, h, n, b)
    PROVE  ChainLength(u, h, n) /\ Describes(u, h, n, b)
<1>1. \A k \in 1 .. n : Follow(u, h)[k] = Follow(t, h)[k]
  <2>1. \A k \in 1 .. (n - 1) : k \in 1 .. n
    BY DescsFacts
  <2>2. \A k \in 1 .. (n - 1) : u[Follow(t, h)[k]].next = t[Follow(t, h)[k]].next
    BY <2>1
  <2>3. SameNexts(t, u, h, n)
    BY <2>2, Zenon DEF SameNexts
  <2>. QED
    BY <2>3, FollowFrame
<1>2. \A k \in 1 .. n : u[Follow(u, h)[k]] = t[Follow(t, h)[k]]
  BY <1>1
<1>3. 1 \in 1 .. n /\ n \in 1 .. n /\ \A k \in 1 .. (n - 1) : k \in 1 .. n /\ k + 1 \in 1 .. n
  BY DescsFacts
<1>. QED
  BY <1>2, <1>3 DEF ChainLength, Describes

\* The new chain describes the new buffer.
LEMMA FilledDescribes ==
    ASSUME IInv, NEW b \in Bufs, AddBuf(b)
    PROVE  /\ Cost(b) \in 1 .. Num
           /\ ChainLength(desc', free_head, Cost(b))
           /\ Describes(desc', free_head, Cost(b), b)
<1> DEFINE n == Cost(b)
           free == Follow(desc, free_head)
           mine == Follow(desc', free_head)
<1>1. /\ desc \in [Descs -> Descriptor] /\ free_head \in Descs /\ num_free \in 0 .. Num
      /\ HasRoom(b)
  BY DEF IInv, TypeOK, AddBuf
<1>2. /\ n \in 1 .. Num /\ desc' \in [Descs -> Descriptor]
      /\ \A k \in 1 .. n : desc'[free[k]] = Filled(b, k, free[k])
      /\ \A k \in 1 .. n : "NEXT" \in desc'[free[k]].flags <=> k < n
      /\ \A d \in Descs : desc'[d].next = desc[d].next
  BY AddBufTable
<1>3. \A k \in 1 .. n : mine[k] = free[k]
  <2>1. free \in [1 .. Num -> Descs]
    BY <1>1, FollowWalks
  <2>2. \A k \in 1 .. (n - 1) : k \in 1 .. Num
    BY <1>2, DescsFacts
  <2>3. \A k \in 1 .. (n - 1) : desc'[free[k]].next = desc[free[k]].next
    BY <1>2, <2>1, <2>2
  <2> HIDE DEF n
  <2> DEFINE u == desc'
  <2>4. u \in [Descs -> Descriptor] /\ \A k \in 1 .. (n - 1) : u[free[k]].next = desc[free[k]].next
    BY <1>2, <2>3
  <2> HIDE DEF u
  <2>5. SameNexts(desc, u, free_head, n)
    BY <2>4, Zenon DEF SameNexts
  <2>6. \A k \in 1 .. n : Follow(u, free_head)[k] = free[k]
    BY <1>1, <1>2, <2>4, <2>5, FollowFrame
  <2>. QED
    BY <2>6 DEF u
<1> DEFINE at(k) == desc'[mine[k]]
<1>4. \A k \in 1 .. n : at(k) = Filled(b, k, free[k]) /\ ("NEXT" \in at(k).flags <=> k < n)
  BY <1>2, <1>3
<1>5. Segs(b) \in 1 .. Num /\ Req[b].out \in 0 .. Num
  BY BufsAssumption DEF Segs
<1>6. 1 \in 1 .. n /\ n \in 1 .. n
      /\ \A k \in 1 .. (n - 1) : k \in 1 .. n /\ k + 1 \in 1 .. n /\ k \in Nat
  BY <1>2, DescsFacts
<1>7. b # NULL
  BY BufsAssumption
<1>8. /\ \A k \in 1 .. n : at(k).addr # NULL /\ at(k).addr.buf = b
      /\ at(1).addr.first = 1
      /\ at(n).addr.last = Segs(b)
      /\ \A k \in 1 .. (n - 1) : at(k + 1).addr.first = at(k).addr.last + 1
      /\ \A k \in 1 .. n : "INDIRECT" \notin at(k).flags =>
            ("WRITE" \in at(k).flags <=> at(k).addr.first > Req[b].out)
  <2> HIDE DEF at, n, free
  <2>0. ASSUME NEW r, r \in [buf : Bufs, first : 1 .. Num, last : 1 .. Num]
        PROVE  r # NULL
    BY <2>0, NullAssumption
  <2>1. CASE UsesIndirect(b)
    <3> DEFINE r == [buf |-> b, first |-> 1, last |-> Segs(b)]
    <3>1. n = 1
      BY <2>1 DEF Cost, n
    <3>2. at(1).addr = r /\ at(1).flags = {"INDIRECT"}
      BY <1>4, <1>6, <2>1 DEF Filled
    <3>3. r \in [buf : Bufs, first : 1 .. Num, last : 1 .. Num]
      BY <1>5, DescsFacts
    <3>4. r # NULL
      BY <2>0, <3>3
    <3>. QED
      BY <3>1, <3>2, <3>4
  <2>2. CASE ~UsesIndirect(b)
    <3> DEFINE r(k) == [buf |-> b, first |-> k, last |-> k]
    <3>1. n = Segs(b)
      BY <2>2 DEF Cost, n
    <3>2. ASSUME NEW k \in 1 .. n
          PROVE  /\ at(k).addr.buf = b /\ at(k).addr.first = k /\ at(k).addr.last = k
                 /\ at(k).addr # NULL
                 /\ "WRITE" \in at(k).flags <=> k > Req[b].out
      <4>1. /\ at(k).addr = r(k)
            /\ at(k).flags = {f \in {"NEXT"} : k < Cost(b)} \cup {f \in {"WRITE"} : k > Req[b].out}
        BY <1>4, <2>2 DEF Filled
      <4>2. r(k) \in [buf : Bufs, first : 1 .. Num, last : 1 .. Num]
        BY <1>2, DescsFacts DEF n
      <4>3. r(k) # NULL
        BY <2>0, <4>2
      <4>. QED
        BY <4>1, <4>3
    <3>. QED
      BY <1>6, <3>1, <3>2
  <2>. QED
    BY <2>1, <2>2
<1>9. ChainLength(desc', free_head, n)
  BY <1>4 DEF ChainLength
<1>10. Describes(desc', free_head, n, b)
  BY <1>8 DEF Describes
<1>. QED
  BY <1>2, <1>9, <1>10

\* virtqueue_add_buf describes its buffer, and touches no posted chain.
LEMMA AddBufDescribes ==
    ASSUME IInv, DescribeInv, NEW b \in Bufs, AddBuf(b)
    PROVE  DescribeInv'
<1> DEFINE free == Follow(desc, free_head)
<1>1. /\ desc \in [Descs -> Descriptor] /\ free_head \in Descs /\ num_free \in 0 .. Num
      /\ data \in [Descs -> Bufs \cup {NULL}] /\ Heads \subseteq Descs
  BY DEF IInv, TypeOK, Heads
<1>2. /\ Cost(b) \in 1 .. num_free
      /\ desc' \in [Descs -> Descriptor]
      /\ \A d \in Descs : (\A k \in 1 .. Cost(b) : free[k] # d) => desc'[d] = desc[d]
  BY AddBufTable
<1>3. data' = [data EXCEPT ![free_head] = b]
  BY DEF AddBuf
<1>4. Heads' = Heads \cup {free_head}
  BY <1>1, <1>3, BufsAssumption DEF Heads
<1>5. PICK len \in [Heads -> 1 .. Num] : Partition(desc, free_head, num_free, Heads, len)
  BY DEF IInv, DescriptorAccounting
<1>6. free_head \notin Heads
  <2>1. num_free >= 1
    BY <1>1, <1>2
  <2>. QED
    BY <2>1, FreeIsFree
<1>7. ASSUME NEW h \in Heads
      PROVE  LET n == Takes(data'[h])
             IN  /\ n \in 1 .. Num
                 /\ ChainLength(desc', h, n) /\ Describes(desc', h, n, data'[h])
  <2> DEFINE n == len[h]
             mine == Follow(desc, h)
  <2>1. n \in 1 .. Num /\ h \in Descs /\ mine \in [1 .. Num -> Descs]
    BY <1>1, FollowWalks
  <2>2. n = Takes(data[h]) /\ ChainLength(desc, h, n) /\ Describes(desc, h, n, data[h])
    <3> DEFINE m == Takes(data[h])
    <3>1. m \in 1 .. Num /\ ChainLength(desc, h, m) /\ Describes(desc, h, m, data[h])
      BY DEF DescribeInv
    <3>2. ChainLength(desc, h, n)
      BY <1>5 DEF Partition
    <3> HIDE DEF m
    <3>3. m = n
      BY <2>1, <3>1, <3>2, ChainLengthUnique
    <3>. QED
      BY <3>1, <3>3 DEF m
  <2>3. ASSUME NEW k \in 1 .. n
        PROVE  desc'[mine[k]] = desc[mine[k]]
    <3>1. k \in 1 .. Num /\ mine[k] \in Descs
      BY <2>1, DescsFacts
    <3>2. \A j \in 1 .. Cost(b) : j \in 1 .. num_free
      BY <1>1, <1>2
    <3>3. \A j \in 1 .. Cost(b) : mine[k] # free[j]
      BY <1>5, <3>2 DEF Partition
    <3>. QED
      BY <1>2, <3>1, <3>3
  <2>4. data'[h] = data[h]
    BY <1>1, <1>3, <1>6
  <2> DEFINE u == desc'
  <2>5. /\ u \in [Descs -> Descriptor]
        /\ \A k \in 1 .. n : u[Follow(desc, h)[k]] = desc[Follow(desc, h)[k]]
    BY <1>2, <2>3
  <2> HIDE DEF u, n
  <2>6. ChainLength(u, h, n) /\ Describes(u, h, n, data[h])
    BY <1>1, <2>1, <2>2, <2>5, DescribesFrame
  <2>. QED
    BY <2>1, <2>2, <2>4, <2>6 DEF u
<1>8. data'[free_head] = b
  BY <1>1, <1>3
<1>9. LET n == Takes(data'[free_head])
      IN  n \in 1 .. Num /\ ChainLength(desc', free_head, n)
          /\ Describes(desc', free_head, n, data'[free_head])
  <2>1. Cost(b) = Takes(b)
    BY <1>1, TakesIs DEF AddBuf
  <2>. QED
    BY <1>8, <2>1, FilledDescribes
<1>. QED
  BY <1>4, <1>7, <1>9 DEF DescribeInv

\* detach_buf changes one descriptor, of the chain it gives back.
LEMMA DetachDescribes ==
    ASSUME IInv, DescribeInv, NEW head \in Heads, Detach(head)
    PROVE  DescribeInv'
<1>1. /\ desc \in [Descs -> Descriptor] /\ free_head \in Descs
      /\ data \in [Descs -> Bufs \cup {NULL}] /\ Heads \subseteq Descs /\ head \in Descs
  BY DEF IInv, TypeOK, Heads
<1>2. PICK c \in 1 .. Num :
        /\ ChainLength(desc, head, c)
        /\ desc' = [desc EXCEPT ![Follow(desc, head)[c]].next = free_head]
        /\ data' = [data EXCEPT ![head] = NULL]
  BY DEF Detach
<1>3. PICK len \in [Heads -> 1 .. Num] : Partition(desc, free_head, num_free, Heads, len)
  BY DEF IInv, DescriptorAccounting
<1>4. len[head] = c
  BY <1>2, <1>3, ChainLengthUnique DEF Partition
<1> DEFINE last == Follow(desc, head)[c]
<1>5. last \in Descs
  <2>1. Follow(desc, head) \in [1 .. Num -> Descs]
    BY <1>1, FollowWalks
  <2>. QED
    BY <2>1
<1>6. desc' \in [Descs -> Descriptor] /\ \A d \in Descs : d # last => desc'[d] = desc[d]
  BY <1>1, <1>2, <1>5 DEF Descriptor
<1>7. Heads' = Heads \ {head}
  BY <1>1, <1>2 DEF Heads
<1>8. ASSUME NEW h \in Heads \ {head}
      PROVE  LET n == Takes(data'[h])
             IN  /\ n \in 1 .. Num
                 /\ ChainLength(desc', h, n) /\ Describes(desc', h, n, data'[h])
  <2> DEFINE n == len[h]
             mine == Follow(desc, h)
  <2>1. n \in 1 .. Num /\ h \in Descs /\ mine \in [1 .. Num -> Descs]
    BY <1>1, FollowWalks
  <2>2. n = Takes(data[h]) /\ ChainLength(desc, h, n) /\ Describes(desc, h, n, data[h])
    <3> DEFINE m == Takes(data[h])
    <3>1. m \in 1 .. Num /\ ChainLength(desc, h, m) /\ Describes(desc, h, m, data[h])
      BY DEF DescribeInv
    <3>2. ChainLength(desc, h, n)
      BY <1>3 DEF Partition
    <3> HIDE DEF m
    <3>3. m = n
      BY <2>1, <3>1, <3>2, ChainLengthUnique
    <3>. QED
      BY <3>1, <3>3 DEF m
  <2>3. ASSUME NEW k \in 1 .. n
        PROVE  desc'[mine[k]] = desc[mine[k]]
    <3>1. k \in 1 .. Num /\ mine[k] \in Descs
      BY <2>1, DescsFacts
    <3>2. c \in 1 .. len[head]
      BY <1>2, <1>4, DescsFacts
    <3>3. mine[k] # last
      BY <1>3, <3>2 DEF Partition
    <3>. QED
      BY <1>6, <3>1, <3>3
  <2>4. data'[h] = data[h]
    BY <1>1, <1>2
  <2> DEFINE u == desc'
  <2>5. /\ u \in [Descs -> Descriptor]
        /\ \A k \in 1 .. n : u[Follow(desc, h)[k]] = desc[Follow(desc, h)[k]]
    BY <1>6, <2>3
  <2> HIDE DEF u, n
  <2>6. ChainLength(u, h, n) /\ Describes(u, h, n, data[h])
    BY <1>1, <2>1, <2>2, <2>5, DescribesFrame
  <2>. QED
    BY <2>1, <2>2, <2>4, <2>6 DEF u
<1>. QED
  BY <1>7, <1>8 DEF DescribeInv

\* Nothing is posted in a fresh queue.
LEMMA InitDescribes == Init => DescribeInv
BY DEF Init, DescribeInv, Heads

\* Nothing else writes to the table.
LEMMA NextDescribes == IInv /\ DescribeInv /\ [Next]_vars => DescribeInv'
<1> SUFFICES ASSUME IInv, DescribeInv, [Next]_vars
             PROVE  DescribeInv'
  OBVIOUS
<1>1. ASSUME UNCHANGED <<desc, data>>
      PROVE  DescribeInv'
  <2>1. Heads' = Heads
    BY <1>1 DEF Heads
  <2>. QED
    BY <1>1, <2>1 DEF DescribeInv
<1>2. ASSUME NEW b \in Bufs, AddBuf(b)
      PROVE  DescribeInv'
  BY <1>2, AddBufDescribes
<1>3. ASSUME NEW b \in Bufs, AddBufNoSpace(b)
      PROVE  DescribeInv'
  BY <1>1, <1>3 DEF AddBufNoSpace
<1>4. CASE AddBufPublish \/ GetBufNull \/ DetachUnusedBufNone
  BY <1>1, <1>4 DEF AddBufPublish, GetBufNull, DetachUnusedBufNone
<1>5. CASE GetBuf
  <2>1. UsedId \in Heads /\ Detach(UsedId)
    BY <1>5 DEF GetBuf, IsHead, Heads
  <2>. QED
    BY <2>1, DetachDescribes
<1>6. CASE DetachUnusedBuf
  <2>1. PICK head \in Heads : Detach(head)
    BY <1>6 DEF DetachUnusedBuf
  <2>. QED
    BY <2>1, DetachDescribes
<1>7. CASE Shutdown
  BY <1>7 DEF Shutdown, DescribeInv, Heads
<1>8. CASE DevFetch \/ DevReset
  BY <1>1, <1>8 DEF DevFetch, DevReset, driver
<1>9. ASSUME NEW head \in Descs, DevUse(head)
      PROVE  DescribeInv'
  BY <1>1, <1>9 DEF DevUse, DevWriteUsed, driver
<1>10. ASSUME NEW id \in BadIds, DevUseBadId(id)
       PROVE  DescribeInv'
  BY <1>1, <1>10 DEF DevUseBadId, DevWriteUsed, driver
<1>11. CASE UNCHANGED vars
  BY <1>1, <1>11 DEF vars, driver
<1>. QED
  BY <1>2, <1>3, <1>4, <1>5, <1>6, <1>7, <1>8, <1>9, <1>10, <1>11 DEF Next

\* From the store to avail->idx until it returns a chain, the device reads in it the
\* scatter list of the buffer that was posted.
THEOREM WholeBufferCorrect == ASSUME BadIds = {} PROVE Spec => []DeviceSeesWholeBuffer
<1>1. Init => IInv /\ PlaceInv /\ DescribeInv
  BY InitIInv, InitPlaces, InitDescribes
<1>2. IInv /\ PlaceInv /\ DescribeInv /\ [Next]_vars => IInv' /\ PlaceInv' /\ DescribeInv'
  BY NextIInv, NextPlaces, NextDescribes
<1>3. IInv /\ PlaceInv /\ DescribeInv => DeviceSeesWholeBuffer
  BY DEF PlaceInv, Places, DescribeInv, DeviceSeesWholeBuffer
<1>. QED
  BY <1>1, <1>2, <1>3, PTL DEF Spec

-----------------------------------------------------------------------------
(* The tokens that are posted                                              *)

\* The same as a function, to be summed.
takes == [b \in Bufs |-> Takes(b)]

\* The tokens that are posted, and what they take.
LEMMA TokenTypes ==
    ASSUME IInv
    PROVE  /\ Outstanding \in SUBSET Bufs /\ IsFiniteSet(Outstanding)
           /\ \A h \in Heads : data[h] \in Bufs /\ h \in Descs
           /\ \A b \in Bufs : takes[b] = Takes(b) /\ takes[b] \in Nat /\ Takes(b) \in 1 .. Num
           /\ num_free \in 0 .. Num
<1>1. /\ data \in [Descs -> Bufs \cup {NULL}] /\ num_free \in 0 .. Num
      /\ Heads \subseteq Descs /\ \A h \in Heads : data[h] \in Bufs
  BY DEF IInv, TypeOK, Heads
<1>2. IsFiniteSet(Heads)
  <2>1. IsFiniteSet(Descs)
    BY DescsFacts, FS_Interval DEF Descs
  <2>. QED
    BY <1>1, <2>1, FS_Subset
<1> DEFINE f == [h \in Heads |-> data[h]]
<1>3. f \in Surjection(Heads, Outstanding)
  BY DEF Surjection, Outstanding
<1>4. IsFiniteSet(Outstanding)
  BY <1>2, <1>3, FS_Surjection DEF ExistsSurjection
<1>5. Outstanding \in SUBSET Bufs
  BY <1>1 DEF Outstanding
<1>6. \A b \in Bufs : Takes(b) \in 1 .. Num
  BY <1>1, TakesIs
<1>7. \A b \in Bufs : takes[b] = Takes(b) /\ takes[b] \in Nat
  BY <1>6, DescsFacts DEF takes
<1>. QED
  BY <1>1, <1>4, <1>5, <1>6, <1>7

\* No token is posted twice, and num_free is what the posted ones leave.  The slot that
\* avail->idx is about to reach holds a posted head (also when a reset has come between
\* the two halves of virtqueue_add_buf).
TokenInv ==
    /\ pc = "publish" => avail_ring[Slot(avail_idx)] \in Heads
    /\ \A g, h \in Heads : data[g] = data[h] => g = h
    /\ Sum(takes, Outstanding) + num_free = Num

\* The chain of a new token takes what its buffer needs.
LEMMA AddBufTokens ==
    ASSUME IInv, TokenInv, NEW b \in Bufs, AddBuf(b)
    PROVE  TokenInv'
<1>1. /\ pc = "idle" /\ b \notin Outstanding /\ HasRoom(b)
      /\ num_free' = num_free - Cost(b)
      /\ data' = [data EXCEPT ![free_head] = b]
      /\ avail_ring' = [avail_ring EXCEPT ![Slot(avail_idx)] = free_head]
      /\ pc' = "publish" /\ avail_idx' = avail_idx
  BY DEF AddBuf
<1>2. /\ num_free \in 0 .. Num /\ free_head \in Descs /\ data \in [Descs -> Bufs \cup {NULL}]
      /\ avail_ring \in [Descs -> Descs] /\ avail_idx \in Idx /\ Heads \subseteq Descs
      /\ Slot(avail_idx) \in Descs
  BY IndexFacts DEF IInv, TypeOK, Heads
<1>3. Cost(b) = Takes(b) /\ Takes(b) \in 1 .. Num /\ num_free >= Takes(b)
  BY <1>1, <1>2, TakesIs
<1>4. free_head \notin Heads
  BY <1>2, <1>3, FreeIsFree, DescsFacts
<1>5. /\ Heads' = Heads \cup {free_head} /\ data'[free_head] = b
      /\ \A h \in Heads : data'[h] = data[h]
  BY <1>1, <1>2, <1>4, BufsAssumption DEF Heads
<1>6. Outstanding' = Outstanding \cup {b}
  <2>1. \A y : y \in Outstanding' <=> \E h \in Heads' : y = data'[h]
    BY DEF Outstanding
  <2>2. \A y : y \in Outstanding <=> \E h \in Heads : y = data[h]
    BY DEF Outstanding
  <2>. QED
    BY <1>5, <2>1, <2>2
<1>7. Sum(takes, Outstanding \cup {b}) = Sum(takes, Outstanding) + takes[b]
  BY <1>1, TokenTypes, SumAdd
<1>8. Sum(takes, Outstanding) \in Nat
  BY TokenTypes, SumType
<1>9. Sum(takes, Outstanding') + num_free' = Num
  BY <1>1, <1>2, <1>3, <1>6, <1>7, <1>8, TokenTypes DEF TokenInv
<1>10. avail_ring'[Slot(avail_idx')] \in Heads'
  BY <1>1, <1>2, <1>5
<1>11. \A h \in Heads : data[h] # b
  BY <1>1 DEF Outstanding
<1>12. \A g, h \in Heads' : data'[g] = data'[h] => g = h
  BY <1>5, <1>11 DEF TokenInv
<1>. QED
  BY <1>9, <1>10, <1>12 DEF TokenInv, takes

\* detach_buf gives back what the chain took.
LEMMA DetachTokens ==
    ASSUME IInv, DescribeInv, TokenInv, NEW head \in Heads, Detach(head), pc' = "idle"
    PROVE  TokenInv' /\ Heads' = Heads \ {head} /\ \A h \in Heads' : data'[h] = data[h]
<1>1. PICK n \in 1 .. Num :
        /\ ChainLength(desc, head, n)
        /\ num_free' = num_free + n
        /\ data' = [data EXCEPT ![head] = NULL]
  BY DEF Detach
<1>2. data \in [Descs -> Bufs \cup {NULL}] /\ head \in Descs
  BY DEF IInv, TypeOK, Heads
<1> DEFINE b == data[head]
<1>3. n = Takes(b)
  <2>1. Takes(b) \in 1 .. Num /\ ChainLength(desc, head, Takes(b))
    BY DEF DescribeInv
  <2>. QED
    BY <1>1, <2>1, ChainLengthUnique
<1>4. Heads' = Heads \ {head} /\ \A h \in Heads' : data'[h] = data[h]
  BY <1>1, <1>2 DEF Heads
<1>5. b \in Outstanding /\ \A h \in Heads \ {head} : data[h] # b
  BY DEF Outstanding, TokenInv
<1>6. Outstanding' = Outstanding \ {b}
  BY <1>4, <1>5 DEF Outstanding
<1> HIDE DEF b
<1>7. Sum(takes, Outstanding) = Sum(takes, Outstanding \ {b}) + takes[b]
  BY <1>5, TokenTypes, SumRemove
<1>8. Sum(takes, Outstanding \ {b}) \in Nat
  <2>1. IsFiniteSet(Outstanding \ {b})
    BY TokenTypes, FS_Subset
  <2>2. \A x \in Outstanding \ {b} : takes[x] \in Nat
    BY TokenTypes
  <2>. QED
    BY <2>1, <2>2, SumType
<1>9. takes[b] = Takes(b) /\ Takes(b) \in Nat /\ num_free \in Nat /\ Num \in Nat
  BY <1>5, TokenTypes, DescsFacts
<1>10. Sum(takes, Outstanding') + num_free' = Num
  BY <1>1, <1>3, <1>6, <1>7, <1>8, <1>9 DEF TokenInv
<1>11. \A g, h \in Heads' : data'[g] = data'[h] => g = h
  BY <1>4 DEF TokenInv
<1>. QED
  BY <1>4, <1>10, <1>11 DEF TokenInv, takes

\* Nothing is out in a fresh queue.
LEMMA FreshTokens ==
    ASSUME data = [d \in Descs |-> NULL], num_free = Num, pc = "idle"
    PROVE  TokenInv
<1>1. Heads = {} /\ Outstanding = {}
  BY DEF Heads, Outstanding
<1>2. Sum(takes, Outstanding) = 0
  BY <1>1, SumEmpty
<1>. QED
  BY <1>1, <1>2, DescsFacts DEF TokenInv

\* Nothing else posts a token or gives one back.
LEMMA NextTokens == IInv /\ DescribeInv /\ TokenInv /\ [Next]_vars => TokenInv'
<1> SUFFICES ASSUME IInv, DescribeInv, TokenInv, [Next]_vars
             PROVE  TokenInv'
  OBVIOUS
<1>1. ASSUME UNCHANGED <<data, num_free>>,
             pc' = "publish" => pc = "publish" /\ UNCHANGED <<avail_ring, avail_idx>>
      PROVE  TokenInv'
  <2>1. Heads' = Heads
    BY <1>1 DEF Heads
  <2>2. Outstanding' = Outstanding
    BY <1>1, <2>1 DEF Outstanding
  <2>. QED
    BY <1>1, <2>1, <2>2 DEF TokenInv, takes
<1>2. ASSUME NEW b \in Bufs, AddBuf(b)
      PROVE  TokenInv'
  BY <1>2, AddBufTokens
<1>3. ASSUME NEW b \in Bufs, AddBufNoSpace(b)
      PROVE  TokenInv'
  BY <1>1, <1>3 DEF AddBufNoSpace
<1>4. CASE AddBufPublish \/ GetBufNull \/ DetachUnusedBufNone
  BY <1>1, <1>4 DEF AddBufPublish, GetBufNull, DetachUnusedBufNone
<1>5. CASE GetBuf
  <2>1. UsedId \in Heads /\ Detach(UsedId) /\ pc' = "idle"
    BY <1>5 DEF GetBuf, IsHead, Heads
  <2>. QED
    BY <2>1, DetachTokens
<1>6. CASE DetachUnusedBuf
  <2>1. PICK head \in Heads : Detach(head) /\ pc' = "idle"
    BY <1>6 DEF DetachUnusedBuf
  <2>. QED
    BY <2>1, DetachTokens
<1>7. CASE Shutdown
  <2>1. data' = [d \in Descs |-> NULL] /\ num_free' = Num /\ pc' = "idle"
    BY <1>7 DEF Shutdown
  <2>2. Heads' = {} /\ Outstanding' = {}
    BY <2>1 DEF Heads, Outstanding
  <2>3. Sum(takes, Outstanding') = 0
    BY <2>2, SumEmpty
  <2>. QED
    BY <2>1, <2>2, <2>3, DescsFacts DEF TokenInv, takes
<1>8. CASE DevFetch \/ DevReset
  BY <1>1, <1>8 DEF DevFetch, DevReset, driver
<1>9. ASSUME NEW head \in Descs, DevUse(head)
      PROVE  TokenInv'
  BY <1>1, <1>9 DEF DevUse, DevWriteUsed, driver
<1>10. ASSUME NEW id \in BadIds, DevUseBadId(id)
       PROVE  TokenInv'
  BY <1>1, <1>10 DEF DevUseBadId, DevWriteUsed, driver
<1>11. CASE UNCHANGED vars
  BY <1>1, <1>11 DEF vars, driver
<1>. QED
  BY <1>2, <1>3, <1>4, <1>5, <1>6, <1>7, <1>8, <1>9, <1>10, <1>11 DEF Next

-----------------------------------------------------------------------------
(* The tokens in a part of a ring, as a sequence                           *)

\* One element more at the end.
LEMMA LongerSequence ==
    ASSUME NEW T, NEW n \in Nat, NEW s \in [1 .. n -> T], NEW x \in T,
           NEW t \in [1 .. (n + 1) -> T], \A k \in 1 .. n : t[k] = s[k], t[n + 1] = x
    PROVE  t = Append(s, x)
<1>1. s \in Seq(T) /\ t \in Seq(T) /\ Len(s) = n /\ Len(t) = n + 1
  OBVIOUS
<1>2. Append(s, x) \in Seq(T) /\ Len(Append(s, x)) = n + 1
  BY <1>1
<1>3. \A k \in 1 .. (n + 1) : Append(s, x)[k] = t[k]
  BY <1>1
<1>. QED
  BY <1>1, <1>2, <1>3

\* One element less at the front.
LEMMA ShorterSequence ==
    ASSUME NEW T, NEW n \in Nat, n > 0, NEW s \in [1 .. n -> T],
           NEW t \in [1 .. (n - 1) -> T], \A k \in 1 .. (n - 1) : t[k] = s[k + 1]
    PROVE  s # <<>> /\ Head(s) = s[1] /\ t = Tail(s)
<1>1. s \in Seq(T) /\ t \in Seq(T) /\ Len(s) = n /\ Len(t) = n - 1
  OBVIOUS
<1>2. Tail(s) \in Seq(T) /\ Len(Tail(s)) = n - 1 /\ s # <<>> /\ Head(s) = s[1]
  BY <1>1
<1>3. \A k \in 1 .. (n - 1) : Tail(s)[k] = t[k]
  BY <1>1
<1>. QED
  BY <1>1, <1>2, <1>3

\* What a table says of the heads in a part of a ring, in ring order.
Along(table, ring, from, to) == [k \in 1 .. Distance(from, to) |-> table[At(ring, from, k - 1)]]

\* That is how the tokens in a ring are found.
LEMMA AlongIs ==
    ASSUME NEW table, NEW ring, NEW from \in Idx, NEW to \in Idx
    PROVE  [k \in 1 .. Distance(from, to) |-> table[ring[Slot((from + k - 1) % IdxMod)]]] =
             Along(table, ring, from, to)
<1>1. from \in Nat /\ Distance(from, to) \in Nat
  BY IndexSteps DEF Idx
<1>2. \A k \in 1 .. Distance(from, to) : from + k - 1 = from + (k - 1)
  BY <1>1
<1>. QED
  BY <1>2 DEF Along, At

\* Tables that agree on the heads say the same.
LEMMA AlongSame ==
    ASSUME NEW ring, NEW from \in Idx, NEW to \in Idx, Spread(ring, from, to),
           NEW table, NEW table2, \A y \in Window(ring, from, to) : table2[y] = table[y],
           NEW ring2,
           \A k \in 0 .. (Distance(from, to) - 1) : At(ring2, from, k) = At(ring, from, k)
    PROVE  Along(table2, ring2, from, to) = Along(table, ring, from, to)
<1> DEFINE D == Distance(from, to)
<1>1. D \in Nat /\ \A k \in 0 .. (D - 1) : At(ring, from, k) \in Window(ring, from, to)
  BY WindowIs DEF Spread
<1> HIDE DEF D
<1>2. ASSUME NEW k \in 1 .. D
      PROVE  table2[At(ring2, from, k - 1)] = table[At(ring, from, k - 1)]
  <2>1. k - 1 \in 0 .. (D - 1)
    BY <1>1
  <2>. QED
    BY <1>1, <2>1 DEF D
<1>. QED
  BY <1>2 DEF Along, D

\* It is a sequence of tokens.
LEMMA AlongType ==
    ASSUME NEW ring, NEW from \in Idx, NEW to \in Idx, Spread(ring, from, to),
           NEW table, \A y \in Window(ring, from, to) : table[y] \in Bufs
    PROVE  Along(table, ring, from, to) \in [1 .. Distance(from, to) -> Bufs]
<1> DEFINE D == Distance(from, to)
<1>1. D \in Nat /\ \A k \in 0 .. (D - 1) : At(ring, from, k) \in Window(ring, from, to)
  BY WindowIs DEF Spread
<1> HIDE DEF D
<1>2. \A k \in 1 .. D : k - 1 \in 0 .. (D - 1)
  BY <1>1
<1>. QED
  BY <1>1, <1>2 DEF Along, D

\* It is empty exactly between an index and itself.
LEMMA AlongEmpty ==
    ASSUME NEW table, NEW ring, NEW i \in Idx
    PROVE  Along(table, ring, i, i) = <<>>
<1>1. Distance(i, i) = 0
  BY IndexSteps
<1>. QED
  BY <1>1 DEF Along

\* A head written behind the last one appends its token.
LEMMA AlongGrows ==
    ASSUME NEW ring \in [Descs -> Descs], NEW from \in Idx, NEW to \in Idx,
           Spread(ring, from, to), NEW x \in Descs, x \notin Window(ring, from, to),
           NEW ring2, ring2[Slot(to)] = x,
           \A d \in Descs : d # Slot(to) => ring2[d] = ring[d],
           NEW table, \A y \in Window(ring, from, to) : table[y] \in Bufs, table[x] \in Bufs
    PROVE  /\ Along(table, ring2, from, to) = Along(table, ring, from, to)
           /\ Along(table, ring2, from, Succ(to)) = Append(Along(table, ring, from, to), table[x])
<1> DEFINE D == Distance(from, to)
           s == Along(table, ring, from, to)
           t == Along(table, ring2, from, Succ(to))
<1>1. /\ Spread(ring2, from, Succ(to))
      /\ Window(ring2, from, Succ(to)) = Window(ring, from, to) \cup {x}
      /\ D \in Nat /\ Distance(from, Succ(to)) = D + 1
      /\ At(ring2, from, D) = x
      /\ \A k \in 0 .. (D - 1) : At(ring2, from, k) = At(ring, from, k)
  BY WindowGrows
<1>2. s \in [1 .. D -> Bufs]
  BY AlongType
<1>3. t \in [1 .. (D + 1) -> Bufs]
  <2>1. \A y \in Window(ring2, from, Succ(to)) : table[y] \in Bufs
    BY <1>1
  <2>. QED
    <3>1. Succ(to) \in Idx
      BY IndexFacts
    <3>2. Along(table, ring2, from, Succ(to)) \in [1 .. Distance(from, Succ(to)) -> Bufs]
      BY <1>1, <2>1, <3>1, AlongType, Zenon
    <3>. QED
      BY <1>1, <3>2, Zenon
<1>4. \A k \in 1 .. (D + 1) : t[k] = table[At(ring2, from, k - 1)]
  BY <1>1 DEF Along
<1>5. \A k \in 1 .. D : s[k] = table[At(ring, from, k - 1)]
  BY DEF Along
<1>6. Along(table, ring2, from, to) = s
  BY <1>1, AlongSame
<1> HIDE DEF D, s, t
<1>7. \A k \in 1 .. D : t[k] = s[k]
  <2> TAKE k \in 1 .. D
  <2>1. k - 1 \in 0 .. (D - 1) /\ k \in 1 .. (D + 1)
    BY <1>1
  <2>. QED
    BY <1>1, <1>4, <1>5, <2>1
<1>8. t[D + 1] = table[x]
  <2>1. D + 1 \in 1 .. (D + 1) /\ (D + 1) - 1 = D
    BY <1>1
  <2>. QED
    BY <1>1, <1>4, <2>1
<1>9. t = Append(s, table[x])
  BY <1>1, <1>2, <1>3, <1>7, <1>8, LongerSequence
<1>. QED
  BY <1>6, <1>9 DEF s, t

\* Passing the first head takes its token off.
LEMMA AlongShrinks ==
    ASSUME NEW ring, NEW from \in Idx, NEW to \in Idx, Spread(ring, from, to), from # to,
           NEW table, \A y \in Window(ring, from, to) : table[y] \in Bufs
    PROVE  /\ Along(table, ring, from, to) # <<>>
           /\ Head(Along(table, ring, from, to)) = table[ring[Slot(from)]]
           /\ Along(table, ring, Succ(from), to) = Tail(Along(table, ring, from, to))
<1> DEFINE D == Distance(from, to)
           s == Along(table, ring, from, to)
           t == Along(table, ring, Succ(from), to)
<1>1. /\ Spread(ring, Succ(from), to)
      /\ Window(ring, Succ(from), to) = Window(ring, from, to) \ {ring[Slot(from)]}
      /\ D \in Nat /\ D > 0 /\ Distance(Succ(from), to) = D - 1
      /\ At(ring, from, 0) = ring[Slot(from)]
      /\ \A k \in 0 .. ((D - 1) - 1) : At(ring, Succ(from), k) = At(ring, from, k + 1)
  BY WindowShrinks
<1>2. s \in [1 .. D -> Bufs]
  BY AlongType
<1>3. t \in [1 .. (D - 1) -> Bufs]
  <2>1. \A y \in Window(ring, Succ(from), to) : table[y] \in Bufs
    BY <1>1
  <2>. QED
    BY <1>1, <2>1, AlongType, IndexFacts
<1>4. \A k \in 1 .. (D - 1) : t[k] = table[At(ring, Succ(from), k - 1)]
  BY <1>1 DEF Along
<1>5. \A k \in 1 .. D : s[k] = table[At(ring, from, k - 1)]
  BY DEF Along
<1> HIDE DEF D, s, t
<1>6. \A k \in 1 .. (D - 1) : t[k] = s[k + 1]
  <2> TAKE k \in 1 .. (D - 1)
  <2>1. k - 1 \in 0 .. ((D - 1) - 1) /\ k + 1 \in 1 .. D /\ (k + 1) - 1 = (k - 1) + 1
    BY <1>1
  <2>. QED
    BY <1>1, <1>4, <1>5, <2>1
<1>7. s[1] = table[ring[Slot(from)]]
  <2>1. 1 \in 1 .. D /\ 1 - 1 = 0
    BY <1>1
  <2>. QED
    BY <1>1, <1>5, <2>1
<1>8. s # <<>> /\ Head(s) = s[1] /\ t = Tail(s)
  BY <1>1, <1>2, <1>3, <1>6, ShorterSequence
<1>. QED
  BY <1>7, <1>8 DEF s, t

-----------------------------------------------------------------------------
(* The exchange of tokens that the queue implements                        *)

\* The tokens that are out, as the abstract specification sees them.
Lent == {data[h] : h \in Heads \ Unpublished}

\* The room that the abstract specification counts.
LEMMA ExchangeRoom ==
    ASSUME NEW b \in Bufs, Lent \in SUBSET Bufs, IsFiniteSet(Lent)
    PROVE  Exchange!HasRoom(b) <=> Sum(takes, Lent) + Takes(b) <= Num
<1> DEFINE Solves(G, S) == G = [T \in SUBSET S |-> IF T = {} THEN 0
                               ELSE Exchange!Cost(Pick(T)) + G[T \ {Pick(T)}]]
           G0 == CHOOSE G : Solves(G, Lent)
<1>1. Exchange!HasRoom(b) <=> G0[Lent] + Exchange!Cost(b) <= Num
  BY Zenon DEF Exchange!HasRoom, Exchange!MapThenSumSet, Exchange!MapThenFoldSet, Pick, Lent
<1>2. \A x \in Bufs : takes[x] = Exchange!Cost(x) /\ takes[x] \in Nat /\ takes[x] = Takes(x)
  BY BufsAssumption, DescsFacts DEF takes, Takes, Segs, Exchange!Cost
<1> DEFINE S == Lent
<1>3. S \in SUBSET Bufs /\ IsFiniteSet(S)
  OBVIOUS
<1>4. G0[S] + Exchange!Cost(b) <= Num <=> G0[S] + Takes(b) <= Num
  BY <1>2
<1>. HIDE DEF S
<1>5. PICK F : IsSum(F, takes, S)
  BY <1>2, <1>3, SumExists
<1>6. Solves(F, S)
  <2>1. \A T \in SUBSET S : T # {} => Pick(T) \in Bufs
    BY <1>3 DEF Pick
  <2>. QED
    BY <1>2, <1>5, <2>1 DEF IsSum
<1>7. IsSum(G0, takes, S)
  <2>1. Solves(G0, S)
    BY <1>6, Zenon DEF S
  <2> HIDE DEF G0
  <2>2. \A T \in SUBSET S : T # {} => Pick(T) \in Bufs
    BY <1>3 DEF Pick
  <2>. QED
    BY <1>2, <2>1, <2>2 DEF IsSum
<1> HIDE DEF G0
<1>8. Sum(takes, S) = G0[S]
  BY <1>2, <1>3, <1>7, SumIs
<1>. QED
  BY <1>1, <1>4, <1>8 DEF S

\* The other three places as the abstract specification sees them.
Waiting == Tokens(avail_ring, dev_avail, avail_idx)
AtDevice == {data[h] : h \in held}
Returned == Tokens(used_ring, last_used_idx, used_idx)

\* What the steps of the exchange are proved from.
TokenState == IInv /\ PlaceInv /\ DescribeInv /\ TokenInv /\ BadIds = {}

\* While the device runs, the rings say which tokens are where, in order.
LEMMA Running ==
    ASSUME TokenState, phase = "running"
    PROVE  /\ Places
           /\ Waiting = Along(data, avail_ring, dev_avail, avail_idx)
           /\ Returned = Along(data, used_ring, last_used_idx, used_idx)
           /\ Available \subseteq Heads /\ Used \subseteq Heads /\ held \subseteq Heads
           /\ \A h \in Heads : data[h] \in Bufs
           /\ \A h \in Available \cup Used : data[h] \in Bufs
<1>1. Places
  BY DEF TokenState, PlaceInv
<1>2. Available \subseteq Heads /\ Used \subseteq Heads /\ held \subseteq Heads
  BY <1>1 DEF Places
<1>3. \A h \in Heads : data[h] \in Bufs
  BY TokenTypes DEF TokenState
<1>4. avail_idx \in Idx /\ used_idx \in Idx /\ dev_avail \in Idx /\ last_used_idx \in Idx
  BY PlaceTypes DEF TokenState
<1>. QED
  BY <1>1, <1>2, <1>3, <1>4, AlongIs, ZenonT(60) DEF Waiting, Returned, Tokens

\* The same after a step.
LEMMA RunningNext ==
    ASSUME IInv', phase' = "running"
    PROVE  /\ Waiting' = Along(data', avail_ring', dev_avail', avail_idx')
           /\ Returned' = Along(data', used_ring', last_used_idx', used_idx')
<1>1. avail_idx' \in Idx /\ used_idx' \in Idx /\ dev_avail' \in Idx /\ last_used_idx' \in Idx
  BY DEF IInv, TypeOK
<1>. QED
  BY <1>1, AlongIs, ZenonT(60) DEF Waiting, Returned, Tokens

\* After a reset the rings say nothing.
LEMMA Stopped ==
    /\ phase # "running" => Waiting = <<>> /\ Returned = <<>>
    /\ phase' # "running" => Waiting' = <<>> /\ Returned' = <<>>
BY DEF Waiting, Returned, Tokens

\* Between two operations, every posted token is lent.
LEMMA LentIs ==
    ASSUME TokenState
    PROVE  /\ Lent \in SUBSET Bufs /\ IsFiniteSet(Lent)
           /\ pc = "idle" => Lent = Outstanding
<1>1. Lent \subseteq Outstanding
  BY DEF Lent, Outstanding
<1>2. Lent \in SUBSET Bufs /\ IsFiniteSet(Lent)
  BY <1>1, TokenTypes, FS_Subset DEF TokenState
<1>3. pc = "idle" => Lent = Outstanding
  BY DEF Lent, Outstanding, Unpublished
<1>. QED
  BY <1>2, <1>3

\* Filling the descriptors shows nothing of the new token yet.
LEMMA AddBufHidden ==
    ASSUME TokenState, IInv', NEW b \in Bufs, AddBuf(b)
    PROVE  UNCHANGED <<Lent, Waiting, AtDevice, Returned, ret, phase>>
<1>1. /\ phase = "running" /\ pc = "idle" /\ HasRoom(b)
      /\ data' = [data EXCEPT ![free_head] = b]
      /\ avail_ring' = [avail_ring EXCEPT ![Slot(avail_idx)] = free_head]
      /\ pc' = "publish"
      /\ UNCHANGED <<avail_idx, last_used_idx, used_ring, used_idx, dev_avail, held, ret, phase>>
  BY DEF AddBuf, device
<1>2. IInv /\ num_free >= 1
  BY <1>1, PlaceTypes, CostFacts DEF TokenState
<1>3. free_head \notin Heads /\ free_head \in Descs
  BY <1>2, FreeIsFree, PlaceTypes DEF TokenState
<1>4. /\ avail_ring \in [Descs -> Descs] /\ avail_idx \in Idx /\ dev_avail \in Idx
      /\ used_idx \in Idx /\ last_used_idx \in Idx
      /\ data \in [Descs -> Bufs \cup {NULL}] /\ Slot(avail_idx) \in Descs
  BY PlaceTypes DEF TokenState
<1>5. Heads' = Heads \cup {free_head} /\ \A h \in Heads : data'[h] = data[h]
  BY <1>1, <1>3, <1>4, BufsAssumption DEF Heads
<1>6. Unpublished = {} /\ Unpublished' = {free_head}
  BY <1>1, <1>3, <1>4 DEF Unpublished
<1>7. Heads' \ Unpublished' = Heads /\ Heads \ Unpublished = Heads
  BY <1>3, <1>5, <1>6
<1>8. Lent' = Lent
  BY <1>5, <1>7 DEF Lent
<1>9. AtDevice' = AtDevice
  BY <1>1, <1>5, Running DEF AtDevice
<1>10. Waiting' = Waiting
  <2>1. /\ Spread(avail_ring, dev_avail, avail_idx)
        /\ free_head \notin Window(avail_ring, dev_avail, avail_idx)
    BY <1>1, <1>3, Running DEF Places, Available
  <2> DEFINE ring2 == avail_ring'
             table2 == data'
  <2>2. /\ ring2[Slot(avail_idx)] = free_head
        /\ \A d \in Descs : d # Slot(avail_idx) => ring2[d] = avail_ring[d]
        /\ \A h \in Available : table2[h] = data[h]
    BY <1>1, <1>4, <1>5, Running
  <2>3. Waiting' = Along(table2, ring2, dev_avail, avail_idx)
    BY <1>1, RunningNext
  <2> HIDE DEF ring2, table2
  <2>4. \A k \in 0 .. (Distance(dev_avail, avail_idx) - 1) :
           At(ring2, dev_avail, k) = At(avail_ring, dev_avail, k)
    BY <1>3, <1>4, <2>1, <2>2, WindowGrows
  <2>5. Along(table2, ring2, dev_avail, avail_idx) = Along(data, avail_ring, dev_avail, avail_idx)
    BY <1>4, <2>1, <2>2, <2>4, AlongSame DEF Available
  <2>. QED
    BY <1>1, <2>3, <2>5, Running
<1>11. Returned' = Returned
  <2>1. Spread(used_ring, last_used_idx, used_idx)
    BY <1>1, Running DEF Places
  <2> DEFINE table2 == data'
  <2>2. \A h \in Used : table2[h] = data[h]
    BY <1>1, <1>5, Running
  <2>3. Returned' = Along(table2, used_ring, last_used_idx, used_idx)
    BY <1>1, RunningNext
  <2> HIDE DEF table2
  <2>4. Along(table2, used_ring, last_used_idx, used_idx) =
          Along(data, used_ring, last_used_idx, used_idx)
    BY <1>4, <2>1, <2>2, AlongSame DEF Used
  <2>. QED
    BY <1>1, <2>3, <2>4, Running
<1>. QED
  BY <1>1, <1>8, <1>9, <1>10, <1>11

\* The store to avail->idx posts the token.
LEMMA PublishPosts ==
    ASSUME TokenState, IInv', AddBufPublish
    PROVE  \E b \in Bufs : Exchange!Post(b)
<1> DEFINE x == avail_ring[Slot(avail_idx)]
<1>0. PICK b : b = data[x]
  OBVIOUS
<1>1. /\ pc = "publish" /\ pc' = "idle" /\ avail_idx' = Succ(avail_idx) /\ ret' = "OK"
      /\ UNCHANGED <<data, avail_ring, last_used_idx, used_ring, used_idx, dev_avail, held, phase>>
  BY DEF AddBufPublish, device
<1>2. x \in Heads /\ b \in Bufs /\ x \in Descs
  BY <1>0, <1>1, TokenTypes DEF TokenState, TokenInv
<1>3. Unpublished = {x} /\ Unpublished' = {} /\ Heads' = Heads
  BY <1>1, <1>2 DEF Unpublished, Heads
<1>4. \A h \in Heads \ {x} : data[h] # b
  BY <1>0, <1>2 DEF TokenState, TokenInv
<1> HIDE DEF x
<1>5. b \notin Lent /\ Outstanding = Lent \cup {b} /\ Lent' = Lent \cup {b}
  <2>1. /\ \A y : y \in Lent <=> \E h \in Heads \ {x} : y = data[h]
        /\ \A y : y \in Lent' <=> \E h \in Heads : y = data[h]
        /\ \A y : y \in Outstanding <=> \E h \in Heads : y = data[h]
    BY <1>1, <1>3 DEF Lent, Outstanding
  <2>. QED
    BY <1>0, <1>2, <1>4, <2>1
<1>6. Exchange!HasRoom(b)
  <2>1. Sum(takes, Lent \cup {b}) = Sum(takes, Lent) + takes[b]
    BY <1>2, <1>5, LentIs, TokenTypes, SumAdd DEF TokenState
  <2>2. Sum(takes, Lent) \in Nat
    BY LentIs, TokenTypes, SumType DEF TokenState
  <2>3. Sum(takes, Lent) + Takes(b) <= Num
    BY <1>2, <1>5, <2>1, <2>2, TokenTypes, DescsFacts DEF TokenState, TokenInv
  <2>. QED
    BY <1>2, <2>3, LentIs, ExchangeRoom
<1>7. Waiting' = IF phase = "running" THEN Append(Waiting, b) ELSE Waiting
  <2>1. CASE phase = "running"
    <3>1. /\ avail_ring \in [Descs -> Descs] /\ avail_idx \in Idx /\ dev_avail \in Idx
      BY PlaceTypes DEF TokenState
    <3>2. /\ Spread(avail_ring, dev_avail, avail_idx)
          /\ x \notin Window(avail_ring, dev_avail, avail_idx)
      BY <1>3, <2>1, Running DEF Places, Available
    <3>3. \A h \in Window(avail_ring, dev_avail, avail_idx) : data[h] \in Bufs
      BY <2>1, Running DEF Available
    <3>4. avail_ring[Slot(avail_idx)] = x /\ data[x] \in Bufs
          /\ \A d \in Descs : d # Slot(avail_idx) => avail_ring[d] = avail_ring[d]
      BY <1>0, <1>2 DEF x
    <3>5. Along(data, avail_ring, dev_avail, Succ(avail_idx)) =
            Append(Along(data, avail_ring, dev_avail, avail_idx), data[x])
      BY <1>2, <3>1, <3>2, <3>3, <3>4, AlongGrows
    <3>6. Waiting' = Along(data, avail_ring, dev_avail, Succ(avail_idx))
      BY <1>1, <2>1, RunningNext
    <3>. QED
      BY <1>0, <2>1, <3>5, <3>6, Running
  <2>2. CASE phase # "running"
    BY <1>1, <2>2, Stopped
  <2>. QED
    BY <2>1, <2>2
<1>8. Returned' = Returned /\ AtDevice' = AtDevice
  BY <1>1 DEF Returned, Tokens, AtDevice
<1>9. Exchange!Post(b)
  BY <1>1, <1>5, <1>6, <1>7, <1>8 DEF Exchange!Post, Lent, Waiting, Returned, AtDevice
<1>. QED
  BY <1>2, <1>9

\* -ENOSPC: the tokens that are out leave too few descriptors.
LEMMA NoSpaceRefuses ==
    ASSUME TokenState, NEW b \in Bufs, AddBufNoSpace(b)
    PROVE  Exchange!Refuse(b)
<1>1. /\ pc = "idle" /\ b \notin Outstanding /\ ~HasRoom(b) /\ ret' = "ENOSPC"
      /\ UNCHANGED <<data, avail_ring, avail_idx, last_used_idx, used_ring, used_idx,
                     dev_avail, held, pc, phase>>
  BY DEF AddBufNoSpace, device
<1>2. Lent = Outstanding /\ Lent \in SUBSET Bufs /\ IsFiniteSet(Lent)
  BY <1>1, LentIs
<1>3. ~Exchange!HasRoom(b)
  <2>1. num_free < Takes(b) /\ num_free \in Nat /\ Takes(b) \in Nat
    BY <1>1, TokenTypes, TakesIs, DescsFacts DEF TokenState
  <2>2. Sum(takes, Lent) \in Nat /\ Sum(takes, Lent) + num_free = Num
    BY <1>2, TokenTypes, SumType DEF TokenState, TokenInv
  <2>. QED
    BY <1>2, <2>1, <2>2, ExchangeRoom, DescsFacts
<1>4. UNCHANGED <<Lent, Waiting, AtDevice, Returned>>
  BY <1>1 DEF Lent, Waiting, AtDevice, Returned, Tokens, Heads, Unpublished
<1>. QED
  BY <1>1, <1>2, <1>3, <1>4 DEF Exchange!Refuse, Lent, Waiting, Returned, AtDevice

\* virtqueue_get_buf gives back the token the device returned first.
LEMMA GetBufCollects ==
    ASSUME TokenState, IInv', GetBuf
    PROVE  Exchange!Collect
<1> DEFINE x == used_ring[Slot(last_used_idx)]
<1>1. /\ phase = "running" /\ pc = "idle" /\ last_used_idx # used_idx
      /\ last_used_idx' = Succ(last_used_idx)
      /\ data' = [data EXCEPT ![x] = NULL]
      /\ ret' = data[x]
      /\ UNCHANGED <<avail_ring, avail_idx, used_ring, used_idx, dev_avail, held, phase, pc>>
  BY DEF GetBuf, MoreUsed, Detach, UsedId, device
<1>2. Places /\ \A h \in Used : data[h] \in Bufs
  BY <1>1, Running
<1>3. /\ last_used_idx \in Idx /\ used_idx \in Idx /\ dev_avail \in Idx /\ avail_idx \in Idx
      /\ data \in [Descs -> Bufs \cup {NULL}] /\ held \subseteq Descs
  BY PlaceTypes DEF TokenState
<1>4. /\ Spread(used_ring, Succ(last_used_idx), used_idx)
      /\ x \in Used
      /\ Window(used_ring, Succ(last_used_idx), used_idx) = Used \ {x}
  BY <1>1, <1>2, <1>3, WindowShrinks DEF Places, Used
<1>5. x \in Heads /\ x \notin held /\ x \notin Available
  BY <1>2, <1>4 DEF Places
<1>6. Heads' = Heads \ {x} /\ \A h \in Descs \ {x} : data'[h] = data[h]
  BY <1>1, <1>3 DEF Heads
<1>7. Heads \subseteq Descs /\ Available \subseteq Heads
  BY <1>2 DEF Heads, Places
<1> DEFINE table2 == data'
<1>8. \A h \in Available \cup held \cup (Used \ {x}) : table2[h] = data[h]
  BY <1>2, <1>5, <1>6, <1>7 DEF Places
<1>9. Waiting' = Along(table2, avail_ring, dev_avail, avail_idx)
      /\ Returned' = Along(table2, used_ring, Succ(last_used_idx), used_idx)
  BY <1>1, RunningNext
<1>10. AtDevice' = AtDevice
  BY <1>1, <1>8 DEF AtDevice
<1>11. Lent' = Lent \ {data[x]}
  <2>1. Unpublished = {} /\ Unpublished' = {}
    BY <1>1 DEF Unpublished
  <2>2. /\ \A y : y \in Lent <=> \E h \in Heads : y = data[h]
        /\ \A y : y \in Lent' <=> \E h \in Heads \ {x} : y = data[h]
    BY <1>6, <1>7, <2>1 DEF Lent
  <2>3. \A h \in Heads : data[h] = data[x] => h = x
    BY <1>5 DEF TokenState, TokenInv
  <2> HIDE DEF x
  <2>4. \A y : y \in Lent' <=> y \in Lent /\ y # data[x]
    BY <1>5, <2>2, <2>3
  <2>. QED
    BY <2>4
<1> HIDE DEF table2
<1>12. Waiting' = Waiting
  <2>1. Spread(avail_ring, dev_avail, avail_idx)
    BY <1>2 DEF Places
  <2>2. Along(table2, avail_ring, dev_avail, avail_idx) =
          Along(data, avail_ring, dev_avail, avail_idx)
    BY <1>3, <1>8, <2>1, AlongSame DEF Available
  <2>. QED
    BY <1>1, <1>9, <2>2, Running
<1>13. Returned # <<>> /\ Head(Returned) = data[x] /\ Returned' = Tail(Returned)
  <2>1. Returned = Along(data, used_ring, last_used_idx, used_idx)
    BY <1>1, Running
  <2>2. /\ Returned # <<>> /\ Head(Returned) = data[x]
        /\ Along(data, used_ring, Succ(last_used_idx), used_idx) = Tail(Returned)
    BY <1>1, <1>2, <1>3, <2>1, AlongShrinks DEF Places, Used
  <2>3. Along(table2, used_ring, Succ(last_used_idx), used_idx) =
          Along(data, used_ring, Succ(last_used_idx), used_idx)
    BY <1>3, <1>4, <1>8, IndexFacts, AlongSame
  <2>. QED
    BY <1>9, <2>2, <2>3
<1>. QED
  BY <1>1, <1>10, <1>11, <1>12, <1>13
     DEF Exchange!Collect, Lent, Waiting, Returned, AtDevice

\* It finds nothing only when the device has returned nothing.
LEMMA GetBufNullCollectsNone ==
    ASSUME TokenState, GetBufNull
    PROVE  Exchange!CollectNone
<1>1. /\ phase = "running" /\ pc = "idle" /\ ret' = NULL
      /\ last_used_idx # used_idx => ~IsHead(used_ring[Slot(last_used_idx)])
      /\ UNCHANGED <<data, avail_ring, avail_idx, last_used_idx, used_ring, used_idx,
                     dev_avail, held, pc, phase>>
  BY DEF GetBufNull, MoreUsed, UsedId, device
<1>2. last_used_idx \in Idx /\ used_idx \in Idx
  BY PlaceTypes DEF TokenState
<1>3. last_used_idx = used_idx
  <2> SUFFICES ASSUME last_used_idx # used_idx PROVE FALSE
    OBVIOUS
  <2>1. used_ring[Slot(last_used_idx)] \in Used
    BY <1>1, <1>2, Running, WindowShrinks DEF Places, Used
  <2>2. used_ring[Slot(last_used_idx)] \in Heads
    BY <1>1, <2>1, Running
  <2>. QED
    BY <1>1, <2>2 DEF IsHead, Heads
<1>4. Returned = <<>>
  BY <1>1, <1>2, <1>3, Running, AlongEmpty
<1>5. UNCHANGED <<Lent, Waiting, AtDevice, Returned>>
  BY <1>1 DEF Lent, Waiting, AtDevice, Returned, Tokens, Heads, Unpublished
<1>. QED
  BY <1>1, <1>4, <1>5 DEF Exchange!CollectNone, Lent, Waiting, Returned, AtDevice

\* virtqueue_detach_unused_buf takes one token back.
LEMMA DetachReclaims ==
    ASSUME TokenState, DetachUnusedBuf
    PROVE  \E b \in Bufs : Exchange!Reclaim(b)
<1>1. PICK head \in Heads : Detach(head) /\ ret' = data[head]
  BY DEF DetachUnusedBuf
<1>2. phase = "stopped" /\ pc = "idle" /\ pc' = "idle" /\ UNCHANGED <<held, phase>>
  BY DEF DetachUnusedBuf, device
<1>0. PICK b : b = data[head]
  OBVIOUS
<1>3. b \in Bufs
  BY <1>0, TokenTypes DEF TokenState
<1>4. Heads' = Heads \ {head} /\ \A h \in Heads' : data'[h] = data[h]
  BY <1>1, <1>2, DetachTokens DEF TokenState
<1>5. Unpublished = {} /\ Unpublished' = {}
  BY <1>2 DEF Unpublished
<1>6. \A h \in Heads \ {head} : data[h] # b
  BY <1>0 DEF TokenState, TokenInv
<1>7. b \in Lent /\ Lent' = Lent \ {b}
  <2>1. /\ \A y : y \in Lent <=> \E h \in Heads : y = data[h]
        /\ \A y : y \in Lent' <=> \E h \in Heads \ {head} : y = data[h]
    BY <1>4, <1>5 DEF Lent
  <2>2. \A y : y \in Lent' <=> y \in Lent /\ y # b
    BY <1>0, <1>6, <2>1
  <2>. QED
    BY <1>0, <2>1, <2>2
<1>8. UNCHANGED <<Waiting, Returned>>
  BY <1>2, Stopped
<1>9. AtDevice = {} /\ AtDevice' = {}
  BY <1>2 DEF AtDevice, TokenState, PlaceInv
<1>10. Exchange!Reclaim(b)
  BY <1>0, <1>1, <1>2, <1>7, <1>8, <1>9
     DEF Exchange!Reclaim, Lent, Waiting, Returned, AtDevice
<1>. QED
  BY <1>3, <1>10

\* It returns NULL once there is none left.
LEMMA DetachNoneReclaimsNone ==
    ASSUME TokenState, DetachUnusedBufNone
    PROVE  Exchange!ReclaimNone
<1>1. /\ phase = "stopped" /\ Heads = {} /\ ret' = NULL
      /\ UNCHANGED <<data, avail_ring, avail_idx, last_used_idx, used_ring, used_idx,
                     dev_avail, held, pc, phase>>
  BY DEF DetachUnusedBufNone, device
<1>2. Lent = {}
  BY <1>1 DEF Lent
<1>3. UNCHANGED <<Lent, Waiting, AtDevice, Returned>>
  BY <1>1 DEF Lent, Waiting, AtDevice, Returned, Tokens, Heads, Unpublished
<1>. QED
  BY <1>1, <1>2, <1>3 DEF Exchange!ReclaimNone, Lent, Waiting, Returned, AtDevice

\* virtqueue_shutdown forgets whatever is left.
LEMMA ShutdownForgets ==
    ASSUME TokenState, IInv', Shutdown
    PROVE  Exchange!Forget
<1>1. /\ phase = "stopped" /\ phase' = "running" /\ held' = held /\ held = {} /\ ret' = ret
      /\ avail_idx' = 0 /\ dev_avail' = 0 /\ used_idx' = 0 /\ last_used_idx' = 0
      /\ data' = [d \in Descs |-> NULL]
  BY DEF Shutdown, TokenState, PlaceInv
<1>2. Waiting = <<>> /\ Returned = <<>>
  BY <1>1, Stopped
<1>3. Waiting' = <<>> /\ Returned' = <<>>
  BY <1>1, RunningNext, AlongEmpty, IndexFacts
<1>4. Lent' = {}
  <2>1. Heads' = {}
    BY <1>1 DEF Heads
  <2>. QED
    BY <2>1 DEF Lent
<1>5. AtDevice' = AtDevice
  BY <1>1 DEF AtDevice
<1>. QED
  BY <1>1, <1>2, <1>3, <1>4, <1>5 DEF Exchange!Forget, Lent, Waiting, Returned, AtDevice

\* The device takes the token that was posted first.
LEMMA DevFetchTakes ==
    ASSUME TokenState, IInv', DevFetch
    PROVE  Exchange!Take
<1> DEFINE x == avail_ring[Slot(dev_avail)]
<1>1. /\ phase = "running" /\ dev_avail # avail_idx
      /\ held' = held \cup {x} /\ dev_avail' = Succ(dev_avail)
      /\ UNCHANGED <<data, avail_ring, avail_idx, used_ring, last_used_idx, used_idx, phase, pc,
                     ret>>
  BY DEF DevFetch, driver
<1>2. Spread(avail_ring, dev_avail, avail_idx) /\ \A h \in Available : data[h] \in Bufs
  BY <1>1, Running DEF Places
<1>3. dev_avail \in Idx /\ avail_idx \in Idx
  BY PlaceTypes DEF TokenState
<1>4. Waiting = Along(data, avail_ring, dev_avail, avail_idx)
      /\ Waiting' = Along(data, avail_ring, Succ(dev_avail), avail_idx)
  BY <1>1, Running, RunningNext
<1>5. Waiting # <<>> /\ Head(Waiting) = data[x] /\ Waiting' = Tail(Waiting)
  BY <1>1, <1>2, <1>3, <1>4, AlongShrinks, ZenonT(60) DEF Available
<1>6. AtDevice' = AtDevice \cup {data[x]}
  <2>1. /\ \A y : y \in AtDevice <=> \E h \in held : y = data[h]
        /\ \A y : y \in AtDevice' <=> \E h \in held \cup {x} : y = data[h]
    BY <1>1 DEF AtDevice
  <2> HIDE DEF x
  <2>2. \A y : y \in AtDevice' <=> y \in AtDevice \/ y = data[x]
    BY <2>1
  <2>. QED
    BY <2>2
<1>7. UNCHANGED <<Lent, Returned>>
  BY <1>1 DEF Lent, Returned, Tokens, Heads, Unpublished
<1>. QED
  BY <1>1, <1>5, <1>6, <1>7 DEF Exchange!Take, Lent, Waiting, Returned, AtDevice

\* It returns one of those it took.
LEMMA DevUseReturns ==
    ASSUME TokenState, IInv', NEW head \in Descs, DevUse(head)
    PROVE  \E b \in Bufs : Exchange!Return(b)
<1>1. /\ phase = "running" /\ head \in held /\ held' = held \ {head}
      /\ used_ring' = [used_ring EXCEPT ![Slot(used_idx)] = head]
      /\ used_idx' = Succ(used_idx)
      /\ UNCHANGED <<data, avail_ring, avail_idx, last_used_idx, dev_avail, phase, pc, ret>>
  BY DEF DevUse, DevWriteUsed, driver
<1>2. Places /\ held \subseteq Heads /\ \A h \in Used \cup Heads : data[h] \in Bufs
  BY <1>1, Running
<1>3. /\ used_ring \in [Descs -> Descs] /\ last_used_idx \in Idx /\ used_idx \in Idx
      /\ Slot(used_idx) \in Descs
  BY PlaceTypes DEF TokenState
<1>0. PICK b : b = data[head]
  OBVIOUS
<1>4. b \in Bufs
  BY <1>0, <1>1, <1>2
<1>5. \A h \in held \ {head} : data[h] # b
  BY <1>0, <1>1, <1>2 DEF TokenState, TokenInv
<1>6. Returned' = Append(Returned, b)
  <2> DEFINE ring2 == used_ring'
  <2>1. /\ ring2[Slot(used_idx)] = head
        /\ \A d \in Descs : d # Slot(used_idx) => ring2[d] = used_ring[d]
    BY <1>1, <1>3
  <2>2. Returned' = Along(data, ring2, last_used_idx, Succ(used_idx))
    BY <1>1, RunningNext
  <2> HIDE DEF ring2
  <2>3. /\ Spread(used_ring, last_used_idx, used_idx)
        /\ head \notin Window(used_ring, last_used_idx, used_idx)
        /\ \A h \in Window(used_ring, last_used_idx, used_idx) : data[h] \in Bufs
    BY <1>1, <1>2 DEF Places, Used
  <2>4. Along(data, ring2, last_used_idx, Succ(used_idx)) =
          Append(Along(data, used_ring, last_used_idx, used_idx), data[head])
    BY <1>0, <1>3, <1>4, <2>1, <2>3, AlongGrows
  <2>. QED
    BY <1>0, <1>1, <2>2, <2>4, Running
<1>7. b \in AtDevice /\ AtDevice' = AtDevice \ {b}
  <2>1. /\ \A y : y \in AtDevice <=> \E h \in held : y = data[h]
        /\ \A y : y \in AtDevice' <=> \E h \in held \ {head} : y = data[h]
    BY <1>1 DEF AtDevice
  <2>2. \A y : y \in AtDevice' <=> y \in AtDevice /\ y # b
    BY <1>0, <1>1, <1>5, <2>1
  <2>. QED
    BY <1>0, <1>1, <2>1, <2>2
<1>8. UNCHANGED <<Lent, Waiting>>
  BY <1>1 DEF Lent, Waiting, Tokens, Heads, Unpublished
<1>9. Exchange!Return(b)
  BY <1>1, <1>6, <1>7, <1>8 DEF Exchange!Return, Lent, Waiting, Returned, AtDevice
<1>. QED
  BY <1>4, <1>9

\* A reset empties every place but the driver's own.
LEMMA DevResetResets ==
    ASSUME TokenState, DevReset
    PROVE  Exchange!Reset
<1>1. /\ phase = "running" /\ phase' = "stopped" /\ held' = {}
      /\ UNCHANGED <<data, avail_ring, avail_idx, pc, ret>>
  BY DEF DevReset, driver
<1>2. Waiting' = <<>> /\ Returned' = <<>> /\ AtDevice' = {}
  BY <1>1, Stopped DEF AtDevice
<1>3. Lent' = Lent
  BY <1>1 DEF Lent, Heads, Unpublished
<1>. QED
  BY <1>1, <1>2, <1>3 DEF Exchange!Reset, Lent, Waiting, Returned, AtDevice

\* Every step is one of the exchange, or shows nothing.
LEMMA NextExchanges ==
    ASSUME TokenState, IInv', [Next]_vars
    PROVE  [Exchange!Next]_(Exchange!vars)
<1>1. ASSUME UNCHANGED <<Lent, Waiting, AtDevice, Returned, ret, phase>>
      PROVE  UNCHANGED Exchange!vars
  BY <1>1 DEF Exchange!vars, Lent, Waiting, AtDevice, Returned
<1>2. ASSUME NEW b \in Bufs, AddBuf(b)
      PROVE  UNCHANGED Exchange!vars
  BY <1>1, <1>2, AddBufHidden
<1>3. ASSUME NEW b \in Bufs, AddBufNoSpace(b)
      PROVE  Exchange!Next
  BY <1>3, NoSpaceRefuses DEF Exchange!Next
<1>4. CASE AddBufPublish
  BY <1>4, PublishPosts DEF Exchange!Next
<1>5. CASE GetBuf
  BY <1>5, GetBufCollects DEF Exchange!Next
<1>6. CASE GetBufNull
  BY <1>6, GetBufNullCollectsNone DEF Exchange!Next
<1>7. CASE DetachUnusedBuf
  BY <1>7, DetachReclaims DEF Exchange!Next
<1>8. CASE DetachUnusedBufNone
  BY <1>8, DetachNoneReclaimsNone DEF Exchange!Next
<1>9. CASE Shutdown
  BY <1>9, ShutdownForgets DEF Exchange!Next
<1>10. CASE DevFetch
  BY <1>10, DevFetchTakes DEF Exchange!Next
<1>11. CASE DevReset
  BY <1>11, DevResetResets DEF Exchange!Next
<1>12. ASSUME NEW head \in Descs, DevUse(head)
       PROVE  Exchange!Next
  BY <1>12, DevUseReturns DEF Exchange!Next
<1>13. CASE UNCHANGED vars
  <2>1. UNCHANGED <<Lent, Waiting, AtDevice, Returned, ret, phase>>
    BY <1>13 DEF vars, driver, device, Lent, Waiting, AtDevice, Returned, Tokens, Heads, Unpublished
  <2>. QED
    BY <1>1, <2>1
<1>14. BadIds = {}
  BY DEF TokenState
<1>. QED
  BY <1>2, <1>3, <1>4, <1>5, <1>6, <1>7, <1>8, <1>9, <1>10, <1>11, <1>12, <1>13, <1>14 DEF Next

\* A fresh queue is a fresh exchange.
LEMMA InitExchanges == Init => Exchange!Init /\ TokenInv
<1> SUFFICES ASSUME Init PROVE Exchange!Init /\ TokenInv
  OBVIOUS
<1>1. /\ data = [d \in Descs |-> NULL] /\ num_free = Num /\ pc = "idle" /\ held = {}
      /\ avail_idx = 0 /\ dev_avail = 0 /\ used_idx = 0 /\ last_used_idx = 0
      /\ ret = NULL /\ phase = "running"
  BY DEF Init
<1>2. TokenInv
  BY <1>1, FreshTokens
<1>3. Heads = {}
  BY <1>1 DEF Heads
<1>4. Lent = {} /\ AtDevice = {}
  BY <1>1, <1>3 DEF Lent, AtDevice
<1>5. Waiting = <<>> /\ Returned = <<>>
  <2>1. /\ avail_idx \in Idx /\ dev_avail \in Idx /\ used_idx \in Idx /\ last_used_idx \in Idx
        /\ phase = "running"
    BY <1>1, IndexFacts
  <2>2. /\ Waiting = Along(data, avail_ring, dev_avail, avail_idx)
        /\ Returned = Along(data, used_ring, last_used_idx, used_idx)
    BY <2>1, AlongIs, ZenonT(60) DEF Waiting, Returned, Tokens
  <2>. QED
    BY <1>1, <2>1, <2>2, AlongEmpty
<1>6. Exchange!Init
  BY <1>1, <1>4, <1>5 DEF Exchange!Init, Lent, Waiting, Returned, AtDevice
<1>. QED
  BY <1>2, <1>6

\* The descriptor table and the rings, driven by a device that returns what it was given,
\* implement the exchange of tokens that virtqueue_add_buf, virtqueue_get_buf and
\* virtqueue_detach_unused_buf promise their callers: no token is lost, duplicated or
\* reordered, and -ENOSPC means that the descriptors do not suffice.
THEOREM ExchangeImplemented == ASSUME BadIds = {} PROVE Spec => ImplementsExchange
<1> DEFINE Inv == IInv /\ PlaceInv /\ DescribeInv /\ TokenInv
<1>1. Init => Inv /\ Exchange!Init
  BY InitIInv, InitPlaces, InitDescribes, InitExchanges
<1>2. Inv /\ [Next]_vars => Inv'
  BY NextIInv, NextPlaces, NextDescribes, NextTokens
<1>3. Inv /\ Inv' /\ [Next]_vars => [Exchange!Next]_(Exchange!vars)
  BY NextExchanges DEF TokenState
<1> HIDE DEF Inv
<1>. QED
  BY <1>1, <1>2, <1>3, PTL DEF Spec, ImplementsExchange, Exchange!Spec
=============================================================================
