------------------------------ MODULE NumberSets ------------------------------
(***************************************************************************)
(* What the proofs of this project use about numbers: the least element of *)
(* a set of them, induction over an interval, remainders, which is where   *)
(* the positions in a ring are, and sums over finite sets.                 *)
(***************************************************************************)
EXTENDS Integers, FiniteSetsExt, FiniteSetTheorems, WellFoundedInduction, TLAPS

-----------------------------------------------------------------------------
(* Induction on sets of numbers.  The library's induction theorems take the *)
(* property as an operator; these take it as a set.                         *)

\* A non-empty set of numbers has a least element (the strict subset ordering
\* of the intervals 0..x is well-founded).
LEMMA LeastElement ==
    ASSUME NEW T \in SUBSET Nat, T # {}
    PROVE  \E x \in T : \A y \in T : x <= y
<1> DEFINE U == {0 .. x : x \in T}
<1>1. \A x \in T : IsFiniteSet(0 .. x)
  BY FS_Interval
<1>2. U # {} /\ U \subseteq FiniteSubsetsOf(Nat)
  <2>1. \A x \in T : 0 .. x \in SUBSET Nat
    OBVIOUS
  <2>2. \A x \in T : 0 .. x \in FiniteSubsetsOf(Nat)
    BY <1>1, <2>1 DEF FiniteSubsetsOf
  <2>. QED
    BY <2>2
<1>3. PICK m \in U : \A u \in U : <<u, m>> \notin StrictSubsetOrdering(Nat)
  <2>1. IsWellFoundedOn(StrictSubsetOrdering(Nat), FiniteSubsetsOf(Nat))
    BY FS_StrictSubsetOrderingWellFounded
  <2>. QED
    BY <1>2, <2>1, WFMin
<1>4. PICK x \in T : m = 0 .. x
  OBVIOUS
<1>5. ASSUME NEW y \in T, y < x
      PROVE  FALSE
  <2>1. /\ 0 .. y \subseteq Nat /\ 0 .. x \subseteq Nat
        /\ 0 .. y \subseteq 0 .. x
        /\ x \notin 0 .. y /\ x \in 0 .. x
    BY <1>5
  <2>2. <<0 .. y, 0 .. x>> \in StrictSubsetOrdering(Nat)
    BY <2>1 DEF StrictSubsetOrdering
  <2>. QED
    BY <1>3, <1>4, <2>2
<1>. QED
  BY <1>5

\* A set that contains a and is closed under successors below b contains a..b.
LEMMA IntervalInduction ==
    ASSUME NEW a \in Nat, NEW b \in Nat, NEW S,
           a \in S,
           \A n \in a .. (b - 1) : n \in S => n + 1 \in S
    PROVE  a .. b \subseteq S
<1> DEFINE T == (a .. b) \ S
<1>1. SUFFICES ASSUME T # {} PROVE FALSE
  OBVIOUS
<1>2. T \in SUBSET Nat
  OBVIOUS
<1>3. PICK x \in T : \A y \in T : x <= y
  BY <1>1, <1>2, LeastElement
<1>4. x # a /\ x - 1 \in a .. (b - 1)
  OBVIOUS
<1>5. x - 1 \in S
  BY <1>3, <1>4
<1>. QED
  BY <1>4, <1>5

-----------------------------------------------------------------------------
(* Remainders                                                              *)

\* Quotient and remainder are unique.
LEMMA RemainderUnique ==
    ASSUME NEW n \in Nat, n >= 1, NEW p \in Int, NEW q \in Int,
           NEW r \in 0 .. (n - 1), NEW s \in 0 .. (n - 1), q * n + r = p * n + s
    PROVE  q = p /\ r = s
<1> DEFINE d == q - p
<1>1. d \in Int
  OBVIOUS
<1>2. d * n = s - r /\ s - r < n /\ r - s < n
  OBVIOUS
<1> HIDE DEF d
<1>3. ASSUME d >= 1 PROVE FALSE
  <2>1. d * n >= n
    BY <1>1, <1>3
  <2>. QED
    BY <1>2, <2>1
<1>4. ASSUME d <= -1 PROVE FALSE
  <2>1. (-d) * n >= n /\ (-d) * n = - (d * n)
    BY <1>1, <1>4
  <2>. QED
    BY <1>2, <2>1
<1>5. d = 0
  BY <1>1, <1>3, <1>4
<1>6. q = p
  BY <1>5 DEF d
<1>. QED
  BY <1>2, <1>5, <1>6

\* What the division of x by n gives.
LEMMA Division ==
    ASSUME NEW n \in Nat, n >= 1, NEW x \in Int
    PROVE  x \div n \in Int /\ x % n \in 0 .. (n - 1) /\ x = (x \div n) * n + (x % n)
<1> DEFINE p == x \div n
           s == x % n
<1>1. p \in Int /\ s \in 0 .. (n - 1) /\ x = n * p + s
  OBVIOUS
<1> HIDE DEF p, s
<1>2. x = p * n + s
  BY <1>1
<1>. QED
  BY <1>1, <1>2 DEF p, s

\* Whole turns do not change a remainder.
LEMMA RemainderTurns ==
    ASSUME NEW n \in Nat, n >= 1, NEW x \in Int, NEW k \in Int, NEW y, y = x + k * n
    PROVE  y % n = x % n
<1> DEFINE p == x \div n
           s == x % n
           q == y \div n
           r == y % n
<1>1. p \in Int /\ s \in 0 .. (n - 1) /\ x = p * n + s
  BY Division
<1>2. y \in Int
  OBVIOUS
<1>3. q \in Int /\ r \in 0 .. (n - 1) /\ y = q * n + r
  BY <1>2, Division
<1> DEFINE m == p + k
<1>4. q * n + r = m * n + s /\ m \in Int
  BY <1>1, <1>3
<1> HIDE DEF p, s, q, r, m
<1>5. r = s
  <2>1. /\ r \in 0 .. (n - 1) /\ s \in 0 .. (n - 1) /\ q \in Int /\ m \in Int
        /\ q * n + r = m * n + s
    BY <1>1, <1>3, <1>4
  <2>. QED
    BY <2>1, RemainderUnique, SMT
<1>. QED
  BY <1>5 DEF r, s

\* Numbers less than n apart have different remainders.
LEMMA RemainderSpread ==
    ASSUME NEW n \in Nat, n >= 1, NEW x \in Int, NEW y \in Int,
           x - y < n, y - x < n, x % n = y % n
    PROVE  x = y
<1> DEFINE p == x \div n
           q == y \div n
           s == x % n
<1>1. p \in Int /\ q \in Int /\ s \in 0 .. (n - 1) /\ x = p * n + s /\ y = q * n + s
  BY Division
<1> HIDE DEF p, q, s
<1> DEFINE d == p - q
<1>2. d \in Int /\ d * n = x - y
  BY <1>1
<1> HIDE DEF d
<1>3. ASSUME d >= 1 PROVE FALSE
  <2>1. d * n >= n
    BY <1>2, <1>3
  <2>. QED
    BY <1>2, <2>1
<1>4. ASSUME d <= -1 PROVE FALSE
  <2>1. (-d) * n >= n /\ (-d) * n = - (d * n)
    BY <1>2, <1>4
  <2>. QED
    BY <1>2, <2>1
<1>5. d = 0
  BY <1>2, <1>3, <1>4
<1>. QED
  BY <1>2, <1>5

\* Positions on a circle of M places: the next one, the way from one to another, and the
\* place some steps on.
LEMMA Circle ==
    ASSUME NEW M \in Nat, M >= 2, NEW a \in 0 .. (M - 1), NEW b \in 0 .. (M - 1)
    PROVE  /\ (a + 1) % M = IF a = M - 1 THEN 0 ELSE a + 1
           /\ (b + M - a) % M = IF a <= b THEN b - a ELSE b + M - a
           /\ (a + b) % M = IF a + b < M THEN a + b ELSE a + b - M
<1>1. \A x \in 0 .. (M - 1) : x % M = x /\ (x + M) % M = x
  <2> TAKE x \in 0 .. (M - 1)
  <2>1. x % M = x
    OBVIOUS
  <2> DEFINE one == 1
  <2>2. x + M = x + one * M /\ x \in Int /\ one \in Int
    OBVIOUS
  <2> HIDE DEF one
  <2>3. (x + M) % M = x % M
    BY <2>2, RemainderTurns, SMTT(60)
  <2>. QED
    BY <2>1, <2>3
<1>2. (a + 1) % M = IF a = M - 1 THEN 0 ELSE a + 1
  <2>1. CASE a = M - 1
    <3>1. a + 1 = 0 + M /\ 0 \in 0 .. (M - 1)
      BY <2>1
    <3>. QED
      BY <1>1, <2>1, <3>1
  <2>2. CASE a # M - 1
    <3>1. a + 1 \in 0 .. (M - 1)
      BY <2>2
    <3>. QED
      BY <1>1, <2>2, <3>1
  <2>. QED
    BY <2>1, <2>2
<1>3. (b + M - a) % M = IF a <= b THEN b - a ELSE b + M - a
  <2>1. CASE a <= b
    <3>1. b - a \in 0 .. (M - 1) /\ b + M - a = (b - a) + M
      BY <2>1
    <3>. QED
      BY <1>1, <2>1, <3>1
  <2>2. CASE ~(a <= b)
    <3>1. b + M - a \in 0 .. (M - 1)
      BY <2>2
    <3>. QED
      BY <1>1, <2>2, <3>1
  <2>. QED
    BY <2>1, <2>2
<1>4. (a + b) % M = IF a + b < M THEN a + b ELSE a + b - M
  <2>1. CASE a + b < M
    <3>1. a + b \in 0 .. (M - 1)
      BY <2>1
    <3>. QED
      BY <1>1, <2>1, <3>1
  <2>2. CASE ~(a + b < M)
    <3>1. a + b - M \in 0 .. (M - 1) /\ a + b = (a + b - M) + M
      BY <2>2
    <3>. QED
      BY <1>1, <2>2, <3>1
  <2>. QED
    BY <2>1, <2>2
<1>. QED
  BY <1>2, <1>3, <1>4

-----------------------------------------------------------------------------
(* Sums over finite sets                                                   *)

\* The order in which MapThenSumSet adds the elements up.
Pick(T) == CHOOSE x \in T : TRUE
\* F adds up g over every subset of S in that order.
IsSum(F, g, S) == F = [T \in SUBSET S |-> IF T = {} THEN 0 ELSE g[Pick(T)] + F[T \ {Pick(T)}]]

\* The sum of g over S.
Sum(g, S) == MapThenSumSet(LAMBDA x : g[x], S)

\* A set is one element larger than what is left without its pick.
LEMMA PickFacts ==
    ASSUME NEW S, IsFiniteSet(S), NEW T \in SUBSET S
    PROVE  /\ IsFiniteSet(T) /\ Cardinality(T) \in Nat
           /\ Cardinality(T) = 0 <=> T = {}
           /\ T # {} => /\ Pick(T) \in T /\ Pick(T) \in S
                        /\ T \ {Pick(T)} \in SUBSET S
                        /\ Cardinality(T \ {Pick(T)}) = Cardinality(T) - 1
<1>1. IsFiniteSet(T) /\ Cardinality(T) \in Nat /\ (Cardinality(T) = 0 <=> T = {})
  BY FS_Subset, FS_CardinalityType, FS_EmptySet
<1>2. T # {} => Pick(T) \in T
  BY DEF Pick
<1>3. T # {} => Cardinality(T \ {Pick(T)}) = Cardinality(T) - 1
  BY <1>1, <1>2, FS_RemoveElement
<1>. QED
  BY <1>1, <1>2, <1>3

\* Only the empty set has no elements.
LEMMA EmptyCount ==
    ASSUME NEW S, IsFiniteSet(S), NEW T \in SUBSET S, Cardinality(T) <= 0
    PROVE  T = {}
<1>1. Cardinality(T) \in Nat /\ (Cardinality(T) = 0 <=> T = {})
  BY PickFacts
<1>2. Cardinality(T) = 0
  BY <1>1
<1>. QED
  BY <1>1, <1>2

\* Such a function exists: what it is on small sets determines it on larger ones.
LEMMA SumExists ==
    ASSUME NEW S, IsFiniteSet(S), NEW g, \A x \in S : g[x] \in Nat
    PROVE  \E F : IsSum(F, g, S)
<1> DEFINE Next(F) == [T \in SUBSET S |-> IF T = {} THEN 0 ELSE g[Pick(T)] + F[T \ {Pick(T)}]]
           Good(F, n) == \A T \in SUBSET S : Cardinality(T) <= n => Next(F)[T] = F[T]
           N == {n \in Nat : \E F \in [SUBSET S -> Nat] : Good(F, n)}
<1>0. ASSUME NEW F \in [SUBSET S -> Nat]
      PROVE  Next(F) \in [SUBSET S -> Nat]
  <2>1. ASSUME NEW T \in SUBSET S, T # {}
        PROVE  g[Pick(T)] + F[T \ {Pick(T)}] \in Nat
    <3>1. Pick(T) \in S /\ T \ {Pick(T)} \in SUBSET S
      BY <2>1, PickFacts
    <3>2. g[Pick(T)] \in Nat /\ F[T \ {Pick(T)}] \in Nat
      BY <3>1
    <3>. QED
      BY <3>2
  <2>. QED
    BY <2>1
<1>1. 0 \in N
  <2> DEFINE F == [T \in SUBSET S |-> 0]
  <2>1. Good(F, 0)
    <3> SUFFICES ASSUME NEW T \in SUBSET S, Cardinality(T) <= 0
                 PROVE  Next(F)[T] = F[T]
      OBVIOUS
    <3>1. T = {}
      BY EmptyCount
    <3>. QED
      BY <3>1
  <2> HIDE DEF Good
  <2>. QED
    BY <2>1
<1>2. ASSUME NEW n \in Nat, n \in N
      PROVE  n + 1 \in N
  <2>1. PICK F \in [SUBSET S -> Nat] : Good(F, n)
    BY <1>2
  <2>2. Next(F) \in [SUBSET S -> Nat]
    BY <1>0
  <2>3. Good(Next(F), n + 1)
    <3> SUFFICES ASSUME NEW T \in SUBSET S, Cardinality(T) <= n + 1, T # {}
                 PROVE  Next(Next(F))[T] = Next(F)[T]
      OBVIOUS
    <3> DEFINE U == T \ {Pick(T)}
    <3>1. U \in SUBSET S /\ Cardinality(U) <= n
      BY PickFacts
    <3>2. Next(F)[U] = F[U]
      BY <2>1, <3>1
    <3>3. Next(Next(F))[T] = g[Pick(T)] + Next(F)[U]
      OBVIOUS
    <3>4. Next(F)[T] = g[Pick(T)] + F[U]
      OBVIOUS
    <3>. QED
      BY <3>2, <3>3, <3>4
  <2> HIDE DEF Good, Next
  <2>. QED
    BY <2>2, <2>3
<1>3. Cardinality(S) \in Nat
  BY FS_CardinalityType
<1>4. Cardinality(S) \in N
  <2>1. 0 .. Cardinality(S) \subseteq N
    <3> HIDE DEF N
    <3>. QED
      BY <1>1, <1>2, <1>3, IntervalInduction
  <2> HIDE DEF N
  <2>. QED
    BY <1>3, <2>1
<1>5. PICK F \in [SUBSET S -> Nat] : Good(F, Cardinality(S))
  BY <1>4
<1>6. \A T \in SUBSET S : Cardinality(T) <= Cardinality(S)
  BY FS_Subset
<1>7. \A T \in SUBSET S : Next(F)[T] = F[T]
  BY <1>5, <1>6
<1>8. Next(F) \in [SUBSET S -> Nat]
  BY <1>0
<1>9. Next(F) = F
  <2> HIDE DEF Next
  <2>. QED
    BY <1>7, <1>8
<1>. QED
  BY <1>9 DEF IsSum

\* The sum of a subset does not depend on the set it is taken from.
LEMMA SumAgrees ==
    ASSUME NEW S, NEW R, IsFiniteSet(R), S \subseteq R,
           NEW F, NEW G, NEW g, NEW h, IsSum(F, g, S), IsSum(G, h, R),
           \A x \in S : g[x] = h[x]
    PROVE  \A T \in SUBSET S : F[T] = G[T]
<1> DEFINE N == {n \in Nat : \A T \in SUBSET S : Cardinality(T) <= n => F[T] = G[T]}
<1>1. IsFiniteSet(S)
  BY FS_Subset
<1>2. \A T \in SUBSET S : /\ F[T] = IF T = {} THEN 0 ELSE g[Pick(T)] + F[T \ {Pick(T)}]
                         /\ G[T] = IF T = {} THEN 0 ELSE h[Pick(T)] + G[T \ {Pick(T)}]
  BY DEF IsSum
<1>3. 0 \in N
  <2>1. ASSUME NEW T \in SUBSET S, Cardinality(T) <= 0
        PROVE  F[T] = G[T]
    <3>1. T = {}
      BY <1>1, <2>1, EmptyCount
    <3>. QED
      BY <1>2, <3>1
  <2>. QED
    BY <2>1
<1>4. ASSUME NEW n \in Nat, n \in N
      PROVE  n + 1 \in N
  <2>1. ASSUME NEW T \in SUBSET S, Cardinality(T) <= n + 1
        PROVE  F[T] = G[T]
    <3>1. CASE T = {}
      BY <1>2, <3>1
    <3>2. CASE T # {}
      <4> DEFINE U == T \ {Pick(T)}
      <4>1. U \in SUBSET S /\ Cardinality(U) <= n /\ Pick(T) \in S
        BY <1>1, <2>1, <3>2, PickFacts
      <4>2. F[U] = G[U] /\ g[Pick(T)] = h[Pick(T)]
        BY <1>4, <4>1
      <4>. QED
        BY <1>2, <3>2, <4>2
    <3>. QED
      BY <3>1, <3>2
  <2>. QED
    BY <2>1
<1>5. ASSUME NEW T \in SUBSET S
      PROVE  F[T] = G[T]
  <2>1. Cardinality(T) \in Nat
    BY <1>1, PickFacts
  <2>2. 0 .. Cardinality(T) \subseteq N
    <3> HIDE DEF N
    <3>. QED
      BY <1>3, <1>4, <2>1, IntervalInduction
  <2>3. Cardinality(T) \in N
    <3> HIDE DEF N
    <3>. QED
      BY <2>1, <2>2
  <2>. QED
    BY <2>1, <2>3
<1>. QED
  BY <1>5

\* The order does not matter.
LEMMA SumStep ==
    ASSUME NEW S, IsFiniteSet(S), NEW g, \A x \in S : g[x] \in Nat,
           NEW F, IsSum(F, g, S)
    PROVE  /\ F[{}] = 0
           /\ \A T \in SUBSET S : F[T] \in Nat
           /\ \A T \in SUBSET S : \A x \in S \ T : F[T \cup {x}] = F[T] + g[x]
<1> DEFINE N == {n \in Nat : \A T \in SUBSET S : Cardinality(T) <= n =>
                   F[T] \in Nat /\ \A x \in S \ T : F[T \cup {x}] = F[T] + g[x]}
<1>1. \A T \in SUBSET S : F[T] = IF T = {} THEN 0 ELSE g[Pick(T)] + F[T \ {Pick(T)}]
  BY DEF IsSum
<1>2. 0 \in N
  <2>1. ASSUME NEW T \in SUBSET S, Cardinality(T) <= 0
        PROVE  F[T] \in Nat /\ \A x \in S \ T : F[T \cup {x}] = F[T] + g[x]
    <3>0. T = {}
      BY <2>1, EmptyCount
    <3>1. T = {} /\ F[T] = 0
      BY <1>1, <3>0
    <3>2. ASSUME NEW x \in S
          PROVE  F[T \cup {x}] = F[T] + g[x]
      <4>1. T \cup {x} = {x} /\ {x} \in SUBSET S /\ {x} # {} /\ Pick({x}) = x /\ {x} \ {x} = T
        BY <3>1 DEF Pick
      <4>2. F[{x}] = g[x] + F[T]
        BY <1>1, <4>1
      <4>. QED
        BY <3>1, <4>1, <4>2
    <3>. QED
      BY <3>1, <3>2
  <2>. QED
    BY <2>1
<1>3. ASSUME NEW n \in Nat, n \in N
      PROVE  n + 1 \in N
  <2>0. \A T \in SUBSET S : Cardinality(T) <= n =>
          F[T] \in Nat /\ \A x \in S \ T : F[T \cup {x}] = F[T] + g[x]
    BY <1>3
  <2>1. ASSUME NEW T \in SUBSET S, Cardinality(T) <= n + 1, T # {}
        PROVE  F[T] \in Nat
    <3>1. /\ T \ {Pick(T)} \in SUBSET S /\ Cardinality(T \ {Pick(T)}) <= n
          /\ Pick(T) \in S
      BY <2>1, PickFacts
    <3>2. F[T \ {Pick(T)}] \in Nat /\ g[Pick(T)] \in Nat
      BY <2>0, <3>1
    <3>3. F[T] = g[Pick(T)] + F[T \ {Pick(T)}]
      BY <1>1, <2>1
    <3>. QED
      BY <3>2, <3>3
  <2>2. ASSUME NEW T \in SUBSET S, Cardinality(T) <= n + 1, T # {}, NEW x \in S \ T
        PROVE  F[T \cup {x}] = F[T] + g[x]
    <3> DEFINE V == T \cup {x}
               y == Pick(V)
    <3>1. V \in SUBSET S /\ V # {} /\ y \in V /\ F[V] = g[y] + F[V \ {y}]
      BY <1>1 DEF Pick
    <3>2. CASE y = x
      <4>1. V \ {y} = T
        BY <3>2
      <4>2. F[T] \in Nat /\ g[x] \in Nat
        BY <2>1, <2>2
      <4>3. F[V] = g[x] + F[T]
        BY <3>1, <3>2, <4>1
      <4> HIDE DEF V
      <4>. QED
        BY <4>2, <4>3 DEF V
    <3>3. CASE y # x
      <4> DEFINE U == T \ {y}
      <4>1. y \in T /\ U \in SUBSET S /\ y \in S \ U /\ x \in S \ U
            /\ V \ {y} = U \cup {x} /\ U \cup {y} = T
        BY <3>1, <3>3
      <4>2. Cardinality(U) <= n
        <5>1. IsFiniteSet(T) /\ Cardinality(T) \in Nat
          BY PickFacts
        <5>2. Cardinality(U) = Cardinality(T) - 1
          BY <4>1, <5>1, FS_RemoveElement, ZenonT(60)
        <5>. QED
          BY <2>2, <5>1, <5>2
      <4>3. F[U] \in Nat /\ F[U \cup {x}] = F[U] + g[x] /\ F[U \cup {y}] = F[U] + g[y]
        BY <2>0, <4>1, <4>2
      <4>4. g[x] \in Nat /\ g[y] \in Nat
        BY <4>1
      <4>5. F[V] = g[y] + F[U \cup {x}]
        BY <3>1, <4>1
      <4>6. F[T] = F[U] + g[y]
        BY <4>1, <4>3
      <4> HIDE DEF U, V, y
      <4>7. F[V] = F[T] + g[x]
        BY <4>3, <4>4, <4>5, <4>6
      <4>. QED
        BY <4>7 DEF V
    <3>. QED
      BY <3>2, <3>3
  <2>3. ASSUME NEW T \in SUBSET S, Cardinality(T) <= n + 1
        PROVE  F[T] \in Nat /\ \A x \in S \ T : F[T \cup {x}] = F[T] + g[x]
    <3>1. CASE T = {}
      <4>1. Cardinality(T) <= n
        BY <3>1, FS_EmptySet
      <4>. QED
        BY <2>0, <4>1
    <3>2. CASE T # {}
      BY <2>1, <2>2, <2>3, <3>2
    <3>. QED
      BY <3>1, <3>2
  <2>. QED
    BY <2>3
<1>4. ASSUME NEW T \in SUBSET S
      PROVE  F[T] \in Nat /\ \A x \in S \ T : F[T \cup {x}] = F[T] + g[x]
  <2>1. Cardinality(T) \in Nat
    BY PickFacts
  <2>2. 0 .. Cardinality(T) \subseteq N
    <3> HIDE DEF N
    <3>. QED
      BY <1>2, <1>3, <2>1, IntervalInduction
  <2>3. Cardinality(T) \in N
    <3> HIDE DEF N
    <3>. QED
      BY <2>1, <2>2
  <2>. QED
    BY <2>1, <2>3
<1>5. F[{}] = 0
  BY <1>1
<1>. QED
  BY <1>4, <1>5

\* MapThenSumSet is such a function.
LEMMA SumIs ==
    ASSUME NEW S, IsFiniteSet(S), NEW g, \A x \in S : g[x] \in Nat,
           NEW F, IsSum(F, g, S)
    PROVE  Sum(g, S) = F[S]
<1> DEFINE H == CHOOSE G : IsSum(G, g, S)
<1>1. IsSum(H, g, S)
  BY Zenon
<1>2. Sum(g, S) = H[S]
  BY DEF Sum, MapThenSumSet, MapThenFoldSet, Pick, IsSum
<1> HIDE DEF H
<1>3. H[S] = F[S]
  BY <1>1, SumAgrees
<1>. QED
  BY <1>2, <1>3

\* Nothing adds up to 0.
LEMMA SumEmpty == ASSUME NEW g PROVE Sum(g, {}) = 0
<1>1. PICK F : IsSum(F, g, {})
  BY FS_EmptySet, SumExists
<1>2. Sum(g, {}) = F[{}]
  BY <1>1, FS_EmptySet, SumIs
<1>3. F[{}] = 0
  BY <1>1, FS_EmptySet, SumStep
<1>. QED
  BY <1>2, <1>3

\* A sum of numbers is a number.
LEMMA SumType ==
    ASSUME NEW S, IsFiniteSet(S), NEW g, \A x \in S : g[x] \in Nat
    PROVE  Sum(g, S) \in Nat
<1>1. PICK F : IsSum(F, g, S)
  BY SumExists
<1>2. Sum(g, S) = F[S]
  BY <1>1, SumIs
<1>3. F[S] \in Nat
  BY <1>1, SumStep
<1>. QED
  BY <1>2, <1>3

\* One more summand.
LEMMA SumAdd ==
    ASSUME NEW S, IsFiniteSet(S), NEW x, x \notin S,
           NEW g, \A y \in S \cup {x} : g[y] \in Nat
    PROVE  Sum(g, S \cup {x}) = Sum(g, S) + g[x]
<1> DEFINE R == S \cup {x}
<1>1. IsFiniteSet(R)
  BY FS_AddElement
<1>2. PICK F : IsSum(F, g, S)
  BY SumExists
<1>3. PICK G : IsSum(G, g, R)
  BY <1>1, SumExists
<1>4. Sum(g, S) = F[S]
  BY <1>2, SumIs
<1>5. Sum(g, R) = G[R]
  BY <1>1, <1>3, SumIs
<1>6. F[S] = G[S]
  <2>1. S \subseteq R /\ S \in SUBSET S /\ \A y \in S : g[y] = g[y]
    OBVIOUS
  <2> HIDE DEF R
  <2>. QED
    BY <1>1, <1>2, <1>3, <2>1, SumAgrees
<1>7. S \in SUBSET R /\ x \in R \ S
  OBVIOUS
<1>8. G[S \cup {x}] = G[S] + g[x]
  BY <1>1, <1>3, <1>7, SumStep
<1>. QED
  BY <1>4, <1>5, <1>6, <1>8

\* One summand less.
LEMMA SumRemove ==
    ASSUME NEW S, IsFiniteSet(S), NEW x \in S, NEW g, \A y \in S : g[y] \in Nat
    PROVE  Sum(g, S) = Sum(g, S \ {x}) + g[x]
<1> DEFINE R == S \ {x}
<1>1. IsFiniteSet(R) /\ x \notin R /\ R \cup {x} = S
  BY FS_RemoveElement
<1> HIDE DEF R
<1>2. Sum(g, R \cup {x}) = Sum(g, R) + g[x]
  BY <1>1, SumAdd
<1>. QED
  BY <1>1, <1>2 DEF R

\* A sum depends on the summands only.
LEMMA SumSame ==
    ASSUME NEW S, IsFiniteSet(S), NEW g, \A x \in S : g[x] \in Nat,
           NEW h, \A x \in S : h[x] = g[x]
    PROVE  Sum(h, S) = Sum(g, S)
<1>1. PICK F : IsSum(F, g, S)
  BY SumExists
<1>2. \A x \in S : h[x] \in Nat
  OBVIOUS
<1>3. PICK G : IsSum(G, h, S)
  BY <1>2, SumExists
<1>4. Sum(g, S) = F[S] /\ Sum(h, S) = G[S]
  BY <1>1, <1>2, <1>3, SumIs
<1>5. F[S] = G[S]
  BY <1>1, <1>3, SumAgrees
<1>. QED
  BY <1>4, <1>5
\* A sum of terms of at least k is at least k times their number.
LEMMA SumAtLeast ==
    ASSUME NEW S, IsFiniteSet(S), NEW g, NEW k \in Nat,
           \A x \in S : g[x] \in Nat /\ g[x] >= k
    PROVE  k * Cardinality(S) <= Sum(g, S)
<1>1. PICK F : IsSum(F, g, S)
  BY SumExists
<1>2. /\ F[{}] = 0
      /\ \A T \in SUBSET S : F[T] \in Nat
      /\ \A T \in SUBSET S : \A x \in S \ T : F[T \cup {x}] = F[T] + g[x]
  BY <1>1, SumStep
<1> DEFINE N == {n \in Nat : \A T \in SUBSET S : Cardinality(T) = n => k * n <= F[T]}
<1>3. 0 \in N
  <2>1. \A T \in SUBSET S : Cardinality(T) = 0 => T = {}
    BY PickFacts
  <2>2. k * 0 = 0
    OBVIOUS
  <2>. QED
    BY <1>2, <2>1, <2>2
<1>4. ASSUME NEW n \in Nat, n \in N
      PROVE  n + 1 \in N
  <2>1. ASSUME NEW T \in SUBSET S, Cardinality(T) = n + 1
        PROVE  k * (n + 1) <= F[T]
    <3>1. T # {}
      BY <2>1, FS_EmptySet
    <3>2. PICK x, U : x = Pick(T) /\ U = T \ {Pick(T)}
      OBVIOUS
    <3>3. x \in T /\ x \in S /\ U \in SUBSET S /\ Cardinality(U) = n
      BY <2>1, <3>1, <3>2, PickFacts
    <3>4. U \cup {x} = T /\ x \in S \ U
      BY <3>2, <3>3
    <3>5. F[T] = F[U] + g[x]
      BY <1>2, <3>3, <3>4
    <3>6. k * n <= F[U] /\ F[U] \in Nat /\ g[x] \in Nat /\ g[x] >= k
      BY <1>2, <1>4, <3>3
    <3>7. k * (n + 1) = k * n + k /\ k * n \in Nat
      OBVIOUS
    <3>. QED
      BY <3>5, <3>6, <3>7
  <2>. QED
    BY <2>1
<1>5. Cardinality(S) \in Nat
  BY FS_CardinalityType
<1>6. Cardinality(S) \in N
  <2> HIDE DEF N
  <2>1. 0 .. Cardinality(S) \subseteq N
    BY <1>3, <1>4, <1>5, IntervalInduction
  <2>. QED
    BY <1>5, <2>1
<1>7. Sum(g, S) = F[S]
  BY <1>1, SumIs
<1>. QED
  BY <1>6, <1>7
=============================================================================
