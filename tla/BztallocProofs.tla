--------------------------- MODULE BztallocProofs ---------------------------
(***************************************************************************)
(* Proofs about the allocator, for any number of units and chunks, any     *)
(* sizes and alignments and any number of calls and of failing mappings.   *)
(***************************************************************************)
EXTENDS Bztalloc, Induction, SequenceTheorems, TLAPS

-----------------------------------------------------------------------------
(* Numbers *)

LEMMA MulMono ==
  ASSUME NEW k \in Nat, NEW j \in Nat, NEW q \in Nat, k < j
  PROVE  k * q \in Nat /\ j * q \in Nat /\ k * q + q <= j * q
  OBVIOUS

LEMMA MulDiv ==
  ASSUME NEW k \in Nat, NEW q \in Nat \ {0}
  PROVE  (k * q) \div q = k /\ (k * q) % q = 0
  OBVIOUS

(* A multiple, written as one. *)
LEMMA Multiple ==
  ASSUME NEW x \in Nat, NEW q \in Nat \ {0}, x % q = 0
  PROVE  \E m \in Nat : x = m * q
  <1>1. x = q * (x \div q) + (x % q) /\ x \div q \in Nat
    OBVIOUS
  <1>2. x = (x \div q) * q
    BY <1>1
  <1>. QED BY <1>1, <1>2

LEMMA MultipleSum ==
  ASSUME NEW x \in Nat, NEW y \in Nat, NEW q \in Nat \ {0}, x % q = 0, y % q = 0
  PROVE  (x + y) % q = 0
  <1>1. PICK m \in Nat : x = m * q
    BY Multiple
  <1>2. PICK n \in Nat : y = n * q
    BY Multiple
  <1>3. x + y = (m + n) * q /\ m + n \in Nat
    BY <1>1, <1>2
  <1>. QED BY <1>3, MulDiv

LEMMA MultipleOfMultiple ==
  ASSUME NEW x \in Nat, NEW q \in Nat \ {0}, NEW p \in Nat \ {0}, x % q = 0, q % p = 0
  PROVE  x % p = 0
  <1>1. PICK m \in Nat : x = m * q
    BY Multiple
  <1>2. PICK n \in Nat : q = n * p
    BY Multiple
  <1>3. x = (m * n) * p /\ m * n \in Nat
    BY <1>1, <1>2
  <1>. QED BY <1>3, MulDiv

LEMMA RoundUpIs ==
  ASSUME NEW x \in Nat, NEW a \in Nat \ {0}
  PROVE  /\ RoundUp(x, a) \in Nat /\ RoundUp(x, a) >= x /\ RoundUp(x, a) % a = 0
         /\ x % a = 0 => RoundUp(x, a) = x
         /\ x > 0 => RoundUp(x, a) > 0
  <1>. DEFINE m == (x + a - 1) \div a
  <1>1. m \in Nat /\ x + a - 1 = a * m + ((x + a - 1) % a) /\ (x + a - 1) % a \in 0..(a - 1)
    OBVIOUS
  <1>2. RoundUp(x, a) = m * a /\ m * a = a * m
    BY <1>1 DEF RoundUp
  <1>3. m * a \in Nat /\ m * a >= x /\ m * a < x + a
    BY <1>1, <1>2
  <1>4. (m * a) % a = 0
    BY <1>1, MulDiv
  <1>5. ASSUME x % a = 0 PROVE m * a = x
    <2>1. PICK n \in Nat : x = n * a
      BY <1>5, Multiple
    <2>2. m <= n
      <3>1. SUFFICES ASSUME n < m PROVE FALSE
        BY <1>1, <2>1
      <3>2. n * a + a <= m * a
        BY <1>1, <2>1, <3>1, MulMono
      <3>. QED BY <1>3, <2>1, <3>2
    <2>3. n <= m
      <3>1. SUFFICES ASSUME m < n PROVE FALSE
        BY <1>1, <2>1
      <3>2. m * a + a <= n * a
        BY <1>1, <2>1, <3>1, MulMono
      <3>. QED BY <1>3, <2>1, <3>2
    <2>. QED BY <1>1, <2>1, <2>2, <2>3
  <1>. QED BY <1>2, <1>3, <1>4, <1>5

(* The powers of two, one after the other. *)
LEMMA PowerIs ==
  /\ Power \in [0..MaxShift -> Nat \ {0}]
  /\ Power[0] = 1
  /\ \A i \in 1..MaxShift : Power[i] = 2 * Power[i - 1]
  <1>. DEFINE X == Nat \ {0}
              F == [n \in X |-> 2 * n]
              G(f) == [i \in 0..MaxShift |-> IF i = 0 THEN 1 ELSE 2 * f[i - 1]]
  <1>1. F \in [X -> X] /\ 1 \in X /\ MaxShift \in Nat
    BY DEF MaxShift
  <1>2. Orbit(X, F, 1, MaxShift) # {}
    <2>. HIDE DEF X, F
    <2>. QED BY <1>1, Iterated
  <1>3. PICK g \in [0..MaxShift -> X] : g[0] = 1 /\ \A n \in 1..MaxShift : g[n] = F[g[n - 1]]
    BY <1>2 DEF Orbit
  <1>4. \A i \in 1..MaxShift : g[i] = 2 * g[i - 1]
    <2>. TAKE i \in 1..MaxShift
    <2>1. g[i - 1] \in X
      BY <1>1, <1>3
    <2>. QED BY <1>3, <2>1
  <1>5. g = G(g)
    <2>1. \A i \in 0..MaxShift : g[i] = G(g)[i]
      BY <1>1, <1>3, <1>4
    <2>. QED BY <1>3, <2>1
  <1>6. Power = CHOOSE f : f = G(f)
    BY DEF Power
  <1>7. Power = G(Power)
    <2>. HIDE DEF G
    <2>. QED BY <1>5, <1>6, Zenon
  <1>. DEFINE S == {n \in Nat : n <= MaxShift => Power[n] \in X}
  <1>8. Power[0] = 1 /\ \A i \in 1..MaxShift : Power[i] = 2 * Power[i - 1]
    BY <1>1, <1>7
  <1>9. 0 \in S
    BY <1>1, <1>8
  <1>10. ASSUME NEW n \in Nat, n \in S PROVE n + 1 \in S
    BY <1>1, <1>8, <1>10
  <1>11. Nat \subseteq S
    <2>. HIDE DEF S
    <2>. QED BY <1>9, <1>10, InductionSet
  <1>12. \A i \in 0..MaxShift : Power[i] \in X
    BY <1>1, <1>11
  <1>13. Power \in [0..MaxShift -> X]
    BY <1>7, <1>12
  <1>. QED BY <1>8, <1>13

(* A power divides those after it, and is less. *)
LEMMA PowerFactor ==
  ASSUME NEW i \in 0..MaxShift
  PROVE  \A d \in Nat : i + d <= MaxShift =>
            \E m \in Nat : Power[i + d] = m * Power[i] /\ m > d
  <1>. DEFINE S == {d \in Nat : i + d <= MaxShift => \E m \in Nat : Power[i + d] = m * Power[i] /\ m > d}
  <1>. USE PowerIs DEF MaxShift
  <1>1. 0 \in S
    <2>1. Power[i + 0] = 1 * Power[i]
      OBVIOUS
    <2>. QED BY <2>1
  <1>2. ASSUME NEW d \in Nat, d \in S PROVE d + 1 \in S
    <2>1. SUFFICES ASSUME i + (d + 1) <= MaxShift
                   PROVE  \E m \in Nat : Power[i + (d + 1)] = m * Power[i] /\ m > d + 1
      OBVIOUS
    <2>2. PICK m \in Nat : Power[i + d] = m * Power[i] /\ m > d
      BY <1>2, <2>1
    <2>3. Power[i + (d + 1)] = 2 * Power[i + d]
      BY <2>1
    <2>4. Power[i] \in Nat
      OBVIOUS
    <2>5. Power[i + (d + 1)] = (2 * m) * Power[i]
      BY <2>2, <2>3, <2>4
    <2>6. 2 * m \in Nat /\ 2 * m > d + 1
      BY <2>2
    <2>. QED BY <2>5, <2>6
  <1>3. Nat \subseteq S
    <2>. HIDE DEF S
    <2>. QED BY <1>1, <1>2, InductionSet
  <1>. QED BY <1>3

LEMMA PowersAre ==
  /\ Powers \subseteq Nat \ {0} /\ 1 \in Powers
  /\ \A q \in Powers : q = 1 \/ (q \div 2 \in Powers /\ q \div 2 < q)
  /\ \A p, q \in Powers : p <= q => q % p = 0
  <1>. USE PowerIs
  <1>1. Powers \subseteq Nat \ {0} /\ 1 \in Powers
    BY DEF Powers, MaxShift
  <1>2. ASSUME NEW q \in Powers PROVE q = 1 \/ (q \div 2 \in Powers /\ q \div 2 < q)
    <2>1. PICK i \in 0..MaxShift : q = Power[i]
      BY DEF Powers
    <2>2. CASE i = 0
      BY <2>1, <2>2
    <2>3. CASE i # 0
      <3>1. i \in 1..MaxShift /\ i - 1 \in 0..MaxShift
        BY <2>3 DEF MaxShift
      <3>2. q = 2 * Power[i - 1] /\ Power[i - 1] \in Nat \ {0}
        BY <2>1, <3>1
      <3>3. q \div 2 = Power[i - 1] /\ Power[i - 1] < q
        BY <3>2
      <3>. QED BY <3>1, <3>3 DEF Powers
    <2>. QED BY <2>2, <2>3
  <1>3. ASSUME NEW p \in Powers, NEW q \in Powers, p <= q PROVE q % p = 0
    <2>1. PICK i \in 0..MaxShift : p = Power[i]
      BY DEF Powers
    <2>2. PICK j \in 0..MaxShift : q = Power[j]
      BY DEF Powers
    <2>3. i \in Nat /\ j \in Nat /\ MaxShift \in Nat
      BY DEF MaxShift
    <2>4. CASE i <= j
      <3>1. j - i \in Nat /\ i + (j - i) = j /\ j <= MaxShift
        BY <2>3, <2>4
      <3>2. PICK m \in Nat : Power[i + (j - i)] = m * Power[i]
        BY <3>1, PowerFactor
      <3>3. q = m * p
        BY <2>1, <2>2, <3>1, <3>2
      <3>. QED BY <1>1, <3>3, MulDiv
    <2>5. CASE j < i
      <3>1. i - j \in Nat /\ j + (i - j) = i /\ i - j > 0 /\ i <= MaxShift
        BY <2>3, <2>5
      <3>2. PICK m \in Nat : Power[j + (i - j)] = m * Power[j] /\ m > i - j
        BY <3>1, PowerFactor
      <3>3. p = m * q /\ m >= 2
        BY <2>1, <2>2, <3>1, <3>2
      <3>4. q \in Nat \ {0} /\ p \in Nat
        BY <1>1
      <3>5. 1 * q + q <= m * q
        BY <3>3, <3>4, MulMono
      <3>. QED BY <1>3, <3>3, <3>4, <3>5
    <2>. QED BY <2>3, <2>4, <2>5
  <1>. QED BY <1>1, <1>2, <1>3

(* The quantum of a size. *)
LEMMA QuantumIs ==
  ASSUME NEW s \in Sizes
  PROVE  Quantum(s) \in Powers /\ Quantum(s) >= s
  <1>. DEFINE S == {q \in Powers : q >= s}
              P(q) == q \in Powers /\ q >= s /\ (q = 1 \/ q \div 2 < s)
  <1>1. s \in Nat \ {0} /\ \E q \in Powers : s <= q
    BY WidthAssumption
  <1>2. S # {} /\ S \in SUBSET Nat
    BY <1>1, PowersAre
  <1>3. Min(S) \in S /\ \A y \in S : Min(S) <= y
    <2>. HIDE DEF S
    <2>. QED BY <1>2, MinIs
  <1>. DEFINE q == Min(S)
  <1>. HIDE DEF q
  <1>4. q \in Powers /\ q >= s /\ \A y \in Powers : y >= s => q <= y
    BY <1>3 DEF q
  <1>5. P(q)
    <2>1. q \in Nat /\ (q = 1 \/ (q \div 2 \in Powers /\ q \div 2 < q))
      BY <1>4, PowersAre
    <2>2. CASE q # 1
      <3>1. q \div 2 \in Powers /\ q \div 2 < q /\ q \div 2 \in Nat
        BY <2>1, <2>2
      <3>2. ~(q \div 2 >= s)
        BY <1>1, <1>4, <2>1, <3>1
      <3>. QED BY <1>1, <1>4, <3>1, <3>2
    <2>. QED BY <1>4, <2>2
  <1>6. Quantum(s) = CHOOSE x : P(x)
    BY DEF Quantum
  <1>7. P(CHOOSE x : P(x))
    <2>. HIDE DEF P
    <2>. QED BY <1>5, Zenon
  <1>. QED BY <1>6, <1>7

(* A greatest one of a set of numbers with a bound. *)
LEMMA MaxIs ==
  ASSUME NEW S \in SUBSET Nat, S # {}, NEW b \in Nat, \A x \in S : x <= b
  PROVE  Max(S) \in S /\ \A y \in S : y <= Max(S)
  <1>. DEFINE T == {b - x : x \in S}
              P(x) == x \in S /\ \A y \in S : x >= y
  <1>1. T \in SUBSET Nat /\ T # {}
    <2>1. \A x \in S : b - x \in Nat
      OBVIOUS
    <2>2. PICK x \in S : TRUE
      OBVIOUS
    <2>3. b - x \in T
      OBVIOUS
    <2>. QED BY <2>1, <2>3
  <1>2. Min(T) \in T /\ \A y \in T : Min(T) <= y
    <2>. HIDE DEF T
    <2>. QED BY <1>1, MinIs
  <1>3. PICK x \in S : Min(T) = b - x
    BY <1>2
  <1>4. P(x)
    <2>. SUFFICES ASSUME NEW y \in S PROVE x >= y
      OBVIOUS
    <2>1. b - y \in T
      OBVIOUS
    <2>2. b - x <= b - y
      BY <1>2, <1>3, <2>1
    <2>. QED BY <2>2
  <1>5. Max(S) = CHOOSE y : P(y)
    BY DEF Max
  <1>6. P(CHOOSE y : P(y))
    <2>. HIDE DEF P
    <2>. QED BY <1>4, Zenon
  <1>7. P(Max(S))
    BY <1>5, <1>6
  <1>. QED BY <1>7

LEMMA WidthsAre ==
  /\ Units \in Powers /\ Units \in Nat \ {0}
  /\ PAGESIZE = Units
  /\ ALLOCSIZE \in Nat \ {0} /\ ALLOCSIZE % PAGESIZE = 0 /\ ALLOCSIZE >= PAGESIZE
  /\ (2 * ALLOCSIZE) % PAGESIZE = 0
  <1>1. Units \in Powers /\ Units \in Nat \ {0}
    BY WidthAssumption, PowersAre
  <1>2. ALLOCSIZE \in Nat \ {0} /\ ALLOCSIZE >= Units
    BY <1>1 DEF ALLOCSIZE
  <1>3. ALLOCSIZE % Units = 0
    BY <1>1, MulDiv DEF ALLOCSIZE
  <1>4. (ALLOCSIZE + ALLOCSIZE) % Units = 0
    BY <1>1, <1>2, <1>3, MultipleSum
  <1>5. ALLOCSIZE + ALLOCSIZE = 2 * ALLOCSIZE
    BY <1>2
  <1>. QED BY <1>1, <1>2, <1>3, <1>4, <1>5 DEF PAGESIZE

-----------------------------------------------------------------------------
(* Chunks *)

End(c) == c.ptr + Extent(c)
Small(c) == c.quantum < ALLOCSIZE
Unit(c, k) == c.ptr + k * c.quantum

Chunks ==
  {c \in [quantum : Powers, ptr : Nat, map : SUBSET (0..(Units - 1)), size : Nat] :
      /\ c.ptr >= 2 * ALLOCSIZE
      /\ c.ptr % PAGESIZE = 0 /\ c.size % PAGESIZE = 0
      /\ c.quantum >= ALLOCSIZE => c.map = {}}

Blocks == [ptr : Nat, size : Sizes]

Typed(tbl, L) == tbl \in Seq(Chunks) /\ L \in SUBSET Blocks

LEMMA ChunkIs ==
  ASSUME NEW c \in Chunks
  PROVE  /\ c.quantum \in Powers /\ c.quantum \in Nat \ {0}
         /\ c.ptr \in Nat /\ c.map \in SUBSET (0..(Units - 1)) /\ c.size \in Nat
         /\ c.ptr >= 2 * ALLOCSIZE /\ c.ptr % PAGESIZE = 0
         /\ c.quantum >= ALLOCSIZE => c.map = {}
         /\ Extent(c) \in Nat /\ Extent(c) % PAGESIZE = 0
         /\ Small(c) => Extent(c) = Units * c.quantum
         /\ ~Small(c) => Extent(c) = c.size
         /\ End(c) \in Nat /\ End(c) >= c.ptr /\ End(c) % PAGESIZE = 0
  <1>1. /\ c.quantum \in Powers /\ c.ptr \in Nat /\ c.size \in Nat
        /\ c.map \in SUBSET (0..(Units - 1))
        /\ c.ptr >= 2 * ALLOCSIZE /\ c.ptr % PAGESIZE = 0 /\ c.size % PAGESIZE = 0
        /\ c.quantum >= ALLOCSIZE => c.map = {}
    BY DEF Chunks
  <1>2. c.quantum \in Nat \ {0} /\ Units \in Nat \ {0} /\ ALLOCSIZE \in Nat /\ PAGESIZE = Units
    BY <1>1, PowersAre, WidthsAre
  <1>3. c.quantum * Units \in Nat /\ c.quantum * Units = Units * c.quantum
    BY <1>2
  <1>4. (c.quantum * Units) % Units = 0
    BY <1>2, MulDiv
  <1>5. Extent(c) \in Nat /\ Extent(c) % PAGESIZE = 0
    BY <1>1, <1>2, <1>3, <1>4 DEF Extent, chunksize
  <1>6. Small(c) => Extent(c) = Units * c.quantum
    BY <1>3 DEF Small, Extent, chunksize
  <1>7. ~Small(c) => Extent(c) = c.size
    BY DEF Small, Extent
  <1>8. End(c) \in Nat /\ End(c) >= c.ptr
    BY <1>1, <1>5 DEF End
  <1>9. End(c) % PAGESIZE = 0
    BY <1>1, <1>2, <1>5, MultipleSum DEF End
  <1>. QED BY <1>1, <1>2, <1>5, <1>6, <1>7, <1>8, <1>9

(* A unit is in its chunk, and does not reach into the next one. *)
LEMMA UnitIn ==
  ASSUME NEW c \in Chunks, Small(c), NEW k \in 0..(Units - 1)
  PROVE  /\ Unit(c, k) \in Nat /\ c.ptr <= Unit(c, k)
         /\ Unit(c, k) + c.quantum <= End(c)
         /\ (Unit(c, k) - c.ptr) \div c.quantum = k
         /\ \A j \in 0..(Units - 1) : k < j => Unit(c, k) + c.quantum <= Unit(c, j)
         /\ \A j \in 0..(Units - 1) : Unit(c, k) = Unit(c, j) => k = j
  <1>1. /\ c.quantum \in Nat \ {0} /\ c.ptr \in Nat /\ Units \in Nat \ {0}
        /\ End(c) = c.ptr + Units * c.quantum
    BY ChunkIs, WidthsAre DEF End
  <1>2. k \in Nat /\ k < Units
    BY <1>1
  <1>3. k * c.quantum \in Nat /\ k * c.quantum + c.quantum <= Units * c.quantum
    BY <1>1, <1>2, MulMono
  <1>4. (k * c.quantum) \div c.quantum = k
    BY <1>1, <1>2, MulDiv
  <1>5. ASSUME NEW x \in 0..(Units - 1), NEW y \in 0..(Units - 1), x < y
        PROVE  Unit(c, x) + c.quantum <= Unit(c, y)
    <2>1. x \in Nat /\ y \in Nat
      BY <1>1
    <2>2. x * c.quantum \in Nat /\ y * c.quantum \in Nat
          /\ x * c.quantum + c.quantum <= y * c.quantum
      BY <1>1, <1>5, <2>1, MulMono
    <2>. QED BY <1>1, <2>2 DEF Unit
  <1>6. ASSUME NEW j \in 0..(Units - 1), Unit(c, k) = Unit(c, j) PROVE k = j
    <2>1. j \in Nat
      BY <1>1
    <2>2. (j * c.quantum) \div c.quantum = j
      BY <1>1, <2>1, MulDiv
    <2>3. k * c.quantum = j * c.quantum
      <3>1. j * c.quantum \in Nat
        BY <1>1, <2>1
      <3>. QED BY <1>1, <1>3, <1>6, <3>1 DEF Unit
    <2>. QED BY <1>4, <2>2, <2>3
  <1>7. Unit(c, k) - c.ptr = k * c.quantum /\ Unit(c, k) \in Nat /\ c.ptr <= Unit(c, k)
        /\ Unit(c, k) + c.quantum <= End(c)
    BY <1>1, <1>3 DEF Unit
  <1>. QED BY <1>4, <1>5, <1>6, <1>7

(* A table of chunks without its chunk k. *)
LEMMA RemoveAtIs ==
  ASSUME NEW E, NEW s \in Seq(E), NEW k \in DOMAIN s
  PROVE  /\ RemoveAt(s, k) \in Seq(E) /\ Len(RemoveAt(s, k)) = Len(s) - 1
         /\ \A i \in 1..(Len(s) - 1) : RemoveAt(s, k)[i] = s[IF i < k THEN i ELSE i + 1]
  <1>. DEFINE n == Len(s)
              a == SubSeq(s, 1, k - 1)
              b == SubSeq(s, k + 1, n)
  <1>1. n \in Nat /\ k \in 1..n /\ DOMAIN s = 1..n
    OBVIOUS
  <1>2. a \in Seq(E) /\ Len(a) = k - 1 /\ \A i \in 1..(k - 1) : a[i] = s[i]
    BY <1>1, SubSeqProperties
  <1>3. b \in Seq(E) /\ Len(b) = n - k /\ \A i \in 1..(n - k) : b[i] = s[i + k]
    BY <1>1, SubSeqProperties
  <1>4. RemoveAt(s, k) = a \o b
    BY DEF RemoveAt
  <1>. HIDE DEF a, b
  <1>5. Len(a \o b) = n - 1 /\ a \o b \in Seq(E)
    <2>1. Len(a \o b) = Len(a) + Len(b) /\ a \o b \in Seq(E)
      BY <1>2, <1>3, ConcatProperties
    <2>. HIDE DEF n
    <2>. QED BY <1>1, <1>2, <1>3, <2>1
  <1>6. ASSUME NEW i \in 1..(n - 1) PROVE (a \o b)[i] = s[IF i < k THEN i ELSE i + 1]
    <2>1. CASE i < k
      BY <1>1, <1>2, <1>3, <2>1
    <2>2. CASE ~(i < k)
      <3>1. (a \o b)[i] = b[i - (k - 1)]
        BY <1>1, <1>2, <1>3, <2>2
      <3>2. i - (k - 1) \in 1..(n - k) /\ (i - (k - 1)) + k = i + 1
        BY <1>1, <2>2
      <3>. QED BY <1>3, <2>2, <3>1, <3>2
    <2>. QED BY <2>1, <2>2
  <1>. QED BY <1>1, <1>4, <1>5, <1>6

(* The ends of the chunks have a bound. *)
LEMMA EndsBounded ==
  ASSUME NEW tbl \in Seq(Chunks)
  PROVE  \E b \in Nat : \A j \in DOMAIN tbl : End(tbl[j]) <= b
  <1>. DEFINE Bounds(n, b) == \A j \in DOMAIN tbl : j <= n => End(tbl[j]) <= b
              S == {n \in Nat : \E b \in Nat : Bounds(n, b)}
  <1>1. DOMAIN tbl = 1..Len(tbl) /\ Len(tbl) \in Nat /\ \A j \in DOMAIN tbl : tbl[j] \in Chunks
    OBVIOUS
  <1>2. \A j \in DOMAIN tbl : End(tbl[j]) \in Nat
    BY <1>1, ChunkIs
  <1>3. 0 \in S
    <2>1. Bounds(0, 0)
      BY <1>1
    <2>. QED BY <2>1
  <1>4. ASSUME NEW n \in Nat, n \in S PROVE n + 1 \in S
    <2>1. PICK b \in Nat : Bounds(n, b)
      BY <1>4
    <2>2. CASE n + 1 \in DOMAIN tbl
      <3>1. End(tbl[n + 1]) \in Nat
        BY <1>2, <2>2
      <3>. DEFINE top == b + End(tbl[n + 1])
      <3>2. top \in Nat /\ b <= top /\ End(tbl[n + 1]) <= top
        BY <3>1
      <3>3. ASSUME NEW j \in DOMAIN tbl, j <= n + 1 PROVE End(tbl[j]) <= top
        <4>1. End(tbl[j]) \in Nat /\ j \in Nat
          BY <1>1, <1>2
        <4>2. CASE j <= n
          <5>1. End(tbl[j]) <= b
            BY <2>1, <4>2
          <5>. QED BY <3>2, <4>1, <5>1
        <4>3. CASE j = n + 1
          BY <3>2, <4>3
        <4>. QED BY <3>3, <4>1, <4>2, <4>3
      <3>. HIDE DEF top
      <3>4. Bounds(n + 1, top)
        BY <3>3
      <3>. QED BY <3>2, <3>4
    <2>3. CASE n + 1 \notin DOMAIN tbl
      <3>1. Bounds(n + 1, b)
        <4>. SUFFICES ASSUME NEW j \in DOMAIN tbl, j <= n + 1 PROVE End(tbl[j]) <= b
          OBVIOUS
        <4>1. j \in Nat /\ j # n + 1
          BY <1>1, <2>3
        <4>2. j <= n
          BY <4>1
        <4>. QED BY <2>1, <4>2
      <3>. QED BY <3>1
    <2>. QED BY <2>2, <2>3
  <1>5. Nat \subseteq S
    <2>. HIDE DEF S
    <2>. QED BY <1>3, <1>4, InductionSet
  <1>6. PICK b \in Nat : Bounds(Len(tbl), b)
    BY <1>1, <1>5
  <1>. QED BY <1>1, <1>6

(* A place behind every chunk, or one in front of every chunk. *)
Behind(tbl, p) == \A j \in DOMAIN tbl : End(tbl[j]) <= p
InFront(tbl, s, p) ==
  /\ tbl # << >> /\ p = 2 * ALLOCSIZE
  /\ \A j \in DOMAIN tbl : p + RoundUp(s, ALLOCSIZE) < tbl[j].ptr

LEMMA PlaceIs ==
  ASSUME NEW tbl \in Seq(Chunks), NEW s \in Sizes, NEW a \in Powers
  PROVE  /\ Place(tbl, s, a) \in Nat /\ Place(tbl, s, a) >= 2 * ALLOCSIZE
         /\ Place(tbl, s, a) % PAGESIZE = 0
         /\ \/ Behind(tbl, Place(tbl, s, a))
            \/ InFront(tbl, s, Place(tbl, s, a)) /\ Place(tbl, s, a) % a = 0
  <1>. DEFINE lp == 2 * ALLOCSIZE
              Ends == {End(tbl[j]) : j \in DOMAIN tbl}
              Starts == {tbl[j].ptr : j \in DOMAIN tbl}
              room == lp + RoundUp(s, ALLOCSIZE) < Min(Starts)
              front == tbl # << >> /\ room /\ lp % a = 0
  <1>1. lp \in Nat /\ lp % PAGESIZE = 0
    BY WidthsAre
  <1>2. \A j \in DOMAIN tbl : tbl[j] \in Chunks /\ End(tbl[j]) \in Nat /\ End(tbl[j]) % PAGESIZE = 0
                              /\ tbl[j].ptr \in Nat
    BY ChunkIs
  <1>3. RoundUp(s, ALLOCSIZE) \in Nat
    <2>1. s \in Nat
      BY WidthAssumption
    <2>. QED BY <2>1, WidthsAre, RoundUpIs
  <1>4. Place(tbl, s, a) = IF front THEN lp ELSE Max({lp} \union Ends)
    BY DEF Place, End
  <1>5. CASE front
    <2>1. Starts # {} /\ Starts \in SUBSET Nat
      <3>1. 1 \in DOMAIN tbl
        BY <1>5
      <3>. QED BY <1>2, <3>1
    <2>2. Min(Starts) \in Starts /\ \A y \in Starts : Min(Starts) <= y
      <3>. HIDE DEF Starts
      <3>. QED BY <2>1, MinIs
    <2>3. ASSUME NEW j \in DOMAIN tbl PROVE lp + RoundUp(s, ALLOCSIZE) < tbl[j].ptr
      <3>1. Min(Starts) \in Nat /\ tbl[j].ptr \in Nat /\ Min(Starts) <= tbl[j].ptr
        BY <1>2, <2>1, <2>2
      <3>. HIDE DEF Starts, lp
      <3>. QED BY <1>1, <1>3, <1>5, <3>1
    <2>4. InFront(tbl, s, lp)
      BY <1>5, <2>3 DEF InFront
    <2>. QED BY <1>1, <1>4, <1>5, <2>4
  <1>6. CASE ~front
    <2>. DEFINE S == {lp} \union Ends
    <2>1. PICK b \in Nat : \A j \in DOMAIN tbl : End(tbl[j]) <= b
      BY EndsBounded
    <2>2. S \in SUBSET Nat /\ S # {} /\ lp + b \in Nat
      BY <1>1, <1>2, <2>1
    <2>3. \A x \in S : x <= lp + b
      <3>. HIDE DEF lp
      <3>. QED BY <1>1, <1>2, <2>1
    <2>4. Max(S) \in S /\ \A y \in S : y <= Max(S)
      <3>. HIDE DEF S, lp
      <3>. QED BY <2>2, <2>3, MaxIs
    <2>5. Max(S) \in Nat /\ Max(S) % PAGESIZE = 0
      BY <1>1, <1>2, <2>4
    <2>6. lp <= Max(S) /\ Behind(tbl, Max(S))
      BY <2>4 DEF Behind
    <2>7. Place(tbl, s, a) = Max(S)
      BY <1>4, <1>6
    <2>. HIDE DEF S
    <2>. QED BY <1>1, <2>5, <2>6, <2>7
  <1>. QED BY <1>5, <1>6

-----------------------------------------------------------------------------
(* Blocks in chunks *)

In(c, b) ==
  IF Small(c) THEN \E k \in c.map : b.ptr = Unit(c, k) /\ b.size <= c.quantum
              ELSE b.ptr = c.ptr /\ b.size <= c.size

Disjoint(tbl) ==
  \A i, j \in DOMAIN tbl : i # j => Apart(tbl[i].ptr, End(tbl[i]), tbl[j].ptr, End(tbl[j]))
OneEach(L) == \A b, c \in L : b.ptr = c.ptr => b = c
Held(tbl, L) == \A b \in L : \E j \in DOMAIN tbl : In(tbl[j], b)

(* What makes an allocmap right: no two chunks overlap, and every block of *)
(* the program has a used unit or a chunk of its own.                      *)
Good(tbl, L) == Typed(tbl, L) /\ Disjoint(tbl) /\ OneEach(L) /\ Held(tbl, L)

LEMMA BlockIs ==
  ASSUME NEW b \in Blocks
  PROVE  b.ptr \in Nat /\ b.size \in Sizes /\ b.size \in Nat \ {0}
  <1>1. b.ptr \in Nat /\ b.size \in Sizes
    BY DEF Blocks
  <1>. QED BY <1>1, WidthAssumption

LEMMA InIs ==
  ASSUME NEW c \in Chunks, NEW b \in Blocks, In(c, b)
  PROVE  /\ c.ptr <= b.ptr /\ b.ptr + b.size <= End(c) /\ b.ptr < End(c)
         /\ Small(c) => b.size <= c.quantum
  <1>1. b.ptr \in Nat /\ b.size \in Nat \ {0} /\ c.ptr \in Nat /\ End(c) \in Nat
        /\ c.quantum \in Nat /\ c.size \in Nat
    BY BlockIs, ChunkIs
  <1>2. CASE Small(c)
    <2>1. PICK k \in c.map : b.ptr = Unit(c, k) /\ b.size <= c.quantum
      BY <1>2 DEF In
    <2>2. k \in 0..(Units - 1)
      BY ChunkIs
    <2>3. c.ptr <= Unit(c, k) /\ Unit(c, k) + c.quantum <= End(c) /\ Unit(c, k) \in Nat
      BY <1>2, <2>2, UnitIn
    <2>. QED BY <1>1, <2>1, <2>3
  <1>3. CASE ~Small(c)
    <2>1. b.ptr = c.ptr /\ b.size <= c.size
      BY <1>3 DEF In
    <2>2. End(c) = c.ptr + c.size
      BY <1>3, ChunkIs DEF End
    <2>. QED BY <1>1, <1>3, <2>1, <2>2
  <1>. QED BY <1>2, <1>3

(* A block is in one chunk. *)
LEMMA OneChunk ==
  ASSUME NEW tbl \in Seq(Chunks), Disjoint(tbl), NEW i \in DOMAIN tbl, NEW j \in DOMAIN tbl,
         NEW x \in Nat, tbl[i].ptr <= x, x < End(tbl[i]), tbl[j].ptr <= x, x < End(tbl[j])
  PROVE  i = j
  <1>1. tbl[i] \in Chunks /\ tbl[j] \in Chunks
    OBVIOUS
  <1>2. /\ tbl[i].ptr \in Nat /\ End(tbl[i]) \in Nat
        /\ tbl[j].ptr \in Nat /\ End(tbl[j]) \in Nat
    BY <1>1, ChunkIs
  <1>3. i # j => End(tbl[i]) <= tbl[j].ptr \/ End(tbl[j]) <= tbl[i].ptr
    BY DEF Disjoint, Apart
  <1>. QED BY <1>2, <1>3

LEMMA OwnerIs ==
  ASSUME NEW tbl, NEW L, Good(tbl, L), NEW b \in L, NEW j \in DOMAIN tbl, In(tbl[j], b)
  PROVE  Owners(tbl, b.ptr) = {j}
  <1>1. tbl \in Seq(Chunks) /\ b \in Blocks /\ tbl[j] \in Chunks /\ Disjoint(tbl) /\ b.ptr \in Nat
    BY BlockIs DEF Good, Typed
  <1>2. tbl[j].ptr <= b.ptr /\ b.ptr < End(tbl[j])
    BY <1>1, InIs
  <1>3. Owners(tbl, b.ptr) = {i \in DOMAIN tbl : tbl[i].ptr <= b.ptr /\ b.ptr < End(tbl[i])}
    BY DEF Owners, End
  <1>4. ASSUME NEW i \in DOMAIN tbl, tbl[i].ptr <= b.ptr, b.ptr < End(tbl[i]) PROVE i = j
    BY <1>1, <1>2, <1>4, OneChunk
  <1>. QED BY <1>2, <1>3, <1>4

(* Two blocks of a right allocmap do not overlap. *)
LEMMA GoodApart ==
  ASSUME NEW tbl, NEW L, Good(tbl, L), NEW b \in L, NEW d \in L, b # d
  PROVE  Apart(b.ptr, b.ptr + b.size, d.ptr, d.ptr + d.size)
  <1>1. tbl \in Seq(Chunks) /\ b \in Blocks /\ d \in Blocks /\ Disjoint(tbl)
    BY DEF Good, Typed
  <1>2. /\ b.ptr \in Nat /\ b.size \in Nat \ {0}
        /\ d.ptr \in Nat /\ d.size \in Nat \ {0} /\ b.ptr # d.ptr
    BY <1>1, BlockIs DEF Good, OneEach
  <1>3. PICK i \in DOMAIN tbl : In(tbl[i], b)
    BY DEF Good, Held
  <1>4. PICK j \in DOMAIN tbl : In(tbl[j], d)
    BY DEF Good, Held
  <1>5. tbl[i] \in Chunks /\ tbl[j] \in Chunks
    BY <1>1
  <1>6. /\ tbl[i].ptr \in Nat /\ End(tbl[i]) \in Nat
        /\ tbl[j].ptr \in Nat /\ End(tbl[j]) \in Nat
        /\ tbl[i].ptr <= b.ptr /\ b.ptr + b.size <= End(tbl[i])
        /\ tbl[j].ptr <= d.ptr /\ d.ptr + d.size <= End(tbl[j])
    BY <1>1, <1>3, <1>4, <1>5, ChunkIs, InIs
  <1>7. CASE i # j
    <2>1. End(tbl[i]) <= tbl[j].ptr \/ End(tbl[j]) <= tbl[i].ptr
      BY <1>1, <1>7 DEF Disjoint, Apart
    <2>. QED BY <1>2, <1>6, <2>1 DEF Apart
  <1>8. CASE i = j
    <2>1. Small(tbl[i])
      BY <1>2, <1>3, <1>4, <1>8 DEF In
    <2>. DEFINE c == tbl[i]
    <2>2. PICK k \in c.map : b.ptr = Unit(c, k) /\ b.size <= c.quantum
      BY <1>3, <2>1 DEF In
    <2>3. PICK n \in c.map : d.ptr = Unit(c, n) /\ d.size <= c.quantum
      BY <1>4, <1>8, <2>1 DEF In
    <2>4. k \in 0..(Units - 1) /\ n \in 0..(Units - 1) /\ k # n /\ c.quantum \in Nat
          /\ k \in Nat /\ n \in Nat
      BY <1>2, <1>5, <2>2, <2>3, ChunkIs, WidthsAre
    <2>. HIDE DEF c
    <2>5. CASE k < n
      <3>1. Unit(c, k) + c.quantum <= Unit(c, n)
        BY <1>5, <2>1, <2>4, <2>5, UnitIn DEF c
      <3>. QED BY <1>2, <2>2, <2>3, <2>4, <3>1 DEF Apart
    <2>6. CASE n < k
      <3>1. Unit(c, n) + c.quantum <= Unit(c, k)
        BY <1>5, <2>1, <2>4, <2>6, UnitIn DEF c
      <3>. QED BY <1>2, <2>2, <2>3, <2>4, <3>1 DEF Apart
    <2>. QED BY <2>4, <2>5, <2>6
  <1>. QED BY <1>7, <1>8

-----------------------------------------------------------------------------
(* Giving back *)

(* The words of the bitmap sum to zero just if the unit was the last one. *)
Sums(c, bits) == Small(c) => \A k \in c.map : Unused(c.map \ {k}, bits) <=> c.map = {k}

LEMMA RemovedIs ==
  ASSUME NEW tbl \in Seq(Chunks), NEW j \in DOMAIN tbl
  PROVE  /\ RemoveAt(tbl, j) \in Seq(Chunks)
         /\ \A i \in DOMAIN RemoveAt(tbl, j) :
               \E n \in DOMAIN tbl \ {j} : n = (IF i < j THEN i ELSE i + 1) /\ RemoveAt(tbl, j)[i] = tbl[n]
         /\ \A n \in DOMAIN tbl \ {j} : \E i \in DOMAIN RemoveAt(tbl, j) : RemoveAt(tbl, j)[i] = tbl[n]
  <1>. DEFINE t == RemoveAt(tbl, j)
  <1>1. /\ t \in Seq(Chunks) /\ Len(t) = Len(tbl) - 1
        /\ \A i \in 1..(Len(tbl) - 1) : t[i] = tbl[IF i < j THEN i ELSE i + 1]
    BY RemoveAtIs
  <1>2. DOMAIN tbl = 1..Len(tbl) /\ Len(tbl) \in Nat /\ DOMAIN t = 1..Len(t)
    BY <1>1
  <1>. HIDE DEF t
  <1>3. ASSUME NEW i \in DOMAIN t
        PROVE  \E n \in DOMAIN tbl \ {j} : n = (IF i < j THEN i ELSE i + 1) /\ t[i] = tbl[n]
    <2>1. t[i] = tbl[IF i < j THEN i ELSE i + 1]
      BY <1>1, <1>2
    <2>2. (IF i < j THEN i ELSE i + 1) \in DOMAIN tbl \ {j}
      BY <1>1, <1>2
    <2>. QED BY <2>1, <2>2
  <1>4. ASSUME NEW n \in DOMAIN tbl \ {j} PROVE \E i \in DOMAIN t : t[i] = tbl[n]
    <2>1. CASE n < j
      <3>1. n \in DOMAIN t /\ n \in 1..(Len(tbl) - 1)
        BY <1>1, <1>2, <2>1
      <3>2. t[n] = tbl[n]
        BY <1>1, <2>1, <3>1
      <3>. QED BY <3>1, <3>2
    <2>2. CASE n > j
      <3>1. n - 1 \in DOMAIN t /\ n - 1 \in 1..(Len(tbl) - 1) /\ ~(n - 1 < j) /\ (n - 1) + 1 = n
        BY <1>1, <1>2, <2>2
      <3>2. t[n - 1] = tbl[n]
        BY <1>1, <3>1
      <3>. QED BY <3>1, <3>2
    <2>. QED BY <1>2, <2>1, <2>2
  <1>. QED BY <1>1, <1>3, <1>4 DEF t

LEMMA RemovedGood ==
  ASSUME NEW tbl, NEW L, Good(tbl, L), NEW b \in L, NEW j \in DOMAIN tbl,
         \A d \in L : In(tbl[j], d) => d = b
  PROVE  Good(RemoveAt(tbl, j), L \ {b})
  <1>. DEFINE t == RemoveAt(tbl, j)
  <1>1. tbl \in Seq(Chunks) /\ L \in SUBSET Blocks /\ Disjoint(tbl) /\ OneEach(L) /\ Held(tbl, L)
    BY DEF Good, Typed
  <1>2. /\ t \in Seq(Chunks)
        /\ \A i \in DOMAIN t :
              \E n \in DOMAIN tbl \ {j} : n = (IF i < j THEN i ELSE i + 1) /\ t[i] = tbl[n]
        /\ \A n \in DOMAIN tbl \ {j} : \E i \in DOMAIN t : t[i] = tbl[n]
    BY <1>1, RemovedIs
  <1>. HIDE DEF t
  <1>3. Disjoint(t)
    <2>. SUFFICES ASSUME NEW i \in DOMAIN t, NEW k \in DOMAIN t, i # k
                  PROVE  Apart(t[i].ptr, End(t[i]), t[k].ptr, End(t[k]))
      BY DEF Disjoint
    <2>1. PICK m \in DOMAIN tbl \ {j} : m = (IF i < j THEN i ELSE i + 1) /\ t[i] = tbl[m]
      BY <1>2
    <2>2. PICK n \in DOMAIN tbl \ {j} : n = (IF k < j THEN k ELSE k + 1) /\ t[k] = tbl[n]
      BY <1>2
    <2>3. i \in Int /\ k \in Int /\ j \in Int
      <3>1. DOMAIN t = 1..Len(t) /\ DOMAIN tbl = 1..Len(tbl)
        BY <1>1, <1>2
      <3>. QED BY <3>1
    <2>4. m # n
      BY <2>1, <2>2, <2>3
    <2>. QED BY <1>1, <2>1, <2>2, <2>4 DEF Disjoint
  <1>4. Held(t, L \ {b})
    <2>. SUFFICES ASSUME NEW d \in L \ {b} PROVE \E i \in DOMAIN t : In(t[i], d)
      BY DEF Held
    <2>1. PICK n \in DOMAIN tbl : In(tbl[n], d)
      BY <1>1 DEF Held
    <2>2. n # j
      BY <2>1
    <2>. QED BY <1>2, <2>1, <2>2
  <1>. QED BY <1>1, <1>2, <1>3, <1>4 DEF t, Good, Typed, OneEach

(* A unit less. *)
Cleared(c, k) == [c EXCEPT !.map = c.map \ {k}]

LEMMA ClearedIs ==
  ASSUME NEW c \in Chunks, NEW k
  PROVE  /\ Cleared(c, k) \in Chunks
         /\ Cleared(c, k).ptr = c.ptr /\ Cleared(c, k).quantum = c.quantum
         /\ Cleared(c, k).size = c.size /\ Cleared(c, k).map = c.map \ {k}
         /\ Extent(Cleared(c, k)) = Extent(c) /\ End(Cleared(c, k)) = End(c)
         /\ \A n : Unit(Cleared(c, k), n) = Unit(c, n)
         /\ Small(Cleared(c, k)) <=> Small(c)
  <1>1. c \in [quantum : Powers, ptr : Nat, map : SUBSET (0..(Units - 1)), size : Nat]
    BY DEF Chunks
  <1>2. /\ Cleared(c, k) \in [quantum : Powers, ptr : Nat, map : SUBSET (0..(Units - 1)), size : Nat]
        /\ Cleared(c, k).ptr = c.ptr /\ Cleared(c, k).quantum = c.quantum
        /\ Cleared(c, k).size = c.size /\ Cleared(c, k).map = c.map \ {k}
    BY <1>1 DEF Cleared
  <1>3. Cleared(c, k) \in Chunks
    BY <1>2 DEF Chunks
  <1>. QED BY <1>2, <1>3 DEF Extent, End, Unit, Small

LEMMA ClearedGood ==
  ASSUME NEW tbl, NEW L, Good(tbl, L), NEW b \in L, NEW j \in DOMAIN tbl,
         Small(tbl[j]), NEW k \in tbl[j].map, b.ptr = Unit(tbl[j], k)
  PROVE  Good([tbl EXCEPT ![j] = Cleared(tbl[j], k)], L \ {b})
  <1>. DEFINE t == [tbl EXCEPT ![j] = Cleared(tbl[j], k)]
  <1>1. tbl \in Seq(Chunks) /\ L \in SUBSET Blocks /\ Disjoint(tbl) /\ OneEach(L) /\ Held(tbl, L)
        /\ tbl[j] \in Chunks
    BY DEF Good, Typed
  <1>2. Cleared(tbl[j], k) \in Chunks
    BY <1>1, ClearedIs
  <1>3. t \in Seq(Chunks) /\ DOMAIN t = DOMAIN tbl
        /\ \A i \in DOMAIN tbl : t[i] = IF i = j THEN Cleared(tbl[j], k) ELSE tbl[i]
    BY <1>1, <1>2
  <1>. HIDE DEF t
  <1>4. \A i \in DOMAIN tbl : t[i].ptr = tbl[i].ptr /\ End(t[i]) = End(tbl[i])
    BY <1>1, <1>3, ClearedIs
  <1>5. Disjoint(t)
    BY <1>1, <1>3, <1>4 DEF Disjoint
  <1>6. Held(t, L \ {b})
    <2>. SUFFICES ASSUME NEW d \in L \ {b} PROVE \E i \in DOMAIN t : In(t[i], d)
      BY DEF Held
    <2>1. PICK n \in DOMAIN tbl : In(tbl[n], d)
      BY <1>1 DEF Held
    <2>2. CASE n # j
      BY <1>3, <2>1, <2>2
    <2>3. CASE n = j
      <3>1. PICK m \in tbl[j].map : d.ptr = Unit(tbl[j], m) /\ d.size <= tbl[j].quantum
        BY <2>1, <2>3 DEF In
      <3>2. m # k
        BY <1>1, <3>1 DEF OneEach
      <3>3. t[j] = Cleared(tbl[j], k)
        BY <1>3
      <3>4. Small(t[j]) /\ m \in t[j].map /\ d.ptr = Unit(t[j], m) /\ d.size <= t[j].quantum
        BY <1>1, <3>1, <3>2, <3>3, ClearedIs
      <3>5. In(t[j], d)
        BY <3>4 DEF In
      <3>. QED BY <1>3, <3>5
    <2>. QED BY <2>2, <2>3
  <1>. QED BY <1>1, <1>3, <1>5, <1>6 DEF t, Good, Typed, OneEach

(* The two ways a block is given back: its chunk goes, or one unit of it. *)
LEMMA ReleaseIs ==
  ASSUME NEW tbl, NEW L, Good(tbl, L), NEW b \in L, NEW j \in DOMAIN tbl, In(tbl[j], b),
         NEW bits, Sums(tbl[j], bits)
  PROVE  LET r == Release(tbl, j, b.ptr, bits)
             c == tbl[j]
         IN \/ /\ ~Small(c) /\ r.tbl = RemoveAt(tbl, j) /\ r.unmap = Pages(c.ptr, c.size)
               /\ b.ptr = c.ptr
            \/ /\ Small(c)
               /\ \E k \in c.map :
                     /\ b.ptr = Unit(c, k)
                     /\ \/ c.map = {k} /\ r.tbl = RemoveAt(tbl, j) /\ Unused(c.map \ {k}, bits)
                        \/ r.tbl = [tbl EXCEPT ![j] = Cleared(c, k)] /\ ~Unused(c.map \ {k}, bits)
                     /\ r.unmap = IF c.quantum >= PAGESIZE THEN Pages(Unit(c, k), c.quantum)
                                  ELSE IF Unused(c.map \ {k}, bits) THEN Pages(c.ptr, Extent(c)) ELSE {}
  <1>. DEFINE r == Release(tbl, j, b.ptr, bits)
              c == tbl[j]
              k == (b.ptr - c.ptr) \div c.quantum
              last == c.quantum >= ALLOCSIZE \/ Unused(c.map \ {k}, bits)
  <1>1. tbl \in Seq(Chunks) /\ c \in Chunks
    BY DEF Good, Typed
  <1>2. c.quantum \in Nat /\ ALLOCSIZE \in Nat /\ (Small(c) <=> ~(c.quantum >= ALLOCSIZE))
    BY <1>1, ChunkIs, WidthsAre DEF Small
  <1>3. /\ r.tbl = IF last THEN RemoveAt(tbl, j) ELSE [tbl EXCEPT ![j].map = c.map \ {k}]
        /\ r.unmap = IF c.quantum >= ALLOCSIZE THEN Pages(c.ptr, c.size)
                     ELSE IF c.quantum >= PAGESIZE THEN Pages(b.ptr, c.quantum)
                     ELSE IF last THEN Pages(c.ptr, Extent(c)) ELSE {}
    BY DEF Release
  <1>4. CASE ~Small(c)
    <2>1. r.tbl = RemoveAt(tbl, j)
      BY <1>2, <1>3, <1>4
    <2>2. r.unmap = Pages(c.ptr, c.size)
      <3>. HIDE DEF k, last, r
      <3>. QED BY <1>2, <1>3, <1>4
    <2>3. b.ptr = c.ptr
      BY <1>4 DEF In
    <2>. QED BY <1>4, <2>1, <2>2, <2>3
  <1>5. CASE Small(c)
    <2>1. PICK n \in c.map : b.ptr = Unit(c, n) /\ b.size <= c.quantum
      BY <1>5 DEF In
    <2>2. n \in 0..(Units - 1)
      BY <1>1, ChunkIs
    <2>3. n = k
      BY <1>1, <1>5, <2>1, <2>2, UnitIn
    <2>. HIDE DEF k
    <2>4. last <=> Unused(c.map \ {n}, bits)
      BY <1>2, <1>5, <2>3
    <2>5. [tbl EXCEPT ![j].map = c.map \ {n}] = [tbl EXCEPT ![j] = Cleared(c, n)]
      BY <1>1 DEF Cleared
    <2>6. /\ Unused(c.map \ {n}, bits) => r.tbl = RemoveAt(tbl, j)
          /\ ~Unused(c.map \ {n}, bits) => r.tbl = [tbl EXCEPT ![j] = Cleared(c, n)]
      BY <1>3, <2>3, <2>4, <2>5
    <2>7. Unused(c.map \ {n}, bits) => c.map = {n}
      BY <1>5 DEF Sums
    <2>8. r.unmap = IF c.quantum >= PAGESIZE THEN Pages(Unit(c, n), c.quantum)
                    ELSE IF Unused(c.map \ {n}, bits) THEN Pages(c.ptr, Extent(c)) ELSE {}
      <3>. HIDE DEF last, r
      <3>. QED BY <1>2, <1>3, <1>5, <2>1, <2>4
    <2>. QED BY <1>5, <2>1, <2>6, <2>7, <2>8
  <1>. QED BY <1>4, <1>5

LEMMA ReleaseGood ==
  ASSUME NEW tbl, NEW L, Good(tbl, L), NEW b \in L, NEW j \in DOMAIN tbl, In(tbl[j], b),
         NEW bits, Sums(tbl[j], bits)
  PROVE  Good(Release(tbl, j, b.ptr, bits).tbl, L \ {b})
  <1>. DEFINE r == Release(tbl, j, b.ptr, bits)
              c == tbl[j]
  <1>0. \/ ~Small(c) /\ r.tbl = RemoveAt(tbl, j) /\ r.unmap = Pages(c.ptr, c.size) /\ b.ptr = c.ptr
        \/ /\ Small(c)
           /\ \E k \in c.map :
                 /\ b.ptr = Unit(c, k)
                 /\ \/ c.map = {k} /\ r.tbl = RemoveAt(tbl, j) /\ Unused(c.map \ {k}, bits)
                    \/ r.tbl = [tbl EXCEPT ![j] = Cleared(c, k)] /\ ~Unused(c.map \ {k}, bits)
                 /\ r.unmap = IF c.quantum >= PAGESIZE THEN Pages(Unit(c, k), c.quantum)
                              ELSE IF Unused(c.map \ {k}, bits) THEN Pages(c.ptr, Extent(c)) ELSE {}
    BY ReleaseIs, Zenon
  <1>. HIDE DEF r
  <1>1. \/ ~Small(c) /\ r.tbl = RemoveAt(tbl, j) /\ b.ptr = c.ptr
        \/ /\ Small(c)
           /\ \E k \in c.map :
                 /\ b.ptr = Unit(c, k)
                 /\ \/ c.map = {k} /\ r.tbl = RemoveAt(tbl, j)
                    \/ r.tbl = [tbl EXCEPT ![j] = Cleared(c, k)]
    BY <1>0, Zenon
  <1>2. OneEach(L)
    BY DEF Good
  <1>3. CASE ~Small(c) /\ r.tbl = RemoveAt(tbl, j) /\ b.ptr = c.ptr
    <2>1. \A d \in L : In(tbl[j], d) => d = b
      BY <1>2, <1>3 DEF In, OneEach
    <2>2. Good(RemoveAt(tbl, j), L \ {b})
      BY <2>1, RemovedGood
    <2>. QED BY <1>3, <2>2 DEF r
  <1>4. ASSUME Small(c), NEW k \in c.map, b.ptr = Unit(c, k), c.map = {k}, r.tbl = RemoveAt(tbl, j)
        PROVE  Good(r.tbl, L \ {b})
    <2>1. \A d \in L : In(tbl[j], d) => d = b
      BY <1>2, <1>4 DEF In, OneEach
    <2>2. Good(RemoveAt(tbl, j), L \ {b})
      BY <2>1, RemovedGood
    <2>. QED BY <1>4, <2>2
  <1>5. ASSUME Small(c), NEW k \in c.map, b.ptr = Unit(c, k), r.tbl = [tbl EXCEPT ![j] = Cleared(c, k)]
        PROVE  Good(r.tbl, L \ {b})
    BY <1>5, ClearedGood
  <1>. QED BY <1>1, <1>3, <1>4, <1>5 DEF r

-----------------------------------------------------------------------------
(* Taking a unit *)

Empty(q, p) == [quantum |-> q, ptr |-> p, map |-> {}, size |-> 0]

Reused(tbl, u, q) ==
  /\ ~u.fresh /\ u.tbl = tbl /\ u.j \in DOMAIN tbl
  /\ tbl[u.j].quantum = q /\ q < ALLOCSIZE
  /\ u.k \in 0..(Units - 1) /\ u.k \notin tbl[u.j].map
NewOne(tbl, u, s, q) ==
  /\ u.fresh /\ u.j = Len(tbl) + 1 /\ u.k = 0
  /\ \E p \in Nat : /\ u.tbl = Append(tbl, Empty(q, p)) /\ Empty(q, p) \in Chunks
                    /\ Behind(tbl, p) \/ InFront(tbl, s, p)

LEMMA UnitIs ==
  ASSUME NEW tbl \in Seq(Chunks), NEW s \in Sizes, NEW a \in Powers, Quantum(s) <= a
  PROVE  \/ Reused(tbl, WithUnit(tbl, s, Quantum(s), a), Quantum(s))
         \/ NewOne(tbl, WithUnit(tbl, s, Quantum(s), a), s, Quantum(s))
  <1>. DEFINE q == Quantum(s)
              u == WithUnit(tbl, s, q, a)
              fit == Fitting(tbl, q, a)
              place == Place(tbl, s, a)
              p == IF q >= ALLOCSIZE THEN RoundUp(place, a) ELSE place
  <1>. HIDE DEF q
  <1>1. q \in Powers /\ q \in Nat \ {0} /\ a \in Nat \ {0} /\ q <= a
    BY QuantumIs, PowersAre DEF q
  <1>2. DOMAIN tbl = 1..Len(tbl) /\ Len(tbl) \in Nat
    OBVIOUS
  <1>3. CASE fit # {}
    <2>1. fit \in SUBSET Nat /\ \A x \in fit : x <= Len(tbl)
      BY <1>2 DEF Fitting
    <2>2. Max(fit) \in fit
      <3>. HIDE DEF fit
      <3>. QED BY <1>2, <1>3, <2>1, MaxIs
    <2>. DEFINE j == Max(fit)
                room == FreeUnits(tbl[j], q, a)
    <2>3. j \in DOMAIN tbl /\ tbl[j].quantum = q /\ q < ALLOCSIZE /\ room # {}
      BY <2>2 DEF Fitting
    <2>4. room \in SUBSET Nat /\ room \subseteq 0..(Units - 1) /\ \A k \in room : k \notin tbl[j].map
      BY WidthsAre DEF FreeUnits
    <2>5. Min(room) \in room
      <3>. HIDE DEF room
      <3>. QED BY <2>3, <2>4, MinIs
    <2>6. ~u.fresh /\ u.tbl = tbl /\ u.j = j /\ u.k = Min(room)
      BY <1>3 DEF WithUnit
    <2>. HIDE DEF u, j, room, fit
    <2>7. Reused(tbl, u, q)
      BY <2>3, <2>4, <2>5, <2>6 DEF Reused
    <2>. QED BY <2>7 DEF u, q
  <1>4. CASE fit = {}
    <2>1. u.fresh /\ u.tbl = Append(tbl, Empty(q, p)) /\ u.j = Len(tbl) + 1 /\ u.k = 0
      BY <1>4 DEF WithUnit, Empty
    <2>2. /\ place \in Nat /\ place >= 2 * ALLOCSIZE /\ place % PAGESIZE = 0
          /\ Behind(tbl, place) \/ (InFront(tbl, s, place) /\ place % a = 0)
      BY PlaceIs
    <2>. HIDE DEF u, place, fit
    <2>3. /\ p \in Nat /\ p >= place /\ p % PAGESIZE = 0
          /\ Behind(tbl, p) \/ InFront(tbl, s, p)
      <3>1. CASE q < ALLOCSIZE
        <4>1. p = place
          BY <1>1, <3>1, WidthsAre
        <4>. HIDE DEF p
        <4>. QED BY <2>2, <4>1
      <3>2. CASE q >= ALLOCSIZE
        <4>1. p = RoundUp(place, a)
          BY <3>2
        <4>2. /\ RoundUp(place, a) \in Nat /\ RoundUp(place, a) >= place /\ RoundUp(place, a) % a = 0
              /\ place % a = 0 => RoundUp(place, a) = place
          BY <1>1, <2>2, RoundUpIs
        <4>3. a % PAGESIZE = 0
          <5>1. PAGESIZE <= a /\ PAGESIZE \in Powers
            BY <1>1, <3>2, WidthsAre
          <5>. QED BY <5>1, PowersAre
        <4>4. RoundUp(place, a) % PAGESIZE = 0
          BY <1>1, <4>2, <4>3, WidthsAre, MultipleOfMultiple
        <4>5. Behind(tbl, place) => Behind(tbl, RoundUp(place, a))
          <5>. SUFFICES ASSUME Behind(tbl, place), NEW j \in DOMAIN tbl
                        PROVE  End(tbl[j]) <= RoundUp(place, a)
            BY DEF Behind
          <5>1. End(tbl[j]) \in Nat /\ End(tbl[j]) <= place
            BY ChunkIs DEF Behind
          <5>. QED BY <2>2, <4>2, <5>1
        <4>. HIDE DEF p
        <4>. QED BY <2>2, <4>1, <4>2, <4>4, <4>5
      <3>. QED BY <1>1, <3>1, <3>2, WidthsAre
    <2>. HIDE DEF p
    <2>4. p >= 2 * ALLOCSIZE
      BY <2>2, <2>3, WidthsAre
    <2>5. Empty(q, p) \in Chunks
      <3>1. 0 % PAGESIZE = 0
        BY WidthsAre
      <3>. QED BY <1>1, <2>3, <2>4, <3>1 DEF Chunks, Empty
    <2>6. NewOne(tbl, u, s, q)
      BY <2>1, <2>3, <2>5 DEF NewOne
    <2>. QED BY <2>6 DEF u, q
  <1>. QED BY <1>3, <1>4

(* The chunk of the new block. *)
Used(c, s, q, k) ==
  [c EXCEPT !.map = IF q < ALLOCSIZE THEN c.map \union {k} ELSE c.map,
            !.size = IF q < ALLOCSIZE THEN 0 ELSE RoundUp(s, ALLOCSIZE)]
Taken(u, s, q) == [u.tbl EXCEPT ![u.j] = Used(u.tbl[u.j], s, q, u.k)]
Address(u, q) == IF q < ALLOCSIZE THEN u.tbl[u.j].ptr + u.k * q ELSE u.tbl[u.j].ptr

LEMMA UsedIs ==
  ASSUME NEW c \in Chunks, NEW s \in Sizes, c.quantum = Quantum(s), NEW k \in 0..(Units - 1)
  PROVE  LET d == Used(c, s, Quantum(s), k)
         IN /\ d \in Chunks /\ d.quantum = c.quantum /\ d.ptr = c.ptr
            /\ Small(d) <=> Small(c)
            /\ \A n : Unit(d, n) = Unit(c, n)
            /\ Small(c) => d.map = c.map \union {k} /\ d.size = 0 /\ Extent(d) = Extent(c) /\ End(d) = End(c)
            /\ ~Small(c) => d.map = c.map /\ Extent(d) = RoundUp(s, ALLOCSIZE) /\ d.size = RoundUp(s, ALLOCSIZE)
                            /\ End(d) = c.ptr + RoundUp(s, ALLOCSIZE)
            /\ In(d, Block(IF Small(c) THEN Unit(c, k) ELSE c.ptr, s))
  <1>. DEFINE q == Quantum(s)
              d == Used(c, s, q, k)
              top == RoundUp(s, ALLOCSIZE)
  <1>1. /\ c \in [quantum : Powers, ptr : Nat, map : SUBSET (0..(Units - 1)), size : Nat]
        /\ c.quantum >= ALLOCSIZE => c.map = {}
        /\ c.ptr >= 2 * ALLOCSIZE /\ c.ptr % PAGESIZE = 0
    BY DEF Chunks
  <1>2. q \in Nat \ {0} /\ q >= s /\ c.quantum = q /\ s \in Nat \ {0}
    BY QuantumIs, PowersAre, WidthAssumption
  <1>. HIDE DEF q
  <1>3. ALLOCSIZE \in Nat \ {0} /\ PAGESIZE \in Nat \ {0} /\ ALLOCSIZE % PAGESIZE = 0
    BY WidthsAre
  <1>4. top \in Nat /\ top >= s /\ top % ALLOCSIZE = 0
    BY <1>2, <1>3, RoundUpIs
  <1>5. top % PAGESIZE = 0
    BY <1>3, <1>4, MultipleOfMultiple
  <1>6. 0 % PAGESIZE = 0
    BY <1>3
  <1>. HIDE DEF top
  <1>7. /\ d.quantum = c.quantum /\ d.ptr = c.ptr
        /\ d.map = IF q < ALLOCSIZE THEN c.map \union {k} ELSE c.map
        /\ d.size = IF q < ALLOCSIZE THEN 0 ELSE top
        /\ d \in [quantum : Powers, ptr : Nat, map : SUBSET (0..(Units - 1)), size : Nat]
    BY <1>1, <1>4 DEF Used, top
  <1>. HIDE DEF d
  <1>8. d \in Chunks
    BY <1>1, <1>2, <1>3, <1>5, <1>6, <1>7 DEF Chunks
  <1>9. /\ Small(d) <=> Small(c)
        /\ \A n : Unit(d, n) = Unit(c, n)
        /\ Small(c) => d.map = c.map \union {k} /\ d.size = 0 /\ Extent(d) = Extent(c) /\ End(d) = End(c)
        /\ ~Small(c) => d.map = c.map /\ Extent(d) = top /\ d.size = top /\ End(d) = c.ptr + top
    BY <1>2, <1>7 DEF Small, Unit, Extent, End
  <1>10. In(d, Block(IF Small(c) THEN Unit(c, k) ELSE c.ptr, s))
    <2>1. CASE Small(c)
      <3>1. k \in d.map /\ Unit(d, k) = Unit(c, k) /\ s <= d.quantum /\ Small(d)
        BY <1>2, <1>7, <1>9, <2>1
      <3>. QED BY <2>1, <3>1 DEF In, Block
    <2>2. CASE ~Small(c)
      <3>1. d.ptr = c.ptr /\ s <= d.size /\ ~Small(d)
        BY <1>2, <1>4, <1>7, <1>9, <2>2
      <3>. QED BY <2>2, <3>1 DEF In, Block
    <2>. QED BY <2>1, <2>2
  <1>. QED BY <1>7, <1>8, <1>9, <1>10 DEF d, top, q

(* The table of chunks with the new block's: t. *)
With(tbl, u, s, t) ==
  /\ u.tbl \in Seq(Chunks) /\ t \in Seq(Chunks)
  /\ DOMAIN t = DOMAIN tbl \union {u.j}
  /\ DOMAIN u.tbl = DOMAIN tbl \union {u.j}
  /\ \A i \in DOMAIN tbl : u.tbl[i] = tbl[i]
  /\ \A i \in DOMAIN tbl : i # u.j => t[i] = tbl[i]
  /\ u.tbl[u.j] \in Chunks /\ u.tbl[u.j].quantum = Quantum(s) /\ u.k \in 0..(Units - 1)
  /\ t[u.j] = Used(u.tbl[u.j], s, Quantum(s), u.k)
  /\ u.fresh => /\ u.j \notin DOMAIN tbl
                /\ u.tbl[u.j].map = {} /\ u.tbl[u.j].size = 0 /\ u.k = 0
                /\ Behind(tbl, u.tbl[u.j].ptr) \/ InFront(tbl, s, u.tbl[u.j].ptr)
  /\ ~u.fresh => /\ u.j \in DOMAIN tbl /\ Small(tbl[u.j])
                 /\ u.k \notin tbl[u.j].map /\ u.tbl = tbl

LEMMA TakenIs ==
  ASSUME NEW tbl \in Seq(Chunks), NEW s \in Sizes, NEW u,
         Reused(tbl, u, Quantum(s)) \/ NewOne(tbl, u, s, Quantum(s))
  PROVE  With(tbl, u, s, Taken(u, s, Quantum(s)))
  <1>. DEFINE q == Quantum(s)
              t == Taken(u, s, q)
              c == u.tbl[u.j]
  <1>1. DOMAIN tbl = 1..Len(tbl) /\ Len(tbl) \in Nat
    OBVIOUS
  <1>2. /\ u.tbl \in Seq(Chunks) /\ DOMAIN u.tbl = DOMAIN tbl \union {u.j}
        /\ \A i \in DOMAIN tbl : u.tbl[i] = tbl[i]
        /\ c \in Chunks /\ c.quantum = q /\ u.k \in 0..(Units - 1)
        /\ u.fresh => /\ u.j \notin DOMAIN tbl
                      /\ c.map = {} /\ c.size = 0 /\ u.k = 0
                      /\ Behind(tbl, c.ptr) \/ InFront(tbl, s, c.ptr)
        /\ ~u.fresh => /\ u.j \in DOMAIN tbl /\ Small(tbl[u.j])
                       /\ u.k \notin tbl[u.j].map /\ u.tbl = tbl
    <2>1. CASE Reused(tbl, u, q)
      <3>1. ~u.fresh /\ u.tbl = tbl /\ u.j \in DOMAIN tbl
            /\ u.k \in 0..(Units - 1) /\ u.k \notin tbl[u.j].map
        BY <2>1 DEF Reused
      <3>2. tbl[u.j] \in Chunks /\ tbl[u.j].quantum = q /\ Small(tbl[u.j])
        <4>. HIDE DEF q
        <4>. QED BY <2>1, <3>1 DEF Reused, Small
      <3>3. c = tbl[u.j]
        BY <3>1
      <3>. HIDE DEF q, c
      <3>. QED BY <3>1, <3>2, <3>3
    <2>2. CASE NewOne(tbl, u, s, q)
      <3>1. PICK p \in Nat : /\ u.tbl = Append(tbl, Empty(q, p)) /\ Empty(q, p) \in Chunks
                             /\ Behind(tbl, p) \/ InFront(tbl, s, p)
        BY <2>2 DEF NewOne
      <3>2. u.fresh /\ u.j = Len(tbl) + 1 /\ u.k = 0
        BY <2>2 DEF NewOne
      <3>3. /\ Append(tbl, Empty(q, p)) \in Seq(Chunks)
            /\ Len(Append(tbl, Empty(q, p))) = Len(tbl) + 1
            /\ \A i \in 1..Len(tbl) : Append(tbl, Empty(q, p))[i] = tbl[i]
            /\ Append(tbl, Empty(q, p))[Len(tbl) + 1] = Empty(q, p)
        BY <3>1, AppendProperties
      <3>4. Empty(q, p).map = {} /\ Empty(q, p).size = 0 /\ Empty(q, p).quantum = q /\ Empty(q, p).ptr = p
        BY DEF Empty
      <3>5. u.tbl \in Seq(Chunks) /\ c = Empty(q, p) /\ c \in Chunks
            /\ \A i \in DOMAIN tbl : u.tbl[i] = tbl[i]
        BY <1>1, <3>1, <3>2, <3>3
      <3>6. DOMAIN u.tbl = 1..(Len(tbl) + 1)
        BY <3>1, <3>3
      <3>7. DOMAIN u.tbl = DOMAIN tbl \union {u.j} /\ u.j \notin DOMAIN tbl /\ 0 \in 0..(Units - 1)
        BY <1>1, <3>2, <3>6, WidthsAre
      <3>. HIDE DEF q, c
      <3>. QED BY <3>1, <3>2, <3>4, <3>5, <3>7
    <2>. QED BY <2>1, <2>2
  <1>3. Used(c, s, q, u.k) \in Chunks
    BY <1>2, UsedIs
  <1>4. /\ t \in Seq(Chunks) /\ DOMAIN t = DOMAIN u.tbl
        /\ \A i \in DOMAIN u.tbl : t[i] = IF i = u.j THEN Used(c, s, q, u.k) ELSE u.tbl[i]
    <2>. HIDE DEF c, q
    <2>1. t = [u.tbl EXCEPT ![u.j] = Used(c, s, q, u.k)]
      BY DEF Taken, c
    <2>. HIDE DEF t
    <2>. QED BY <1>2, <1>3, <2>1
  <1>5. t[u.j] = Used(c, s, q, u.k) /\ \A i \in DOMAIN tbl : i # u.j => t[i] = tbl[i]
    BY <1>2, <1>4
  <1>6. DOMAIN t = DOMAIN tbl \union {u.j}
    <2>. HIDE DEF t, c, q
    <2>. QED BY <1>2, <1>4
  <1>. HIDE DEF t
  <1>. QED BY <1>2, <1>4, <1>5, <1>6 DEF t, With

(* There is room in front of the first chunk for what is put there. *)
Room(tbl, s) ==
  Quantum(s) < ALLOCSIZE /\ InFront(tbl, s, 2 * ALLOCSIZE) =>
     \A j \in DOMAIN tbl : 2 * ALLOCSIZE + chunksize(Quantum(s)) <= tbl[j].ptr

LEMMA FreshApart ==
  ASSUME NEW tbl \in Seq(Chunks), NEW p \in Nat, NEW e \in Nat, p <= e,
         Behind(tbl, p) \/ \A j \in DOMAIN tbl : e <= tbl[j].ptr
  PROVE  \A i \in DOMAIN tbl : Apart(tbl[i].ptr, End(tbl[i]), p, e) /\ Apart(p, e, tbl[i].ptr, End(tbl[i]))
  BY DEF Behind, Apart

(* The end of a new chunk: as it is before and after the block is taken. *)
LEMMA FreshRoom ==
  ASSUME NEW tbl \in Seq(Chunks), NEW s \in Sizes, Room(tbl, s),
         NEW c \in Chunks, c.quantum = Quantum(s),
         Behind(tbl, c.ptr) \/ InFront(tbl, s, c.ptr),
         ~Small(c) => c.size <= RoundUp(s, ALLOCSIZE)
  PROVE  Behind(tbl, c.ptr) \/ \A j \in DOMAIN tbl : End(c) <= tbl[j].ptr
  <1>1. SUFFICES ASSUME InFront(tbl, s, c.ptr), NEW j \in DOMAIN tbl PROVE End(c) <= tbl[j].ptr
    OBVIOUS
  <1>2. c.ptr \in Nat /\ c.size \in Nat /\ tbl[j].ptr \in Nat /\ c.quantum \in Nat
    BY ChunkIs
  <1>3. c.ptr = 2 * ALLOCSIZE /\ c.ptr + RoundUp(s, ALLOCSIZE) < tbl[j].ptr
    BY <1>1 DEF InFront
  <1>4. CASE Small(c)
    <2>1. Quantum(s) < ALLOCSIZE
      BY <1>4 DEF Small
    <2>2. 2 * ALLOCSIZE + chunksize(c.quantum) <= tbl[j].ptr
      BY <1>1, <1>3, <2>1 DEF Room
    <2>3. End(c) = c.ptr + chunksize(c.quantum)
      BY <1>4 DEF End, Extent, Small
    <2>. QED BY <1>3, <2>2, <2>3
  <1>5. CASE ~Small(c)
    <2>1. End(c) = c.ptr + c.size
      BY <1>5 DEF End, Extent, Small
    <2>2. RoundUp(s, ALLOCSIZE) \in Nat
      BY WidthAssumption, WidthsAre, RoundUpIs
    <2>. QED BY <1>2, <1>3, <1>5, <2>1, <2>2
  <1>. QED BY <1>4, <1>5

LEMMA GoodSubset ==
  ASSUME NEW tbl, NEW L, Good(tbl, L), NEW K \in SUBSET L
  PROVE  Good(tbl, K)
  BY DEF Good, Typed, OneEach, Held

(* The new block has a unit or a chunk nobody has. *)
LEMMA TakenGood ==
  ASSUME NEW tbl, NEW L, Good(tbl, L), NEW s \in Sizes, Room(tbl, s), NEW u,
         Reused(tbl, u, Quantum(s)) \/ NewOne(tbl, u, s, Quantum(s))
  PROVE  LET t == Taken(u, s, Quantum(s))
             new == Block(Address(u, Quantum(s)), s)
         IN /\ Good(t, L \union {new}) /\ In(t[u.j], new)
            /\ new \in Blocks /\ \A b \in L : b.ptr # new.ptr
  <1>. DEFINE q == Quantum(s)
              t == Taken(u, s, q)
              c == u.tbl[u.j]
              d == Used(c, s, q, u.k)
              new == Block(Address(u, q), s)
  <1>1. tbl \in Seq(Chunks) /\ L \in SUBSET Blocks /\ Disjoint(tbl) /\ OneEach(L) /\ Held(tbl, L)
    BY DEF Good, Typed
  <1>2. /\ u.tbl \in Seq(Chunks) /\ t \in Seq(Chunks)
        /\ DOMAIN t = DOMAIN tbl \union {u.j}
        /\ \A i \in DOMAIN tbl : i # u.j => t[i] = tbl[i]
        /\ \A i \in DOMAIN tbl : u.tbl[i] = tbl[i]
        /\ c \in Chunks /\ c.quantum = q /\ u.k \in 0..(Units - 1) /\ t[u.j] = d
        /\ u.fresh => u.j \notin DOMAIN tbl /\ (Behind(tbl, c.ptr) \/ InFront(tbl, s, c.ptr))
        /\ ~u.fresh => u.j \in DOMAIN tbl /\ Small(tbl[u.j]) /\ u.k \notin tbl[u.j].map
    <2>1. With(tbl, u, s, t)
      BY <1>1, TakenIs
    <2>. HIDE DEF t
    <2>. QED BY <2>1 DEF With
  <1>. HIDE DEF t, c, q
  <1>3. /\ d \in Chunks /\ d.quantum = c.quantum /\ d.ptr = c.ptr
        /\ Small(d) <=> Small(c)
        /\ \A n : Unit(d, n) = Unit(c, n)
        /\ Small(c) => d.map = c.map \union {u.k} /\ End(d) = End(c)
        /\ ~Small(c) => d.size = RoundUp(s, ALLOCSIZE)
        /\ In(d, Block(IF Small(c) THEN Unit(c, u.k) ELSE c.ptr, s))
    BY <1>2, UsedIs DEF q
  <1>. HIDE DEF d
  <1>4. Address(u, q) = (IF Small(c) THEN Unit(c, u.k) ELSE c.ptr)
    BY <1>2 DEF Address, Small, Unit, c
  <1>5. In(d, new) /\ new.ptr = Address(u, q) /\ new.size = s
    BY <1>3, <1>4 DEF Block
  <1>6. new.ptr \in Nat /\ new \in Blocks
    <2>1. c.ptr \in Nat /\ (Small(c) => Unit(c, u.k) \in Nat)
      BY <1>2, ChunkIs, UnitIn
    <2>. QED BY <1>4, <2>1 DEF Blocks, Block
  <1>. HIDE DEF new
  <1>7. Disjoint(t)
    <2>1. CASE u.fresh
      <3>1. RoundUp(s, ALLOCSIZE) \in Nat
        BY WidthAssumption, WidthsAre, RoundUpIs
      <3>2. Behind(tbl, d.ptr) \/ \A j \in DOMAIN tbl : End(d) <= tbl[j].ptr
        BY <1>1, <1>2, <1>3, <2>1, <3>1, FreshRoom DEF q
      <3>3. d.ptr \in Nat /\ End(d) \in Nat /\ d.ptr <= End(d)
        BY <1>3, ChunkIs
      <3>4. \A i \in DOMAIN tbl : /\ Apart(tbl[i].ptr, End(tbl[i]), d.ptr, End(d))
                                  /\ Apart(d.ptr, End(d), tbl[i].ptr, End(tbl[i]))
        BY <1>1, <3>2, <3>3, FreshApart
      <3>. QED BY <1>1, <1>2, <2>1, <3>4 DEF Disjoint
    <2>2. CASE ~u.fresh
      <3>1. u.j \in DOMAIN tbl /\ c = tbl[u.j] /\ Small(c)
        BY <1>2, <2>2 DEF c
      <3>2. \A i \in DOMAIN t : i \in DOMAIN tbl /\ t[i].ptr = tbl[i].ptr /\ End(t[i]) = End(tbl[i])
        BY <1>2, <1>3, <3>1
      <3>. QED BY <1>1, <3>2 DEF Disjoint
    <2>. QED BY <2>1, <2>2
  <1>8. \A b \in L : \E i \in DOMAIN t : In(t[i], b)
    <2>. TAKE b \in L
    <2>1. PICK i \in DOMAIN tbl : In(tbl[i], b)
      BY <1>1 DEF Held
    <2>2. CASE i # u.j
      BY <1>2, <2>1, <2>2
    <2>3. CASE i = u.j
      <3>1. c = tbl[u.j] /\ Small(c) /\ Small(d)
        BY <1>2, <1>3, <2>3 DEF c
      <3>2. PICK k \in c.map : b.ptr = Unit(c, k) /\ b.size <= c.quantum
        BY <2>1, <2>3, <3>1 DEF In
      <3>3. k \in d.map /\ b.ptr = Unit(d, k) /\ b.size <= d.quantum
        BY <1>3, <3>1, <3>2
      <3>4. In(t[u.j], b)
        BY <1>2, <3>1, <3>3 DEF In
      <3>. QED BY <1>2, <3>4
    <2>. QED BY <2>2, <2>3
  <1>9. ASSUME NEW b \in L PROVE b.ptr # new.ptr
    <2>1. PICK i \in DOMAIN tbl : In(tbl[i], b)
      BY <1>1 DEF Held
    <2>2. b \in Blocks /\ tbl[i] \in Chunks /\ b.ptr \in Nat
      BY <1>1, BlockIs
    <2>3. tbl[i].ptr <= b.ptr /\ b.ptr < End(tbl[i])
      BY <2>1, <2>2, InIs
    <2>4. d.ptr <= new.ptr /\ new.ptr < End(d)
      BY <1>3, <1>5, <1>6, InIs
    <2>5. CASE i # u.j
      <3>1. t[i] = tbl[i] /\ t[u.j] = d /\ i \in DOMAIN t /\ u.j \in DOMAIN t
        BY <1>2, <2>5
      <3>2. b.ptr = new.ptr => i = u.j
        BY <1>2, <1>6, <1>7, <2>3, <2>4, <3>1, OneChunk
      <3>. QED BY <2>5, <3>2
    <2>6. CASE i = u.j
      <3>1. c = tbl[u.j] /\ Small(c) /\ u.k \notin c.map
        BY <1>2, <2>6 DEF c
      <3>2. PICK k \in c.map : b.ptr = Unit(c, k)
        BY <2>1, <2>6, <3>1 DEF In
      <3>3. k \in 0..(Units - 1) /\ k # u.k
        BY <1>2, <3>1, <3>2, ChunkIs
      <3>4. new.ptr = Unit(c, u.k)
        BY <1>4, <1>5, <3>1
      <3>5. Unit(c, k) # Unit(c, u.k)
        BY <1>2, <3>1, <3>3, UnitIn
      <3>. QED BY <3>2, <3>4, <3>5
    <2>. QED BY <2>5, <2>6
  <1>10. Typed(t, L \union {new})
    BY <1>1, <1>2, <1>6 DEF Typed
  <1>11. OneEach(L \union {new})
    BY <1>1, <1>9 DEF OneEach
  <1>12. Held(t, L \union {new})
    BY <1>2, <1>5, <1>8 DEF Held
  <1>. QED BY <1>2, <1>5, <1>6, <1>7, <1>9, <1>10, <1>11, <1>12 DEF Good, t, q, new

-----------------------------------------------------------------------------
(* The calls *)

Asked(align, s) == WithUnit(chunk, s, Quantum(s), Max({align, Quantum(s)}))
FirstMap == IF numallocmaps = 0 THEN Pages(ALLOCSIZE, PAGESIZE) ELSE {}
Backing(u, s, q, flag) ==
  IF flag = "sparse" THEN {}
  ELSE IF q < PAGESIZE
  THEN IF u.fresh THEN Pages(u.tbl[u.j].ptr, chunksize(q)) ELSE {}
  ELSE Pages(Address(u, q), IF q < ALLOCSIZE THEN q ELSE RoundUp(s, ALLOCSIZE))
OldChunks(old) == UNION {Owners(chunk, b.ptr) : b \in old}
Return(u, s, q, old) ==
  Release(Taken(u, s, q), Max(OldChunks(old)), (CHOOSE b \in old : TRUE).ptr, UintBits)

(* What a call to allocate does: it fails, keeps the block where it is,    *)
(* or takes a unit and gives the old one back.                             *)
Refused == chunk' = chunk /\ live' = live /\ mapped' = mapped
Full == chunk' = chunk /\ live' = live /\ mapped' = mapped \union FirstMap
Kept(u, s, q, old) ==
  /\ q < ALLOCSIZE /\ ~u.fresh /\ u.j \in OldChunks(old)
  /\ chunk' = chunk /\ mapped' = mapped
  /\ live' = (live \ old) \union {Block(b.ptr, s) : b \in old}
Unbacked(u, s, q) ==
  /\ chunk' = u.tbl \/ chunk' = Taken(u, s, q)
  /\ mapped' = mapped \union FirstMap /\ live' = live
Done(u, s, q, flag, old) ==
  /\ ~(q < ALLOCSIZE /\ ~u.fresh /\ u.j \in OldChunks(old))
  /\ live' = (live \ old) \union {Block(Address(u, q), s)}
  /\ OldChunks(old) = {} =>
        chunk' = Taken(u, s, q) /\ mapped' = mapped \union FirstMap \union Backing(u, s, q, flag)
  /\ OldChunks(old) # {} =>
        /\ chunk' = Return(u, s, q, old).tbl
        /\ mapped' = (mapped \union FirstMap \union Backing(u, s, q, flag))
                     \ Return(u, s, q, old).unmap

LEMMA AllocIs ==
  ASSUME NEW align, NEW old, NEW s, NEW flag, NEW oom \in {"none", "allocmap", "memory"},
         bzt_alloc(align, old, s, flag, oom)
  PROVE  LET u == Asked(align, s)
             q == Quantum(s)
         IN /\ failed' = IF oom = "none" THEN failed ELSE failed + 1
            /\ numallocmaps' = IF oom = "allocmap" THEN 0 ELSE 1
            /\ oom = "allocmap" => numallocmaps = 0
            /\ \/ Refused /\ oom = "allocmap"
               \/ Kept(u, s, q, old) /\ oom # "allocmap"
               \/ Full /\ Len(u.tbl) > MAXCHUNKS /\ oom # "allocmap"
               \/ Unbacked(u, s, q) /\ oom = "memory"
               \/ Done(u, s, q, flag, old) /\ oom = "none"
  <1>. DEFINE q == Quantum(s)
              u == Asked(align, s)
              t == Taken(u, s, q)
              ocm == OldChunks(old)
              r == Return(u, s, q, old)
              keeps == q < ALLOCSIZE /\ ~u.fresh /\ u.j \in ocm
              back == Backing(u, s, q, flag)
  <1>1. /\ oom = "allocmap" => numallocmaps = 0
        /\ oom = "memory" => back # {} /\ ~keeps /\ Len(u.tbl) <= MAXCHUNKS
        /\ failed' = IF oom = "none" THEN failed ELSE failed + 1
        /\ numallocmaps' = IF oom = "allocmap" THEN 0 ELSE 1
    BY DEF bzt_alloc, Asked, Backing, Address, OldChunks
  <1>2. CASE oom = "allocmap"
    BY <1>1, <1>2 DEF bzt_alloc, Refused
  <1>3. CASE oom # "allocmap" /\ keeps
    BY <1>1, <1>3 DEF bzt_alloc, Asked, OldChunks, Kept
  <1>4. CASE oom # "allocmap" /\ ~keeps /\ Len(u.tbl) > MAXCHUNKS
    BY <1>1, <1>4 DEF bzt_alloc, Asked, OldChunks, Full, FirstMap
  <1>5. CASE oom = "memory" /\ ~keeps /\ ~(Len(u.tbl) > MAXCHUNKS)
    BY <1>1, <1>5 DEF bzt_alloc, Asked, OldChunks, Unbacked, FirstMap, Taken, Used
  <1>6. CASE oom = "none" /\ ~keeps /\ ~(Len(u.tbl) > MAXCHUNKS)
    BY <1>1, <1>6 DEF bzt_alloc, Asked, OldChunks, Done, FirstMap, Taken, Used, Address, Backing, Return
  <1>. QED BY <1>2, <1>3, <1>4, <1>5, <1>6

LEMMA AskedIs ==
  ASSUME NEW align \in Powers, NEW s \in Sizes, chunk \in Seq(Chunks)
  PROVE  \/ Reused(chunk, Asked(align, s), Quantum(s))
         \/ NewOne(chunk, Asked(align, s), s, Quantum(s))
  <1>. DEFINE q == Quantum(s)
              a == Max({align, q})
  <1>1. q \in Powers /\ q \in Nat /\ align \in Nat
    BY QuantumIs, PowersAre
  <1>. HIDE DEF q
  <1>2. a \in {align, q} /\ \A y \in {align, q} : y <= a
    <2>1. {align, q} \in SUBSET Nat /\ {align, q} # {} /\ align + q \in Nat
          /\ \A x \in {align, q} : x <= align + q
      BY <1>1
    <2>. QED BY <2>1, MaxIs
  <1>. HIDE DEF a
  <1>3. a \in Powers /\ q <= a
    BY <1>1, <1>2
  <1>4. \/ Reused(chunk, WithUnit(chunk, s, q, a), q)
        \/ NewOne(chunk, WithUnit(chunk, s, q, a), s, q)
    BY <1>3, UnitIs DEF q
  <1>. QED BY <1>4 DEF Asked, a, q

LEMMA OldIs ==
  ASSUME NEW L, Good(chunk, L), NEW b \in L
  PROVE  \E j \in DOMAIN chunk :
            In(chunk[j], b) /\ OldChunks({b}) = {j} /\ Owners(chunk, b.ptr) = {j}
  <1>1. PICK j \in DOMAIN chunk : In(chunk[j], b)
    BY DEF Good, Held
  <1>2. Owners(chunk, b.ptr) = {j}
    BY <1>1, OwnerIs
  <1>3. OldChunks({b}) = Owners(chunk, b.ptr)
    BY DEF OldChunks
  <1>. QED BY <1>1, <1>2, <1>3

(* The one of a set that has one. *)
LEMMA TheOne ==
  ASSUME NEW x
  PROVE  (CHOOSE y \in {x} : TRUE) = x
  OBVIOUS

LEMMA OneIs ==
  ASSUME NEW j \in Nat
  PROVE  Max({j}) = j /\ Min({j}) = j
  <1>1. {j} \in SUBSET Nat /\ {j} # {} /\ \A x \in {j} : x <= j
    OBVIOUS
  <1>2. Max({j}) \in {j}
    BY <1>1, MaxIs
  <1>3. Min({j}) \in {j}
    BY <1>1, MinIs
  <1>. QED BY <1>2, <1>3

LEMMA KeptGood ==
  ASSUME NEW tbl, NEW L, Good(tbl, L), NEW b \in L, NEW j \in DOMAIN tbl, In(tbl[j], b),
         Small(tbl[j]), NEW s \in Sizes, s <= tbl[j].quantum
  PROVE  Good(tbl, (L \ {b}) \union {Block(b.ptr, s)})
  <1>. DEFINE new == Block(b.ptr, s)
              K == (L \ {b}) \union {new}
  <1>1. tbl \in Seq(Chunks) /\ L \in SUBSET Blocks /\ OneEach(L) /\ Held(tbl, L) /\ Disjoint(tbl)
    BY DEF Good, Typed
  <1>2. new.ptr = b.ptr /\ new.size = s /\ new \in Blocks
    BY <1>1 DEF Block, Blocks
  <1>3. In(tbl[j], new)
    BY <1>2 DEF In
  <1>. HIDE DEF new
  <1>4. OneEach(K)
    BY <1>1, <1>2 DEF OneEach
  <1>5. Held(tbl, K)
    BY <1>1, <1>3 DEF Held
  <1>6. Typed(tbl, K)
    BY <1>1, <1>2 DEF Typed
  <1>. QED BY <1>1, <1>4, <1>5, <1>6 DEF Good, new

(* A chunk whose memory could not be mapped. *)
LEMMA FreshGood ==
  ASSUME NEW tbl, NEW L, Good(tbl, L), NEW s \in Sizes, Room(tbl, s), NEW u,
         Reused(tbl, u, Quantum(s)) \/ NewOne(tbl, u, s, Quantum(s))
  PROVE  Good(u.tbl, L)
  <1>. DEFINE t == Taken(u, s, Quantum(s))
              c == u.tbl[u.j]
  <1>1. tbl \in Seq(Chunks) /\ L \in SUBSET Blocks /\ Disjoint(tbl) /\ OneEach(L) /\ Held(tbl, L)
    BY DEF Good, Typed
  <1>2. With(tbl, u, s, t)
    BY <1>1, TakenIs
  <1>. HIDE DEF t
  <1>3. /\ u.tbl \in Seq(Chunks) /\ DOMAIN u.tbl = DOMAIN tbl \union {u.j}
        /\ \A i \in DOMAIN tbl : u.tbl[i] = tbl[i]
        /\ c \in Chunks /\ c.quantum = Quantum(s)
        /\ u.fresh => /\ u.j \notin DOMAIN tbl /\ c.size = 0
                      /\ Behind(tbl, c.ptr) \/ InFront(tbl, s, c.ptr)
        /\ ~u.fresh => u.tbl = tbl
    BY <1>2 DEF With
  <1>. HIDE DEF c
  <1>4. CASE u.fresh
    <2>1. 0 <= RoundUp(s, ALLOCSIZE)
      BY WidthAssumption, WidthsAre, RoundUpIs
    <2>2. Behind(tbl, c.ptr) \/ \A j \in DOMAIN tbl : End(c) <= tbl[j].ptr
      BY <1>1, <1>3, <1>4, <2>1, FreshRoom
    <2>3. c.ptr \in Nat /\ End(c) \in Nat /\ c.ptr <= End(c)
      BY <1>3, ChunkIs
    <2>4. \A i \in DOMAIN tbl : /\ Apart(tbl[i].ptr, End(tbl[i]), c.ptr, End(c))
                                /\ Apart(c.ptr, End(c), tbl[i].ptr, End(tbl[i]))
      BY <1>1, <2>2, <2>3, FreshApart
    <2>5. Disjoint(u.tbl)
      BY <1>1, <1>3, <1>4, <2>4 DEF Disjoint, c
    <2>6. Held(u.tbl, L)
      BY <1>1, <1>3 DEF Held
    <2>. QED BY <1>1, <1>3, <2>5, <2>6 DEF Good, Typed
  <1>5. CASE ~u.fresh
    BY <1>3, <1>5
  <1>. QED BY <1>4, <1>5

(* The hypotheses: a chunk is put in front of the first one only where it  *)
(* fits, and the words of a bitmap sum to zero just if no unit is used.    *)
FrontRoom == \A s \in Sizes : Room(chunk, s)
Counted == \A j \in DOMAIN chunk, bits \in {UintBits, WordBits} : Sums(chunk[j], bits)

(* The right allocmap after a block was reallocated. *)
LEMMA ReturnGood ==
  ASSUME NEW b \in live, Good(chunk, live), Counted, NEW s \in Sizes, Room(chunk, s), NEW u,
         Reused(chunk, u, Quantum(s)) \/ NewOne(chunk, u, s, Quantum(s)),
         ~(Quantum(s) < ALLOCSIZE /\ ~u.fresh /\ u.j \in OldChunks({b}))
  PROVE  LET t == Taken(u, s, Quantum(s))
             new == Block(Address(u, Quantum(s)), s)
         IN \E j \in DOMAIN chunk :
               /\ j # u.j /\ In(chunk[j], b) /\ j \in DOMAIN t /\ t[j] = chunk[j]
               /\ OldChunks({b}) = {j}
               /\ Return(u, s, Quantum(s), {b}) = Release(t, j, b.ptr, UintBits)
               /\ Sums(t[j], UintBits)
               /\ b \in live \union {new} /\ (live \union {new}) \ {b} = (live \ {b}) \union {new}
               /\ Good(t, live \union {new})
               /\ Good(Release(t, j, b.ptr, UintBits).tbl, (live \ {b}) \union {new})
  <1>. DEFINE q == Quantum(s)
              t == Taken(u, s, q)
              new == Block(Address(u, q), s)
  <1>1. PICK j \in DOMAIN chunk : In(chunk[j], b) /\ OldChunks({b}) = {j}
    BY OldIs
  <1>2. chunk \in Seq(Chunks) /\ j \in Nat
    BY DEF Good, Typed
  <1>3. With(chunk, u, s, t)
    BY <1>2, TakenIs
  <1>4. Good(t, live \union {new}) /\ \A d \in live : d.ptr # new.ptr
    BY TakenGood
  <1>. HIDE DEF t, new
  <1>5. j # u.j
    <2>1. SUFFICES ASSUME j = u.j PROVE FALSE
      OBVIOUS
    <2>2. ~u.fresh /\ Small(chunk[j]) /\ u.tbl[u.j].quantum = q /\ u.tbl = chunk
      BY <1>3, <2>1 DEF With
    <2>3. Quantum(s) < ALLOCSIZE
      BY <2>1, <2>2 DEF Small
    <2>. QED BY <1>1, <2>1, <2>2, <2>3
  <1>6. j \in DOMAIN t /\ t[j] = chunk[j]
    BY <1>3, <1>5 DEF With
  <1>7. Sums(t[j], UintBits)
    BY <1>6 DEF Counted
  <1>8. Return(u, s, q, {b}) = Release(t, j, b.ptr, UintBits)
    <2>1. Max(OldChunks({b})) = j
      BY <1>1, <1>2, OneIs
    <2>2. (CHOOSE y \in {b} : TRUE) = b
      BY TheOne
    <2>. QED BY <2>1, <2>2 DEF Return, t
  <1>9. b \in live \union {new} /\ (live \union {new}) \ {b} = (live \ {b}) \union {new}
    BY <1>4
  <1>10. Good(Release(t, j, b.ptr, UintBits).tbl, (live \union {new}) \ {b})
    BY <1>1, <1>4, <1>6, <1>7, <1>9, ReleaseGood
  <1>. QED BY <1>1, <1>4, <1>5, <1>6, <1>7, <1>8, <1>9, <1>10 DEF t, new

LEMMA AllocGood ==
  ASSUME Good(chunk, live), FrontRoom, Counted,
         NEW align \in Powers, NEW s \in Sizes, NEW flag, NEW oom \in {"none", "allocmap", "memory"},
         NEW old, old = {} \/ \E b \in live : old = {b},
         bzt_alloc(align, old, s, flag, oom)
  PROVE  Good(chunk', live')
  <1>. DEFINE q == Quantum(s)
              u == Asked(align, s)
              t == Taken(u, s, q)
              new == Block(Address(u, q), s)
  <1>. HIDE DEF q, u, t, new
  <1>1. chunk \in Seq(Chunks) /\ Room(chunk, s)
    BY DEF Good, Typed, FrontRoom
  <1>2. Reused(chunk, u, q) \/ NewOne(chunk, u, s, q)
    BY <1>1, AskedIs DEF u, q
  <1>3. \/ Refused
        \/ Kept(u, s, q, old)
        \/ Full
        \/ Unbacked(u, s, q)
        \/ Done(u, s, q, flag, old)
    BY AllocIs DEF u, q
  <1>4. Good(t, live \union {new})
    BY <1>1, <1>2, TakenGood DEF t, q, new
  <1>5. CASE Refused \/ Full
    BY <1>5 DEF Refused, Full
  <1>6. CASE Kept(u, s, q, old)
    <2>1. old # {}
      BY <1>6 DEF Kept, OldChunks
    <2>2. PICK b \in live : old = {b}
      BY <2>1
    <2>3. PICK j \in DOMAIN chunk : In(chunk[j], b) /\ OldChunks({b}) = {j}
      BY OldIs
    <2>4. /\ u.j = j /\ q < ALLOCSIZE /\ ~u.fresh /\ chunk' = chunk
          /\ live' = (live \ {b}) \union {Block(b.ptr, s)}
      BY <1>6, <2>2, <2>3 DEF Kept
    <2>5. chunk[j].quantum = q
      BY <1>2, <2>4 DEF Reused, NewOne
    <2>6. Small(chunk[j]) /\ s <= chunk[j].quantum
      BY <2>4, <2>5, QuantumIs DEF Small, q
    <2>7. Good(chunk, (live \ {b}) \union {Block(b.ptr, s)})
      BY <2>3, <2>6, KeptGood
    <2>. QED BY <2>4, <2>7
  <1>7. CASE Unbacked(u, s, q)
    <2>1. Good(u.tbl, live)
      BY <1>1, <1>2, FreshGood DEF q
    <2>2. Good(t, live)
      <3>1. live \in SUBSET (live \union {new})
        OBVIOUS
      <3>. QED BY <1>4, <3>1, GoodSubset
    <2>3. (chunk' = u.tbl \/ chunk' = t) /\ live' = live
      BY <1>7 DEF Unbacked, t
    <2>. QED BY <2>1, <2>2, <2>3
  <1>8. CASE Done(u, s, q, flag, old)
    <2>1. CASE old = {}
      <3>1. OldChunks(old) = {}
        BY <2>1 DEF OldChunks
      <3>2. chunk' = t /\ live' = live \union {new}
        BY <1>8, <2>1, <3>1 DEF Done, t, new
      <3>. QED BY <1>4, <3>2
    <2>2. ASSUME NEW b \in live, old = {b} PROVE Good(chunk', live')
      <3>1. ~(q < ALLOCSIZE /\ ~u.fresh /\ u.j \in OldChunks({b}))
        BY <1>8, <2>2 DEF Done
      <3>2. \E j \in DOMAIN chunk :
               /\ OldChunks({b}) = {j}
               /\ Return(u, s, q, {b}) = Release(t, j, b.ptr, UintBits)
               /\ Good(Release(t, j, b.ptr, UintBits).tbl, (live \ {b}) \union {new})
        BY <1>1, <1>2, <3>1, ReturnGood DEF t, q, new
      <3>3. /\ live' = (live \ {b}) \union {new}
            /\ OldChunks({b}) # {} => chunk' = Return(u, s, q, {b}).tbl
        BY <1>8, <2>2 DEF Done, new
      <3>. QED BY <3>2, <3>3
    <2>. QED BY <2>1, <2>2
  <1>. QED BY <1>3, <1>5, <1>6, <1>7, <1>8

LEMMA FreeGood ==
  ASSUME Good(chunk, live), Counted, NEW b \in live, bzt_free(b)
  PROVE  Good(chunk', live')
  <1>1. PICK j \in DOMAIN chunk : In(chunk[j], b) /\ Owners(chunk, b.ptr) = {j}
    BY OldIs
  <1>2. j \in Nat
    BY DEF Good, Typed
  <1>3. Min(Owners(chunk, b.ptr)) = j /\ Owners(chunk, b.ptr) # {}
    BY <1>1, <1>2, OneIs
  <1>4. chunk' = Release(chunk, j, b.ptr, WordBits).tbl /\ live' = live \ {b}
    BY <1>3 DEF bzt_free
  <1>5. Sums(chunk[j], WordBits)
    BY DEF Counted
  <1>. QED BY <1>1, <1>4, <1>5, ReleaseGood

-----------------------------------------------------------------------------
(* No memory is given to the program twice *)

LEMMA CallIs ==
  ASSUME HeapNext
  PROVE  \/ \E align \in Powers, s \in Sizes, flag \in Flags \union {"private"},
               oom \in {"none", "allocmap", "memory"}, old \in {{}} \union {{b} : b \in live} :
               /\ bzt_alloc(align, old, s, flag, oom)
               /\ calls' = calls + 1
         \/ \E b \in live : bzt_free(b) /\ calls' = calls + 1
  <1>. DEFINE Alloc == \E align \in Powers, s \in Sizes, flag \in Flags \union {"private"},
                          oom \in {"none", "allocmap", "memory"}, old \in {{}} \union {{b} : b \in live} :
                          bzt_alloc(align, old, s, flag, oom) /\ calls' = calls + 1
  <1>1. Oom \subseteq {"none", "allocmap", "memory"} /\ Aligns \subseteq Powers /\ 1 \in Powers
    BY WidthAssumption, PowersAre DEF Oom
  <1>2. CASE malloc
    <2>1. PICK s \in Sizes, a \in Aligns, f \in Flags, o \in Oom : bzt_alloc(a, {}, s, f, o)
      BY <1>2 DEF malloc
    <2>2. a \in Powers /\ f \in Flags \union {"private"} /\ o \in {"none", "allocmap", "memory"}
          /\ {} \in {{}} \union {{b} : b \in live} /\ calls' = calls + 1
      BY <1>1, <1>2 DEF malloc, Another
    <2>3. Alloc
      BY <2>1, <2>2
    <2>. QED BY <2>3
  <1>3. CASE realloc
    <2>1. PICK b \in live, s \in Sizes, o \in Oom : bzt_alloc(1, {b}, s, "private", o)
      BY <1>3 DEF realloc
    <2>2. o \in {"none", "allocmap", "memory"} /\ "private" \in Flags \union {"private"}
          /\ {b} \in {{}} \union {{d} : d \in live} /\ calls' = calls + 1
      BY <1>1, <1>3 DEF realloc, Another
    <2>3. Alloc
      BY <1>1, <2>1, <2>2
    <2>. QED BY <2>3
  <1>4. CASE free
    BY <1>4 DEF free, Another
  <1>. QED BY <1>2, <1>3, <1>4 DEF HeapNext

LEMMA StepGood ==
  ASSUME Good(chunk, live), FrontRoom, Counted, [HeapNext]_heapvars
  PROVE  Good(chunk', live')
  <1>1. CASE HeapNext
    <2>1. ASSUME NEW align \in Powers, NEW s \in Sizes, NEW flag,
                 NEW oom \in {"none", "allocmap", "memory"},
                 NEW old \in {{}} \union {{b} : b \in live}, bzt_alloc(align, old, s, flag, oom)
          PROVE  Good(chunk', live')
      <3>1. old = {} \/ \E b \in live : old = {b}
        OBVIOUS
      <3>. QED BY <2>1, <3>1, AllocGood
    <2>2. ASSUME NEW b \in live, bzt_free(b) PROVE Good(chunk', live')
      BY <2>2, FreeGood
    <2>. QED BY <1>1, <2>1, <2>2, CallIs
  <1>2. CASE UNCHANGED heapvars
    BY <1>2 DEF heapvars
  <1>. QED BY <1>1, <1>2

LEMMA InitGood ==
  ASSUME HeapInit
  PROVE  Good(chunk, live)
  BY DEF HeapInit, Good, Typed, Disjoint, OneEach, Held

(* The allocmap stays right: the chunks do not overlap, and every block of *)
(* the program is in one (bzt_alloc and bzt_free).                         *)
LEMMA AlwaysGood == HeapSpec /\ []FrontRoom /\ []Counted => []Good(chunk, live)
  <1>1. HeapInit => Good(chunk, live)
    BY InitGood
  <1>2. Good(chunk, live) /\ FrontRoom /\ Counted /\ [HeapNext]_heapvars => Good(chunk, live)'
    <2>. SUFFICES ASSUME Good(chunk, live), FrontRoom, Counted, [HeapNext]_heapvars
                  PROVE  Good(chunk, live)'
      OBVIOUS
    <2>1. Good(chunk', live')
      BY StepGood
    <2>. QED BY <2>1 DEF Good, Typed, Disjoint, OneEach, Held
  <1>. QED BY <1>1, <1>2, PTL DEF HeapSpec

(* No address is in two blocks of the program, whatever was freed and      *)
(* reallocated in between and whatever mapping failed (bzt_alloc).         *)
THEOREM BlocksApart == HeapSpec /\ []FrontRoom /\ []Counted => []NoOverlap
  <1>1. Good(chunk, live) => NoOverlap
    BY GoodApart DEF NoOverlap
  <1>. QED BY <1>1, AlwaysGood, PTL

(* The first hypothesis is one about the sizes: with none between a page   *)
(* and ALLOCSIZE it holds.                                                 *)
LEMMA RoomForPages ==
  ASSUME chunk \in Seq(Chunks), \A s \in Sizes : Quantum(s) <= PAGESIZE \/ Quantum(s) >= ALLOCSIZE
  PROVE  FrontRoom
  <1>. SUFFICES ASSUME NEW s \in Sizes, Quantum(s) < ALLOCSIZE, InFront(chunk, s, 2 * ALLOCSIZE),
                       NEW j \in DOMAIN chunk
                PROVE  2 * ALLOCSIZE + chunksize(Quantum(s)) <= chunk[j].ptr
    BY DEF FrontRoom, Room
  <1>. DEFINE q == Quantum(s)
              top == RoundUp(s, ALLOCSIZE)
  <1>1. q \in Nat \ {0} /\ s \in Nat \ {0} /\ Units \in Nat \ {0} /\ ALLOCSIZE \in Nat \ {0}
        /\ PAGESIZE = Units /\ chunk[j].ptr \in Nat
    <2>1. q \in Nat \ {0}
      BY QuantumIs, PowersAre
    <2>2. chunk[j].ptr \in Nat
      BY ChunkIs
    <2>. QED BY <2>1, <2>2, WidthsAre, WidthAssumption
  <1>2. q <= Units
    BY <1>1
  <1>. HIDE DEF q
  <1>3. q * Units <= Units * Units
    <2>1. CASE q = Units
      BY <1>1, <2>1
    <2>2. CASE q < Units
      BY <1>1, <2>2, MulMono
    <2>. QED BY <1>1, <1>2, <2>1, <2>2
  <1>4. chunksize(q) <= ALLOCSIZE /\ chunksize(q) \in Nat
    BY <1>1, <1>3 DEF chunksize, ALLOCSIZE
  <1>5. top \in Nat /\ top >= s /\ top % ALLOCSIZE = 0
    BY <1>1, RoundUpIs
  <1>6. top >= ALLOCSIZE
    <2>. HIDE DEF top
    <2>1. PICK m \in Nat : top = m * ALLOCSIZE
      BY <1>1, <1>5, Multiple
    <2>2. m # 0
      BY <1>1, <1>5, <2>1
    <2>3. CASE m = 1
      BY <1>1, <2>1, <2>3
    <2>4. CASE 1 < m
      <3>1. 1 * ALLOCSIZE + ALLOCSIZE <= m * ALLOCSIZE
        BY <1>1, <2>4, MulMono
      <3>. QED BY <1>1, <1>5, <2>1, <3>1
    <2>. QED BY <2>2, <2>3, <2>4
  <1>7. 2 * ALLOCSIZE + top < chunk[j].ptr
    BY DEF InFront
  <1>. HIDE DEF top
  <1>. QED BY <1>1, <1>4, <1>5, <1>6, <1>7 DEF q

-----------------------------------------------------------------------------
(* Pages *)

LEMMA DivIs ==
  ASSUME NEW x \in Nat, NEW q \in Nat \ {0}
  PROVE  x \div q \in Nat /\ (x \div q) * q <= x /\ x < (x \div q) * q + q
  <1>1. x = q * (x \div q) + (x % q) /\ x \div q \in Nat /\ x % q \in 0..(q - 1)
    OBVIOUS
  <1>2. q * (x \div q) = (x \div q) * q /\ (x \div q) * q \in Nat
    BY <1>1
  <1>. QED BY <1>1, <1>2

LEMMA DivMono ==
  ASSUME NEW x \in Nat, NEW y \in Nat, NEW q \in Nat \ {0}, x <= y
  PROVE  x \div q <= y \div q
  <1>. DEFINE m == x \div q
              n == y \div q
  <1>1. m \in Nat /\ m * q <= x /\ n \in Nat /\ y < n * q + q
    BY DivIs
  <1>. HIDE DEF m, n
  <1>2. SUFFICES ASSUME n < m PROVE FALSE
    BY <1>1 DEF m, n
  <1>3. n * q + q <= m * q /\ n * q \in Nat /\ m * q \in Nat
    BY <1>1, <1>2, MulMono
  <1>. QED BY <1>1, <1>3

(* Below a multiple. *)
LEMMA DivBelow ==
  ASSUME NEW x \in Nat, NEW h \in Nat, NEW q \in Nat \ {0}, h % q = 0, x < h
  PROVE  x \div q < h \div q
  <1>1. PICK m \in Nat : h = m * q
    BY Multiple
  <1>2. h \div q = m
    BY <1>1, MulDiv
  <1>. DEFINE n == x \div q
  <1>3. n \in Nat /\ n * q <= x
    BY DivIs
  <1>. HIDE DEF n
  <1>4. SUFFICES ASSUME m <= n PROVE FALSE
    BY <1>1, <1>2, <1>3 DEF n
  <1>5. m * q <= n * q /\ n * q \in Nat
    <2>1. CASE m = n
      BY <1>1, <1>3, <2>1
    <2>2. CASE m < n
      BY <1>1, <1>3, <2>2, MulMono
    <2>. QED BY <1>1, <1>3, <1>4, <2>1, <2>2
  <1>. QED BY <1>1, <1>3, <1>5

LEMMA PagesInside ==
  ASSUME NEW lo \in Nat, NEW size \in Nat, NEW x \in Nat, NEW n \in Nat \ {0},
         lo <= x, x + n <= lo + size
  PROVE  Pages(x, n) \subseteq Pages(lo, size)
  <1>1. PAGESIZE \in Nat \ {0}
    BY WidthsAre
  <1>2. x + n - 1 \in Nat /\ lo + size - 1 \in Nat /\ x + n - 1 <= lo + size - 1
    OBVIOUS
  <1>3. lo \div PAGESIZE <= x \div PAGESIZE
        /\ (x + n - 1) \div PAGESIZE <= (lo + size - 1) \div PAGESIZE
    BY <1>1, <1>2, DivMono
  <1>4. /\ lo \div PAGESIZE \in Nat /\ x \div PAGESIZE \in Nat
        /\ (x + n - 1) \div PAGESIZE \in Nat /\ (lo + size - 1) \div PAGESIZE \in Nat
    BY <1>1, <1>2, DivIs
  <1>. QED BY <1>3, <1>4 DEF Pages

(* Two ranges have no page in common if a page begins between them. *)
LEMMA PagesApart ==
  ASSUME NEW lo \in Nat \ {0}, NEW size \in Nat, NEW h \in Nat, NEW x \in Nat, NEW n \in Nat,
         lo + size <= h, h <= x, h % PAGESIZE = 0
  PROVE  Pages(lo, size) \intersect Pages(x, n) = {}
  <1>1. PAGESIZE \in Nat \ {0}
    BY WidthsAre
  <1>2. lo + size - 1 \in Nat /\ lo + size - 1 < h
    OBVIOUS
  <1>3. (lo + size - 1) \div PAGESIZE < h \div PAGESIZE
    BY <1>1, <1>2, DivBelow
  <1>4. h \div PAGESIZE <= x \div PAGESIZE
    BY <1>1, DivMono
  <1>5. /\ (lo + size - 1) \div PAGESIZE \in Nat /\ h \div PAGESIZE \in Nat
        /\ x \div PAGESIZE \in Nat /\ lo \div PAGESIZE \in Nat
    BY <1>1, <1>2, DivIs
  <1>6. \A y \in Pages(x, n) : y \in Int /\ y >= x \div PAGESIZE
    <2>1. x \div PAGESIZE \in Int /\ (x + n - 1) \div PAGESIZE \in Int
      BY <1>1
    <2>. QED BY <2>1 DEF Pages
  <1>7. \A y \in Pages(lo, size) : y \in Int /\ y <= (lo + size - 1) \div PAGESIZE
    BY <1>5 DEF Pages
  <1>. QED BY <1>3, <1>4, <1>5, <1>6, <1>7

Middle(c) == Small(c) /\ c.quantum >= PAGESIZE

(* The pages a chunk keeps mapped: those of its used units if they have    *)
(* pages of their own, else all of them.                                   *)
Owned(c) == IF Middle(c) THEN UNION {Pages(Unit(c, k), c.quantum) : k \in c.map}
                         ELSE Pages(c.ptr, Extent(c))

LEMMA UnitPages ==
  ASSUME NEW c \in Chunks, Small(c), NEW k \in 0..(Units - 1)
  PROVE  Pages(Unit(c, k), c.quantum) \subseteq Pages(c.ptr, Extent(c))
  <1>1. c.quantum \in Nat \ {0} /\ c.ptr \in Nat /\ Extent(c) \in Nat /\ End(c) = c.ptr + Extent(c)
    BY ChunkIs DEF End
  <1>2. Unit(c, k) \in Nat /\ c.ptr <= Unit(c, k) /\ Unit(c, k) + c.quantum <= End(c)
    BY UnitIn
  <1>. QED BY <1>1, <1>2, PagesInside

LEMMA UnitsApart ==
  ASSUME NEW c \in Chunks, Middle(c), NEW k \in 0..(Units - 1), NEW n \in 0..(Units - 1), k # n
  PROVE  Pages(Unit(c, k), c.quantum) \intersect Pages(Unit(c, n), c.quantum) = {}
  <1>1. /\ c.quantum \in Nat \ {0} /\ c.quantum \in Powers /\ c.ptr \in Nat \ {0}
        /\ PAGESIZE \in Nat \ {0} /\ PAGESIZE \in Powers /\ c.ptr % PAGESIZE = 0
        /\ Small(c) /\ PAGESIZE <= c.quantum /\ ALLOCSIZE \in Nat \ {0}
    BY ChunkIs, WidthsAre DEF Middle
  <1>2. c.quantum % PAGESIZE = 0
    BY <1>1, PowersAre
  <1>3. ASSUME NEW x \in 0..(Units - 1), NEW y \in 0..(Units - 1), x < y
        PROVE  Pages(Unit(c, x), c.quantum) \intersect Pages(Unit(c, y), c.quantum) = {}
    <2>1. y \in Nat
      BY WidthsAre
    <2>2. y * c.quantum \in Nat
      BY <1>1, <2>1
    <2>7. (y * c.quantum) % c.quantum = 0
      BY <1>1, <2>1, MulDiv
    <2>3. (y * c.quantum) % PAGESIZE = 0
      BY <1>1, <1>2, <2>2, <2>7, MultipleOfMultiple
    <2>4. Unit(c, y) % PAGESIZE = 0
      BY <1>1, <2>2, <2>3, MultipleSum DEF Unit
    <2>5. /\ Unit(c, x) \in Nat /\ c.ptr <= Unit(c, x) /\ Unit(c, y) \in Nat
          /\ Unit(c, x) + c.quantum <= Unit(c, y)
      BY <1>1, <1>3, UnitIn
    <2>6. Unit(c, x) \in Nat \ {0}
      BY <1>1, <2>5
    <2>8. c.quantum \in Nat /\ Unit(c, y) <= Unit(c, y)
      BY <1>1, <2>5
    <2>. QED BY <2>4, <2>5, <2>6, <2>8, PagesApart
  <1>4. k \in Int /\ n \in Int
    OBVIOUS
  <1>5. k < n \/ n < k
    BY <1>4
  <1>. QED BY <1>3, <1>5

LEMMA ChunkPagesApart ==
  ASSUME NEW tbl \in Seq(Chunks), Disjoint(tbl), NEW i \in DOMAIN tbl, NEW j \in DOMAIN tbl, i # j
  PROVE  Pages(tbl[i].ptr, Extent(tbl[i])) \intersect Pages(tbl[j].ptr, Extent(tbl[j])) = {}
  <1>1. ASSUME NEW c \in Chunks, NEW d \in Chunks, End(c) <= d.ptr
        PROVE  Pages(c.ptr, Extent(c)) \intersect Pages(d.ptr, Extent(d)) = {}
    <2>1. /\ c.ptr \in Nat /\ c.ptr >= 2 * ALLOCSIZE /\ Extent(c) \in Nat
          /\ End(c) = c.ptr + Extent(c) /\ End(c) \in Nat /\ End(c) % PAGESIZE = 0
          /\ d.ptr \in Nat /\ Extent(d) \in Nat /\ ALLOCSIZE \in Nat \ {0}
      BY ChunkIs, WidthsAre DEF End
    <2>2. c.ptr \in Nat \ {0}
      BY <2>1
    <2>. QED BY <1>1, <2>1, <2>2, PagesApart
  <1>2. tbl[i] \in Chunks /\ tbl[j] \in Chunks
    OBVIOUS
  <1>3. End(tbl[i]) <= tbl[j].ptr \/ End(tbl[j]) <= tbl[i].ptr
    BY DEF Disjoint, Apart
  <1>. QED BY <1>1, <1>2, <1>3

LEMMA OwnedIs ==
  ASSUME NEW c \in Chunks
  PROVE  Owned(c) \subseteq Pages(c.ptr, Extent(c))
  <1>1. CASE Middle(c)
    <2>1. \A k \in c.map : Pages(Unit(c, k), c.quantum) \subseteq Pages(c.ptr, Extent(c))
      BY <1>1, UnitPages, ChunkIs DEF Middle
    <2>. QED BY <1>1, <2>1 DEF Owned
  <1>2. CASE ~Middle(c)
    BY <1>2 DEF Owned
  <1>. QED BY <1>1, <1>2

-----------------------------------------------------------------------------
(* The two ways of giving back, as the pages see them. *)
Whole(tbl, L, j, b, r) ==
  /\ r.tbl = RemoveAt(tbl, j)
  /\ r.unmap \subseteq Pages(tbl[j].ptr, Extent(tbl[j])) /\ Owned(tbl[j]) \subseteq r.unmap
  /\ \A d \in L : In(tbl[j], d) => d = b
OneUnit(tbl, j, b, r, k) ==
  /\ Small(tbl[j]) /\ k \in tbl[j].map /\ tbl[j].map # {k} /\ b.ptr = Unit(tbl[j], k)
  /\ r.tbl = [tbl EXCEPT ![j] = Cleared(tbl[j], k)]
  /\ r.unmap = IF Middle(tbl[j]) THEN Pages(Unit(tbl[j], k), tbl[j].quantum) ELSE {}

LEMMA ReleaseCases ==
  ASSUME NEW tbl, NEW L, Good(tbl, L), NEW b \in L, NEW j \in DOMAIN tbl, In(tbl[j], b),
         NEW bits, Sums(tbl[j], bits)
  PROVE  \/ Whole(tbl, L, j, b, Release(tbl, j, b.ptr, bits))
         \/ \E k : OneUnit(tbl, j, b, Release(tbl, j, b.ptr, bits), k)
  <1>. DEFINE r == Release(tbl, j, b.ptr, bits)
              c == tbl[j]
  <1>0. \/ ~Small(c) /\ r.tbl = RemoveAt(tbl, j) /\ r.unmap = Pages(c.ptr, c.size) /\ b.ptr = c.ptr
        \/ /\ Small(c)
           /\ \E k \in c.map :
                 /\ b.ptr = Unit(c, k)
                 /\ \/ c.map = {k} /\ r.tbl = RemoveAt(tbl, j) /\ Unused(c.map \ {k}, bits)
                    \/ r.tbl = [tbl EXCEPT ![j] = Cleared(c, k)] /\ ~Unused(c.map \ {k}, bits)
                 /\ r.unmap = IF c.quantum >= PAGESIZE THEN Pages(Unit(c, k), c.quantum)
                              ELSE IF Unused(c.map \ {k}, bits) THEN Pages(c.ptr, Extent(c)) ELSE {}
    BY ReleaseIs, Zenon
  <1>. HIDE DEF r
  <1>1. OneEach(L) /\ c \in Chunks
    BY DEF Good, Typed
  <1>2. CASE ~Small(c) /\ r.tbl = RemoveAt(tbl, j) /\ r.unmap = Pages(c.ptr, c.size) /\ b.ptr = c.ptr
    <2>1. \A d \in L : In(c, d) => d = b
      BY <1>1, <1>2 DEF In, OneEach
    <2>2. Extent(c) = c.size
      BY <1>1, <1>2, ChunkIs
    <2>3. Owned(c) = Pages(c.ptr, c.size)
      BY <1>2, <2>2 DEF Owned, Middle
    <2>4. Whole(tbl, L, j, b, r)
      BY <1>2, <2>1, <2>2, <2>3 DEF Whole
    <2>. QED BY <2>4 DEF r
  <1>3. ASSUME Small(c), NEW k \in c.map, b.ptr = Unit(c, k),
               \/ c.map = {k} /\ r.tbl = RemoveAt(tbl, j) /\ Unused(c.map \ {k}, bits)
               \/ r.tbl = [tbl EXCEPT ![j] = Cleared(c, k)] /\ ~Unused(c.map \ {k}, bits),
               r.unmap = IF c.quantum >= PAGESIZE THEN Pages(Unit(c, k), c.quantum)
                         ELSE IF Unused(c.map \ {k}, bits) THEN Pages(c.ptr, Extent(c)) ELSE {}
        PROVE  Whole(tbl, L, j, b, r) \/ OneUnit(tbl, j, b, r, k)
    <2>1. k \in 0..(Units - 1)
      BY <1>1, <1>3, ChunkIs
    <2>2. Middle(c) <=> c.quantum >= PAGESIZE
      BY <1>3 DEF Middle
    <2>3. CASE c.map = {k} /\ r.tbl = RemoveAt(tbl, j) /\ Unused(c.map \ {k}, bits)
      <3>1. \A d \in L : In(c, d) => d = b
        BY <1>1, <1>3, <2>3 DEF In, OneEach
      <3>2. r.unmap = Owned(c)
        BY <1>3, <2>2, <2>3 DEF Owned
      <3>3. Owned(c) \subseteq Pages(c.ptr, Extent(c))
        BY <1>1, OwnedIs
      <3>4. Whole(tbl, L, j, b, r)
        BY <2>3, <3>1, <3>2, <3>3 DEF Whole
      <3>. QED BY <3>4
    <2>4. CASE r.tbl = [tbl EXCEPT ![j] = Cleared(c, k)] /\ ~Unused(c.map \ {k}, bits)
      <3>1. c.map # {k}
        BY <1>3, <2>4 DEF Sums
      <3>2. r.unmap = IF Middle(c) THEN Pages(Unit(c, k), c.quantum) ELSE {}
        BY <1>3, <2>2, <2>4
      <3>3. OneUnit(tbl, j, b, r, k)
        BY <1>3, <2>4, <3>1, <3>2 DEF OneUnit
      <3>. QED BY <3>3
    <2>. QED BY <1>3, <2>3, <2>4
  <1>4. CASE Small(c)
    <2>1. PICK k \in c.map :
                 /\ b.ptr = Unit(c, k)
                 /\ \/ c.map = {k} /\ r.tbl = RemoveAt(tbl, j) /\ Unused(c.map \ {k}, bits)
                    \/ r.tbl = [tbl EXCEPT ![j] = Cleared(c, k)] /\ ~Unused(c.map \ {k}, bits)
                 /\ r.unmap = IF c.quantum >= PAGESIZE THEN Pages(Unit(c, k), c.quantum)
                              ELSE IF Unused(c.map \ {k}, bits) THEN Pages(c.ptr, Extent(c)) ELSE {}
      BY <1>0, <1>4, Zenon
    <2>2. Whole(tbl, L, j, b, r) \/ OneUnit(tbl, j, b, r, k)
      BY <1>3, <1>4, <2>1, Zenon
    <2>. QED BY <2>2 DEF r
  <1>. QED BY <1>0, <1>2, <1>4, Zenon

(* Cleared has its pages without those of the unit. *)
LEMMA ClearedOwned ==
  ASSUME NEW c \in Chunks, Small(c), NEW k \in c.map
  PROVE  /\ Owned(Cleared(c, k)) \subseteq Owned(c)
         /\ ~Middle(c) => Owned(Cleared(c, k)) = Owned(c)
         /\ Middle(c) => /\ Pages(Unit(c, k), c.quantum) \intersect Owned(Cleared(c, k)) = {}
                         /\ Owned(c) \subseteq Owned(Cleared(c, k)) \union Pages(Unit(c, k), c.quantum)
  <1>. DEFINE d == Cleared(c, k)
  <1>1. /\ d.ptr = c.ptr /\ d.quantum = c.quantum /\ d.map = c.map \ {k}
        /\ Extent(d) = Extent(c) /\ (\A n : Unit(d, n) = Unit(c, n)) /\ (Small(d) <=> Small(c))
    BY ClearedIs
  <1>. HIDE DEF d
  <1>2. Middle(d) <=> Middle(c)
    BY <1>1 DEF Middle
  <1>3. CASE ~Middle(c)
    BY <1>1, <1>2, <1>3 DEF Owned, d
  <1>4. CASE Middle(c)
    <2>1. Owned(c) = UNION {Pages(Unit(c, n), c.quantum) : n \in c.map}
      BY <1>4 DEF Owned
    <2>2. Owned(d) = UNION {Pages(Unit(c, n), c.quantum) : n \in c.map \ {k}}
      BY <1>1, <1>2, <1>4 DEF Owned
    <2>3. \A n \in c.map \ {k} : Pages(Unit(c, k), c.quantum) \intersect Pages(Unit(c, n), c.quantum) = {}
      <3>1. c.map \subseteq 0..(Units - 1)
        BY ChunkIs
      <3>. QED BY <1>4, <3>1, UnitsApart
    <2>. QED BY <1>4, <2>1, <2>2, <2>3 DEF d
  <1>. QED BY <1>3, <1>4

-----------------------------------------------------------------------------
(* A block the program holds stays mapped *)

Backed(tbl, m) == \A j \in DOMAIN tbl : Owned(tbl[j]) \subseteq m

LEMMA HeldMapped ==
  ASSUME NEW tbl, NEW L, Good(tbl, L), NEW m, Backed(tbl, m), NEW b \in L
  PROVE  Pages(b.ptr, b.size) \subseteq m
  <1>1. PICK j \in DOMAIN tbl : In(tbl[j], b)
    BY DEF Good, Held
  <1>. DEFINE c == tbl[j]
  <1>2. c \in Chunks /\ b \in Blocks
    BY DEF Good, Typed
  <1>3. Owned(c) \subseteq m
    BY DEF Backed
  <1>. HIDE DEF c
  <1>4. b.ptr \in Nat /\ b.size \in Nat \ {0} /\ c.ptr \in Nat /\ Extent(c) \in Nat
        /\ c.quantum \in Nat /\ End(c) = c.ptr + Extent(c)
    BY <1>2, BlockIs, ChunkIs DEF End
  <1>5. c.ptr <= b.ptr /\ b.ptr + b.size <= End(c)
    BY <1>1, <1>2, InIs DEF c
  <1>6. CASE Middle(c)
    <2>1. PICK k \in c.map : b.ptr = Unit(c, k) /\ b.size <= c.quantum
      BY <1>1, <1>6 DEF In, Middle, c
    <2>2. Pages(b.ptr, b.size) \subseteq Pages(b.ptr, c.quantum)
      BY <1>4, <2>1, PagesInside
    <2>3. Pages(b.ptr, c.quantum) \subseteq Owned(c)
      BY <1>6, <2>1 DEF Owned
    <2>. QED BY <1>3, <2>2, <2>3
  <1>7. CASE ~Middle(c)
    <2>1. Owned(c) = Pages(c.ptr, Extent(c))
      BY <1>7 DEF Owned
    <2>2. Pages(b.ptr, b.size) \subseteq Pages(c.ptr, Extent(c))
      BY <1>4, <1>5, PagesInside
    <2>. QED BY <1>3, <2>1, <2>2
  <1>. QED BY <1>6, <1>7

LEMMA ReleaseBacked ==
  ASSUME NEW tbl, NEW L, Good(tbl, L), NEW b \in L, NEW j \in DOMAIN tbl, In(tbl[j], b),
         NEW bits, Sums(tbl[j], bits), NEW m, Backed(tbl, m)
  PROVE  Backed(Release(tbl, j, b.ptr, bits).tbl, m \ Release(tbl, j, b.ptr, bits).unmap)
  <1>. DEFINE r == Release(tbl, j, b.ptr, bits)
  <1>1. Whole(tbl, L, j, b, r) \/ \E k : OneUnit(tbl, j, b, r, k)
    BY ReleaseCases
  <1>. HIDE DEF r
  <1>2. tbl \in Seq(Chunks) /\ Disjoint(tbl) /\ tbl[j] \in Chunks
    BY DEF Good, Typed
  <1>3. \A i \in DOMAIN tbl : tbl[i] \in Chunks /\ Owned(tbl[i]) \subseteq Pages(tbl[i].ptr, Extent(tbl[i]))
    BY <1>2, OwnedIs
  <1>4. \A i \in DOMAIN tbl : i # j =>
           Pages(tbl[i].ptr, Extent(tbl[i])) \intersect Pages(tbl[j].ptr, Extent(tbl[j])) = {}
    BY <1>2, ChunkPagesApart
  <1>5. CASE Whole(tbl, L, j, b, r)
    <2>1. r.tbl = RemoveAt(tbl, j) /\ r.unmap \subseteq Pages(tbl[j].ptr, Extent(tbl[j]))
      BY <1>5 DEF Whole
    <2>2. \A i \in DOMAIN tbl \ {j} : Owned(tbl[i]) \subseteq m \ r.unmap
      BY <1>3, <1>4, <2>1 DEF Backed
    <2>3. ASSUME NEW i \in DOMAIN RemoveAt(tbl, j) PROVE Owned(RemoveAt(tbl, j)[i]) \subseteq m \ r.unmap
      <3>1. PICK n \in DOMAIN tbl \ {j} : RemoveAt(tbl, j)[i] = tbl[n]
        BY <1>2, RemovedIs
      <3>. QED BY <2>2, <3>1
    <2>. QED BY <2>1, <2>3 DEF Backed, r
  <1>6. ASSUME NEW k, OneUnit(tbl, j, b, r, k) PROVE Backed(r.tbl, m \ r.unmap)
    <2>1. /\ Small(tbl[j]) /\ k \in tbl[j].map
          /\ r.tbl = [tbl EXCEPT ![j] = Cleared(tbl[j], k)]
          /\ r.unmap = IF Middle(tbl[j]) THEN Pages(Unit(tbl[j], k), tbl[j].quantum) ELSE {}
      BY <1>6 DEF OneUnit
    <2>2. /\ DOMAIN r.tbl = DOMAIN tbl /\ r.tbl[j] = Cleared(tbl[j], k)
          /\ \A i \in DOMAIN tbl : i # j => r.tbl[i] = tbl[i]
      BY <1>2, <2>1
    <2>3. r.unmap \subseteq Pages(tbl[j].ptr, Extent(tbl[j]))
      <3>1. k \in 0..(Units - 1)
        BY <1>2, <2>1, ChunkIs
      <3>. QED BY <1>2, <2>1, <3>1, UnitPages
    <2>4. \A i \in DOMAIN tbl : i # j => Owned(tbl[i]) \subseteq m \ r.unmap
      BY <1>3, <1>4, <2>3 DEF Backed
    <2>5. Owned(Cleared(tbl[j], k)) \subseteq m \ r.unmap
      <3>1. Owned(tbl[j]) \subseteq m
        BY DEF Backed
      <3>. QED BY <1>2, <2>1, <3>1, ClearedOwned
    <2>. QED BY <2>2, <2>4, <2>5 DEF Backed
  <1>. QED BY <1>1, <1>5, <1>6 DEF r

(* The pages of a chunk with one more unit in use. *)
LEMMA UsedOwned ==
  ASSUME NEW c \in Chunks, NEW s \in Sizes, c.quantum = Quantum(s), NEW k \in 0..(Units - 1)
  PROVE  LET d == Used(c, s, Quantum(s), k)
         IN /\ Middle(c) => Owned(d) = Owned(c) \union Pages(Unit(c, k), Quantum(s))
            /\ Small(c) /\ ~Middle(c) => Owned(d) = Owned(c) /\ Owned(c) = Pages(c.ptr, chunksize(Quantum(s)))
            /\ ~Small(c) => Owned(d) = Pages(c.ptr, RoundUp(s, ALLOCSIZE))
  <1>. DEFINE d == Used(c, s, Quantum(s), k)
  <1>1. /\ d.quantum = c.quantum /\ d.ptr = c.ptr /\ (Small(d) <=> Small(c))
        /\ \A n : Unit(d, n) = Unit(c, n)
        /\ Small(c) => d.map = c.map \union {k} /\ Extent(d) = Extent(c)
        /\ ~Small(c) => Extent(d) = RoundUp(s, ALLOCSIZE)
    BY UsedIs
  <1>. HIDE DEF d
  <1>2. Middle(d) <=> Middle(c)
    BY <1>1 DEF Middle
  <1>3. CASE Middle(c)
    <2>1. d.map = c.map \union {k}
      BY <1>1, <1>3 DEF Middle
    <2>2. Owned(c) = UNION {Pages(Unit(c, n), c.quantum) : n \in c.map}
      BY <1>3 DEF Owned
    <2>3. Owned(d) = UNION {Pages(Unit(c, n), c.quantum) : n \in c.map \union {k}}
      BY <1>1, <1>2, <1>3, <2>1 DEF Owned
    <2>4. Owned(d) = Owned(c) \union Pages(Unit(c, k), Quantum(s))
      BY <2>2, <2>3
    <2>. QED BY <1>3, <2>4 DEF d, Middle
  <1>4. CASE Small(c) /\ ~Middle(c)
    <2>1. Extent(c) = chunksize(c.quantum)
      BY <1>4 DEF Extent, Small
    <2>. QED BY <1>1, <1>2, <1>4, <2>1 DEF Owned, d
  <1>5. CASE ~Small(c)
    BY <1>1, <1>2, <1>5 DEF Owned, Middle, d
  <1>. QED BY <1>3, <1>4, <1>5

(* The mapping of a call is what the chunk of the block needs besides. *)
LEMMA BackingIs ==
  ASSUME NEW c \in Chunks, NEW s \in Sizes, c.quantum = Quantum(s), NEW u, c = u.tbl[u.j],
         NEW flag
  PROVE  /\ flag = "sparse" => Backing(u, s, Quantum(s), flag) = {}
         /\ flag # "sparse" =>
              /\ Middle(c) => Backing(u, s, Quantum(s), flag) = Pages(Unit(c, u.k), Quantum(s))
              /\ Small(c) /\ ~Middle(c) =>
                    Backing(u, s, Quantum(s), flag) = IF u.fresh THEN Pages(c.ptr, chunksize(Quantum(s))) ELSE {}
              /\ ~Small(c) => Backing(u, s, Quantum(s), flag) = Pages(c.ptr, RoundUp(s, ALLOCSIZE))
  <1>1. c.quantum \in Nat /\ PAGESIZE \in Nat /\ ALLOCSIZE \in Nat /\ ALLOCSIZE >= PAGESIZE
    BY ChunkIs, WidthsAre
  <1>2. Address(u, Quantum(s)) = IF Small(c) THEN Unit(c, u.k) ELSE c.ptr
    BY DEF Address, Small, Unit
  <1>. DEFINE q == Quantum(s)
  <1>3. (q < PAGESIZE <=> Small(c) /\ ~Middle(c)) /\ (q < ALLOCSIZE <=> Small(c))
    BY <1>1 DEF Small, Middle
  <1>4. Middle(c) => Small(c)
    BY DEF Middle
  <1>. HIDE DEF q
  <1>5. Backing(u, s, q, flag) = IF flag = "sparse" THEN {}
                                 ELSE IF q < PAGESIZE
                                 THEN IF u.fresh THEN Pages(c.ptr, chunksize(q)) ELSE {}
                                 ELSE Pages(Address(u, q), IF q < ALLOCSIZE THEN q ELSE RoundUp(s, ALLOCSIZE))
    BY DEF Backing
  <1>. QED BY <1>2, <1>3, <1>4, <1>5 DEF q

LEMMA TakenBacked ==
  ASSUME NEW tbl \in Seq(Chunks), NEW s \in Sizes, NEW u, NEW t, With(tbl, u, s, t),
         NEW flag, flag # "sparse", NEW m, Backed(tbl, m)
  PROVE  Backed(t, m \union Backing(u, s, Quantum(s), flag))
  <1>. DEFINE c == u.tbl[u.j]
              d == Used(c, s, Quantum(s), u.k)
              back == Backing(u, s, Quantum(s), flag)
  <1>1. /\ DOMAIN t = DOMAIN tbl \union {u.j} /\ t[u.j] = d
        /\ \A i \in DOMAIN tbl : i # u.j => t[i] = tbl[i]
        /\ c \in Chunks /\ c.quantum = Quantum(s) /\ u.k \in 0..(Units - 1)
        /\ u.fresh => c.map = {}
        /\ ~u.fresh => u.j \in DOMAIN tbl /\ Small(tbl[u.j]) /\ u.tbl = tbl
    BY DEF With
  <1>2. /\ Middle(c) => Owned(d) = Owned(c) \union Pages(Unit(c, u.k), Quantum(s))
        /\ Small(c) /\ ~Middle(c) => Owned(d) = Owned(c) /\ Owned(c) = Pages(c.ptr, chunksize(Quantum(s)))
        /\ ~Small(c) => Owned(d) = Pages(c.ptr, RoundUp(s, ALLOCSIZE))
    BY <1>1, UsedOwned
  <1>3. /\ Middle(c) => back = Pages(Unit(c, u.k), Quantum(s))
        /\ Small(c) /\ ~Middle(c) => back = IF u.fresh THEN Pages(c.ptr, chunksize(Quantum(s))) ELSE {}
        /\ ~Small(c) => back = Pages(c.ptr, RoundUp(s, ALLOCSIZE))
    BY <1>1, BackingIs
  <1>. HIDE DEF d, back
  <1>4. Owned(d) \subseteq m \union back
    <2>1. CASE ~Small(c)
      BY <1>2, <1>3, <2>1
    <2>2. CASE Small(c) /\ u.fresh
      <3>1. Middle(c) => Owned(c) = {}
        BY <1>1, <2>2 DEF Owned
      <3>. HIDE DEF c
      <3>. QED BY <1>2, <1>3, <2>2, <3>1
    <2>3. CASE Small(c) /\ ~u.fresh
      <3>1. Owned(c) \subseteq m
        BY <1>1, <2>3 DEF Backed
      <3>. HIDE DEF c
      <3>. QED BY <1>2, <1>3, <2>3, <3>1
    <2>. QED BY <2>1, <2>2, <2>3
  <1>. QED BY <1>1, <1>4 DEF Backed, back

LEMMA BackedMore ==
  ASSUME NEW tbl, NEW m, Backed(tbl, m), NEW n, m \subseteq n
  PROVE  Backed(tbl, n)
  BY DEF Backed

LEMMA AllocBacked ==
  ASSUME Good(chunk, live), FrontRoom, Counted, Backed(chunk, mapped),
         NEW align \in Powers, NEW s \in Sizes, NEW flag, flag # "sparse",
         NEW old, old = {} \/ \E b \in live : old = {b},
         bzt_alloc(align, old, s, flag, "none")
  PROVE  Backed(chunk', mapped')
  <1>. DEFINE q == Quantum(s)
              u == Asked(align, s)
              t == Taken(u, s, q)
              more == mapped \union FirstMap \union Backing(u, s, q, flag)
  <1>. HIDE DEF q, u, t
  <1>1. chunk \in Seq(Chunks) /\ Room(chunk, s)
    BY DEF Good, Typed, FrontRoom
  <1>2. Reused(chunk, u, q) \/ NewOne(chunk, u, s, q)
    BY <1>1, AskedIs DEF u, q
  <1>3. \/ Kept(u, s, q, old)
        \/ Full
        \/ Done(u, s, q, flag, old)
    BY AllocIs DEF u, q
  <1>4. With(chunk, u, s, t)
    BY <1>1, <1>2, TakenIs DEF t, q
  <1>5. Backed(t, more)
    <2>1. Backed(chunk, mapped \union FirstMap)
      BY BackedMore
    <2>. QED BY <1>1, <1>4, <2>1, TakenBacked DEF q
  <1>. HIDE DEF more
  <1>6. CASE Kept(u, s, q, old)
    BY <1>6 DEF Kept
  <1>7. CASE Full
    BY <1>7, BackedMore DEF Full
  <1>8. CASE Done(u, s, q, flag, old)
    <2>1. CASE old = {}
      <3>1. OldChunks(old) = {}
        BY <2>1 DEF OldChunks
      <3>2. chunk' = t /\ mapped' = more
        BY <1>8, <3>1 DEF Done, t, more
      <3>. QED BY <1>5, <3>2
    <2>2. ASSUME NEW b \in live, old = {b} PROVE Backed(chunk', mapped')
      <3>. DEFINE new == Block(Address(u, q), s)
      <3>1. ~(q < ALLOCSIZE /\ ~u.fresh /\ u.j \in OldChunks({b}))
        BY <1>8, <2>2 DEF Done
      <3>2. PICK j \in DOMAIN chunk :
               /\ In(chunk[j], b) /\ j \in DOMAIN t /\ t[j] = chunk[j]
               /\ OldChunks({b}) = {j}
               /\ Return(u, s, q, {b}) = Release(t, j, b.ptr, UintBits)
               /\ Sums(t[j], UintBits) /\ b \in live \union {new}
               /\ Good(t, live \union {new})
        BY <1>1, <1>2, <3>1, ReturnGood DEF t, q
      <3>. HIDE DEF new
      <3>3. /\ OldChunks({b}) # {} => chunk' = Return(u, s, q, {b}).tbl
            /\ OldChunks({b}) # {} => mapped' = more \ Return(u, s, q, {b}).unmap
        BY <1>8, <2>2 DEF Done, more
      <3>4. Backed(Release(t, j, b.ptr, UintBits).tbl, more \ Release(t, j, b.ptr, UintBits).unmap)
        BY <1>5, <3>2, ReleaseBacked
      <3>. QED BY <3>2, <3>3, <3>4
    <2>. QED BY <2>1, <2>2
  <1>. QED BY <1>3, <1>6, <1>7, <1>8

LEMMA FreeBacked ==
  ASSUME Good(chunk, live), Counted, Backed(chunk, mapped), NEW b \in live, bzt_free(b)
  PROVE  Backed(chunk', mapped')
  <1>1. PICK j \in DOMAIN chunk : In(chunk[j], b) /\ Owners(chunk, b.ptr) = {j}
    BY OldIs
  <1>2. j \in Nat
    BY DEF Good, Typed
  <1>3. Min(Owners(chunk, b.ptr)) = j /\ Owners(chunk, b.ptr) # {}
    BY <1>1, <1>2, OneIs
  <1>. DEFINE r == Release(chunk, j, b.ptr, WordBits)
  <1>4. /\ chunk' = r.tbl
        /\ mapped' = (mapped \ r.unmap) \ (IF r.tbl = << >> THEN Pages(ALLOCSIZE, ALLOCSIZE) ELSE {})
    BY <1>3 DEF bzt_free
  <1>5. Sums(chunk[j], WordBits)
    BY DEF Counted
  <1>6. Backed(r.tbl, mapped \ r.unmap)
    BY <1>1, <1>5, ReleaseBacked
  <1>. HIDE DEF r
  <1>7. r.tbl = << >> => Backed(r.tbl, mapped')
    BY DEF Backed
  <1>8. r.tbl # << >> => mapped' = mapped \ r.unmap
    BY <1>4
  <1>. QED BY <1>4, <1>6, <1>7, <1>8

(* As long as no mapping failed. *)
Mapped == failed \in Nat /\ (failed = 0 /\ Flags = {"private"} => Backed(chunk, mapped))

(* A step after which no mapping has failed: none failed in it. *)
LEMMA NoneFailed ==
  ASSUME failed \in Nat, HeapNext
  PROVE  /\ failed' \in Nat
         /\ failed' = 0 =>
              /\ failed = 0
              /\ \/ \E align \in Powers, s \in Sizes, flag \in Flags \union {"private"},
                       old \in {{}} \union {{b} : b \in live} : bzt_alloc(align, old, s, flag, "none")
                 \/ \E b \in live : bzt_free(b)
  <1>1. ASSUME NEW align \in Powers, NEW s \in Sizes, NEW flag \in Flags \union {"private"},
               NEW oom \in {"none", "allocmap", "memory"},
               NEW old \in {{}} \union {{b} : b \in live}, bzt_alloc(align, old, s, flag, oom)
        PROVE  failed' \in Nat /\ (failed' = 0 => failed = 0 /\ oom = "none")
    <2>1. failed' = IF oom = "none" THEN failed ELSE failed + 1
      BY <1>1, AllocIs
    <2>. QED BY <2>1
  <1>2. ASSUME NEW b \in live, bzt_free(b) PROVE failed' = failed
    BY <1>2 DEF bzt_free
  <1>3. CASE \E b \in live : bzt_free(b)
    BY <1>2, <1>3
  <1>4. CASE \E align \in Powers, s \in Sizes, flag \in Flags \union {"private"},
               oom \in {"none", "allocmap", "memory"}, old \in {{}} \union {{b} : b \in live} :
               bzt_alloc(align, old, s, flag, oom)
    <2>1. PICK align \in Powers, s \in Sizes, flag \in Flags \union {"private"},
               oom \in {"none", "allocmap", "memory"}, old \in {{}} \union {{b} : b \in live} :
               bzt_alloc(align, old, s, flag, oom)
      BY <1>4
    <2>2. failed' \in Nat /\ (failed' = 0 => failed = 0 /\ oom = "none")
      BY <1>1, <2>1
    <2>. QED BY <2>1, <2>2
  <1>. QED BY <1>3, <1>4, CallIs

LEMMA StepMapped ==
  ASSUME Good(chunk, live), FrontRoom, Counted, Mapped, [HeapNext]_heapvars
  PROVE  Mapped'
  <1>1. CASE HeapNext
    <2>1. failed \in Nat /\ failed' \in Nat
      BY <1>1, NoneFailed DEF Mapped
    <2>2. SUFFICES ASSUME failed' = 0, Flags = {"private"} PROVE Backed(chunk', mapped')
      BY <2>1 DEF Mapped, Backed
    <2>3. Backed(chunk, mapped)
      BY <1>1, <2>1, <2>2, NoneFailed DEF Mapped
    <2>4. ASSUME NEW align \in Powers, NEW s \in Sizes, NEW flag \in Flags \union {"private"},
                 NEW old \in {{}} \union {{b} : b \in live}, bzt_alloc(align, old, s, flag, "none")
          PROVE  Backed(chunk', mapped')
      <3>1. (old = {} \/ \E b \in live : old = {b}) /\ flag # "sparse"
        BY <2>2
      <3>. QED BY <2>3, <2>4, <3>1, AllocBacked
    <2>5. ASSUME NEW b \in live, bzt_free(b) PROVE Backed(chunk', mapped')
      BY <2>3, <2>5, FreeBacked
    <2>. QED BY <1>1, <2>1, <2>2, <2>4, <2>5, NoneFailed
  <1>2. CASE UNCHANGED heapvars
    BY <1>2 DEF heapvars, Mapped, Backed
  <1>. QED BY <1>1, <1>2

(* A block stays mapped while the program holds it: neither the end of     *)
(* another block nor that of its chunk takes its pages away (bzt_free).    *)
THEOREM BlocksMapped == HeapSpec /\ []FrontRoom /\ []Counted => []HeldIsMapped
  <1>1. HeapInit => Mapped
    BY DEF HeapInit, Mapped, Backed
  <1>2. Good(chunk, live) /\ FrontRoom /\ Counted /\ Mapped /\ [HeapNext]_heapvars => Mapped'
    BY StepMapped
  <1>3. Good(chunk, live) /\ Mapped => HeldIsMapped
    BY HeldMapped DEF Mapped, HeldIsMapped
  <1>. QED BY <1>1, <1>2, <1>3, AlwaysGood, PTL DEF HeapSpec

-----------------------------------------------------------------------------
(* What the program gave back is given back to the system *)

(* Every chunk and every unit of it is there for a block. *)
Attached(tbl, L) ==
  \A j \in DOMAIN tbl :
     /\ Small(tbl[j]) => /\ tbl[j].map # {}
                         /\ \A k \in tbl[j].map : \E b \in L : b.ptr = Unit(tbl[j], k)
     /\ ~Small(tbl[j]) => \E b \in L : In(tbl[j], b)

(* Every mapped page is the allocmap's or there for a chunk. *)
Covered(tbl, m) ==
  \A x \in m : x \in Pages(ALLOCSIZE, PAGESIZE) \/ \E j \in DOMAIN tbl : x \in Owned(tbl[j])

LEMMA ReleaseCovered ==
  ASSUME NEW tbl, NEW L, Good(tbl, L), NEW b \in L, NEW j \in DOMAIN tbl, In(tbl[j], b),
         NEW bits, Sums(tbl[j], bits), NEW m, Covered(tbl, m)
  PROVE  Covered(Release(tbl, j, b.ptr, bits).tbl, m \ Release(tbl, j, b.ptr, bits).unmap)
  <1>. DEFINE r == Release(tbl, j, b.ptr, bits)
  <1>1. Whole(tbl, L, j, b, r) \/ \E k : OneUnit(tbl, j, b, r, k)
    BY ReleaseCases
  <1>. HIDE DEF r
  <1>2. tbl \in Seq(Chunks) /\ tbl[j] \in Chunks
    BY DEF Good, Typed
  <1>3. SUFFICES ASSUME NEW x \in m \ r.unmap, x \notin Pages(ALLOCSIZE, PAGESIZE)
                 PROVE  \E i \in DOMAIN r.tbl : x \in Owned(r.tbl[i])
    BY DEF Covered, r
  <1>4. PICK n \in DOMAIN tbl : x \in Owned(tbl[n])
    BY <1>3 DEF Covered
  <1>5. CASE Whole(tbl, L, j, b, r)
    <2>1. r.tbl = RemoveAt(tbl, j) /\ n # j
      BY <1>4, <1>5 DEF Whole
    <2>2. PICK i \in DOMAIN RemoveAt(tbl, j) : RemoveAt(tbl, j)[i] = tbl[n]
      BY <1>2, <2>1, RemovedIs
    <2>. QED BY <1>4, <2>1, <2>2
  <1>6. ASSUME NEW k, OneUnit(tbl, j, b, r, k) PROVE \E i \in DOMAIN r.tbl : x \in Owned(r.tbl[i])
    <2>1. /\ Small(tbl[j]) /\ k \in tbl[j].map
          /\ r.tbl = [tbl EXCEPT ![j] = Cleared(tbl[j], k)]
          /\ r.unmap = IF Middle(tbl[j]) THEN Pages(Unit(tbl[j], k), tbl[j].quantum) ELSE {}
      BY <1>6 DEF OneUnit
    <2>2. /\ DOMAIN r.tbl = DOMAIN tbl /\ r.tbl[j] = Cleared(tbl[j], k)
          /\ \A i \in DOMAIN tbl : i # j => r.tbl[i] = tbl[i]
      BY <1>2, <2>1
    <2>3. CASE n # j
      BY <1>4, <2>2, <2>3
    <2>4. CASE n = j
      <3>1. x \in Owned(Cleared(tbl[j], k))
        BY <1>2, <1>4, <2>1, <2>4, ClearedOwned
      <3>. QED BY <2>2, <3>1
    <2>. QED BY <2>3, <2>4
  <1>. QED BY <1>1, <1>5, <1>6

(* What is in another chunk is another block. *)
LEMMA Elsewhere ==
  ASSUME NEW tbl, NEW L, Good(tbl, L), NEW b \in L, NEW j \in DOMAIN tbl, In(tbl[j], b),
         NEW i \in DOMAIN tbl, i # j
  PROVE  /\ ~In(tbl[i], b)
         /\ Small(tbl[i]) => \A k \in tbl[i].map : b.ptr # Unit(tbl[i], k)
  <1>1. tbl \in Seq(Chunks) /\ Disjoint(tbl) /\ b \in Blocks /\ tbl[i] \in Chunks /\ tbl[j] \in Chunks
    BY DEF Good, Typed
  <1>2. b.ptr \in Nat /\ tbl[j].ptr <= b.ptr /\ b.ptr < End(tbl[j])
    BY <1>1, BlockIs, InIs
  <1>3. ~In(tbl[i], b)
    BY <1>1, <1>2, InIs, OneChunk
  <1>4. ASSUME Small(tbl[i]), NEW k \in tbl[i].map PROVE b.ptr # Unit(tbl[i], k)
    <2>1. k \in 0..(Units - 1) /\ tbl[i].quantum \in Nat \ {0} /\ End(tbl[i]) \in Nat
      BY <1>1, ChunkIs
    <2>2. /\ Unit(tbl[i], k) \in Nat /\ tbl[i].ptr <= Unit(tbl[i], k)
          /\ Unit(tbl[i], k) + tbl[i].quantum <= End(tbl[i])
      BY <1>1, <1>4, <2>1, UnitIn
    <2>3. Unit(tbl[i], k) < End(tbl[i])
      BY <2>1, <2>2
    <2>. QED BY <1>1, <1>2, <2>2, <2>3, OneChunk
  <1>. QED BY <1>3, <1>4

LEMMA ReleaseAttached ==
  ASSUME NEW tbl, NEW L, Good(tbl, L), NEW b \in L, NEW j \in DOMAIN tbl, In(tbl[j], b),
         NEW bits, Sums(tbl[j], bits), Attached(tbl, L)
  PROVE  Attached(Release(tbl, j, b.ptr, bits).tbl, L \ {b})
  <1>. DEFINE r == Release(tbl, j, b.ptr, bits)
              Fine(c, K) == /\ Small(c) => /\ c.map # {}
                                           /\ \A k \in c.map : \E d \in K : d.ptr = Unit(c, k)
                            /\ ~Small(c) => \E d \in K : In(c, d)
  <1>1. Whole(tbl, L, j, b, r) \/ \E k : OneUnit(tbl, j, b, r, k)
    BY ReleaseCases
  <1>. HIDE DEF r
  <1>2. tbl \in Seq(Chunks) /\ tbl[j] \in Chunks
    BY DEF Good, Typed
  <1>3. \A i \in DOMAIN tbl : i # j => Fine(tbl[i], L \ {b})
    <2>. SUFFICES ASSUME NEW i \in DOMAIN tbl, i # j PROVE Fine(tbl[i], L \ {b})
      OBVIOUS
    <2>1. /\ ~In(tbl[i], b)
          /\ Small(tbl[i]) => \A k \in tbl[i].map : b.ptr # Unit(tbl[i], k)
      BY Elsewhere
    <2>. QED BY <2>1 DEF Attached
  <1>4. CASE Whole(tbl, L, j, b, r)
    <2>1. r.tbl = RemoveAt(tbl, j)
      BY <1>4 DEF Whole
    <2>2. ASSUME NEW i \in DOMAIN RemoveAt(tbl, j) PROVE Fine(RemoveAt(tbl, j)[i], L \ {b})
      <3>1. PICK n \in DOMAIN tbl \ {j} : RemoveAt(tbl, j)[i] = tbl[n]
        BY <1>2, RemovedIs
      <3>. QED BY <1>3, <3>1
    <2>. QED BY <2>1, <2>2 DEF Attached, r
  <1>5. ASSUME NEW k, OneUnit(tbl, j, b, r, k) PROVE Attached(r.tbl, L \ {b})
    <2>. DEFINE d == Cleared(tbl[j], k)
    <2>1. /\ Small(tbl[j]) /\ k \in tbl[j].map /\ tbl[j].map # {k} /\ b.ptr = Unit(tbl[j], k)
          /\ r.tbl = [tbl EXCEPT ![j] = d]
      BY <1>5 DEF OneUnit
    <2>2. /\ (\A n : Unit(d, n) = Unit(tbl[j], n)) /\ (Small(d) <=> Small(tbl[j]))
          /\ d.map = tbl[j].map \ {k}
      BY <1>2, ClearedIs
    <2>. HIDE DEF d
    <2>3. /\ DOMAIN r.tbl = DOMAIN tbl /\ r.tbl[j] = d
          /\ \A i \in DOMAIN tbl : i # j => r.tbl[i] = tbl[i]
      BY <1>2, <2>1
    <2>4. d.map # {}
      BY <2>1, <2>2
    <2>5. ASSUME NEW n \in d.map PROVE \E e \in L \ {b} : e.ptr = Unit(d, n)
      <3>1. n \in tbl[j].map /\ n # k
        BY <2>2
      <3>2. PICK e \in L : e.ptr = Unit(tbl[j], n)
        BY <2>1, <3>1 DEF Attached
      <3>3. n \in 0..(Units - 1) /\ k \in 0..(Units - 1)
        BY <1>2, <2>1, <3>1, ChunkIs
      <3>4. Unit(tbl[j], n) # Unit(tbl[j], k)
        BY <1>2, <2>1, <3>1, <3>3, UnitIn
      <3>. QED BY <2>1, <2>2, <3>2, <3>4
    <2>6. Fine(d, L \ {b})
      BY <2>1, <2>2, <2>4, <2>5
    <2>7. \A i \in DOMAIN r.tbl : Fine(r.tbl[i], L \ {b})
      BY <1>3, <2>3, <2>6
    <2>. QED BY <2>7 DEF Attached
  <1>. QED BY <1>1, <1>4, <1>5 DEF r

LEMMA TakenCovered ==
  ASSUME NEW tbl \in Seq(Chunks), NEW s \in Sizes, NEW u, NEW t, With(tbl, u, s, t),
         NEW flag, NEW m, Covered(tbl, m)
  PROVE  Covered(t, m \union Backing(u, s, Quantum(s), flag))
  <1>. DEFINE c == u.tbl[u.j]
              d == Used(c, s, Quantum(s), u.k)
              back == Backing(u, s, Quantum(s), flag)
  <1>1. /\ DOMAIN t = DOMAIN tbl \union {u.j} /\ t[u.j] = d
        /\ \A i \in DOMAIN tbl : i # u.j => t[i] = tbl[i]
        /\ \A i \in DOMAIN tbl : u.tbl[i] = tbl[i]
        /\ c \in Chunks /\ c.quantum = Quantum(s) /\ u.k \in 0..(Units - 1)
        /\ u.fresh => u.j \notin DOMAIN tbl
        /\ ~u.fresh => u.j \in DOMAIN tbl /\ Small(tbl[u.j]) /\ u.tbl = tbl
    BY DEF With
  <1>2. /\ Middle(c) => Owned(d) = Owned(c) \union Pages(Unit(c, u.k), Quantum(s))
        /\ Small(c) /\ ~Middle(c) => Owned(d) = Owned(c) /\ Owned(c) = Pages(c.ptr, chunksize(Quantum(s)))
        /\ ~Small(c) => Owned(d) = Pages(c.ptr, RoundUp(s, ALLOCSIZE))
    BY <1>1, UsedOwned
  <1>3. /\ flag = "sparse" => back = {}
        /\ flag # "sparse" =>
             /\ Middle(c) => back = Pages(Unit(c, u.k), Quantum(s))
             /\ Small(c) /\ ~Middle(c) => back = IF u.fresh THEN Pages(c.ptr, chunksize(Quantum(s))) ELSE {}
             /\ ~Small(c) => back = Pages(c.ptr, RoundUp(s, ALLOCSIZE))
    BY <1>1, BackingIs
  <1>4. Middle(c) => Small(c)
    BY DEF Middle
  <1>5. u.j \in DOMAIN tbl => c = tbl[u.j] /\ Small(c)
    BY <1>1
  <1>. HIDE DEF c, d, back
  <1>6. back \subseteq Owned(d)
    BY <1>2, <1>3, <1>4
  <1>7. \A i \in DOMAIN tbl : Owned(tbl[i]) \subseteq Owned(t[i])
    <2>. SUFFICES ASSUME NEW i \in DOMAIN tbl PROVE Owned(tbl[i]) \subseteq Owned(t[i])
      OBVIOUS
    <2>1. CASE i # u.j
      BY <1>1, <2>1
    <2>2. CASE i = u.j
      <3>1. tbl[i] = c /\ t[i] = d /\ Small(c)
        BY <1>1, <1>5, <2>2
      <3>. QED BY <1>2, <3>1
    <2>. QED BY <2>1, <2>2
  <1>8. u.j \in DOMAIN t /\ t[u.j] = d /\ DOMAIN tbl \subseteq DOMAIN t
    BY <1>1
  <1>. SUFFICES ASSUME NEW x \in m \union back, x \notin Pages(ALLOCSIZE, PAGESIZE)
                PROVE  \E i \in DOMAIN t : x \in Owned(t[i])
    BY DEF Covered, back
  <1>9. CASE x \in back
    BY <1>6, <1>8, <1>9
  <1>10. CASE x \in m
    <2>1. PICK i \in DOMAIN tbl : x \in Owned(tbl[i])
      BY <1>10 DEF Covered
    <2>. QED BY <1>7, <1>8, <2>1
  <1>. QED BY <1>9, <1>10

LEMMA TakenAttached ==
  ASSUME NEW tbl, NEW L, Good(tbl, L), NEW s \in Sizes, Room(tbl, s), NEW u,
         Reused(tbl, u, Quantum(s)) \/ NewOne(tbl, u, s, Quantum(s)), Attached(tbl, L)
  PROVE  Attached(Taken(u, s, Quantum(s)), L \union {Block(Address(u, Quantum(s)), s)})
  <1>. DEFINE q == Quantum(s)
              t == Taken(u, s, q)
              new == Block(Address(u, q), s)
              K == L \union {new}
              c == u.tbl[u.j]
              d == Used(c, s, q, u.k)
  <1>1. tbl \in Seq(Chunks)
    BY DEF Good, Typed
  <1>2. With(tbl, u, s, t)
    BY <1>1, TakenIs
  <1>3. In(t[u.j], new)
    BY TakenGood
  <1>4. new.ptr = Address(u, q)
    BY DEF Block
  <1>. HIDE DEF t, new, q
  <1>5. /\ DOMAIN t = DOMAIN tbl \union {u.j} /\ t[u.j] = d
        /\ \A i \in DOMAIN tbl : i # u.j => t[i] = tbl[i]
        /\ c \in Chunks /\ c.quantum = q /\ u.k \in 0..(Units - 1)
        /\ u.fresh => c.map = {}
        /\ ~u.fresh => u.j \in DOMAIN tbl /\ u.tbl = tbl
    BY <1>2 DEF With, q
  <1>6. /\ (Small(d) <=> Small(c)) /\ (\A n : Unit(d, n) = Unit(c, n))
        /\ Small(c) => d.map = c.map \union {u.k}
    BY <1>5, UsedIs DEF q
  <1>7. Small(c) => Address(u, q) = Unit(c, u.k)
    BY <1>5 DEF Address, Small, Unit
  <1>8. ~Small(d) => \E b \in K : In(d, b)
    BY <1>3, <1>5
  <1>9. ASSUME Small(d) PROVE d.map # {} /\ \A k \in d.map : \E b \in K : b.ptr = Unit(d, k)
    <2>1. Small(c) /\ d.map = c.map \union {u.k}
      BY <1>6, <1>9
    <2>2. ASSUME NEW k \in d.map PROVE \E b \in K : b.ptr = Unit(d, k)
      <3>1. CASE k = u.k
        BY <1>4, <1>6, <1>7, <2>1, <3>1
      <3>2. CASE k # u.k
        <4>1. k \in c.map
          BY <2>1, <3>2
        <4>2. u.j \in DOMAIN tbl /\ c = tbl[u.j]
          BY <1>5, <4>1
        <4>3. \E b \in L : b.ptr = Unit(c, k)
          BY <2>1, <4>1, <4>2 DEF Attached
        <4>. QED BY <1>6, <4>3
      <3>. QED BY <3>1, <3>2
    <2>. QED BY <2>1, <2>2
  <1>. HIDE DEF c, d
  <1>10. ASSUME NEW i \in DOMAIN t
         PROVE  /\ Small(t[i]) => /\ t[i].map # {}
                                  /\ \A k \in t[i].map : \E b \in K : b.ptr = Unit(t[i], k)
                /\ ~Small(t[i]) => \E b \in K : In(t[i], b)
    <2>1. CASE i = u.j
      BY <1>5, <1>8, <1>9, <2>1
    <2>2. CASE i # u.j
      <3>1. i \in DOMAIN tbl /\ t[i] = tbl[i]
        BY <1>5, <2>2
      <3>. QED BY <3>1 DEF Attached
    <2>. QED BY <2>1, <2>2
  <1>. HIDE DEF K
  <1>11. Attached(t, K)
    BY <1>10 DEF Attached
  <1>. QED BY <1>11 DEF K, t, new, q

LEMMA KeptAttached ==
  ASSUME NEW tbl, NEW L, Good(tbl, L), NEW b \in L, NEW j \in DOMAIN tbl, In(tbl[j], b),
         Small(tbl[j]), NEW s, Attached(tbl, L)
  PROVE  Attached(tbl, (L \ {b}) \union {Block(b.ptr, s)})
  <1>. DEFINE K == (L \ {b}) \union {Block(b.ptr, s)}
  <1>1. \A d \in L : \E e \in K : e.ptr = d.ptr
    <2>1. Block(b.ptr, s).ptr = b.ptr
      BY DEF Block
    <2>. QED BY <2>1
  <1>2. \A d \in L \ {b} : d \in K
    OBVIOUS
  <1>. HIDE DEF K
  <1>. SUFFICES ASSUME NEW i \in DOMAIN tbl
                PROVE  /\ Small(tbl[i]) => /\ tbl[i].map # {}
                                           /\ \A k \in tbl[i].map : \E e \in K : e.ptr = Unit(tbl[i], k)
                       /\ ~Small(tbl[i]) => \E e \in K : In(tbl[i], e)
    BY DEF Attached, K
  <1>3. CASE Small(tbl[i])
    <2>1. ASSUME NEW k \in tbl[i].map PROVE \E e \in K : e.ptr = Unit(tbl[i], k)
      <3>1. PICK d \in L : d.ptr = Unit(tbl[i], k)
        BY <1>3 DEF Attached
      <3>2. PICK e \in K : e.ptr = d.ptr
        BY <1>1
      <3>. QED BY <3>1, <3>2
    <2>. QED BY <1>3, <2>1 DEF Attached
  <1>4. CASE ~Small(tbl[i])
    <2>1. PICK d \in L : In(tbl[i], d)
      BY <1>4 DEF Attached
    <2>2. d # b
      BY <1>4, <2>1, Elsewhere
    <2>. QED BY <1>2, <1>4, <2>1, <2>2
  <1>. QED BY <1>3, <1>4

Balanced(tbl, L, m) ==
  /\ Attached(tbl, L) /\ Covered(tbl, m)
  /\ tbl = << >> => m = {}

LEMMA CoveredMore ==
  ASSUME NEW tbl, NEW m, Covered(tbl, m)
  PROVE  Covered(tbl, m \union FirstMap)
  BY DEF Covered, FirstMap

LEMMA NotEmpty ==
  ASSUME NEW tbl, NEW L, Good(tbl, L), L # {}
  PROVE  tbl # << >>
  BY DEF Good, Held

LEMMA AllocBalanced ==
  ASSUME Good(chunk, live), FrontRoom, Counted, Balanced(chunk, live, mapped),
         NEW align \in Powers, NEW s \in Sizes, NEW flag,
         NEW old, old = {} \/ \E b \in live : old = {b},
         bzt_alloc(align, old, s, flag, "none"), Good(chunk', live')
  PROVE  Balanced(chunk', live', mapped')
  <1>. DEFINE q == Quantum(s)
              u == Asked(align, s)
              t == Taken(u, s, q)
              new == Block(Address(u, q), s)
              more == mapped \union FirstMap \union Backing(u, s, q, flag)
  <1>. HIDE DEF q, u, t, new
  <1>1. chunk \in Seq(Chunks) /\ Room(chunk, s)
    BY DEF Good, Typed, FrontRoom
  <1>2. Reused(chunk, u, q) \/ NewOne(chunk, u, s, q)
    BY <1>1, AskedIs DEF u, q
  <1>3. \/ Kept(u, s, q, old)
        \/ Full /\ Len(u.tbl) > MAXCHUNKS
        \/ Done(u, s, q, flag, old)
    BY AllocIs DEF u, q
  <1>4. With(chunk, u, s, t)
    BY <1>1, <1>2, TakenIs DEF t, q
  <1>5. Covered(chunk, mapped \union FirstMap)
    BY CoveredMore DEF Balanced
  <1>6. Covered(t, more)
    BY <1>1, <1>4, <1>5, TakenCovered DEF q
  <1>7. Attached(t, live \union {new})
    BY <1>1, <1>2, TakenAttached DEF t, q, new, Balanced
  <1>. HIDE DEF more
  <1>8. CASE Kept(u, s, q, old)
    <2>1. old # {}
      BY <1>8 DEF Kept, OldChunks
    <2>2. PICK b \in live : old = {b}
      BY <2>1
    <2>3. PICK j \in DOMAIN chunk : In(chunk[j], b) /\ OldChunks({b}) = {j}
      BY OldIs
    <2>4. /\ u.j = j /\ q < ALLOCSIZE /\ ~u.fresh /\ chunk' = chunk /\ mapped' = mapped
          /\ live' = (live \ {b}) \union {Block(b.ptr, s)}
      BY <1>8, <2>2, <2>3 DEF Kept
    <2>5. Small(chunk[j])
      BY <2>4, <1>2 DEF Reused, NewOne, Small
    <2>6. Attached(chunk, (live \ {b}) \union {Block(b.ptr, s)})
      BY <2>3, <2>5, KeptAttached DEF Balanced
    <2>. QED BY <2>4, <2>6 DEF Balanced
  <1>9. CASE Full /\ Len(u.tbl) > MAXCHUNKS
    <2>1. chunk # << >>
      <3>1. SUFFICES ASSUME chunk = << >> PROVE FALSE
        OBVIOUS
      <3>2. DOMAIN chunk = {} /\ Len(chunk) = 0
        BY <3>1
      <3>3. ~Reused(chunk, u, q)
        BY <3>2 DEF Reused
      <3>4. PICK p \in Nat : u.tbl = Append(chunk, Empty(q, p)) /\ Empty(q, p) \in Chunks
        BY <1>2, <3>3 DEF NewOne
      <3>5. Len(u.tbl) = 1
        BY <1>1, <3>2, <3>4, AppendProperties
      <3>. QED BY <1>9, <3>5, WidthAssumption
    <2>. QED BY <1>5, <1>9, <2>1 DEF Full, Balanced
  <1>10. CASE Done(u, s, q, flag, old)
    <2>1. chunk' # << >>
      <3>1. live' # {}
        BY <1>10 DEF Done
      <3>. QED BY <3>1, NotEmpty
    <2>2. CASE old = {}
      <3>1. OldChunks(old) = {}
        BY <2>2 DEF OldChunks
      <3>2. chunk' = t /\ mapped' = more /\ live' = live \union {new}
        BY <1>10, <2>2, <3>1 DEF Done, t, more, new
      <3>. QED BY <1>6, <1>7, <2>1, <3>2 DEF Balanced
    <2>3. ASSUME NEW b \in live, old = {b} PROVE Balanced(chunk', live', mapped')
      <3>1. ~(q < ALLOCSIZE /\ ~u.fresh /\ u.j \in OldChunks({b}))
        BY <1>10, <2>3 DEF Done
      <3>2. PICK j \in DOMAIN chunk :
               /\ In(chunk[j], b) /\ j \in DOMAIN t /\ t[j] = chunk[j]
               /\ OldChunks({b}) = {j}
               /\ Return(u, s, q, {b}) = Release(t, j, b.ptr, UintBits)
               /\ Sums(t[j], UintBits) /\ b \in live \union {new}
               /\ (live \union {new}) \ {b} = (live \ {b}) \union {new}
               /\ Good(t, live \union {new})
        BY <1>1, <1>2, <3>1, ReturnGood DEF t, q, new
      <3>3. /\ OldChunks({b}) # {} => chunk' = Return(u, s, q, {b}).tbl
            /\ OldChunks({b}) # {} => mapped' = more \ Return(u, s, q, {b}).unmap
            /\ live' = (live \ {b}) \union {new}
        BY <1>10, <2>3 DEF Done, more, new
      <3>4. Covered(Release(t, j, b.ptr, UintBits).tbl, more \ Release(t, j, b.ptr, UintBits).unmap)
        BY <1>6, <3>2, ReleaseCovered
      <3>5. Attached(Release(t, j, b.ptr, UintBits).tbl, (live \union {new}) \ {b})
        BY <1>7, <3>2, ReleaseAttached
      <3>. QED BY <2>1, <3>2, <3>3, <3>4, <3>5 DEF Balanced
    <2>. QED BY <2>2, <2>3
  <1>. QED BY <1>3, <1>8, <1>9, <1>10

LEMMA FreeBalanced ==
  ASSUME Good(chunk, live), Counted, Balanced(chunk, live, mapped), NEW b \in live, bzt_free(b)
  PROVE  Balanced(chunk', live', mapped')
  <1>1. PICK j \in DOMAIN chunk : In(chunk[j], b) /\ Owners(chunk, b.ptr) = {j}
    BY OldIs
  <1>2. j \in Nat
    BY DEF Good, Typed
  <1>3. Min(Owners(chunk, b.ptr)) = j /\ Owners(chunk, b.ptr) # {}
    BY <1>1, <1>2, OneIs
  <1>. DEFINE r == Release(chunk, j, b.ptr, WordBits)
  <1>4. /\ chunk' = r.tbl /\ live' = live \ {b}
        /\ mapped' = (mapped \ r.unmap) \ (IF r.tbl = << >> THEN Pages(ALLOCSIZE, ALLOCSIZE) ELSE {})
    BY <1>3 DEF bzt_free
  <1>5. Sums(chunk[j], WordBits)
    BY DEF Counted
  <1>6. Covered(r.tbl, mapped \ r.unmap) /\ Attached(r.tbl, live \ {b})
    BY <1>1, <1>5, ReleaseCovered, ReleaseAttached DEF Balanced
  <1>. HIDE DEF r
  <1>7. CASE r.tbl = << >>
    <2>1. Pages(ALLOCSIZE, PAGESIZE) \subseteq Pages(ALLOCSIZE, ALLOCSIZE)
      BY WidthsAre, PagesInside
    <2>2. mapped' = {}
      BY <1>4, <1>6, <1>7, <2>1 DEF Covered
    <2>3. Covered(r.tbl, {})
      BY DEF Covered
    <2>. QED BY <1>4, <1>6, <1>7, <2>2, <2>3 DEF Balanced
  <1>8. CASE r.tbl # << >>
    BY <1>4, <1>6, <1>8 DEF Balanced
  <1>. QED BY <1>7, <1>8

Returned == failed \in Nat /\ (failed = 0 => Balanced(chunk, live, mapped))

LEMMA StepReturned ==
  ASSUME Good(chunk, live), FrontRoom, Counted, Returned, [HeapNext]_heapvars
  PROVE  Returned'
  <1>0. Good(chunk', live')
    BY StepGood
  <1>1. CASE HeapNext
    <2>1. failed \in Nat /\ failed' \in Nat
      BY <1>1, NoneFailed DEF Returned
    <2>2. SUFFICES ASSUME failed' = 0 PROVE Balanced(chunk', live', mapped')
      BY <2>1 DEF Returned, Balanced, Attached, Covered
    <2>3. Balanced(chunk, live, mapped)
      BY <1>1, <2>1, <2>2, NoneFailed DEF Returned
    <2>4. ASSUME NEW align \in Powers, NEW s \in Sizes, NEW flag,
                 NEW old \in {{}} \union {{b} : b \in live}, bzt_alloc(align, old, s, flag, "none")
          PROVE  Balanced(chunk', live', mapped')
      <3>1. old = {} \/ \E b \in live : old = {b}
        OBVIOUS
      <3>. QED BY <1>0, <2>3, <2>4, <3>1, AllocBalanced
    <2>5. ASSUME NEW b \in live, bzt_free(b) PROVE Balanced(chunk', live', mapped')
      BY <2>3, <2>5, FreeBalanced
    <2>. QED BY <1>1, <2>1, <2>2, <2>4, <2>5, NoneFailed
  <1>2. CASE UNCHANGED heapvars
    BY <1>2 DEF heapvars, Returned, Balanced, Attached, Covered
  <1>. QED BY <1>1, <1>2

(* A program that has nothing left keeps no page: every mapped page is the *)
(* allocmap's or there for a block (bzt_free and the end of bzt_alloc).    *)
THEOREM PagesReturned == HeapSpec /\ []FrontRoom /\ []Counted => []AllReturned
  <1>1. HeapInit => Returned
    BY DEF HeapInit, Returned, Balanced, Attached, Covered
  <1>2. Good(chunk, live) /\ FrontRoom /\ Counted /\ Returned /\ [HeapNext]_heapvars => Returned'
    BY StepReturned
  <1>3. Good(chunk, live) /\ Returned => AllReturned
    <2>. SUFFICES ASSUME Good(chunk, live), Returned, live = {}, failed = 0 PROVE mapped = {}
      BY DEF AllReturned
    <2>1. Balanced(chunk, live, mapped) /\ chunk \in Seq(Chunks)
      BY DEF Returned, Good, Typed
    <2>2. DOMAIN chunk = {}
      BY <2>1 DEF Balanced, Attached
    <2>3. chunk = << >>
      BY <2>1, <2>2
    <2>. QED BY <2>1, <2>3 DEF Balanced
  <1>. QED BY <1>1, <1>2, <1>3, AlwaysGood, PTL DEF HeapSpec
=============================================================================
