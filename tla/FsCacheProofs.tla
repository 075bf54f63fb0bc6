--------------------------- MODULE FsCacheProofs ----------------------------
(***************************************************************************)
(* Proofs about the block cache, for any disks, number of lines and of     *)
(* blocks, and any order in which reads, writes, flushes and the answers   *)
(* of the drivers cross.                                                   *)
(***************************************************************************)
EXTENDS FsCache, Induction, FiniteSetTheorems, SequenceTheorems, TLAPS

-----------------------------------------------------------------------------
(* Sets enumerated in order *)

Order(S, R) ==
    /\ \A x \in S : <<x, x>> \notin R
    /\ \A x, y \in S : x = y \/ <<x, y>> \in R \/ <<y, x>> \in R
    /\ \A x, y, z \in S : <<x, y>> \in R /\ <<y, z>> \in R => <<x, z>> \in R

Below(S, R, x) == {y \in S : <<y, x>> \in R}

(* Who comes later has more members below. *)
LEMMA BelowGrows ==
  ASSUME NEW S, IsFiniteSet(S), NEW R, Order(S, R)
  PROVE  /\ \A x \in S : IsFiniteSet(Below(S, R, x)) /\ Cardinality(Below(S, R, x)) \in Nat
         /\ \A x, y \in S : <<y, x>> \in R =>
                Cardinality(Below(S, R, y)) < Cardinality(Below(S, R, x))
  <1>1. ASSUME NEW x \in S
        PROVE  IsFiniteSet(Below(S, R, x)) /\ Cardinality(Below(S, R, x)) \in Nat
    <2>1. Below(S, R, x) \subseteq S
      BY DEF Below
    <2>. QED BY <2>1, FS_Subset, FS_CardinalityType
  <1>2. ASSUME NEW x \in S, NEW y \in S, <<y, x>> \in R
        PROVE  Cardinality(Below(S, R, y)) < Cardinality(Below(S, R, x))
    <2>. DEFINE B == Below(S, R, x)
                C == Below(S, R, y)
    <2>1. C \subseteq B /\ y \in B /\ y \notin C
      BY <1>2 DEF Below, Order
    <2>2. IsFiniteSet(B) /\ Cardinality(B) \in Nat
      BY <1>1
    <2>. HIDE DEF B, C
    <2>3. Cardinality(C) <= Cardinality(B) /\ (Cardinality(C) = Cardinality(B) => C = B)
      BY <2>1, <2>2, FS_Subset
    <2>4. IsFiniteSet(C) /\ Cardinality(C) \in Nat
      BY <2>1, <2>2, FS_Subset, FS_CardinalityType
    <2>. QED BY <2>1, <2>2, <2>3, <2>4 DEF B, C
  <1>. QED BY <1>1, <1>2

(* A nonempty part of an ordered set has a member that comes first. *)
LEMMA FirstIs ==
  ASSUME NEW S, IsFiniteSet(S), NEW R, Order(S, R), NEW T \in SUBSET S, T # {}
  PROVE  \E x \in T : \A y \in T : <<y, x>> \notin R
  <1>. DEFINE N == {Cardinality(Below(S, R, x)) : x \in T}
  <1>1. N \in SUBSET Nat /\ N # {}
    BY BelowGrows
  <1>2. Min(N) \in N /\ \A n \in N : Min(N) <= n
    <2>. HIDE DEF N
    <2>. QED BY <1>1, MinIs
  <1>3. PICK x \in T : Min(N) = Cardinality(Below(S, R, x))
    BY <1>2
  <1>4. ASSUME NEW y \in T, <<y, x>> \in R PROVE FALSE
    <2>1. Cardinality(Below(S, R, y)) < Cardinality(Below(S, R, x))
      BY <1>4, BelowGrows
    <2>2. Cardinality(Below(S, R, x)) <= Cardinality(Below(S, R, y))
      BY <1>2, <1>3
    <2>3. Cardinality(Below(S, R, x)) \in Nat /\ Cardinality(Below(S, R, y)) \in Nat
      BY BelowGrows
    <2>. QED BY <2>1, <2>2, <2>3
  <1>. QED BY <1>4

(* Enumerate goes through all members of a set in their order. *)
LEMMA EnumerateIs ==
  ASSUME NEW S, IsFiniteSet(S), NEW R, Order(S, R)
  PROVE  /\ Cardinality(S) \in Nat
         /\ DOMAIN Enumerate(S, R) = 1..Cardinality(S)
         /\ \A n \in 1..Cardinality(S) : Enumerate(S, R)[n] \in S
         /\ \A n, m \in 1..Cardinality(S) :
                n < m => <<Enumerate(S, R)[n], Enumerate(S, R)[m]>> \in R
  <1>. DEFINE c == Cardinality(S)
              e == Enumerate(S, R)
              Rank(x) == Cardinality(Below(S, R, x))
              N == {n \in Nat : n < c => \E x \in S : Rank(x) = n}
  <1>0. c \in Nat
    BY FS_CardinalityType
  <1>1. 0 \in N
    <2>. SUFFICES ASSUME 0 < c PROVE \E x \in S : Rank(x) = 0
      OBVIOUS
    <2>1. S # {}
      BY FS_EmptySet
    <2>2. PICK x \in S : \A y \in S : <<y, x>> \notin R
      BY <2>1, FirstIs
    <2>3. Below(S, R, x) = {}
      BY <2>2 DEF Below
    <2>. QED BY <2>3, FS_EmptySet
  <1>2. ASSUME NEW n \in Nat, n \in N PROVE n + 1 \in N
    <2>. SUFFICES ASSUME n + 1 < c PROVE \E x \in S : Rank(x) = n + 1
      OBVIOUS
    <2>1. PICK x \in S : Rank(x) = n
      BY <1>0, <1>2
    <2>. DEFINE B == Below(S, R, x)
                T == {z \in S : <<x, z>> \in R}
    <2>2. x \notin B /\ B \subseteq S /\ IsFiniteSet(B)
      BY BelowGrows DEF Below, Order
    <2>3. Cardinality(B \cup {x}) = n + 1
      <3>. HIDE DEF B
      <3>. QED BY <2>1, <2>2, FS_AddElement DEF B
    <2>4. T # {}
      <3>. SUFFICES ASSUME T = {} PROVE FALSE
        OBVIOUS
      <3>1. S = B \cup {x}
        BY DEF Order, Below
      <3>. QED BY <1>0, <2>3, <3>1
    <2>5. PICK z \in T : \A y \in T : <<y, z>> \notin R
      <3>. HIDE DEF T
      <3>1. T \in SUBSET S
        BY DEF T
      <3>. QED BY <2>4, <3>1, FirstIs
    <2>6. Below(S, R, z) = B \cup {x}
      <3>1. ASSUME NEW y \in S, <<y, z>> \in R PROVE y \in B \cup {x}
        BY <2>5, <3>1 DEF Order, Below
      <3>2. ASSUME NEW y \in B \cup {x} PROVE y \in S /\ <<y, z>> \in R
        BY <2>5, <3>2 DEF Order, Below
      <3>. QED BY <3>1, <3>2 DEF Below
    <2>. QED BY <2>3, <2>6
  <1>3. Nat \subseteq N
    <2>. HIDE DEF N
    <2>. QED BY <1>1, <1>2, InductionSet
  <1>4. e = [n \in 1..c |-> CHOOSE x \in S : Rank(x) = n - 1]
    BY DEF Enumerate, Below
  <1>5. ASSUME NEW n \in 1..c PROVE e[n] \in S /\ Rank(e[n]) = n - 1
    <2>1. \E x \in S : Rank(x) = n - 1
      BY <1>0, <1>3
    <2>2. e[n] = CHOOSE x \in S : Rank(x) = n - 1
      BY <1>4
    <2>. HIDE DEF Rank, e
    <2>. QED BY <2>1, <2>2, Zenon
  <1>6. ASSUME NEW n \in 1..c, NEW m \in 1..c, n < m PROVE <<e[n], e[m]>> \in R
    <2>1. e[n] \in S /\ e[m] \in S /\ Rank(e[n]) = n - 1 /\ Rank(e[m]) = m - 1
      BY <1>5
    <2>2. Rank(e[n]) < Rank(e[m])
      BY <1>0, <1>6, <2>1
    <2>3. Rank(e[n]) \in Nat /\ Rank(e[m]) \in Nat
      BY <2>1, BelowGrows
    <2>4. e[n] # e[m]
      BY <2>2, <2>3
    <2>5. <<e[m], e[n]>> \in R => Rank(e[m]) < Rank(e[n])
      BY <2>1, BelowGrows
    <2>. HIDE DEF e, Rank
    <2>. QED BY <2>1, <2>2, <2>3, <2>4, <2>5 DEF Order
  <1>. QED BY <1>0, <1>4, <1>5, <1>6

(* Where the blocks are that are kept of a line. *)
Places(K) == Enumerate(K, {p \in K \X K : p[1] < p[2]})

(* The blocks that are kept, each from a place of its own. *)
LEMMA KeptIs ==
  ASSUME NEW E, NEW s \in Seq(E), NEW K \in SUBSET (DOMAIN s)
  PROVE  /\ Kept(s, K) \in Seq(E)
         /\ \A i \in DOMAIN Kept(s, K) :
               Places(K)[i] \in K /\ Kept(s, K)[i] = s[Places(K)[i]]
         /\ \A i, j \in DOMAIN Kept(s, K) : Places(K)[i] = Places(K)[j] => i = j
  <1>. DEFINE R == {p \in K \X K : p[1] < p[2]}
              e == Enumerate(K, R)
              c == Cardinality(K)
  <1>1. IsFiniteSet(K) /\ K \subseteq Nat
    <2>1. DOMAIN s = 1..Len(s) /\ Len(s) \in Nat
      OBVIOUS
    <2>2. IsFiniteSet(1..Len(s))
      BY <2>1, FS_Interval
    <2>. QED BY <2>1, <2>2, FS_Subset
  <1>2. Order(K, R)
    <2>1. \A x, y \in K : <<x, y>> \in R <=> x < y
      OBVIOUS
    <2>2. \A x \in K : x \in Nat
      BY <1>1
    <2>. HIDE DEF R
    <2>. QED BY <2>1, <2>2 DEF Order
  <1>3. /\ c \in Nat /\ DOMAIN e = 1..c
        /\ \A n \in 1..c : e[n] \in K
        /\ \A n, m \in 1..c : n < m => <<e[n], e[m]>> \in R
    <2>. HIDE DEF R
    <2>. QED BY <1>1, <1>2, EnumerateIs
  <1>4. Kept(s, K) = [n \in 1..c |-> s[e[n]]]
    BY <1>3 DEF Kept
  <1>5. \A n, m \in 1..c : n < m => e[n] < e[m]
    BY <1>3
  <1>. HIDE DEF e, R
  <1>6. \A n \in 1..c : s[e[n]] \in E
    BY <1>3
  <1>7. Kept(s, K) \in Seq(E)
    BY <1>3, <1>4, <1>6, IsASeq
  <1>8. e = Places(K)
    BY DEF e, R, Places
  <1>9. ASSUME NEW i \in 1..c, NEW j \in 1..c, e[i] = e[j] PROVE i = j
    <2>1. e[i] \in Nat /\ e[j] \in Nat
      BY <1>1, <1>3
    <2>. QED BY <1>3, <1>5, <1>9, <2>1
  <1>10. DOMAIN Kept(s, K) = 1..c
    BY <1>4
  <1>. QED BY <1>3, <1>4, <1>7, <1>8, <1>9, <1>10

-----------------------------------------------------------------------------
(* Lines of the cache *)

Entry == [dev : Disk, lsn : Lsn, prio : 0..4, val : 0..MaxVal]
Block == Disk \X Lsn
Version == [Block -> 0..MaxVal]
Key(e) == <<e.dev, e.lsn>>

(* A line has the blocks of its number, each once, and a dirty one holds   *)
(* what was last written to it.                                            *)
LineOK(s, j, new) ==
    /\ s \in Seq(Entry)
    /\ \A k \in DOMAIN s : LineOf(s[k].lsn) = j
    /\ \A k, m \in DOMAIN s : s[k].dev = s[m].dev /\ s[k].lsn = s[m].lsn => k = m
    /\ \A k \in DOMAIN s : s[k].prio # 0 => s[k].val = new[Key(s[k])]

LinesOK(l, new) ==
    /\ l \in [Line -> Seq(Entry)]
    /\ \A j \in Line : LineOK(l[j], j, new)

(* The line of a block is a line. *)
LEMMA LineOfType ==
  ASSUME NEW lsn \in Lsn
  PROVE  LineOf(lsn) \in Line
  <1>1. lsn \in Nat /\ cachelines \in Nat \ {0}
    BY DiskAssumption DEF Lsn
  <1>2. lsn % cachelines \in 0..(cachelines - 1)
    BY <1>1
  <1>. QED BY <1>2 DEF LineOf, Line

(* A line made of blocks of another, each once, of which some are clean. *)
Derived(t, s, g) ==
    /\ \A i \in DOMAIN t : g[i] \in DOMAIN s
    /\ \A i, m \in DOMAIN t : g[i] = g[m] => i = m
    /\ \A i \in DOMAIN t :
           /\ t[i].dev = s[g[i]].dev /\ t[i].lsn = s[g[i]].lsn
           /\ t[i].prio = 0 \/ (t[i].prio = s[g[i]].prio /\ t[i].val = s[g[i]].val)

(* Such a line is as it should be when the other one is. *)
LEMMA DerivedOK ==
  ASSUME NEW s, NEW j, NEW new, LineOK(s, j, new), NEW t \in Seq(Entry), NEW g,
         Derived(t, s, g)
  PROVE  LineOK(t, j, new)
  <1>1. ASSUME NEW k \in DOMAIN t PROVE LineOf(t[k].lsn) = j
    <2>1. LineOf(s[g[k]].lsn) = j
      BY DEF LineOK, Derived
    <2>2. t[k].lsn = s[g[k]].lsn
      BY DEF Derived
    <2>. QED BY <2>1, <2>2, Zenon
  <1>2. \A k, m \in DOMAIN t : t[k].dev = t[m].dev /\ t[k].lsn = t[m].lsn => k = m
    BY DEF LineOK, Derived
  <1>3. \A k \in DOMAIN t : t[k].prio # 0 => t[k].val = new[Key(t[k])]
    BY DEF LineOK, Derived, Key
  <1>. QED BY <1>1, <1>2, <1>3 DEF LineOK

(* A line of which some blocks are kept. *)
LEMMA KeptOK ==
  ASSUME NEW s, NEW j, NEW new, LineOK(s, j, new), NEW K \in SUBSET (DOMAIN s)
  PROVE  LineOK(Kept(s, K), j, new)
  <1>. DEFINE t == Kept(s, K)
              g == Places(K)
  <1>0. s \in Seq(Entry)
    BY DEF LineOK
  <1>1. /\ t \in Seq(Entry)
        /\ \A i \in DOMAIN t : g[i] \in K /\ t[i] = s[g[i]]
        /\ \A i, m \in DOMAIN t : g[i] = g[m] => i = m
    BY <1>0, KeptIs
  <1>. HIDE DEF t, g
  <1>2. \A i \in DOMAIN t : g[i] \in DOMAIN s
    BY <1>1
  <1>3. \A i \in DOMAIN t :
             /\ t[i].dev = s[g[i]].dev /\ t[i].lsn = s[g[i]].lsn
             /\ t[i].prio = 0 \/ (t[i].prio = s[g[i]].prio /\ t[i].val = s[g[i]].val)
    BY <1>1, Zenon
  <1>4. LineOK(t, j, new)
    <2>1. Derived(t, s, g)
      BY <1>1, <1>2, <1>3, Zenon DEF Derived
    <2>. QED BY <1>1, <2>1, DerivedOK
  <1>. QED BY <1>4 DEF t

(* A sequence without its element k. *)
LEMMA RemoveAtIs ==
  ASSUME NEW E, NEW s \in Seq(E), NEW k \in DOMAIN s
  PROVE  /\ RemoveAt(s, k) \in Seq(E) /\ Len(RemoveAt(s, k)) = Len(s) - 1
         /\ \A i \in 1..(Len(s) - 1) : RemoveAt(s, k)[i] = s[IF i < k THEN i ELSE i + 1]
  <1>. DEFINE n == Len(s)
              a == SubSeq(s, 1, k - 1)
              b == SubSeq(s, k + 1, n)
  <1>1. n \in Nat /\ k \in 1..n /\ DOMAIN s = 1..n
    OBVIOUS
  <1>2. a \in Seq(E) /\ Len(a) = k - 1 /\ \A i \in 1..(k - 1) : a[i] = s[i]
    BY <1>1, SubSeqProperties
  <1>3. b \in Seq(E) /\ Len(b) = n - k /\ \A i \in 1..(n - k) : b[i] = s[i + k]
    BY <1>1, SubSeqProperties
  <1>4. RemoveAt(s, k) = a \o b
    BY DEF RemoveAt
  <1>. HIDE DEF a, b
  <1>5. Len(a \o b) = n - 1 /\ a \o b \in Seq(E)
    <2>1. Len(a \o b) = Len(a) + Len(b) /\ a \o b \in Seq(E)
      BY <1>2, <1>3, ConcatProperties
    <2>. HIDE DEF n
    <2>. QED BY <1>1, <1>2, <1>3, <2>1
  <1>6. ASSUME NEW i \in 1..(n - 1) PROVE (a \o b)[i] = s[IF i < k THEN i ELSE i + 1]
    <2>1. CASE i < k
      BY <1>1, <1>2, <1>3, <2>1
    <2>2. CASE ~(i < k)
      <3>1. (a \o b)[i] = b[i - (k - 1)]
        BY <1>1, <1>2, <1>3, <2>2
      <3>2. i - (k - 1) \in 1..(n - k) /\ (i - (k - 1)) + k = i + 1
        BY <1>1, <2>2
      <3>. QED BY <1>3, <2>2, <3>1, <3>2
    <2>. QED BY <2>1, <2>2
  <1>. QED BY <1>1, <1>4, <1>5, <1>6

(* A line without one of its blocks. *)
LEMMA RemovedOK ==
  ASSUME NEW s, NEW j, NEW new, LineOK(s, j, new), NEW k \in DOMAIN s
  PROVE  /\ LineOK(RemoveAt(s, k), j, new)
         /\ \A i \in DOMAIN RemoveAt(s, k) :
               Key(RemoveAt(s, k)[i]) # Key(s[k])
  <1>. DEFINE t == RemoveAt(s, k)
              g == [i \in DOMAIN t |-> IF i < k THEN i ELSE i + 1]
              n == Len(s)
  <1>0. s \in Seq(Entry) /\ n \in Nat /\ DOMAIN s = 1..n /\ k \in 1..n
    BY DEF LineOK
  <1>1. t \in Seq(Entry) /\ Len(t) = n - 1 /\ DOMAIN t = 1..(n - 1)
    <2>1. t \in Seq(Entry) /\ Len(t) = n - 1
      BY <1>0, RemoveAtIs
    <2>. HIDE DEF t, n
    <2>. QED BY <2>1
  <1>2. \A i \in DOMAIN t : t[i] = s[g[i]] /\ g[i] \in DOMAIN s /\ g[i] # k
    <2>1. \A i \in 1..(n - 1) : t[i] = s[IF i < k THEN i ELSE i + 1]
      BY <1>0, RemoveAtIs
    <2>. HIDE DEF t, n
    <2>. QED BY <1>0, <1>1, <2>1
  <1>3. \A i, m \in DOMAIN t : g[i] = g[m] => i = m
    BY <1>0, <1>1
  <1>. HIDE DEF t, g
  <1>6. \A i \in DOMAIN t :
             /\ t[i].dev = s[g[i]].dev /\ t[i].lsn = s[g[i]].lsn
             /\ t[i].prio = 0 \/ (t[i].prio = s[g[i]].prio /\ t[i].val = s[g[i]].val)
    BY <1>2, Zenon
  <1>7. \A i \in DOMAIN t : g[i] \in DOMAIN s
    BY <1>2, Zenon
  <1>4. LineOK(t, j, new)
    <2>1. Derived(t, s, g)
      BY <1>3, <1>6, <1>7, Zenon DEF Derived
    <2>. QED BY <1>1, <2>1, DerivedOK
  <1>5. \A i \in DOMAIN t : Key(t[i]) # Key(s[k])
    BY <1>2 DEF LineOK, Key
  <1>. QED BY <1>4, <1>5 DEF t

(* A line with a new block in front. *)
LEMMA LinkedOK ==
  ASSUME NEW s, NEW j, NEW new, LineOK(s, j, new), NEW e \in Entry, LineOf(e.lsn) = j,
         \A i \in DOMAIN s : Key(s[i]) # Key(e), e.prio # 0 => e.val = new[Key(e)]
  PROVE  LineOK(<<e>> \o s, j, new)
  <1>. DEFINE t == <<e>> \o s
              n == Len(s)
  <1>0. s \in Seq(Entry) /\ n \in Nat /\ DOMAIN s = 1..n
    BY DEF LineOK
  <1>1. t \in Seq(Entry) /\ DOMAIN t = 1..(n + 1) /\ t[1] = e
        /\ \A i \in 1..n : t[i + 1] = s[i]
    BY <1>0
  <1>. HIDE DEF t
  <1>2. \A i \in DOMAIN t : i = 1 \/ (i - 1 \in DOMAIN s /\ t[i] = s[i - 1])
    <2>. SUFFICES ASSUME NEW i \in 1..(n + 1), i # 1 PROVE i - 1 \in 1..n /\ t[i] = s[i - 1]
      BY <1>0, <1>1
    <2>1. i - 1 \in 1..n /\ (i - 1) + 1 = i
      BY <1>0
    <2>. QED BY <1>1, <2>1
  <1>3. \A i \in DOMAIN t : LineOf(t[i].lsn) = j
    BY <1>1, <1>2 DEF LineOK
  <1>4. \A i \in DOMAIN t : t[i].prio # 0 => t[i].val = new[Key(t[i])]
    BY <1>1, <1>2 DEF LineOK
  <1>5. ASSUME NEW i \in DOMAIN t, NEW m \in DOMAIN t, t[i].dev = t[m].dev, t[i].lsn = t[m].lsn
        PROVE  i = m
    <2>1. CASE i = 1 /\ m # 1
      BY <1>1, <1>2, <1>5, <2>1 DEF Key
    <2>2. CASE i # 1 /\ m = 1
      BY <1>1, <1>2, <1>5, <2>2 DEF Key
    <2>3. CASE i # 1 /\ m # 1
      <3>1. i - 1 = m - 1
        BY <1>2, <1>5, <2>3 DEF LineOK
      <3>. QED BY <1>0, <1>1, <3>1
    <2>. QED BY <2>1, <2>2, <2>3
  <1>6. LineOK(t, j, new)
    BY <1>1, <1>3, <1>4, <1>5 DEF LineOK
  <1>. QED BY <1>6 DEF t

(* A block that is not in the line has a new version. *)
LEMMA NewerOK ==
  ASSUME NEW s, NEW j, NEW new \in Version, LineOK(s, j, new), NEW b \in Block, NEW v,
         \A i \in DOMAIN s : Key(s[i]) # b
  PROVE  LineOK(s, j, [new EXCEPT ![b] = v])
  <1>1. \A i \in DOMAIN s : s[i] \in Entry
    BY DEF LineOK
  <1>2. \A i \in DOMAIN s : Key(s[i]) \in Block
    BY <1>1 DEF Key, Block, Entry
  <1>3. \A i \in DOMAIN s : [new EXCEPT ![b] = v][Key(s[i])] = new[Key(s[i])]
    BY <1>2 DEF Version
  <1>. QED BY <1>3 DEF LineOK

-----------------------------------------------------------------------------
(* The whole cache *)

(* The cache has finitely many blocks. *)
LEMMA BlocksFinite ==
  ASSUME NEW l \in [Line -> Seq(Entry)]
  PROVE  IsFiniteSet(Blocks(l))
  <1>. DEFINE P(j) == {j} \X DOMAIN l[j]
              S == {P(j) : j \in Line}
  <1>1. IsFiniteSet(Line)
    <2>1. 0 \in Int /\ cachelines - 1 \in Int
      BY DiskAssumption
    <2>. QED BY <2>1, FS_Interval DEF Line
  <1>2. IsFiniteSet(S)
    <2>. DEFINE f == [j \in Line |-> P(j)]
    <2>1. f \in [Line -> S] /\ \A x \in S : \E j \in Line : f[j] = x
      OBVIOUS
    <2>2. f \in Surjection(Line, S)
      <3>. HIDE DEF f, S
      <3>. QED BY <2>1 DEF Surjection
    <2>. HIDE DEF f, S
    <2>. QED BY <1>1, <2>2, FS_Surjection
  <1>3. ASSUME NEW x \in S PROVE IsFiniteSet(x)
    <2>1. PICK j \in Line : x = P(j)
      BY <1>3
    <2>2. DOMAIN l[j] = 1..Len(l[j]) /\ Len(l[j]) \in Nat
      OBVIOUS
    <2>3. IsFiniteSet(DOMAIN l[j])
      BY <2>2, FS_Interval
    <2>4. IsFiniteSet({j})
      BY FS_Singleton
    <2>. QED BY <2>1, <2>3, <2>4, FS_Product
  <1>4. IsFiniteSet(UNION S)
    <2>. HIDE DEF S
    <2>. QED BY <1>2, <1>3, FS_UNION
  <1>. QED BY <1>4 DEF Blocks

(* A place of a block is a line and a position in it. *)
LEMMA BlocksAre ==
  ASSUME NEW l, NEW x \in Blocks(l)
  PROVE  x[1] \in Line /\ x[2] \in DOMAIN l[x[1]] /\ x = <<x[1], x[2]>>
  BY DEF Blocks

(* The blocks of a device are freed, in some of the lines. *)
LEMMA FreeblocksOK ==
  ASSUME NEW l, NEW new, LinesOK(l, new), NEW d, NEW needed
  PROVE  /\ cache_freeblocks(l, d, needed).cnt \in Nat
         /\ LinesOK(cache_freeblocks(l, d, needed).line, new)
  <1>. DEFINE Of(J) == {x \in Blocks(l) : x[1] \in J /\ l[x[1]][x[2]].dev = d}
              reached == {j \in Line : needed = 0 \/ Cardinality(Of({i \in Line : i > j})) < needed}
              left(j) == {k \in DOMAIN l[j] : l[j][k].dev # d}
              m == [j \in Line |-> IF j \in reached THEN Kept(l[j], left(j)) ELSE l[j]]
  <1>1. cache_freeblocks(l, d, needed) = [cnt |-> Cardinality(Of(reached)), line |-> m]
    BY DEF cache_freeblocks
  <1>2. IsFiniteSet(Blocks(l))
    BY BlocksFinite DEF LinesOK
  <1>3. Cardinality(Of(reached)) \in Nat
    <2>1. Of(reached) \subseteq Blocks(l)
      OBVIOUS
    <2>. HIDE DEF Of, reached
    <2>. QED BY <1>2, <2>1, FS_Subset, FS_CardinalityType
  <1>4. ASSUME NEW j \in Line PROVE LineOK(Kept(l[j], left(j)), j, new)
    <2>1. LineOK(l[j], j, new) /\ left(j) \in SUBSET (DOMAIN l[j])
      BY DEF LinesOK
    <2>. HIDE DEF left
    <2>. QED BY <2>1, KeptOK
  <1>. HIDE DEF Of, reached, left
  <1>5. ASSUME NEW j \in Line PROVE LineOK(m[j], j, new)
    BY <1>4 DEF LinesOK
  <1>6. LinesOK(m, new)
    <2>1. \A j \in Line : m[j] \in Seq(Entry)
      BY <1>5, Zenon DEF LineOK
    <2>2. m \in [Line -> Seq(Entry)]
      BY <2>1
    <2>. HIDE DEF m
    <2>. QED BY <1>5, <2>2 DEF LinesOK
  <1>. HIDE DEF m
  <1>. QED BY <1>1, <1>3, <1>6

(* The device used longest ago is a device. *)
LEMMA LastusedIs ==
  ASSUME NEW r \in [0..(NDev - 1) -> Nat]
  PROVE  devfs_lastused(r) \in 0..(NDev - 1)
  <1>. DEFINE old == {i \in DOMAIN r : r[i] < last /\ r[i] # 0}
              V == {r[i] : i \in old}
              P(i) == \A k \in old : r[i] <= r[k]
  <1>1. CASE old = {}
    BY <1>1, DiskAssumption DEF devfs_lastused
  <1>2. CASE old # {}
    <2>1. V \in SUBSET Nat /\ V # {}
      BY <1>2
    <2>2. Min(V) \in V /\ \A v \in V : Min(V) <= v
      <3>. HIDE DEF V
      <3>. QED BY <2>1, MinIs
    <2>3. \E i \in old : P(i)
      <3>1. PICK i \in old : r[i] = Min(V)
        BY <2>2
      <3>. QED BY <2>2, <3>1
    <2>4. (CHOOSE i \in old : P(i)) \in old
      <3>. HIDE DEF P, old
      <3>. QED BY <2>3, Zenon
    <2>5. devfs_lastused(r) = CHOOSE i \in old : P(i)
      BY <1>2 DEF devfs_lastused
    <2>. QED BY <2>4, <2>5
  <1>. QED BY <1>1, <1>2

(* Memory is given back: what is left of the cache is as it was. *)
LEMMA FreeOK ==
  ASSUME NEW l, NEW new, LinesOK(l, new), recent \in [0..(NDev - 1) -> Nat]
  PROVE  /\ LinesOK(cache_free(l).line, new)
         /\ cache_free(l).recent \in [0..(NDev - 1) -> Nat]
  <1>. DEFINE half == Cardinality(Blocks(l)) \div 2
              Take(acc) ==
                IF acc.cnt >= half \/ acc.i = acc.k THEN acc
                ELSE LET k == devfs_lastused(acc.recent)
                         f == cache_freeblocks(acc.line, k, half - acc.cnt)
                     IN  [line |-> f.line, cnt |-> acc.cnt + f.cnt, i |-> acc.k, k |-> k,
                          recent |-> [acc.recent EXCEPT ![k] = 0]]
              a == [line |-> l, cnt |-> 0, i |-> 0, k |-> -1, recent |-> recent]
              LL == {m \in [Line -> Seq(Entry)] : LinesOK(m, new)}
              R == [0..(NDev - 1) -> Nat]
              X == [line : LL, cnt : Nat, i : Int, k : Int, recent : R]
              F == [x \in X |-> Take(x)]
              E(f) == [n \in 0..(NDev + 2) |-> IF n = 0 THEN a ELSE Take(f[n - 1])]
              c == CHOOSE f : f = E(f)
  <1>0. NDev + 2 \in Nat
    BY DiskAssumption
  <1>1. a \in X
    BY DEF LinesOK
  <1>2. ASSUME NEW x \in X PROVE Take(x) \in X
    <2>. DEFINE k == devfs_lastused(x.recent)
                f == cache_freeblocks(x.line, k, half - x.cnt)
    <2>1. k \in 0..(NDev - 1) /\ k \in Int
      BY DiskAssumption, LastusedIs
    <2>2. f.cnt \in Nat /\ f.line \in LL
      <3>1. LinesOK(x.line, new)
        OBVIOUS
      <3>. HIDE DEF k
      <3>2. f.cnt \in Nat /\ LinesOK(f.line, new)
        BY <3>1, FreeblocksOK
      <3>. QED BY <3>2 DEF LinesOK
    <2>3. [x.recent EXCEPT ![k] = 0] \in R
      BY <2>1
    <2>4. Take(x) = IF x.cnt >= half \/ x.i = x.k THEN x
                    ELSE [line |-> f.line, cnt |-> x.cnt + f.cnt, i |-> x.k, k |-> k,
                          recent |-> [x.recent EXCEPT ![k] = 0]]
      BY Zenon
    <2>. HIDE DEF Take, f, k, LL, R
    <2>5. CASE x.cnt >= half \/ x.i = x.k
      BY <2>4, <2>5
    <2>6. CASE ~(x.cnt >= half \/ x.i = x.k)
      BY <2>1, <2>2, <2>3, <2>4, <2>6
    <2>. QED BY <2>5, <2>6
  <1>3. cache_free(l) = c[NDev + 2]
    BY Zenon DEF cache_free
  <1>. HIDE DEF Take, X, a
  <1>4. F \in [X -> X]
    BY <1>2
  <1>5. PICK g \in [0..(NDev + 2) -> X] : g[0] = a /\ \A n \in 1..(NDev + 2) : g[n] = F[g[n - 1]]
    <2>1. Orbit(X, F, a, NDev + 2) # {}
      <3>. HIDE DEF F
      <3>. QED BY <1>0, <1>1, <1>4, Iterated
    <2>. HIDE DEF F
    <2>. QED BY <2>1 DEF Orbit
  <1>6. g = E(g)
    <2>1. \A n \in 1..(NDev + 2) : g[n - 1] \in X
      BY <1>0
    <2>2. \A n \in 1..(NDev + 2) : g[n] = Take(g[n - 1])
      BY <1>5, <2>1
    <2>3. \A n \in 0..(NDev + 2) : n = 0 \/ n \in 1..(NDev + 2)
      BY <1>0
    <2>4. \A n \in 0..(NDev + 2) : g[n] = IF n = 0 THEN a ELSE Take(g[n - 1])
      BY <1>5, <2>2, <2>3
    <2>. QED BY <2>4
  <1>7. c = E(c)
    <2>. HIDE DEF E
    <2>. QED BY <1>6, Zenon
  <1>8. \A n \in 0..(NDev + 2) : c[n] = IF n = 0 THEN a ELSE Take(c[n - 1])
    <2>. HIDE DEF c
    <2>. QED BY <1>7
  <1>. HIDE DEF c
  <1>. DEFINE S == {n \in Nat : n <= NDev + 2 => c[n] \in X}
  <1>9. 0 \in S
    <2>1. 0 \in 0..(NDev + 2)
      BY <1>0
    <2>2. c[0] = a
      BY <1>8, <2>1
    <2>. QED BY <1>1, <2>2
  <1>10. ASSUME NEW n \in Nat, n \in S PROVE n + 1 \in S
    <2>. SUFFICES ASSUME n + 1 <= NDev + 2 PROVE c[n + 1] \in X
      OBVIOUS
    <2>1. c[n] \in X /\ n + 1 \in 0..(NDev + 2) /\ n + 1 # 0 /\ (n + 1) - 1 = n
      BY <1>0, <1>10
    <2>2. c[n + 1] = Take(c[n])
      BY <1>8, <2>1
    <2>. QED BY <1>2, <2>1, <2>2
  <1>11. c[NDev + 2] \in X
    <2>1. Nat \subseteq S
      <3>. HIDE DEF S
      <3>. QED BY <1>9, <1>10, InductionSet
    <2>. QED BY <1>0, <2>1
  <1>12. cache_free(l) \in X
    BY <1>3, <1>11
  <1>13. cache_free(l).line \in LL /\ cache_free(l).recent \in R
    <2>. HIDE DEF LL, R
    <2>. QED BY <1>12 DEF X
  <1>. QED BY <1>13

(* What a flush sends: dirty blocks, in the order of their priorities. *)
LEMMA SentIs ==
  ASSUME LinesOK(line, newest)
  PROVE  /\ Sent \in Seq(Entry)
         /\ \A i \in DOMAIN Sent : Sent[i].val = newest[Key(Sent[i])]
         /\ \A i, k \in DOMAIN Sent : i < k => Sent[i].prio <= Sent[k].prio
  <1>. DEFINE R == {p \in DirtyAt \X DirtyAt : Sooner(p[1], p[2])}
              at == Enumerate(DirtyAt, R)
              c == Cardinality(DirtyAt)
              B(x) == line[x[1]][x[2]]
  <1>1. ASSUME NEW x \in DirtyAt
        PROVE  /\ x[1] \in Int /\ x[2] \in Int /\ x = <<x[1], x[2]>>
               /\ B(x) \in Entry /\ B(x).prio \in Int /\ B(x).prio # 0
               /\ B(x).val = newest[Key(B(x))]
    <2>1. x \in Blocks(line) /\ B(x).prio # 0
      BY DEF DirtyAt, NOTDIRTY
    <2>2. x[1] \in Line /\ x[2] \in DOMAIN line[x[1]] /\ x = <<x[1], x[2]>>
      BY <2>1, BlocksAre
    <2>3. LineOK(line[x[1]], x[1], newest) /\ line[x[1]] \in Seq(Entry)
      BY <2>2 DEF LinesOK
    <2>4. B(x) \in Entry /\ x[2] \in Int
      BY <2>2, <2>3
    <2>5. B(x).prio \in Int
      BY <2>4 DEF Entry
    <2>6. B(x).val = newest[Key(B(x))]
      BY <2>1, <2>2, <2>3 DEF LineOK
    <2>7. x[1] \in Int
      BY <2>2, DiskAssumption DEF Line
    <2>. QED BY <2>1, <2>2, <2>4, <2>5, <2>6, <2>7
  <1>2. IsFiniteSet(DirtyAt)
    <2>1. IsFiniteSet(Blocks(line))
      BY BlocksFinite DEF LinesOK
    <2>2. DirtyAt \subseteq Blocks(line)
      BY DEF DirtyAt
    <2>. QED BY <2>1, <2>2, FS_Subset
  <1>3. \A x, y \in DirtyAt :
           <<x, y>> \in R <=> \/ B(x).prio < B(y).prio
                              \/ /\ B(x).prio = B(y).prio
                                 /\ x[1] < y[1] \/ (x[1] = y[1] /\ x[2] < y[2])
    BY DEF Sooner
  <1>4. Order(DirtyAt, R)
    <2>. HIDE DEF R
    <2>. DEFINE p(x) == B(x).prio
    <2>0. \A x \in DirtyAt : x[1] \in Int /\ x[2] \in Int /\ x = <<x[1], x[2]>> /\ p(x) \in Int
      BY <1>1
    <2>1. \A x, y \in DirtyAt :
           <<x, y>> \in R <=> \/ p(x) < p(y)
                              \/ /\ p(x) = p(y)
                                 /\ x[1] < y[1] \/ (x[1] = y[1] /\ x[2] < y[2])
      BY <1>3
    <2>. HIDE DEF p
    <2>2. \A x \in DirtyAt : <<x, x>> \notin R
      BY <2>0, <2>1
    <2>3. ASSUME NEW x \in DirtyAt, NEW y \in DirtyAt PROVE x = y \/ <<x, y>> \in R \/ <<y, x>> \in R
      <3>1. CASE x[1] = y[1] /\ x[2] = y[2]
        BY <2>0, <3>1
      <3>2. CASE ~(x[1] = y[1] /\ x[2] = y[2])
        BY <2>0, <2>1, <3>2
      <3>. QED BY <3>1, <3>2
    <2>4. ASSUME NEW x \in DirtyAt, NEW y \in DirtyAt, NEW z \in DirtyAt,
                 <<x, y>> \in R, <<y, z>> \in R
          PROVE  <<x, z>> \in R
      <3>1. /\ x[1] \in Int /\ x[2] \in Int /\ p(x) \in Int
            /\ y[1] \in Int /\ y[2] \in Int /\ p(y) \in Int
            /\ z[1] \in Int /\ z[2] \in Int /\ p(z) \in Int
        BY <2>0
      <3>2. \/ p(x) < p(y)
            \/ p(x) = p(y) /\ (x[1] < y[1] \/ (x[1] = y[1] /\ x[2] < y[2]))
        BY <2>1, <2>4
      <3>3. \/ p(y) < p(z)
            \/ p(y) = p(z) /\ (y[1] < z[1] \/ (y[1] = z[1] /\ y[2] < z[2]))
        BY <2>1, <2>4
      <3>4. \/ p(x) < p(z)
            \/ p(x) = p(z) /\ (x[1] < z[1] \/ (x[1] = z[1] /\ x[2] < z[2]))
        BY <3>1, <3>2, <3>3
      <3>. QED BY <2>1, <3>4
    <2>. QED BY <2>2, <2>3, <2>4 DEF Order
  <1>5. /\ c \in Nat /\ DOMAIN at = 1..c
        /\ \A n \in 1..c : at[n] \in DirtyAt
        /\ \A n, m \in 1..c : n < m => <<at[n], at[m]>> \in R
    <2>. HIDE DEF R
    <2>. QED BY <1>2, <1>4, EnumerateIs
  <1>6. Sent = [n \in 1..c |-> B(at[n])]
    BY <1>5 DEF Sent
  <1>. HIDE DEF at, R, c
  <1>7. Sent \in Seq(Entry)
    <2>1. \A n \in 1..c : B(at[n]) \in Entry
      BY <1>1, <1>5
    <2>. HIDE DEF B
    <2>. QED BY <1>5, <1>6, <2>1, IsASeq
  <1>8. DOMAIN Sent = 1..c /\ \A i \in 1..c : Sent[i] = B(at[i])
    BY <1>6
  <1>9. ASSUME NEW i \in 1..c PROVE Sent[i].val = newest[Key(Sent[i])]
    <2>1. at[i] \in DirtyAt /\ Sent[i] = B(at[i])
      BY <1>5, <1>8
    <2>. QED BY <1>1, <2>1
  <1>10. ASSUME NEW i \in 1..c, NEW k \in 1..c, i < k PROVE Sent[i].prio <= Sent[k].prio
    <2>1. at[i] \in DirtyAt /\ at[k] \in DirtyAt /\ <<at[i], at[k]>> \in R
      BY <1>5, <1>10
    <2>2. B(at[i]).prio \in Int /\ B(at[k]).prio \in Int
      BY <1>1, <2>1
    <2>3. B(at[i]).prio <= B(at[k]).prio
      BY <1>3, <2>1, <2>2
    <2>. QED BY <1>8, <2>3
  <1>. QED BY <1>7, <1>8, <1>9, <1>10

-----------------------------------------------------------------------------
(* The blocks on their way to the drivers *)

Request == [b : Entry, no : Nat]

(* The versions of a block are on their way in the order they were written *)
(* in, behind the one on the disk and not ahead of the newest; the blocks  *)
(* of a flush go by priority.                                              *)
WritesOK(w, dk, new, fl) ==
    /\ w \in Seq(Request)
    /\ \A i \in DOMAIN w : w[i].no <= fl
    /\ \A i \in DOMAIN w : dk[Key(w[i].b)] <= w[i].b.val /\ w[i].b.val <= new[Key(w[i].b)]
    /\ \A i, k \in DOMAIN w : i < k /\ Key(w[i].b) = Key(w[k].b) => w[i].b.val <= w[k].b.val
    /\ \A i, k \in DOMAIN w : i < k /\ w[i].no = w[k].no => w[i].b.prio <= w[k].b.prio

(* The types of a request to a driver. *)
LEMMA RequestType ==
  ASSUME NEW w \in Seq(Request), NEW i \in DOMAIN w
  PROVE  /\ w[i].b \in Entry /\ w[i].no \in Nat /\ Key(w[i].b) \in Block
         /\ w[i].b.val \in 0..MaxVal /\ w[i].b.prio \in 0..4
         /\ w[i].b.dev \in Disk /\ w[i].b.lsn \in Lsn
  <1>1. w[i] \in Request
    OBVIOUS
  <1>. QED BY <1>1 DEF Request, Entry, Key, Block

(* A flush. *)
LEMMA FlushedOK ==
  ASSUME NEW w, NEW dk \in Version, NEW new \in Version, NEW fl \in Nat, WritesOK(w, dk, new, fl),
         \A b \in Block : dk[b] <= new[b],
         NEW s \in Seq(Entry), \A i \in DOMAIN s : s[i].val = new[Key(s[i])],
         \A i, k \in DOMAIN s : i < k => s[i].prio <= s[k].prio
  PROVE  WritesOK(w \o [k \in DOMAIN s |-> [b |-> s[k], no |-> fl + 1]], dk, new, fl + 1)
  <1>. DEFINE r == [k \in DOMAIN s |-> [b |-> s[k], no |-> fl + 1]]
              t == w \o r
              n == Len(w)
              m == Len(s)
  <1>1. w \in Seq(Request) /\ n \in Nat /\ m \in Nat /\ DOMAIN w = 1..n /\ DOMAIN s = 1..m
    BY DEF WritesOK
  <1>2. r \in Seq(Request) /\ Len(r) = m
    <2>1. \A k \in 1..m : [b |-> s[k], no |-> fl + 1] \in Request
      BY <1>1 DEF Request
    <2>2. r \in Seq(Request)
      BY <1>1, <2>1, IsASeq
    <2>. QED BY <1>1, <2>2
  <1>3. \A k \in 1..m : r[k].b = s[k] /\ r[k].no = fl + 1
    BY <1>1
  <1>. HIDE DEF r
  <1>4. t \in Seq(Request) /\ Len(t) = n + m
        /\ \A i \in 1..(n + m) : t[i] = IF i <= n THEN w[i] ELSE r[i - n]
    <2>1. t \in Seq(Request) /\ Len(t) = Len(w) + Len(r)
          /\ \A i \in 1..(Len(w) + Len(r)) : t[i] = IF i <= Len(w) THEN w[i] ELSE r[i - Len(w)]
      BY <1>1, <1>2, ConcatProperties
    <2>. HIDE DEF t
    <2>. QED BY <1>2, <2>1
  <1>5. DOMAIN t = 1..(n + m)
    <2>. HIDE DEF n, m, t
    <2>. QED BY <1>4
  <1>. HIDE DEF t, n, m
  <1>6. ASSUME NEW i \in DOMAIN t
        PROVE  \/ i \in DOMAIN w /\ t[i] = w[i] /\ i <= n
               \/ /\ i - n \in DOMAIN s /\ t[i].b = s[i - n] /\ t[i].no = fl + 1 /\ i > n
    <2>1. CASE i <= n
      BY <1>1, <1>4, <1>5, <2>1
    <2>2. CASE ~(i <= n)
      <3>1. i - n \in 1..m /\ i > n
        BY <1>1, <1>5, <2>2
      <3>. QED BY <1>1, <1>3, <1>4, <1>5, <2>2, <3>1
    <2>. QED BY <2>1, <2>2
  <1>7. ASSUME NEW i \in DOMAIN s PROVE Key(s[i]) \in Block /\ s[i].val \in 0..MaxVal
    <2>1. s[i] \in Entry
      BY <1>1
    <2>. QED BY <2>1 DEF Entry, Key, Block
  <1>8. \A b \in Block : dk[b] \in 0..MaxVal /\ new[b] \in 0..MaxVal
    BY DEF Version
  <1>9. MaxVal \in Nat
    BY BoundAssumption
  <1>10. \A i \in DOMAIN t : t[i].no <= fl + 1
    <2>. SUFFICES ASSUME NEW i \in DOMAIN t PROVE t[i].no <= fl + 1
      OBVIOUS
    <2>1. CASE i \in DOMAIN w /\ t[i] = w[i]
      <3>1. w[i].no <= fl /\ w[i].no \in Nat
        BY <1>1, <2>1, RequestType DEF WritesOK
      <3>. QED BY <2>1, <3>1
    <2>. QED BY <1>6, <2>1
  <1>11. \A i \in DOMAIN t : dk[Key(t[i].b)] <= t[i].b.val /\ t[i].b.val <= new[Key(t[i].b)]
    <2>. SUFFICES ASSUME NEW i \in DOMAIN t
                  PROVE  dk[Key(t[i].b)] <= t[i].b.val /\ t[i].b.val <= new[Key(t[i].b)]
      OBVIOUS
    <2>1. CASE i \in DOMAIN w /\ t[i] = w[i]
      BY <2>1 DEF WritesOK
    <2>2. CASE i - n \in DOMAIN s /\ t[i].b = s[i - n]
      <3>1. t[i].b.val = new[Key(t[i].b)] /\ Key(t[i].b) \in Block
        BY <1>7, <2>2
      <3>. QED BY <1>8, <1>9, <3>1
    <2>. QED BY <1>6, <2>1, <2>2
  <1>12. ASSUME NEW i \in DOMAIN t, NEW k \in DOMAIN t, i < k, Key(t[i].b) = Key(t[k].b)
         PROVE  t[i].b.val <= t[k].b.val
    <2>1. CASE k \in DOMAIN w /\ t[k] = w[k] /\ k <= n
      <3>1. i \in DOMAIN w /\ t[i] = w[i]
        BY <1>1, <1>5, <1>6, <1>12, <2>1
      <3>. QED BY <1>12, <2>1, <3>1 DEF WritesOK
    <2>2. CASE k - n \in DOMAIN s /\ t[k].b = s[k - n]
      <3>1. t[k].b.val = new[Key(t[k].b)]
        BY <2>2
      <3>. QED BY <1>11, <1>12, <3>1
    <2>. QED BY <1>6, <2>1, <2>2
  <1>13. ASSUME NEW i \in DOMAIN t, NEW k \in DOMAIN t, i < k, t[i].no = t[k].no
         PROVE  t[i].b.prio <= t[k].b.prio
    <2>1. CASE k \in DOMAIN w /\ t[k] = w[k] /\ k <= n
      <3>1. i \in DOMAIN w /\ t[i] = w[i]
        BY <1>1, <1>5, <1>6, <1>13, <2>1
      <3>. QED BY <1>13, <2>1, <3>1 DEF WritesOK
    <2>2. CASE k - n \in DOMAIN s /\ t[k].b = s[k - n] /\ t[k].no = fl + 1
      <3>1. i - n \in DOMAIN s /\ t[i].b = s[i - n]
        <4>1. ASSUME i \in DOMAIN w, t[i] = w[i] PROVE FALSE
          <5>1. w[i].no <= fl /\ w[i].no \in Nat
            BY <1>1, <4>1, RequestType DEF WritesOK
          <5>. QED BY <1>13, <2>2, <4>1, <5>1
        <4>. QED BY <1>6, <4>1
      <3>2. i - n < k - n
        BY <1>1, <1>5, <1>13
      <3>. QED BY <2>2, <3>1, <3>2
    <2>. QED BY <1>6, <2>1, <2>2
  <1>14. WritesOK(t, dk, new, fl + 1)
    BY <1>4, <1>10, <1>11, <1>12, <1>13 DEF WritesOK
  <1>. QED BY <1>14 DEF t, r

(* A block has a newer version. *)
LEMMA WrittenOK ==
  ASSUME NEW w, NEW dk, NEW new \in Version, NEW fl, WritesOK(w, dk, new, fl),
         NEW b \in Block, NEW v \in Nat, new[b] <= v
  PROVE  WritesOK(w, dk, [new EXCEPT ![b] = v], fl)
  <1>. DEFINE new2 == [new EXCEPT ![b] = v]
  <1>1. ASSUME NEW i \in DOMAIN w PROVE w[i].b.val <= new2[Key(w[i].b)]
    <2>1. Key(w[i].b) \in Block /\ w[i].b.val \in 0..MaxVal /\ w[i].b.val <= new[Key(w[i].b)]
      BY RequestType DEF WritesOK
    <2>2. \A x \in Block : new[x] \in 0..MaxVal /\ new2[x] = IF x = b THEN v ELSE new[x]
      BY DEF Version
    <2>. HIDE DEF new2
    <2>. QED BY <2>1, <2>2, BoundAssumption
  <1>. HIDE DEF new2
  <1>2. WritesOK(w, dk, new2, fl)
    BY <1>1 DEF WritesOK
  <1>. QED BY <1>2 DEF new2

(* A driver has written the first block. *)
LEMMA DoneOK ==
  ASSUME NEW w, NEW dk \in Version, NEW new \in Version, NEW fl, WritesOK(w, dk, new, fl), w # <<>>
  PROVE  LET e == Head(w).b
             dk2 == [dk EXCEPT ![<<e.dev, e.lsn>>] = e.val]
         IN  /\ WritesOK(Tail(w), dk2, new, fl) /\ dk2 \in Version /\ e \in Entry
             /\ \A b \in Block : dk2[b] >= dk[b]
             /\ (\A b \in Block : dk[b] <= new[b]) => \A b \in Block : dk2[b] <= new[b]
  <1>. DEFINE e == w[1].b
              dk2 == [dk EXCEPT ![Key(e)] = e.val]
              t == Tail(w)
              n == Len(w)
  <1>1. w \in Seq(Request) /\ n \in Nat /\ n > 0 /\ DOMAIN w = 1..n /\ 1 \in DOMAIN w
    BY DEF WritesOK
  <1>2. e \in Entry /\ Key(e) \in Block /\ e.val \in 0..MaxVal
    BY <1>1, RequestType
  <1>3. t \in Seq(Request) /\ DOMAIN t = 1..(n - 1) /\ \A i \in 1..(n - 1) : t[i] = w[i + 1]
    BY <1>1
  <1>4. Head(w) = w[1]
    BY <1>1
  <1>5. dk2 \in Version /\ \A b \in Block : dk2[b] = IF b = Key(e) THEN e.val ELSE dk[b]
    BY <1>2 DEF Version
  <1>6. dk[Key(e)] <= e.val /\ e.val <= new[Key(e)]
    BY <1>1 DEF WritesOK
  <1>7. \A b \in Block : dk[b] \in 0..MaxVal /\ new[b] \in 0..MaxVal
    BY DEF Version
  <1>8. \A b \in Block : dk2[b] >= dk[b]
    <2>. HIDE DEF dk2, e
    <2>. QED BY <1>2, <1>5, <1>6, <1>7, BoundAssumption
  <1>9. (\A b \in Block : dk[b] <= new[b]) => \A b \in Block : dk2[b] <= new[b]
    <2>. HIDE DEF dk2, e
    <2>. QED BY <1>2, <1>5, <1>6
  <1>10. ASSUME NEW i \in DOMAIN t PROVE i + 1 \in DOMAIN w /\ t[i] = w[i + 1] /\ i \in Int /\ 1 < i + 1
    BY <1>1, <1>3
  <1>. HIDE DEF t, n
  <1>11. ASSUME NEW i \in DOMAIN t PROVE dk2[Key(t[i].b)] <= t[i].b.val
    <2>1. /\ dk[Key(w[i + 1].b)] <= w[i + 1].b.val
          /\ Key(w[i + 1].b) = Key(e) => e.val <= w[i + 1].b.val
      BY <1>1, <1>10 DEF WritesOK
    <2>2. Key(t[i].b) \in Block
      BY <1>3, RequestType
    <2>. HIDE DEF dk2, e
    <2>. QED BY <1>5, <1>10, <2>1, <2>2
  <1>. HIDE DEF dk2, e
  <1>12. WritesOK(t, dk2, new, fl)
    <2>1. \A i \in DOMAIN t : t[i].no <= fl /\ t[i].b.val <= new[Key(t[i].b)]
      BY <1>10 DEF WritesOK
    <2>2. ASSUME NEW i \in DOMAIN t, NEW k \in DOMAIN t, i < k
          PROVE  i + 1 < k + 1 /\ t[i] = w[i + 1] /\ t[k] = w[k + 1]
                 /\ i + 1 \in DOMAIN w /\ k + 1 \in DOMAIN w
      BY <1>10, <2>2
    <2>3. \A i, k \in DOMAIN t : i < k /\ Key(t[i].b) = Key(t[k].b) => t[i].b.val <= t[k].b.val
      BY <2>2 DEF WritesOK
    <2>4. \A i, k \in DOMAIN t : i < k /\ t[i].no = t[k].no => t[i].b.prio <= t[k].b.prio
      BY <2>2 DEF WritesOK
    <2>. QED BY <1>3, <1>11, <2>1, <2>3, <2>4 DEF WritesOK
  <1>. QED BY <1>2, <1>4, <1>5, <1>8, <1>9, <1>12 DEF t, dk2, e, Key

-----------------------------------------------------------------------------
(* Blocks found, put in and cleared *)

KnotOK(l, kn) == kn \in [Line -> BOOLEAN] /\ \A j \in Line : kn[j] => Len(l[j]) = 1

(* The types of a block in a line. *)
LEMMA EntryType ==
  ASSUME NEW j \in Line, LinesOK(line, newest), NEW k \in DOMAIN line[j]
  PROVE  /\ line[j][k] \in Entry /\ Key(line[j][k]) \in Block
         /\ line[j][k].dev \in Disk /\ line[j][k].lsn \in Lsn /\ line[j][k].prio \in 0..4
         /\ LineOf(line[j][k].lsn) = j
  <1>1. LineOK(line[j], j, newest) /\ line[j] \in Seq(Entry)
    BY DEF LinesOK
  <1>2. line[j][k] \in Entry
    BY <1>1
  <1>. QED BY <1>1, <1>2 DEF LineOK, Entry, Key, Block

(* A block that was found is linked in front, with a new version or not. *)
LEMMA MovedOK ==
  ASSUME LinesOK(line, newest), newest \in Version, NEW j \in Line, NEW k \in DOMAIN line[j],
         NEW e \in Entry, Key(e) = Key(line[j][k]), NEW v,
         e.prio # 0 => e.val = [newest EXCEPT ![Key(e)] = v][Key(e)]
  PROVE  /\ LineOK(Moved(j, k, e), j, [newest EXCEPT ![Key(e)] = v])
         /\ k = 1 => Len(Moved(j, k, e)) = 1
  <1>. DEFINE s == line[j]
              t == IF k = 1 THEN <<>> ELSE RemoveAt(s, k)
              new == [newest EXCEPT ![Key(e)] = v]
  <1>1. LineOK(s, j, newest) /\ Key(e) \in Block /\ LineOf(e.lsn) = j
    BY EntryType DEF LinesOK, Key
  <1>2. LineOK(<<>>, j, newest)
    BY DEF LineOK
  <1>3. LineOK(t, j, newest) /\ \A i \in DOMAIN t : Key(t[i]) # Key(e)
    <2>1. CASE k = 1
      BY <1>2, <2>1
    <2>2. CASE k # 1
      <3>1. LineOK(RemoveAt(s, k), j, newest)
            /\ \A i \in DOMAIN RemoveAt(s, k) : Key(RemoveAt(s, k)[i]) # Key(s[k])
        <4>. HIDE DEF s
        <4>. QED BY <1>1, RemovedOK DEF s
      <3>. QED BY <2>2, <3>1
    <2>. QED BY <2>1, <2>2
  <1>4. LineOK(t, j, new)
    <2>. HIDE DEF t
    <2>. QED BY <1>1, <1>3, NewerOK
  <1>5. LineOK(<<e>> \o t, j, new)
    <2>. HIDE DEF t, new
    <2>1. e.prio # 0 => e.val = new[Key(e)]
      BY DEF new
    <2>. QED BY <1>1, <1>3, <1>4, <2>1, LinkedOK
  <1>6. Moved(j, k, e) = <<e>> \o t
    <2>1. <<e>> \o <<>> = <<e>>
      BY ConcatEmptySeq
    <2>. QED BY <2>1, Zenon DEF Moved
  <1>7. k = 1 => Len(Moved(j, k, e)) = 1
    BY DEF Moved
  <1>. HIDE DEF t, new
  <1>. QED BY <1>5, <1>6, <1>7 DEF new

(* One line changes, with the version of a block of that line. *)
LEMMA OneLineOK ==
  ASSUME LinesOK(line, newest), newest \in Version, NEW b \in Block, NEW v,
         NEW s, LineOK(s, LineOf(b[2]), [newest EXCEPT ![b] = v])
  PROVE  LinesOK([line EXCEPT ![LineOf(b[2])] = s], [newest EXCEPT ![b] = v])
  <1>. DEFINE j == LineOf(b[2])
              new == [newest EXCEPT ![b] = v]
              l == [line EXCEPT ![j] = s]
  <1>1. j \in Line /\ s \in Seq(Entry) /\ line \in [Line -> Seq(Entry)]
    BY LineOfType DEF Block, LineOK, LinesOK
  <1>2. l \in [Line -> Seq(Entry)] /\ \A i \in Line : l[i] = IF i = j THEN s ELSE line[i]
    BY <1>1
  <1>3. ASSUME NEW i \in Line, i # j PROVE LineOK(line[i], i, new)
    <2>1. LineOK(line[i], i, newest)
      BY DEF LinesOK
    <2>2. \A k \in DOMAIN line[i] : Key(line[i][k]) # b
      <3>. SUFFICES ASSUME NEW k \in DOMAIN line[i], Key(line[i][k]) = b PROVE FALSE
        OBVIOUS
      <3>1. LineOf(line[i][k].lsn) = i /\ b[2] = line[i][k].lsn
        BY <2>1 DEF LineOK, Key
      <3>. QED BY <1>3, <3>1
    <2>. QED BY <2>1, <2>2, NewerOK
  <1>. HIDE DEF l, new, j
  <1>4. \A i \in Line : LineOK(l[i], i, new)
    BY <1>2, <1>3 DEF new, j
  <1>. QED BY <1>2, <1>4 DEF LinesOK, l, new, j

(* Where a block is, and that the walk to it stops there. *)
LEMMA AtIs ==
  ASSUME NEW j, NEW d, NEW lsn
  PROVE  /\ At(j, d, lsn) \subseteq DOMAIN line[j]
         /\ \A k \in DOMAIN line[j] : k \in At(j, d, lsn) <=> Key(line[j][k]) = <<d, lsn>>
         /\ At(j, d, lsn) # {} => (CHOOSE i \in At(j, d, lsn) : TRUE) \in At(j, d, lsn)
  <1>1. /\ At(j, d, lsn) \subseteq DOMAIN line[j]
        /\ \A k \in DOMAIN line[j] : k \in At(j, d, lsn) <=> Key(line[j][k]) = <<d, lsn>>
    BY DEF At, Key
  <1>2. At(j, d, lsn) # {} => (CHOOSE i \in At(j, d, lsn) : TRUE) \in At(j, d, lsn)
    OBVIOUS
  <1>. QED BY <1>1, <1>2

(* A version of a block is put in the cache: a clean one from a driver, or *)
(* the newest one from a file system.                                      *)
LEMMA SetOK ==
  ASSUME LinesOK(line, newest), newest \in Version, KnotOK(line, knot), stuck \in BOOLEAN,
         NEW d \in Disk, NEW lsn \in Lsn, NEW val \in 0..MaxVal, NEW prio \in 0..4, NEW v,
         prio # 0 => v = val, cache_setblock(d, lsn, val, prio)
  PROVE  /\ LinesOK(line', [newest EXCEPT ![<<d, lsn>>] = v])
         /\ KnotOK(line', knot') /\ stuck' \in BOOLEAN
  <1>. DEFINE j == LineOf(lsn)
              b == <<d, lsn>>
              hit == At(j, d, lsn)
              k == CHOOSE i \in hit : TRUE
              e == [dev |-> d, lsn |-> lsn, prio |-> prio, val |-> val]
              new == [newest EXCEPT ![b] = v]
              s == IF hit = {} THEN <<e>> \o line[j] ELSE Moved(j, k, e)
  <1>1. b \in Block /\ b[2] = lsn /\ j \in Line /\ LineOf(b[2]) = j
    BY LineOfType DEF Block
  <1>2. e \in Entry /\ Key(e) = b /\ e.prio = prio /\ e.val = val /\ LineOf(e.lsn) = j
    BY DEF Entry, Key
  <1>3. LineOK(line[j], j, newest) /\ line \in [Line -> Seq(Entry)]
    BY <1>1 DEF LinesOK
  <1>4. new[b] = v
    BY <1>1 DEF Version
  <1>5. hit # {} => /\ k \in hit /\ k \in DOMAIN line[j] /\ Key(line[j][k]) = b
    <2>. HIDE DEF j
    <2>1. hit # {} => k \in hit
      BY AtIs
    <2>2. hit # {} => k \in DOMAIN line[j] /\ Key(line[j][k]) = b
      <3>. HIDE DEF hit, k
      <3>. QED BY <2>1, AtIs DEF hit
    <2>. QED BY <2>1, <2>2
  <1>6. hit = {} => \A i \in DOMAIN line[j] : Key(line[j][i]) # b
    <2>. HIDE DEF j
    <2>. QED BY AtIs
  <1>7. \/ hit = {} /\ knot[j] /\ stuck' = TRUE /\ line' = line /\ knot' = knot
        \/ /\ ~(hit = {} /\ knot[j])
           /\ line' = [line EXCEPT ![j] = s]
           /\ knot' = [knot EXCEPT ![j] = @ \/ (hit # {} /\ k = 1)]
           /\ stuck' = stuck
    BY DEF cache_setblock
  <1>. HIDE DEF j, hit, k, e, new, b
  <1>8. ASSUME hit = {} PROVE LineOK(line[j], j, new)
    BY <1>1, <1>3, <1>6, <1>8, NewerOK DEF new
  <1>9. LineOK(s, j, new)
    <2>1. CASE hit = {}
      <3>1. e.prio # 0 => e.val = new[Key(e)]
        BY <1>2, <1>4
      <3>2. LineOK(<<e>> \o line[j], j, new)
        BY <1>2, <1>6, <1>8, <2>1, <3>1, LinkedOK
      <3>. QED BY <2>1, <3>2
    <2>2. CASE hit # {}
      <3>1. LineOK(Moved(j, k, e), j, [newest EXCEPT ![Key(e)] = v])
        <4>1. e.prio # 0 => e.val = [newest EXCEPT ![Key(e)] = v][Key(e)]
          BY <1>2, <1>4 DEF new
        <4>2. k \in DOMAIN line[j] /\ Key(e) = Key(line[j][k])
          BY <1>2, <1>5, <2>2
        <4>. QED BY <1>1, <1>2, <4>1, <4>2, MovedOK
      <3>. QED BY <1>2, <2>2, <3>1 DEF new
    <2>. QED BY <2>1, <2>2
  <1>10. hit # {} /\ k = 1 => Len(s) = 1
    <2>. SUFFICES ASSUME hit # {}, k = 1 PROVE Len(Moved(j, k, e)) = 1
      OBVIOUS
    <2>. QED BY DEF Moved
  <1>11. knot[j] /\ hit # {} => k = 1
    BY <1>1, <1>3, <1>5 DEF KnotOK
  <1>. HIDE DEF s
  <1>12. CASE hit = {} /\ knot[j] /\ stuck' = TRUE /\ line' = line /\ knot' = knot
    <2>1. LinesOK([line EXCEPT ![j] = line[j]], new)
      BY <1>1, <1>8, <1>12, OneLineOK DEF new
    <2>2. [line EXCEPT ![j] = line[j]] = line
      BY <1>3
    <2>3. LinesOK(line', new)
      BY <1>12, <2>1, <2>2
    <2>. QED BY <1>12, <2>3 DEF new, b
  <1>13. CASE /\ ~(hit = {} /\ knot[j])
              /\ line' = [line EXCEPT ![j] = s]
              /\ knot' = [knot EXCEPT ![j] = @ \/ (hit # {} /\ k = 1)]
              /\ stuck' = stuck
    <2>1. LinesOK([line EXCEPT ![j] = s], new)
      BY <1>1, <1>9, OneLineOK DEF new
    <2>2. KnotOK(line', knot')
      BY <1>1, <1>3, <1>10, <1>11, <1>13 DEF KnotOK
    <2>. QED BY <1>13, <2>1, <2>2 DEF new, b
  <1>. QED BY <1>7, <1>12, <1>13

(* A block that was written is clean, and where it was. *)
LEMMA ClearedOK ==
  ASSUME LinesOK(line, newest), NEW d \in Disk, NEW lsn \in Lsn
  PROVE  /\ LinesOK(Cleared(d, lsn), newest)
         /\ \A i \in Line : Len(Cleared(d, lsn)[i]) = Len(line[i])
  <1>. DEFINE j == LineOf(lsn)
              s == line[j]
              t == [k \in DOMAIN s |-> IF k \in At(j, d, lsn)
                                       THEN [s[k] EXCEPT !.prio = NOTDIRTY] ELSE s[k]]
              g == [k \in DOMAIN s |-> k]
              l == Cleared(d, lsn)
  <1>1. j \in Line /\ line \in [Line -> Seq(Entry)] /\ s \in Seq(Entry)
    BY LineOfType DEF LinesOK
  <1>2. l = [line EXCEPT ![j] = t]
    BY DEF Cleared
  <1>3. ASSUME NEW k \in DOMAIN s
        PROVE  /\ t[k] \in Entry /\ t[k].dev = s[k].dev /\ t[k].lsn = s[k].lsn
               /\ t[k].prio = 0 \/ t[k] = s[k]
    <2>1. s[k] \in Entry
      BY <1>1
    <2>. QED BY <2>1 DEF Entry, NOTDIRTY
  <1>4. DOMAIN t = DOMAIN s /\ DOMAIN s = 1..Len(s) /\ Len(s) \in Nat
    BY <1>1
  <1>5. t \in Seq(Entry) /\ Len(t) = Len(s)
    <2>0. t \in [1..Len(s) -> Entry]
      BY <1>3, <1>4
    <2>. HIDE DEF t, s
    <2>1. t \in Seq(Entry)
      BY <1>4, <2>0, SeqDef
    <2>. QED BY <1>4, <2>1
  <1>6. Derived(t, s, g)
    <2>1. \A i \in DOMAIN t : g[i] = i
      BY <1>4
    <2>. HIDE DEF t, s, g
    <2>. QED BY <1>3, <1>4, <2>1, Zenon DEF Derived
  <1>7. LineOK(s, j, newest)
    BY <1>1 DEF LinesOK
  <1>. HIDE DEF t, g, s, l
  <1>8. LineOK(t, j, newest)
    BY <1>5, <1>6, <1>7, DerivedOK
  <1>9. l \in [Line -> Seq(Entry)] /\ \A i \in Line : l[i] = IF i = j THEN t ELSE line[i]
    BY <1>1, <1>2, <1>5
  <1>10. \A i \in Line : LineOK(l[i], i, newest)
    BY <1>8, <1>9 DEF LinesOK
  <1>. QED BY <1>5, <1>9, <1>10 DEF LinesOK, l, s

(* A block that was found moves to the front of its line. *)
LEMMA GetOK ==
  ASSUME LinesOK(line, newest), newest \in Version, KnotOK(line, knot), stuck \in BOOLEAN,
         reads \in SUBSET Block, NEW d \in Disk, NEW lsn \in Lsn, cache_getblock(d, lsn)
  PROVE  /\ LinesOK(line', newest) /\ KnotOK(line', knot')
         /\ stuck' \in BOOLEAN /\ reads' \in SUBSET Block
  <1>. DEFINE j == LineOf(lsn)
              b == <<d, lsn>>
              hit == At(j, d, lsn)
              k == CHOOSE i \in hit : TRUE
  <1>1. b \in Block /\ b[2] = lsn /\ j \in Line /\ LineOf(b[2]) = j
    BY LineOfType DEF Block
  <1>2. \/ line' = line /\ knot' = knot /\ reads' = reads /\ stuck' = stuck
        \/ /\ hit # {}
           /\ line' = [line EXCEPT ![j] = Moved(j, k, line[j][k])]
           /\ knot' = [knot EXCEPT ![j] = @ \/ k = 1]
           /\ reads' = reads /\ stuck' = stuck
        \/ /\ stuck' = knot[j]
           /\ reads' = IF knot[j] THEN reads ELSE reads \union {b}
           /\ line' = line /\ knot' = knot
    <2>1. line \in [Line -> Seq(Entry)]
      BY DEF LinesOK
    <2>. QED BY <1>1, <2>1 DEF cache_getblock
  <1>3. CASE line' = line /\ knot' = knot /\ reads' = reads /\ stuck' = stuck
    BY <1>3
  <1>4. CASE /\ stuck' = knot[j]
             /\ reads' = IF knot[j] THEN reads ELSE reads \union {b}
             /\ line' = line /\ knot' = knot
    <2>1. stuck' \in BOOLEAN
      BY <1>1, <1>4 DEF KnotOK
    <2>2. reads' \in SUBSET Block
      BY <1>1, <1>4
    <2>. QED BY <1>4, <2>1, <2>2
  <1>5. CASE /\ hit # {}
             /\ line' = [line EXCEPT ![j] = Moved(j, k, line[j][k])]
             /\ knot' = [knot EXCEPT ![j] = @ \/ k = 1]
             /\ reads' = reads /\ stuck' = stuck
    <2>. DEFINE e == line[j][k]
                s == Moved(j, k, e)
                v == newest[b]
                new == [newest EXCEPT ![b] = v]
    <2>1. k \in DOMAIN line[j] /\ Key(e) = b
      <3>. HIDE DEF j, k
      <3>1. k \in hit
        BY <1>5, AtIs DEF k
      <3>. QED BY <3>1, AtIs
    <2>2. e \in Entry /\ LineOK(line[j], j, newest) /\ line \in [Line -> Seq(Entry)]
      <3>. HIDE DEF j, k
      <3>. QED BY <1>1, <2>1, EntryType DEF LinesOK
    <2>3. new = newest
      BY <1>1 DEF Version
    <2>4. e.prio # 0 => e.val = newest[Key(e)]
      <3>. HIDE DEF j, k
      <3>. QED BY <2>1, <2>2 DEF LineOK
    <2>. HIDE DEF j, k, e, hit
    <2>5. LineOK(s, j, [newest EXCEPT ![Key(e)] = v]) /\ (k = 1 => Len(s) = 1)
      <3>1. e.prio # 0 => e.val = [newest EXCEPT ![Key(e)] = v][Key(e)]
        BY <2>1, <2>3, <2>4
      <3>2. Key(e) = Key(line[j][k])
        BY DEF e
      <3>. QED BY <1>1, <2>1, <2>2, <3>1, <3>2, MovedOK
    <2>6. LineOK(s, j, new)
      BY <2>1, <2>5
    <2>. HIDE DEF s
    <2>7. LinesOK([line EXCEPT ![j] = s], new)
      BY <1>1, <2>6, OneLineOK
    <2>8. line' = [line EXCEPT ![j] = s]
      BY <1>5 DEF s, e
    <2>9. LinesOK(line', newest)
      BY <2>3, <2>7, <2>8
    <2>10. knot[j] => k = 1
      BY <1>1, <2>1, <2>2 DEF KnotOK
    <2>11. KnotOK(line', knot')
      BY <1>1, <1>5, <2>2, <2>5, <2>8, <2>10 DEF KnotOK
    <2>. QED BY <1>5, <2>9, <2>11
  <1>. QED BY <1>2, <1>3, <1>4, <1>5

-----------------------------------------------------------------------------
(* The inductive invariant *)

Loaded == [dev : Disk, lsn : Lsn, val : 0..MaxVal]
Ack == [dev : Disk, lsn : Lsn]

CacheInv ==
    /\ LinesOK(line, newest) /\ KnotOK(line, knot)
    /\ inflush \in Int /\ recent \in [0..(NDev - 1) -> Nat] /\ last \in Nat
    /\ nomem \in BOOLEAN /\ stuck \in BOOLEAN /\ flushed \in Nat
    /\ newest \in Version /\ disk \in Version
    /\ \A b \in Block : disk[b] <= newest[b]
    /\ reads \in SUBSET Block /\ loaded \in Seq(Loaded) /\ acks \in Seq(Ack)
    /\ WritesOK(writes, disk, newest, flushed)

(* The cache is empty at the start. *)
LEMMA CacheInit == Init => CacheInv
  <1>. SUFFICES ASSUME Init PROVE CacheInv
    OBVIOUS
  <1>1. MaxVal \in Nat /\ NDev \in Nat
    BY DiskAssumption, BoundAssumption
  <1>2. LinesOK(line, newest) /\ KnotOK(line, knot)
    BY DEF Init, LinesOK, LineOK, KnotOK
  <1>3. newest \in Version /\ disk \in Version /\ \A b \in Block : disk[b] <= newest[b]
    BY <1>1 DEF Init, Version, Block
  <1>4. WritesOK(writes, disk, newest, flushed)
    BY DEF Init, WritesOK
  <1>5. recent \in [0..(NDev - 1) -> Nat] /\ last \in Nat
    BY <1>1 DEF Init
  <1>6. inflush \in Int /\ nomem \in BOOLEAN /\ stuck \in BOOLEAN /\ flushed \in Nat
    <2>1. inflush = 0 /\ flushed = 0
      BY Zenon DEF Init
    <2>2. nomem \in BOOLEAN /\ stuck \in BOOLEAN
      BY Zenon DEF Init
    <2>. QED BY <2>1, <2>2
  <1>7. reads \in SUBSET Block /\ loaded \in Seq(Loaded) /\ acks \in Seq(Ack)
    BY DEF Init
  <1>. QED BY <1>2, <1>3, <1>4, <1>5, <1>6, <1>7 DEF CacheInv

(* The list of devices by last use. *)
LEMMA UsedOK ==
  ASSUME recent \in [0..(NDev - 1) -> Nat], last \in Nat, NEW d, devfs_used(d)
  PROVE  recent' \in [0..(NDev - 1) -> Nat] /\ last' \in Nat
  <1>1. recent' = [recent EXCEPT ![d] = last + 1] /\ last' = last + 1 /\ last + 1 \in Nat
    BY DEF devfs_used
  <1>. QED BY <1>1

(* A file system reads a block. *)
LEMMA ReadStep ==
  ASSUME CacheInv, NEW d \in Disk, NEW lsn \in Lsn, Read(d, lsn)
  PROVE  CacheInv' /\ disk' = disk
  <1>1. cache_getblock(d, lsn) /\ devfs_used(d)
        /\ UNCHANGED <<inflush, nomem, writes, loaded, acks, disk, newest, flushed>>
    BY DEF Read
  <1>2. /\ LinesOK(line', newest) /\ KnotOK(line', knot')
        /\ stuck' \in BOOLEAN /\ reads' \in SUBSET Block
    BY <1>1, GetOK DEF CacheInv
  <1>3. recent' \in [0..(NDev - 1) -> Nat] /\ last' \in Nat
    BY <1>1, UsedOK DEF CacheInv
  <1>. QED BY <1>1, <1>2, <1>3 DEF CacheInv

(* A file system writes a block. *)
LEMMA WriteStep ==
  ASSUME CacheInv, NEW d \in Disk, NEW lsn \in Lsn, NEW p \in Prio, Write(d, lsn, p)
  PROVE  CacheInv' /\ disk' = disk
  <1>. DEFINE b == <<d, lsn>>
              v == newest[b] + 1
              new == [newest EXCEPT ![b] = v]
  <1>1. /\ newest[b] < MaxVal /\ devfs_used(d) /\ newest' = new
        /\ cache_setblock(d, lsn, v, p) /\ UNCHANGED <<inflush, nomem, flushed>>
        /\ UNCHANGED <<reads, writes, loaded, acks, disk>>
    BY DEF Write, queues
  <1>2. b \in Block /\ p \in 0..4
    BY DEF Block, Prio
  <1>3. newest[b] \in 0..MaxVal /\ v \in 0..MaxVal /\ v \in Nat /\ newest[b] <= v
    BY <1>1, <1>2, BoundAssumption DEF CacheInv, Version
  <1>4. LinesOK(line', new) /\ KnotOK(line', knot') /\ stuck' \in BOOLEAN
    <2>. HIDE DEF v
    <2>. QED BY <1>1, <1>2, <1>3, SetOK DEF CacheInv
  <1>5. new \in Version
    BY <1>2, <1>3 DEF CacheInv, Version
  <1>6. \A x \in Block : disk[x] <= new[x]
    <2>. SUFFICES ASSUME NEW x \in Block PROVE disk[x] <= new[x]
      OBVIOUS
    <2>1. disk[x] <= newest[x] /\ disk[x] \in 0..MaxVal /\ newest[x] \in 0..MaxVal
          /\ new[x] = IF x = b THEN v ELSE newest[x]
      BY DEF CacheInv, Version
    <2>. HIDE DEF new
    <2>. QED BY <1>3, <2>1, BoundAssumption
  <1>7. WritesOK(writes, disk, new, flushed)
    <2>. HIDE DEF v, b
    <2>. QED BY <1>2, <1>3, WrittenOK DEF CacheInv
  <1>8. recent' \in [0..(NDev - 1) -> Nat] /\ last' \in Nat
    BY <1>1, UsedOK DEF CacheInv
  <1>. HIDE DEF new
  <1>. QED BY <1>1, <1>4, <1>5, <1>6, <1>7, <1>8 DEF CacheInv

(* The dirty blocks are sent behind those that are on their way. *)
LEMMA FlushStep ==
  ASSUME CacheInv, cache_flush, newest' = newest, disk' = disk
  PROVE  /\ WritesOK(writes', disk', newest', flushed')
         /\ flushed' \in Nat /\ inflush' \in Int /\ stuck' \in BOOLEAN
  <1>. DEFINE r == [k \in DOMAIN Sent |-> [b |-> Sent[k], no |-> flushed + 1]]
  <1>1. /\ Sent \in Seq(Entry)
        /\ \A i \in DOMAIN Sent : Sent[i].val = newest[Key(Sent[i])]
        /\ \A i, k \in DOMAIN Sent : i < k => Sent[i].prio <= Sent[k].prio
    BY SentIs DEF CacheInv
  <1>2. flushed' = flushed + 1 /\ stuck' = Knotted /\ inflush' = Len(Sent) /\ flushed \in Nat
    BY DEF cache_flush, CacheInv
  <1>3. writes' = writes \o r
    BY <1>2 DEF cache_flush
  <1>4. WritesOK(writes \o r, disk, newest, flushed + 1)
    BY <1>1, FlushedOK DEF CacheInv
  <1>5. Len(Sent) \in Int
    BY <1>1
  <1>. HIDE DEF r
  <1>. QED BY <1>2, <1>3, <1>4, <1>5 DEF Knotted

(* The two messages that begin a flush. *)
LEMMA FcloseallStep ==
  ASSUME CacheInv, SYS_fcloseall \/ SYS_nomem
  PROVE  CacheInv' /\ disk' = disk
  <1>1. cache_flush /\ UNCHANGED <<line, knot, recent, last, reads, loaded, acks, disk, newest>>
        /\ (nomem' = nomem \/ nomem' = TRUE)
    BY DEF SYS_fcloseall, SYS_nomem
  <1>2. /\ WritesOK(writes', disk', newest', flushed')
        /\ flushed' \in Nat /\ inflush' \in Int /\ stuck' \in BOOLEAN
    BY <1>1, FlushStep
  <1>. QED BY <1>1, <1>2 DEF CacheInv

(* An answer to a read comes in, however late: it is put in clean. *)
LEMMA SetblockStep ==
  ASSUME CacheInv, SYS_setblock
  PROVE  CacheInv' /\ disk' = disk
  <1>. DEFINE h == Head(loaded)
              b == <<h.dev, h.lsn>>
              v == newest[b]
  <1>1. /\ loaded # <<>> /\ cache_setblock(h.dev, h.lsn, h.val, 0) /\ loaded' = Tail(loaded)
        /\ UNCHANGED <<inflush, recent, last, nomem, reads, writes, acks, disk, newest, flushed>>
    BY DEF SYS_setblock, NOTDIRTY
  <1>2. h \in Loaded /\ Tail(loaded) \in Seq(Loaded)
    BY <1>1 DEF CacheInv
  <1>3. h.dev \in Disk /\ h.lsn \in Lsn /\ h.val \in 0..MaxVal
    BY <1>2 DEF Loaded
  <1>4. [newest EXCEPT ![b] = v] = newest
    BY <1>3 DEF CacheInv, Version, Block
  <1>. HIDE DEF h
  <1>5. LinesOK(line', [newest EXCEPT ![b] = v]) /\ KnotOK(line', knot') /\ stuck' \in BOOLEAN
    <2>1. 0 \in 0..4 /\ (0 # 0 => v = h.val)
      OBVIOUS
    <2>2. LinesOK(line, newest) /\ newest \in Version /\ KnotOK(line, knot) /\ stuck \in BOOLEAN
      BY DEF CacheInv
    <2>. HIDE DEF v
    <2>. QED BY <1>1, <1>3, <2>1, <2>2, SetOK
  <1>6. LinesOK(line', newest)
    BY <1>4, <1>5
  <1>. QED BY <1>1, <1>2, <1>5, <1>6 DEF CacheInv

(* An answer to a write comes in; the last one may free memory. *)
LEMMA AckblockStep ==
  ASSUME CacheInv, SYS_ackblock
  PROVE  CacheInv' /\ disk' = disk
  <1>. DEFINE d == Head(acks).dev
              lsn == Head(acks).lsn
              j == LineOf(lsn)
              done == inflush = 1 /\ nomem
              freed == cache_free(Cleared(d, lsn))
  <1>1. /\ acks # <<>> /\ acks' = Tail(acks)
        /\ UNCHANGED <<knot, last, reads, writes, loaded, disk, newest, flushed>>
        /\ \/ UNCHANGED <<line, recent, inflush, nomem, stuck>>
           \/ /\ inflush' = inflush - 1
              /\ stuck' = ((knot[j] /\ At(j, d, lsn) = {}) \/ (done /\ Knotted))
              /\ nomem' = (nomem /\ ~done)
              /\ line' = IF done /\ ~Knotted THEN freed.line ELSE Cleared(d, lsn)
              /\ recent' = IF done /\ ~Knotted THEN freed.recent ELSE recent
    BY Zenon DEF SYS_ackblock
  <1>2. Head(acks) \in Ack /\ Tail(acks) \in Seq(Ack)
    BY <1>1 DEF CacheInv
  <1>3. d \in Disk /\ lsn \in Lsn
    BY <1>2 DEF Ack
  <1>. HIDE DEF d, lsn
  <1>4. LinesOK(Cleared(d, lsn), newest)
        /\ \A i \in Line : Len(Cleared(d, lsn)[i]) = Len(line[i])
    BY <1>3, ClearedOK DEF CacheInv
  <1>5. LinesOK(freed.line, newest) /\ freed.recent \in [0..(NDev - 1) -> Nat]
    BY <1>4, FreeOK DEF CacheInv
  <1>6. CASE UNCHANGED <<line, recent, inflush, nomem, stuck>>
    BY <1>1, <1>2, <1>6 DEF CacheInv
  <1>7. CASE /\ inflush' = inflush - 1
             /\ stuck' = ((knot[j] /\ At(j, d, lsn) = {}) \/ (done /\ Knotted))
             /\ nomem' = (nomem /\ ~done)
             /\ line' = IF done /\ ~Knotted THEN freed.line ELSE Cleared(d, lsn)
             /\ recent' = IF done /\ ~Knotted THEN freed.recent ELSE recent
    <2>1. stuck' \in BOOLEAN /\ nomem' \in BOOLEAN
      <3>. HIDE DEF done
      <3>. QED BY <1>7, Zenon
    <2>. HIDE DEF freed, done
    <2>2. LinesOK(line', newest) /\ recent' \in [0..(NDev - 1) -> Nat]
      BY <1>4, <1>5, <1>7 DEF CacheInv
    <2>3. KnotOK(line', knot')
      <3>1. CASE done /\ ~Knotted
        BY <1>1, <3>1 DEF CacheInv, KnotOK, Knotted
      <3>2. CASE ~(done /\ ~Knotted)
        BY <1>1, <1>4, <1>7, <3>2 DEF CacheInv, KnotOK
      <3>. QED BY <3>1, <3>2
    <2>4. inflush' \in Int
      BY <1>7 DEF CacheInv
    <2>. QED BY <1>1, <1>2, <2>1, <2>2, <2>3, <2>4 DEF CacheInv
  <1>. QED BY <1>1, <1>6, <1>7

(* A driver answers a read with what is on the disk. *)
LEMMA DriverReadStep ==
  ASSUME CacheInv, DriverRead
  PROVE  CacheInv' /\ disk' = disk
  <1>1. PICK b \in reads :
            /\ reads' = reads \ {b}
            /\ loaded' = Append(loaded, [dev |-> b[1], lsn |-> b[2], val |-> disk[b]])
            /\ UNCHANGED <<line, knot, inflush, recent, last, nomem, writes, acks, disk, newest, flushed, stuck>>
    BY DEF DriverRead
  <1>2. b \in Block
    BY DEF CacheInv
  <1>3. [dev |-> b[1], lsn |-> b[2], val |-> disk[b]] \in Loaded
    BY <1>2 DEF Loaded, Block, CacheInv, Version
  <1>4. loaded' \in Seq(Loaded) /\ reads' \in SUBSET Block
    BY <1>1, <1>3 DEF CacheInv
  <1>. QED BY <1>1, <1>4 DEF CacheInv

(* A driver writes a block and the disk goes forward. *)
LEMMA DriverWriteStep ==
  ASSUME CacheInv, DriverWrite
  PROVE  CacheInv' /\ \A b \in Block : disk'[b] >= disk[b]
  <1>. DEFINE e == Head(writes).b
              dk == [disk EXCEPT ![<<e.dev, e.lsn>>] = e.val]
  <1>1. /\ writes # <<>> /\ disk' = dk /\ writes' = Tail(writes)
        /\ acks' = Append(acks, [dev |-> e.dev, lsn |-> e.lsn])
        /\ UNCHANGED <<line, knot, inflush, recent, last, nomem, reads, loaded, newest, flushed, stuck>>
    BY DEF DriverWrite
  <1>2. /\ WritesOK(Tail(writes), dk, newest, flushed) /\ dk \in Version /\ e \in Entry
        /\ \A b \in Block : dk[b] >= disk[b]
        /\ \A b \in Block : dk[b] <= newest[b]
    BY <1>1, DoneOK DEF CacheInv
  <1>3. acks' \in Seq(Ack)
    <2>1. [dev |-> e.dev, lsn |-> e.lsn] \in Ack
      BY <1>2 DEF Ack, Entry
    <2>. HIDE DEF e
    <2>. QED BY <1>1, <2>1 DEF CacheInv
  <1>. HIDE DEF dk, e
  <1>. QED BY <1>1, <1>2, <1>3 DEF CacheInv

(* Every step keeps the invariant, and no disk goes back. *)
LEMMA CacheStep ==
  ASSUME CacheInv, [Next]_vars
  PROVE  CacheInv' /\ \A b \in Block : disk'[b] >= disk[b]
  <1>0. disk' = disk => \A b \in Block : disk'[b] >= disk[b]
    BY BoundAssumption DEF CacheInv, Version
  <1>1. CASE UNCHANGED vars
    <2>1. CacheInv' = CacheInv /\ disk' = disk
      BY <1>1 DEF vars, CacheInv
    <2>. QED BY <1>0, <2>1
  <1>2. ASSUME NEW d \in Disk, NEW lsn \in Lsn, Read(d, lsn) PROVE CacheInv' /\ disk' = disk
    BY <1>2, ReadStep
  <1>3. ASSUME NEW d \in Disk, NEW lsn \in Lsn, NEW p \in Prio, Write(d, lsn, p)
        PROVE  CacheInv' /\ disk' = disk
    BY <1>3, WriteStep
  <1>4. CASE SYS_fcloseall \/ SYS_nomem
    BY <1>0, <1>4, FcloseallStep
  <1>5. CASE SYS_setblock
    BY <1>0, <1>5, SetblockStep
  <1>6. CASE SYS_ackblock
    BY <1>0, <1>6, AckblockStep
  <1>7. CASE DriverRead
    BY <1>0, <1>7, DriverReadStep
  <1>8. CASE DriverWrite
    BY <1>8, DriverWriteStep
  <1>. QED BY <1>0, <1>1, <1>2, <1>3, <1>4, <1>5, <1>6, <1>7, <1>8 DEF Next

(* The invariant holds always. *)
LEMMA CacheInvariant == Spec => []CacheInv
  <1>1. CacheInv /\ [Next]_vars => CacheInv'
    BY CacheStep
  <1>. QED BY CacheInit, <1>1, PTL DEF Spec

-----------------------------------------------------------------------------
(* Theorems *)

(* The cache, its counters and the list of devices keep their types: a     *)
(* line that was tied to itself by cache_getblock or cache_setblock has    *)
(* one block (cache.c:90, cache.c:144), whatever comes after.              *)
THEOREM TypeCorrect == Spec => []TypeOK
  <1>1. CacheInv => TypeOK
    BY DEF CacheInv, LinesOK, KnotOK, TypeOK, Entry
  <1>. QED BY CacheInvariant, <1>1, PTL

(* No block is twice in the cache: a client that reads, a client that      *)
(* writes and an answer of a driver that comes late (SYS_setblock) all     *)
(* find the one copy, also after cache_free took blocks away.              *)
THEOREM OneCopyKept == Spec => []OneCopy
  <1>1. CacheInv => OneCopy
    <2>. SUFFICES ASSUME CacheInv, NEW j \in Line, NEW k \in DOMAIN line[j]
                  PROVE  /\ LineOf(line[j][k].lsn) = j
                         /\ At(j, line[j][k].dev, line[j][k].lsn) = {k}
      BY DEF OneCopy
    <2>1. LineOK(line[j], j, newest)
      BY DEF CacheInv, LinesOK
    <2>. QED BY <2>1 DEF LineOK, At
  <1>. QED BY CacheInvariant, <1>1, PTL

(* Soft updates: cache_flush sends the more critical blocks first, and     *)
(* they reach the driver before the others of the same flush, however many *)
(* flushes overlap.                                                        *)
THEOREM CriticalFirst == Spec => []FlushOrder
  <1>1. CacheInv => FlushOrder
    BY DEF CacheInv, WritesOK, FlushOrder
  <1>. QED BY CacheInvariant, <1>1, PTL

(* No step puts an older version of a block over a newer one on a disk:    *)
(* only the newest version of a block is ever dirty, and the versions on   *)
(* their way to a driver are in the order they were written in.            *)
THEOREM DiskGoesForward == Spec => DiskForward
  <1>1. CacheInv /\ [Next]_vars => [\A b \in DOMAIN disk : disk'[b] >= disk[b]]_vars
    <2>1. CacheInv => DOMAIN disk = Block
      BY DEF CacheInv, Version
    <2>. QED BY <2>1, CacheStep
  <1>. QED BY CacheInvariant, <1>1, PTL DEF Spec, DiskForward
=============================================================================
