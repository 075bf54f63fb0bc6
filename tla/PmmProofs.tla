----------------------------- MODULE PmmProofs -----------------------------
(***************************************************************************)
(* Proofs about the physical memory manager, for any number of cores and   *)
(* tasks, any slot size and any boot memory map.                           *)
(***************************************************************************)
EXTENDS Pmm, TLAPS

(* What Apart compares: free fragments, and blocks with an owner. *)
Space == Fragment \union Block

Within(e, f) == \/ e.size = 0
                \/ f.base <= e.base /\ e.base + e.size <= f.base + f.size

Disjoint(s) == \A i, j \in 1..Len(s) : i # j => Apart(s[i], s[j])

(* No fragment of table s has a page of b. *)
Clear(s, b) == \A i \in 1..Len(s) : Apart(b, s[i])

(* Table t has no page that table s lacks. *)
Shrinks(s, t) == \A a \in Space : Clear(s, a) => Clear(t, a)

(* Block b has been taken out of table s, which leaves table t. *)
Carved(s, t, b) ==
    /\ t \in Seq(Fragment)
    /\ Disjoint(t)
    /\ Shrinks(s, t)
    /\ Clear(t, b)
    /\ \A a \in Space : Clear(s, a) => Apart(a, b)
-----------------------------------------------------------------------------
(* Arithmetic of intervals. *)
LEMMA SpaceType == /\ \A a \in Space : a.base \in Nat /\ a.size \in Nat
                   /\ \A a \in Fragment : a \in Space
                   /\ \A a \in Block : a \in Space
  BY DEF Space, Fragment, Block

(* Sharing no page is symmetric. *)
LEMMA ApartSymmetric == \A a, b \in Space : Apart(a, b) => Apart(b, a)
  BY DEF Apart

(* What shares no page with a block shares none with a part of it. *)
LEMMA ApartWithin == \A a, b, d \in Space : Within(b, d) /\ Apart(a, d) => Apart(a, b)
  BY SpaceType DEF Apart, Within

(* What shares no page with two neighbours shares none with their union. *)
LEMMA ApartJoined ==
  ASSUME NEW a \in Space, NEW b \in Fragment, NEW d \in Fragment,
         Adjoins(b, d), Apart(a, b), Apart(a, d)
  PROVE  Apart(a, [base |-> b.base, size |-> b.size + d.size])
  BY SpaceType DEF Apart, Adjoins

(* Every block is a part of itself. *)
LEMMA WithinSelf == \A a \in Space : Within(a, a)
  BY SpaceType DEF Within
-----------------------------------------------------------------------------
(* The entries of a table are fragments. *)
LEMMA FragmentType ==
  ASSUME NEW s \in Seq(Fragment)
  PROVE  /\ Len(s) \in Nat
         /\ \A k \in 1..Len(s) : s[k] \in Fragment
  OBVIOUS

(* The three ways to build a table keep it a table. *)
LEMMA ReplaceType ==
  ASSUME NEW s \in Seq(Fragment), NEW i \in 1..Len(s), NEW e \in Fragment
  PROVE  /\ Replace(s, i, e) \in Seq(Fragment)
         /\ Len(Replace(s, i, e)) = Len(s)
         /\ \A k \in 1..Len(s) : Replace(s, i, e)[k] = IF k = i THEN e ELSE s[k]
  BY DEF Replace

(* The compaction loops of pmm.c: removing an entry moves the later ones down. *)
LEMMA RemoveType ==
  ASSUME NEW s \in Seq(Fragment), NEW i \in 1..Len(s)
  PROVE  /\ Remove(s, i) \in Seq(Fragment)
         /\ Len(Remove(s, i)) = Len(s) - 1
         /\ \A k \in 1..(Len(s) - 1) : Remove(s, i)[k] = IF k < i THEN s[k] ELSE s[k + 1]
  <1>1. Len(s) \in Nat /\ Len(s) - 1 \in Nat
    OBVIOUS
  <1>2. \A k \in 1..(Len(s) - 1) : (IF k < i THEN s[k] ELSE s[k + 1]) \in Fragment
    OBVIOUS
  <1>. QED BY <1>1, <1>2 DEF Remove

(* The splitting loop of pmm_allocslot: duplicating an entry moves the later ones up. *)
LEMMA DuplicateType ==
  ASSUME NEW s \in Seq(Fragment), NEW i \in 1..Len(s)
  PROVE  /\ Duplicate(s, i) \in Seq(Fragment)
         /\ Len(Duplicate(s, i)) = Len(s) + 1
         /\ \A k \in 1..(Len(s) + 1) : Duplicate(s, i)[k] = IF k <= i THEN s[k] ELSE s[k - 1]
  <1>1. Len(s) \in Nat /\ Len(s) + 1 \in Nat
    OBVIOUS
  <1>2. \A k \in 1..(Len(s) + 1) : (IF k <= i THEN s[k] ELSE s[k - 1]) \in Fragment
    OBVIOUS
  <1>. QED BY <1>1, <1>2 DEF Duplicate

(* Taking block b out of entry i: every entry of the new table is a part  *)
(* of an entry of the old one, m says of which.                            *)
LEMMA Carve ==
  ASSUME NEW s \in Seq(Fragment), NEW t \in Seq(Fragment),
         NEW i \in 1..Len(s), NEW b \in Fragment, Within(b, s[i]), Disjoint(s),
         NEW m \in [1..Len(t) -> 1..Len(s)],
         \A k \in 1..Len(t) : Within(t[k], s[m[k]]),
         \A k \in 1..Len(t) : m[k] = i => Apart(b, t[k]),
         \A j, k \in 1..Len(t) : j # k /\ m[j] = m[k] => Apart(t[j], t[k])
  PROVE  Carved(s, t, b)
  <1>1. /\ \A k \in 1..Len(t) : t[k] \in Space /\ m[k] \in 1..Len(s)
        /\ \A k \in 1..Len(s) : s[k] \in Space
        /\ b \in Space
    BY FragmentType, SpaceType
  <1>2. Disjoint(t)
    <2>. SUFFICES ASSUME NEW j \in 1..Len(t), NEW k \in 1..Len(t), j # k
                  PROVE  Apart(t[j], t[k])
      BY DEF Disjoint
    <2>1. CASE m[j] = m[k]
      BY <2>1
    <2>2. CASE m[j] # m[k]
      <3>1. Apart(s[m[j]], s[m[k]])
        BY <1>1, <2>2 DEF Disjoint
      <3>2. Apart(s[m[j]], t[k])
        BY <1>1, <3>1, ApartWithin
      <3>3. Apart(t[k], s[m[j]])
        BY <1>1, <3>2, ApartSymmetric
      <3>4. Apart(t[k], t[j])
        BY <1>1, <3>3, ApartWithin
      <3>. QED BY <1>1, <3>4, ApartSymmetric
    <2>. QED BY <2>1, <2>2
  <1>3. Shrinks(s, t)
    BY <1>1, ApartWithin DEF Shrinks, Clear
  <1>4. Clear(t, b)
    <2>. SUFFICES ASSUME NEW k \in 1..Len(t), m[k] # i
                  PROVE  Apart(b, t[k])
      BY DEF Clear
    <2>1. Apart(s[m[k]], s[i])
      BY <1>1 DEF Disjoint
    <2>2. Apart(s[m[k]], b)
      BY <1>1, <2>1, ApartWithin
    <2>3. Apart(b, s[m[k]])
      BY <1>1, <2>2, ApartSymmetric
    <2>. QED BY <1>1, <2>3, ApartWithin
  <1>5. ASSUME NEW a \in Space, Clear(s, a)
        PROVE  Apart(a, b)
    BY <1>1, <1>5, ApartWithin DEF Clear
  <1>. QED BY <1>2, <1>3, <1>4, <1>5 DEF Carved

(* pmm_alloc: the block comes out of the table, the rest stays. *)
LEMMA TakeFrontKeeps ==
  ASSUME NEW s \in Seq(Fragment), NEW i \in 1..Len(s), NEW n \in Nat,
         n <= s[i].size, Disjoint(s)
  PROVE  Carved(s, TakeFront(s, i, n), [base |-> s[i].base, size |-> n])
  <1>. DEFINE b == [base |-> s[i].base, size |-> n]
              e == [base |-> s[i].base + n, size |-> s[i].size - n]
  <1>1. s[i] \in Fragment
    BY FragmentType
  <1>2. /\ b \in Fragment /\ e \in Fragment
        /\ Within(b, s[i]) /\ Within(e, s[i]) /\ Apart(b, e)
    <2>1. \A f \in Fragment : n <= f.size =>
             /\ [base |-> f.base, size |-> n] \in Fragment
             /\ [base |-> f.base + n, size |-> f.size - n] \in Fragment
             /\ Within([base |-> f.base, size |-> n], f)
             /\ Within([base |-> f.base + n, size |-> f.size - n], f)
             /\ Apart([base |-> f.base, size |-> n], [base |-> f.base + n, size |-> f.size - n])
      BY DEF Fragment, Within, Apart
    <2>. QED BY <1>1, <2>1
  <1>. HIDE DEF b, e
  <1>3. CASE s[i].size = n
    <2>. DEFINE t == Remove(s, i)
                m == [k \in 1..Len(t) |-> IF k < i THEN k ELSE k + 1]
    <2>1. /\ t \in Seq(Fragment)
          /\ Len(t) = Len(s) - 1
          /\ \A k \in 1..Len(t) : t[k] = IF k < i THEN s[k] ELSE s[k + 1]
      BY RemoveType
    <2>. HIDE DEF t
    <2>2. /\ m \in [1..Len(t) -> 1..Len(s)]
          /\ \A k \in 1..Len(t) : t[k] = s[m[k]] /\ m[k] # i
          /\ \A j, k \in 1..Len(t) : j # k => m[j] # m[k]
      BY <2>1, FragmentType
    <2>. HIDE DEF m
    <2>3. \A k \in 1..Len(t) : Within(t[k], s[m[k]])
      BY <2>1, <2>2, FragmentType, SpaceType, WithinSelf
    <2>4. /\ \A k \in 1..Len(t) : m[k] = i => Apart(b, t[k])
          /\ \A j, k \in 1..Len(t) : j # k /\ m[j] = m[k] => Apart(t[j], t[k])
      BY <1>2, <2>1, <2>2
    <2>5. Carved(s, t, b)
      <3>1. t \in Seq(Fragment) /\ m \in [1..Len(t) -> 1..Len(s)]
        BY <2>1, <2>2
      <3>2. b \in Fragment /\ Within(b, s[i])
        BY <1>2
      <3>. QED BY <2>3, <2>4, <3>1, <3>2, Carve, Zenon
    <2>. QED BY <1>3, <2>5 DEF TakeFront, t, b
  <1>4. CASE s[i].size # n
    <2>. DEFINE t == Replace(s, i, e)
                m == [k \in 1..Len(t) |-> k]
    <2>1. /\ t \in Seq(Fragment)
          /\ Len(t) = Len(s)
          /\ \A k \in 1..Len(t) : t[k] = IF k = i THEN e ELSE s[k]
      BY <1>2, ReplaceType
    <2>. HIDE DEF t
    <2>2. /\ m \in [1..Len(t) -> 1..Len(s)]
          /\ \A k \in 1..Len(t) : m[k] = k
      BY <2>1
    <2>. HIDE DEF m
    <2>3. \A k \in 1..Len(t) : Within(t[k], s[m[k]])
      BY <1>2, <2>1, <2>2, FragmentType, SpaceType, WithinSelf
    <2>4. /\ \A k \in 1..Len(t) : m[k] = i => Apart(b, t[k])
          /\ \A j, k \in 1..Len(t) : j # k /\ m[j] = m[k] => Apart(t[j], t[k])
      BY <1>2, <2>1, <2>2
    <2>5. Carved(s, t, b)
      <3>1. t \in Seq(Fragment) /\ m \in [1..Len(t) -> 1..Len(s)]
        BY <2>1, <2>2
      <3>2. b \in Fragment /\ Within(b, s[i])
        BY <1>2
      <3>. QED BY <2>3, <2>4, <3>1, <3>2, Carve, Zenon
    <2>. QED BY <1>4, <2>5 DEF TakeFront, t, b, e
  <1>. QED BY <1>3, <1>4 DEF b

(* Dropping an entry as well. *)
LEMMA RemoveKeepsCarved ==
  ASSUME NEW s \in Seq(Fragment), NEW t, NEW b, Carved(s, t, b), NEW i \in 1..Len(t)
  PROVE  Carved(s, Remove(t, i), b)
  <1>. DEFINE r == Remove(t, i)
              m(k) == IF k < i THEN k ELSE k + 1
  <1>1. t \in Seq(Fragment) /\ Len(t) \in Nat
    BY FragmentType DEF Carved
  <1>2. /\ r \in Seq(Fragment)
        /\ Len(r) = Len(t) - 1
        /\ \A k \in 1..(Len(t) - 1) : r[k] = IF k < i THEN t[k] ELSE t[k + 1]
    BY <1>1, RemoveType
  <1>. HIDE DEF r
  <1>3. \A k \in 1..Len(r) : m(k) \in 1..Len(t) /\ r[k] = t[m(k)]
    BY <1>1, <1>2
  <1>4. \A j, k \in 1..Len(r) : j # k => m(j) # m(k)
    BY <1>1, <1>2
  <1>. HIDE DEF m
  <1>5. Disjoint(r)
    BY <1>3, <1>4 DEF Carved, Disjoint
  <1>6. Shrinks(s, r) /\ Clear(r, b)
    BY <1>3 DEF Carved, Shrinks, Clear
  <1>. QED BY <1>2, <1>5, <1>6 DEF Carved, r

(* The slot boundary is at or above the base. *)
LEMMA SlotBaseType ==
  ASSUME NEW e \in Fragment
  PROVE  SlotBase(e) \in Nat /\ SlotBase(e) >= e.base
  <1>1. e.base \in Nat /\ SlotPages \in Nat /\ SlotPages > 0
    BY SizeAssumption DEF Fragment
  <1>. DEFINE a == e.base + SlotPages - 1
              q == a \div SlotPages
  <1>2. a \in Nat
    BY <1>1
  <1>3. q \in Nat /\ a < SlotPages * (q + 1)
    BY <1>1, <1>2
  <1>4. SlotPages * (q + 1) = q * SlotPages + SlotPages /\ q * SlotPages \in Nat
    BY <1>1, <1>3
  <1>5. SlotBase(e) = q * SlotPages
    BY DEF SlotBase
  <1>. QED BY <1>1, <1>2, <1>3, <1>4, <1>5

(* A slot inside a fragment, what is before it and what is after it. *)
LEMMA SlotParts ==
  ASSUME NEW f \in Fragment, NEW x \in Nat,
         x >= f.base, f.base + f.size >= x + SlotPages
  PROVE  LET y == x - f.base
             b == [base |-> x, size |-> SlotPages]
             h == [base |-> f.base, size |-> y]
             t == [base |-> x + SlotPages, size |-> f.size - (y + SlotPages)]
         IN /\ y \in Nat
            /\ b \in Fragment /\ h \in Fragment /\ t \in Fragment
            /\ Within(b, f) /\ Within(h, f) /\ Within(t, f)
            /\ Apart(b, h) /\ Apart(b, t) /\ Apart(h, t) /\ Apart(t, h)
  <1>. DEFINE y == x - f.base
              z == f.size - (y + SlotPages)
              b == [base |-> x, size |-> SlotPages]
              h == [base |-> f.base, size |-> y]
              t == [base |-> x + SlotPages, size |-> z]
  <1>1. f.base \in Nat /\ f.size \in Nat /\ SlotPages \in Nat
    BY SizeAssumption DEF Fragment
  <1>2. y \in Nat /\ z \in Nat /\ f.base + y = x /\ x + SlotPages + z = f.base + f.size
    <2>1. \A p, q, r \in Nat : x >= p /\ p + q >= x + r =>
             /\ x - p \in Nat /\ q - ((x - p) + r) \in Nat
             /\ p + (x - p) = x /\ x + r + (q - ((x - p) + r)) = p + q
      OBVIOUS
    <2>. QED BY <1>1, <2>1
  <1>. HIDE DEF y, z
  <1>3. b \in Fragment /\ h \in Fragment /\ t \in Fragment
    BY <1>1, <1>2 DEF Fragment
  <1>4. Within(b, f) /\ Within(h, f) /\ Within(t, f)
    BY <1>1, <1>2 DEF Within
  <1>5. Apart(b, h) /\ Apart(b, t) /\ Apart(h, t) /\ Apart(t, h)
    BY <1>1, <1>2 DEF Apart
  <1>. QED BY <1>2, <1>3, <1>4, <1>5 DEF y, z

(* pmm_allocslot: the slot comes out of the table; what the update drops   *)
(* besides it is never handed out twice.                                   *)
LEMMA TakeSlotKeeps ==
  ASSUME NEW s \in Seq(Fragment), NEW i \in 1..Len(s), HasSlot(s[i]), Disjoint(s)
  PROVE  Carved(s, TakeSlot(s, i), [base |-> SlotBase(s[i]), size |-> SlotPages])
  <1>. DEFINE b == [base |-> SlotBase(s[i]), size |-> SlotPages]
              n == SlotBase(s[i]) - s[i].base
              head == [base |-> s[i].base, size |-> n]
              tail == [base |-> SlotBase(s[i]) + SlotPages,
                       size |-> s[i].size - (n + SlotPages)]
              cut == IF n > 0
                     THEN Replace(Replace(Duplicate(s, i), i, head), i + 1, tail)
                     ELSE Replace(s, i, tail)
              t == IF tail.size = 0 THEN Remove(cut, i) ELSE cut
  <1>1. s[i] \in Fragment /\ Len(s) \in Nat
    BY FragmentType
  <1>2. /\ n \in Nat
        /\ b \in Fragment /\ head \in Fragment /\ tail \in Fragment
        /\ Within(b, s[i]) /\ Within(head, s[i]) /\ Within(tail, s[i])
        /\ Apart(b, head) /\ Apart(b, tail) /\ Apart(head, tail) /\ Apart(tail, head)
    <2>2. SlotBase(s[i]) \in Nat /\ SlotBase(s[i]) >= s[i].base
      BY <1>1, SlotBaseType
    <2>3. s[i].base + s[i].size >= SlotBase(s[i]) + SlotPages
      BY DEF HasSlot
    <2>. QED BY <1>1, <2>2, <2>3, SlotParts
  <1>. HIDE DEF b, n, head, tail
  <1>3. CASE n > 0
    <2>. DEFINE u == Duplicate(s, i)
                v == Replace(u, i, head)
                w == Replace(v, i + 1, tail)
                p == [k \in 1..Len(w) |-> IF k <= i THEN k ELSE k - 1]
    <2>1. /\ u \in Seq(Fragment) /\ Len(u) = Len(s) + 1
          /\ \A k \in 1..(Len(s) + 1) : u[k] = IF k <= i THEN s[k] ELSE s[k - 1]
      BY DuplicateType
    <2>. HIDE DEF u
    <2>2. /\ v \in Seq(Fragment) /\ Len(v) = Len(s) + 1
          /\ \A k \in 1..(Len(s) + 1) : v[k] = IF k = i THEN head ELSE u[k]
      <3>1. i \in 1..Len(u)
        BY <1>1, <2>1
      <3>2. /\ v \in Seq(Fragment) /\ Len(v) = Len(u)
            /\ \A k \in 1..Len(u) : v[k] = IF k = i THEN head ELSE u[k]
        <4>1. u \in Seq(Fragment) /\ head \in Fragment
          BY <1>2, <2>1
        <4>2. \A x \in Fragment :
                 /\ Replace(u, i, x) \in Seq(Fragment)
                 /\ Len(Replace(u, i, x)) = Len(u)
                 /\ \A k \in 1..Len(u) : Replace(u, i, x)[k] = IF k = i THEN x ELSE u[k]
          BY <3>1, <4>1, ReplaceType
        <4>. QED BY <4>1, <4>2
      <3>. QED BY <2>1, <3>2
    <2>. HIDE DEF v
    <2>3. /\ w \in Seq(Fragment) /\ Len(w) = Len(s) + 1
          /\ \A k \in 1..(Len(s) + 1) : w[k] = IF k = i + 1 THEN tail ELSE v[k]
      <3>1. i + 1 \in 1..Len(v)
        BY <1>1, <2>2
      <3>2. /\ w \in Seq(Fragment) /\ Len(w) = Len(v)
            /\ \A k \in 1..Len(v) : w[k] = IF k = i + 1 THEN tail ELSE v[k]
        <4>1. v \in Seq(Fragment) /\ tail \in Fragment
          BY <1>2, <2>2
        <4>. QED BY <3>1, <4>1, ReplaceType, Zenon
      <3>. QED BY <2>2, <3>2
    <2>. HIDE DEF w
    <2>4. /\ w[i] = head /\ w[i + 1] = tail
          /\ \A k \in 1..Len(w) : k # i /\ k # i + 1 => w[k] = s[p[k]]
      <3>1. i \in 1..(Len(s) + 1) /\ i + 1 \in 1..(Len(s) + 1) /\ i # i + 1
        BY <1>1
      <3>2. w[i] = head /\ w[i + 1] = tail
        BY <2>2, <2>3, <3>1
      <3>3. ASSUME NEW k \in 1..Len(w), k # i, k # i + 1
            PROVE  w[k] = s[p[k]]
        <4>1. k \in 1..(Len(s) + 1)
          BY <2>3, <3>3
        <4>2. w[k] = u[k]
          BY <2>2, <2>3, <3>3, <4>1
        <4>3. u[k] = s[IF k <= i THEN k ELSE k - 1]
          BY <2>1, <4>1
        <4>. QED BY <3>3, <4>2, <4>3
      <3>. QED BY <3>2, <3>3
    <2>5. /\ p \in [1..Len(w) -> 1..Len(s)]
          /\ p[i] = i /\ p[i + 1] = i
          /\ \A k \in 1..Len(w) : p[k] = i => k = i \/ k = i + 1
          /\ \A j, k \in 1..Len(w) : j # k /\ p[j] = p[k] => p[k] = i
      BY <1>1, <2>3
    <2>. HIDE DEF p
    <2>6. \A k \in 1..Len(w) : Within(w[k], s[p[k]])
      BY <1>2, <2>4, <2>5, FragmentType, SpaceType, WithinSelf
    <2>7. \A k \in 1..Len(w) : p[k] = i => Apart(b, w[k])
      BY <1>2, <2>4, <2>5
    <2>8. \A j, k \in 1..Len(w) : j # k /\ p[j] = p[k] => Apart(w[j], w[k])
      BY <1>2, <2>4, <2>5
    <2>9. Carved(s, w, b)
      <3>1. w \in Seq(Fragment) /\ p \in [1..Len(w) -> 1..Len(s)]
        BY <2>3, <2>5
      <3>2. b \in Fragment /\ Within(b, s[i])
        BY <1>2
      <3>. QED BY <2>6, <2>7, <2>8, <3>1, <3>2, Carve, Zenon
    <2>10. i \in 1..Len(w)
      BY <1>1, <2>3
    <2>11. w = cut
      BY <1>3 DEF u, v, w
    <2>. HIDE DEF cut
    <2>12. Carved(s, t, b)
      BY <2>9, <2>10, <2>11, RemoveKeepsCarved
    <2>. QED BY <2>12 DEF cut, t, b, n, head, tail, TakeSlot
  <1>4. CASE ~(n > 0)
    <2>. DEFINE w == Replace(s, i, tail)
                p == [k \in 1..Len(w) |-> k]
    <2>1. /\ w \in Seq(Fragment) /\ Len(w) = Len(s)
          /\ \A k \in 1..Len(w) : w[k] = IF k = i THEN tail ELSE s[k]
      BY <1>2, ReplaceType
    <2>. HIDE DEF w
    <2>2. p \in [1..Len(w) -> 1..Len(s)] /\ \A k \in 1..Len(w) : p[k] = k
      BY <2>1
    <2>. HIDE DEF p
    <2>3. \A k \in 1..Len(w) : Within(w[k], s[p[k]])
      BY <1>2, <2>1, <2>2, FragmentType, SpaceType, WithinSelf
    <2>4. /\ \A k \in 1..Len(w) : p[k] = i => Apart(b, w[k])
          /\ \A j, k \in 1..Len(w) : j # k /\ p[j] = p[k] => Apart(w[j], w[k])
      BY <1>2, <2>1, <2>2
    <2>5. Carved(s, w, b)
      <3>1. w \in Seq(Fragment) /\ p \in [1..Len(w) -> 1..Len(s)]
        BY <2>1, <2>2
      <3>2. b \in Fragment /\ Within(b, s[i])
        BY <1>2
      <3>. QED BY <2>3, <2>4, <3>1, <3>2, Carve, Zenon
    <2>6. i \in 1..Len(w) /\ w = cut
      BY <1>1, <1>4, <2>1 DEF w
    <2>. HIDE DEF cut
    <2>7. Carved(s, t, b)
      BY <2>5, <2>6, RemoveKeepsCarved
    <2>. QED BY <2>7 DEF cut, t, b, n, head, tail, TakeSlot
  <1>. QED BY <1>3, <1>4 DEF b

(* pmm_free: the block goes back into a table that has no page of it. *)
LEMMA PutBackKeeps ==
  ASSUME NEW s \in Seq(Fragment), NEW b \in Fragment, Disjoint(s), Clear(s, b),
         NEW i \in 1..(Len(s) + 1), i <= Len(s) => Touches(s[i], b)
  PROVE  /\ PutBack(s, i, b) \in Seq(Fragment)
         /\ Disjoint(PutBack(s, i, b))
         /\ i \in 1..Len(PutBack(s, i, b))
         /\ \A a \in Space : Clear(s, a) /\ Apart(a, b) => Clear(PutBack(s, i, b), a)
  <1>. DEFINE t == PutBack(s, i, b)
  <1>1. /\ Len(s) \in Nat /\ b \in Space
        /\ \A k \in 1..Len(s) : s[k] \in Fragment /\ s[k] \in Space
    BY FragmentType, SpaceType
  <1>2. CASE i = Len(s) + 1
    <2>1. t = Append(s, b)
      BY <1>2 DEF PutBack
    <2>2. /\ t \in Seq(Fragment) /\ Len(t) = Len(s) + 1
          /\ \A k \in 1..Len(t) : t[k] = IF k = Len(s) + 1 THEN b ELSE s[k]
      <3>. HIDE DEF t
      <3>. QED BY <1>1, <2>1
    <2>. HIDE DEF t
    <2>3. \A k \in 1..Len(s) : Apart(s[k], b) /\ Apart(b, s[k])
      BY <1>1, ApartSymmetric DEF Clear
    <2>4. Disjoint(t)
      BY <1>1, <2>2, <2>3 DEF Disjoint
    <2>5. \A a \in Space : Clear(s, a) /\ Apart(a, b) => Clear(t, a)
      BY <1>1, <2>2 DEF Clear
    <2>6. i \in 1..Len(t)
      BY <1>2, <2>2
    <2>. QED BY <2>2, <2>4, <2>5, <2>6 DEF t
  <1>3. CASE i # Len(s) + 1
    <2>1. i \in 1..Len(s) /\ s[i] \in Fragment
      BY <1>1, <1>3
    <2>2. PICK w \in Fragment :
             /\ t = Replace(s, i, w)
             /\ \A a \in Space : Apart(a, s[i]) /\ Apart(a, b) => Apart(a, w)
      <3>1. CASE Adjoins(b, s[i])
        <4>. DEFINE w == [base |-> b.base, size |-> b.size + s[i].size]
        <4>1. \A e, f \in Fragment : /\ [base |-> e.base, size |-> e.size + f.size] \in Fragment
                                     /\ e.size + f.size = f.size + e.size
          BY DEF Fragment
        <4>2. w \in Fragment /\ b.size + s[i].size = s[i].size + b.size
          BY <2>1, <4>1
        <4>3. t = Replace(s, i, w)
          BY <1>3, <2>1, <3>1, <4>2 DEF PutBack
        <4>4. \A a \in Space : Apart(a, s[i]) /\ Apart(a, b) => Apart(a, w)
          BY <2>1, <3>1, ApartJoined
        <4>. QED BY <4>2, <4>3, <4>4
      <3>2. CASE ~Adjoins(b, s[i])
        <4>. DEFINE w == [base |-> s[i].base, size |-> s[i].size + b.size]
        <4>1. \A e, f \in Fragment : [base |-> e.base, size |-> e.size + f.size] \in Fragment
          BY DEF Fragment
        <4>2. w \in Fragment
          BY <2>1, <4>1
        <4>3. \A e \in Fragment : [e EXCEPT !.size = @ + b.size]
                                     = [base |-> e.base, size |-> e.size + b.size]
          BY DEF Fragment
        <4>4. t = Replace(s, i, w)
          BY <1>3, <2>1, <3>2, <4>3 DEF PutBack
        <4>5. Adjoins(s[i], b)
          BY <1>1, <2>1, <3>2 DEF Touches
        <4>6. \A a \in Space : Apart(a, s[i]) /\ Apart(a, b) => Apart(a, w)
          BY <2>1, <4>5, ApartJoined
        <4>. QED BY <4>2, <4>4, <4>6
      <3>. QED BY <3>1, <3>2
    <2>3. /\ t \in Seq(Fragment) /\ Len(t) = Len(s)
          /\ \A k \in 1..Len(t) : t[k] = IF k = i THEN w ELSE s[k]
      <3>. HIDE DEF t
      <3>1. t = Replace(s, i, w) /\ w \in Fragment
        BY <2>2
      <3>2. /\ Replace(s, i, w) \in Seq(Fragment)
            /\ Len(Replace(s, i, w)) = Len(s)
            /\ \A k \in 1..Len(s) : Replace(s, i, w)[k] = IF k = i THEN w ELSE s[k]
        BY <2>1 DEF Replace
      <3>. QED BY <3>1, <3>2
    <2>. HIDE DEF t
    <2>4. \A k \in 1..Len(s) : k # i => Apart(s[k], w) /\ Apart(w, s[k])
      <3>. SUFFICES ASSUME NEW k \in 1..Len(s), k # i
                    PROVE  Apart(s[k], w) /\ Apart(w, s[k])
        OBVIOUS
      <3>1. Apart(s[k], s[i]) /\ Apart(s[k], b)
        BY <1>1, <2>1, ApartSymmetric DEF Clear, Disjoint
      <3>2. Apart(s[k], w)
        BY <1>1, <2>2, <3>1
      <3>. QED BY <1>1, <3>2, SpaceType, ApartSymmetric
    <2>5. Disjoint(t)
      BY <2>3, <2>4 DEF Disjoint
    <2>6. \A a \in Space : Clear(s, a) /\ Apart(a, b) => Clear(t, a)
      BY <2>1, <2>2, <2>3 DEF Clear
    <2>. QED BY <2>1, <2>3, <2>5, <2>6 DEF t
  <1>. QED BY <1>2, <1>3

(* The second pass of pmm_free takes no page that was not in the table. *)
LEMMA MergeKeeps ==
  ASSUME NEW s \in Seq(Fragment), Disjoint(s),
         NEW i \in 1..Len(s), NEW j \in 1..Len(s), Touches(s[j], s[i])
  PROVE  /\ Merge(s, i, j) \in Seq(Fragment)
         /\ Disjoint(Merge(s, i, j))
         /\ Shrinks(s, Merge(s, i, j))
  <1>. DEFINE whole == [base |-> IF Adjoins(s[i], s[j]) THEN s[i].base ELSE s[j].base,
                        size |-> s[i].size + s[j].size]
              u == Replace(s, i, whole)
              r == Remove(u, j)
              m(k) == IF k < j THEN k ELSE k + 1
  <1>1. /\ Len(s) \in Nat
        /\ \A k \in 1..Len(s) : s[k] \in Fragment /\ s[k] \in Space
    BY FragmentType, SpaceType
  <1>2. /\ whole \in Fragment
        /\ \A a \in Space : Apart(a, s[i]) /\ Apart(a, s[j]) => Apart(a, whole)
    <2>1. \A e, f \in Fragment : /\ [base |-> e.base, size |-> e.size + f.size] \in Fragment
                                 /\ e.size + f.size = f.size + e.size
      BY DEF Fragment
    <2>2. CASE Adjoins(s[i], s[j])
      <3>1. whole = [base |-> s[i].base, size |-> s[i].size + s[j].size]
        BY <2>2
      <3>. HIDE DEF whole
      <3>. QED BY <1>1, <2>1, <2>2, <3>1, ApartJoined
    <2>3. CASE ~Adjoins(s[i], s[j])
      <3>1. whole = [base |-> s[j].base, size |-> s[j].size + s[i].size]
        BY <1>1, <2>1, <2>3
      <3>2. Adjoins(s[j], s[i])
        BY <2>3 DEF Touches
      <3>. HIDE DEF whole
      <3>. QED BY <1>1, <2>1, <3>1, <3>2, ApartJoined
    <2>. QED BY <2>2, <2>3
  <1>. HIDE DEF whole
  <1>3. /\ u \in Seq(Fragment) /\ Len(u) = Len(s)
        /\ \A k \in 1..Len(s) : u[k] = IF k = i THEN whole ELSE s[k]
    BY <1>2, ReplaceType
  <1>. HIDE DEF u
  <1>4. /\ r \in Seq(Fragment) /\ Len(r) = Len(s) - 1
        /\ \A k \in 1..(Len(s) - 1) : r[k] = IF k < j THEN u[k] ELSE u[k + 1]
    <2>1. j \in 1..Len(u)
      BY <1>3
    <2>2. /\ r \in Seq(Fragment) /\ Len(r) = Len(u) - 1
          /\ \A k \in 1..(Len(u) - 1) : r[k] = IF k < j THEN u[k] ELSE u[k + 1]
      BY <1>3, <2>1, RemoveType
    <2>. QED BY <1>3, <2>2
  <1>. HIDE DEF r
  <1>5. /\ \A k \in 1..Len(r) : m(k) \in 1..Len(s) /\ m(k) # j /\ r[k] = u[m(k)]
        /\ \A k, l \in 1..Len(r) : k # l => m(k) # m(l)
    BY <1>1, <1>4
  <1>. HIDE DEF m
  <1>6. \A k \in 1..Len(r) : r[k] = IF m(k) = i THEN whole ELSE s[m(k)]
    BY <1>3, <1>5
  <1>7. \A k \in 1..Len(s) : k # i /\ k # j => Apart(s[k], whole) /\ Apart(whole, s[k])
    <2>. SUFFICES ASSUME NEW k \in 1..Len(s), k # i, k # j
                  PROVE  Apart(s[k], whole) /\ Apart(whole, s[k])
      OBVIOUS
    <2>1. Apart(s[k], s[i]) /\ Apart(s[k], s[j])
      BY DEF Disjoint
    <2>2. Apart(s[k], whole)
      BY <1>1, <1>2, <2>1
    <2>. QED BY <1>1, <1>2, <2>2, SpaceType, ApartSymmetric
  <1>8. Disjoint(r)
    <2>. SUFFICES ASSUME NEW k \in 1..Len(r), NEW l \in 1..Len(r), k # l
                  PROVE  Apart(r[k], r[l])
      BY DEF Disjoint
    <2>1. /\ m(k) \in 1..Len(s) /\ m(k) # j
          /\ m(l) \in 1..Len(s) /\ m(l) # j /\ m(k) # m(l)
      BY <1>5
    <2>. QED BY <1>6, <1>7, <2>1 DEF Disjoint
  <1>9. Shrinks(s, r)
    BY <1>2, <1>5, <1>6 DEF Shrinks, Clear
  <1>. QED BY <1>4, <1>8, <1>9 DEF Merge, r, u, whole

-----------------------------------------------------------------------------
(* A counter stays within its word. *)
LEMMA WordType == \A n \in Int : Word(n) \in 0..(WordSize - 1)
  BY SizeAssumption DEF Word

(* The failed allocation, a block of no pages, shares a page with nothing. *)
LEMMA NoBlockType == NoBlock \in Fragment /\ \A a : Apart(NoBlock, a) /\ Apart(a, NoBlock)
  BY DEF NoBlock, Fragment, Apart

(* The steps of one core, with the number of calls made. *)
LEMMA NextCases ==
  ASSUME Next
  PROVE  \/ Boot
         \/ \E c \in CPU, t \in Task, n \in 1..MaxPages : pmm_alloc(c, t, n) /\ calls' = calls + 1
         \/ \E c \in CPU, t \in Task : pmm_allocslot(c, t) /\ calls' = calls + 1
         \/ \E c \in CPU : \E b \in held : pmm_free(c, b) /\ calls' = calls + 1
         \/ \E c \in CPU :
               /\ \/ lockacquire(c) \/ Scan(c)
                  \/ AllocTake(c) \/ SlotTake(c) \/ FreePut(c)
                  \/ FreepagesRead(c) \/ FreepagesWrite(c)
                  \/ AllocmemRead(c) \/ AllocmemWrite(c)
                  \/ FreeMerge(c) \/ lockrelease(c) \/ Return(c)
               /\ calls' = calls
  BY Zenon DEF Next, Use, Run

(* What the four steps that change the table do to it. *)
LEMMA AllocTakeTable ==
  ASSUME IndInv, NEW c \in CPU, AllocTake(c)
  PROVE  /\ blk'[c] \in Fragment
         /\ Carved(pmm_entries, pmm_entries', blk'[c])
  <1>1. /\ pmm_entries \in Seq(Fragment) /\ Disjoint(pmm_entries)
        /\ idx[c] \in 1..Len(pmm_entries) /\ pages[c] \in Nat
        /\ pmm_entries[idx[c]].size >= pages[c]
    BY DEF IndInv, TypeOK, ScanStillValid, NoDoubleUse, Disjoint, AllocTake
  <1>2. pmm_entries[idx[c]].base \in Nat /\ pmm_entries[idx[c]].size \in Nat
    BY <1>1, FragmentType, SpaceType
  <1>3. pages[c] <= pmm_entries[idx[c]].size
    BY <1>1, <1>2
  <1>4. /\ blk'[c] = [base |-> pmm_entries[idx[c]].base, size |-> pages[c]]
        /\ pmm_entries' = TakeFront(pmm_entries, idx[c], pages[c])
    BY DEF IndInv, TypeOK, AllocTake
  <1>5. blk'[c] \in Fragment
    BY <1>1, <1>2, <1>4 DEF Fragment
  <1>. QED BY <1>1, <1>3, <1>4, <1>5, TakeFrontKeeps

(* The update of pmm_allocslot takes exactly the slot out of the table. *)
LEMMA SlotTakeTable ==
  ASSUME IndInv, NEW c \in CPU, SlotTake(c)
  PROVE  /\ blk'[c] \in Fragment
         /\ Carved(pmm_entries, pmm_entries', blk'[c])
  <1>1. /\ pmm_entries \in Seq(Fragment) /\ Disjoint(pmm_entries)
        /\ idx[c] \in 1..Len(pmm_entries) /\ HasSlot(pmm_entries[idx[c]])
    BY DEF IndInv, TypeOK, ScanStillValid, NoDoubleUse, Disjoint, SlotTake
  <1>2. SlotBase(pmm_entries[idx[c]]) \in Nat
    BY <1>1, FragmentType, SlotBaseType
  <1>3. /\ blk'[c] = [base |-> SlotBase(pmm_entries[idx[c]]), size |-> SlotPages]
        /\ pmm_entries' = TakeSlot(pmm_entries, idx[c])
    BY DEF IndInv, TypeOK, SlotTake
  <1>4. blk'[c] \in Fragment
    BY <1>2, <1>3, SizeAssumption DEF Fragment
  <1>. QED BY <1>1, <1>3, <1>4, TakeSlotKeeps

(* The first loop of pmm_free puts the block into the table and nothing else. *)
LEMMA FreePutTable ==
  ASSUME IndInv, NEW c \in CPU, FreePut(c)
  PROVE  /\ pmm_entries' \in Seq(Fragment) /\ Disjoint(pmm_entries')
         /\ idx[c] \in 1..Len(pmm_entries')
         /\ \A a \in Space : Clear(pmm_entries, a) /\ Apart(a, blk[c]) => Clear(pmm_entries', a)
  <1>1. /\ pmm_entries \in Seq(Fragment) /\ Disjoint(pmm_entries)
        /\ blk[c] \in Fragment /\ Clear(pmm_entries, blk[c])
        /\ idx[c] \in 1..(Len(pmm_entries) + 1)
        /\ idx[c] <= Len(pmm_entries) => Touches(pmm_entries[idx[c]], blk[c])
    BY DEF IndInv, TypeOK, ScanStillValid, NoDoubleUse, Disjoint, Clear, FreePut
  <1>2. pmm_entries' = PutBack(pmm_entries, idx[c], blk[c])
    BY DEF FreePut
  <1>. QED BY <1>1, <1>2, PutBackKeeps

(* The second loop of pmm_free adds no page to the table. *)
LEMMA FreeMergeTable ==
  ASSUME IndInv, NEW c \in CPU, FreeMerge(c)
  PROVE  /\ pmm_entries' \in Seq(Fragment) /\ Disjoint(pmm_entries')
         /\ Shrinks(pmm_entries, pmm_entries')
  <1>1. /\ pmm_entries \in Seq(Fragment) /\ Disjoint(pmm_entries)
        /\ idx[c] \in 1..Len(pmm_entries)
    BY DEF IndInv, TypeOK, ScanStillValid, CallsInOrder, Unmerged, NoDoubleUse, Disjoint, FreeMerge
  <1>2. PICK j \in 0..Len(pmm_entries) :
           /\ IsFirst(j, pmm_entries, LAMBDA e : Touches(e, pmm_entries[idx[c]]))
           /\ pmm_entries' = IF j = 0 THEN pmm_entries ELSE Merge(pmm_entries, idx[c], j)
    BY DEF FreeMerge
  <1>3. CASE j = 0
    BY <1>1, <1>2, <1>3 DEF Shrinks
  <1>4. CASE j # 0
    <2>1. j \in 1..Len(pmm_entries) /\ Touches(pmm_entries[j], pmm_entries[idx[c]])
      BY <1>2, <1>4 DEF IsFirst
    <2>2. pmm_entries' = Merge(pmm_entries, idx[c], j)
      BY <1>2, <1>4
    <2>. QED BY <1>1, <2>1, <2>2, MergeKeeps
  <1>. QED BY <1>3, <1>4

(* What each update of the table gives back is a table. *)
LEMMA TypeStep == IndInv /\ [Next]_vars => TypeOK'
  <1>. SUFFICES ASSUME IndInv, [Next]_vars PROVE TypeOK'
    OBVIOUS
  <1>. USE DEF Goto
  <1>1. /\ TypeOK /\ CallsInOrder /\ ScanStillValid /\ NoDoubleUse
        /\ Disjoint(pmm_entries)
    BY DEF IndInv, NoDoubleUse, Disjoint
  <1>2. CASE Boot
    BY <1>1, <1>2 DEF Boot, TypeOK, table, counters, locals
  <1>3. ASSUME NEW c \in CPU, NEW t \in Task, NEW n \in 1..MaxPages,
               pmm_alloc(c, t, n), calls' = calls + 1
        PROVE  TypeOK'
    <2>1. n \in Nat
      BY SizeAssumption
    <2>2. CASE Shouldnothappen
      BY <1>1, <1>3, <2>2 DEF pmm_alloc, TypeOK, table, counters, locals
    <2>3. CASE ~Shouldnothappen
      <3>1. Enter(c, "pmm_alloc", t, n, NoBlock) /\ UNCHANGED <<panicked, held>>
        BY <1>3, <2>3 DEF pmm_alloc
      <3>2. NoBlock \in Fragment
        BY NoBlockType
      <3>. QED BY <1>1, <1>3, <2>1, <3>1, <3>2
         DEF Enter, TypeOK, table, counters, Steps
    <2>. QED BY <2>2, <2>3
  <1>4. ASSUME NEW c \in CPU, NEW t \in Task, pmm_allocslot(c, t), calls' = calls + 1
        PROVE  TypeOK'
    BY <1>1, <1>4, SizeAssumption, NoBlockType
       DEF pmm_allocslot, Enter, TypeOK, table, counters, Steps
  <1>5. ASSUME NEW c \in CPU, NEW b \in held, pmm_free(c, b), calls' = calls + 1
        PROVE  TypeOK'
    <2>1. /\ b.owner \in Task /\ b.size \in Nat
          /\ [base |-> b.base, size |-> b.size] \in Fragment
      <3>1. b \in Block
        BY <1>1 DEF TypeOK
      <3>. QED BY <3>1 DEF Block, Fragment
    <2>. QED BY <1>1, <1>5, <2>1 DEF pmm_free, Enter, TypeOK, table, counters, Steps
  <1>6. ASSUME NEW c \in CPU, calls' = calls, lockacquire(c)
        PROVE  TypeOK'
    BY <1>1, <1>6 DEF lockacquire, TypeOK, counters, Steps
  <1>7. ASSUME NEW c \in CPU, calls' = calls, Scan(c)
        PROVE  TypeOK'
    <2>1. PICK i \in 0..Len(pmm_entries), st \in {"release", "take"} :
             /\ \/ idx' = [idx EXCEPT ![c] = i]
                \/ idx' = [idx EXCEPT ![c] = Len(pmm_entries) + 1]
             /\ pc' = [pc EXCEPT ![c] = st]
      BY <1>7 DEF Scan
    <2>2. i \in Nat /\ Len(pmm_entries) + 1 \in Nat
      BY <1>1, FragmentType DEF TypeOK
    <2>3. idx' \in [CPU -> Nat] /\ pc' \in [CPU -> Steps]
      BY <1>1, <2>1, <2>2 DEF TypeOK, Steps
    <2>. QED BY <1>1, <1>7, <2>3 DEF Scan, TypeOK, table, counters
  <1>8. ASSUME NEW c \in CPU, calls' = calls, AllocTake(c)
        PROVE  TypeOK'
    <2>1. blk'[c] \in Fragment /\ pmm_entries' \in Seq(Fragment)
      BY <1>8, AllocTakeTable DEF Carved
    <2>2. blk' = [blk EXCEPT ![c] = blk'[c]]
      BY <1>1, <1>8 DEF TypeOK, AllocTake
    <2>. QED BY <1>1, <1>8, <2>1, <2>2 DEF AllocTake, TypeOK, counters, Steps
  <1>9. ASSUME NEW c \in CPU, calls' = calls, SlotTake(c)
        PROVE  TypeOK'
    <2>1. blk'[c] \in Fragment /\ pmm_entries' \in Seq(Fragment)
      BY <1>9, SlotTakeTable DEF Carved
    <2>2. blk' = [blk EXCEPT ![c] = blk'[c]]
      BY <1>1, <1>9 DEF TypeOK, SlotTake
    <2>. QED BY <1>1, <1>9, <2>1, <2>2 DEF SlotTake, TypeOK, counters, Steps
  <1>10. ASSUME NEW c \in CPU, calls' = calls, FreePut(c)
        PROVE  TypeOK'
    <2>1. pmm_entries' \in Seq(Fragment)
      BY <1>10, FreePutTable
    <2>. QED BY <1>1, <1>10, <2>1, NoBlockType DEF FreePut, TypeOK, counters, Steps
  <1>11. ASSUME NEW c \in CPU, calls' = calls, FreeMerge(c)
        PROVE  TypeOK'
    <2>1. pmm_entries' \in Seq(Fragment)
      BY <1>11, FreeMergeTable
    <2>. QED BY <1>1, <1>11, <2>1 DEF FreeMerge, TypeOK, counters, Steps
  <1>12. ASSUME NEW c \in CPU, calls' = calls, FreepagesRead(c)
        PROVE  TypeOK'
    BY <1>1, <1>12 DEF FreepagesRead, TypeOK, table, counters, Steps
  <1>13. ASSUME NEW c \in CPU, calls' = calls, FreepagesWrite(c)
        PROVE  TypeOK'
    <2>1. Change(c, reg[c]) \in 0..(WordSize - 1)
      <3>1. reg[c] \in Int /\ pages[c] \in Int
        BY <1>1 DEF TypeOK
      <3>2. reg[c] + pages[c] \in Int /\ reg[c] - pages[c] \in Int
        BY <3>1
      <3>. QED BY <3>2, WordType DEF Change
    <2>. QED BY <1>1, <1>13, <2>1 DEF FreepagesWrite, TypeOK, table, Steps
  <1>14. ASSUME NEW c \in CPU, calls' = calls, AllocmemRead(c)
        PROVE  TypeOK'
    <2>1. allocmem[tcb[c]] \in 0..(WordSize - 1)
      BY <1>1, <1>14 DEF TypeOK, CallsInOrder, AllocmemRead
    <2>. QED BY <1>1, <1>14, <2>1 DEF AllocmemRead, TypeOK, table, counters, Steps
  <1>15. ASSUME NEW c \in CPU, calls' = calls, AllocmemWrite(c)
        PROVE  TypeOK'
    <2>1. Charge(c, reg[c]) \in 0..(WordSize - 1)
      <3>1. reg[c] \in Int /\ pages[c] \in Int
        BY <1>1 DEF TypeOK
      <3>2. reg[c] + pages[c] \in Int /\ reg[c] - pages[c] \in Int
        BY <3>1
      <3>. QED BY <3>2, WordType DEF Charge
    <2>2. allocmem' \in [Task -> 0..(WordSize - 1)]
      BY <1>1, <1>15, <2>1 DEF AllocmemWrite, TypeOK
    <2>3. call[c] \in {"pmm_alloc", "pmm_allocslot", "pmm_free"}
      BY <1>1, <1>15 DEF AllocmemWrite, TypeOK, CallsInOrder
    <2>4. pc' \in [CPU -> Steps]
      BY <1>1, <1>15, <2>3 DEF AllocmemWrite, TypeOK, Steps
    <2>. QED BY <1>1, <1>15, <2>2, <2>4 DEF AllocmemWrite, TypeOK, table
  <1>16. ASSUME NEW c \in CPU, calls' = calls, lockrelease(c)
        PROVE  TypeOK'
    BY <1>1, <1>16 DEF lockrelease, TypeOK, counters, Steps
  <1>17. ASSUME NEW c \in CPU, calls' = calls, Return(c)
        PROVE  TypeOK'
    <2>1. held' \subseteq Block
      <3>1. CASE blk[c] = NoBlock
        BY <1>1, <1>17, <3>1 DEF Return, TypeOK
      <3>2. CASE blk[c] # NoBlock
        <4>1. /\ blk[c] \in Fragment /\ tcb[c] \in Task
          BY <1>1, <1>17 DEF Return, TypeOK, CallsInOrder
        <4>2. [base |-> blk[c].base, size |-> blk[c].size, owner |-> tcb[c]] \in Block
          BY <4>1 DEF Block, Fragment
        <4>. QED BY <1>1, <1>17, <3>2, <4>2 DEF Return, TypeOK
      <3>. QED BY <3>1, <3>2
    <2>2. panicked' \in BOOLEAN
      BY <1>17, Zenon DEF Return
    <2>3. reg' \in [CPU -> 0..(WordSize - 1)]
      BY <1>1, <1>17, SizeAssumption DEF Return, TypeOK
    <2>. QED BY <1>1, <1>17, <2>1, <2>2, <2>3, NoBlockType
             DEF Return, TypeOK, table, counters, Steps
  <1>18. CASE UNCHANGED vars
    BY <1>1, <1>18 DEF vars, TypeOK
  <1>19. CASE Next
    BY <1>2, <1>3, <1>4, <1>5, <1>6, <1>7, <1>8, <1>9, <1>10, <1>11, <1>12, <1>13,
       <1>14, <1>15, <1>16, <1>17, <1>19, NextCases, Zenon
  <1>. QED BY <1>18, <1>19
(* Only the core that holds the lock is between lockacquire and lockrelease. *)
LEMMA OrderStep == IndInv /\ [Next]_vars => CallsInOrder'
  <1>. SUFFICES ASSUME IndInv, [Next]_vars PROVE CallsInOrder'
    OBVIOUS
  <1>. USE DEF Goto
  <1>1. TypeOK /\ CallsInOrder /\ ScanStillValid
    BY DEF IndInv
  <1>2. CASE Boot
    BY <1>1, <1>2 DEF Boot, TypeOK, CallsInOrder, Inside, Counting, locals, table
  <1>3. ASSUME NEW c \in CPU, NEW t \in Task, NEW n \in 1..MaxPages,
               pmm_alloc(c, t, n), calls' = calls + 1
        PROVE  CallsInOrder'
    <2>1. CASE Shouldnothappen
      BY <1>1, <1>3, <2>1 DEF pmm_alloc, CallsInOrder, Inside, Counting, locals, table
    <2>2. CASE ~Shouldnothappen
      BY <1>1, <1>3, <2>2 DEF pmm_alloc, Enter, TypeOK, CallsInOrder, Inside, Counting, table
    <2>. QED BY <2>1, <2>2
  <1>4. ASSUME NEW c \in CPU, NEW t \in Task, pmm_allocslot(c, t), calls' = calls + 1
        PROVE  CallsInOrder'
    BY <1>1, <1>4 DEF pmm_allocslot, Enter, TypeOK, CallsInOrder, Inside, Counting, table
  <1>5. ASSUME NEW c \in CPU, NEW b \in held, pmm_free(c, b), calls' = calls + 1
        PROVE  CallsInOrder'
    <2>1. b.owner \in Task
      <3>1. b \in Block
        BY <1>1 DEF TypeOK
      <3>. QED BY <3>1 DEF Block
    <2>. QED BY <1>1, <2>1, <1>5 DEF pmm_free, Enter, TypeOK, CallsInOrder, Inside, Counting, table
  <1>6. ASSUME NEW c \in CPU, calls' = calls, lockacquire(c)
        PROVE  CallsInOrder'
    BY <1>1, <1>6, NoneAssumption DEF lockacquire, TypeOK, CallsInOrder, Inside, Counting
  <1>7. ASSUME NEW c \in CPU, calls' = calls, Scan(c)
        PROVE  CallsInOrder'
    BY <1>1, <1>7 DEF Scan, TypeOK, CallsInOrder, Inside, Counting, table
  <1>8. ASSUME NEW c \in CPU, calls' = calls, AllocTake(c)
        PROVE  CallsInOrder'
    BY <1>1, <1>8 DEF AllocTake, TypeOK, CallsInOrder, Inside, Counting
  <1>9. ASSUME NEW c \in CPU, calls' = calls, SlotTake(c)
        PROVE  CallsInOrder'
    BY <1>1, <1>9 DEF SlotTake, TypeOK, CallsInOrder, Inside, Counting
  <1>10. ASSUME NEW c \in CPU, calls' = calls, FreePut(c)
        PROVE  CallsInOrder'
    BY <1>1, <1>10 DEF FreePut, TypeOK, CallsInOrder, Inside, Counting
  <1>11. ASSUME NEW c \in CPU, calls' = calls, FreeMerge(c)
        PROVE  CallsInOrder'
    BY <1>1, <1>11 DEF FreeMerge, TypeOK, CallsInOrder, Inside, Counting
  <1>12. ASSUME NEW c \in CPU, calls' = calls, FreepagesRead(c)
        PROVE  CallsInOrder'
    BY <1>1, <1>12 DEF FreepagesRead, TypeOK, CallsInOrder, Inside, Counting, table
  <1>13. ASSUME NEW c \in CPU, calls' = calls, FreepagesWrite(c)
        PROVE  CallsInOrder'
    BY <1>1, <1>13 DEF FreepagesWrite, TypeOK, CallsInOrder, Inside, Counting, table
  <1>14. ASSUME NEW c \in CPU, calls' = calls, AllocmemRead(c)
        PROVE  CallsInOrder'
    BY <1>1, <1>14 DEF AllocmemRead, TypeOK, CallsInOrder, Inside, Counting, table
  <1>15. ASSUME NEW c \in CPU, calls' = calls, AllocmemWrite(c)
        PROVE  CallsInOrder'
    BY <1>1, <1>15 DEF AllocmemWrite, TypeOK, CallsInOrder, Inside, Counting, table
  <1>16. ASSUME NEW c \in CPU, calls' = calls, lockrelease(c)
        PROVE  CallsInOrder'
    BY <1>1, <1>16 DEF lockrelease, TypeOK, CallsInOrder, Inside, Counting
  <1>17. ASSUME NEW c \in CPU, calls' = calls, Return(c)
        PROVE  CallsInOrder'
    BY <1>1, <1>17 DEF Return, TypeOK, CallsInOrder, Inside, Counting, table
  <1>18. CASE UNCHANGED vars
    BY <1>1, <1>18 DEF vars, CallsInOrder, Inside, Counting
  <1>19. CASE Next
    BY <1>2, <1>3, <1>4, <1>5, <1>6, <1>7, <1>8, <1>9, <1>10,
       <1>11, <1>12, <1>13, <1>14, <1>15, <1>16, <1>17,
       <1>19, NextCases, Zenon
  <1>. QED BY <1>18, <1>19

(* No other core touches the table between a core's scan and its update. *)
LEMMA ScanStep == IndInv /\ [Next]_vars => ScanStillValid'
  <1>. SUFFICES ASSUME IndInv, [Next]_vars PROVE ScanStillValid'
    OBVIOUS
  <1>. USE DEF Goto
  <1>1. TypeOK /\ CallsInOrder /\ ScanStillValid
    BY DEF IndInv
  <1>2. CASE Boot
    BY <1>1, <1>2
       DEF Boot, TypeOK, CallsInOrder, ScanStillValid, Unmerged, Inside, Counting, locals, table
  <1>3. ASSUME NEW c \in CPU, NEW t \in Task, NEW n \in 1..MaxPages,
               pmm_alloc(c, t, n), calls' = calls + 1
        PROVE  ScanStillValid'
    <2>1. CASE Shouldnothappen
      BY <1>1, <1>3, <2>1 DEF pmm_alloc, ScanStillValid, Unmerged, Counting, locals, table
    <2>2. CASE ~Shouldnothappen
      <3>1. Enter(c, "pmm_alloc", t, n, NoBlock)
        BY <1>3, <2>2 DEF pmm_alloc
      <3>. QED BY <1>1, <3>1 DEF Enter, TypeOK, ScanStillValid, Unmerged, Counting, table
    <2>. QED BY <2>1, <2>2
  <1>4. ASSUME NEW c \in CPU, NEW t \in Task, pmm_allocslot(c, t), calls' = calls + 1
        PROVE  ScanStillValid'
    BY <1>1, <1>4
       DEF pmm_allocslot, Enter, TypeOK, CallsInOrder, ScanStillValid, Unmerged, Inside, Counting, table
  <1>5. ASSUME NEW c \in CPU, NEW b \in held, pmm_free(c, b), calls' = calls + 1
        PROVE  ScanStillValid'
    BY <1>1, <1>5
       DEF pmm_free, Enter, TypeOK, CallsInOrder, ScanStillValid, Unmerged, Inside, Counting, table
  <1>6. ASSUME NEW c \in CPU, calls' = calls, lockacquire(c)
        PROVE  ScanStillValid'
    BY <1>1, <1>6 DEF lockacquire, TypeOK, CallsInOrder, ScanStillValid, Unmerged, Inside, Counting
  <1>7. ASSUME NEW c \in CPU, calls' = calls, Scan(c)
        PROVE  ScanStillValid'
    <2>1. /\ pmm_entries' = pmm_entries /\ call' = call /\ pages' = pages /\ blk' = blk
          /\ pc[c] = "scan" /\ ~Unmerged(c)'
      BY <1>1, <1>7 DEF Scan, TypeOK, table, Unmerged, Counting
    <2>2. \A d \in CPU : d # c => pc'[d] = pc[d] /\ idx'[d] = idx[d]
      BY <1>1, <1>7 DEF Scan, TypeOK
    <2>3. PICK i \in 0..Len(pmm_entries) :
             \/ /\ call[c] = "pmm_alloc"
                /\ IsFirst(i, pmm_entries, LAMBDA e : e.size >= pages[c])
                /\ idx'[c] = i /\ pc'[c] = IF i = 0 THEN "release" ELSE "take"
             \/ /\ call[c] = "pmm_allocslot"
                /\ IsFirst(i, pmm_entries, HasSlot)
                /\ idx'[c] = i /\ pc'[c] = IF i = 0 THEN "release" ELSE "take"
             \/ /\ call[c] = "pmm_free"
                /\ IsFirst(i, pmm_entries, LAMBDA e : Touches(e, blk[c]))
                /\ idx'[c] = IF i = 0 THEN Len(pmm_entries) + 1 ELSE i
                /\ pc'[c] = "take"
      BY <1>1, <1>7 DEF Scan, TypeOK
    <2>4. Len(pmm_entries) \in Nat
      BY <1>1, FragmentType DEF TypeOK
    <2>5. /\ pc'[c] = "take" /\ call[c] = "pmm_alloc" =>
                 /\ idx'[c] \in 1..Len(pmm_entries)
                 /\ pmm_entries[idx'[c]].size >= pages[c]
          /\ pc'[c] = "take" /\ call[c] = "pmm_allocslot" =>
                 /\ idx'[c] \in 1..Len(pmm_entries)
                 /\ HasSlot(pmm_entries[idx'[c]])
          /\ pc'[c] = "take" /\ call[c] = "pmm_free" =>
                 /\ idx'[c] \in 1..(Len(pmm_entries) + 1)
                 /\ idx'[c] <= Len(pmm_entries) => Touches(pmm_entries[idx'[c]], blk[c])
      BY <2>3, <2>4 DEF IsFirst
    <2>6. \A d \in CPU : d # c => (Unmerged(d)' <=> Unmerged(d))
      BY <2>1, <2>2 DEF Unmerged
    <2>. QED BY <1>1, <2>1, <2>2, <2>5, <2>6 DEF ScanStillValid
  <1>8. ASSUME NEW c \in CPU, calls' = calls, AllocTake(c)
        PROVE  ScanStillValid'
    <2>1. \A d \in CPU : d # c => ~Inside(d)
      BY <1>1, <1>8 DEF AllocTake, CallsInOrder, Inside
    <2>2. \A d \in CPU : d # c => ~(pc'[d] = "take") /\ ~Unmerged(d)'
      BY <1>1, <1>8, <2>1 DEF AllocTake, TypeOK, Inside, Unmerged, Counting
    <2>3. ~(pc'[c] = "take") /\ ~Unmerged(c)'
      BY <1>1, <1>8 DEF AllocTake, TypeOK, Unmerged, Counting
    <2>. QED BY <2>2, <2>3 DEF ScanStillValid
  <1>9. ASSUME NEW c \in CPU, calls' = calls, SlotTake(c)
        PROVE  ScanStillValid'
    <2>1. \A d \in CPU : d # c => ~Inside(d)
      BY <1>1, <1>9 DEF SlotTake, CallsInOrder, Inside
    <2>2. \A d \in CPU : d # c => ~(pc'[d] = "take") /\ ~Unmerged(d)'
      BY <1>1, <1>9, <2>1 DEF SlotTake, TypeOK, Inside, Unmerged, Counting
    <2>3. ~(pc'[c] = "take") /\ ~Unmerged(c)'
      BY <1>1, <1>9 DEF SlotTake, TypeOK, Unmerged, Counting
    <2>. QED BY <2>2, <2>3 DEF ScanStillValid
  <1>10. ASSUME NEW c \in CPU, calls' = calls, FreePut(c)
        PROVE  ScanStillValid'
    <2>1. \A d \in CPU : d # c => ~Inside(d)
      BY <1>1, <1>10 DEF FreePut, CallsInOrder, Inside
    <2>2. \A d \in CPU : d # c => ~(pc'[d] = "take") /\ ~Unmerged(d)'
      BY <1>1, <1>10, <2>1 DEF FreePut, TypeOK, Inside, Unmerged, Counting
    <2>3. ~(pc'[c] = "take") /\ idx'[c] \in 1..Len(pmm_entries')
      BY <1>1, <1>10, FreePutTable DEF FreePut, TypeOK
    <2>. QED BY <2>2, <2>3 DEF ScanStillValid
  <1>11. ASSUME NEW c \in CPU, calls' = calls, FreeMerge(c)
        PROVE  ScanStillValid'
    <2>1. \A d \in CPU : d # c => ~Inside(d)
      BY <1>1, <1>11 DEF FreeMerge, CallsInOrder, Inside
    <2>2. \A d \in CPU : d # c => ~(pc'[d] = "take") /\ ~Unmerged(d)'
      BY <1>1, <1>11, <2>1 DEF FreeMerge, TypeOK, Inside, Unmerged, Counting
    <2>3. ~(pc'[c] = "take") /\ ~Unmerged(c)'
      BY <1>1, <1>11 DEF FreeMerge, TypeOK, Unmerged, Counting
    <2>. QED BY <2>2, <2>3 DEF ScanStillValid
  <1>12. ASSUME NEW c \in CPU, calls' = calls, FreepagesRead(c)
        PROVE  ScanStillValid'
    BY <1>1, <1>12
       DEF FreepagesRead, TypeOK, CallsInOrder, ScanStillValid, Unmerged, Inside, Counting, table
  <1>13. ASSUME NEW c \in CPU, calls' = calls, FreepagesWrite(c)
        PROVE  ScanStillValid'
    BY <1>1, <1>13
       DEF FreepagesWrite, TypeOK, CallsInOrder, ScanStillValid, Unmerged, Inside, Counting, table
  <1>14. ASSUME NEW c \in CPU, calls' = calls, AllocmemRead(c)
        PROVE  ScanStillValid'
    BY <1>1, <1>14
       DEF AllocmemRead, TypeOK, CallsInOrder, ScanStillValid, Unmerged, Inside, Counting, table
  <1>15. ASSUME NEW c \in CPU, calls' = calls, AllocmemWrite(c)
        PROVE  ScanStillValid'
    BY <1>1, <1>15
       DEF AllocmemWrite, TypeOK, CallsInOrder, ScanStillValid, Unmerged, Inside, Counting, table
  <1>16. ASSUME NEW c \in CPU, calls' = calls, lockrelease(c)
        PROVE  ScanStillValid'
    BY <1>1, <1>16 DEF lockrelease, TypeOK, CallsInOrder, ScanStillValid, Unmerged, Inside, Counting
  <1>17. ASSUME NEW c \in CPU, calls' = calls, Return(c)
        PROVE  ScanStillValid'
    BY <1>1, <1>17 DEF Return, TypeOK, CallsInOrder, ScanStillValid, Unmerged, Inside, Counting, table
  <1>18. CASE UNCHANGED vars
    BY <1>1, <1>18 DEF vars, ScanStillValid, Unmerged, Counting
  <1>19. CASE Next
    BY <1>2, <1>3, <1>4, <1>5, <1>6, <1>7, <1>8, <1>9, <1>10,
       <1>11, <1>12, <1>13, <1>14, <1>15, <1>16, <1>17,
       <1>19, NextCases, Zenon
  <1>. QED BY <1>18, <1>19

(* A core that forgets its block, or takes one out of the table, shares no page. *)
LEMMA BlockDropped ==
  ASSUME TypeOK, NoDoubleUse, NEW c \in CPU, UNCHANGED <<pmm_entries, held>>,
         blk' = [blk EXCEPT ![c] = NoBlock]
  PROVE  NoDoubleUse'
  <1>1. \A d \in CPU : blk'[d] = IF d = c THEN NoBlock ELSE blk[d]
    BY DEF TypeOK
  <1>. QED BY <1>1, NoBlockType DEF NoDoubleUse

(* A block carved out of the table belongs to one core only. *)
LEMMA BlockTaken ==
  ASSUME TypeOK, NoDoubleUse, NEW c \in CPU, held' = held,
         \A d \in CPU : d # c => blk'[d] = blk[d],
         blk'[c] \in Fragment, Carved(pmm_entries, pmm_entries', blk'[c])
  PROVE  NoDoubleUse'
  <1>1. /\ \A b \in held : b \in Space /\ Clear(pmm_entries, b)
        /\ \A d \in CPU : blk[d] \in Space /\ Clear(pmm_entries, blk[d])
    BY SpaceType DEF TypeOK, NoDoubleUse, Clear
  <1>2. Disjoint(pmm_entries') /\ Clear(pmm_entries', blk'[c])
    BY DEF Carved
  <1>3. \A b \in held : Clear(pmm_entries', b) /\ Apart(b, blk'[c])
    BY <1>1 DEF Carved, Shrinks
  <1>4. \A d \in CPU : d # c => Clear(pmm_entries', blk'[d]) /\ Apart(blk'[d], blk'[c])
    BY <1>1 DEF Carved, Shrinks
  <1>5. \A b \in held : Apart(blk'[c], b)
    BY <1>1, <1>3, SpaceType, ApartSymmetric
  <1>6. \A d \in CPU : d # c => Apart(blk'[c], blk'[d])
    BY <1>1, <1>4, SpaceType, ApartSymmetric
  <1>. QED BY <1>2, <1>3, <1>4, <1>5, <1>6 DEF NoDoubleUse, Disjoint, Clear

(* No step hands out, or puts back, a page that somebody else has. *)
LEMMA UseStep == IndInv /\ [Next]_vars => NoDoubleUse'
  <1>. SUFFICES ASSUME IndInv, [Next]_vars PROVE NoDoubleUse'
    OBVIOUS
  <1>1. TypeOK /\ NoDoubleUse
    BY DEF IndInv
  <1>0. /\ \A b \in held : b \in Space
        /\ \A d \in CPU : blk[d] \in Space
    BY <1>1, SpaceType DEF TypeOK
  <1>2. CASE Boot
    <2>1. UNCHANGED <<pmm_entries, held, blk>>
      BY <1>2 DEF Boot, locals, table
    <2>. QED BY <1>1, <2>1 DEF NoDoubleUse
  <1>3. ASSUME NEW c \in CPU, NEW t \in Task, NEW n \in 1..MaxPages,
               pmm_alloc(c, t, n), calls' = calls + 1
        PROVE  NoDoubleUse'
    <2>1. CASE Shouldnothappen
      BY <1>1, <1>3, <2>1 DEF pmm_alloc, NoDoubleUse, locals, table
    <2>2. CASE ~Shouldnothappen
      <3>1. /\ UNCHANGED <<pmm_entries, held>>
            /\ blk' = [blk EXCEPT ![c] = NoBlock]
        BY <1>3, <2>2 DEF pmm_alloc, Enter, table
      <3>. QED BY <1>1, <3>1, BlockDropped
    <2>. QED BY <2>1, <2>2
  <1>4. ASSUME NEW c \in CPU, NEW t \in Task, pmm_allocslot(c, t), calls' = calls + 1
        PROVE  NoDoubleUse'
    <2>1. /\ UNCHANGED <<pmm_entries, held>>
          /\ blk' = [blk EXCEPT ![c] = NoBlock]
      BY <1>4 DEF pmm_allocslot, Enter, table
    <2>. QED BY <1>1, <2>1, BlockDropped
  <1>5. ASSUME NEW c \in CPU, NEW b \in held, pmm_free(c, b), calls' = calls + 1
        PROVE  NoDoubleUse'
    <2>. DEFINE f == [base |-> b.base, size |-> b.size]
    <2>1. /\ pmm_entries' = pmm_entries /\ held' = held \ {b}
          /\ blk' = [blk EXCEPT ![c] = f]
      BY <1>5 DEF pmm_free, Enter, table
    <2>2. \A a : (Apart(f, a) <=> Apart(b, a)) /\ (Apart(a, f) <=> Apart(a, b))
      BY DEF Apart
    <2>3. /\ \A i \in 1..Len(pmm_entries) : Apart(f, pmm_entries[i])
          /\ \A a \in held \ {b} : Apart(f, a)
          /\ \A d \in CPU : Apart(f, blk[d]) /\ Apart(blk[d], f)
      BY <1>1, <1>0, <2>2, ApartSymmetric DEF NoDoubleUse
    <2>. HIDE DEF f
    <2>4. \A d \in CPU : blk'[d] = IF d = c THEN f ELSE blk[d]
      BY <1>1, <2>1 DEF TypeOK
    <2>. QED BY <1>1, <2>1, <2>3, <2>4 DEF NoDoubleUse
  <1>6. ASSUME NEW c \in CPU, calls' = calls, lockacquire(c)
        PROVE  NoDoubleUse'
    <2>1. UNCHANGED <<pmm_entries, held, blk>>
      BY <1>6 DEF lockacquire
    <2>. QED BY <1>1, <2>1 DEF NoDoubleUse
  <1>7. ASSUME NEW c \in CPU, calls' = calls, Scan(c)
        PROVE  NoDoubleUse'
    <2>1. UNCHANGED <<pmm_entries, held, blk>>
      BY <1>7 DEF Scan, table
    <2>. QED BY <1>1, <2>1 DEF NoDoubleUse
  <1>8. ASSUME NEW c \in CPU, calls' = calls, AllocTake(c)
        PROVE  NoDoubleUse'
    <2>1. /\ blk'[c] \in Fragment /\ Carved(pmm_entries, pmm_entries', blk'[c])
      BY <1>8, AllocTakeTable
    <2>2. held' = held /\ \A d \in CPU : d # c => blk'[d] = blk[d]
      BY <1>1, <1>8 DEF AllocTake, TypeOK
    <2>. QED BY <1>1, <2>1, <2>2, BlockTaken
  <1>9. ASSUME NEW c \in CPU, calls' = calls, SlotTake(c)
        PROVE  NoDoubleUse'
    <2>1. /\ blk'[c] \in Fragment /\ Carved(pmm_entries, pmm_entries', blk'[c])
      BY <1>9, SlotTakeTable
    <2>2. held' = held /\ \A d \in CPU : d # c => blk'[d] = blk[d]
      BY <1>1, <1>9 DEF SlotTake, TypeOK
    <2>. QED BY <1>1, <2>1, <2>2, BlockTaken
  <1>10. ASSUME NEW c \in CPU, calls' = calls, FreePut(c)
        PROVE  NoDoubleUse'
    <2>1. /\ Disjoint(pmm_entries')
          /\ \A a \in Space : Clear(pmm_entries, a) /\ Apart(a, blk[c]) => Clear(pmm_entries', a)
      BY <1>10, FreePutTable
    <2>2. held' = held /\ \A d \in CPU : blk'[d] = IF d = c THEN NoBlock ELSE blk[d]
      BY <1>1, <1>10 DEF FreePut, TypeOK
    <2>3. \A b \in held : Clear(pmm_entries', b)
      <3>1. \A b \in held : Clear(pmm_entries, b) /\ Apart(b, blk[c])
        BY <1>1, <1>0, ApartSymmetric DEF NoDoubleUse, Clear
      <3>. QED BY <1>0, <2>1, <3>1
    <2>4. \A d \in CPU : d # c => Clear(pmm_entries', blk[d])
      <3>. SUFFICES ASSUME NEW d \in CPU, d # c PROVE Clear(pmm_entries', blk[d])
        OBVIOUS
      <3>1. blk[d] \in Space
        BY <1>0
      <3>2. Clear(pmm_entries, blk[d]) /\ Apart(blk[d], blk[c])
        BY <1>1 DEF NoDoubleUse, Clear
      <3>. QED BY <2>1, <3>1, <3>2
    <2>. QED BY <1>1, <2>1, <2>2, <2>3, <2>4, NoBlockType DEF NoDoubleUse, Disjoint, Clear
  <1>11. ASSUME NEW c \in CPU, calls' = calls, FreeMerge(c)
        PROVE  NoDoubleUse'
    <2>1. Disjoint(pmm_entries') /\ Shrinks(pmm_entries, pmm_entries')
      BY <1>11, FreeMergeTable
    <2>2. UNCHANGED <<held, blk>>
      BY <1>11 DEF FreeMerge
    <2>3. \A b \in held : Clear(pmm_entries', b)
      <3>1. \A b \in held : Clear(pmm_entries, b)
        BY <1>1 DEF NoDoubleUse, Clear
      <3>. QED BY <1>0, <2>1, <3>1 DEF Shrinks
    <2>4. ASSUME NEW d \in CPU PROVE Clear(pmm_entries', blk[d])
      <3>1. blk[d] \in Space
        BY <1>0
      <3>2. Clear(pmm_entries, blk[d])
        BY <1>1 DEF NoDoubleUse, Clear
      <3>. QED BY <2>1, <3>1, <3>2 DEF Shrinks
    <2>. QED BY <1>1, <2>1, <2>2, <2>3, <2>4 DEF NoDoubleUse, Disjoint, Clear
  <1>12. ASSUME NEW c \in CPU, calls' = calls, FreepagesRead(c)
        PROVE  NoDoubleUse'
    <2>1. UNCHANGED <<pmm_entries, held, blk>>
      BY <1>12 DEF FreepagesRead, table
    <2>. QED BY <1>1, <2>1 DEF NoDoubleUse
  <1>13. ASSUME NEW c \in CPU, calls' = calls, FreepagesWrite(c)
        PROVE  NoDoubleUse'
    <2>1. UNCHANGED <<pmm_entries, held, blk>>
      BY <1>13 DEF FreepagesWrite, table
    <2>. QED BY <1>1, <2>1 DEF NoDoubleUse
  <1>14. ASSUME NEW c \in CPU, calls' = calls, AllocmemRead(c)
        PROVE  NoDoubleUse'
    <2>1. UNCHANGED <<pmm_entries, held, blk>>
      BY <1>14 DEF AllocmemRead, table
    <2>. QED BY <1>1, <2>1 DEF NoDoubleUse
  <1>15. ASSUME NEW c \in CPU, calls' = calls, AllocmemWrite(c)
        PROVE  NoDoubleUse'
    <2>1. UNCHANGED <<pmm_entries, held, blk>>
      BY <1>15 DEF AllocmemWrite, table
    <2>. QED BY <1>1, <2>1 DEF NoDoubleUse
  <1>16. ASSUME NEW c \in CPU, calls' = calls, lockrelease(c)
        PROVE  NoDoubleUse'
    <2>1. UNCHANGED <<pmm_entries, held, blk>>
      BY <1>16 DEF lockrelease
    <2>. QED BY <1>1, <2>1 DEF NoDoubleUse
  <1>17. ASSUME NEW c \in CPU, calls' = calls, Return(c)
        PROVE  NoDoubleUse'
    <2>1. pmm_entries' = pmm_entries /\ blk' = [blk EXCEPT ![c] = NoBlock]
      BY <1>17 DEF Return, table
    <2>2. CASE blk[c] = NoBlock
      <3>1. held' = held
        BY <1>17, <2>2 DEF Return
      <3>. QED BY <1>1, <2>1, <3>1, BlockDropped
    <2>3. CASE blk[c] # NoBlock
      <3>. DEFINE b == [base |-> blk[c].base, size |-> blk[c].size, owner |-> tcb[c]]
      <3>1. held' = held \union {b}
        BY <1>17, <2>3 DEF Return
      <3>2. \A a : (Apart(b, a) <=> Apart(blk[c], a)) /\ (Apart(a, b) <=> Apart(a, blk[c]))
        BY DEF Apart
      <3>3. /\ \A i \in 1..Len(pmm_entries) : Apart(b, pmm_entries[i])
            /\ \A a \in held : Apart(b, a) /\ Apart(a, b)
            /\ \A d \in CPU : d # c => Apart(blk[d], b)
        BY <1>1, <1>0, <3>2, ApartSymmetric DEF NoDoubleUse
      <3>. HIDE DEF b
      <3>4. \A d \in CPU : blk'[d] = IF d = c THEN NoBlock ELSE blk[d]
        BY <1>1, <2>1 DEF TypeOK
      <3>. QED BY <1>1, <2>1, <3>1, <3>3, <3>4, NoBlockType DEF NoDoubleUse
    <2>. QED BY <2>2, <2>3
  <1>18. CASE UNCHANGED vars
    BY <1>1, <1>18 DEF vars, NoDoubleUse
  <1>19. CASE Next
    BY <1>2, <1>3, <1>4, <1>5, <1>6, <1>7, <1>8, <1>9, <1>10,
       <1>11, <1>12, <1>13, <1>14, <1>15, <1>16, <1>17,
       <1>19, NextCases, Zenon
  <1>. QED BY <1>18, <1>19

-----------------------------------------------------------------------------
(* The table that pmm_init builds satisfies the inductive invariant. *)
LEMMA InitInv == Init => IndInv
  <1>. SUFFICES ASSUME Init PROVE IndInv
    OBVIOUS
  <1>1. TypeOK
    <2>1. BootMap \in Seq(Fragment) /\ BootTotal \in 0..(WordSize - 1)
      BY BootMapAssumption
    <2>2. 0 \in 0..(WordSize - 1)
      BY SizeAssumption
    <2>. QED BY <2>1, <2>2, NoBlockType DEF Init, TypeOK, Steps
  <1>2. CallsInOrder /\ ScanStillValid
    BY DEF Init, CallsInOrder, ScanStillValid, Inside, Unmerged, Counting
  <1>3. NoDoubleUse
    <2>1. /\ pmm_entries = BootMap /\ held = {}
          /\ \A c \in CPU : blk[c] = NoBlock
      BY DEF Init
    <2>. QED BY <2>1, NoBlockType, BootMapAssumption DEF NoDoubleUse
  <1>. QED BY <1>1, <1>2, <1>3 DEF IndInv

(* The inductive invariant: no step of any core leaves it. *)
THEOREM Inductive == Spec => []IndInv
  <1>1. IndInv /\ [Next]_vars => IndInv'
    BY TypeStep, OrderStep, ScanStep, UseStep DEF IndInv
  <1>. QED BY InitInv, <1>1, PTL DEF Spec

(* Every counter stays in its word and every block is a block. *)
THEOREM TypeCorrect == Spec => []TypeOK
  <1>1. IndInv => TypeOK
    BY DEF IndInv
  <1>. QED BY Inductive, <1>1, PTL

(* Whatever the cores do at the same time, no page is used twice. *)
THEOREM NoPageUsedTwice == Spec => []NoDoubleUse
  <1>1. IndInv => NoDoubleUse
    BY DEF IndInv
  <1>. QED BY Inductive, <1>1, PTL

(* The index a scan found is valid until the update has used it. *)
THEOREM ScanNeverStale == Spec => []ScanStillValid
  <1>1. IndInv => ScanStillValid
    BY DEF IndInv
  <1>. QED BY Inductive, <1>1, PTL

(* Between lockacquire and lockrelease a core is alone. *)
THEOREM LockExcludes == Spec => []CallsInOrder
  <1>1. IndInv => CallsInOrder
    BY DEF IndInv
  <1>. QED BY Inductive, <1>1, PTL

-----------------------------------------------------------------------------
(* Neighbours *)

(* a and b have pages between them; or at least neither begins inside the    *)
(* other.  Both say where an entry is that pmm_allocslot left empty, which   *)
(* Apart does not.                                                           *)
Gap(a, b) == a.base + a.size < b.base \/ b.base + b.size < a.base
Beside(a, b) == a.base + a.size <= b.base \/ b.base + b.size <= a.base

(* No two entries touch; or only x and one other do; or b is not inside one. *)
Spread(s) == \A i, j \in 1..Len(s) : i # j => Gap(s[i], s[j])
SpreadBut(s, x) ==
    /\ s[x].size > 0
    /\ \A i, j \in 1..Len(s) : i # j /\ i # x /\ j # x => Gap(s[i], s[j])
    /\ \A i \in 1..Len(s) : i # x => Beside(s[i], s[x])
    /\ \A i, j \in 1..Len(s) : i # x /\ j # x /\ Touches(s[i], s[x]) /\ Touches(s[j], s[x]) => i = j
Off(s, b) == \A i \in 1..Len(s) : Beside(b, s[i])

(* Every block outside the table has pages, or is none. *)
Solid ==
    /\ \A b \in held : b.size > 0
    /\ \A c \in CPU : /\ blk[c] = NoBlock \/ blk[c].size > 0
                      /\ pc[c] # "idle" => pages[c] > 0
                      /\ call[c] = "pmm_free" /\ pc[c] \in {"acquire", "scan", "take"} => blk[c].size > 0

(* A block that becomes an entry of its own has no neighbour. *)
Single ==
    \A c \in CPU : pc[c] = "take" /\ call[c] = "pmm_free" /\ idx[c] = Len(pmm_entries) + 1
                      => \A i \in 1..Len(pmm_entries) : ~Touches(pmm_entries[i], blk[c])

(* Entries have gaps between them, until a block is put back and until the   *)
(* core that put it back has merged it with its other neighbour.             *)
Gaps ==
    /\ \A b \in held : Off(pmm_entries, b)
    /\ \A c \in CPU : Off(pmm_entries, blk[c])
    /\ \A c \in CPU : Unmerged(c) => SpreadBut(pmm_entries, idx[c])
    /\ (\A c \in CPU : ~Unmerged(c)) => Spread(pmm_entries)

GapInv == IndInv /\ Solid /\ Single /\ Gaps

(* Arithmetic of gaps. *)
LEMMA GapFacts ==
  ASSUME NEW a \in Space, NEW b \in Space
  PROVE  /\ Gap(a, b) <=> Gap(b, a)
         /\ Beside(a, b) <=> Beside(b, a)
         /\ Touches(a, b) <=> Touches(b, a)
         /\ Gap(a, b) <=> Beside(a, b) /\ ~Touches(a, b)
         /\ Apart(a, b) /\ a.size > 0 /\ b.size > 0 => Beside(a, b)
         /\ Touches(a, a) => a.size = 0
         /\ Beside(NoBlock, a) /\ Beside(a, NoBlock)
  BY SpaceType DEF Gap, Beside, Touches, Adjoins, Apart, NoBlock

(* Part of an entry, the bounds of an empty part included. *)
Part(e, f) == f.base <= e.base /\ e.base + e.size <= f.base + f.size

(* A part keeps the gaps of the whole. *)
LEMMA PartFacts ==
  ASSUME NEW a \in Space, NEW e \in Space, NEW f \in Space, Part(e, f)
  PROVE  (Gap(a, f) => Gap(a, e)) /\ (Beside(a, f) => Beside(a, e))
  BY SpaceType DEF Gap, Beside, Part

(* Two neighbours become one. *)
LEMMA JoinFacts ==
  ASSUME NEW a \in Space, NEW e \in Fragment, NEW f \in Fragment, NEW w \in Fragment, Adjoins(e, f),
         w.base = e.base, w.size = e.size + f.size
  PROVE  /\ Gap(a, e) /\ Beside(a, f) => Beside(a, w)
         /\ Beside(a, e) /\ Gap(a, f) => Beside(a, w)
         /\ a.size > 0 /\ Beside(a, e) /\ Beside(a, f) => Beside(a, w)
         /\ Gap(a, e) /\ Gap(a, f) => Gap(a, w)
  BY SpaceType DEF Gap, Beside, Adjoins

(* Block b was taken out of table s, which leaves table t with its gaps.     *)
Parted(s, t, b) == Spread(t) /\ Off(t, b) /\ \A a \in Space : Off(s, a) => Off(t, a)

(* Entries that are parts of entries, with gaps between parts of the same.   *)
LEMMA PartsSpread ==
  ASSUME NEW s \in Seq(Fragment), NEW t \in Seq(Fragment), Spread(s),
         NEW m \in [1..Len(t) -> 1..Len(s)],
         \A k \in 1..Len(t) : Part(t[k], s[m[k]]),
         \A j, k \in 1..Len(t) : j # k /\ m[j] = m[k] => Gap(t[j], t[k]),
         NEW i \in 1..Len(s), NEW b \in Space, Part(b, s[i]),
         \A k \in 1..Len(t) : m[k] = i => Beside(b, t[k])
  PROVE  Parted(s, t, b)
  <1>1. /\ \A k \in 1..Len(t) : t[k] \in Space /\ m[k] \in 1..Len(s)
        /\ \A k \in 1..Len(s) : s[k] \in Space
    BY FragmentType, SpaceType
  <1>2. ASSUME NEW j \in 1..Len(t), NEW k \in 1..Len(t), j # k
        PROVE  Gap(t[j], t[k])
    <2>1. CASE m[j] = m[k]
      BY <1>2, <2>1
    <2>2. CASE m[j] # m[k]
      <3>1. Gap(s[m[j]], s[m[k]])
        BY <1>1, <2>2 DEF Spread
      <3>2. Gap(t[k], s[m[j]])
        BY <1>1, <3>1, GapFacts, PartFacts
      <3>3. Gap(t[k], t[j])
        BY <1>1, <3>2, PartFacts
      <3>. QED BY <1>1, <3>3, GapFacts
    <2>. QED BY <2>1, <2>2
  <1>3. ASSUME NEW a \in Space, Off(s, a) PROVE Off(t, a)
    BY <1>1, <1>3, PartFacts DEF Off
  <1>4. ASSUME NEW k \in 1..Len(t), m[k] # i
        PROVE  Beside(b, t[k])
    <2>1. Gap(s[m[k]], s[i])
      BY <1>1, <1>4 DEF Spread
    <2>2. Gap(b, s[m[k]])
      BY <1>1, <2>1, GapFacts, PartFacts
    <2>3. Gap(b, t[k])
      BY <1>1, <2>2, PartFacts
    <2>. QED BY <1>1, <2>3, GapFacts
  <1>. QED BY <1>2, <1>3, <1>4 DEF Parted, Spread, Off

(* pmm_alloc leaves gaps. *)
LEMMA TakeFrontSpread ==
  ASSUME NEW s \in Seq(Fragment), NEW i \in 1..Len(s), NEW n \in Nat, n <= s[i].size, Spread(s)
  PROVE  Parted(s, TakeFront(s, i, n), [base |-> s[i].base, size |-> n])
  <1>. DEFINE b == [base |-> s[i].base, size |-> n]
              e == [base |-> s[i].base + n, size |-> s[i].size - n]
              t == TakeFront(s, i, n)
  <1>1. /\ Len(s) \in Nat
        /\ \A k \in 1..Len(s) : s[k] \in Fragment /\ s[k].base \in Nat /\ s[k].size \in Nat
    BY FragmentType, SpaceType
  <1>2. e \in Fragment /\ Part(e, s[i]) /\ b \in Fragment /\ Part(b, s[i]) /\ Beside(b, e)
    BY <1>1 DEF Fragment, Part, Beside
  <1>0. b \in Space
    BY <1>2, SpaceType
  <1>3. \A k \in 1..Len(s) : Part(s[k], s[k])
    BY <1>1 DEF Part
  <1>. HIDE DEF b, e
  <1>4. CASE s[i].size = n
    <2>. DEFINE m == [k \in 1..Len(t) |-> IF k < i THEN k ELSE k + 1]
    <2>1. /\ t \in Seq(Fragment) /\ Len(t) = Len(s) - 1
          /\ \A k \in 1..Len(t) : t[k] = IF k < i THEN s[k] ELSE s[k + 1]
      BY <1>4, RemoveType DEF TakeFront
    <2>. HIDE DEF t
    <2>2. /\ m \in [1..Len(t) -> 1..Len(s)]
          /\ \A k \in 1..Len(t) : t[k] = s[m[k]] /\ m[k] # i
          /\ \A j, k \in 1..Len(t) : j # k => m[j] # m[k]
      BY <1>1, <2>1
    <2>. HIDE DEF m
    <2>3. \A k \in 1..Len(t) : Part(t[k], s[m[k]])
      BY <1>3, <2>2
    <2>4. \A j, k \in 1..Len(t) : j # k /\ m[j] = m[k] => Gap(t[j], t[k])
      BY <2>2
    <2>5. t \in Seq(Fragment) /\ m \in [1..Len(t) -> 1..Len(s)]
      BY <2>1, <2>2
    <2>6. \A k \in 1..Len(t) : m[k] = i => Beside(b, t[k])
      BY <1>2, <2>1, <2>2
    <2>7. Part(b, s[i])
      BY <1>2
    <2>8. Parted(s, t, b)
      BY <1>0, <2>3, <2>4, <2>5, <2>6, <2>7, PartsSpread, Zenon
    <2>. QED BY <2>8 DEF t, b
  <1>5. CASE s[i].size # n
    <2>. DEFINE m == [k \in 1..Len(t) |-> k]
    <2>1. /\ t \in Seq(Fragment) /\ Len(t) = Len(s)
          /\ \A k \in 1..Len(t) : t[k] = IF k = i THEN e ELSE s[k]
      <3>1. t = Replace(s, i, e)
        BY <1>5 DEF TakeFront, e
      <3>. HIDE DEF t
      <3>2. \A x \in Fragment : /\ Replace(s, i, x) \in Seq(Fragment)
                                /\ Len(Replace(s, i, x)) = Len(s)
                                /\ \A k \in 1..Len(s) : Replace(s, i, x)[k] = IF k = i THEN x ELSE s[k]
        BY ReplaceType
      <3>. QED BY <1>2, <3>1, <3>2
    <2>. HIDE DEF t
    <2>2. m \in [1..Len(t) -> 1..Len(s)] /\ \A k \in 1..Len(t) : m[k] = k
      BY <1>1, <2>1
    <2>. HIDE DEF m
    <2>3. \A k \in 1..Len(t) : Part(t[k], s[m[k]])
      BY <1>2, <1>3, <2>1, <2>2
    <2>4. \A j, k \in 1..Len(t) : j # k /\ m[j] = m[k] => Gap(t[j], t[k])
      BY <2>2
    <2>5. t \in Seq(Fragment) /\ m \in [1..Len(t) -> 1..Len(s)]
      BY <2>1, <2>2
    <2>6. \A k \in 1..Len(t) : m[k] = i => Beside(b, t[k])
      BY <1>2, <2>1, <2>2
    <2>7. Part(b, s[i])
      BY <1>2
    <2>8. Parted(s, t, b)
      BY <1>0, <2>3, <2>4, <2>5, <2>6, <2>7, PartsSpread, Zenon
    <2>. QED BY <2>8 DEF t, b
  <1>. QED BY <1>4, <1>5

(* Dropping an entry leaves gaps. *)
LEMMA RemoveSpread ==
  ASSUME NEW t \in Seq(Fragment), NEW i \in 1..Len(t), Spread(t)
  PROVE  LET r == Remove(t, i)
         IN  Spread(r) /\ \A a : Off(t, a) => Off(r, a)
  <1>. DEFINE r == Remove(t, i)
              m(k) == IF k < i THEN k ELSE k + 1
  <1>1. /\ Len(t) \in Nat /\ r \in Seq(Fragment) /\ Len(r) = Len(t) - 1
        /\ \A k \in 1..(Len(t) - 1) : r[k] = IF k < i THEN t[k] ELSE t[k + 1]
    BY RemoveType
  <1>. HIDE DEF r
  <1>2. \A k \in 1..Len(r) : m(k) \in 1..Len(t) /\ r[k] = t[m(k)]
    BY <1>1
  <1>3. \A j, k \in 1..Len(r) : j # k => m(j) # m(k)
    BY <1>1
  <1>. HIDE DEF m
  <1>4. Spread(r) /\ \A a : Off(t, a) => Off(r, a)
    BY <1>2, <1>3 DEF Spread, Off
  <1>. QED BY <1>4 DEF r

(* The table of pmm_allocslot after an entry was cut in two. *)
LEMMA CutTable ==
  ASSUME NEW s \in Seq(Fragment), NEW i \in 1..Len(s), NEW h \in Fragment, NEW e \in Fragment
  PROVE  LET w == Replace(Replace(Duplicate(s, i), i, h), i + 1, e)
         IN  /\ w \in Seq(Fragment) /\ Len(w) = Len(s) + 1
             /\ w[i] = h /\ w[i + 1] = e
             /\ \A k \in 1..Len(w) : k < i => w[k] = s[k]
             /\ \A k \in 1..Len(w) : k > i + 1 => w[k] = s[k - 1]
  <1>. DEFINE u == Duplicate(s, i)
              v == Replace(u, i, h)
              w == Replace(v, i + 1, e)
  <1>1. Len(s) \in Nat
    OBVIOUS
  <1>2. /\ u \in Seq(Fragment) /\ Len(u) = Len(s) + 1
        /\ \A k \in 1..(Len(s) + 1) : u[k] = IF k <= i THEN s[k] ELSE s[k - 1]
    BY DuplicateType
  <1>. HIDE DEF u
  <1>3. /\ v \in Seq(Fragment) /\ Len(v) = Len(u)
        /\ \A k \in 1..Len(u) : v[k] = IF k = i THEN h ELSE u[k]
    <2>1. u \in Seq(Fragment) /\ i \in 1..Len(u)
      BY <1>1, <1>2
    <2>2. \A x \in Fragment :
             /\ Replace(u, i, x) \in Seq(Fragment) /\ Len(Replace(u, i, x)) = Len(u)
             /\ \A k \in 1..Len(u) : Replace(u, i, x)[k] = IF k = i THEN x ELSE u[k]
      BY <2>1, ReplaceType
    <2>. QED BY <2>2
  <1>. HIDE DEF v
  <1>4. i + 1 \in 1..Len(v) /\ i \in 1..Len(v)
    BY <1>1, <1>2, <1>3
  <1>5. /\ w \in Seq(Fragment) /\ Len(w) = Len(v)
        /\ \A k \in 1..Len(v) : w[k] = IF k = i + 1 THEN e ELSE v[k]
    BY <1>3, <1>4, ReplaceType, Zenon
  <1>. HIDE DEF w
  <1>6. w[i] = h /\ w[i + 1] = e
    BY <1>1, <1>3, <1>4, <1>5
  <1>7. ASSUME NEW k \in 1..Len(w), k < i PROVE w[k] = s[k]
    BY <1>1, <1>2, <1>3, <1>5, <1>7
  <1>8. ASSUME NEW k \in 1..Len(w), k > i + 1 PROVE w[k] = s[k - 1]
    BY <1>1, <1>2, <1>3, <1>5, <1>8
  <1>. QED BY <1>2, <1>3, <1>5, <1>6, <1>7, <1>8 DEF u, v, w

(* What is before a slot and what is after it. *)
LEMMA SlotGap ==
  ASSUME NEW f \in Fragment, NEW x \in Nat, x >= f.base, f.base + f.size >= x + SlotPages
  PROVE  LET h == [base |-> f.base, size |-> x - f.base]
             t == [base |-> x + SlotPages, size |-> f.size - ((x - f.base) + SlotPages)]
         IN  /\ h \in Fragment /\ t \in Fragment /\ Part(h, f) /\ Part(t, f)
             /\ Gap(h, t) /\ Gap(t, h)
             /\ LET b == [base |-> x, size |-> SlotPages]
                IN  b \in Fragment /\ Part(b, f) /\ Beside(b, h) /\ Beside(b, t)
  <1>. DEFINE y == x - f.base
              z == f.size - (y + SlotPages)
              h == [base |-> f.base, size |-> y]
              t == [base |-> x + SlotPages, size |-> z]
              b == [base |-> x, size |-> SlotPages]
  <1>1. f.base \in Nat /\ f.size \in Nat /\ SlotPages \in Nat /\ SlotPages > 0
    BY SizeAssumption DEF Fragment
  <1>2. y \in Nat /\ z \in Nat /\ f.base + y = x /\ x + SlotPages + z = f.base + f.size
    <2>1. \A p, q, r \in Nat : x >= p /\ p + q >= x + r =>
             /\ x - p \in Nat /\ q - ((x - p) + r) \in Nat
             /\ p + (x - p) = x /\ x + r + (q - ((x - p) + r)) = p + q
      OBVIOUS
    <2>. QED BY <1>1, <2>1
  <1>. HIDE DEF y, z
  <1>3. h \in Fragment /\ t \in Fragment /\ b \in Fragment
    BY <1>1, <1>2 DEF Fragment
  <1>4. /\ Part(h, f) /\ Part(t, f) /\ Gap(h, t) /\ Gap(t, h)
        /\ Part(b, f) /\ Beside(b, h) /\ Beside(b, t)
    BY <1>1, <1>2 DEF Part, Gap, Beside
  <1>. QED BY <1>3, <1>4 DEF y, z

(* pmm_allocslot leaves gaps, an empty entry that it forgets in the table    *)
(* included.                                                                 *)
LEMMA TakeSlotSpread ==
  ASSUME NEW s \in Seq(Fragment), NEW i \in 1..Len(s), HasSlot(s[i]), Spread(s)
  PROVE  Parted(s, TakeSlot(s, i), [base |-> SlotBase(s[i]), size |-> SlotPages])
  <1>. DEFINE b == [base |-> SlotBase(s[i]), size |-> SlotPages]
              n == SlotBase(s[i]) - s[i].base
              head == [base |-> s[i].base, size |-> n]
              tail == [base |-> SlotBase(s[i]) + SlotPages,
                       size |-> s[i].size - (n + SlotPages)]
              cut == IF n > 0
                     THEN Replace(Replace(Duplicate(s, i), i, head), i + 1, tail)
                     ELSE Replace(s, i, tail)
  <1>1. /\ Len(s) \in Nat /\ s[i] \in Fragment
        /\ \A k \in 1..Len(s) : s[k] \in Fragment /\ s[k].base \in Nat /\ s[k].size \in Nat
    BY FragmentType, SpaceType
  <1>2. /\ head \in Fragment /\ tail \in Fragment /\ Part(head, s[i]) /\ Part(tail, s[i])
        /\ Gap(head, tail) /\ Gap(tail, head)
        /\ b \in Fragment /\ Part(b, s[i]) /\ Beside(b, head) /\ Beside(b, tail)
    BY <1>1, SlotBaseType, SlotGap DEF HasSlot
  <1>3. \A k \in 1..Len(s) : Part(s[k], s[k])
    BY <1>1 DEF Part
  <1>0. b \in Space
    BY <1>2, SpaceType
  <1>. HIDE DEF b, n, head, tail
  <1>4. i \in 1..Len(cut) /\ cut \in Seq(Fragment) /\ Parted(s, cut, b)
    <2>1. CASE n > 0
      <3>. DEFINE w == Replace(Replace(Duplicate(s, i), i, head), i + 1, tail)
                  p == [k \in 1..Len(w) |-> IF k <= i THEN k ELSE k - 1]
      <3>1. /\ w \in Seq(Fragment) /\ Len(w) = Len(s) + 1
            /\ w[i] = head /\ w[i + 1] = tail
            /\ \A k \in 1..Len(w) : k < i => w[k] = s[k]
            /\ \A k \in 1..Len(w) : k > i + 1 => w[k] = s[k - 1]
        <4>1. \A x, y \in Fragment :
                 LET z == Replace(Replace(Duplicate(s, i), i, x), i + 1, y)
                 IN  /\ z \in Seq(Fragment) /\ Len(z) = Len(s) + 1
                     /\ z[i] = x /\ z[i + 1] = y
                     /\ \A k \in 1..Len(z) : k < i => z[k] = s[k]
                     /\ \A k \in 1..Len(z) : k > i + 1 => z[k] = s[k - 1]
          BY CutTable
        <4>2. head \in Fragment /\ tail \in Fragment
          BY <1>2
        <4>. QED BY <4>1, <4>2
      <3>2. cut = w
        BY <2>1
      <3>. HIDE DEF w, cut
      <3>3. /\ p \in [1..Len(w) -> 1..Len(s)]
            /\ \A k \in 1..Len(w) : p[k] = IF k <= i THEN k ELSE k - 1
        BY <1>1, <3>1
      <3>4. \A j, k \in 1..Len(w) : j # k /\ p[j] = p[k] => {j, k} = {i, i + 1}
        BY <1>1, <3>1, <3>3
      <3>. HIDE DEF p
      <3>5. ASSUME NEW k \in 1..Len(w) PROVE Part(w[k], s[p[k]])
        <4>1. CASE k < i
          <5>1. p[k] = k /\ k \in 1..Len(s) /\ w[k] = s[k]
            BY <1>1, <3>1, <3>3, <4>1
          <5>. QED BY <1>3, <5>1
        <4>2. CASE k = i
          BY <1>1, <1>2, <3>1, <3>3, <4>2
        <4>3. CASE k = i + 1
          <5>1. p[k] = i
            BY <1>1, <3>3, <4>3
          <5>. QED BY <1>2, <3>1, <4>3, <5>1
        <4>4. CASE k > i + 1
          <5>1. p[k] = k - 1 /\ k - 1 \in 1..Len(s)
            BY <1>1, <3>1, <3>3, <4>4
          <5>. QED BY <1>3, <3>1, <4>4, <5>1
        <4>. QED BY <1>1, <4>1, <4>2, <4>3, <4>4
      <3>6. ASSUME NEW j \in 1..Len(w), NEW k \in 1..Len(w), j # k, p[j] = p[k] PROVE Gap(w[j], w[k])
        <4>1. {j, k} = {i, i + 1}
          BY <3>4, <3>6
        <4>2. (j = i /\ k = i + 1) \/ (j = i + 1 /\ k = i)
          BY <3>6, <4>1
        <4>. QED BY <1>2, <3>1, <4>2
      <3>7. \A k \in 1..Len(w) : p[k] = i => Beside(b, w[k])
        <4>1. \A k \in 1..Len(w) : p[k] = i => k = i \/ k = i + 1
          BY <1>1, <3>1, <3>3
        <4>. QED BY <1>2, <3>1, <4>1
      <3>8. p \in [1..Len(w) -> 1..Len(s)] /\ w \in Seq(Fragment) /\ Part(b, s[i])
        BY <1>2, <3>1, <3>3
      <3>9. Parted(s, w, b)
        BY <1>0, <3>5, <3>6, <3>7, <3>8, PartsSpread, Zenon
      <3>. QED BY <1>1, <3>1, <3>2, <3>9
    <2>2. CASE ~(n > 0)
      <3>. DEFINE w == Replace(s, i, tail)
                  p == [k \in 1..Len(w) |-> k]
      <3>1. /\ w \in Seq(Fragment) /\ Len(w) = Len(s)
            /\ \A k \in 1..Len(s) : w[k] = IF k = i THEN tail ELSE s[k]
        <4>1. tail \in Fragment
          BY <1>2
        <4>. QED BY <4>1, ReplaceType, Zenon
      <3>2. cut = w
        BY <2>2
      <3>. HIDE DEF w, cut
      <3>3. p \in [1..Len(w) -> 1..Len(s)] /\ \A k \in 1..Len(w) : p[k] = k
        BY <1>1, <3>1
      <3>. HIDE DEF p
      <3>4. \A k \in 1..Len(w) : Part(w[k], s[p[k]])
        BY <1>2, <1>3, <3>1, <3>3
      <3>5. \A j, k \in 1..Len(w) : j # k /\ p[j] = p[k] => Gap(w[j], w[k])
        BY <3>3
      <3>6. \A k \in 1..Len(w) : p[k] = i => Beside(b, w[k])
        BY <1>1, <1>2, <3>1, <3>3
      <3>7. p \in [1..Len(w) -> 1..Len(s)] /\ w \in Seq(Fragment) /\ Part(b, s[i])
        BY <1>2, <3>1, <3>3
      <3>8. Parted(s, w, b)
        BY <1>0, <3>4, <3>5, <3>6, <3>7, PartsSpread, Zenon
      <3>. QED BY <1>1, <3>1, <3>2, <3>8
    <2>. QED BY <2>1, <2>2
  <1>. HIDE DEF cut
  <1>5. Parted(s, Remove(cut, i), b)
    BY <1>4, RemoveSpread DEF Parted
  <1>6. TakeSlot(s, i) = IF tail.size = 0 THEN Remove(cut, i) ELSE cut
    BY DEF TakeSlot, cut, n, head, tail
  <1>. QED BY <1>4, <1>5, <1>6 DEF b

(* Joined(w, e, f): w is the union of the neighbours e and f. *)
Joined(w, e, f) ==
    \/ Adjoins(e, f) /\ w.base = e.base /\ w.size = e.size + f.size
    \/ Adjoins(f, e) /\ w.base = f.base /\ w.size = f.size + e.size

(* What pmm_free makes of an entry and a block: at most one other entry      *)
(* touches it, that on the other side of the block.                          *)
LEMMA JoinedOnce ==
  ASSUME NEW w \in Fragment, NEW f \in Fragment, NEW b \in Fragment, Joined(w, f, b), b.size > 0,
         NEW e \in Fragment, NEW g \in Fragment, Gap(e, f), Gap(g, f), Gap(e, g),
         Beside(e, b), Beside(g, b), Touches(e, w), Touches(g, w)
  PROVE  FALSE
  BY DEF Joined, Gap, Beside, Touches, Adjoins, Fragment

(* pmm_free puts a block into a table with gaps. *)
LEMMA PutBackSpread ==
  ASSUME NEW s \in Seq(Fragment), NEW b \in Fragment, b.size > 0, Spread(s), Off(s, b),
         NEW i \in 1..(Len(s) + 1), i <= Len(s) => Touches(s[i], b),
         i = Len(s) + 1 => \A k \in 1..Len(s) : ~Touches(s[k], b)
  PROVE  LET t == PutBack(s, i, b)
         IN  /\ SpreadBut(t, i)
             /\ \A a \in Space : a.size > 0 /\ Off(s, a) /\ Beside(a, b) => Off(t, a)
  <1>. DEFINE t == PutBack(s, i, b)
  <1>1. /\ Len(s) \in Nat /\ b \in Space
        /\ \A k \in 1..Len(s) : s[k] \in Fragment /\ s[k] \in Space
    BY FragmentType, SpaceType
  <1>2. \A k \in 1..Len(s) : Beside(s[k], b)
    BY <1>1, GapFacts DEF Off
  <1>3. CASE i = Len(s) + 1
    <2>1. t = Append(s, b)
      BY <1>3 DEF PutBack
    <2>2. /\ Len(t) = Len(s) + 1 /\ t[i] = b
          /\ \A k \in 1..Len(t) : k # i => k \in 1..Len(s) /\ t[k] = s[k]
      <3>. HIDE DEF t
      <3>. QED BY <1>1, <1>3, <2>1
    <2>. HIDE DEF t
    <2>3. SpreadBut(t, i)
      BY <1>2, <1>3, <2>2 DEF SpreadBut, Spread
    <2>4. \A a \in Space : a.size > 0 /\ Off(s, a) /\ Beside(a, b) => Off(t, a)
      BY <2>2 DEF Off
    <2>. QED BY <2>3, <2>4 DEF t
  <1>4. CASE i # Len(s) + 1
    <2>1. i \in 1..Len(s) /\ s[i] \in Fragment /\ Touches(s[i], b)
      BY <1>1, <1>4
    <2>2. PICK w \in Fragment : t = Replace(s, i, w) /\ Joined(w, s[i], b)
      <3>1. \A e, f \in Fragment : [base |-> e.base, size |-> e.size + f.size] \in Fragment
        BY DEF Fragment
      <3>2. CASE Adjoins(b, s[i])
        <4>. DEFINE w == [base |-> b.base, size |-> b.size + s[i].size]
        <4>1. b.size + s[i].size = s[i].size + b.size
          BY <2>1 DEF Fragment
        <4>2. w \in Fragment /\ t = Replace(s, i, w)
          BY <1>4, <2>1, <3>1, <3>2, <4>1 DEF PutBack
        <4>. QED BY <3>2, <4>2 DEF Joined
      <3>3. CASE ~Adjoins(b, s[i])
        <4>. DEFINE w == [base |-> s[i].base, size |-> s[i].size + b.size]
        <4>1. \A e \in Fragment : [e EXCEPT !.size = @ + b.size]
                                     = [base |-> e.base, size |-> e.size + b.size]
          BY DEF Fragment
        <4>2. w \in Fragment /\ t = Replace(s, i, w)
          BY <1>4, <2>1, <3>1, <3>3, <4>1 DEF PutBack
        <4>3. Adjoins(s[i], b)
          BY <2>1, <3>3 DEF Touches
        <4>. QED BY <4>2, <4>3 DEF Joined
      <3>. QED BY <3>2, <3>3
    <2>3. /\ Len(t) = Len(s) /\ t[i] = w
          /\ \A k \in 1..Len(s) : k # i => t[k] = s[k]
      <3>1. \A x \in Fragment : /\ Len(Replace(s, i, x)) = Len(s)
                                /\ \A k \in 1..Len(s) : Replace(s, i, x)[k] = IF k = i THEN x ELSE s[k]
        BY <2>1, ReplaceType
      <3>. HIDE DEF t
      <3>. QED BY <2>1, <2>2, <3>1
    <2>. HIDE DEF t
    <2>4. \A k \in 1..Len(s) : k # i => Gap(s[k], s[i]) /\ Beside(s[k], w)
      <3>. SUFFICES ASSUME NEW k \in 1..Len(s), k # i PROVE Gap(s[k], s[i]) /\ Beside(s[k], w)
        OBVIOUS
      <3>1. Gap(s[k], s[i]) /\ Beside(s[k], b) /\ s[k] \in Space
        BY <1>1, <1>2, <2>1 DEF Spread
      <3>. QED BY <2>1, <2>2, <3>1, JoinFacts DEF Joined
    <2>5. w.size > 0
      BY <2>1, <2>2 DEF Joined, Fragment
    <2>6. ASSUME NEW j \in 1..Len(s), NEW k \in 1..Len(s), j # i, k # i, j # k,
                 Touches(s[j], w), Touches(s[k], w)
          PROVE  FALSE
      <3>1. Gap(s[j], s[k]) /\ Gap(s[j], s[i]) /\ Gap(s[k], s[i]) /\ Beside(s[j], b) /\ Beside(s[k], b)
        BY <1>2, <2>1, <2>6 DEF Spread
      <3>2. s[j] \in Fragment /\ s[k] \in Fragment
        BY <1>1
      <3>. QED BY <2>1, <2>2, <2>6, <3>1, <3>2, JoinedOnce
    <2>7. SpreadBut(t, i)
      BY <2>1, <2>3, <2>4, <2>5, <2>6 DEF SpreadBut, Spread
    <2>8. ASSUME NEW a \in Space, a.size > 0, Off(s, a), Beside(a, b)
          PROVE  Off(t, a)
      <3>1. Beside(a, s[i])
        BY <2>1, <2>8 DEF Off
      <3>2. Beside(a, w)
        BY <2>1, <2>2, <2>8, <3>1, JoinFacts DEF Joined
      <3>. QED BY <2>1, <2>3, <2>8, <3>2 DEF Off
    <2>. QED BY <2>7, <2>8 DEF t
  <1>. QED BY <1>3, <1>4

(* Nothing is left to merge. *)
LEMMA NoneTouches ==
  ASSUME NEW s \in Seq(Fragment), NEW x \in 1..Len(s), SpreadBut(s, x),
         \A k \in 1..Len(s) : ~Touches(s[k], s[x])
  PROVE  Spread(s)
  <1>1. \A k \in 1..Len(s) : s[k] \in Space
    BY FragmentType, SpaceType
  <1>2. \A k \in 1..Len(s) : k # x => Gap(s[k], s[x]) /\ Gap(s[x], s[k])
    BY <1>1, GapFacts DEF SpreadBut
  <1>. QED BY <1>2 DEF Spread, SpreadBut

(* The second loop of pmm_free finds the only neighbour there can be. *)
LEMMA MergeSpread ==
  ASSUME NEW s \in Seq(Fragment), NEW x \in 1..Len(s), SpreadBut(s, x),
         NEW j \in 1..Len(s), Touches(s[j], s[x])
  PROVE  LET t == Merge(s, x, j)
         IN  Spread(t) /\ \A a \in Space : a.size > 0 /\ Off(s, a) => Off(t, a)
  <1>. DEFINE whole == [base |-> IF Adjoins(s[x], s[j]) THEN s[x].base ELSE s[j].base,
                        size |-> s[x].size + s[j].size]
              u == Replace(s, x, whole)
              r == Remove(u, j)
              m(k) == IF k < j THEN k ELSE k + 1
  <1>1. /\ Len(s) \in Nat
        /\ \A k \in 1..Len(s) : s[k] \in Fragment /\ s[k] \in Space
    BY FragmentType, SpaceType
  <1>2. j # x
    BY <1>1, GapFacts DEF SpreadBut
  <1>3. whole \in Fragment /\ Joined(whole, s[x], s[j])
    <2>1. s[x] \in Fragment /\ s[j] \in Fragment /\ (Adjoins(s[x], s[j]) \/ Adjoins(s[j], s[x]))
      BY <1>1 DEF Touches
    <2>2. \A e, f \in Fragment : /\ [base |-> e.base, size |-> e.size + f.size] \in Fragment
                                 /\ [base |-> f.base, size |-> e.size + f.size] \in Fragment
                                 /\ e.size + f.size = f.size + e.size
      BY DEF Fragment
    <2>. QED BY <2>1, <2>2 DEF Joined
  <1>. HIDE DEF whole
  <1>4. ASSUME NEW k \in 1..Len(s), k # x, k # j
        PROVE  Gap(s[k], whole) /\ Gap(whole, s[k])
    <2>1. Gap(s[k], s[j])
      BY <1>2, <1>4 DEF SpreadBut
    <2>2. Gap(s[k], s[x])
      <3>1. Beside(s[k], s[x]) /\ ~Touches(s[k], s[x])
        BY <1>2, <1>4 DEF SpreadBut
      <3>. QED BY <1>1, <3>1, GapFacts
    <2>3. Gap(s[k], whole)
      BY <1>1, <1>3, <2>1, <2>2, JoinFacts DEF Joined
    <2>. QED BY <1>1, <1>3, <2>3, SpaceType, GapFacts
  <1>5. ASSUME NEW a \in Space, a.size > 0, Off(s, a)
        PROVE  Beside(a, whole)
    <2>1. Beside(a, s[x]) /\ Beside(a, s[j])
      BY <1>5 DEF Off
    <2>. QED BY <1>1, <1>3, <1>5, <2>1, JoinFacts DEF Joined
  <1>6. /\ u \in Seq(Fragment) /\ Len(u) = Len(s)
        /\ \A k \in 1..Len(s) : u[k] = IF k = x THEN whole ELSE s[k]
    BY <1>3, ReplaceType
  <1>. HIDE DEF u
  <1>7. /\ r \in Seq(Fragment) /\ Len(r) = Len(s) - 1
        /\ \A k \in 1..(Len(s) - 1) : r[k] = IF k < j THEN u[k] ELSE u[k + 1]
    <2>1. j \in 1..Len(u)
      BY <1>6
    <2>2. /\ r \in Seq(Fragment) /\ Len(r) = Len(u) - 1
          /\ \A k \in 1..(Len(u) - 1) : r[k] = IF k < j THEN u[k] ELSE u[k + 1]
      BY <1>6, <2>1, RemoveType
    <2>. QED BY <1>6, <2>2
  <1>. HIDE DEF r
  <1>8. /\ \A k \in 1..Len(r) : m(k) \in 1..Len(s) /\ m(k) # j /\ r[k] = u[m(k)]
        /\ \A k, l \in 1..Len(r) : k # l => m(k) # m(l)
    BY <1>1, <1>7
  <1>. HIDE DEF m
  <1>9. \A k \in 1..Len(r) : r[k] = IF m(k) = x THEN whole ELSE s[m(k)]
    BY <1>6, <1>8
  <1>10. ASSUME NEW k \in 1..Len(r), NEW l \in 1..Len(r), k # l
         PROVE  Gap(r[k], r[l])
    <2>1. /\ m(k) \in 1..Len(s) /\ m(k) # j
          /\ m(l) \in 1..Len(s) /\ m(l) # j /\ m(k) # m(l)
      BY <1>8, <1>10
    <2>. QED BY <1>4, <1>9, <2>1 DEF SpreadBut
  <1>11. \A a \in Space : a.size > 0 /\ Off(s, a) => Off(r, a)
    BY <1>5, <1>8, <1>9 DEF Off
  <1>. QED BY <1>10, <1>11 DEF Spread, Merge, r, u, whole

-----------------------------------------------------------------------------
(* Steps of the cores *)

(* While a core is between its scan and its update no block is half merged. *)
LEMMA LockedSpread ==
  ASSUME GapInv, NEW c \in CPU, pc[c] \in {"scan", "take"}
  PROVE  /\ Spread(pmm_entries)
         /\ \A d \in CPU : d # c => ~Inside(d)
         /\ \A d \in CPU : ~Unmerged(d)
  <1>1. CallsInOrder
    BY DEF GapInv, IndInv
  <1>2. \A d \in CPU : d # c => ~Inside(d)
    BY <1>1 DEF CallsInOrder, Inside
  <1>3. \A d \in CPU : ~Unmerged(d)
    BY <1>2 DEF Inside, Unmerged, Counting
  <1>. QED BY <1>2, <1>3 DEF GapInv, Gaps

(* A step that leaves the table alone. *)
LEMMA GapsUnmoved ==
  ASSUME Gaps, pmm_entries' = pmm_entries,
         \A c \in CPU : (Unmerged(c)' <=> Unmerged(c)) /\ (Unmerged(c) => idx'[c] = idx[c]),
         \A b \in held' : Off(pmm_entries, b), \A c \in CPU : Off(pmm_entries, blk'[c])
  PROVE  Gaps'
  BY DEF Gaps

(* No block is beside every entry. *)
LEMMA NoBlockOff == ASSUME NEW s \in Seq(Fragment) PROVE Off(s, NoBlock)
  BY FragmentType, SpaceType, GapFacts DEF Off

(* A block is taken out of the table. *)
LEMMA GapsTaken ==
  ASSUME GapInv, NEW c \in CPU, pc[c] = "take", call[c] # "pmm_free", call' = call, held' = held,
         \A d \in CPU : d # c => blk'[d] = blk[d] /\ pc'[d] = pc[d], ~Unmerged(c)',
         Parted(pmm_entries, pmm_entries', blk'[c])
  PROVE  Gaps'
  <1>1. /\ \A d \in CPU : ~Unmerged(d)
        /\ \A b \in held : b \in Space
        /\ \A d \in CPU : blk[d] \in Space
    BY LockedSpread, SpaceType DEF GapInv, IndInv, TypeOK
  <1>2. \A d \in CPU : ~Unmerged(d)'
    BY <1>1 DEF Unmerged
  <1>3. \A b \in held : Off(pmm_entries', b)
    BY <1>1 DEF Parted, GapInv, Gaps
  <1>4. \A d \in CPU : Off(pmm_entries', blk'[d])
    BY <1>1 DEF Parted, GapInv, Gaps
  <1>. QED BY <1>2, <1>3, <1>4 DEF Parted, Gaps

(* A block is put back. *)
LEMMA GapsPut ==
  ASSUME GapInv, NEW c \in CPU, FreePut(c)
  PROVE  Gaps'
  <1>. DEFINE s == pmm_entries
  <1>1. /\ s \in Seq(Fragment) /\ blk[c] \in Fragment /\ idx[c] \in 1..(Len(s) + 1)
        /\ idx[c] <= Len(s) => Touches(s[idx[c]], blk[c])
        /\ idx[c] = Len(s) + 1 => \A k \in 1..Len(s) : ~Touches(s[k], blk[c])
        /\ blk[c].size > 0 /\ Off(s, blk[c])
    BY DEF GapInv, IndInv, TypeOK, ScanStillValid, Solid, Single, Gaps, FreePut
  <1>2. Spread(s) /\ \A d \in CPU : d # c => ~Inside(d)
    BY LockedSpread DEF FreePut
  <1>3. /\ SpreadBut(pmm_entries', idx[c])
        /\ \A a \in Space : a.size > 0 /\ Off(s, a) /\ Beside(a, blk[c]) => Off(pmm_entries', a)
    BY <1>1, <1>2, PutBackSpread DEF FreePut
  <1>4. /\ pmm_entries' \in Seq(Fragment)
        /\ held' = held /\ idx' = idx /\ call' = call
        /\ \A d \in CPU : blk'[d] = IF d = c THEN NoBlock ELSE blk[d]
        /\ \A d \in CPU : pc'[d] = IF d = c THEN "freeread" ELSE pc[d]
    BY FreePutTable DEF GapInv, IndInv, TypeOK, FreePut, Goto
  <1>5. /\ \A b \in held : b \in Space /\ b.size > 0 /\ Off(s, b) /\ Beside(b, blk[c])
        /\ \A d \in CPU : d # c => blk[d] = NoBlock \/
              (blk[d] \in Space /\ blk[d].size > 0 /\ Off(s, blk[d]) /\ Beside(blk[d], blk[c]))
    <2>1. /\ \A b \in held : b \in Space /\ b.size > 0 /\ Off(s, b) /\ Apart(blk[c], b)
          /\ \A d \in CPU : /\ blk[d] \in Space /\ Off(s, blk[d]) /\ (blk[d] = NoBlock \/ blk[d].size > 0)
                            /\ d # c => Apart(blk[d], blk[c])
      BY SpaceType DEF GapInv, IndInv, TypeOK, NoDoubleUse, Solid, Gaps
    <2>. QED BY <1>1, <2>1, GapFacts, ApartSymmetric
  <1>6. Unmerged(c)' /\ \A d \in CPU : d # c => ~Unmerged(d)'
    BY <1>2, <1>4 DEF Unmerged, Counting, Inside, FreePut
  <1>7. \A b \in held' : Off(pmm_entries', b)
    BY <1>3, <1>4, <1>5
  <1>8. \A d \in CPU : Off(pmm_entries', blk'[d])
    BY <1>3, <1>4, <1>5, NoBlockOff
  <1>9. \A d \in CPU : Unmerged(d)' => SpreadBut(pmm_entries', idx'[d])
    BY <1>3, <1>4, <1>6
  <1>. QED BY <1>6, <1>7, <1>8, <1>9 DEF Gaps

(* The neighbour is merged. *)
LEMMA GapsMerged ==
  ASSUME GapInv, NEW c \in CPU, FreeMerge(c)
  PROVE  Gaps'
  <1>. DEFINE s == pmm_entries
  <1>1. TypeOK /\ CallsInOrder /\ ScanStillValid /\ Solid /\ Gaps
    BY DEF GapInv, IndInv
  <1>2. call[c] = "pmm_free" /\ Unmerged(c)
    BY <1>1 DEF CallsInOrder, FreeMerge, Unmerged
  <1>3. s \in Seq(Fragment) /\ idx[c] \in 1..Len(s) /\ SpreadBut(s, idx[c])
    BY <1>1, <1>2 DEF TypeOK, ScanStillValid, Gaps
  <1>4. \A d \in CPU : d # c => ~Inside(d)
    BY <1>1 DEF CallsInOrder, Inside, FreeMerge
  <1>5. /\ held' = held /\ blk' = blk /\ call' = call
        /\ \A d \in CPU : pc'[d] = IF d = c THEN "release" ELSE pc[d]
    BY <1>1 DEF TypeOK, FreeMerge, Goto
  <1>6. \A d \in CPU : ~Unmerged(d)'
    BY <1>4, <1>5 DEF Unmerged, Counting, Inside
  <1>7. Spread(pmm_entries') /\ \A a \in Space : a.size > 0 /\ Off(s, a) => Off(pmm_entries', a)
    <2>1. PICK j \in 0..Len(s) :
             /\ IsFirst(j, s, LAMBDA e : Touches(e, s[idx[c]]))
             /\ pmm_entries' = IF j = 0 THEN s ELSE Merge(s, idx[c], j)
      BY DEF FreeMerge
    <2>2. CASE j = 0
      <3>1. \A k \in 1..Len(s) : ~Touches(s[k], s[idx[c]])
        BY <2>1, <2>2 DEF IsFirst
      <3>2. Spread(s)
        BY <1>3, <3>1, NoneTouches
      <3>. QED BY <2>1, <2>2, <3>2
    <2>3. CASE j # 0
      <3>1. j \in 1..Len(s) /\ Touches(s[j], s[idx[c]])
        BY <2>1, <2>3 DEF IsFirst
      <3>. QED BY <1>3, <2>1, <2>3, <3>1, MergeSpread
    <2>. QED BY <2>2, <2>3
  <1>8. pmm_entries' \in Seq(Fragment)
    BY FreeMergeTable DEF GapInv
  <1>9. \A b \in held : Off(pmm_entries', b)
    BY <1>1, <1>7, SpaceType DEF TypeOK, Solid, Gaps
  <1>10. \A d \in CPU : Off(pmm_entries', blk[d])
    BY <1>1, <1>7, <1>8, SpaceType, NoBlockOff DEF TypeOK, Solid, Gaps
  <1>. QED BY <1>5, <1>6, <1>7, <1>9, <1>10 DEF Gaps

(* Sizes are positive from the argument of a call to the block handed out.   *)
LEMMA SolidStep == GapInv /\ [Next]_vars => Solid'
  <1>. SUFFICES ASSUME GapInv, [Next]_vars PROVE Solid'
    OBVIOUS
  <1>. USE DEF Goto
  <1>1. TypeOK /\ CallsInOrder /\ Solid
    BY DEF GapInv, IndInv
  <1>2. CASE Boot
    BY <1>1, <1>2 DEF Boot, Solid, locals
  <1>3. ASSUME NEW c \in CPU, NEW t \in Task, NEW n \in 1..MaxPages,
               pmm_alloc(c, t, n), calls' = calls + 1
        PROVE  Solid'
    <2>1. CASE Shouldnothappen
      BY <1>1, <1>3, <2>1 DEF pmm_alloc, Solid, locals
    <2>2. CASE ~Shouldnothappen
      <3>1. Enter(c, "pmm_alloc", t, n, NoBlock) /\ held' = held /\ n > 0
        BY <1>3, <2>2, SizeAssumption DEF pmm_alloc
      <3>. QED BY <1>1, <3>1 DEF Enter, TypeOK, Solid
    <2>. QED BY <2>1, <2>2
  <1>4. ASSUME NEW c \in CPU, NEW t \in Task, pmm_allocslot(c, t), calls' = calls + 1
        PROVE  Solid'
    BY <1>1, <1>4, SizeAssumption DEF pmm_allocslot, Enter, TypeOK, Solid
  <1>5. ASSUME NEW c \in CPU, NEW b \in held, pmm_free(c, b), calls' = calls + 1
        PROVE  Solid'
    BY <1>1, <1>5 DEF pmm_free, Enter, TypeOK, Solid
  <1>6. ASSUME NEW c \in CPU, calls' = calls, lockacquire(c)
        PROVE  Solid'
    BY <1>1, <1>6 DEF lockacquire, TypeOK, Solid
  <1>7. ASSUME NEW c \in CPU, calls' = calls, Scan(c)
        PROVE  Solid'
    <2>1. /\ UNCHANGED <<held, blk, pages, call>>
          /\ \A d \in CPU : d # c => pc'[d] = pc[d]
          /\ pc[c] = "scan"
      BY <1>1, <1>7 DEF Scan, TypeOK
    <2>. QED BY <1>1, <2>1 DEF Solid
  <1>8. ASSUME NEW c \in CPU, calls' = calls, AllocTake(c)
        PROVE  Solid'
    BY <1>1, <1>8 DEF AllocTake, TypeOK, Solid
  <1>9. ASSUME NEW c \in CPU, calls' = calls, SlotTake(c)
        PROVE  Solid'
    BY <1>1, <1>9, SizeAssumption DEF SlotTake, TypeOK, Solid
  <1>10. ASSUME NEW c \in CPU, calls' = calls, FreePut(c)
        PROVE  Solid'
    BY <1>1, <1>10 DEF FreePut, TypeOK, Solid
  <1>11. ASSUME NEW c \in CPU, calls' = calls, FreeMerge(c)
        PROVE  Solid'
    BY <1>1, <1>11 DEF FreeMerge, TypeOK, CallsInOrder, Solid, Inside, Counting
  <1>12. ASSUME NEW c \in CPU, calls' = calls, FreepagesRead(c)
        PROVE  Solid'
    BY <1>1, <1>12 DEF FreepagesRead, TypeOK, CallsInOrder, Solid, Inside, Counting
  <1>13. ASSUME NEW c \in CPU, calls' = calls, FreepagesWrite(c)
        PROVE  Solid'
    BY <1>1, <1>13 DEF FreepagesWrite, TypeOK, CallsInOrder, Solid, Inside, Counting
  <1>14. ASSUME NEW c \in CPU, calls' = calls, AllocmemRead(c)
        PROVE  Solid'
    BY <1>1, <1>14 DEF AllocmemRead, TypeOK, CallsInOrder, Solid, Inside, Counting
  <1>15. ASSUME NEW c \in CPU, calls' = calls, AllocmemWrite(c)
        PROVE  Solid'
    BY <1>1, <1>15 DEF AllocmemWrite, TypeOK, CallsInOrder, Solid, Inside, Counting
  <1>16. ASSUME NEW c \in CPU, calls' = calls, lockrelease(c)
        PROVE  Solid'
    BY <1>1, <1>16 DEF lockrelease, TypeOK, CallsInOrder, Solid, Inside, Counting
  <1>17. ASSUME NEW c \in CPU, calls' = calls, Return(c)
        PROVE  Solid'
    BY <1>1, <1>17 DEF Return, TypeOK, Solid, NoBlock
  <1>18. CASE UNCHANGED vars
    BY <1>1, <1>18 DEF vars, Solid
  <1>19. CASE Next
    BY <1>2, <1>3, <1>4, <1>5, <1>6, <1>7, <1>8, <1>9, <1>10, <1>11, <1>12, <1>13,
       <1>14, <1>15, <1>16, <1>17, <1>19, NextCases, Zenon
  <1>. QED BY <1>18, <1>19

(* A core between its scan and its update sees the table it has scanned. *)
LEMMA SingleStep == GapInv /\ [Next]_vars => Single'
  <1>. SUFFICES ASSUME GapInv, [Next]_vars PROVE Single'
    OBVIOUS
  <1>. USE DEF Goto
  <1>1. TypeOK /\ CallsInOrder /\ Single
    BY DEF GapInv, IndInv
  <1>2. CASE Boot
    BY <1>1, <1>2 DEF Boot, Single, locals, table
  <1>3. ASSUME NEW c \in CPU, NEW t \in Task, NEW n \in 1..MaxPages,
               pmm_alloc(c, t, n), calls' = calls + 1
        PROVE  Single'
    <2>1. CASE Shouldnothappen
      BY <1>1, <1>3, <2>1 DEF pmm_alloc, Single, locals, table
    <2>2. CASE ~Shouldnothappen
      <3>1. Enter(c, "pmm_alloc", t, n, NoBlock)
        BY <1>3, <2>2 DEF pmm_alloc
      <3>. QED BY <1>1, <3>1 DEF Enter, TypeOK, Single, table
    <2>. QED BY <2>1, <2>2
  <1>4. ASSUME NEW c \in CPU, NEW t \in Task, pmm_allocslot(c, t), calls' = calls + 1
        PROVE  Single'
    BY <1>1, <1>4 DEF pmm_allocslot, Enter, TypeOK, Single, table
  <1>5. ASSUME NEW c \in CPU, NEW b \in held, pmm_free(c, b), calls' = calls + 1
        PROVE  Single'
    BY <1>1, <1>5 DEF pmm_free, Enter, TypeOK, Single, table
  <1>6. ASSUME NEW c \in CPU, calls' = calls, lockacquire(c)
        PROVE  Single'
    BY <1>1, <1>6 DEF lockacquire, TypeOK, Single
  <1>7. ASSUME NEW c \in CPU, calls' = calls, Scan(c)
        PROVE  Single'
    <2>1. /\ pmm_entries' = pmm_entries /\ call' = call /\ blk' = blk
          /\ \A d \in CPU : d # c => pc'[d] = pc[d] /\ idx'[d] = idx[d]
      BY <1>1, <1>7 DEF Scan, TypeOK, table
    <2>2. ASSUME call[c] = "pmm_free", idx'[c] = Len(pmm_entries) + 1, NEW k \in 1..Len(pmm_entries)
          PROVE  ~Touches(pmm_entries[k], blk[c])
      <3>1. PICK i \in 0..Len(pmm_entries) :
               /\ IsFirst(i, pmm_entries, LAMBDA e : Touches(e, blk[c]))
               /\ idx'[c] = IF i = 0 THEN Len(pmm_entries) + 1 ELSE i
        BY <1>1, <1>7, <2>2 DEF Scan, TypeOK
      <3>2. i = 0
        BY <1>1, <2>2, <3>1, FragmentType DEF TypeOK
      <3>. QED BY <3>1, <3>2 DEF IsFirst
    <2>. QED BY <1>1, <2>1, <2>2 DEF Single
  <1>8. ASSUME NEW c \in CPU, calls' = calls, AllocTake(c)
        PROVE  Single'
    <2>1. \A d \in CPU : d # c => ~Inside(d)
      BY <1>1, <1>8 DEF AllocTake, CallsInOrder, Inside
    <2>2. \A d \in CPU : pc'[d] # "take"
      BY <1>1, <1>8, <2>1 DEF AllocTake, TypeOK, Inside
    <2>. QED BY <2>2 DEF Single
  <1>9. ASSUME NEW c \in CPU, calls' = calls, SlotTake(c)
        PROVE  Single'
    <2>1. \A d \in CPU : d # c => ~Inside(d)
      BY <1>1, <1>9 DEF SlotTake, CallsInOrder, Inside
    <2>2. \A d \in CPU : pc'[d] # "take"
      BY <1>1, <1>9, <2>1 DEF SlotTake, TypeOK, Inside
    <2>. QED BY <2>2 DEF Single
  <1>10. ASSUME NEW c \in CPU, calls' = calls, FreePut(c)
        PROVE  Single'
    <2>1. \A d \in CPU : d # c => ~Inside(d)
      BY <1>1, <1>10 DEF FreePut, CallsInOrder, Inside
    <2>2. \A d \in CPU : pc'[d] # "take"
      BY <1>1, <1>10, <2>1 DEF FreePut, TypeOK, Inside
    <2>. QED BY <2>2 DEF Single
  <1>11. ASSUME NEW c \in CPU, calls' = calls, FreeMerge(c)
        PROVE  Single'
    <2>1. \A d \in CPU : d # c => ~Inside(d)
      BY <1>1, <1>11 DEF FreeMerge, CallsInOrder, Inside
    <2>2. \A d \in CPU : pc'[d] # "take"
      BY <1>1, <1>11, <2>1 DEF FreeMerge, TypeOK, Inside
    <2>. QED BY <2>2 DEF Single
  <1>12. ASSUME NEW c \in CPU, calls' = calls, FreepagesRead(c)
        PROVE  Single'
    BY <1>1, <1>12 DEF FreepagesRead, TypeOK, Single, table
  <1>13. ASSUME NEW c \in CPU, calls' = calls, FreepagesWrite(c)
        PROVE  Single'
    BY <1>1, <1>13 DEF FreepagesWrite, TypeOK, Single, table
  <1>14. ASSUME NEW c \in CPU, calls' = calls, AllocmemRead(c)
        PROVE  Single'
    BY <1>1, <1>14 DEF AllocmemRead, TypeOK, Single, table
  <1>15. ASSUME NEW c \in CPU, calls' = calls, AllocmemWrite(c)
        PROVE  Single'
    BY <1>1, <1>15 DEF AllocmemWrite, TypeOK, Single, table
  <1>16. ASSUME NEW c \in CPU, calls' = calls, lockrelease(c)
        PROVE  Single'
    BY <1>1, <1>16 DEF lockrelease, TypeOK, Single, table
  <1>17. ASSUME NEW c \in CPU, calls' = calls, Return(c)
        PROVE  Single'
    BY <1>1, <1>17 DEF Return, TypeOK, Single, table
  <1>18. CASE UNCHANGED vars
    BY <1>1, <1>18 DEF vars, Single
  <1>19. CASE Next
    BY <1>2, <1>3, <1>4, <1>5, <1>6, <1>7, <1>8, <1>9, <1>10, <1>11, <1>12, <1>13,
       <1>14, <1>15, <1>16, <1>17, <1>19, NextCases, Zenon
  <1>. QED BY <1>18, <1>19

(* Taking blocks out leaves gaps, and putting one back and merging it makes  *)
(* them again.                                                               *)
LEMMA GapsStep == GapInv /\ [Next]_vars => Gaps'
  <1>. SUFFICES ASSUME GapInv, [Next]_vars PROVE Gaps'
    OBVIOUS
  <1>. USE DEF Goto
  <1>1. TypeOK /\ CallsInOrder /\ Gaps /\ Off(pmm_entries, NoBlock)
    BY NoBlockOff DEF GapInv, IndInv, TypeOK
  <1>0. (\A b \in held : Off(pmm_entries, b)) /\ \A d \in CPU : Off(pmm_entries, blk[d])
    BY <1>1 DEF Gaps
  <1>2. CASE Boot
    <2>1. UNCHANGED <<pmm_entries, held, pc, call, blk, idx>>
      BY <1>2 DEF Boot, locals, table
    <2>. QED BY <1>1, <2>1 DEF Gaps, Unmerged
  <1>3. ASSUME NEW c \in CPU, NEW t \in Task, NEW n \in 1..MaxPages,
               pmm_alloc(c, t, n), calls' = calls + 1
        PROVE  Gaps'
    <2>1. CASE Shouldnothappen
      <3>1. UNCHANGED <<pmm_entries, held, pc, call, blk, idx>>
        BY <1>3, <2>1 DEF pmm_alloc, locals, table
      <3>. QED BY <1>1, <3>1 DEF Gaps, Unmerged
    <2>2. CASE ~Shouldnothappen
      <3>1. Enter(c, "pmm_alloc", t, n, NoBlock) /\ held' = held /\ pc[c] = "idle"
        BY <1>3, <2>2 DEF pmm_alloc
      <3>2. pmm_entries' = pmm_entries /\ \A d \in CPU : Unmerged(d)' <=> Unmerged(d)
        BY <1>1, <3>1 DEF Enter, TypeOK, Unmerged, Counting, table
      <3>3. idx' = idx /\ \A d \in CPU : Off(pmm_entries, blk'[d])
        BY <1>1, <1>0, <3>1 DEF Enter, TypeOK
      <3>. QED BY <1>1, <1>0, <3>1, <3>2, <3>3, GapsUnmoved
    <2>. QED BY <2>1, <2>2
  <1>4. ASSUME NEW c \in CPU, NEW t \in Task, pmm_allocslot(c, t), calls' = calls + 1
        PROVE  Gaps'
    <2>1. pmm_entries' = pmm_entries /\ \A d \in CPU : Unmerged(d)' <=> Unmerged(d)
      BY <1>1, <1>4 DEF pmm_allocslot, Enter, TypeOK, Unmerged, Counting, table
    <2>2. idx' = idx /\ held' = held /\ \A d \in CPU : Off(pmm_entries, blk'[d])
      BY <1>1, <1>0, <1>4 DEF pmm_allocslot, Enter, TypeOK
    <2>. QED BY <1>1, <1>0, <2>1, <2>2, GapsUnmoved
  <1>5. ASSUME NEW c \in CPU, NEW b \in held, pmm_free(c, b), calls' = calls + 1
        PROVE  Gaps'
    <2>1. pmm_entries' = pmm_entries /\ \A d \in CPU : Unmerged(d)' <=> Unmerged(d)
      BY <1>1, <1>5 DEF pmm_free, Enter, TypeOK, Unmerged, Counting, table
    <2>2. Off(pmm_entries, [base |-> b.base, size |-> b.size])
      BY <1>0 DEF Off, Beside
    <2>3. idx' = idx /\ held' \subseteq held /\ \A d \in CPU : Off(pmm_entries, blk'[d])
      BY <1>1, <1>0, <1>5, <2>2 DEF pmm_free, Enter, TypeOK
    <2>. QED BY <1>1, <1>0, <2>1, <2>3, GapsUnmoved
  <1>6. ASSUME NEW c \in CPU, calls' = calls, lockacquire(c)
        PROVE  Gaps'
    <2>1. UNCHANGED <<pmm_entries, held, blk, idx>> /\ \A d \in CPU : Unmerged(d)' <=> Unmerged(d)
      BY <1>1, <1>6 DEF lockacquire, TypeOK, Unmerged, Counting
    <2>. QED BY <1>1, <1>0, <2>1, GapsUnmoved
  <1>7. ASSUME NEW c \in CPU, calls' = calls, Scan(c)
        PROVE  Gaps'
    <2>1. UNCHANGED <<pmm_entries, held, blk>> /\ \A d \in CPU : Unmerged(d)' <=> Unmerged(d)
      BY <1>1, <1>7 DEF Scan, TypeOK, Unmerged, Counting, table
    <2>2. \A d \in CPU : Unmerged(d) => idx'[d] = idx[d]
      BY <1>1, <1>7 DEF Scan, TypeOK, Unmerged, Counting
    <2>. QED BY <1>1, <1>0, <2>1, <2>2, GapsUnmoved
  <1>8. ASSUME NEW c \in CPU, calls' = calls, AllocTake(c)
        PROVE  Gaps'
    <2>1. /\ pmm_entries \in Seq(Fragment) /\ idx[c] \in 1..Len(pmm_entries) /\ pages[c] \in Nat
          /\ pmm_entries[idx[c]].size >= pages[c] /\ Spread(pmm_entries)
      BY <1>8, LockedSpread DEF GapInv, IndInv, TypeOK, ScanStillValid, AllocTake
    <2>2. /\ blk'[c] = [base |-> pmm_entries[idx[c]].base, size |-> pages[c]]
          /\ pmm_entries' = TakeFront(pmm_entries, idx[c], pages[c])
      BY <1>1, <1>8 DEF TypeOK, AllocTake
    <2>3. pages[c] <= pmm_entries[idx[c]].size
      BY <2>1, FragmentType, SpaceType
    <2>4. Parted(pmm_entries, pmm_entries', blk'[c])
      BY <2>1, <2>2, <2>3, TakeFrontSpread
    <2>5. /\ pc[c] = "take" /\ call[c] # "pmm_free" /\ call' = call /\ held' = held
          /\ \A d \in CPU : d # c => blk'[d] = blk[d] /\ pc'[d] = pc[d]
      BY <1>1, <1>8 DEF TypeOK, AllocTake
    <2>. QED BY <2>4, <2>5, GapsTaken DEF Unmerged
  <1>9. ASSUME NEW c \in CPU, calls' = calls, SlotTake(c)
        PROVE  Gaps'
    <2>1. /\ pmm_entries \in Seq(Fragment) /\ idx[c] \in 1..Len(pmm_entries)
          /\ HasSlot(pmm_entries[idx[c]]) /\ Spread(pmm_entries)
      BY <1>9, LockedSpread DEF GapInv, IndInv, TypeOK, ScanStillValid, SlotTake
    <2>2. /\ blk'[c] = [base |-> SlotBase(pmm_entries[idx[c]]), size |-> SlotPages]
          /\ pmm_entries' = TakeSlot(pmm_entries, idx[c])
      BY <1>1, <1>9 DEF TypeOK, SlotTake
    <2>3. Parted(pmm_entries, pmm_entries', blk'[c])
      BY <2>1, <2>2, TakeSlotSpread
    <2>4. /\ pc[c] = "take" /\ call[c] # "pmm_free" /\ call' = call /\ held' = held
          /\ \A d \in CPU : d # c => blk'[d] = blk[d] /\ pc'[d] = pc[d]
      BY <1>1, <1>9 DEF TypeOK, SlotTake
    <2>. QED BY <2>3, <2>4, GapsTaken DEF Unmerged
  <1>10. ASSUME NEW c \in CPU, calls' = calls, FreePut(c)
        PROVE  Gaps'
    BY <1>10, GapsPut
  <1>11. ASSUME NEW c \in CPU, calls' = calls, FreeMerge(c)
        PROVE  Gaps'
    BY <1>11, GapsMerged
  <1>12. ASSUME NEW c \in CPU, calls' = calls, FreepagesRead(c)
        PROVE  Gaps'
    <2>1. UNCHANGED <<pmm_entries, held, blk, idx>> /\ \A d \in CPU : Unmerged(d)' <=> Unmerged(d)
      BY <1>1, <1>12 DEF FreepagesRead, TypeOK, Unmerged, Counting, table
    <2>. QED BY <1>1, <1>0, <2>1, GapsUnmoved
  <1>13. ASSUME NEW c \in CPU, calls' = calls, FreepagesWrite(c)
        PROVE  Gaps'
    <2>1. UNCHANGED <<pmm_entries, held, blk, idx>> /\ \A d \in CPU : Unmerged(d)' <=> Unmerged(d)
      BY <1>1, <1>13 DEF FreepagesWrite, TypeOK, Unmerged, Counting, table
    <2>. QED BY <1>1, <1>0, <2>1, GapsUnmoved
  <1>14. ASSUME NEW c \in CPU, calls' = calls, AllocmemRead(c)
        PROVE  Gaps'
    <2>1. UNCHANGED <<pmm_entries, held, blk, idx>> /\ \A d \in CPU : Unmerged(d)' <=> Unmerged(d)
      BY <1>1, <1>14 DEF AllocmemRead, TypeOK, Unmerged, Counting, table
    <2>. QED BY <1>1, <1>0, <2>1, GapsUnmoved
  <1>15. ASSUME NEW c \in CPU, calls' = calls, AllocmemWrite(c)
        PROVE  Gaps'
    <2>1. UNCHANGED <<pmm_entries, held, blk, idx>> /\ \A d \in CPU : Unmerged(d)' <=> Unmerged(d)
      BY <1>1, <1>15 DEF AllocmemWrite, TypeOK, Unmerged, Counting, table
    <2>. QED BY <1>1, <1>0, <2>1, GapsUnmoved
  <1>16. ASSUME NEW c \in CPU, calls' = calls, lockrelease(c)
        PROVE  Gaps'
    <2>1. UNCHANGED <<pmm_entries, held, blk, idx>> /\ \A d \in CPU : Unmerged(d)' <=> Unmerged(d)
      BY <1>1, <1>16 DEF lockrelease, TypeOK, Unmerged, Counting, table
    <2>. QED BY <1>1, <1>0, <2>1, GapsUnmoved
  <1>17. ASSUME NEW c \in CPU, calls' = calls, Return(c)
        PROVE  Gaps'
    <2>1. /\ pmm_entries' = pmm_entries /\ blk' = [blk EXCEPT ![c] = NoBlock]
          /\ \A d \in CPU : Unmerged(d)' <=> Unmerged(d)
      BY <1>1, <1>17 DEF Return, TypeOK, Unmerged, Counting, table
    <2>2. \A d \in CPU : (Unmerged(d) => idx'[d] = idx[d]) /\ Off(pmm_entries, blk'[d])
      BY <1>1, <1>0, <1>17 DEF Return, TypeOK, Unmerged, Counting
    <2>3. Off(pmm_entries, [base |-> blk[c].base, size |-> blk[c].size, owner |-> tcb[c]])
      BY <1>0 DEF Off, Beside
    <2>4. \A b \in held' : Off(pmm_entries, b)
      BY <1>0, <1>17, <2>3 DEF Return
    <2>. QED BY <1>1, <2>1, <2>2, <2>4, GapsUnmoved
  <1>18. CASE UNCHANGED vars
    BY <1>1, <1>18 DEF vars, Gaps, Unmerged
  <1>19. CASE Next
    BY <1>2, <1>3, <1>4, <1>5, <1>6, <1>7, <1>8, <1>9, <1>10, <1>11, <1>12, <1>13,
       <1>14, <1>15, <1>16, <1>17, <1>19, NextCases, Zenon
  <1>. QED BY <1>18, <1>19

(* The areas of the loader's map that pmm_init reads are not next to each    *)
(* other.  pmm_init does not merge them.                                     *)
Maximal == \A i, j \in 1..Len(BootMap) : i # j => ~Adjoins(BootMap[i], BootMap[j])

(* The first table has gaps when the map of the loader has. *)
LEMMA InitGaps == Init /\ Maximal => GapInv
  <1>. SUFFICES ASSUME Init, Maximal PROVE GapInv
    OBVIOUS
  <1>1. IndInv
    BY InitInv
  <1>2. Solid /\ Single
    BY DEF Init, Solid, Single
  <1>3. Spread(BootMap)
    <2>. SUFFICES ASSUME NEW i \in 1..Len(BootMap), NEW j \in 1..Len(BootMap), i # j
                  PROVE  Gap(BootMap[i], BootMap[j])
      BY DEF Spread
    <2>1. /\ BootMap[i] \in Space /\ BootMap[j] \in Space
          /\ BootMap[i].size > 0 /\ BootMap[j].size > 0 /\ Apart(BootMap[i], BootMap[j])
      BY BootMapAssumption, FragmentType, SpaceType
    <2>2. ~Touches(BootMap[i], BootMap[j])
      BY DEF Maximal, Touches
    <2>. QED BY <2>1, <2>2, GapFacts
  <1>4. Gaps
    <2>1. Off(BootMap, NoBlock)
      BY BootMapAssumption, NoBlockOff
    <2>. QED BY <1>3, <2>1 DEF Init, Gaps, Unmerged, Counting
  <1>. QED BY <1>1, <1>2, <1>4 DEF GapInv

(* pmm_free leaves one fragment where there were two or three neighbours, so *)
(* no two fragments of the table touch, except while a core is between       *)
(* putting a block back and merging: however many cores allocate and free,   *)
(* one pass over the table for each neighbour is enough.                     *)
THEOREM NeighboursMerged == Spec /\ Maximal => []Coalesced
  <1>1. Init /\ Maximal => GapInv
    BY InitGaps
  <1>2. GapInv /\ [Next]_vars => GapInv'
    <2>1. IndInv /\ [Next]_vars => IndInv'
      BY TypeStep, OrderStep, ScanStep, UseStep DEF IndInv
    <2>. QED BY <2>1, SolidStep, SingleStep, GapsStep DEF GapInv
  <1>3. GapInv => Coalesced
    <2>. SUFFICES ASSUME GapInv, \A c \in CPU : ~Unmerged(c),
                         NEW i \in 1..Len(pmm_entries), NEW j \in 1..Len(pmm_entries), i # j
                  PROVE  ~Adjoins(pmm_entries[i], pmm_entries[j])
      BY DEF Coalesced
    <2>1. /\ Gap(pmm_entries[i], pmm_entries[j])
          /\ pmm_entries[i] \in Space /\ pmm_entries[j] \in Space
      BY FragmentType, SpaceType DEF GapInv, IndInv, TypeOK, Gaps, Spread
    <2>. QED BY <2>1, GapFacts DEF Touches
  <1>. QED BY <1>1, <1>2, <1>3, PTL DEF Spec
=============================================================================
