---------------------------- MODULE FsTaskProofs ----------------------------
(***************************************************************************)
(* Proofs about the file system task, for any set of tasks, any tree of    *)
(* files, any requests and any size of the tables.  The functions of the   *)
(* task are operators from state to state, so what each of them keeps is a *)
(* lemma, and a handler is shown to keep it from the lemmas of the         *)
(* functions it calls.                                                     *)
(***************************************************************************)
EXTENDS FsTask, Induction, FiniteSetTheorems, SequenceTheorems, TLAPS

Fields == {"fcb", "nfcb", "pipe", "npipe", "npipes", "dev", "mtab", "ctx", "nomem",
           "err", "ret", "delay", "out", "stuck"}
CtxFields == {"root", "work", "cwd", "open", "nfiles", "msg"}
PipeFields == {"reader", "fid", "nopen", "rd", "direct", "data", "id", "wrote", "got"}

-----------------------------------------------------------------------------
(* Bytes of pipes *)

(* The bytes handed out are the first ones, and the buffer has the rest. *)
InOrder(data, got, wrote, rd) ==
    /\ data \in Seq(Nat) /\ got \in Seq(Nat) /\ wrote \in Nat /\ rd \in Nat
    /\ rd <= Len(data) /\ Len(got) + Len(data) = wrote + rd
    /\ \A k \in 1..Len(got) : got[k] = k
    /\ \A k \in (rd + 1)..Len(data) : data[k] = Len(got) + k - rd

PipeOK(p) ==
    /\ DOMAIN p = PipeFields
    /\ p.reader \in Pid \union {Nobody}
    /\ InOrder(p.data, p.got, p.wrote, p.rd)

(* A sequence, whatever its items are. *)
Listed(x) == x \in Seq({x[i] : i \in DOMAIN x})

CtxOK(c) ==
    /\ DOMAIN c = CtxFields /\ Listed(c.open)
    /\ c.msg.fn = "fread" => c.msg.n \in Nat

PipesInOrder(st) ==
    /\ DOMAIN st = Fields /\ st.nfcb \in Nat /\ Listed(st.dev) /\ Listed(st.mtab)
    /\ DOMAIN st.ctx = Pid /\ \A t \in Pid : CtxOK(st.ctx[t])
    /\ DOMAIN st.pipe = 0..MaxPipe /\ \A i \in 0..MaxPipe : PipeOK(st.pipe[i])

-----------------------------------------------------------------------------
(* Sequences *)

(* A sequence of a set is a sequence. *)
LEMMA SeqIsListed ==
  ASSUME NEW S, NEW x \in Seq(S)
  PROVE  Listed(x) /\ Len(x) \in Nat /\ DOMAIN x = 1..Len(x)
  <1>1. Len(x) \in Nat /\ x \in [1..Len(x) -> S] /\ DOMAIN x = 1..Len(x)
    BY LenProperties
  <1>. DEFINE R == {x[i] : i \in DOMAIN x}
  <1>2. x \in [1..Len(x) -> R]
    BY <1>1
  <1>. HIDE DEF R
  <1>3. x \in Seq(R)
    BY <1>1, <1>2, SeqDef
  <1>. QED BY <1>1, <1>3 DEF Listed, R

(* What is done to sequences keeps them sequences. *)
LEMMA ListedKept ==
  ASSUME NEW x, Listed(x)
  PROVE  /\ Len(x) \in Nat /\ DOMAIN x = 1..Len(x)
         /\ \A e : Listed(Append(x, e)) /\ Len(Append(x, e)) = Len(x) + 1
         /\ \A i, e : Listed([x EXCEPT ![i] = e])
         /\ \A m \in 0..Len(x) : Listed(SubSeq(x, 1, m))
         /\ \A i \in 1..Len(x) : Listed(RemoveAt(x, i))
  <1>. DEFINE R == {x[i] : i \in DOMAIN x}
  <1>1. x \in Seq(R) /\ Len(x) \in Nat /\ DOMAIN x = 1..Len(x) /\ x \in [1..Len(x) -> R]
    BY LenProperties DEF Listed
  <1>. HIDE DEF R
  <1>2. ASSUME NEW e PROVE Listed(Append(x, e)) /\ Len(Append(x, e)) = Len(x) + 1
    <2>1. x \in Seq(R \union {e}) /\ e \in R \union {e}
      BY <1>1, SeqMonotonic
    <2>2. Append(x, e) \in Seq(R \union {e}) /\ Len(Append(x, e)) = Len(x) + 1
      BY <2>1, AppendProperties
    <2>. QED BY <2>2, SeqIsListed
  <1>3. ASSUME NEW i, NEW e PROVE Listed([x EXCEPT ![i] = e])
    <2>1. [x EXCEPT ![i] = e] \in [1..Len(x) -> R \union {e}]
      BY <1>1
    <2>2. [x EXCEPT ![i] = e] \in Seq(R \union {e})
      BY <1>1, <2>1, SeqDef
    <2>. QED BY <2>2, SeqIsListed
  <1>4. ASSUME NEW m \in Int, NEW n \in Int, m >= 1, n <= Len(x) PROVE SubSeq(x, m, n) \in Seq(R)
    <2>1. \A i \in m..n : x[i] \in R
      BY <1>1, <1>4
    <2>. QED BY <2>1, SubSeqProperties
  <1>5. ASSUME NEW m \in 0..Len(x) PROVE Listed(SubSeq(x, 1, m))
    <2>1. SubSeq(x, 1, m) \in Seq(R)
      BY <1>1, <1>4
    <2>. QED BY <2>1, SeqIsListed
  <1>6. ASSUME NEW i \in 1..Len(x) PROVE Listed(RemoveAt(x, i))
    <2>1. SubSeq(x, 1, i - 1) \in Seq(R) /\ SubSeq(x, i + 1, Len(x)) \in Seq(R)
      BY <1>1, <1>4
    <2>2. RemoveAt(x, i) \in Seq(R)
      BY <2>1, ConcatProperties DEF RemoveAt
    <2>. QED BY <2>2, SeqIsListed
  <1>. QED BY <1>1, <1>2, <1>3, <1>5, <1>6

(* A set of numbers that is not empty has a least one. *)
LEMMA LeastIs ==
  ASSUME NEW S \in SUBSET Nat, S # {}
  PROVE  Least(S) \in S /\ \A j \in S : Least(S) <= j
  <1>1. \E i \in S : \A j \in S : i <= j
    <2>1. Min(S) \in S /\ \A j \in S : Min(S) <= j
      BY MinIs
    <2>. QED BY <2>1
  <1>. QED BY <1>1 DEF Least

(* The length of a table without the free slots at its end. *)
LEMMA ShrunkIs ==
  ASSUME NEW f, NEW n \in Nat
  PROVE  /\ Shrunk(f, n) \in 0..n
         /\ \A i \in Shrunk(f, n)..(n - 1) : f[i].path = Free
  <1>. DEFINE S == {m \in 0..n : \A i \in m..(n - 1) : f[i].path = Free}
  <1>1. n \in S /\ S \subseteq Nat
    OBVIOUS
  <1>2. Least(S) \in S
    <2>. HIDE DEF S
    <2>. QED BY <1>1, LeastIs
  <1>. QED BY <1>2 DEF Shrunk

-----------------------------------------------------------------------------
(* Order of bytes *)

(* The items of a joined sequence. *)
LEMMA Joined ==
  ASSUME NEW a \in Seq(Nat), NEW b \in Seq(Nat)
  PROVE  /\ a \o b \in Seq(Nat) /\ Len(a) \in Nat /\ Len(b) \in Nat
         /\ Len(a \o b) = Len(a) + Len(b)
         /\ \A k \in 1..Len(a) : (a \o b)[k] = a[k]
         /\ \A k \in 1..Len(b) : (a \o b)[Len(a) + k] = b[k]
         /\ \A k \in 1..(Len(a) + Len(b)) : k <= Len(a) \/ \E j \in 1..Len(b) : k = Len(a) + j
  <1>1. Len(a) \in Nat /\ Len(b) \in Nat
    BY LenProperties
  <1>2. /\ a \o b \in Seq(Nat) /\ Len(a \o b) = Len(a) + Len(b)
        /\ \A i \in 1..(Len(a) + Len(b)) : (a \o b)[i] = IF i <= Len(a) THEN a[i] ELSE b[i - Len(a)]
    BY ConcatProperties
  <1>. DEFINE c == a \o b
              m == Len(a)
              n == Len(b)
  <1>. HIDE DEF c, m, n
  <1>3. \A k \in 1..m : c[k] = a[k]
    BY <1>1, <1>2 DEF c, m, n
  <1>4. ASSUME NEW k \in 1..n PROVE c[m + k] = b[k]
    <2>1. m \in Nat /\ n \in Nat /\ m + k \in 1..(m + n) /\ ~(m + k <= m) /\ (m + k) - m = k
      BY <1>1 DEF m, n
    <2>2. \A i \in 1..(m + n) : c[i] = IF i <= m THEN a[i] ELSE b[i - m]
      BY <1>2 DEF c, m, n
    <2>3. c[m + k] = b[(m + k) - m]
      BY <2>1, <2>2
    <2>. QED BY <2>1, <2>3
  <1>5. ASSUME NEW k \in 1..(m + n) PROVE k <= m \/ \E j \in 1..n : k = m + j
    <2>1. CASE k > m
      <3>1. m \in Nat /\ n \in Nat
        BY <1>1 DEF m, n
      <3>2. k - m \in 1..n /\ k = m + (k - m)
        BY <2>1, <3>1
      <3>. QED BY <3>2
    <2>. QED BY <2>1, <1>1 DEF m, n
  <1>. QED BY <1>1, <1>2, <1>3, <1>4, <1>5 DEF c, m, n

(* The items of a part of a sequence. *)
LEMMA Part ==
  ASSUME NEW a \in Seq(Nat), NEW m \in Nat, NEW n \in Nat, m + n <= Len(a)
  PROVE  /\ SubSeq(a, m + 1, m + n) \in Seq(Nat) /\ Len(SubSeq(a, m + 1, m + n)) = n
         /\ \A k \in 1..n : SubSeq(a, m + 1, m + n)[k] = a[m + k]
  <1>1. /\ Len(a) \in Nat
        /\ \A i \in 1..Len(a) : a[i] \in Nat
    BY LenProperties
  <1>2. \A i \in (m + 1)..(m + n) : a[i] \in Nat
    BY <1>1
  <1>3. /\ SubSeq(a, m + 1, m + n) \in Seq(Nat)
        /\ Len(SubSeq(a, m + 1, m + n)) = IF m + 1 <= m + n THEN (m + n) - (m + 1) + 1 ELSE 0
        /\ \A i \in 1..((m + n) - (m + 1) + 1) : SubSeq(a, m + 1, m + n)[i] = a[(m + 1) + i - 1]
    <2>1. m + 1 \in Int /\ m + n \in Int
      OBVIOUS
    <2>. QED BY <1>2, <2>1, SubSeqProperties
  <1>. DEFINE q == SubSeq(a, m + 1, m + n)
  <1>. HIDE DEF q
  <1>4. ASSUME NEW k \in 1..n PROVE q[k] = a[m + k]
    <2>1. k \in 1..((m + n) - (m + 1) + 1) /\ (m + 1) + k - 1 = m + k
      OBVIOUS
    <2>2. q[k] = a[(m + 1) + k - 1]
      BY <2>1, <1>3 DEF q
    <2>. QED BY <2>1, <2>2
  <1>. QED BY <1>3, <1>4 DEF q

(* Bytes taken from the buffer follow the ones taken before. *)
LEMMA OrderRead ==
  ASSUME NEW data \in Seq(Nat), NEW got \in Seq(Nat), NEW wrote \in Nat, NEW rd \in Nat,
         InOrder(data, got, wrote, rd), NEW n \in Nat, rd + n <= Len(data)
  PROVE  LET g == got \o SubSeq(data, rd + 1, rd + n)
         IN  /\ InOrder(data, g, wrote, rd + n)
             /\ rd + n = Len(data) => InOrder(<<>>, g, wrote, 0)
  <1>. DEFINE b == SubSeq(data, rd + 1, rd + n)
              g == got \o b
              m == Len(got)
              l == Len(data)
  <1>1. /\ l \in Nat /\ m \in Nat /\ rd + n <= l /\ m + l = wrote + rd
        /\ \A k \in 1..m : got[k] = k
        /\ \A k \in (rd + 1)..l : data[k] = m + k - rd
    BY LenProperties DEF InOrder
  <1>2. b \in Seq(Nat) /\ Len(b) = n /\ \A k \in 1..n : b[k] = data[rd + k]
    BY Part
  <1>. HIDE DEF b
  <1>3. /\ g \in Seq(Nat) /\ Len(g) = m + n
        /\ \A k \in 1..m : g[k] = got[k]
        /\ \A k \in 1..n : g[m + k] = b[k]
        /\ \A k \in 1..(m + n) : k <= m \/ \E j \in 1..n : k = m + j
    BY <1>2, Joined
  <1>. HIDE DEF g, m, l
  <1>4. ASSUME NEW k \in 1..(m + n) PROVE g[k] = k
    <2>1. CASE k <= m
      <3>1. k \in 1..m
        BY <2>1, <1>1
      <3>. QED BY <3>1, <1>1, <1>3
    <2>2. CASE \E j \in 1..n : k = m + j
      <3>1. PICK j \in 1..n : k = m + j
        BY <2>2
      <3>2. rd + j \in (rd + 1)..l
        BY <1>1
      <3>3. data[rd + j] = m + (rd + j) - rd
        BY <3>2, <1>1
      <3>4. g[m + j] = data[rd + j]
        BY <1>2, <1>3
      <3>. QED BY <3>1, <3>3, <3>4, <1>1
    <2>. QED BY <2>1, <2>2, <1>3
  <1>5. InOrder(data, g, wrote, rd + n)
    <2>1. rd + n \in Nat /\ rd + n <= l /\ (m + n) + l = wrote + (rd + n)
      BY <1>1
    <2>2. ASSUME NEW k \in ((rd + n) + 1)..l PROVE data[k] = (m + n) + k - (rd + n)
      <3>1. k \in (rd + 1)..l
        BY <1>1
      <3>2. data[k] = m + k - rd
        BY <3>1, <1>1
      <3>. QED BY <3>2, <1>1
    <2>. QED BY <2>1, <2>2, <1>3, <1>4 DEF InOrder, l
  <1>6. ASSUME rd + n = l PROVE InOrder(<<>>, g, wrote, 0)
    <2>1. <<>> \in Seq(Nat) /\ Len(<<>>) = 0
      BY EmptySeq
    <2>2. (m + n) + 0 = wrote + 0
      BY <1>1, <1>6
    <2>3. \A k \in (0 + 1)..0 : <<>>[k] = Len(g) + k - 0
      OBVIOUS
    <2>. QED BY <2>1, <2>2, <2>3, <1>3, <1>4 DEF InOrder
  <1>. QED BY <1>5, <1>6 DEF b, g, l

(* Bytes put behind the ones in the buffer, or handed to the reader at once *)
(* when it is empty.                                                        *)
LEMMA OrderWrite ==
  ASSUME NEW data \in Seq(Nat), NEW got \in Seq(Nat), NEW wrote \in Nat, NEW rd \in Nat,
         InOrder(data, got, wrote, rd), NEW n \in Nat
  PROVE  LET bytes == [k \in 1..n |-> wrote + k]
         IN  /\ InOrder(data \o bytes, got, wrote + n, rd)
             /\ data = <<>> => InOrder(data, got \o bytes, wrote + n, rd)
  <1>. DEFINE b == [k \in 1..n |-> wrote + k]
              d == data \o b
              g == got \o b
              m == Len(got)
              l == Len(data)
  <1>1. /\ l \in Nat /\ m \in Nat /\ rd <= l /\ m + l = wrote + rd
        /\ \A k \in 1..m : got[k] = k
        /\ \A k \in (rd + 1)..l : data[k] = m + k - rd
    BY LenProperties DEF InOrder
  <1>2. b \in Seq(Nat) /\ Len(b) = n /\ \A k \in 1..n : b[k] = wrote + k
    OBVIOUS
  <1>. HIDE DEF b
  <1>3. /\ g \in Seq(Nat) /\ Len(g) = m + n
        /\ \A k \in 1..m : g[k] = got[k]
        /\ \A k \in 1..n : g[m + k] = b[k]
        /\ \A k \in 1..(m + n) : k <= m \/ \E j \in 1..n : k = m + j
    BY <1>2, Joined
  <1>4. /\ d \in Seq(Nat) /\ Len(d) = l + n
        /\ \A k \in 1..l : d[k] = data[k]
        /\ \A k \in 1..n : d[l + k] = b[k]
        /\ \A k \in 1..(l + n) : k <= l \/ \E j \in 1..n : k = l + j
    BY <1>2, Joined
  <1>. HIDE DEF d, g, m, l
  <1>5. ASSUME NEW k \in (rd + 1)..(l + n) PROVE d[k] = m + k - rd
    <2>0. k \in 1..(l + n)
      BY <1>1
    <2>1. CASE k <= l
      <3>1. k \in 1..l /\ k \in (rd + 1)..l
        BY <2>1, <1>1
      <3>. QED BY <3>1, <1>1, <1>4
    <2>2. CASE \E j \in 1..n : k = l + j
      <3>1. PICK j \in 1..n : k = l + j
        BY <2>2
      <3>2. d[l + j] = wrote + j
        BY <1>2, <1>4
      <3>. QED BY <3>1, <3>2, <1>1
    <2>. QED BY <2>0, <2>1, <2>2, <1>4
  <1>6. InOrder(d, got, wrote + n, rd)
    <2>1. rd <= l + n /\ m + (l + n) = (wrote + n) + rd /\ wrote + n \in Nat
      BY <1>1
    <2>. QED BY <2>1, <1>1, <1>4, <1>5 DEF InOrder, m
  <1>7. ASSUME data = <<>> PROVE InOrder(data, g, wrote + n, rd)
    <2>1. l = 0
      BY <1>7, EmptySeq DEF l
    <2>2. ASSUME NEW k \in 1..(m + n) PROVE g[k] = k
      <3>1. CASE k <= m
        <4>1. k \in 1..m
          BY <3>1, <1>1
        <4>. QED BY <4>1, <1>1, <1>3
      <3>2. CASE \E j \in 1..n : k = m + j
        <4>1. PICK j \in 1..n : k = m + j
          BY <3>2
        <4>2. g[m + j] = wrote + j
          BY <1>2, <1>3
        <4>3. rd = 0
          BY <1>1, <2>1
        <4>. QED BY <4>1, <4>2, <4>3, <2>1, <1>1
      <3>. QED BY <3>1, <3>2, <1>3
    <2>3. /\ rd <= l /\ (m + n) + l = (wrote + n) + rd /\ wrote + n \in Nat
          /\ \A k \in (rd + 1)..l : data[k] = (m + n) + k - rd
      BY <2>1, <1>1
    <2>. QED BY <2>2, <2>3, <1>3 DEF InOrder, l
  <1>. QED BY <1>6, <1>7 DEF b, d, g

(* Nothing was written, nothing was read. *)
LEMMA EmptyInOrder == InOrder(<<>>, <<>>, 0, 0)
  BY EmptySeq DEF InOrder

(* An error changes no pipe. *)
LEMMA OrderFail ==
  ASSUME NEW st, PipesInOrder(st), NEW e, NEW r
  PROVE  PipesInOrder(Fail(st, e, r))
  BY DEF PipesInOrder, Fields, Fail

(* A result changes no pipe. *)
LEMMA OrderOk ==
  ASSUME NEW st, PipesInOrder(st), NEW r
  PROVE  PipesInOrder(Ok(st, r))
  BY DEF PipesInOrder, Fields, Ok

(* fcb_add changes no pipe. *)
LEMMA OrderFcbAdd ==
  ASSUME NEW st, PipesInOrder(st), NEW p, NEW type
  PROVE  PipesInOrder(fcb_add(st, p, type))
  BY DEF PipesInOrder, Fields, Ok, fcb_add

(* fcb_del changes no pipe. *)
LEMMA OrderFcbDel ==
  ASSUME NEW st, PipesInOrder(st), NEW i
  PROVE  PipesInOrder(fcb_del(st, i))
  BY ShrunkIs DEF PipesInOrder, Fields, fcb_del

(* fcb_free changes no pipe. *)
LEMMA OrderFcbFree ==
  ASSUME NEW st, PipesInOrder(st)
  PROVE  PipesInOrder(fcb_free(st))
  BY ShrunkIs DEF PipesInOrder, Fields, fcb_free

(* fcb_flush changes no pipe. *)
LEMMA OrderFcbFlush ==
  ASSUME NEW st, PipesInOrder(st), NEW i
  PROVE  PipesInOrder(fcb_flush(st, i))
  BY OrderFail DEF fcb_flush

(* taskctx_get changes no pipe. *)
LEMMA OrderGet ==
  ASSUME NEW st, PipesInOrder(st), NEW t
  PROVE  PipesInOrder(taskctx_get(st, t))
  BY SeqIsListed, EmptySeq DEF PipesInOrder, Fields, taskctx_get, NewCtx, NoCtx, NoMsg, CtxOK, CtxFields

(* An answer changes no pipe. *)
LEMMA OrderWake ==
  ASSUME NEW st, PipesInOrder(st), NEW t
  PROVE  PipesInOrder(Wake(st, t))
  BY DEF PipesInOrder, Fields, Wake, NoMsg, CtxOK, CtxFields

(* Descriptors of a task change, and no pipe. *)
LEMMA OrderSetOpen ==
  ASSUME NEW st, PipesInOrder(st), NEW t, NEW open, t \in Pid => Listed(open), NEW n, NEW r
  PROVE  /\ PipesInOrder([st EXCEPT !.ctx[t].open = open])
         /\ PipesInOrder([st EXCEPT !.ctx[t].open = open, !.ctx[t].nfiles = n, !.ret = r])
  BY DEF PipesInOrder, Fields, CtxOK, CtxFields

(* A new descriptor changes no pipe. *)
LEMMA OrderPutFile ==
  ASSUME NEW st, PipesInOrder(st), NEW t, NEW d, NEW of
  PROVE  PipesInOrder(PutFile(st, t, d, of))
  <1>. DEFINE open == IF d > Len(st.ctx[t].open) THEN Append(st.ctx[t].open, of)
                      ELSE [st.ctx[t].open EXCEPT ![d] = of]
  <1>1. ASSUME t \in Pid PROVE Listed(open)
    <2>1. Listed(st.ctx[t].open)
      BY <1>1 DEF PipesInOrder, CtxOK
    <2>. QED BY <2>1, ListedKept
  <1>2. PipesInOrder([st EXCEPT !.ctx[t].open = open, !.ctx[t].nfiles = st.ctx[t].nfiles + 1, !.ret = d])
    <2>. HIDE DEF open
    <2>. QED BY <1>1, OrderSetOpen
  <1>. QED BY <1>2 DEF PutFile

(* The free descriptors at the end of a list can be cut off. *)
LEMMA LastOpen ==
  ASSUME NEW open, Listed(open)
  PROVE  Least({m \in 0..Len(open) : \A e \in (m + 1)..Len(open) : open[e].fid = NOFID}) \in 0..Len(open)
  <1>. DEFINE S == {m \in 0..Len(open) : \A e \in (m + 1)..Len(open) : open[e].fid = NOFID}
  <1>1. Len(open) \in Nat
    BY ListedKept
  <1>2. S \subseteq Nat /\ Len(open) \in S
    BY <1>1
  <1>3. Least(S) \in S
    <2>. HIDE DEF S
    <2>. QED BY <1>2, LeastIs
  <1>. QED BY <1>3

(* A closed descriptor changes no pipe. *)
LEMMA OrderDropFile ==
  ASSUME NEW st, PipesInOrder(st), NEW t, NEW open, t \in Pid => Listed(open), NEW dontfree
  PROVE  PipesInOrder(DropFile(st, t, open, dontfree))
  <1>. DEFINE last == Least({m \in 0..Len(open) : \A e \in (m + 1)..Len(open) : open[e].fid = NOFID})
              left == IF dontfree THEN open ELSE SubSeq(open, 1, last)
  <1>1. ASSUME t \in Pid PROVE Listed(left)
    <2>1. last \in 0..Len(open)
      BY <1>1, LastOpen
    <2>. HIDE DEF last
    <2>. QED BY <1>1, <2>1, ListedKept
  <1>2. PipesInOrder([st EXCEPT !.ctx[t].open = left, !.ctx[t].nfiles = st.ctx[t].nfiles - 1, !.ret = TRUE])
    <2>. HIDE DEF left
    <2>. QED BY <1>1, OrderSetOpen
  <1>. QED BY <1>2 DEF DropFile

(* A new pipe is empty. *)
LEMMA OrderPipeAdd ==
  ASSUME NEW st, PipesInOrder(st), NEW fid
  PROVE  PipesInOrder(pipe_add(st, fid))
  BY EmptyInOrder DEF PipesInOrder, Fields, Ok, pipe_add, PipeOK, PipeFields

(* A pipe that is gone is empty. *)
LEMMA OrderPipeDel ==
  ASSUME NEW st, PipesInOrder(st), NEW i
  PROVE  PipesInOrder(pipe_del(st, i))
  BY EmptyInOrder DEF PipesInOrder, Fields, pipe_del, PipeOK, PipeFields

(* A pipe that is given other contents, in order again. *)
LEMMA OrderSetPipe ==
  ASSUME NEW st, PipesInOrder(st), NEW i, NEW q, NEW delay, i \in 0..MaxPipe => PipeOK(q)
  PROVE  /\ PipesInOrder([st EXCEPT !.pipe[i] = q])
         /\ PipesInOrder([st EXCEPT !.pipe[i] = q, !.delay = delay])
  BY DEF PipesInOrder, Fields

(* A reader is given the next bytes, or holds the pipe until there are some. *)
LEMMA OrderPipeRead ==
  ASSUME NEW st, PipesInOrder(st), NEW i, NEW size \in Nat, NEW pid \in Pid
  PROVE  PipesInOrder(pipe_read(st, i, size, pid))
  <1>. DEFINE p == st.pipe[i]
              n == IF p.rd + size < Len(p.data) THEN size ELSE Len(p.data) - p.rd
              bytes == SubSeq(p.data, p.rd + 1, p.rd + n)
              all == p.rd + n = Len(p.data)
              held == [p EXCEPT !.reader = pid, !.direct = FALSE]
              q == [p EXCEPT !.reader = Nobody, !.direct = FALSE, !.got = @ \o bytes,
                             !.rd = IF all THEN 0 ELSE p.rd + n,
                             !.data = IF all THEN <<>> ELSE @]
  <1>1. ASSUME i \in 0..MaxPipe PROVE PipeOK(held) /\ PipeOK(q)
    <2>1. PipeOK(p)
      BY <1>1 DEF PipesInOrder
    <2>2. PipeOK(held)
      <3>. HIDE DEF p
      <3>. QED BY <2>1 DEF PipeOK, PipeFields
    <2>3. /\ p.data \in Seq(Nat) /\ p.got \in Seq(Nat) /\ p.wrote \in Nat /\ p.rd \in Nat
          /\ InOrder(p.data, p.got, p.wrote, p.rd) /\ p.rd <= Len(p.data)
          /\ DOMAIN p = PipeFields
      BY <2>1 DEF PipeOK, InOrder
    <2>4. n \in Nat /\ p.rd + n <= Len(p.data)
      <3>. DEFINE rd == p.rd
                  l == Len(p.data)
      <3>1. rd \in Nat /\ l \in Nat /\ rd <= l
        BY <2>3, LenProperties
      <3>. HIDE DEF rd, l
      <3>2. (IF rd + size < l THEN size ELSE l - rd) \in Nat
            /\ rd + (IF rd + size < l THEN size ELSE l - rd) <= l
        BY <3>1
      <3>. QED BY <3>2 DEF rd, l
    <2>. HIDE DEF n, p
    <2>5. /\ InOrder(p.data, p.got \o bytes, p.wrote, p.rd + n)
          /\ all => InOrder(<<>>, p.got \o bytes, p.wrote, 0)
      BY <2>3, <2>4, OrderRead
    <2>6. PipeOK(q)
      <3>. HIDE DEF bytes
      <3>1. CASE all
        BY <2>3, <2>5, <3>1 DEF PipeOK, PipeFields
      <3>2. CASE ~all
        BY <2>3, <2>5, <3>2 DEF PipeOK, PipeFields
      <3>. QED BY <3>1, <3>2
    <2>. QED BY <2>2, <2>6
  <1>. HIDE DEF q, held
  <1>2. /\ PipesInOrder(Ok([st EXCEPT !.pipe[i] = held, !.delay = TRUE], 0))
        /\ PipesInOrder(Ok([st EXCEPT !.pipe[i] = q], n))
    <2>. HIDE DEF n
    <2>. QED BY <1>1, OrderSetPipe, OrderOk
  <1>. QED BY <1>2, OrderFail DEF pipe_read, held, q

(* A read of a pipe beyond the table changes none in it. *)
LEMMA OrderAway ==
  ASSUME NEW st, PipesInOrder(st), NEW i, i \notin 0..MaxPipe, NEW size, NEW pid
  PROVE  PipesInOrder(pipe_read(st, i, size, pid))
  BY OrderFail DEF pipe_read, PipesInOrder, Fields, Ok

(* A writer puts its bytes behind those of the others, or hands them to the *)
(* reader that waits at an empty buffer.                                    *)
LEMMA OrderPipeWrite ==
  ASSUME NEW st, PipesInOrder(st), NEW i, NEW size \in Nat
  PROVE  PipesInOrder(pipe_write(st, i, size))
  <1>. DEFINE p == st.pipe[i]
              bytes == [k \in 1..size |-> p.wrote + k]
              back == [p EXCEPT !.direct = FALSE, !.data = @ \o bytes, !.wrote = @ + size]
              given == [p EXCEPT !.direct = TRUE, !.wrote = @ + size, !.got = @ \o bytes]
              stored == [st EXCEPT !.pipe[i] = back]
              handed == [st EXCEPT !.pipe[i] = given]
              m == st.ctx[p.reader].msg.n
              blocked == /\ p.reader # Nobody /\ st.ctx[p.reader] # NoCtx
                         /\ st.ctx[p.reader].msg.fn = "fread"
  <1>1. ASSUME i \in 0..MaxPipe PROVE PipeOK(back) /\ (p.data = <<>> => PipeOK(given))
    <2>1. PipeOK(p)
      BY <1>1 DEF PipesInOrder
    <2>2. /\ p.data \in Seq(Nat) /\ p.got \in Seq(Nat) /\ p.wrote \in Nat /\ p.rd \in Nat
          /\ InOrder(p.data, p.got, p.wrote, p.rd) /\ DOMAIN p = PipeFields
          /\ p.reader \in Pid \union {Nobody}
      BY <2>1 DEF PipeOK, InOrder
    <2>. HIDE DEF p
    <2>3. /\ InOrder(p.data \o bytes, p.got, p.wrote + size, p.rd)
          /\ p.data = <<>> => InOrder(p.data, p.got \o bytes, p.wrote + size, p.rd)
      BY <2>2, OrderWrite
    <2>. HIDE DEF bytes
    <2>. QED BY <2>2, <2>3 DEF PipeOK, PipeFields
  <1>2. PipesInOrder(stored) /\ (p.data = <<>> => PipesInOrder(handed))
    <2>. HIDE DEF back, given
    <2>. QED BY <1>1, OrderSetPipe
  <1>3. ASSUME i \in 0..MaxPipe, blocked PROVE p.reader \in Pid /\ m \in Nat
    BY <1>3 DEF PipesInOrder, PipeOK, CtxOK
  <1>4. ASSUME i \in 0..MaxPipe, blocked PROVE PipesInOrder(pipe_read(stored, i, m, p.reader))
    <2>. HIDE DEF stored, m, p, blocked
    <2>. QED BY <1>2, <1>3, <1>4, OrderPipeRead
  <1>5. ASSUME i \notin 0..MaxPipe PROVE PipesInOrder(pipe_read(stored, i, m, p.reader))
    <2>. HIDE DEF stored, m, p
    <2>. QED BY <1>2, <1>5, OrderAway
  <1>6. PipesInOrder(Fail(st, "EPIPE", FALSE)) /\ PipesInOrder(Ok(stored, TRUE))
    <2>. HIDE DEF stored
    <2>. QED BY <1>2, OrderFail, OrderOk
  <1>7. ASSUME p.data = <<>> PROVE PipesInOrder(Ok(Wake(handed, p.reader), TRUE))
    <2>. HIDE DEF handed, p
    <2>. QED BY <1>2, <1>7, OrderOk, OrderWake
  <1>8. ASSUME blocked
        PROVE PipesInOrder(Ok(Wake(pipe_read(stored, i, m, p.reader), p.reader), TRUE))
    <2>. HIDE DEF stored, p, m, blocked
    <2>. QED BY <1>4, <1>5, <1>8, OrderOk, OrderWake
  <1>. QED
    <2>. HIDE DEF m
    <2>. QED BY <1>6, <1>7, <1>8 DEF pipe_write, m

-----------------------------------------------------------------------------
(* Loops of the code are functions of the number of steps done *)

(* The descriptors of a task are closed one after the other. *)
CloseAllSteps(f, st, t) ==
    /\ f[0] = st /\ CloseAll(st, t) = f[Len(st.ctx[t].open)]
    /\ \A k \in Nat : k < Len(st.ctx[t].open) => f[k + 1] = taskctx_close(f[k], t, k + 1, FALSE)

(* There is such a function. *)
LEMMA CloseAllStepsExists ==
  ASSUME NEW st, NEW t, Len(st.ctx[t].open) \in Nat
  PROVE  \E f : CloseAllSteps(f, st, t)
  <1>. DEFINE m == Len(st.ctx[t].open)
              Next1(a, k) == taskctx_close(a, t, k, FALSE)
              F(g) == [d \in 0..m |-> IF d = 0 THEN st ELSE taskctx_close(g[d - 1], t, d, FALSE)]
              f == CHOOSE g : g = F(g)
              Chain(g, n) == DOMAIN g = 0..n /\ g[0] = st /\ \A k \in 1..n : g[k] = Next1(g[k - 1], k)
              S == {n \in Nat : \E g : Chain(g, n)}
  <1>. HIDE DEF Next1, f
  <1>1. 0 \in S
    <2>1. Chain([k \in 0..0 |-> st], 0)
      OBVIOUS
    <2>. QED BY <2>1
  <1>2. ASSUME NEW n \in Nat, n \in S PROVE n + 1 \in S
    <2>1. PICK g : Chain(g, n)
      BY <1>2
    <2>. DEFINE h == [k \in 0..(n + 1) |-> IF k = n + 1 THEN Next1(g[n], n + 1) ELSE g[k]]
    <2>2. DOMAIN h = 0..(n + 1) /\ h[0] = st
      BY <2>1
    <2>3. ASSUME NEW k \in 1..(n + 1) PROVE h[k] = Next1(h[k - 1], k)
      <3>1. CASE k = n + 1
        <4>1. h[n + 1] = Next1(g[n], n + 1) /\ h[n] = g[n] /\ k - 1 = n
          BY <3>1
        <4>. QED BY <3>1, <4>1
      <3>2. CASE k # n + 1
        <4>1. k \in 1..n /\ h[k] = g[k] /\ h[k - 1] = g[k - 1]
          BY <3>2
        <4>2. g[k] = Next1(g[k - 1], k)
          BY <2>1, <4>1
        <4>. QED BY <4>1, <4>2
      <3>. QED BY <3>1, <3>2
    <2>4. Chain(h, n + 1)
      <3>. HIDE DEF h
      <3>. QED BY <2>2, <2>3
    <2>. HIDE DEF h, Chain
    <2>. QED BY <2>4
  <1>0. m \in Nat
    OBVIOUS
  <1>3. m \in S
    <2>. HIDE DEF S, m
    <2>. QED BY <1>0, <1>1, <1>2, InductionSet
  <1>4. PICK g : Chain(g, m)
    BY <1>3
  <1>5. f = F(f)
    <2>. DEFINE h == [k \in 0..m |-> g[k]]
    <2>1. \A k \in 0..m : h[k] = IF k = 0 THEN st ELSE Next1(h[k - 1], k)
      BY <1>4
    <2>2. F(h) = [k \in 0..m |-> IF k = 0 THEN st ELSE Next1(h[k - 1], k)]
      BY DEF Next1
    <2>3. h = F(h)
      <3>1. h = [k \in 0..m |-> h[k]]
        OBVIOUS
      <3>. HIDE DEF h, F
      <3>. QED BY <2>1, <2>2, <3>1
    <2>. HIDE DEF F, h
    <2>. QED BY <2>3 DEF f
  <1>6. \A k \in 0..m : f[k] = IF k = 0 THEN st ELSE Next1(f[k - 1], k)
    <2>1. F(f) = [k \in 0..m |-> IF k = 0 THEN st ELSE Next1(f[k - 1], k)]
      BY DEF Next1
    <2>. HIDE DEF F
    <2>. QED BY <1>5, <2>1
  <1>7. CloseAll(st, t) = f[m]
    BY DEF CloseAll, f
  <1>8. ASSUME NEW k \in Nat, k < m PROVE f[k + 1] = Next1(f[k], k + 1)
    <2>1. k + 1 \in 0..m /\ k + 1 # 0 /\ (k + 1) - 1 = k
      BY <1>8
    <2>. QED BY <2>1, <1>6
  <1>9. f[0] = st
    BY <1>6
  <1>. QED BY <1>7, <1>8, <1>9 DEF Next1, CloseAllSteps

(* The mounts of a device go one after the other. *)
LetGoSteps(f, st, fd) ==
    /\ f[0] = st /\ LetGo(st, fd) = f[Len(st.mtab)]
    /\ \A k \in Nat : k < Len(st.mtab) => f[k + 1] = Unmounted(f[k], fd, k + 1)

(* There is such a function. *)
LEMMA LetGoStepsExists ==
  ASSUME NEW st, NEW fd, Len(st.mtab) \in Nat
  PROVE  \E f : LetGoSteps(f, st, fd)
  <1>. DEFINE m == Len(st.mtab)
              Next1(a, k) == Unmounted(a, fd, k)
              F(g) == [i \in 0..m |-> IF i = 0 THEN st ELSE Unmounted(g[i - 1], fd, i)]
              f == CHOOSE g : g = F(g)
              Chain(g, n) == DOMAIN g = 0..n /\ g[0] = st /\ \A k \in 1..n : g[k] = Next1(g[k - 1], k)
              S == {n \in Nat : \E g : Chain(g, n)}
  <1>. HIDE DEF Next1, f
  <1>1. 0 \in S
    <2>1. Chain([k \in 0..0 |-> st], 0)
      OBVIOUS
    <2>. QED BY <2>1
  <1>2. ASSUME NEW n \in Nat, n \in S PROVE n + 1 \in S
    <2>1. PICK g : Chain(g, n)
      BY <1>2
    <2>. DEFINE h == [k \in 0..(n + 1) |-> IF k = n + 1 THEN Next1(g[n], n + 1) ELSE g[k]]
    <2>2. DOMAIN h = 0..(n + 1) /\ h[0] = st
      BY <2>1
    <2>3. ASSUME NEW k \in 1..(n + 1) PROVE h[k] = Next1(h[k - 1], k)
      <3>1. CASE k = n + 1
        <4>1. h[n + 1] = Next1(g[n], n + 1) /\ h[n] = g[n] /\ k - 1 = n
          BY <3>1
        <4>. QED BY <3>1, <4>1
      <3>2. CASE k # n + 1
        <4>1. k \in 1..n /\ h[k] = g[k] /\ h[k - 1] = g[k - 1]
          BY <3>2
        <4>2. g[k] = Next1(g[k - 1], k)
          BY <2>1, <4>1
        <4>. QED BY <4>1, <4>2
      <3>. QED BY <3>1, <3>2
    <2>4. Chain(h, n + 1)
      <3>. HIDE DEF h
      <3>. QED BY <2>2, <2>3
    <2>. HIDE DEF h, Chain
    <2>. QED BY <2>4
  <1>0. m \in Nat
    OBVIOUS
  <1>3. m \in S
    <2>. HIDE DEF S, m
    <2>. QED BY <1>0, <1>1, <1>2, InductionSet
  <1>4. PICK g : Chain(g, m)
    BY <1>3
  <1>5. f = F(f)
    <2>. DEFINE h == [k \in 0..m |-> g[k]]
    <2>1. \A k \in 0..m : h[k] = IF k = 0 THEN st ELSE Next1(h[k - 1], k)
      BY <1>4
    <2>2. F(h) = [k \in 0..m |-> IF k = 0 THEN st ELSE Next1(h[k - 1], k)]
      BY DEF Next1
    <2>3. h = F(h)
      <3>1. h = [k \in 0..m |-> h[k]]
        OBVIOUS
      <3>. HIDE DEF h, F
      <3>. QED BY <2>1, <2>2, <3>1
    <2>. HIDE DEF F, h
    <2>. QED BY <2>3 DEF f
  <1>6. \A k \in 0..m : f[k] = IF k = 0 THEN st ELSE Next1(f[k - 1], k)
    <2>1. F(f) = [k \in 0..m |-> IF k = 0 THEN st ELSE Next1(f[k - 1], k)]
      BY DEF Next1
    <2>. HIDE DEF F
    <2>. QED BY <1>5, <2>1
  <1>7. LetGo(st, fd) = f[m]
    BY DEF LetGo, f
  <1>8. ASSUME NEW k \in Nat, k < m PROVE f[k + 1] = Next1(f[k], k + 1)
    <2>1. k + 1 \in 0..m /\ k + 1 # 0 /\ (k + 1) - 1 = k
      BY <1>8
    <2>. QED BY <2>1, <1>6
  <1>9. f[0] = st
    BY <1>6
  <1>. QED BY <1>7, <1>8, <1>9 DEF Next1, LetGoSteps

(* The slots of a device are freed one after the other. *)
EmptyAllSteps(f, st, fd) ==
    /\ f[0] = st /\ EmptyAll(st, fd) = f[st.nfcb]
    /\ \A k \in Nat : k < st.nfcb => f[k + 1] = EmptySlot(f[k], fd, k + 1 - 1)

(* There is such a function. *)
LEMMA EmptyAllStepsExists ==
  ASSUME NEW st, NEW fd, st.nfcb \in Nat
  PROVE  \E f : EmptyAllSteps(f, st, fd)
  <1>. DEFINE m == st.nfcb
              Next1(a, k) == EmptySlot(a, fd, k - 1)
              F(g) == [n \in 0..m |-> IF n = 0 THEN st ELSE EmptySlot(g[n - 1], fd, n - 1)]
              f == CHOOSE g : g = F(g)
              Chain(g, n) == DOMAIN g = 0..n /\ g[0] = st /\ \A k \in 1..n : g[k] = Next1(g[k - 1], k)
              S == {n \in Nat : \E g : Chain(g, n)}
  <1>. HIDE DEF Next1, f
  <1>1. 0 \in S
    <2>1. Chain([k \in 0..0 |-> st], 0)
      OBVIOUS
    <2>. QED BY <2>1
  <1>2. ASSUME NEW n \in Nat, n \in S PROVE n + 1 \in S
    <2>1. PICK g : Chain(g, n)
      BY <1>2
    <2>. DEFINE h == [k \in 0..(n + 1) |-> IF k = n + 1 THEN Next1(g[n], n + 1) ELSE g[k]]
    <2>2. DOMAIN h = 0..(n + 1) /\ h[0] = st
      BY <2>1
    <2>3. ASSUME NEW k \in 1..(n + 1) PROVE h[k] = Next1(h[k - 1], k)
      <3>1. CASE k = n + 1
        <4>1. h[n + 1] = Next1(g[n], n + 1) /\ h[n] = g[n] /\ k - 1 = n
          BY <3>1
        <4>. QED BY <3>1, <4>1
      <3>2. CASE k # n + 1
        <4>1. k \in 1..n /\ h[k] = g[k] /\ h[k - 1] = g[k - 1]
          BY <3>2
        <4>2. g[k] = Next1(g[k - 1], k)
          BY <2>1, <4>1
        <4>. QED BY <4>1, <4>2
      <3>. QED BY <3>1, <3>2
    <2>4. Chain(h, n + 1)
      <3>. HIDE DEF h
      <3>. QED BY <2>2, <2>3
    <2>. HIDE DEF h, Chain
    <2>. QED BY <2>4
  <1>0. m \in Nat
    OBVIOUS
  <1>3. m \in S
    <2>. HIDE DEF S, m
    <2>. QED BY <1>0, <1>1, <1>2, InductionSet
  <1>4. PICK g : Chain(g, m)
    BY <1>3
  <1>5. f = F(f)
    <2>. DEFINE h == [k \in 0..m |-> g[k]]
    <2>1. \A k \in 0..m : h[k] = IF k = 0 THEN st ELSE Next1(h[k - 1], k)
      BY <1>4
    <2>2. F(h) = [k \in 0..m |-> IF k = 0 THEN st ELSE Next1(h[k - 1], k)]
      BY DEF Next1
    <2>3. h = F(h)
      <3>1. h = [k \in 0..m |-> h[k]]
        OBVIOUS
      <3>. HIDE DEF h, F
      <3>. QED BY <2>1, <2>2, <3>1
    <2>. HIDE DEF F, h
    <2>. QED BY <2>3 DEF f
  <1>6. \A k \in 0..m : f[k] = IF k = 0 THEN st ELSE Next1(f[k - 1], k)
    <2>1. F(f) = [k \in 0..m |-> IF k = 0 THEN st ELSE Next1(f[k - 1], k)]
      BY DEF Next1
    <2>. HIDE DEF F
    <2>. QED BY <1>5, <2>1
  <1>7. EmptyAll(st, fd) = f[m]
    BY DEF EmptyAll, f
  <1>8. ASSUME NEW k \in Nat, k < m PROVE f[k + 1] = Next1(f[k], k + 1)
    <2>1. k + 1 \in 0..m /\ k + 1 # 0 /\ (k + 1) - 1 = k
      BY <1>8
    <2>. QED BY <2>1, <1>6
  <1>9. f[0] = st
    BY <1>6
  <1>. QED BY <1>7, <1>8, <1>9 DEF Next1, EmptyAllSteps

(* The devices of a driver go one after the other. *)
DropDevicesSteps(f, st, pid) ==
    /\ f[0] = st /\ DropDevices(st, pid) = f[Len(st.dev)]
    /\ \A k \in Nat : k < Len(st.dev) => f[k + 1] = DropDevice(f[k], pid, k + 1)

(* There is such a function. *)
LEMMA DropDevicesStepsExists ==
  ASSUME NEW st, NEW pid, Len(st.dev) \in Nat
  PROVE  \E f : DropDevicesSteps(f, st, pid)
  <1>. DEFINE m == Len(st.dev)
              Next1(a, k) == DropDevice(a, pid, k)
              F(g) == [i \in 0..m |-> IF i = 0 THEN st ELSE DropDevice(g[i - 1], pid, i)]
              f == CHOOSE g : g = F(g)
              Chain(g, n) == DOMAIN g = 0..n /\ g[0] = st /\ \A k \in 1..n : g[k] = Next1(g[k - 1], k)
              S == {n \in Nat : \E g : Chain(g, n)}
  <1>. HIDE DEF Next1, f
  <1>1. 0 \in S
    <2>1. Chain([k \in 0..0 |-> st], 0)
      OBVIOUS
    <2>. QED BY <2>1
  <1>2. ASSUME NEW n \in Nat, n \in S PROVE n + 1 \in S
    <2>1. PICK g : Chain(g, n)
      BY <1>2
    <2>. DEFINE h == [k \in 0..(n + 1) |-> IF k = n + 1 THEN Next1(g[n], n + 1) ELSE g[k]]
    <2>2. DOMAIN h = 0..(n + 1) /\ h[0] = st
      BY <2>1
    <2>3. ASSUME NEW k \in 1..(n + 1) PROVE h[k] = Next1(h[k - 1], k)
      <3>1. CASE k = n + 1
        <4>1. h[n + 1] = Next1(g[n], n + 1) /\ h[n] = g[n] /\ k - 1 = n
          BY <3>1
        <4>. QED BY <3>1, <4>1
      <3>2. CASE k # n + 1
        <4>1. k \in 1..n /\ h[k] = g[k] /\ h[k - 1] = g[k - 1]
          BY <3>2
        <4>2. g[k] = Next1(g[k - 1], k)
          BY <2>1, <4>1
        <4>. QED BY <4>1, <4>2
      <3>. QED BY <3>1, <3>2
    <2>4. Chain(h, n + 1)
      <3>. HIDE DEF h
      <3>. QED BY <2>2, <2>3
    <2>. HIDE DEF h, Chain
    <2>. QED BY <2>4
  <1>0. m \in Nat
    OBVIOUS
  <1>3. m \in S
    <2>. HIDE DEF S, m
    <2>. QED BY <1>0, <1>1, <1>2, InductionSet
  <1>4. PICK g : Chain(g, m)
    BY <1>3
  <1>5. f = F(f)
    <2>. DEFINE h == [k \in 0..m |-> g[k]]
    <2>1. \A k \in 0..m : h[k] = IF k = 0 THEN st ELSE Next1(h[k - 1], k)
      BY <1>4
    <2>2. F(h) = [k \in 0..m |-> IF k = 0 THEN st ELSE Next1(h[k - 1], k)]
      BY DEF Next1
    <2>3. h = F(h)
      <3>1. h = [k \in 0..m |-> h[k]]
        OBVIOUS
      <3>. HIDE DEF h, F
      <3>. QED BY <2>1, <2>2, <3>1
    <2>. HIDE DEF F, h
    <2>. QED BY <2>3 DEF f
  <1>6. \A k \in 0..m : f[k] = IF k = 0 THEN st ELSE Next1(f[k - 1], k)
    <2>1. F(f) = [k \in 0..m |-> IF k = 0 THEN st ELSE Next1(f[k - 1], k)]
      BY DEF Next1
    <2>. HIDE DEF F
    <2>. QED BY <1>5, <2>1
  <1>7. DropDevices(st, pid) = f[m]
    BY DEF DropDevices, f
  <1>8. ASSUME NEW k \in Nat, k < m PROVE f[k + 1] = Next1(f[k], k + 1)
    <2>1. k + 1 \in 0..m /\ k + 1 # 0 /\ (k + 1) - 1 = k
      BY <1>8
    <2>. QED BY <2>1, <1>6
  <1>9. f[0] = st
    BY <1>6
  <1>. QED BY <1>7, <1>8, <1>9 DEF Next1, DropDevicesSteps

-----------------------------------------------------------------------------
(* Opening and closing *)

(* A terminal, a pipe or a file is opened. *)
LEMMA OrderOpenAs ==
  ASSUME NEW st, PipesInOrder(st), NEW t, NEW fid, NEW mode, NEW f, NEW offs, NEW want
  PROVE  PipesInOrder(OpenAs(st, t, fid, mode, f, offs, want))
  <1>1. \A m : PipesInOrder(OpenTty(st, t, fid, m, offs, want))
    BY OrderPutFile DEF OpenTty
  <1>2. \A i, m : PipesInOrder(OpenPipe(st, t, i, m, offs, want))
    <2>. SUFFICES ASSUME NEW i, NEW m PROVE PipesInOrder(OpenPipe(st, t, i, m, offs, want))
      OBVIOUS
    <2>. DEFINE o == PutFile(st, t, Descriptor(st, t, want),
                             [fid |-> i, mode |-> m, offs |-> offs, obj |-> <<"pipe", st.pipe[i].id>>])
    <2>1. PipesInOrder(o)
      BY OrderPutFile
    <2>. HIDE DEF o
    <2>2. PipesInOrder([o EXCEPT !.pipe[i].nopen = @ + 1])
      BY <2>1 DEF PipesInOrder, Fields, PipeOK, PipeFields
    <2>. QED BY <2>2, OrderFail DEF OpenPipe, o
  <1>3. PipesInOrder(OpenReg(st, t, fid, mode, offs, want))
    BY OrderPutFile DEF OpenReg
  <1>4. \A o, e : PipesInOrder(o) => PipesInOrder(CountOpen(o, fid, e))
    BY DEF CountOpen, PipesInOrder, Fields
  <1>. QED BY <1>1, <1>2, <1>3, <1>4, OrderFail DEF OpenAs

(* taskctx_open changes no byte of a pipe. *)
LEMMA OrderOpen ==
  ASSUME NEW st, PipesInOrder(st), NEW t, NEW fid, NEW m, NEW offs, NEW want
  PROVE  PipesInOrder(taskctx_open(st, t, fid, m, offs, want))
  BY OrderOpenAs DEF taskctx_open

(* taskctx_close changes no pipe that stays open. *)
LEMMA OrderClose ==
  ASSUME NEW st, PipesInOrder(st), NEW t, NEW d, NEW dontfree
  PROVE  PipesInOrder(taskctx_close(st, t, d, dontfree))
  <1>1. PipesInOrder(ClosePipe(st, t, d))
    <2>. DEFINE i == OpenFile(st, t, d).fid
                p == st.pipe[i]
                left == [st EXCEPT !.pipe[i].reader = IF @ = t THEN Nobody ELSE @]
                freed == pipe_del(left, i)
    <2>1. PipesInOrder(left)
      BY DEF PipesInOrder, Fields, PipeOK, PipeFields
    <2>2. PipesInOrder(freed)
      <3>. HIDE DEF left
      <3>. QED BY <2>1, OrderPipeDel
    <2>. HIDE DEF freed
    <2>3. PipesInOrder([freed EXCEPT !.ctx[t].open[d].fid = p.fid])
      <3>. DEFINE of == [freed.ctx[t].open[d] EXCEPT !.fid = p.fid]
                  open == [freed.ctx[t].open EXCEPT ![d] = of]
      <3>1. t \in Pid => Listed(open)
        BY <2>2, ListedKept DEF PipesInOrder, CtxOK
      <3>2. PipesInOrder([freed EXCEPT !.ctx[t].open = open])
        <4>. HIDE DEF open
        <4>. QED BY <2>2, <3>1, OrderSetOpen
      <3>. QED BY <3>2
    <2>. QED BY <2>2, <2>3 DEF ClosePipe, freed
  <1>2. \A a, i, flush : PipesInOrder(a) => PipesInOrder(CloseReg(a, i, flush))
    <2>. SUFFICES ASSUME NEW a, NEW i, NEW flush, PipesInOrder(a) PROVE PipesInOrder(CloseReg(a, i, flush))
      OBVIOUS
    <2>. DEFINE b == IF flush THEN fcb_flush(a, i) ELSE a
    <2>1. PipesInOrder(b)
      BY OrderFcbFlush
    <2>. HIDE DEF b
    <2>2. PipesInOrder([b EXCEPT !.fcb[i].excl = FALSE])
      BY <2>1 DEF PipesInOrder, Fields
    <2>. QED BY <2>2, OrderFcbDel DEF CloseReg, b
  <1>. DEFINE mode == OpenFile(st, t, d).mode
              open == IF "fifo" \in mode THEN ClosePipe(st, t, d) ELSE st
              closed == CloseFile(open, t, d, mode)
              rest == [st.ctx[t].open EXCEPT ![d] = Closed]
  <1>3. PipesInOrder(open)
    BY <1>1
  <1>4. PipesInOrder(closed)
    <2>. HIDE DEF open
    <2>. QED BY <1>2, <1>3 DEF CloseFile
  <1>5. t \in Pid => Listed(rest)
    BY ListedKept DEF PipesInOrder, CtxOK
  <1>6. PipesInOrder(DropFile(closed, t, rest, dontfree))
    <2>. HIDE DEF closed, rest
    <2>. QED BY <1>4, <1>5, OrderDropFile
  <1>. QED BY <1>6, OrderOk DEF taskctx_close

(* All descriptors are closed. *)
LEMMA OrderCloseAll ==
  ASSUME NEW st, PipesInOrder(st), NEW t \in Pid
  PROVE  PipesInOrder(CloseAll(st, t))
  <1>. DEFINE m == Len(st.ctx[t].open)
  <1>1. m \in Nat
    BY ListedKept DEF PipesInOrder, CtxOK
  <1>2. PICK f : CloseAllSteps(f, st, t)
    BY <1>1, CloseAllStepsExists
  <1>. DEFINE T == {k \in Nat : k <= m => PipesInOrder(f[k])}
  <1>3. 0 \in T
    BY <1>2 DEF CloseAllSteps
  <1>4. ASSUME NEW k \in Nat, k \in T PROVE k + 1 \in T
    <2>1. CASE k + 1 <= m
      <3>. HIDE DEF m
      <3>1. k <= m /\ k < m
        BY <1>1, <2>1
      <3>2. PipesInOrder(f[k])
        BY <1>4, <3>1
      <3>3. f[k + 1] = taskctx_close(f[k], t, k + 1, FALSE)
        BY <1>2, <3>1 DEF CloseAllSteps, m
      <3>4. PipesInOrder(f[k + 1])
        BY <3>2, <3>3, OrderClose
      <3>. QED BY <3>4
    <2>. QED BY <2>1
  <1>5. m \in T
    <2>. HIDE DEF T
    <2>. QED BY <1>1, <1>3, <1>4, InductionSet
  <1>. QED BY <1>1, <1>2, <1>5 DEF CloseAllSteps

(* The position of a descriptor changes no pipe. *)
LEMMA OrderSetOffs ==
  ASSUME NEW st, PipesInOrder(st), NEW t, NEW d, NEW n
  PROVE  PipesInOrder([st EXCEPT !.ctx[t].open[d].offs = n])
  <1>. DEFINE open == [st.ctx[t].open EXCEPT ![d] = [st.ctx[t].open[d] EXCEPT !.offs = n]]
  <1>1. t \in Pid => Listed(open)
    BY ListedKept DEF PipesInOrder, CtxOK
  <1>2. PipesInOrder([st EXCEPT !.ctx[t].open = open])
    <2>. HIDE DEF open
    <2>. QED BY <1>1, OrderSetOpen
  <1>. QED BY <1>2

(* taskctx_seek moves a position. *)
LEMMA OrderSeek ==
  ASSUME NEW st, PipesInOrder(st), NEW t, NEW d, NEW offs, NEW whence
  PROVE  PipesInOrder(taskctx_seek(st, t, d, offs, whence))
  BY OrderFail, OrderOk, OrderSetOffs DEF taskctx_seek

(* taskctx_read reads a pipe or none. *)
LEMMA OrderRead1 ==
  ASSUME NEW st, PipesInOrder(st), NEW t \in Pid, NEW d, NEW size \in Nat
  PROVE  PipesInOrder(taskctx_read(st, t, d, size))
  BY OrderFail, OrderOk, OrderPipeRead DEF taskctx_read

(* taskctx_write writes a pipe or none. *)
LEMMA OrderWrite1 ==
  ASSUME NEW st, PipesInOrder(st), NEW t, NEW d, NEW size \in Nat
  PROVE  PipesInOrder(taskctx_write(st, t, d, size))
  <1>1. PipesInOrder([st EXCEPT !.delay = TRUE])
    BY DEF PipesInOrder, Fields
  <1>. QED BY <1>1, OrderFail, OrderOk, OrderPipeWrite DEF taskctx_write

-----------------------------------------------------------------------------
(* Devices and mounts *)

(* A file that is counted, or not any more, is in no pipe. *)
LEMMA OrderSetFcb ==
  ASSUME NEW st, PipesInOrder(st), NEW fcb
  PROVE  PipesInOrder([st EXCEPT !.fcb = fcb])
  BY DEF PipesInOrder, Fields

(* A device is added. *)
LEMMA OrderDevAdd ==
  ASSUME NEW st, PipesInOrder(st), NEW name, NEW task, NEW mode
  PROVE  PipesInOrder(devfs_add(st, name, task, mode))
  <1>. DEFINE a == fcb_add(st, Append(DEV, name), "dev")
              f == a.ret
              b == [a EXCEPT !.fcb[f].nopen = @ + 1, !.fcb[f].mode = mode \intersect Amsk,
                             !.fcb[f].storage = DEVFCB,
                             !.dev = Append(@, [fid |-> f, task |-> task])]
  <1>1. PipesInOrder(a)
    BY OrderFcbAdd
  <1>. HIDE DEF a, f
  <1>2. PipesInOrder(b)
    BY <1>1, ListedKept DEF PipesInOrder, Fields
  <1>3. PipesInOrder([st EXCEPT !.stuck = "fault"])
    BY DEF PipesInOrder, Fields
  <1>. HIDE DEF b
  <1>. QED BY <1>2, <1>3 DEF devfs_add, a, f, b

(* A mount of a device goes. *)
LEMMA OrderUnmounted ==
  ASSUME NEW st, PipesInOrder(st), NEW fd, NEW i \in Nat, i >= 1
  PROVE  PipesInOrder(Unmounted(st, fd, i))
  <1>. DEFINE a == fcb_del(st, st.mtab[i].mp)
  <1>1. PipesInOrder(a) /\ a.mtab = st.mtab
    <2>1. PipesInOrder(a)
      BY OrderFcbDel
    <2>2. a.mtab = st.mtab
      BY DEF fcb_del, PipesInOrder, Fields
    <2>. QED BY <2>1, <2>2
  <1>. HIDE DEF a
  <1>2. ASSUME i <= Len(st.mtab) PROVE PipesInOrder([a EXCEPT !.mtab = RemoveAt(@, i)])
    <2>1. i \in 1..Len(st.mtab)
      BY <1>2, ListedKept DEF PipesInOrder
    <2>2. Listed(RemoveAt(a.mtab, i))
      BY <1>1, <2>1, ListedKept DEF PipesInOrder
    <2>. QED BY <1>1, <2>2 DEF PipesInOrder, Fields
  <1>. QED BY <1>2 DEF Unmounted, a

(* All mounts of a device go. *)
LEMMA OrderLetGo ==
  ASSUME NEW st, PipesInOrder(st), NEW fd
  PROVE  PipesInOrder(LetGo(st, fd))
  <1>. DEFINE m == Len(st.mtab)
  <1>1. m \in Nat
    BY ListedKept DEF PipesInOrder
  <1>2. PICK f : LetGoSteps(f, st, fd)
    BY <1>1, LetGoStepsExists
  <1>. DEFINE T == {k \in Nat : k <= m => PipesInOrder(f[k])}
  <1>3. 0 \in T
    BY <1>2 DEF LetGoSteps
  <1>4. ASSUME NEW k \in Nat, k \in T PROVE k + 1 \in T
    <2>1. CASE k + 1 <= m
      <3>. HIDE DEF m
      <3>1. k <= m /\ k < m
        BY <1>1, <2>1
      <3>2. PipesInOrder(f[k])
        BY <1>4, <3>1
      <3>3. f[k + 1] = Unmounted(f[k], fd, k + 1)
        BY <1>2, <3>1 DEF LetGoSteps, m
      <3>4. PipesInOrder(f[k + 1])
        BY <3>2, <3>3, OrderUnmounted
      <3>. QED BY <3>4
    <2>. QED BY <2>1
  <1>5. m \in T
    <2>. HIDE DEF T
    <2>. QED BY <1>1, <1>3, <1>4, InductionSet
  <1>. QED BY <1>1, <1>2, <1>5 DEF LetGoSteps

(* A slot is emptied. *)
LEMMA OrderEmptied ==
  ASSUME NEW st, PipesInOrder(st), NEW i
  PROVE  PipesInOrder(Emptied(st, i))
  <1>1. PipesInOrder([st EXCEPT !.fcb[i].nopen = 0])
    BY DEF PipesInOrder, Fields
  <1>. QED BY <1>1, OrderFcbDel DEF Emptied

(* A slot of a device is emptied. *)
LEMMA OrderEmptySlot ==
  ASSUME NEW st, PipesInOrder(st), NEW fd, NEW i
  PROVE  PipesInOrder(EmptySlot(st, fd, i))
  BY OrderEmptied DEF EmptySlot

(* All slots of a device are emptied. *)
LEMMA OrderEmptyAll ==
  ASSUME NEW st, PipesInOrder(st), NEW fd
  PROVE  PipesInOrder(EmptyAll(st, fd))
  <1>. DEFINE m == st.nfcb
  <1>1. m \in Nat
    BY DEF PipesInOrder
  <1>2. PICK f : EmptyAllSteps(f, st, fd)
    BY <1>1, EmptyAllStepsExists
  <1>. DEFINE T == {k \in Nat : k <= m => PipesInOrder(f[k])}
  <1>3. 0 \in T
    BY <1>2 DEF EmptyAllSteps
  <1>4. ASSUME NEW k \in Nat, k \in T PROVE k + 1 \in T
    <2>1. CASE k + 1 <= m
      <3>. HIDE DEF m
      <3>1. k <= m /\ k < m
        BY <1>1, <2>1
      <3>2. PipesInOrder(f[k])
        BY <1>4, <3>1
      <3>3. f[k + 1] = EmptySlot(f[k], fd, (k + 1) - 1)
        BY <1>2, <3>1 DEF EmptyAllSteps, m
      <3>4. PipesInOrder(f[k + 1])
        BY <3>2, <3>3, OrderEmptySlot
      <3>. QED BY <3>4
    <2>. QED BY <2>1
  <1>5. m \in T
    <2>. HIDE DEF T
    <2>. QED BY <1>1, <1>3, <1>4, InductionSet
  <1>. QED BY <1>1, <1>2, <1>5 DEF EmptyAllSteps

(* A device is removed. *)
LEMMA OrderDevDel ==
  ASSUME NEW st, PipesInOrder(st), NEW i
  PROVE  PipesInOrder(devfs_del(st, i))
  <1>. DEFINE fd == st.dev[i].fid
              a == Emptied(EmptyAll(LetGo(st, fd), fd), fd)
              dev == [st.dev EXCEPT ![i].fid = NOFID]
              n == Least({k \in 0..Len(dev) : \A e \in (k + 1)..Len(dev) : dev[e].fid = NOFID})
  <1>1. PipesInOrder(a)
    BY OrderLetGo, OrderEmptyAll, OrderEmptied
  <1>2. Listed(dev)
    BY ListedKept DEF PipesInOrder
  <1>. HIDE DEF a, dev
  <1>3. n \in 0..Len(dev)
    BY <1>2, LastOpen
  <1>. HIDE DEF n
  <1>4. Listed(SubSeq(dev, 1, n))
    BY <1>2, <1>3, ListedKept
  <1>5. PipesInOrder([a EXCEPT !.dev = SubSeq(dev, 1, n)])
    BY <1>1, <1>4 DEF PipesInOrder, Fields
  <1>. QED BY <1>5 DEF devfs_del, a, dev, n

(* A device of a driver is removed. *)
LEMMA OrderDropDevice ==
  ASSUME NEW st, PipesInOrder(st), NEW pid, NEW i
  PROVE  PipesInOrder(DropDevice(st, pid, i))
  <1>1. PipesInOrder([st EXCEPT !.stuck = "fault"])
    BY DEF PipesInOrder, Fields
  <1>. QED BY <1>1, OrderDevDel DEF DropDevice

(* All devices of a driver are removed. *)
LEMMA OrderDropDevices ==
  ASSUME NEW st, PipesInOrder(st), NEW pid
  PROVE  PipesInOrder(DropDevices(st, pid))
  <1>. DEFINE m == Len(st.dev)
  <1>1. m \in Nat
    BY ListedKept DEF PipesInOrder
  <1>2. PICK f : DropDevicesSteps(f, st, pid)
    BY <1>1, DropDevicesStepsExists
  <1>. DEFINE T == {k \in Nat : k <= m => PipesInOrder(f[k])}
  <1>3. 0 \in T
    BY <1>2 DEF DropDevicesSteps
  <1>4. ASSUME NEW k \in Nat, k \in T PROVE k + 1 \in T
    <2>1. CASE k + 1 <= m
      <3>. HIDE DEF m
      <3>1. k <= m /\ k < m
        BY <1>1, <2>1
      <3>2. PipesInOrder(f[k])
        BY <1>4, <3>1
      <3>3. f[k + 1] = DropDevice(f[k], pid, k + 1)
        BY <1>2, <3>1 DEF DropDevicesSteps, m
      <3>4. PipesInOrder(f[k + 1])
        BY <3>2, <3>3, OrderDropDevice
      <3>. QED BY <3>4
    <2>. QED BY <2>1
  <1>5. m \in T
    <2>. HIDE DEF T
    <2>. QED BY <1>1, <1>3, <1>4, InductionSet
  <1>. QED BY <1>1, <1>2, <1>5 DEF DropDevicesSteps

(* A file system is mounted. *)
LEMMA OrderMtabAdd ==
  ASSUME NEW st, PipesInOrder(st), NEW devpath, NEW file
  PROVE  PipesInOrder(mtab_add(st, devpath, file))
  <1>. DEFINE fd == fcb_get(st, devpath)
              ff == fcb_get(st, file)
              over == {i \in DOMAIN st.mtab : st.mtab[i].mp = ff}
              ent == [mp |-> ff, st |-> fd]
              a == IF over = {}
                   THEN [st EXCEPT !.mtab = Append(@, ent), !.fcb[ff].nopen = @ + 1]
                   ELSE LET i == Least(over)
                        IN  [st EXCEPT !.mtab[i] = ent, !.fcb[st.mtab[i].st].nopen = @ - 1]
              b == [a EXCEPT !.fcb[ff].mode = IF ff = DEVFCB THEN {"r"} ELSE a.fcb[fd].mode,
                             !.fcb[ff].storage = IF ff = DEVFCB THEN @ ELSE fd]
  <1>. HIDE DEF fd, ff, ent
  <1>1. PipesInOrder(a)
    BY ListedKept DEF PipesInOrder, Fields
  <1>. HIDE DEF a
  <1>2. PipesInOrder(b)
    BY <1>1 DEF PipesInOrder, Fields
  <1>. HIDE DEF b
  <1>3. PipesInOrder([b EXCEPT !.fcb[fd].nopen = @ + 1])
    BY <1>2 DEF PipesInOrder, Fields
  <1>4. PipesInOrder([st EXCEPT !.stuck = "exit"])
    BY DEF PipesInOrder, Fields
  <1>. QED BY <1>3, <1>4, OrderFail, OrderOk DEF mtab_add, a, b, fd, ff, ent

(* A mount is taken back. *)
LEMMA OrderMtabDel ==
  ASSUME NEW st, PipesInOrder(st), NEW path
  PROVE  PipesInOrder(mtab_del(st, path))
  <1>. DEFINE hit == {i \in DOMAIN st.mtab : path \in {st.fcb[st.mtab[i].st].path, st.fcb[st.mtab[i].mp].path}}
  <1>0. Listed(st.mtab) /\ hit \subseteq 1..Len(st.mtab) /\ Len(st.mtab) \in Nat
    BY ListedKept DEF PipesInOrder
  <1>. HIDE DEF hit
  <1>1. ASSUME hit # {} PROVE PipesInOrder([st EXCEPT !.mtab = RemoveAt(@, Least(hit))])
    <2>1. Least(hit) \in 1..Len(st.mtab)
      <3>1. hit \in SUBSET Nat
        BY <1>0
      <3>2. Least(hit) \in hit
        BY <1>1, <3>1, LeastIs
      <3>. QED BY <1>0, <3>2
    <2>2. Listed(RemoveAt(st.mtab, Least(hit)))
      BY <1>0, <2>1, ListedKept
    <2>. QED BY <2>2 DEF PipesInOrder, Fields
  <1>. QED BY <1>1, OrderOk DEF mtab_del, hit

(* lookup finds a slot or takes one. *)
LEMMA OrderLookup ==
  ASSUME NEW st, PipesInOrder(st), NEW t, NEW path, NEW creat
  PROVE  PipesInOrder(lookup(st, t, path, creat))
  <1>1. ASSUME NEW w PROVE PipesInOrder(Entered(st, w))
    <2>. DEFINE l == [st EXCEPT !.err = w.err, !.stuck = IF w.loop THEN "loop" ELSE @]
                fd == st.mtab[MountOf(st, w.path)].st
                a == fcb_add(l, w.path, Tree[w.path].type)
    <2>1. PipesInOrder(l)
      BY DEF PipesInOrder, Fields
    <2>. HIDE DEF l, fd
    <2>2. PipesInOrder(a)
      BY <2>1, OrderFcbAdd
    <2>. HIDE DEF a
    <2>3. PipesInOrder([a EXCEPT !.fcb[a.ret].mode = st.fcb[fd].mode, !.fcb[a.ret].storage = fd])
      BY <2>2 DEF PipesInOrder, Fields
    <2>. QED BY <2>1, <2>3, OrderOk DEF Entered, l, fd, a
  <1>. QED BY <1>1 DEF lookup

-----------------------------------------------------------------------------
(* Handlers *)

(* The fields of a request the proofs need. *)
LEMMA RequestFields ==
  ASSUME NEW r, IsRequest(r)
  PROVE  r.pid \in Pid /\ (r.fn \in {"fread", "fwrite", "evtty"} => r.n \in Nat)
  BY DEF IsRequest

(* SYS_mknod keeps the bytes of every pipe in order. *)
LEMMA Order_SYS_mknod ==
  ASSUME NEW st, PipesInOrder(st), NEW t \in Pid, NEW r, IsRequest(r)
  PROVE  PipesInOrder(SYS_mknod(st, t, r))
  BY OrderFail, OrderOk, OrderDevAdd DEF SYS_mknod

(* SYS_ioctl keeps the bytes of every pipe in order. *)
LEMMA Order_SYS_ioctl ==
  ASSUME NEW st, PipesInOrder(st), NEW t \in Pid, NEW r, IsRequest(r)
  PROVE  PipesInOrder(SYS_ioctl(st, t, r))
  BY OrderFail, OrderOk DEF SYS_ioctl, PipesInOrder, Fields, CtxOK, CtxFields, NoMsg, Fail

(* SYS_mount keeps the bytes of every pipe in order. *)
LEMMA Order_SYS_mount ==
  ASSUME NEW st, PipesInOrder(st), NEW t \in Pid, NEW r, IsRequest(r)
  PROVE  PipesInOrder(SYS_mount(st, t, r))
  BY OrderFail, OrderOk, OrderMtabAdd DEF SYS_mount

(* SYS_umount keeps the bytes of every pipe in order. *)
LEMMA Order_SYS_umount ==
  ASSUME NEW st, PipesInOrder(st), NEW t \in Pid, NEW r, IsRequest(r)
  PROVE  PipesInOrder(SYS_umount(st, t, r))
  BY OrderFcbFree, OrderMtabDel DEF SYS_umount

(* SYS_fsck keeps the bytes of every pipe in order. *)
LEMMA Order_SYS_fsck ==
  ASSUME NEW st, PipesInOrder(st), NEW t \in Pid, NEW r, IsRequest(r)
  PROVE  PipesInOrder(SYS_fsck(st, t, r))
  BY OrderFail, OrderOk, OrderLookup DEF SYS_fsck

(* A file that is not found. *)
LEMMA OrderNotFound ==
  ASSUME NEW st, PipesInOrder(st)
  PROVE  PipesInOrder(NotFound(st))
  BY DEF NotFound, PipesInOrder, Fields

(* The directories of a task change and no pipe. *)
LEMMA OrderDirs ==
  ASSUME NEW st, PipesInOrder(st), NEW t, NEW d, NEW cwd
  PROVE  /\ PipesInOrder([st EXCEPT !.fcb[d].nopen = @ + 1, !.ctx[t].work = d, !.ctx[t].cwd = cwd])
         /\ PipesInOrder([st EXCEPT !.fcb[d].nopen = @ + 1, !.ctx[t].root = d])
  BY DEF PipesInOrder, Fields, CtxOK, CtxFields

(* SYS_chroot keeps the bytes of every pipe in order. *)
LEMMA Order_SYS_chroot ==
  ASSUME NEW st, PipesInOrder(st), NEW t \in Pid, NEW r, IsRequest(r)
  PROVE  PipesInOrder(SYS_chroot(st, t, r))
  BY OrderLookup, OrderNotFound, OrderFail, OrderOk, OrderDirs, OrderFcbDel DEF SYS_chroot, ChrootTo, Chroot, WorkAt, RootAt

(* SYS_chdir keeps the bytes of every pipe in order. *)
LEMMA Order_SYS_chdir ==
  ASSUME NEW st, PipesInOrder(st), NEW t \in Pid, NEW r, IsRequest(r)
  PROVE  PipesInOrder(SYS_chdir(st, t, r))
  <1>1. ASSUME NEW l, NEW a, PipesInOrder(a) PROVE PipesInOrder(Chdir(l, a, t))
    <2>. DEFINE d == IF Inside(a, l.ret, a.ctx[t].root) THEN l.ret ELSE a.ctx[t].root
                c == IF Inside(l, l.ret, l.ctx[t].root) THEN l.ret ELSE l.ctx[t].root
                cwd == l.fcb[c].path
                b == [a EXCEPT !.fcb[d].nopen = @ + 1, !.ctx[t].work = d, !.ctx[t].cwd = cwd]
    <2>. HIDE DEF d, cwd
    <2>1. PipesInOrder(b)
      BY <1>1, OrderDirs
    <2>. HIDE DEF b
    <2>2. PipesInOrder(Ok(b, 0))
      BY <2>1, OrderOk
    <2>. QED BY <2>2 DEF Chdir, b, d, cwd
  <1>. QED BY OrderLookup, OrderNotFound, OrderFail, OrderOk, OrderFcbDel, <1>1 DEF SYS_chdir, ChdirTo

(* SYS_getcwd keeps the bytes of every pipe in order. *)
LEMMA Order_SYS_getcwd ==
  ASSUME NEW st, PipesInOrder(st), NEW t \in Pid, NEW r, IsRequest(r)
  PROVE  PipesInOrder(SYS_getcwd(st, t, r))
  BY OrderFail, OrderOk DEF SYS_getcwd

(* SYS_opendir keeps the bytes of every pipe in order. *)
LEMMA Order_SYS_opendir ==
  ASSUME NEW st, PipesInOrder(st), NEW t \in Pid, NEW r, IsRequest(r)
  PROVE  PipesInOrder(SYS_opendir(st, t, r))
  <1>1. ASSUME NEW o, PipesInOrder(o) PROVE PipesInOrder(AsDir(o, t))
    <2>. DEFINE open == [o.ctx[t].open EXCEPT ![o.ret] = [o.ctx[t].open[o.ret] EXCEPT !.mode = @ \union {"dir"}]]
    <2>1. Listed(open)
      BY <1>1, ListedKept DEF PipesInOrder, CtxOK
    <2>2. PipesInOrder([o EXCEPT !.ctx[t].open = open])
      <3>. HIDE DEF open
      <3>. QED BY <1>1, <2>1, OrderSetOpen
    <2>. QED BY <1>1, <2>2 DEF AsDir
  <1>2. ASSUME NEW l, PipesInOrder(l) PROVE PipesInOrder(OpenDir(l, t, r))
    BY <1>1, <1>2, OrderNotFound, OrderFail, OrderOpen, OrderClose DEF OpenDir
  <1>. QED BY OrderFail, OrderOk, <1>2, OrderLookup DEF SYS_opendir

(* SYS_readdir keeps the bytes of every pipe in order. *)
LEMMA Order_SYS_readdir ==
  ASSUME NEW st, PipesInOrder(st), NEW t \in Pid, NEW r, IsRequest(r)
  PROVE  PipesInOrder(SYS_readdir(st, t, r))
  BY OrderFail, OrderOk, OrderSetOffs DEF SYS_readdir, taskctx_readdir

(* SYS_readlink keeps the bytes of every pipe in order. *)
LEMMA Order_SYS_readlink ==
  ASSUME NEW st, PipesInOrder(st), NEW t \in Pid, NEW r, IsRequest(r)
  PROVE  PipesInOrder(SYS_readlink(st, t, r))
  BY OrderFail, OrderOk, OrderLookup, OrderNotFound DEF SYS_readlink

(* SYS_realpath keeps the bytes of every pipe in order. *)
LEMMA Order_SYS_realpath ==
  ASSUME NEW st, PipesInOrder(st), NEW t \in Pid, NEW r, IsRequest(r)
  PROVE  PipesInOrder(SYS_realpath(st, t, r))
  BY OrderFail, OrderOk, OrderLookup, OrderNotFound DEF SYS_realpath

(* SYS_lstat keeps the bytes of every pipe in order. *)
LEMMA Order_SYS_lstat ==
  ASSUME NEW st, PipesInOrder(st), NEW t \in Pid, NEW r, IsRequest(r)
  PROVE  PipesInOrder(SYS_lstat(st, t, r))
  BY OrderFail, OrderOk, OrderLookup, OrderNotFound DEF SYS_lstat

(* SYS_dstat keeps the bytes of every pipe in order. *)
LEMMA Order_SYS_dstat ==
  ASSUME NEW st, PipesInOrder(st), NEW t \in Pid, NEW r, IsRequest(r)
  PROVE  PipesInOrder(SYS_dstat(st, t, r))
  BY OrderFail, OrderOk DEF SYS_dstat

(* SYS_fstat keeps the bytes of every pipe in order. *)
LEMMA Order_SYS_fstat ==
  ASSUME NEW st, PipesInOrder(st), NEW t \in Pid, NEW r, IsRequest(r)
  PROVE  PipesInOrder(SYS_fstat(st, t, r))
  BY OrderFail, OrderOk DEF SYS_fstat

(* SYS_fclrerr keeps the bytes of every pipe in order. *)
LEMMA Order_SYS_fclrerr ==
  ASSUME NEW st, PipesInOrder(st), NEW t \in Pid, NEW r, IsRequest(r)
  PROVE  PipesInOrder(SYS_fclrerr(st, t, r))
  BY OrderFail, OrderOk DEF SYS_fclrerr

(* SYS_ferror keeps the bytes of every pipe in order. *)
LEMMA Order_SYS_ferror ==
  ASSUME NEW st, PipesInOrder(st), NEW t \in Pid, NEW r, IsRequest(r)
  PROVE  PipesInOrder(SYS_ferror(st, t, r))
  BY OrderFail, OrderOk DEF SYS_ferror

(* SYS_feof keeps the bytes of every pipe in order. *)
LEMMA Order_SYS_feof ==
  ASSUME NEW st, PipesInOrder(st), NEW t \in Pid, NEW r, IsRequest(r)
  PROVE  PipesInOrder(SYS_feof(st, t, r))
  BY OrderFail, OrderOk DEF SYS_feof

(* SYS_ftell keeps the bytes of every pipe in order. *)
LEMMA Order_SYS_ftell ==
  ASSUME NEW st, PipesInOrder(st), NEW t \in Pid, NEW r, IsRequest(r)
  PROVE  PipesInOrder(SYS_ftell(st, t, r))
  BY OrderFail, OrderOk DEF SYS_ftell

(* SYS_mkfifo keeps the bytes of every pipe in order. *)
LEMMA Order_SYS_mkfifo ==
  ASSUME NEW st, PipesInOrder(st), NEW t \in Pid, NEW r, IsRequest(r)
  PROVE  PipesInOrder(SYS_mkfifo(st, t, r))
  <1>1. ASSUME NEW b, PipesInOrder(b), NEW i, NEW n PROVE PipesInOrder([b EXCEPT !.fcb[i].storage = n])
    BY <1>1 DEF PipesInOrder, Fields
  <1>2. \A a, fid : PipesInOrder(a) => PipesInOrder(pipe_add(a, fid))
    BY OrderPipeAdd
  <1>. QED BY <1>1, <1>2, OrderOk, OrderFcbAdd DEF SYS_mkfifo

(* SYS_pipe keeps the bytes of every pipe in order. *)
LEMMA Order_SYS_pipe ==
  ASSUME NEW st, PipesInOrder(st), NEW t \in Pid, NEW r, IsRequest(r)
  PROVE  PipesInOrder(SYS_pipe(st, t, r))
  BY OrderOk, OrderPipeAdd, OrderOpen DEF SYS_pipe

(* SYS_getty keeps the bytes of every pipe in order. *)
LEMMA Order_SYS_getty ==
  ASSUME NEW st, PipesInOrder(st), NEW t \in Pid, NEW r, IsRequest(r)
  PROVE  PipesInOrder(SYS_getty(st, t, r))
  BY OrderOk, OrderPipeAdd, OrderOpen, OrderClose, OrderGet DEF SYS_getty, GettyOn

(* SYS_evtty keeps the bytes of every pipe in order. *)
LEMMA Order_SYS_evtty ==
  ASSUME NEW st, PipesInOrder(st), NEW t \in Pid, NEW r, IsRequest(r), r.fn = "evtty"
  PROVE  PipesInOrder(SYS_evtty(st, t, r))
  <1>1. ASSUME NEW a, PipesInOrder(a) PROVE PipesInOrder([a EXCEPT !.stuck = "fault"])
    BY <1>1 DEF PipesInOrder, Fields
  <1>2. ASSUME NEW a, PipesInOrder(a), NEW i PROVE PipesInOrder(pipe_write(a, i, r.n))
    BY <1>2, OrderPipeWrite, RequestFields
  <1>. QED BY RequestFields, OrderFail, OrderOk, OrderGet, <1>1, <1>2 DEF SYS_evtty

(* SYS_tmpfile keeps the bytes of every pipe in order. *)
LEMMA Order_SYS_tmpfile ==
  ASSUME NEW st, PipesInOrder(st), NEW t \in Pid, NEW r, IsRequest(r)
  PROVE  PipesInOrder(SYS_tmpfile(st, t, r))
  BY OrderLookup, OrderOpen DEF SYS_tmpfile

(* SYS_fopen keeps the bytes of every pipe in order. *)
LEMMA Order_SYS_fopen ==
  ASSUME NEW st, PipesInOrder(st), NEW t \in Pid, NEW r, IsRequest(r)
  PROVE  PipesInOrder(SYS_fopen(st, t, r))
  BY OrderLookup, OrderOpen, OrderClose, OrderNotFound, OrderFail DEF SYS_fopen, OpenFound

(* SYS_fclose keeps the bytes of every pipe in order. *)
LEMMA Order_SYS_fclose ==
  ASSUME NEW st, PipesInOrder(st), NEW t \in Pid, NEW r, IsRequest(r)
  PROVE  PipesInOrder(SYS_fclose(st, t, r))
  BY OrderFail, OrderOk, OrderClose DEF SYS_fclose

(* SYS_fcloseall keeps the bytes of every pipe in order. *)
LEMMA Order_SYS_fcloseall ==
  ASSUME NEW st, PipesInOrder(st), NEW t \in Pid, NEW r, IsRequest(r)
  PROVE  PipesInOrder(SYS_fcloseall(st, t, r))
  BY OrderFail, OrderOk, OrderCloseAll, OrderFcbFree DEF SYS_fcloseall

(* SYS_fseek keeps the bytes of every pipe in order. *)
LEMMA Order_SYS_fseek ==
  ASSUME NEW st, PipesInOrder(st), NEW t \in Pid, NEW r, IsRequest(r)
  PROVE  PipesInOrder(SYS_fseek(st, t, r))
  BY OrderFail, OrderOk, OrderSeek DEF SYS_fseek

(* SYS_rewind keeps the bytes of every pipe in order. *)
LEMMA Order_SYS_rewind ==
  ASSUME NEW st, PipesInOrder(st), NEW t \in Pid, NEW r, IsRequest(r)
  PROVE  PipesInOrder(SYS_rewind(st, t, r))
  BY OrderFail, OrderOk, OrderSetOffs DEF SYS_rewind

(* SYS_dup keeps the bytes of every pipe in order. *)
LEMMA Order_SYS_dup ==
  ASSUME NEW st, PipesInOrder(st), NEW t \in Pid, NEW r, IsRequest(r)
  PROVE  PipesInOrder(SYS_dup(st, t, r))
  BY OrderFail, OrderOk, OrderOpen DEF SYS_dup

(* SYS_dup2 keeps the bytes of every pipe in order. *)
LEMMA Order_SYS_dup2 ==
  ASSUME NEW st, PipesInOrder(st), NEW t \in Pid, NEW r, IsRequest(r)
  PROVE  PipesInOrder(SYS_dup2(st, t, r))
  BY OrderFail, OrderOk, OrderOpen, OrderClose DEF SYS_dup2, Duplicate

(* SYS_fread keeps the bytes of every pipe in order. *)
LEMMA Order_SYS_fread ==
  ASSUME NEW st, PipesInOrder(st), NEW t \in Pid, NEW r, IsRequest(r), r.fn = "fread"
  PROVE  PipesInOrder(SYS_fread(st, t, r))
  BY OrderFail, OrderOk, OrderRead1, RequestFields DEF SYS_fread

(* SYS_fwrite keeps the bytes of every pipe in order. *)
LEMMA Order_SYS_fwrite ==
  ASSUME NEW st, PipesInOrder(st), NEW t \in Pid, NEW r, IsRequest(r), r.fn = "fwrite"
  PROVE  PipesInOrder(SYS_fwrite(st, t, r))
  BY OrderFail, OrderOk, OrderWrite1, RequestFields DEF SYS_fwrite

(* SYS_fflush keeps the bytes of every pipe in order. *)
LEMMA Order_SYS_fflush ==
  ASSUME NEW st, PipesInOrder(st), NEW t \in Pid, NEW r, IsRequest(r)
  PROVE  PipesInOrder(SYS_fflush(st, t, r))
  BY OrderFail, OrderOk, OrderFcbFlush DEF SYS_fflush

-----------------------------------------------------------------------------
(* The loop of the task *)

(* Every request keeps the bytes of every pipe in order. *)
LEMMA OrderHandle ==
  ASSUME NEW st, PipesInOrder(st), NEW t \in Pid, NEW r, IsRequest(r)
  PROVE  PipesInOrder(Handle(st, t, r))
  BY OrderFail,
     Order_SYS_mknod, Order_SYS_ioctl, Order_SYS_mount, Order_SYS_umount, Order_SYS_fsck,
     Order_SYS_chroot, Order_SYS_chdir, Order_SYS_getcwd, Order_SYS_opendir,
     Order_SYS_readdir, Order_SYS_readlink, Order_SYS_realpath, Order_SYS_dstat,
     Order_SYS_fstat, Order_SYS_lstat, Order_SYS_mkfifo, Order_SYS_pipe, Order_SYS_getty,
     Order_SYS_evtty, Order_SYS_tmpfile, Order_SYS_fopen, Order_SYS_fclose,
     Order_SYS_fcloseall, Order_SYS_fseek, Order_SYS_rewind, Order_SYS_ftell,
     Order_SYS_feof, Order_SYS_ferror, Order_SYS_fclrerr, Order_SYS_dup, Order_SYS_dup2,
     Order_SYS_fread, Order_SYS_fwrite, Order_SYS_fflush
  DEF Handle

(* The answer, or the request that is kept, changes no pipe. *)
LEMMA OrderFinish ==
  ASSUME NEW h, PipesInOrder(h), NEW t \in Pid, NEW r, IsRequest(r), NEW low
  PROVE  PipesInOrder(Finish(h, t, r, low))
  <1>1. ASSUME NEW l, PipesInOrder(l) PROVE PipesInOrder(Reply(l, t))
    BY <1>1 DEF Reply, PipesInOrder, Fields, CtxOK, CtxFields, NoMsg
  <1>2. ASSUME NEW l, PipesInOrder(l)
        PROVE PipesInOrder([l EXCEPT !.ctx = IF @[t] = NoCtx THEN @ ELSE [@ EXCEPT ![t].msg = r]])
    BY <1>2, RequestFields DEF PipesInOrder, Fields, CtxOK, CtxFields
  <1>3. PipesInOrder([fcb_free(h) EXCEPT !.nomem = TRUE])
    <2>1. PipesInOrder(fcb_free(h))
      BY OrderFcbFree
    <2>. QED BY <2>1 DEF PipesInOrder, Fields
  <1>. QED BY <1>1, <1>2, <1>3 DEF Finish

(* What is set between two messages is no pipe. *)
LEMMA OrderTaken ==
  ASSUME NEW st, PipesInOrder(st)
  PROVE  PipesInOrder(Taken(st)) /\ PipesInOrder(Settled(st))
  BY DEF Taken, Settled, PipesInOrder, Fields

(* A message keeps the bytes of every pipe in order. *)
LEMMA OrderServe ==
  ASSUME NEW st, PipesInOrder(st), NEW t \in Pid, NEW r, IsRequest(r), NEW low
  PROVE  PipesInOrder(Serve(st, t, r, low))
  BY OrderTaken, OrderGet, OrderHandle, OrderFinish DEF Serve

(* There are no pipes at the start. *)
LEMMA OrderStart == PipesInOrder(Start)
  <1>1. DOMAIN Start = Fields /\ Start.nfcb \in Nat
    BY DEF Start, Fields
  <1>2. DOMAIN Start.ctx = Pid /\ \A t \in Pid : CtxOK(Start.ctx[t])
    BY EmptySeq, SeqIsListed DEF Start, NoCtx, NewCtx, CtxOK, CtxFields, NoMsg
  <1>3. DOMAIN Start.pipe = 0..MaxPipe /\ \A i \in 0..MaxPipe : PipeOK(Start.pipe[i])
    BY EmptyInOrder DEF Start, EmptyPipe, PipeOK, PipeFields
  <1>4. Listed(Start.dev) /\ Listed(Start.mtab)
    <2>1. Start.dev \in Seq([fid : Int, task : {MEMFS}])
      BY DEF Start
    <2>2. Start.mtab \in Seq([mp : Int, st : Int])
      BY DEF Start, ROOTFCB, RAMDISK, DEVFCB
    <2>. QED BY <2>1, <2>2, SeqIsListed
  <1>. QED BY <1>1, <1>2, <1>3, <1>4 DEF PipesInOrder

(* The requests handled before the first state are handled one after the other. *)
BootedSteps(f) ==
    /\ f[0] = Start /\ Booted = f[Len(load.boot)]
    /\ \A k \in Nat : k < Len(load.boot) => f[k + 1] = Boot(f[k], load.boot[k + 1])

(* There is such a function. *)
LEMMA BootedStepsExists ==
  ASSUME Len(load.boot) \in Nat
  PROVE  \E f : BootedSteps(f)
  <1>. DEFINE m == Len(load.boot)
              Next1(a, k) == Boot(a, load.boot[k])
              F(g) == [k \in 0..m |-> IF k = 0 THEN Start ELSE Boot(g[k - 1], load.boot[k])]
              f == CHOOSE g : g = F(g)
              Chain(g, n) == DOMAIN g = 0..n /\ g[0] = Start /\ \A k \in 1..n : g[k] = Next1(g[k - 1], k)
              S == {n \in Nat : \E g : Chain(g, n)}
  <1>. HIDE DEF Next1, f
  <1>1. 0 \in S
    <2>1. Chain([k \in 0..0 |-> Start], 0)
      OBVIOUS
    <2>. QED BY <2>1
  <1>2. ASSUME NEW n \in Nat, n \in S PROVE n + 1 \in S
    <2>1. PICK g : Chain(g, n)
      BY <1>2
    <2>. DEFINE h == [k \in 0..(n + 1) |-> IF k = n + 1 THEN Next1(g[n], n + 1) ELSE g[k]]
    <2>2. DOMAIN h = 0..(n + 1) /\ h[0] = Start
      BY <2>1
    <2>3. ASSUME NEW k \in 1..(n + 1) PROVE h[k] = Next1(h[k - 1], k)
      <3>1. CASE k = n + 1
        <4>1. h[n + 1] = Next1(g[n], n + 1) /\ h[n] = g[n] /\ k - 1 = n
          BY <3>1
        <4>. QED BY <3>1, <4>1
      <3>2. CASE k # n + 1
        <4>1. k \in 1..n /\ h[k] = g[k] /\ h[k - 1] = g[k - 1]
          BY <3>2
        <4>2. g[k] = Next1(g[k - 1], k)
          BY <2>1, <4>1
        <4>. QED BY <4>1, <4>2
      <3>. QED BY <3>1, <3>2
    <2>4. Chain(h, n + 1)
      <3>. HIDE DEF h
      <3>. QED BY <2>2, <2>3
    <2>. HIDE DEF h, Chain
    <2>. QED BY <2>4
  <1>0. m \in Nat
    OBVIOUS
  <1>3. m \in S
    <2>. HIDE DEF S, m
    <2>. QED BY <1>0, <1>1, <1>2, InductionSet
  <1>4. PICK g : Chain(g, m)
    BY <1>3
  <1>5. f = F(f)
    <2>. DEFINE h == [k \in 0..m |-> g[k]]
    <2>1. \A k \in 0..m : h[k] = IF k = 0 THEN Start ELSE Next1(h[k - 1], k)
      BY <1>4
    <2>2. F(h) = [k \in 0..m |-> IF k = 0 THEN Start ELSE Next1(h[k - 1], k)]
      BY DEF Next1
    <2>3. h = F(h)
      <3>1. h = [k \in 0..m |-> h[k]]
        OBVIOUS
      <3>. HIDE DEF h, F
      <3>. QED BY <2>1, <2>2, <3>1
    <2>. HIDE DEF F, h
    <2>. QED BY <2>3 DEF f
  <1>6. \A k \in 0..m : f[k] = IF k = 0 THEN Start ELSE Next1(f[k - 1], k)
    <2>1. F(f) = [k \in 0..m |-> IF k = 0 THEN Start ELSE Next1(f[k - 1], k)]
      BY DEF Next1
    <2>. HIDE DEF F
    <2>. QED BY <1>5, <2>1
  <1>7. Booted = f[m]
    BY DEF Booted, f
  <1>8. ASSUME NEW k \in Nat, k < m PROVE f[k + 1] = Next1(f[k], k + 1)
    <2>1. k + 1 \in 0..m /\ k + 1 # 0 /\ (k + 1) - 1 = k
      BY <1>8
    <2>. QED BY <2>1, <1>6
  <1>9. f[0] = Start
    BY <1>6
  <1>. QED BY <1>7, <1>8, <1>9 DEF Next1, BootedSteps

(* Requests before the first state keep the bytes of every pipe in order. *)
LEMMA OrderBoot ==
  ASSUME NEW st, PipesInOrder(st), NEW b, b.t \in Pid, IsRequest(b.r)
  PROVE  PipesInOrder(Boot(st, b))
  BY OrderServe, OrderTaken DEF Boot, Admitted

(* So they are in the first state. *)
LEMMA OrderBooted ==
  ASSUME load \in Loads
  PROVE  PipesInOrder(Booted)
  <1>. DEFINE m == Len(load.boot)
  <1>1. m \in Nat
    BY LoadsAssumption
  <1>2. PICK f : BootedSteps(f)
    BY <1>1, BootedStepsExists
  <1>. DEFINE T == {k \in Nat : k <= m => PipesInOrder(f[k])}
  <1>3. 0 \in T
    BY <1>2, OrderStart DEF BootedSteps
  <1>4. ASSUME NEW k \in Nat, k \in T PROVE k + 1 \in T
    <2>1. CASE k + 1 <= m
      <3>. HIDE DEF m
      <3>1. k <= m /\ k < m
        BY <1>1, <2>1
      <3>2. PipesInOrder(f[k])
        BY <1>4, <3>1
      <3>3. f[k + 1] = Boot(f[k], load.boot[k + 1])
        BY <1>2, <3>1 DEF BootedSteps, m
      <3>4. load.boot[k + 1].t \in Pid /\ IsRequest(load.boot[k + 1].r)
        <4>1. k + 1 \in 1..Len(load.boot)
          BY <1>1, <2>1 DEF m
        <4>. QED BY <4>1, LoadsAssumption
      <3>5. PipesInOrder(f[k + 1])
        BY <3>2, <3>3, <3>4, OrderBoot
      <3>. QED BY <3>5
    <2>. QED BY <2>1
  <1>5. m \in T
    <2>. HIDE DEF T
    <2>. QED BY <1>1, <1>3, <1>4, InductionSet
  <1>. QED BY <1>1, <1>2, <1>5 DEF BootedSteps

(* Bytes in order, written out: what was handed out, then what is left, is  *)
(* what was written.                                                        *)
LEMMA OrderIsWhole ==
  ASSUME NEW data \in Seq(Nat), NEW got \in Seq(Nat), NEW wrote \in Nat, NEW rd \in Nat,
         InOrder(data, got, wrote, rd)
  PROVE  got \o SubSeq(data, rd + 1, Len(data)) = [k \in 1..wrote |-> k]
  <1>. DEFINE m == Len(got)
              l == Len(data)
              n == l - rd
              b == SubSeq(data, rd + 1, rd + n)
              g == got \o b
              all == [k \in 1..wrote |-> k]
  <1>1. /\ l \in Nat /\ m \in Nat /\ rd <= l /\ m + l = wrote + rd
        /\ \A k \in 1..m : got[k] = k
        /\ \A k \in (rd + 1)..l : data[k] = m + k - rd
    BY LenProperties DEF InOrder
  <1>. HIDE DEF m, l
  <1>2. n \in Nat /\ rd + n = l /\ m + n = wrote
    BY <1>1
  <1>. HIDE DEF n
  <1>3. b \in Seq(Nat) /\ Len(b) = n /\ \A k \in 1..n : b[k] = data[rd + k]
    BY <1>1, <1>2, Part DEF l
  <1>. HIDE DEF b
  <1>4. /\ g \in Seq(Nat) /\ Len(g) = m + n
        /\ \A k \in 1..m : g[k] = got[k]
        /\ \A k \in 1..n : g[m + k] = b[k]
        /\ \A k \in 1..(m + n) : k <= m \/ \E j \in 1..n : k = m + j
    BY <1>3, Joined DEF m
  <1>. HIDE DEF g
  <1>5. ASSUME NEW k \in 1..(m + n) PROVE g[k] = k
    <2>1. CASE k <= m
      <3>1. k \in 1..m
        BY <2>1, <1>1
      <3>. QED BY <3>1, <1>1, <1>4
    <2>2. CASE \E j \in 1..n : k = m + j
      <3>1. PICK j \in 1..n : k = m + j
        BY <2>2
      <3>2. rd + j \in (rd + 1)..l
        BY <1>1, <1>2
      <3>3. data[rd + j] = m + (rd + j) - rd
        BY <3>2, <1>1
      <3>4. g[m + j] = data[rd + j]
        BY <1>3, <1>4
      <3>. QED BY <3>1, <3>3, <3>4, <1>1
    <2>. QED BY <2>1, <2>2, <1>4
  <1>6. all \in Seq(Nat) /\ Len(all) = wrote
    OBVIOUS
  <1>7. \A k \in 1..wrote : all[k] = k
    OBVIOUS
  <1>. HIDE DEF all
  <1>8. g = all
    BY <1>2, <1>4, <1>5, <1>6, <1>7, SeqEqual
  <1>. QED BY <1>2, <1>8 DEF g, b, all, l

(* The invariant: the requests are those of a load, and every pipe of the   *)
(* tables, those that are not open included, holds its bytes in order.      *)
OrderInv == load \in Loads /\ PipesInOrder(s)

(* It holds in the first state. *)
LEMMA OrderInit == Init => OrderInv
  BY OrderBooted DEF Init, OrderInv

(* Every step keeps it. *)
LEMMA OrderNext == OrderInv /\ [Next]_vars => OrderInv'
  <1>. SUFFICES ASSUME load \in Loads, PipesInOrder(s), [Next]_vars
                PROVE load' \in Loads /\ PipesInOrder(s')
    BY DEF OrderInv, PipesInOrder, PipeOK, InOrder, CtxOK, Listed
  <1>1. ASSUME NEW t \in Pid, NEW r \in load.reqs[t], Request(t, r)
        PROVE load' \in Loads /\ PipesInOrder(s')
    <2>1. IsRequest(r)
      BY LoadsAssumption
    <2>2. PICK h \in Outcomes(t, r) : Take(t, h)
      BY <1>1 DEF Request
    <2>3. PipesInOrder(h)
      BY <2>1, <2>2, OrderServe DEF Outcomes
    <2>. QED BY <2>2, <2>3, OrderTaken DEF Take
  <1>2. ASSUME NEW t \in Pid, EVT_exit(t)
        PROVE load' \in Loads /\ PipesInOrder(s')
    <2>. DEFINE a == CloseAll(taskctx_get(Taken(s), t), t)
    <2>1. PipesInOrder(a)
      BY OrderTaken, OrderGet, OrderCloseAll
    <2>2. PipesInOrder(Settled(fcb_free(DropDevices(a, t))))
      <3>. HIDE DEF a
      <3>. QED BY <2>1, OrderDropDevices, OrderFcbFree, OrderTaken
    <2>. QED BY <1>2, <2>2 DEF EVT_exit
  <1>3. ASSUME SYS_nomem PROVE load' \in Loads /\ PipesInOrder(s')
    <2>1. PipesInOrder(fcb_free(Taken(s)))
      BY OrderTaken, OrderFcbFree
    <2>2. PipesInOrder([fcb_free(Taken(s)) EXCEPT !.nomem = TRUE])
      BY <2>1 DEF PipesInOrder, Fields
    <2>. QED BY <1>3, <2>2, OrderTaken DEF SYS_nomem
  <1>4. ASSUME NEW t \in Pid, DriverAck(t) \/ ScreenAck(t)
        PROVE load' \in Loads /\ PipesInOrder(s')
    BY <1>4 DEF DriverAck, ScreenAck
  <1>5. CASE UNCHANGED vars
    BY <1>5 DEF vars
  <1>. QED BY <1>1, <1>2, <1>3, <1>4, <1>5 DEF Next

(* What the invariant says of the pipes that are open. *)
LEMMA OrderInvPipes == OrderInv => PipeInOrder
  <1>. SUFFICES ASSUME OrderInv, NEW i \in DOMAIN s.pipe
                PROVE  LET p == s.pipe[i]
                       IN  p.got \o SubSeq(p.data, p.rd + 1, Len(p.data)) = [k \in 1..p.wrote |-> k]
    BY DEF PipeInOrder
  <1>. DEFINE p == s.pipe[i]
  <1>1. PipeOK(p)
    BY DEF OrderInv, PipesInOrder
  <1>. HIDE DEF p
  <1>2. /\ p.data \in Seq(Nat) /\ p.got \in Seq(Nat) /\ p.wrote \in Nat /\ p.rd \in Nat
        /\ InOrder(p.data, p.got, p.wrote, p.rd)
    BY <1>1 DEF PipeOK, InOrder
  <1>3. p.got \o SubSeq(p.data, p.rd + 1, Len(p.data)) = [k \in 1..p.wrote |-> k]
    BY <1>2, OrderIsWhole
  <1>. QED BY <1>3 DEF p

(* Readers of a pipe get the bytes that were written into it, in order, none *)
(* twice and none left out, whatever the tasks ask for, in whatever order,   *)
(* and whether they are woken by pipe_write or come back later.              *)
THEOREM PipesKeepOrder == Spec => []PipeInOrder
  <1>1. Init => OrderInv
    BY OrderInit
  <1>2. OrderInv /\ [Next]_vars => OrderInv'
    BY OrderNext
  <1>3. OrderInv => PipeInOrder
    BY OrderInvPipes
  <1>. QED BY <1>1, <1>2, <1>3, PTL DEF Spec

-----------------------------------------------------------------------------
(* Counting *)

(* The holders of i, and a count that covers them. *)
Users(A, i) == {x \in DOMAIN A : A[x] = i}
Counted(n, A, I) ==
    \A i \in I : n[i] \in Nat /\ IsFiniteSet(Users(A, i)) /\ Cardinality(Users(A, i)) <= n[i]

(* B has the holders of A outside X, as they are or without what they held. *)
Fewer(A, B, X) ==
    DOMAIN B = DOMAIN A /\ \A x \in DOMAIN A : x \in X \/ B[x] = A[x] \/ B[x] = NOFID

(* Holders let go, and counts grow. *)
LEMMA CountKept ==
  ASSUME NEW n, NEW m, NEW A, NEW B, NEW I \in SUBSET Nat, Counted(n, A, I), Fewer(A, B, {}),
         \A i \in I : m[i] \in Nat /\ n[i] <= m[i]
  PROVE  Counted(m, B, I)
  <1>. SUFFICES ASSUME NEW i \in I
                PROVE  m[i] \in Nat /\ IsFiniteSet(Users(B, i)) /\ Cardinality(Users(B, i)) <= m[i]
    BY DEF Counted
  <1>1. n[i] \in Nat /\ IsFiniteSet(Users(A, i)) /\ Cardinality(Users(A, i)) <= n[i]
    BY DEF Counted
  <1>2. Users(B, i) \subseteq Users(A, i)
    BY DEF Users, Fewer, NOFID
  <1>3. IsFiniteSet(Users(B, i)) /\ Cardinality(Users(B, i)) <= Cardinality(Users(A, i))
    BY <1>1, <1>2, FS_Subset
  <1>4. Cardinality(Users(A, i)) \in Nat /\ Cardinality(Users(B, i)) \in Nat
    BY <1>1, <1>3, FS_CardinalityType
  <1>. QED BY <1>1, <1>3, <1>4

(* One more holds k. *)
LEMMA CountTaken ==
  ASSUME NEW n, NEW m, NEW A, NEW B, NEW I \in SUBSET Nat, Counted(n, A, I),
         NEW x \in DOMAIN A, Fewer(A, B, {x}), NEW k \in I, B[x] = k,
         \A i \in I : m[i] \in Nat /\ n[i] <= m[i], n[k] + 1 <= m[k]
  PROVE  Counted(m, B, I)
  <1>. SUFFICES ASSUME NEW i \in I
                PROVE  m[i] \in Nat /\ IsFiniteSet(Users(B, i)) /\ Cardinality(Users(B, i)) <= m[i]
    BY DEF Counted
  <1>1. n[i] \in Nat /\ IsFiniteSet(Users(A, i)) /\ Cardinality(Users(A, i)) <= n[i]
    BY DEF Counted
  <1>. DEFINE U == Users(A, i)
              V == U \union {x}
  <1>2. IsFiniteSet(V) /\ Cardinality(V) <= Cardinality(U) + 1 /\ Cardinality(U) \in Nat
    <2>1. Cardinality(U) \in Nat
      BY <1>1, FS_CardinalityType
    <2>2. IsFiniteSet(V) /\ Cardinality(V) = IF x \in U THEN Cardinality(U) ELSE Cardinality(U) + 1
      <3>. HIDE DEF U
      <3>. QED BY <1>1, FS_AddElement DEF U
    <2>. HIDE DEF U, V
    <2>. QED BY <2>1, <2>2
  <1>3. Users(B, i) \subseteq V /\ (i # k => Users(B, i) \subseteq U)
    BY DEF Users, Fewer, NOFID
  <1>. HIDE DEF V
  <1>4. /\ IsFiniteSet(Users(B, i)) /\ Cardinality(Users(B, i)) <= Cardinality(V)
        /\ i # k => Cardinality(Users(B, i)) <= Cardinality(U)
    BY <1>1, <1>2, <1>3, FS_Subset
  <1>5. Cardinality(V) \in Nat /\ Cardinality(Users(B, i)) \in Nat
    BY <1>2, <1>4, FS_CardinalityType
  <1>. HIDE DEF U
  <1>. DEFINE b == Cardinality(Users(B, i))
              u == Cardinality(U)
              v == Cardinality(V)
  <1>6. /\ b \in Nat /\ u \in Nat /\ v \in Nat /\ n[i] \in Nat /\ m[i] \in Nat /\ n[i] <= m[i]
        /\ b <= v /\ v <= u + 1 /\ u <= n[i] /\ (i # k => b <= u) /\ (i = k => n[i] + 1 <= m[i])
    BY <1>1, <1>2, <1>4, <1>5 DEF U
  <1>. HIDE DEF b, u, v
  <1>7. b <= m[i]
    BY <1>6
  <1>. QED BY <1>4, <1>6, <1>7 DEF b

(* What is held is counted at least once, and twice when it is held twice. *)
LEMMA CountHeld ==
  ASSUME NEW n, NEW A, NEW I \in SUBSET Nat, Counted(n, A, I), NEW x \in DOMAIN A, A[x] \in I
  PROVE  /\ n[A[x]] \in Nat /\ n[A[x]] >= 1
         /\ \A y \in DOMAIN A : y # x /\ A[y] = A[x] => n[A[x]] >= 2
  <1>. DEFINE i == A[x]
              U == Users(A, i)
  <1>1. n[i] \in Nat /\ IsFiniteSet(U) /\ Cardinality(U) <= n[i] /\ Cardinality(U) \in Nat
    BY FS_CardinalityType DEF Counted
  <1>2. x \in U /\ \A y \in DOMAIN A : A[y] = i => y \in U
    BY DEF Users
  <1>. HIDE DEF U, i
  <1>3. IsFiniteSet(U \ {x}) /\ Cardinality(U \ {x}) = Cardinality(U) - 1 /\ Cardinality(U \ {x}) \in Nat
    BY <1>1, <1>2, FS_RemoveElement, FS_CardinalityType
  <1>4. n[i] >= 1
    BY <1>1, <1>3
  <1>5. ASSUME NEW y \in DOMAIN A, y # x, A[y] = i PROVE n[i] >= 2
    <2>1. y \in U \ {x}
      BY <1>2, <1>5
    <2>2. Cardinality(U \ {x}) # 0
      BY <2>1, <1>3, FS_EmptySet
    <2>. QED BY <1>1, <1>3, <2>2
  <1>. QED BY <1>1, <1>4, <1>5 DEF i

(* One of the holders of k lets go. *)
LEMMA CountDropped ==
  ASSUME NEW n, NEW m, NEW A, NEW B, NEW I \in SUBSET Nat, Counted(n, A, I),
         NEW x \in DOMAIN A, Fewer(A, B, {x}), A[x] \in I, B[x] = NOFID,
         \A i \in I : m[i] \in Nat /\ (i # A[x] => n[i] <= m[i]), n[A[x]] - 1 <= m[A[x]]
  PROVE  Counted(m, B, I)
  <1>. SUFFICES ASSUME NEW i \in I
                PROVE  m[i] \in Nat /\ IsFiniteSet(Users(B, i)) /\ Cardinality(Users(B, i)) <= m[i]
    BY DEF Counted
  <1>. DEFINE U == Users(A, i)
              V == U \ {x}
  <1>1. n[i] \in Nat /\ IsFiniteSet(U) /\ Cardinality(U) <= n[i] /\ Cardinality(U) \in Nat
    BY FS_CardinalityType DEF Counted
  <1>2. IsFiniteSet(V) /\ Cardinality(V) = IF x \in U THEN Cardinality(U) - 1 ELSE Cardinality(U)
    BY <1>1, FS_RemoveElement
  <1>3. Users(B, i) \subseteq V /\ (i = A[x] <=> x \in U)
    BY DEF Users, Fewer, NOFID
  <1>. HIDE DEF V
  <1>4. IsFiniteSet(Users(B, i)) /\ Cardinality(Users(B, i)) <= Cardinality(V)
    BY <1>2, <1>3, FS_Subset
  <1>5. Cardinality(V) \in Nat /\ Cardinality(Users(B, i)) \in Nat
    BY <1>2, <1>4, FS_CardinalityType
  <1>. HIDE DEF U
  <1>. DEFINE b == Cardinality(Users(B, i))
              u == Cardinality(U)
              v == Cardinality(V)
  <1>6. /\ b \in Nat /\ u \in Nat /\ v \in Nat /\ n[i] \in Nat /\ m[i] \in Nat
        /\ b <= v /\ u <= n[i] /\ (i = A[x] => v = u - 1 /\ n[i] - 1 <= m[i])
        /\ (i # A[x] => v = u /\ n[i] <= m[i])
    BY <1>1, <1>2, <1>3, <1>4, <1>5
  <1>. HIDE DEF b, u, v
  <1>7. b <= m[i]
    BY <1>6
  <1>. QED BY <1>4, <1>6, <1>7 DEF b
-----------------------------------------------------------------------------
(* Slots of fcb *)

Index == 0..MaxFcb
FcbFields == {"path", "nopen", "type", "excl", "mode", "storage"}

(* The root directory is mounted; nothing takes its slot away. *)
Top == <<"mp", ROOTFCB, 0>>

(* A says which slot each tag holds, P which path it relies on.  A slot is  *)
(* counted at least as often as it is held; while it is held for its path   *)
(* it has that path.  m bounds the length n of the table f.                 *)
Slots(f, n, A, P, m) ==
    /\ n \in Nat /\ m \in Nat /\ n <= m /\ m <= MaxFcb + 1
    /\ DOMAIN f = Index /\ \A i \in Index : DOMAIN f[i] = FcbFields
    /\ Counted([i \in Index |-> f[i].nopen], A, Index)
    /\ \A x \in DOMAIN A : A[x] \in Index \union {NOFID}
    /\ \A x \in DOMAIN A : P[x] # Free /\ A[x] # NOFID => A[x] < n /\ f[A[x]].path = P[x]
    /\ f[ROOTFCB].type = "dir"
    /\ Top \in DOMAIN A /\ A[Top] = ROOTFCB /\ P[Top] = <<>>

(* Holders outside X rely on no other path than before. *)
Relies(A, P, B, Q, X) ==
    \A x \in DOMAIN A : x \in X \/ B[x] = NOFID \/ Q[x] = Free \/ (B[x] = A[x] /\ Q[x] = P[x])

(* The root directory is held for its path, so its slot is in use. *)
LEMMA TopHeld ==
  ASSUME NEW f, NEW n, NEW A, NEW P, NEW m, Slots(f, n, A, P, m)
  PROVE  /\ ROOTFCB \in Index /\ n \in Nat /\ ROOTFCB < n /\ f[ROOTFCB].path = <<>>
         /\ <<>> # Free /\ Index \subseteq Nat /\ NOFID \notin Index
         /\ \A i \in Index : f[i].nopen \in Nat
  <1>1. <<>> # Free
    BY EmptySeq, FreeAssumption
  <1>2. ROOTFCB \in Index /\ Index \subseteq Nat /\ NOFID \notin Index /\ ROOTFCB # NOFID
    BY TableAssumption DEF ROOTFCB, Index, NOFID
  <1>3. ROOTFCB < n /\ f[ROOTFCB].path = <<>> /\ n \in Nat
    BY <1>1, <1>2 DEF Slots
  <1>4. \A i \in Index : f[i].nopen \in Nat
    BY DEF Slots, Counted
  <1>. QED BY <1>1, <1>2, <1>3, <1>4

(* Slots that are as they were but for counts that have grown, flags and    *)
(* modes.                                                                   *)
Grown(f, g) ==
    /\ DOMAIN g = Index /\ \A i \in Index : DOMAIN g[i] = FcbFields
    /\ \A i \in Index : g[i].path = f[i].path /\ g[i].type = f[i].type
    /\ \A i \in Index : g[i].nopen \in Nat /\ f[i].nopen <= g[i].nopen

(* Holders let go, counts grow. *)
LEMMA SlotsKept ==
  ASSUME NEW f, NEW n, NEW A, NEW P, NEW m, Slots(f, n, A, P, m),
         NEW g, Grown(f, g), NEW B, NEW Q, Fewer(A, B, {Top}), Relies(A, P, B, Q, {Top}),
         B[Top] = ROOTFCB, Q[Top] = <<>>
  PROVE  Slots(g, n, B, Q, m)
  <1>. DEFINE c == [i \in Index |-> f[i].nopen]
              d == [i \in Index |-> g[i].nopen]
  <1>0. Fewer(A, B, {}) /\ Relies(A, P, B, Q, {})
    BY DEF Slots, Fewer, Relies
  <1>1. Counted(c, A, Index)
    BY DEF Slots
  <1>2. \A i \in Index : d[i] \in Nat /\ c[i] <= d[i]
    BY DEF Grown
  <1>3. Index \in SUBSET Nat
    BY TopHeld
  <1>4. Counted(d, B, Index)
    <2>. HIDE DEF c, d
    <2>. QED BY <1>0, <1>1, <1>2, <1>3, CountKept
  <1>5. ASSUME NEW x \in DOMAIN B PROVE B[x] \in Index \union {NOFID}
    BY <1>0 DEF Slots, Fewer
  <1>6. ASSUME NEW x \in DOMAIN B, Q[x] # Free, B[x] # NOFID PROVE B[x] < n /\ g[B[x]].path = Q[x]
    <2>1. B[x] = A[x] /\ Q[x] = P[x] /\ x \in DOMAIN A
      BY <1>0, <1>6 DEF Fewer, Relies
    <2>2. A[x] \in Index /\ A[x] < n /\ f[A[x]].path = P[x]
      BY <1>6, <2>1 DEF Slots
    <2>. QED BY <2>1, <2>2 DEF Grown
  <1>7. g[ROOTFCB].type = "dir"
    <2>1. ROOTFCB \in Index
      BY TopHeld
    <2>. QED BY <2>1 DEF Slots, Grown
  <1>8. Top \in DOMAIN B
    BY DEF Slots, Fewer
  <1>. QED BY <1>4, <1>5, <1>6, <1>7, <1>8 DEF Slots, Grown

(* A tag takes slot k, which is counted once more. *)
LEMMA SlotsTaken ==
  ASSUME NEW f, NEW n, NEW A, NEW P, NEW m, Slots(f, n, A, P, m),
         NEW g, Grown(f, g), NEW B, NEW Q, NEW x \in DOMAIN A, x # Top, NEW k \in Index,
         Fewer(A, B, {x, Top}), Relies(A, P, B, Q, {x, Top}), B[Top] = ROOTFCB, Q[Top] = <<>>,
         B[x] = k, f[k].nopen + 1 <= g[k].nopen, Q[x] # Free => k < n /\ f[k].path = Q[x]
  PROVE  Slots(g, n, B, Q, m)
  <1>. DEFINE c == [i \in Index |-> f[i].nopen]
              d == [i \in Index |-> g[i].nopen]
  <1>0. Fewer(A, B, {x}) /\ Relies(A, P, B, Q, {x})
    BY DEF Slots, Fewer, Relies
  <1>1. Counted(c, A, Index)
    BY DEF Slots
  <1>2. /\ \A i \in Index : d[i] \in Nat /\ c[i] <= d[i]
        /\ c[k] + 1 <= d[k]
    BY DEF Grown
  <1>3. Index \in SUBSET Nat
    BY TopHeld
  <1>4. Counted(d, B, Index)
    <2>. HIDE DEF c, d
    <2>. QED BY <1>0, <1>1, <1>2, <1>3, CountTaken
  <1>5. ASSUME NEW y \in DOMAIN B PROVE B[y] \in Index \union {NOFID}
    BY <1>0 DEF Slots, Fewer
  <1>6. ASSUME NEW y \in DOMAIN B, Q[y] # Free, B[y] # NOFID PROVE B[y] < n /\ g[B[y]].path = Q[y]
    <2>1. CASE y = x
      BY <1>6, <2>1 DEF Grown
    <2>2. CASE y # x
      <3>1. B[y] = A[y] /\ Q[y] = P[y] /\ y \in DOMAIN A
        BY <1>0, <1>6, <2>2 DEF Fewer, Relies
      <3>2. A[y] \in Index /\ A[y] < n /\ f[A[y]].path = P[y]
        BY <1>6, <3>1 DEF Slots
      <3>. QED BY <3>1, <3>2 DEF Grown
    <2>. QED BY <2>1, <2>2
  <1>7. g[ROOTFCB].type = "dir"
    <2>1. ROOTFCB \in Index
      BY TopHeld
    <2>. QED BY <2>1 DEF Slots, Grown
  <1>8. Top \in DOMAIN B
    BY DEF Slots, Fewer
  <1>. QED BY <1>4, <1>5, <1>6, <1>7, <1>8 DEF Slots, Grown

(* Slot i is counted once less; when it was counted once it may be freed.   *)
Lessened(f, g, i) ==
    /\ DOMAIN g = Index /\ \A j \in Index : DOMAIN g[j] = FcbFields
    /\ \A j \in Index : g[j].type = f[j].type /\ g[j].nopen \in Nat
    /\ \A j \in Index : j # i => g[j].path = f[j].path /\ f[j].nopen <= g[j].nopen
    /\ f[i].nopen - 1 <= g[i].nopen
    /\ g[i].path = f[i].path \/ f[i].nopen <= 1

(* The table is cut to k slots, the rest is free. *)
Cut(g, n, k) == k \in 0..n /\ \A j \in k..(n - 1) : g[j].path = Free

(* A tag lets slot i go.  The slot is counted once less, and when nobody    *)
(* else holds it, it may be freed and the table cut.                        *)
LEMMA SlotsDropped ==
  ASSUME NEW f, NEW n, NEW A, NEW P, NEW m, Slots(f, n, A, P, m),
         NEW x \in DOMAIN A, x # Top, NEW i \in Index, A[x] = i,
         NEW B, NEW Q, Fewer(A, B, {x, Top}), Relies(A, P, B, Q, {x, Top}), B[x] = NOFID,
         B[Top] = ROOTFCB, Q[Top] = <<>>,
         NEW g, Lessened(f, g, i), NEW k, Cut(g, n, k)
  PROVE  Slots(g, k, B, Q, m)
  <1>. DEFINE c == [j \in Index |-> f[j].nopen]
              d == [j \in Index |-> g[j].nopen]
  <1>0. Fewer(A, B, {x}) /\ Relies(A, P, B, Q, {x})
    BY DEF Slots, Fewer, Relies
  <1>1. Counted(c, A, Index)
    BY DEF Slots
  <1>2. /\ \A j \in Index : d[j] \in Nat /\ (j # A[x] => c[j] <= d[j])
        /\ c[A[x]] - 1 <= d[A[x]]
    BY DEF Lessened
  <1>3. Index \in SUBSET Nat /\ n \in Nat /\ k \in 0..n
    BY TopHeld DEF Cut
  <1>4. Counted(d, B, Index)
    <2>. HIDE DEF c, d
    <2>. QED BY <1>0, <1>1, <1>2, <1>3, CountDropped
  <1>5. ASSUME NEW y \in DOMAIN B PROVE B[y] \in Index \union {NOFID}
    BY <1>0 DEF Slots, Fewer
  <1>6. ASSUME NEW y \in DOMAIN B, Q[y] # Free, B[y] # NOFID PROVE B[y] < k /\ g[B[y]].path = Q[y]
    <2>1. y # x /\ B[y] = A[y] /\ Q[y] = P[y] /\ y \in DOMAIN A
      BY <1>0, <1>6 DEF Fewer, Relies
    <2>2. A[y] \in Index /\ A[y] < n /\ f[A[y]].path = P[y]
      BY <1>6, <2>1 DEF Slots
    <2>3. A[y] = i => f[i].nopen >= 2
      <3>1. A[y] = i => c[A[x]] >= 2
        <4>. HIDE DEF c
        <4>. QED BY <1>1, <1>3, <2>1, CountHeld
      <3>. QED BY <3>1
    <2>4. f[i].nopen \in Nat
      BY DEF Slots, Counted
    <2>5. g[A[y]].path = Q[y]
      BY <2>1, <2>2, <2>3, <2>4 DEF Lessened
    <2>6. A[y] < k
      <3>0. A[y] \in Nat
        BY <1>3, <2>2 DEF Index
      <3>1. A[y] \in Nat /\ A[y] < n /\ k \in Nat /\ n \in Nat
        <4>. HIDE DEF c, d
        <4>. QED BY <1>3, <2>2, <3>0
      <3>2. A[y] >= k => A[y] \in k..(n - 1)
        BY <3>1
      <3>. QED BY <3>1, <3>2, <2>1, <2>5, <1>6 DEF Cut
    <2>. QED BY <2>1, <2>5, <2>6
  <1>7. g[ROOTFCB].type = "dir"
    <2>1. ROOTFCB \in Index
      BY TopHeld
    <2>. QED BY <2>1 DEF Slots, Lessened
  <1>8. Top \in DOMAIN B
    BY DEF Slots, Fewer
  <1>9. k \in Nat /\ m \in Nat /\ k <= m /\ m <= MaxFcb + 1
    BY <1>3 DEF Slots
  <1>. QED BY <1>4, <1>5, <1>6, <1>7, <1>8, <1>9 DEF Slots, Lessened

(* Slots that nobody holds are freed, and the table is cut. *)
LEMMA SlotsFreed ==
  ASSUME NEW f, NEW n, NEW A, NEW P, NEW m, Slots(f, n, A, P, m),
         NEW g, DOMAIN g = Index, \A j \in Index : DOMAIN g[j] = FcbFields /\ g[j].type = f[j].type,
         \A j \in Index : g[j].nopen = f[j].nopen,
         \A j \in Index : f[j].nopen # 0 => g[j].path = f[j].path,
         NEW k, Cut(g, n, k)
  PROVE  Slots(g, k, A, P, m)
  <1>. DEFINE c == [j \in Index |-> f[j].nopen]
              d == [j \in Index |-> g[j].nopen]
  <1>1. Counted(c, A, Index) /\ d = c
    BY DEF Slots
  <1>2. Index \in SUBSET Nat /\ n \in Nat /\ k \in Nat /\ k <= n /\ ROOTFCB \in Index
    <2>1. Index \in SUBSET Nat /\ n \in Nat /\ ROOTFCB \in Index
      <3>. HIDE DEF c, d
      <3>. QED BY TopHeld
    <2>. QED BY <2>1 DEF Cut
  <1>3. ASSUME NEW y \in DOMAIN A, P[y] # Free, A[y] # NOFID PROVE A[y] < k /\ g[A[y]].path = P[y]
    <2>1. A[y] \in Index /\ A[y] < n /\ f[A[y]].path = P[y]
      BY <1>3 DEF Slots
    <2>2. c[A[y]] \in Nat /\ c[A[y]] >= 1
      <3>. HIDE DEF c, d
      <3>. QED BY <1>1, <1>2, <2>1, CountHeld
    <2>3. g[A[y]].path = P[y]
      BY <2>1, <2>2
    <2>4. A[y] < k
      <3>. HIDE DEF c, d
      <3>1. A[y] \in Nat
        BY <2>1, <1>2
      <3>2. A[y] >= k => A[y] \in k..(n - 1)
        BY <3>1, <1>2, <2>1
      <3>. QED BY <3>1, <3>2, <1>2, <2>3, <1>3 DEF Cut
    <2>. QED BY <2>3, <2>4
  <1>4. g[ROOTFCB].type = "dir"
    BY <1>2 DEF Slots
  <1>5. k \in Nat /\ m \in Nat /\ k <= m /\ m <= MaxFcb + 1
    BY <1>2 DEF Slots
  <1>. QED BY <1>1, <1>3, <1>4, <1>5 DEF Slots

(* A free slot is given to a path. *)
LEMMA SlotsAdded ==
  ASSUME NEW f, NEW n, NEW A, NEW P, NEW m, Slots(f, n, A, P, m), m <= MaxFcb,
         NEW i \in 0..n, i = n \/ f[i].path = Free,
         NEW g, DOMAIN g = Index, \A j \in Index : DOMAIN g[j] = FcbFields /\ g[j].nopen = f[j].nopen,
         \A j \in Index : j # i => g[j].path = f[j].path /\ g[j].type = f[j].type,
         NEW k \in {n, n + 1}
  PROVE  Slots(g, k, A, P, m + 1)
  <1>. DEFINE c == [j \in Index |-> f[j].nopen]
              d == [j \in Index |-> g[j].nopen]
  <1>1. Counted(c, A, Index) /\ d = c
    BY DEF Slots
  <1>2. n \in Nat /\ k \in Nat /\ m \in Nat /\ n <= m /\ n <= k /\ k <= m + 1
    BY DEF Slots
  <1>3. ASSUME NEW y \in DOMAIN A, P[y] # Free, A[y] # NOFID PROVE A[y] < k /\ g[A[y]].path = P[y]
    <2>1. A[y] \in Index /\ A[y] < n /\ f[A[y]].path = P[y]
      BY <1>3 DEF Slots
    <2>2. A[y] # i /\ A[y] \in Nat
      BY <2>1, <1>2, <1>3 DEF Index
    <2>. QED BY <2>1, <2>2, <1>2
  <1>4. g[ROOTFCB].type = "dir"
    <2>1. ROOTFCB \in Index /\ ROOTFCB < n /\ f[ROOTFCB].path = <<>> /\ <<>> # Free
      BY TopHeld
    <2>2. ROOTFCB # i
      BY <2>1, <1>2 DEF ROOTFCB
    <2>. QED BY <2>1, <2>2 DEF Slots
  <1>5. MaxFcb \in Nat
    BY TableAssumption
  <1>. QED BY <1>1, <1>2, <1>3, <1>4, <1>5 DEF Slots

(* fcb_get finds a slot of the table or none. *)
LEMMA FcbGetIs ==
  ASSUME NEW st, st.nfcb \in Nat, NEW p
  PROVE  fcb_get(st, p) = NOFID \/ (fcb_get(st, p) \in 0..(st.nfcb - 1) /\ st.fcb[fcb_get(st, p)].path = p)
  <1>. DEFINE hits == {i \in 0..(st.nfcb - 1) : st.fcb[i].path = p}
  <1>1. hits # {} => Least(hits) \in hits
    <2>1. hits \in SUBSET Nat
      OBVIOUS
    <2>. HIDE DEF hits
    <2>. QED BY <2>1, LeastIs
  <1>. QED BY <1>1 DEF fcb_get

(* fcb_del, called by the holder x of the slot. *)
LEMMA SlotsFcbDel ==
  ASSUME NEW st, PipesInOrder(st), NEW A, NEW P, NEW m, Slots(st.fcb, st.nfcb, A, P, m),
         NEW x \in DOMAIN A, x # Top, NEW i \in Index, A[x] = i,
         NEW B, NEW Q, Fewer(A, B, {x, Top}), Relies(A, P, B, Q, {x, Top}), B[x] = NOFID,
         B[Top] = ROOTFCB, Q[Top] = <<>>
  PROVE  Slots(fcb_del(st, i).fcb, fcb_del(st, i).nfcb, B, Q, m)
  <1>. DEFINE f == st.fcb
              n == st.nfcb
              g1 == [f EXCEPT ![i].nopen = @ - 1]
              g2 == [f EXCEPT ![i].nopen = 0, ![i].path = Free]
              k2 == Shrunk(g2, n)
  <1>0. Slots(f, n, A, P, m)
    OBVIOUS
  <1>1. /\ DOMAIN st = Fields /\ n \in Nat /\ DOMAIN f = Index /\ Index \in SUBSET Nat
        /\ \A j \in Index : DOMAIN f[j] = FcbFields /\ f[j].nopen \in Nat
    <2>1. Index \in SUBSET Nat /\ \A j \in Index : f[j].nopen \in Nat
      <3>. HIDE DEF f, n, g1, g2, k2
      <3>. QED BY <1>0, TopHeld
    <2>. QED BY <2>1 DEF PipesInOrder, Slots
  <1>2. f[i].nopen >= 1
    <2>. DEFINE c == [j \in Index |-> f[j].nopen]
    <2>1. Counted(c, A, Index)
      BY DEF Slots
    <2>2. c[A[x]] >= 1
      <3>. HIDE DEF c, f, n, g1, g2, k2
      <3>. QED BY <1>1, <2>1, CountHeld
    <2>. QED BY <2>2
  <1>3. CASE ~LiveFcb(st, i)
    <2>1. fcb_del(st, i) = st
      BY <1>3 DEF fcb_del
    <2>2. Grown(f, f)
      BY <1>1 DEF Grown
    <2>3. Fewer(A, B, {Top}) /\ Relies(A, P, B, Q, {Top})
      BY DEF Fewer, Relies
    <2>4. Slots(f, n, B, Q, m)
      <3>. HIDE DEF f, n, g1, g2, k2
      <3>. QED BY <1>0, <2>2, <2>3, SlotsKept
    <2>. QED BY <2>1, <2>4
  <1>4. CASE LiveFcb(st, i) /\ f[i].nopen > 1
    <2>1. fcb_del(st, i).fcb = g1 /\ fcb_del(st, i).nfcb = n
      BY <1>1, <1>4 DEF fcb_del, Fields
    <2>2. Lessened(f, g1, i)
      BY <1>1, <1>4 DEF Lessened, FcbFields
    <2>3. Cut(g1, n, n)
      BY <1>1 DEF Cut
    <2>4. Slots(g1, n, B, Q, m)
      <3>. HIDE DEF f, n, g1, g2, k2
      <3>. QED BY <1>0, <2>2, <2>3, SlotsDropped
    <2>. QED BY <2>1, <2>4
  <1>5. CASE LiveFcb(st, i) /\ ~(f[i].nopen > 1)
    <2>1. fcb_del(st, i).fcb = g2 /\ fcb_del(st, i).nfcb = k2
      BY <1>1, <1>5 DEF fcb_del, Fields
    <2>2. Lessened(f, g2, i)
      BY <1>1, <1>5 DEF Lessened, FcbFields
    <2>3. Cut(g2, n, k2)
      <3>. HIDE DEF g2, n
      <3>. QED BY <1>1, ShrunkIs DEF Cut
    <2>4. Slots(g2, k2, B, Q, m)
      <3>. HIDE DEF f, n, g1, g2, k2
      <3>. QED BY <1>0, <2>2, <2>3, SlotsDropped
    <2>. QED BY <2>1, <2>4
  <1>. QED BY <1>3, <1>4, <1>5

-----------------------------------------------------------------------------
(* Who holds which slot *)

(* A descriptor of a file holds its slot and relies on its path, one of a   *)
(* pipe or of a terminal holds none.                                        *)
SlotOf(of) == IF of.fid = NOFID \/ {"fifo", "tty"} \intersect of.mode # {} THEN NOFID ELSE of.fid
SlotAt(c, d) == IF d \in DOMAIN c.open THEN SlotOf(c.open[d]) ELSE NOFID
PathAt(c, d) == IF d \in DOMAIN c.open THEN c.open[d].obj ELSE Free
WorkOf(c) == IF c.root = NOFID THEN NOFID ELSE c.work

(* The slots of a mount are that of its directory and that of its device. *)
MpAt(mt, k) == IF k = ROOTFCB \/ \E i \in DOMAIN mt : mt[i].mp = k THEN k ELSE NOFID
StAt(mt, k, j) == IF \E i \in DOMAIN mt : mt[i].mp = k /\ mt[i].st = j THEN j ELSE NOFID

(* Descriptors, directories of tasks and mounts. *)
Open(t, d) == <<"open", t, d>>
Root(t) == <<"root", t, 0>>
Work(t) == <<"work", t, 0>>
Mp(k) == <<"mp", k, 0>>
St(k, j) == <<"st", k, j>>
Tags == ({"open"} \X Pid \X Nat) \union ({"root", "work"} \X Pid \X {0})
        \union ({"mp"} \X Nat \X {0}) \union ({"st"} \X Nat \X Nat)

(* What each of them holds, and the path it relies on. *)
View(ctx, mt) ==
    [x \in Tags |-> CASE x[1] = "open" -> SlotAt(ctx[x[2]], x[3])
                      [] x[1] = "root" -> ctx[x[2]].root
                      [] x[1] = "work" -> WorkOf(ctx[x[2]])
                      [] x[1] = "mp" -> MpAt(mt, x[2])
                      [] x[1] = "st" -> StAt(mt, x[2], x[3])]
Paths(ctx) ==
    [x \in Tags |-> CASE x[1] = "open" -> PathAt(ctx[x[2]], x[3])
                      [] x = Top -> <<>>
                      [] OTHER -> Free]

(* The tags, and that they are different. *)
LEMMA TagsAre ==
  /\ Top \in Tags /\ Top = Mp(ROOTFCB)
  /\ \A t \in Pid, d \in Nat : Open(t, d) \in Tags /\ Open(t, d) # Top
  /\ \A t \in Pid : Root(t) \in Tags /\ Root(t) # Top /\ Work(t) \in Tags /\ Work(t) # Top
  /\ \A k \in Nat : Mp(k) \in Tags /\ (Mp(k) = Top <=> k = ROOTFCB)
  /\ \A k \in Nat, j \in Nat : St(k, j) \in Tags /\ St(k, j) # Top
  /\ \A x \in Tags : \/ \E t \in Pid, d \in Nat : x = Open(t, d)
                     \/ \E t \in Pid : x = Root(t) \/ x = Work(t)
                     \/ \E k \in Nat : x = Mp(k)
                     \/ \E k \in Nat, j \in Nat : x = St(k, j)
  <1>1. ROOTFCB \in Nat
    BY DEF ROOTFCB
  <1>2. Top \in Tags /\ Top = Mp(ROOTFCB)
    BY <1>1 DEF Top, Mp, Tags
  <1>3. \A t \in Pid, d \in Nat : Open(t, d) \in Tags /\ Open(t, d) # Top
    BY DEF Open, Tags, Top
  <1>4. \A t \in Pid : Root(t) \in Tags /\ Root(t) # Top /\ Work(t) \in Tags /\ Work(t) # Top
    BY DEF Root, Work, Tags, Top
  <1>5. \A k \in Nat : Mp(k) \in Tags /\ (Mp(k) = Top <=> k = ROOTFCB)
    BY DEF Mp, Tags, Top
  <1>6. \A k \in Nat, j \in Nat : St(k, j) \in Tags /\ St(k, j) # Top
    BY DEF St, Tags, Top
  <1>7. ASSUME NEW x \in Tags
        PROVE  \/ \E t \in Pid, d \in Nat : x = Open(t, d)
               \/ \E t \in Pid : x = Root(t) \/ x = Work(t)
               \/ \E k \in Nat : x = Mp(k)
               \/ \E k \in Nat, j \in Nat : x = St(k, j)
    BY DEF Tags, Open, Root, Work, Mp, St
  <1>. QED BY <1>2, <1>3, <1>4, <1>5, <1>6, <1>7

(* Different kinds of holders have different tags, and so have different    *)
(* holders of a kind.                                                       *)
LEMMA TagsDiffer ==
  /\ \A t, d, u, e : Open(t, d) = Open(u, e) <=> t = u /\ d = e
  /\ \A t, u : (Root(t) = Root(u) <=> t = u) /\ (Work(t) = Work(u) <=> t = u) /\ Root(t) # Work(u)
  /\ \A k, j : Mp(k) = Mp(j) <=> k = j
  /\ \A k, j, m, n : St(k, j) = St(m, n) <=> k = m /\ j = n
  /\ \A t, d, u : Open(t, d) # Root(u) /\ Open(t, d) # Work(u) /\ Open(t, d) # Mp(u)
  /\ \A t, d, u, e : Open(t, d) # St(u, e)
  /\ \A t, u : Root(t) # Mp(u) /\ Work(t) # Mp(u)
  /\ \A t, u, e : Root(t) # St(u, e) /\ Work(t) # St(u, e) /\ Mp(t) # St(u, e)
  BY DEF Open, Root, Work, Mp, St

(* What they hold. *)
LEMMA ViewIs ==
  ASSUME NEW ctx, NEW mt
  PROVE  /\ DOMAIN View(ctx, mt) = Tags
         /\ \A t \in Pid, d \in Nat : View(ctx, mt)[Open(t, d)] = SlotAt(ctx[t], d)
         /\ \A t \in Pid : View(ctx, mt)[Root(t)] = ctx[t].root
         /\ \A t \in Pid : View(ctx, mt)[Work(t)] = WorkOf(ctx[t])
         /\ \A k \in Nat : View(ctx, mt)[Mp(k)] = MpAt(mt, k)
         /\ \A k \in Nat, j \in Nat : View(ctx, mt)[St(k, j)] = StAt(mt, k, j)
  <1>1. \A t \in Pid, d \in Nat : View(ctx, mt)[Open(t, d)] = SlotAt(ctx[t], d)
    <2>. SUFFICES ASSUME NEW t \in Pid, NEW d \in Nat
                  PROVE  View(ctx, mt)[Open(t, d)] = SlotAt(ctx[t], d)
      OBVIOUS
    <2>1. Open(t, d) \in Tags /\ Open(t, d)[1] = "open" /\ Open(t, d)[2] = t /\ Open(t, d)[3] = d
      BY TagsAre DEF Open
    <2>. QED BY <2>1 DEF View
  <1>2. \A t \in Pid : View(ctx, mt)[Root(t)] = ctx[t].root
    <2>. SUFFICES ASSUME NEW t \in Pid PROVE View(ctx, mt)[Root(t)] = ctx[t].root
      OBVIOUS
    <2>1. Root(t) \in Tags /\ Root(t)[1] = "root" /\ Root(t)[2] = t
      BY TagsAre DEF Root
    <2>. QED BY <2>1 DEF View
  <1>3. \A t \in Pid : View(ctx, mt)[Work(t)] = WorkOf(ctx[t])
    <2>. SUFFICES ASSUME NEW t \in Pid PROVE View(ctx, mt)[Work(t)] = WorkOf(ctx[t])
      OBVIOUS
    <2>1. Work(t) \in Tags /\ Work(t)[1] = "work" /\ Work(t)[2] = t
      BY TagsAre DEF Work
    <2>. QED BY <2>1 DEF View
  <1>4. \A k \in Nat : View(ctx, mt)[Mp(k)] = MpAt(mt, k)
    <2>. SUFFICES ASSUME NEW k \in Nat PROVE View(ctx, mt)[Mp(k)] = MpAt(mt, k)
      OBVIOUS
    <2>1. Mp(k) \in Tags /\ Mp(k)[1] = "mp" /\ Mp(k)[2] = k
      BY TagsAre DEF Mp
    <2>. QED BY <2>1 DEF View
  <1>5. \A k \in Nat, j \in Nat : View(ctx, mt)[St(k, j)] = StAt(mt, k, j)
    <2>. SUFFICES ASSUME NEW k \in Nat, NEW j \in Nat PROVE View(ctx, mt)[St(k, j)] = StAt(mt, k, j)
      OBVIOUS
    <2>1. St(k, j) \in Tags /\ St(k, j)[1] = "st" /\ St(k, j)[2] = k /\ St(k, j)[3] = j
      BY TagsAre DEF St
    <2>. QED BY <2>1 DEF View
  <1>. QED BY <1>1, <1>2, <1>3, <1>4, <1>5 DEF View

(* The paths they rely on. *)
LEMMA PathsAre ==
  ASSUME NEW ctx
  PROVE  /\ \A t \in Pid, d \in Nat : Paths(ctx)[Open(t, d)] = PathAt(ctx[t], d)
         /\ Paths(ctx)[Top] = <<>>
         /\ \A x \in Tags : (\A t \in Pid, d \in Nat : x # Open(t, d)) /\ x # Top => Paths(ctx)[x] = Free
  <1>1. \A t \in Pid, d \in Nat : Paths(ctx)[Open(t, d)] = PathAt(ctx[t], d)
    <2>. SUFFICES ASSUME NEW t \in Pid, NEW d \in Nat
                  PROVE  Paths(ctx)[Open(t, d)] = PathAt(ctx[t], d)
      OBVIOUS
    <2>1. /\ Open(t, d) \in Tags /\ Open(t, d)[1] = "open" /\ Open(t, d)[2] = t /\ Open(t, d)[3] = d
          /\ Open(t, d) # Top
      BY TagsAre DEF Open
    <2>. QED BY <2>1 DEF Paths
  <1>2. Paths(ctx)[Top] = <<>>
    <2>1. Top \in Tags /\ Top[1] = "mp"
      BY TagsAre DEF Top
    <2>. QED BY <2>1 DEF Paths
  <1>3. ASSUME NEW x \in Tags, \A t \in Pid, d \in Nat : x # Open(t, d), x # Top
        PROVE  Paths(ctx)[x] = Free
    <2>1. ASSUME x[1] = "open" PROVE FALSE
      <3>1. PICK t \in Pid, d \in Nat : x = <<"open", t, d>>
        BY <2>1 DEF Tags
      <3>. QED BY <3>1, <1>3 DEF Open
    <2>. QED BY <1>3, <2>1 DEF Paths
  <1>. QED BY <1>1, <1>2, <1>3

(* The root directory is always held. *)
LEMMA ViewTop ==
  ASSUME NEW ctx, NEW mt
  PROVE  Top \in DOMAIN View(ctx, mt) /\ View(ctx, mt)[Top] = ROOTFCB /\ Paths(ctx)[Top] = <<>>
  <1>1. ROOTFCB \in Nat
    BY DEF ROOTFCB
  <1>2. Top \in Tags /\ Top = Mp(ROOTFCB)
    BY TagsAre
  <1>3. View(ctx, mt)[Mp(ROOTFCB)] = MpAt(mt, ROOTFCB) /\ DOMAIN View(ctx, mt) = Tags
    BY <1>1, ViewIs
  <1>. QED BY <1>2, <1>3, PathsAre DEF MpAt

(* The holders of two states compared kind by kind. *)
LEMMA ViewFewer ==
  ASSUME NEW ctx, NEW ctx2, NEW mt, NEW mt2, NEW X, Top \in X,
         \A t \in Pid, d \in Nat :
            \/ Open(t, d) \in X \/ SlotAt(ctx2[t], d) = NOFID
            \/ SlotAt(ctx2[t], d) = SlotAt(ctx[t], d) /\ PathAt(ctx2[t], d) = PathAt(ctx[t], d),
         \A t \in Pid : Root(t) \in X \/ ctx2[t].root = NOFID \/ ctx2[t].root = ctx[t].root,
         \A t \in Pid : Work(t) \in X \/ WorkOf(ctx2[t]) = NOFID \/ WorkOf(ctx2[t]) = WorkOf(ctx[t]),
         \A k \in Nat : Mp(k) \in X \/ MpAt(mt2, k) = NOFID \/ MpAt(mt2, k) = MpAt(mt, k),
         \A k \in Nat, j \in Nat : St(k, j) \in X \/ StAt(mt2, k, j) = NOFID \/ StAt(mt2, k, j) = StAt(mt, k, j)
  PROVE  /\ Fewer(View(ctx, mt), View(ctx2, mt2), X)
         /\ Relies(View(ctx, mt), Paths(ctx), View(ctx2, mt2), Paths(ctx2), X)
  <1>. DEFINE A == View(ctx, mt)
              B == View(ctx2, mt2)
              P == Paths(ctx)
              Q == Paths(ctx2)
  <1>1. DOMAIN A = Tags /\ DOMAIN B = Tags
    BY ViewIs
  <1>2. ASSUME NEW x \in Tags
        PROVE  /\ x \in X \/ B[x] = A[x] \/ B[x] = NOFID
               /\ x \in X \/ B[x] = NOFID \/ Q[x] = Free \/ (B[x] = A[x] /\ Q[x] = P[x])
    <2>1. CASE \E t \in Pid, d \in Nat : x = Open(t, d)
      <3>1. PICK t \in Pid, d \in Nat : x = Open(t, d)
        BY <2>1
      <3>2. /\ A[x] = SlotAt(ctx[t], d) /\ B[x] = SlotAt(ctx2[t], d)
            /\ P[x] = PathAt(ctx[t], d) /\ Q[x] = PathAt(ctx2[t], d)
        BY <3>1, ViewIs, PathsAre
      <3>. HIDE DEF A, B, P, Q
      <3>. QED BY <3>1, <3>2
    <2>2. CASE \A t \in Pid, d \in Nat : x # Open(t, d)
      <3>1. x = Top \/ Q[x] = Free
        BY <2>2, PathsAre
      <3>2. x \in X \/ B[x] = A[x] \/ B[x] = NOFID
        <4>1. ASSUME NEW t \in Pid, x = Root(t) PROVE x \in X \/ B[x] = A[x] \/ B[x] = NOFID
          <5>1. A[x] = ctx[t].root /\ B[x] = ctx2[t].root
            BY <4>1, ViewIs
          <5>. HIDE DEF A, B
          <5>. QED BY <4>1, <5>1
        <4>2. ASSUME NEW t \in Pid, x = Work(t) PROVE x \in X \/ B[x] = A[x] \/ B[x] = NOFID
          <5>1. A[x] = WorkOf(ctx[t]) /\ B[x] = WorkOf(ctx2[t])
            BY <4>2, ViewIs
          <5>. HIDE DEF A, B
          <5>. QED BY <4>2, <5>1
        <4>3. ASSUME NEW k \in Nat, x = Mp(k) PROVE x \in X \/ B[x] = A[x] \/ B[x] = NOFID
          <5>1. A[x] = MpAt(mt, k) /\ B[x] = MpAt(mt2, k)
            BY <4>3, ViewIs
          <5>. HIDE DEF A, B
          <5>. QED BY <4>3, <5>1
        <4>4. ASSUME NEW k \in Nat, NEW j \in Nat, x = St(k, j) PROVE x \in X \/ B[x] = A[x] \/ B[x] = NOFID
          <5>1. A[x] = StAt(mt, k, j) /\ B[x] = StAt(mt2, k, j)
            BY <4>4, ViewIs
          <5>. HIDE DEF A, B
          <5>. QED BY <4>4, <5>1
        <4>5. \/ \E t \in Pid : x = Root(t) \/ x = Work(t)
              \/ \E k \in Nat : x = Mp(k)
              \/ \E k \in Nat, j \in Nat : x = St(k, j)
          BY <2>2, TagsAre
        <4>. HIDE DEF A, B
        <4>. QED BY <4>1, <4>2, <4>3, <4>4, <4>5
      <3>. QED BY <3>1, <3>2
    <2>. QED BY <2>1, <2>2
  <1>. HIDE DEF A, B, P, Q
  <1>3. Fewer(A, B, X) /\ Relies(A, P, B, Q, X)
    BY <1>1, <1>2 DEF Fewer, Relies
  <1>. QED BY <1>3 DEF A, B, P, Q

(* The same when only the context of t has changed and others are gone. *)
LEMMA ViewOfTask ==
  ASSUME NEW ctx, NEW ctx2, NEW mt, NEW X, Top \in X, NEW t,
         \A u \in Pid \ {t} : ctx2[u] = ctx[u] \/ ctx2[u] = NoCtx,
         \A d \in Nat :
            \/ Open(t, d) \in X \/ SlotAt(ctx2[t], d) = NOFID
            \/ SlotAt(ctx2[t], d) = SlotAt(ctx[t], d) /\ PathAt(ctx2[t], d) = PathAt(ctx[t], d),
         Root(t) \in X \/ ctx2[t].root = NOFID \/ ctx2[t].root = ctx[t].root,
         Work(t) \in X \/ WorkOf(ctx2[t]) = NOFID \/ WorkOf(ctx2[t]) = WorkOf(ctx[t])
  PROVE  /\ Fewer(View(ctx, mt), View(ctx2, mt), X)
         /\ Relies(View(ctx, mt), Paths(ctx), View(ctx2, mt), Paths(ctx2), X)
  <1>1. \A d : SlotAt(NoCtx, d) = NOFID
    <2>1. DOMAIN NoCtx.open = {}
      BY EmptySeq DEF NoCtx, NewCtx
    <2>. QED BY <2>1 DEF SlotAt
  <1>2. NoCtx.root = NOFID /\ WorkOf(NoCtx) = NOFID
    BY DEF NoCtx, NewCtx, WorkOf
  <1>3. \A u \in Pid, d \in Nat :
            \/ Open(u, d) \in X \/ SlotAt(ctx2[u], d) = NOFID
            \/ SlotAt(ctx2[u], d) = SlotAt(ctx[u], d) /\ PathAt(ctx2[u], d) = PathAt(ctx[u], d)
    BY <1>1
  <1>4. \A u \in Pid : Root(u) \in X \/ ctx2[u].root = NOFID \/ ctx2[u].root = ctx[u].root
    BY <1>2
  <1>5. \A u \in Pid : Work(u) \in X \/ WorkOf(ctx2[u]) = NOFID \/ WorkOf(ctx2[u]) = WorkOf(ctx[u])
    BY <1>2
  <1>. QED BY <1>3, <1>4, <1>5, ViewFewer

-----------------------------------------------------------------------------
(* What every function of the task keeps *)

(* Every pipe in use is an anonymous one. *)
Unnamed(st, q) ==
    /\ st.npipe \in Nat /\ q \in Nat /\ st.npipe <= q /\ q <= MaxPipe + 1
    /\ \A i \in 0..MaxPipe : i < st.npipe => st.pipe[i].fid = ANONYMOUS

(* A descriptor of a file has the path it was opened for, one of a pipe has *)
(* the number of an anonymous pipe.                                         *)
DescOK(pipe, of) ==
    /\ {"fid", "mode"} \subseteq DOMAIN of
    /\ of.fid # NOFID =>
          /\ {"fifo", "tty"} \intersect of.mode = {} => of.obj # Free
          /\ "fifo" \in of.mode => of.fid \in 0..MaxPipe /\ pipe[of.fid].fid = ANONYMOUS
Tasks(pipe, ctx) ==
    \A t \in Pid : /\ \A d \in DOMAIN ctx[t].open : DescOK(pipe, ctx[t].open[d])
                   /\ ctx[t].root = NOFID => ctx[t] = NoCtx

(* Nothing is mounted twice in one place. *)
Mounts(mt) ==
    /\ \A i \in DOMAIN mt : mt[i].mp \in Index /\ mt[i].st \in Index
    /\ \A i \in DOMAIN mt, j \in DOMAIN mt : mt[i].mp = mt[j].mp => i = j

(* No device belongs to a task that exits. *)
Devices(dev, E) == \A i \in DOMAIN dev : dev[i].task \notin E

Kept(E, st, m, q) ==
    /\ PipesInOrder(st)
    /\ Slots(st.fcb, st.nfcb, View(st.ctx, st.mtab), Paths(st.ctx), m)
    /\ Unnamed(st, q) /\ Tasks(st.pipe, st.ctx) /\ Mounts(st.mtab) /\ Devices(st.dev, E)

(* Contexts that hold the same. *)
SameCtx(c, c2) ==
    \/ c2 = c
    \/ /\ c # NoCtx /\ c2.root = c.root /\ c2.work = c.work /\ DOMAIN c2.open = DOMAIN c.open
       /\ \A d \in DOMAIN c.open :
             /\ c2.open[d].fid = c.open[d].fid /\ c2.open[d].obj = c.open[d].obj
             /\ DOMAIN c2.open[d] = DOMAIN c.open[d]
             /\ \A f \in {"fifo", "tty"} : f \in c2.open[d].mode <=> f \in c.open[d].mode

(* Pipes keep their files or become anonymous. *)
SamePipes(pipe, pipe2) == \A i \in 0..MaxPipe : pipe2[i].fid \in {pipe[i].fid, ANONYMOUS}

(* Tasks whose contexts hold the same. *)
LEMMA SameTasks ==
  ASSUME NEW pipe, NEW pipe2, NEW ctx, NEW ctx2, Tasks(pipe, ctx), SamePipes(pipe, pipe2),
         \A t \in Pid : SameCtx(ctx[t], ctx2[t])
  PROVE  Tasks(pipe2, ctx2)
  <1>. SUFFICES ASSUME NEW t \in Pid
                PROVE  /\ \A d \in DOMAIN ctx2[t].open : DescOK(pipe2, ctx2[t].open[d])
                       /\ ctx2[t].root = NOFID => ctx2[t] = NoCtx
    BY DEF Tasks
  <1>1. /\ \A d \in DOMAIN ctx[t].open : DescOK(pipe, ctx[t].open[d])
        /\ ctx[t].root = NOFID => ctx[t] = NoCtx
    BY DEF Tasks
  <1>2. ASSUME NEW d \in DOMAIN ctx2[t].open PROVE DescOK(pipe2, ctx2[t].open[d])
    <2>1. d \in DOMAIN ctx[t].open /\ DescOK(pipe, ctx[t].open[d])
      BY <1>1 DEF SameCtx
    <2>2. /\ ctx2[t].open[d].fid = ctx[t].open[d].fid /\ ctx2[t].open[d].obj = ctx[t].open[d].obj
          /\ DOMAIN ctx2[t].open[d] = DOMAIN ctx[t].open[d]
          /\ \A f \in {"fifo", "tty"} : f \in ctx2[t].open[d].mode <=> f \in ctx[t].open[d].mode
      BY <2>1 DEF SameCtx
    <2>. QED BY <2>1, <2>2 DEF DescOK, SamePipes
  <1>. QED BY <1>1, <1>2 DEF SameCtx

(* Nothing moves but pipes and what no holder looks at. *)
LEMMA KeptPipes ==
  ASSUME NEW E, NEW st, NEW m, NEW q, Kept(E, st, m, q), NEW st2, PipesInOrder(st2),
         st2.fcb = st.fcb, st2.nfcb = st.nfcb, st2.mtab = st.mtab, st2.dev = st.dev,
         NEW q2, Unnamed(st2, q2), SamePipes(st.pipe, st2.pipe),
         \A t \in Pid : SameCtx(st.ctx[t], st2.ctx[t])
  PROVE  Kept(E, st2, m, q2)
  <1>. DEFINE c == st.ctx
              c2 == st2.ctx
              mt == st.mtab
  <1>1. Tasks(st2.pipe, c2)
    BY SameTasks DEF Kept
  <1>2. Slots(st.fcb, st.nfcb, View(c2, mt), Paths(c2), m)
    <2>1. \A t \in Pid, d \in Nat : SlotAt(c2[t], d) = SlotAt(c[t], d) /\ PathAt(c2[t], d) = PathAt(c[t], d)
      <3>. SUFFICES ASSUME NEW t \in Pid, NEW d \in Nat
                    PROVE  SlotAt(c2[t], d) = SlotAt(c[t], d) /\ PathAt(c2[t], d) = PathAt(c[t], d)
        OBVIOUS
      <3>1. SameCtx(c[t], c2[t])
        OBVIOUS
      <3>2. DOMAIN c2[t].open = DOMAIN c[t].open
        BY <3>1 DEF SameCtx
      <3>3. CASE d \in DOMAIN c[t].open
        <4>1. /\ c2[t].open[d].fid = c[t].open[d].fid /\ c2[t].open[d].obj = c[t].open[d].obj
              /\ \A f \in {"fifo", "tty"} : f \in c2[t].open[d].mode <=> f \in c[t].open[d].mode
          BY <3>1, <3>3 DEF SameCtx
        <4>2. SlotOf(c2[t].open[d]) = SlotOf(c[t].open[d])
          BY <4>1 DEF SlotOf
        <4>. QED BY <3>2, <4>1, <4>2 DEF SlotAt, PathAt
      <3>. QED BY <3>2, <3>3 DEF SlotAt, PathAt
    <2>2. \A t \in Pid : c2[t].root = c[t].root /\ WorkOf(c2[t]) = WorkOf(c[t])
      BY DEF SameCtx, WorkOf
    <2>. HIDE DEF c, c2, mt
    <2>3. /\ Fewer(View(c, mt), View(c2, mt), {Top})
          /\ Relies(View(c, mt), Paths(c), View(c2, mt), Paths(c2), {Top})
      BY <2>1, <2>2, ViewFewer
    <2>4. Slots(st.fcb, st.nfcb, View(c, mt), Paths(c), m)
      BY DEF Kept, c, mt
    <2>5. Grown(st.fcb, st.fcb)
      <3>1. \A i \in Index : st.fcb[i].nopen \in Nat
        BY <2>4, TopHeld
      <3>. QED BY <2>4, <3>1 DEF Slots, Grown
    <2>6. View(c2, mt)[Top] = ROOTFCB /\ Paths(c2)[Top] = <<>>
      BY ViewTop
    <2>. QED BY <2>3, <2>4, <2>5, <2>6, SlotsKept
  <1>. QED BY <1>1, <1>2 DEF Kept

(* Nothing moves but what no holder looks at. *)
LEMMA KeptSame ==
  ASSUME NEW E, NEW st, NEW m, NEW q, Kept(E, st, m, q), NEW st2, PipesInOrder(st2),
         st2.fcb = st.fcb, st2.nfcb = st.nfcb, st2.mtab = st.mtab, st2.dev = st.dev,
         st2.npipe = st.npipe, \A i \in 0..MaxPipe : st2.pipe[i].fid = st.pipe[i].fid,
         \A t \in Pid : SameCtx(st.ctx[t], st2.ctx[t])
  PROVE  Kept(E, st2, m, q)
  <1>1. Unnamed(st2, q) /\ SamePipes(st.pipe, st2.pipe)
    BY DEF Kept, Unnamed, SamePipes
  <1>. QED BY <1>1, KeptPipes

(* The fields that hold tables. *)
Tables == {"fcb", "nfcb", "pipe", "npipe", "dev", "mtab", "ctx"}
(* Results, errors and answers are not looked at either. *)
LEMMA KeptCopy ==
  ASSUME NEW E, NEW st, NEW m, NEW q, Kept(E, st, m, q),
         NEW st2, DOMAIN st2 = Fields, \A f \in Tables : st2[f] = st[f]
  PROVE  Kept(E, st2, m, q)
  <1>1. /\ st2.fcb = st.fcb /\ st2.nfcb = st.nfcb /\ st2.pipe = st.pipe /\ st2.npipe = st.npipe
        /\ st2.dev = st.dev /\ st2.mtab = st.mtab /\ st2.ctx = st.ctx
    BY DEF Tables
  <1>. QED BY <1>1 DEF Kept, Unnamed, PipesInOrder

(* An error or a result changes no table. *)
LEMMA KeptFail ==
  ASSUME NEW E, NEW st, NEW m, NEW q, Kept(E, st, m, q), NEW e, NEW r
  PROVE  Kept(E, Fail(st, e, r), m, q) /\ Kept(E, Ok(st, r), m, q)
  <1>1. DOMAIN st = Fields
    BY DEF Kept, PipesInOrder
  <1>2. DOMAIN Fail(st, e, r) = Fields /\ \A f \in Tables : Fail(st, e, r)[f] = st[f]
    BY <1>1 DEF Fail, Fields, Tables
  <1>3. DOMAIN Ok(st, r) = Fields /\ \A f \in Tables : Ok(st, r)[f] = st[f]
    BY <1>1 DEF Ok, Fields, Tables
  <1>. QED BY <1>2, <1>3, KeptCopy

(* The bounds may be larger. *)
LEMMA KeptMore ==
  ASSUME NEW E, NEW st, NEW m, NEW q, Kept(E, st, m, q),
         NEW m2 \in Nat, m <= m2, m2 <= MaxFcb + 1, NEW q2 \in Nat, q <= q2, q2 <= MaxPipe + 1
  PROVE  Kept(E, st, m2, q2)
  <1>1. m \in Nat /\ st.nfcb \in Nat /\ st.nfcb <= m /\ st.npipe \in Nat /\ q \in Nat /\ st.npipe <= q
    BY DEF Kept, Slots, Unnamed
  <1>2. st.nfcb <= m2 /\ st.npipe <= q2
    BY <1>1
  <1>. QED BY <1>2 DEF Kept, Slots, Unnamed

-----------------------------------------------------------------------------
(* fcb.c *)

(* Only slots have changed. *)
LEMMA KeptSlots ==
  ASSUME NEW E, NEW st, NEW m, NEW q, Kept(E, st, m, q), NEW st2, PipesInOrder(st2), NEW m2,
         Slots(st2.fcb, st2.nfcb, View(st.ctx, st.mtab), Paths(st.ctx), m2),
         st2.ctx = st.ctx, st2.mtab = st.mtab, st2.dev = st.dev, st2.pipe = st.pipe, st2.npipe = st.npipe
  PROVE  Kept(E, st2, m2, q)
  BY DEF Kept, Unnamed

(* The types of what Kept says. *)
LEMMA KeptTypes ==
  ASSUME NEW E, NEW st, NEW m, NEW q, Kept(E, st, m, q)
  PROVE  /\ DOMAIN st = Fields /\ st.nfcb \in Nat /\ DOMAIN st.ctx = Pid /\ DOMAIN st.pipe = 0..MaxPipe
         /\ PipesInOrder(st) /\ Slots(st.fcb, st.nfcb, View(st.ctx, st.mtab), Paths(st.ctx), m)
         /\ m \in Nat /\ q \in Nat /\ st.nfcb <= m /\ m <= MaxFcb + 1 /\ q <= MaxPipe + 1
         /\ DOMAIN st.fcb = Index /\ \A i \in Index : DOMAIN st.fcb[i] = FcbFields /\ st.fcb[i].nopen \in Nat
         /\ Index \in SUBSET Nat /\ NOFID \notin Index /\ ROOTFCB \in Index
         /\ \A t \in Pid : DOMAIN st.ctx[t] = CtxFields /\ Listed(st.ctx[t].open)
         /\ Listed(st.mtab) /\ Listed(st.dev)
  <1>1. PipesInOrder(st) /\ Slots(st.fcb, st.nfcb, View(st.ctx, st.mtab), Paths(st.ctx), m) /\ Unnamed(st, q)
    BY DEF Kept
  <1>2. Index \subseteq Nat /\ NOFID \notin Index /\ ROOTFCB \in Index /\ \A i \in Index : st.fcb[i].nopen \in Nat
    BY <1>1, TopHeld
  <1>. QED BY <1>1, <1>2 DEF PipesInOrder, Slots, Unnamed, CtxOK

(* Counts grow, modes and storage change. *)
LEMMA KeptGrown ==
  ASSUME NEW E, NEW st, NEW m, NEW q, Kept(E, st, m, q), NEW g, Grown(st.fcb, g)
  PROVE  Kept(E, [st EXCEPT !.fcb = g], m, q)
  <1>. DEFINE A == View(st.ctx, st.mtab)
              P == Paths(st.ctx)
              st2 == [st EXCEPT !.fcb = g]
  <1>0. Slots(st.fcb, st.nfcb, A, P, m) /\ DOMAIN st = Fields
    BY KeptTypes
  <1>1. Fewer(A, A, {Top}) /\ Relies(A, P, A, P, {Top})
    BY DEF Fewer, Relies
  <1>2. A[Top] = ROOTFCB /\ P[Top] = <<>>
    BY ViewTop
  <1>3. Slots(g, st.nfcb, A, P, m)
    <2>. HIDE DEF A, P
    <2>. QED BY <1>0, <1>1, <1>2, SlotsKept
  <1>4. PipesInOrder(st2)
    BY KeptTypes, OrderSetFcb
  <1>5. /\ st2.fcb = g /\ st2.nfcb = st.nfcb /\ st2.ctx = st.ctx /\ st2.mtab = st.mtab /\ st2.dev = st.dev
        /\ st2.pipe = st.pipe /\ st2.npipe = st.npipe
    BY <1>0 DEF Fields
  <1>. HIDE DEF st2
  <1>. QED BY <1>3, <1>4, <1>5, KeptSlots DEF st2

(* fcb_add takes a free slot, or finds the one of the path. *)
LEMMA KeptFcbAdd ==
  ASSUME NEW E, NEW st, NEW m, NEW q, Kept(E, st, m, q), m <= MaxFcb, NEW p, NEW type
  PROVE  /\ Kept(E, fcb_add(st, p, type), m + 1, q)
         /\ fcb_add(st, p, type).ret \in Index
  <1>. DEFINE f == st.fcb
              n == st.nfcb
              S == {j \in 0..n : j = n \/ f[j].path = Free}
              i == Least(S)
              g == [f EXCEPT ![i].path = p, ![i].type = type]
              k == IF i = n THEN n + 1 ELSE n
              st2 == fcb_add(st, p, type)
              A == View(st.ctx, st.mtab)
              P == Paths(st.ctx)
  <1>0. /\ Slots(f, n, A, P, m) /\ DOMAIN st = Fields /\ n \in Nat /\ m \in Nat /\ n <= m /\ PipesInOrder(st)
        /\ DOMAIN f = Index /\ \A j \in Index : DOMAIN f[j] = FcbFields
    BY KeptTypes
  <1>1. MaxFcb \in Nat /\ MaxPipe \in Nat
    BY TableAssumption
  <1>2. CASE fcb_get(st, p) # NOFID
    <2>1. st2 = Ok(st, fcb_get(st, p))
      BY <1>2 DEF fcb_add
    <2>2. Kept(E, st2, m, q)
      BY <2>1, KeptFail
    <2>3. q \in Nat /\ q <= MaxPipe + 1
      BY KeptTypes
    <2>4. Kept(E, st2, m + 1, q)
      <3>. HIDE DEF st2
      <3>1. m + 1 \in Nat /\ m <= m + 1 /\ m + 1 <= MaxFcb + 1 /\ q <= q
        BY <1>0, <1>1, <2>3
      <3>. QED BY <2>2, <2>3, <3>1, KeptMore
    <2>5. fcb_get(st, p) \in 0..(n - 1)
      BY <1>0, <1>2, FcbGetIs
    <2>6. st2.ret = fcb_get(st, p)
      BY <2>1, <1>0 DEF Ok, Fields
    <2>7. fcb_get(st, p) \in Index
      <3>1. \A r \in 0..(n - 1) : r \in 0..MaxFcb
        BY <1>0, <1>1
      <3>. QED BY <2>5, <3>1 DEF Index
    <2>. QED BY <2>4, <2>6, <2>7
  <1>3. CASE fcb_get(st, p) = NOFID
    <2>1. st2 = Ok([st EXCEPT !.nfcb = IF i = @ THEN @ + 1 ELSE @,
                              !.fcb[i].path = p, !.fcb[i].type = type], i)
      BY <1>3 DEF fcb_add
    <2>2. i \in 0..n /\ (i = n \/ f[i].path = Free)
      <3>1. S \in SUBSET Nat /\ n \in S
        BY <1>0
      <3>2. Least(S) \in S
        <4>. HIDE DEF S, i
        <4>. QED BY <3>1, LeastIs
      <3>. QED BY <3>2
    <2>3. st2.fcb = g /\ st2.nfcb = k /\ st2.ret = i /\ k \in {n, n + 1}
      <3>. HIDE DEF i, st2
      <3>. QED BY <2>1, <1>0 DEF Ok, Fields
    <2>4. /\ DOMAIN g = Index /\ \A j \in Index : DOMAIN g[j] = FcbFields /\ g[j].nopen = f[j].nopen
          /\ \A j \in Index : j # i => g[j].path = f[j].path /\ g[j].type = f[j].type
      <3>. HIDE DEF i
      <3>. QED BY <1>0 DEF FcbFields
    <2>5. Slots(g, k, A, P, m + 1)
      <3>. HIDE DEF f, n, i, g, k, A, P
      <3>. QED BY <1>0, <2>2, <2>3, <2>4, SlotsAdded
    <2>6. PipesInOrder(st2)
      BY <1>0, OrderFcbAdd
    <2>7. st2.ctx = st.ctx /\ st2.mtab = st.mtab /\ st2.dev = st.dev /\ st2.pipe = st.pipe /\ st2.npipe = st.npipe
      <3>. HIDE DEF i, st2
      <3>. QED BY <2>1, <1>0 DEF Ok, Fields
    <2>8. Kept(E, st2, m + 1, q)
      <3>. HIDE DEF st2, f, n, i, g, k
      <3>. QED BY <2>3, <2>5, <2>6, <2>7, KeptSlots
    <2>9. i \in Index
      <3>. HIDE DEF i, n
      <3>. QED BY <1>0, <1>1, <2>2 DEF Index
    <2>. QED BY <2>3, <2>8, <2>9
  <1>. QED BY <1>2, <1>3

(* fcb_free frees slots that nobody holds. *)
LEMMA KeptFcbFree ==
  ASSUME NEW E, NEW st, NEW m, NEW q, Kept(E, st, m, q)
  PROVE  Kept(E, fcb_free(st), m, q)
  <1>. DEFINE f == st.fcb
              n == st.nfcb
              unused == {i \in 0..(n - 1) : f[i].nopen = 0}
              g == [i \in DOMAIN f |-> IF i \in unused THEN [f[i] EXCEPT !.path = Free] ELSE f[i]]
              k == IF \E i \in unused : f[i].path # Free THEN Shrunk(g, n) ELSE n
              st2 == fcb_free(st)
              A == View(st.ctx, st.mtab)
              P == Paths(st.ctx)
  <1>0. /\ Slots(f, n, A, P, m) /\ DOMAIN st = Fields /\ n \in Nat /\ PipesInOrder(st)
        /\ DOMAIN f = Index /\ \A j \in Index : DOMAIN f[j] = FcbFields
    BY KeptTypes
  <1>1. /\ st2.fcb = g /\ st2.nfcb = k /\ st2.ctx = st.ctx /\ st2.mtab = st.mtab /\ st2.dev = st.dev
        /\ st2.pipe = st.pipe /\ st2.npipe = st.npipe
    BY <1>0 DEF fcb_free, Fields
  <1>2. Cut(g, n, k)
    <2>1. Cut(g, n, Shrunk(g, n))
      <3>. HIDE DEF g, n
      <3>. QED BY <1>0, ShrunkIs DEF Cut
    <2>2. Cut(g, n, n)
      BY <1>0 DEF Cut
    <2>. HIDE DEF g, n
    <2>. QED BY <2>1, <2>2
  <1>3. /\ DOMAIN g = Index /\ \A j \in Index : DOMAIN g[j] = FcbFields /\ g[j].type = f[j].type
        /\ \A j \in Index : g[j].nopen = f[j].nopen
        /\ \A j \in Index : f[j].nopen # 0 => g[j].path = f[j].path
    BY <1>0 DEF FcbFields
  <1>4. Slots(g, k, A, P, m)
    <2>. HIDE DEF f, n, g, k, A, P
    <2>. QED BY <1>0, <1>2, <1>3, SlotsFreed
  <1>5. PipesInOrder(st2)
    BY <1>0, OrderFcbFree
  <1>6. Kept(E, st2, m, q)
    <2>. HIDE DEF st2, f, n, g, k
    <2>. QED BY <1>1, <1>4, <1>5, KeptSlots
  <1>. QED BY <1>6

-----------------------------------------------------------------------------
(* pipe.c *)

(* pipe_add adds an anonymous pipe. *)
LEMMA KeptPipeAdd ==
  ASSUME NEW E, NEW st, NEW m, NEW q, Kept(E, st, m, q), q <= MaxPipe
  PROVE  Kept(E, pipe_add(st, ANONYMOUS), m, q + 1)
  <1>. DEFINE n == st.npipe
              S == {j \in 0..n : j = n \/ st.pipe[j].nopen = 0}
              i == Least(S)
              st2 == pipe_add(st, ANONYMOUS)
  <1>0. /\ DOMAIN st = Fields /\ PipesInOrder(st) /\ DOMAIN st.pipe = 0..MaxPipe
        /\ n \in Nat /\ q \in Nat /\ n <= q /\ \A j \in 0..MaxPipe : j < n => st.pipe[j].fid = ANONYMOUS
        /\ MaxPipe \in Nat /\ \A j \in 0..MaxPipe : DOMAIN st.pipe[j] = PipeFields
    BY KeptTypes, TableAssumption DEF Kept, Unnamed, PipesInOrder, PipeOK
  <1>1. st2 = Ok([st EXCEPT !.npipe = IF i = @ THEN @ + 1 ELSE @,
                            !.npipes = @ + 1,
                            !.pipe[i] = [@ EXCEPT !.fid = ANONYMOUS, !.reader = Nobody, !.rd = 0,
                                                  !.direct = FALSE, !.data = <<>>,
                                                  !.id = st.npipes + 1, !.wrote = 0, !.got = <<>>]], i)
    BY DEF pipe_add
  <1>2. i \in 0..n
    <2>1. S \in SUBSET Nat /\ n \in S
      BY <1>0
    <2>2. Least(S) \in S
      <3>. HIDE DEF S, i
      <3>. QED BY <2>1, LeastIs
    <2>. QED BY <2>2
  <1>. HIDE DEF i
  <1>3. /\ st2.fcb = st.fcb /\ st2.nfcb = st.nfcb /\ st2.mtab = st.mtab /\ st2.dev = st.dev /\ st2.ctx = st.ctx
        /\ st2.npipe = IF i = n THEN n + 1 ELSE n
    <2>. HIDE DEF st2
    <2>. QED BY <1>0, <1>1 DEF Ok, Fields
  <1>4. \A j \in 0..MaxPipe : st2.pipe[j].fid = IF j = i THEN ANONYMOUS ELSE st.pipe[j].fid
    <2>. HIDE DEF st2
    <2>. QED BY <1>0, <1>1 DEF Ok, Fields, PipeFields
  <1>5. PipesInOrder(st2)
    BY <1>0, OrderPipeAdd
  <1>. HIDE DEF st2, n
  <1>6. Unnamed(st2, q + 1)
    <2>1. st2.npipe \in Nat /\ st2.npipe <= q + 1 /\ q + 1 \in Nat /\ q + 1 <= MaxPipe + 1
      BY <1>0, <1>2, <1>3
    <2>2. ASSUME NEW j \in 0..MaxPipe, j < st2.npipe PROVE st2.pipe[j].fid = ANONYMOUS
      <3>1. j # i => j < n
        BY <1>0, <1>2, <1>3, <2>2
      <3>. QED BY <1>0, <1>4, <3>1
    <2>. QED BY <2>1, <2>2 DEF Unnamed
  <1>7. SamePipes(st.pipe, st2.pipe)
    BY <1>4 DEF SamePipes
  <1>8. \A t \in Pid : SameCtx(st.ctx[t], st2.ctx[t])
    BY <1>3 DEF SameCtx
  <1>9. Kept(E, st2, m, q + 1)
    BY <1>3, <1>5, <1>6, <1>7, <1>8, KeptPipes
  <1>. QED BY <1>9 DEF st2

(* pipe_del changes no slot and names no pipe. *)
LEMMA KeptPipeDel ==
  ASSUME NEW E, NEW st, NEW m, NEW q, Kept(E, st, m, q), NEW i
  PROVE  /\ Kept(E, pipe_del(st, i), m, q)
         /\ pipe_del(st, i).ctx = st.ctx /\ pipe_del(st, i).fcb = st.fcb /\ pipe_del(st, i).nfcb = st.nfcb
         /\ \A j \in 0..MaxPipe : pipe_del(st, i).pipe[j].fid = st.pipe[j].fid
  <1>. DEFINE n == st.npipe
              st2 == pipe_del(st, i)
              p == [st.pipe EXCEPT ![i] = [@ EXCEPT !.nopen = 0, !.data = <<>>, !.rd = 0,
                                                  !.direct = FALSE, !.reader = Nobody,
                                                  !.wrote = 0, !.got = <<>>]]
              S == {k \in 0..n : \A j \in k..(n - 1) : p[j].nopen = 0}
  <1>0. /\ DOMAIN st = Fields /\ PipesInOrder(st) /\ DOMAIN st.pipe = 0..MaxPipe
        /\ n \in Nat /\ q \in Nat /\ n <= q /\ q <= MaxPipe + 1
        /\ \A j \in 0..MaxPipe : j < n => st.pipe[j].fid = ANONYMOUS
        /\ MaxPipe \in Nat /\ \A j \in 0..MaxPipe : DOMAIN st.pipe[j] = PipeFields
    BY KeptTypes, TableAssumption DEF Kept, Unnamed, PipesInOrder, PipeOK
  <1>1. CASE ~IsPipe(st, i)
    BY <1>1 DEF pipe_del
  <1>2. CASE IsPipe(st, i) /\ st.pipe[i].nopen > 1
    <2>1. st2 = [st EXCEPT !.pipe[i].nopen = @ - 1]
      BY <1>2 DEF pipe_del
    <2>2. /\ st2.fcb = st.fcb /\ st2.nfcb = st.nfcb /\ st2.mtab = st.mtab /\ st2.dev = st.dev /\ st2.ctx = st.ctx
          /\ st2.npipe = n
      BY <1>0, <2>1 DEF Fields
    <2>3. \A j \in 0..MaxPipe : st2.pipe[j].fid = st.pipe[j].fid
      BY <1>0, <2>1 DEF Fields, PipeFields
    <2>4. PipesInOrder(st2)
      BY <1>0, OrderPipeDel
    <2>5. \A t \in Pid : SameCtx(st.ctx[t], st2.ctx[t])
      BY <2>2 DEF SameCtx
    <2>. HIDE DEF st2
    <2>6. Kept(E, st2, m, q)
      BY <2>2, <2>3, <2>4, <2>5, KeptSame
    <2>. QED BY <2>2, <2>3, <2>6 DEF st2
  <1>3. CASE IsPipe(st, i) /\ ~(st.pipe[i].nopen > 1)
    <2>1. st2 = [st EXCEPT !.pipe = p, !.npipe = Least(S)]
      BY <1>0, <1>3 DEF pipe_del, Fields
    <2>2. Least(S) \in 0..n
      <3>1. S \in SUBSET Nat /\ n \in S
        BY <1>0
      <3>2. Least(S) \in S
        <4>. HIDE DEF S
        <4>. QED BY <3>1, LeastIs
      <3>. QED BY <3>2
    <2>3. \A j \in 0..MaxPipe : p[j].fid = st.pipe[j].fid
      BY <1>0 DEF PipeFields
    <2>. HIDE DEF S, p
    <2>4. /\ st2.fcb = st.fcb /\ st2.nfcb = st.nfcb /\ st2.mtab = st.mtab /\ st2.dev = st.dev /\ st2.ctx = st.ctx
          /\ st2.npipe = Least(S) /\ st2.pipe = p
      BY <1>0, <2>1 DEF Fields
    <2>5. PipesInOrder(st2)
      BY <1>0, OrderPipeDel
    <2>6. \A t \in Pid : SameCtx(st.ctx[t], st2.ctx[t])
      BY <2>4 DEF SameCtx
    <2>. HIDE DEF st2
    <2>7. Unnamed(st2, q) /\ SamePipes(st.pipe, st2.pipe)
      <3>1. st2.npipe \in Nat /\ st2.npipe <= n
        BY <1>0, <2>2, <2>4
      <3>. HIDE DEF n
      <3>2. st2.npipe <= q /\ \A j \in 0..MaxPipe : j < st2.npipe => j < n
        BY <1>0, <3>1
      <3>. QED BY <1>0, <2>3, <2>4, <3>1, <3>2 DEF Unnamed, SamePipes
    <2>8. Kept(E, st2, m, q)
      BY <2>4, <2>5, <2>6, <2>7, KeptPipes
    <2>. QED BY <2>3, <2>4, <2>8 DEF st2
  <1>. QED BY <1>1, <1>2, <1>3

(* Only pipes, and not their files, have changed. *)
LEMMA KeptBytes ==
  ASSUME NEW E, NEW st, NEW m, NEW q, Kept(E, st, m, q), NEW i, NEW p, NEW delay, NEW ret,
         i \in 0..MaxPipe => PipeOK(p) /\ p.fid = st.pipe[i].fid
  PROVE  /\ Kept(E, Ok([st EXCEPT !.pipe[i] = p], ret), m, q)
         /\ Kept(E, Ok([st EXCEPT !.pipe[i] = p, !.delay = delay], ret), m, q)
         /\ Kept(E, [st EXCEPT !.pipe[i] = p], m, q)
  <1>0. DOMAIN st = Fields /\ PipesInOrder(st) /\ DOMAIN st.pipe = 0..MaxPipe
    BY KeptTypes
  <1>1. Kept(E, [st EXCEPT !.pipe[i] = p], m, q)
    <2>. DEFINE st2 == [st EXCEPT !.pipe[i] = p]
    <2>1. PipesInOrder(st2)
      BY <1>0, OrderSetPipe
    <2>2. /\ st2.fcb = st.fcb /\ st2.nfcb = st.nfcb /\ st2.mtab = st.mtab /\ st2.dev = st.dev /\ st2.ctx = st.ctx
          /\ st2.npipe = st.npipe /\ \A j \in 0..MaxPipe : st2.pipe[j].fid = st.pipe[j].fid
      BY <1>0 DEF Fields
    <2>. HIDE DEF st2
    <2>3. \A t \in Pid : SameCtx(st.ctx[t], st2.ctx[t])
      BY <2>2 DEF SameCtx
    <2>4. Kept(E, st2, m, q)
      BY <2>1, <2>2, <2>3, KeptSame
    <2>. QED BY <2>4 DEF st2
  <1>2. Kept(E, [st EXCEPT !.pipe[i] = p, !.delay = delay], m, q)
    <2>. DEFINE st1 == [st EXCEPT !.pipe[i] = p]
                st2 == [st EXCEPT !.pipe[i] = p, !.delay = delay]
    <2>1. DOMAIN st2 = Fields /\ \A f \in Tables : st2[f] = st1[f]
      BY <1>0 DEF Fields, Tables
    <2>. HIDE DEF st1, st2
    <2>2. Kept(E, st2, m, q)
      BY <1>1, <2>1, KeptCopy DEF st1
    <2>. QED BY <2>2 DEF st2
  <1>. QED BY <1>1, <1>2, KeptFail

(* pipe_read changes the bytes of a pipe and its reader. *)
LEMMA KeptPipeRead ==
  ASSUME NEW E, NEW st, NEW m, NEW q, Kept(E, st, m, q), NEW i, NEW size \in Nat, NEW pid \in Pid
  PROVE  Kept(E, pipe_read(st, i, size, pid), m, q)
  <1>. DEFINE st2 == pipe_read(st, i, size, pid)
  <1>0. DOMAIN st = Fields /\ PipesInOrder(st) /\ DOMAIN st.pipe = 0..MaxPipe
        /\ \A j \in 0..MaxPipe : DOMAIN st.pipe[j] = PipeFields
    BY KeptTypes DEF PipesInOrder, PipeOK
  <1>1. PipesInOrder(st2)
    BY <1>0, OrderPipeRead
  <1>2. /\ st2.fcb = st.fcb /\ st2.nfcb = st.nfcb /\ st2.mtab = st.mtab /\ st2.dev = st.dev /\ st2.ctx = st.ctx
        /\ st2.npipe = st.npipe /\ \A j \in 0..MaxPipe : st2.pipe[j].fid = st.pipe[j].fid
    BY <1>0 DEF pipe_read, Fail, Ok, Fields, PipeFields
  <1>. HIDE DEF st2
  <1>3. \A t \in Pid : SameCtx(st.ctx[t], st2.ctx[t])
    BY <1>2 DEF SameCtx
  <1>4. Kept(E, st2, m, q)
    BY <1>1, <1>2, <1>3, KeptSame
  <1>. QED BY <1>4 DEF st2

(* A context with another message holds what it held. *)
LEMMA SameMsg ==
  ASSUME NEW E, NEW st, NEW m, NEW q, Kept(E, st, m, q), NEW t, t \in Pid => st.ctx[t] # NoCtx,
         NEW msg, msg.fn = "fread" => msg.n \in Nat, NEW out
  PROVE  Kept(E, [st EXCEPT !.ctx[t].msg = msg], m, q) /\ Kept(E, [st EXCEPT !.ctx[t].msg = msg, !.out = out], m, q)
  <1>. DEFINE st2 == [st EXCEPT !.ctx[t].msg = msg]
              st3 == [st EXCEPT !.ctx[t].msg = msg, !.out = out]
  <1>0. DOMAIN st = Fields /\ PipesInOrder(st) /\ DOMAIN st.ctx = Pid
        /\ \A u \in Pid : DOMAIN st.ctx[u] = CtxFields
    BY KeptTypes
  <1>1. PipesInOrder(st2)
    BY <1>0 DEF PipesInOrder, CtxOK, Fields, CtxFields
  <1>2. /\ st2.fcb = st.fcb /\ st2.nfcb = st.nfcb /\ st2.mtab = st.mtab /\ st2.dev = st.dev
        /\ st2.npipe = st.npipe /\ st2.pipe = st.pipe
    BY <1>0 DEF Fields
  <1>3. \A u \in Pid : SameCtx(st.ctx[u], st2.ctx[u])
    BY <1>0 DEF SameCtx, CtxFields, Fields
  <1>4. DOMAIN st3 = Fields /\ \A f \in Tables : st3[f] = st2[f]
    BY <1>0 DEF Fields, Tables
  <1>. HIDE DEF st2, st3
  <1>5. Kept(E, st2, m, q)
    BY <1>1, <1>2, <1>3, KeptSame
  <1>6. Kept(E, st3, m, q)
    BY <1>4, <1>5, KeptCopy
  <1>. QED BY <1>5, <1>6 DEF st2, st3

(* The reader that is woken keeps what it holds. *)
LEMMA KeptWake ==
  ASSUME NEW E, NEW st, NEW m, NEW q, Kept(E, st, m, q), NEW t, t \in Pid => st.ctx[t] # NoCtx
  PROVE  Kept(E, Wake(st, t), m, q)
  <1>. DEFINE out == Append(st.out, [to |-> t, ret |-> 0, err |-> "none"])
  <1>1. Wake(st, t) = [st EXCEPT !.ctx[t].msg = NoMsg, !.out = out]
    <2>1. DOMAIN st = Fields
      BY KeptTypes
    <2>. QED BY <2>1 DEF Wake, Fields
  <1>2. NoMsg.fn = "fread" => NoMsg.n \in Nat
    BY DEF NoMsg
  <1>. HIDE DEF out
  <1>3. Kept(E, [st EXCEPT !.ctx[t].msg = NoMsg, !.out = out], m, q)
    BY <1>2, SameMsg
  <1>. QED BY <1>1, <1>3

(* The numbers of pipes in use. *)
LEMMA PipeIndex ==
  ASSUME NEW E, NEW st, NEW m, NEW q, Kept(E, st, m, q), NEW i, IsPipe(st, i)
  PROVE  i \in 0..MaxPipe /\ st.pipe[i].fid = ANONYMOUS
  <1>1. st.npipe \in Nat /\ q \in Nat /\ st.npipe <= q /\ q <= MaxPipe + 1 /\ MaxPipe \in Nat
    BY TableAssumption DEF Kept, Unnamed
  <1>2. i \in Nat /\ i < st.npipe
    BY <1>1 DEF IsPipe
  <1>3. i \in 0..MaxPipe
    BY <1>1, <1>2
  <1>. QED BY <1>2, <1>3 DEF Kept, Unnamed

(* pipe_write changes the bytes of a pipe and wakes its reader. *)
LEMMA KeptPipeWrite ==
  ASSUME NEW E, NEW st, NEW m, NEW q, Kept(E, st, m, q), NEW i, NEW size \in Nat
  PROVE  Kept(E, pipe_write(st, i, size), m, q)
  <1>. DEFINE p == st.pipe[i]
              bytes == [k \in 1..size |-> p.wrote + k]
              back == [p EXCEPT !.direct = FALSE, !.data = @ \o bytes, !.wrote = @ + size]
              given == [p EXCEPT !.direct = TRUE, !.wrote = @ + size, !.got = @ \o bytes]
              stored == [st EXCEPT !.pipe[i] = back]
              handed == [st EXCEPT !.pipe[i] = given]
              k == st.ctx[p.reader].msg.n
              taken == pipe_read(stored, i, k, p.reader)
              blocked == /\ p.reader # Nobody /\ st.ctx[p.reader] # NoCtx
                         /\ st.ctx[p.reader].msg.fn = "fread"
  <1>. SUFFICES ASSUME IsPipe(st, i) PROVE Kept(E, pipe_write(st, i, size), m, q)
    BY KeptFail DEF pipe_write
  <1>0. i \in 0..MaxPipe /\ DOMAIN st = Fields /\ PipesInOrder(st) /\ DOMAIN st.ctx = Pid
    BY PipeIndex, KeptTypes
  <1>1. /\ PipeOK(back) /\ back.fid = p.fid
        /\ p.data = <<>> => PipeOK(given) /\ given.fid = p.fid
    <2>2. /\ p.data \in Seq(Nat) /\ p.got \in Seq(Nat) /\ p.wrote \in Nat /\ p.rd \in Nat
          /\ InOrder(p.data, p.got, p.wrote, p.rd) /\ DOMAIN p = PipeFields
          /\ p.reader \in Pid \union {Nobody}
      BY <1>0 DEF PipesInOrder, PipeOK, InOrder
    <2>. HIDE DEF p
    <2>3. /\ InOrder(p.data \o bytes, p.got, p.wrote + size, p.rd)
          /\ p.data = <<>> => InOrder(p.data, p.got \o bytes, p.wrote + size, p.rd)
      BY <2>2, OrderWrite
    <2>. HIDE DEF bytes
    <2>. QED BY <2>2, <2>3 DEF PipeOK, PipeFields
  <1>2. /\ Kept(E, stored, m, q) /\ Kept(E, Ok(stored, TRUE), m, q)
        /\ p.data = <<>> => Kept(E, handed, m, q)
    <2>. HIDE DEF back, given
    <2>. QED BY <1>1, KeptBytes
  <1>3. stored.ctx = st.ctx /\ handed.ctx = st.ctx
    <2>. HIDE DEF back, given
    <2>. QED BY <1>0 DEF Fields
  <1>4. ASSUME blocked PROVE p.reader \in Pid /\ k \in Nat
    BY <1>0, <1>4 DEF PipesInOrder, PipeOK, CtxOK
  <1>5. ASSUME blocked PROVE Kept(E, taken, m, q) /\ taken.ctx = st.ctx
    <2>. HIDE DEF stored, k, p, blocked
    <2>1. Kept(E, taken, m, q)
      BY <1>2, <1>4, <1>5, KeptPipeRead
    <2>2. DOMAIN stored = Fields
      BY <1>2, KeptTypes
    <2>3. taken.ctx = stored.ctx
      BY <2>2 DEF pipe_read, Fail, Ok, Fields
    <2>. QED BY <1>3, <2>1, <2>3
  <1>6. ASSUME blocked PROVE Kept(E, Ok(Wake(taken, p.reader), TRUE), m, q)
    <2>1. p.reader \in Pid => taken.ctx[p.reader] # NoCtx
      <3>. HIDE DEF taken
      <3>. QED BY <1>5, <1>6
    <2>. HIDE DEF taken, p, blocked
    <2>. QED BY <1>5, <1>6, <2>1, KeptWake, KeptFail
  <1>7. ASSUME blocked, p.data = <<>> PROVE Kept(E, Ok(Wake(handed, p.reader), TRUE), m, q)
    <2>1. p.reader \in Pid => handed.ctx[p.reader] # NoCtx
      <3>. HIDE DEF handed
      <3>. QED BY <1>3, <1>7
    <2>. HIDE DEF handed, p, blocked
    <2>. QED BY <1>2, <1>7, <2>1, KeptWake, KeptFail
  <1>. QED
    <2>. HIDE DEF k
    <2>. QED BY <1>2, <1>6, <1>7 DEF pipe_write, k

-----------------------------------------------------------------------------
(* taskctx.c *)

(* The holders of B but x. *)
Without(B, C, x) == DOMAIN C = DOMAIN B /\ C[x] = NOFID /\ \A y \in DOMAIN B : y # x => C[y] = B[y]
(* Two steps in one: first all holders but x, then x. *)
LEMMA Between ==
  ASSUME NEW A, NEW P, NEW B, NEW Q, NEW X, NEW x \in DOMAIN A, Top \in X,
         Fewer(A, B, X \union {x}), Relies(A, P, B, Q, X \union {x}),
         NEW C, Without(B, C, x)
  PROVE  /\ Fewer(A, C, X) /\ Relies(A, P, C, Q, X)
         /\ Fewer(C, B, {x, Top}) /\ Relies(C, Q, B, Q, {x, Top})
  <1>1. DOMAIN B = DOMAIN A
    BY DEF Fewer
  <1>2. DOMAIN C = DOMAIN A /\ C[x] = NOFID /\ \A y \in DOMAIN A : y # x => C[y] = B[y]
    BY <1>1 DEF Without
  <1>3. Fewer(A, C, X) /\ Relies(A, P, C, Q, X)
    BY <1>1, <1>2 DEF Fewer, Relies
  <1>4. Fewer(C, B, {x, Top}) /\ Relies(C, Q, B, Q, {x, Top})
    BY <1>1, <1>2 DEF Fewer, Relies
  <1>. QED BY <1>3, <1>4

(* A context without open files. *)
LEMMA NewCtxIs ==
  /\ NewCtx.root = ROOTFCB /\ WorkOf(NewCtx) = ROOTFCB /\ NewCtx.open = <<>> /\ NewCtx # NoCtx
  /\ NoCtx.root = NOFID /\ WorkOf(NoCtx) = NOFID /\ NoCtx.open = <<>>
  /\ DOMAIN NewCtx.open = {} /\ DOMAIN NoCtx.open = {}
  /\ \A d : SlotAt(NewCtx, d) = NOFID /\ SlotAt(NoCtx, d) = NOFID
  <1>1. DOMAIN NewCtx.open = {} /\ DOMAIN NoCtx.open = {}
    BY EmptySeq DEF NewCtx, NoCtx
  <1>2. NewCtx.root = ROOTFCB /\ NoCtx.root = NOFID /\ NewCtx.work = ROOTFCB /\ NewCtx.open = <<>> /\ NoCtx.open = <<>>
    BY DEF NewCtx, NoCtx
  <1>3. ROOTFCB # NOFID
    BY DEF ROOTFCB, NOFID
  <1>4. NewCtx # NoCtx
    BY <1>2, <1>3
  <1>. QED BY <1>1, <1>2, <1>3, <1>4 DEF WorkOf, SlotAt

(* A new context is counted twice in the root directory; those it displaces hold nothing. *)
LEMMA KeptGet ==
  ASSUME NEW E, NEW st, NEW m, NEW q, Kept(E, st, m, q), NEW t \in Pid
  PROVE  Kept(E, taskctx_get(st, t), m, q) /\ taskctx_get(st, t).ctx[t] # NoCtx
  <1>. SUFFICES ASSUME st.ctx[t] = NoCtx
                PROVE  Kept(E, taskctx_get(st, t), m, q) /\ taskctx_get(st, t).ctx[t] # NoCtx
    BY DEF taskctx_get
  <1>. DEFINE st2 == taskctx_get(st, t)
              ctx == st.ctx
              ctx2 == st2.ctx
              mt == st.mtab
              f == st.fcb
              n == st.nfcb
              g == [f EXCEPT ![ROOTFCB].nopen = @ + 1]
              h == [f EXCEPT ![ROOTFCB].nopen = @ + 2]
              A == View(ctx, mt)
              P == Paths(ctx)
              B == View(ctx2, mt)
              Q == Paths(ctx2)
              C == [B EXCEPT ![Work(t)] = NOFID]
  <1>0. /\ Slots(f, n, A, P, m) /\ DOMAIN st = Fields /\ PipesInOrder(st) /\ DOMAIN ctx = Pid
        /\ DOMAIN f = Index /\ \A j \in Index : DOMAIN f[j] = FcbFields /\ f[j].nopen \in Nat
        /\ ROOTFCB \in Index
    BY KeptTypes
  <1>1. /\ st2.fcb = h /\ st2.nfcb = n /\ st2.mtab = mt /\ st2.dev = st.dev /\ st2.pipe = st.pipe /\ st2.npipe = st.npipe
        /\ ctx2 = [u \in Pid |-> IF u = t THEN NewCtx ELSE IF Hash[u] = Hash[t] THEN NoCtx ELSE ctx[u]]
    BY <1>0 DEF taskctx_get, Fields
  <1>2. Grown(f, g) /\ Grown(g, h) /\ f[ROOTFCB].nopen + 1 <= g[ROOTFCB].nopen /\ g[ROOTFCB].nopen + 1 <= h[ROOTFCB].nopen
    BY <1>0 DEF Grown, FcbFields
  <1>3. ctx2[t] = NewCtx /\ \A u \in Pid \ {t} : ctx2[u] = ctx[u] \/ ctx2[u] = NoCtx
    BY <1>1
  <1>4. PipesInOrder(st2)
    BY <1>0, OrderGet
  <1>. HIDE DEF st2
  <1>5. Fewer(A, B, {Root(t), Top} \union {Work(t)}) /\ Relies(A, P, B, Q, {Root(t), Top} \union {Work(t)})
    <2>. DEFINE X == {Root(t), Top} \union {Work(t)}
    <2>1. Top \in X /\ Root(t) \in X /\ Work(t) \in X
      OBVIOUS
    <2>2. \A d \in Nat : SlotAt(ctx2[t], d) = NOFID
      BY <1>3, NewCtxIs
    <2>. HIDE DEF X, ctx, ctx2, mt
    <2>3. Fewer(A, B, X) /\ Relies(A, P, B, Q, X)
      BY <1>3, <2>1, <2>2, ViewOfTask
    <2>. QED BY <2>3 DEF X
  <1>6. /\ Root(t) \in DOMAIN A /\ Work(t) \in DOMAIN A /\ Root(t) # Top /\ Work(t) # Top /\ Root(t) # Work(t)
        /\ B[Root(t)] = ROOTFCB /\ B[Work(t)] = ROOTFCB /\ B[Top] = ROOTFCB /\ Q[Top] = <<>>
        /\ Q[Root(t)] = Free /\ Q[Work(t)] = Free
    <2>1. Root(t) \in Tags /\ Work(t) \in Tags /\ Root(t) # Top /\ Work(t) # Top /\ DOMAIN A = Tags
      BY TagsAre, ViewIs
    <2>2. Root(t) # Work(t) /\ \A u, d : Root(t) # Open(u, d) /\ Work(t) # Open(u, d)
      BY TagsDiffer
    <2>3. Q[Root(t)] = Free /\ Q[Work(t)] = Free
      BY <2>1, <2>2, PathsAre
    <2>4. B[Root(t)] = ROOTFCB /\ B[Work(t)] = ROOTFCB
      <3>1. B[Root(t)] = ctx2[t].root /\ B[Work(t)] = WorkOf(ctx2[t])
        BY ViewIs
      <3>. QED BY <3>1, <1>3, NewCtxIs
    <2>5. B[Top] = ROOTFCB /\ Q[Top] = <<>>
      BY ViewTop
    <2>. QED BY <2>1, <2>2, <2>3, <2>4, <2>5
  <1>. HIDE DEF A, B, P, Q, f, n, g, h
  <1>7. /\ Fewer(A, C, {Root(t), Top}) /\ Relies(A, P, C, Q, {Root(t), Top})
        /\ Fewer(C, B, {Work(t), Top}) /\ Relies(C, Q, B, Q, {Work(t), Top})
        /\ Without(B, C, Work(t))
    <2>. DEFINE X == {Root(t), Top}
    <2>1. Top \in X /\ Fewer(A, B, X \union {Work(t)}) /\ Relies(A, P, B, Q, X \union {Work(t)}) /\ Work(t) \in DOMAIN A
      BY <1>5, <1>6
    <2>2. Without(B, C, Work(t))
      <3>1. DOMAIN B = DOMAIN A
        BY <1>5 DEF Fewer
      <3>. QED BY <1>6, <3>1 DEF Without
    <2>. HIDE DEF X, C
    <2>3. /\ Fewer(A, C, X) /\ Relies(A, P, C, Q, X)
          /\ Fewer(C, B, {Work(t), Top}) /\ Relies(C, Q, B, Q, {Work(t), Top})
      BY <2>1, <2>2, Between
    <2>. QED BY <2>2, <2>3 DEF X
  <1>8. Slots(g, n, C, Q, m)
    <2>1. C[Root(t)] = ROOTFCB /\ C[Top] = ROOTFCB
      BY <1>6
    <2>. HIDE DEF C
    <2>. QED BY <1>0, <1>2, <1>6, <1>7, <2>1, SlotsTaken
  <1>9. Slots(h, n, B, Q, m)
    <2>1. Work(t) \in DOMAIN C
      BY <1>6, <1>7 DEF Fewer
    <2>. HIDE DEF C
    <2>. QED BY <1>0, <1>2, <1>6, <1>7, <1>8, <2>1, SlotsTaken
  <1>10. Tasks(st2.pipe, ctx2)
    <2>. SUFFICES ASSUME NEW u \in Pid
                  PROVE  /\ \A d \in DOMAIN ctx2[u].open : DescOK(st2.pipe, ctx2[u].open[d])
                         /\ ctx2[u].root = NOFID => ctx2[u] = NoCtx
      BY DEF Tasks
    <2>1. ctx2[u] = NewCtx \/ ctx2[u] = NoCtx \/ ctx2[u] = ctx[u]
      BY <1>3
    <2>2. \A d \in DOMAIN ctx[u].open : DescOK(st2.pipe, ctx[u].open[d])
      BY <1>1 DEF Kept, Tasks
    <2>3. ctx[u].root = NOFID => ctx[u] = NoCtx
      BY DEF Kept, Tasks
    <2>4. NewCtx.root # NOFID
      BY NewCtxIs DEF ROOTFCB, NOFID
    <2>. QED BY <2>1, <2>2, <2>3, <2>4, NewCtxIs
  <1>11. Kept(E, st2, m, q)
    <2>1. Unnamed(st2, q) /\ Mounts(st2.mtab) /\ Devices(st2.dev, E)
      BY <1>1 DEF Kept, Unnamed
    <2>2. Slots(st2.fcb, st2.nfcb, View(st2.ctx, st2.mtab), Paths(st2.ctx), m)
      BY <1>1, <1>9 DEF B, Q, h, n
    <2>. QED BY <1>4, <1>10, <2>1, <2>2 DEF Kept
  <1>12. st2.ctx[t] # NoCtx
    BY <1>3, NewCtxIs
  <1>. QED BY <1>11, <1>12 DEF st2

(* The descriptor a new open file gets is a new one or one that is closed. *)
LEMMA DescriptorIs ==
  ASSUME NEW st, NEW t, Listed(st.ctx[t].open), NEW want
  PROVE  LET open == st.ctx[t].open
             d == Descriptor(st, t, want)
         IN  d \in 1..(Len(open) + 1) /\ (d <= Len(open) => open[d].fid = NOFID)
  <1>. DEFINE open == st.ctx[t].open
              S == {d \in 1..(Len(open) + 1) : d > Len(open) \/ open[d].fid = NOFID}
  <1>1. Len(open) \in Nat
    BY ListedKept
  <1>. HIDE DEF open
  <1>2. S \in SUBSET Nat /\ Len(open) + 1 \in S
    BY <1>1
  <1>3. Least(S) \in S
    <2>. HIDE DEF S
    <2>. QED BY <1>2, LeastIs
  <1>4. Descriptor(st, t, want) = IF want \in 1..Len(open) /\ open[want].fid = NOFID THEN want ELSE Least(S)
    BY DEF Descriptor, open
  <1>. DEFINE d == Descriptor(st, t, want)
              l == Least(S)
  <1>5. l \in 1..(Len(open) + 1) /\ (l <= Len(open) => open[l].fid = NOFID)
    BY <1>1, <1>3
  <1>. HIDE DEF l, S
  <1>6. d \in 1..(Len(open) + 1) /\ (d <= Len(open) => open[d].fid = NOFID)
    BY <1>1, <1>4, <1>5 DEF l
  <1>. QED BY <1>6 DEF open

(* A file is put into the list of a task. *)
LEMMA PutFileIs ==
  ASSUME NEW E, NEW st, NEW m, NEW q, Kept(E, st, m, q), NEW t \in Pid, NEW want, NEW of
  PROVE  LET d == Descriptor(st, t, want)
             st2 == PutFile(st, t, d, of)
         IN  /\ d \in Nat /\ d # 0 /\ st2.ret = d /\ SlotAt(st.ctx[t], d) = NOFID
             /\ DOMAIN st2 = Fields
             /\ \A f \in {"fcb", "nfcb", "pipe", "npipe", "dev", "mtab"} : st2[f] = st[f]
             /\ DOMAIN st2.ctx = Pid /\ \A u \in Pid \ {t} : st2.ctx[u] = st.ctx[u]
             /\ st2.ctx[t].root = st.ctx[t].root /\ st2.ctx[t].work = st.ctx[t].work
             /\ d \in DOMAIN st2.ctx[t].open /\ st2.ctx[t].open[d] = of
             /\ \A e \in Nat : e # d =>
                   /\ e \in DOMAIN st2.ctx[t].open <=> e \in DOMAIN st.ctx[t].open
                   /\ e \in DOMAIN st.ctx[t].open => st2.ctx[t].open[e] = st.ctx[t].open[e]
             /\ DOMAIN st2.ctx[t].open \subseteq Nat
  <1>. DEFINE open == st.ctx[t].open
              d == Descriptor(st, t, want)
              open2 == IF d > Len(open) THEN Append(open, of) ELSE [open EXCEPT ![d] = of]
              st2 == PutFile(st, t, d, of)
  <1>0. DOMAIN st = Fields /\ DOMAIN st.ctx = Pid /\ DOMAIN st.ctx[t] = CtxFields /\ Listed(open)
    BY KeptTypes
  <1>1. Len(open) \in Nat /\ DOMAIN open = 1..Len(open)
    BY <1>0, ListedKept
  <1>2. d \in 1..(Len(open) + 1) /\ (d <= Len(open) => open[d].fid = NOFID)
    BY <1>0, DescriptorIs
  <1>. HIDE DEF d
  <1>3. st2 = [st EXCEPT !.ctx[t].open = open2, !.ctx[t].nfiles = @ + 1, !.ret = d]
    BY <1>0 DEF PutFile, Fields, CtxFields
  <1>4. /\ DOMAIN open2 = 1..(IF d > Len(open) THEN Len(open) + 1 ELSE Len(open))
        /\ open2[d] = of /\ \A e \in 1..Len(open) : e # d => open2[e] = open[e]
    <2>. DEFINE R == {open[i] : i \in DOMAIN open}
    <2>1. open \in Seq(R)
      BY <1>0 DEF Listed
    <2>2. CASE d > Len(open)
      <3>1. d = Len(open) + 1
        <4>. HIDE DEF open
        <4>. QED BY <1>1, <1>2, <2>2
      <3>2. open \in Seq(R \union {of}) /\ of \in R \union {of}
        <4>. HIDE DEF R
        <4>. QED BY <2>1, SeqMonotonic
      <3>. HIDE DEF open, R
      <3>3. /\ Len(Append(open, of)) = Len(open) + 1 /\ Append(open, of) \in Seq(R \union {of})
            /\ \A i \in 1..Len(open) : Append(open, of)[i] = open[i]
            /\ Append(open, of)[Len(open) + 1] = of
        BY <3>2, AppendProperties
      <3>4. DOMAIN Append(open, of) = 1..(Len(open) + 1)
        BY <3>3, LenProperties
      <3>. QED BY <2>2, <3>1, <3>3, <3>4
    <2>3. CASE ~(d > Len(open))
      <3>. HIDE DEF open
      <3>1. d \in 1..Len(open)
        BY <1>1, <1>2, <2>3
      <3>. QED BY <1>1, <2>3, <3>1
    <2>. QED BY <2>2, <2>3
  <1>5. SlotAt(st.ctx[t], d) = NOFID
    <2>1. d \in DOMAIN open => open[d].fid = NOFID
      BY <1>1, <1>2
    <2>. QED BY <2>1 DEF SlotAt, SlotOf
  <1>. HIDE DEF open2
  <1>6. /\ st2.ret = d /\ DOMAIN st2 = Fields
        /\ \A f \in {"fcb", "nfcb", "pipe", "npipe", "dev", "mtab"} : st2[f] = st[f]
        /\ DOMAIN st2.ctx = Pid /\ \A u \in Pid \ {t} : st2.ctx[u] = st.ctx[u]
        /\ st2.ctx[t].root = st.ctx[t].root /\ st2.ctx[t].work = st.ctx[t].work
        /\ st2.ctx[t].open = open2
    <2>. HIDE DEF open, st2
    <2>. QED BY <1>0, <1>3 DEF Fields, CtxFields
  <1>. HIDE DEF st2, open
  <1>7. d \in Nat /\ d # 0 /\ d \in DOMAIN open2 /\ DOMAIN open2 \subseteq Nat
    BY <1>1, <1>2, <1>4
  <1>8. ASSUME NEW e \in Nat, e # d
        PROVE  (e \in DOMAIN open2 <=> e \in DOMAIN open) /\ (e \in DOMAIN open => open2[e] = open[e])
    BY <1>1, <1>2, <1>4, <1>8
  <1>. QED BY <1>4, <1>5, <1>6, <1>7, <1>8 DEF st2, d, open

(* A new descriptor; the slot it holds, if any, is counted once more. *)
Holds(of, f, n, g) ==
    \/ SlotOf(of) = NOFID
    \/ /\ SlotOf(of) \in Index /\ SlotOf(of) < n /\ f[SlotOf(of)].path = of.obj
       /\ f[SlotOf(of)].nopen + 1 <= g[SlotOf(of)].nopen

(* A new descriptor takes a tag that held nothing. *)
LEMMA KeptPutFile ==
  ASSUME NEW E, NEW st, NEW m, NEW q, Kept(E, st, m, q), NEW t \in Pid, st.ctx[t] # NoCtx, NEW want,
         NEW of, DescOK(st.pipe, of), NEW g, Grown(st.fcb, g), Holds(of, st.fcb, st.nfcb, g)
  PROVE  Kept(E, [PutFile(st, t, Descriptor(st, t, want), of) EXCEPT !.fcb = g], m, q)
  <1>. DEFINE d == Descriptor(st, t, want)
              put == PutFile(st, t, d, of)
              st2 == [put EXCEPT !.fcb = g]
              ctx == st.ctx
              ctx2 == put.ctx
              mt == st.mtab
              f == st.fcb
              n == st.nfcb
              A == View(ctx, mt)
              P == Paths(ctx)
              B == View(ctx2, mt)
              Q == Paths(ctx2)
              x == Open(t, d)
  <1>0. /\ Slots(f, n, A, P, m) /\ DOMAIN st = Fields /\ PipesInOrder(st) /\ DOMAIN ctx = Pid
    BY KeptTypes
  <1>1. /\ d \in Nat /\ SlotAt(ctx[t], d) = NOFID /\ DOMAIN put = Fields
        /\ \A h \in {"fcb", "nfcb", "pipe", "npipe", "dev", "mtab"} : put[h] = st[h]
        /\ DOMAIN ctx2 = Pid /\ \A u \in Pid \ {t} : ctx2[u] = ctx[u]
        /\ ctx2[t].root = ctx[t].root /\ ctx2[t].work = ctx[t].work
        /\ d \in DOMAIN ctx2[t].open /\ ctx2[t].open[d] = of
        /\ \A e \in Nat : e # d =>
              /\ e \in DOMAIN ctx2[t].open <=> e \in DOMAIN ctx[t].open
              /\ e \in DOMAIN ctx[t].open => ctx2[t].open[e] = ctx[t].open[e]
        /\ DOMAIN ctx2[t].open \subseteq Nat
    BY PutFileIs
  <1>2. PipesInOrder(put)
    BY <1>0, OrderPutFile
  <1>. HIDE DEF d, put
  <1>3. PipesInOrder(st2)
    BY <1>2, OrderSetFcb
  <1>4. /\ st2.fcb = g /\ st2.nfcb = n /\ st2.mtab = mt /\ st2.dev = st.dev /\ st2.pipe = st.pipe /\ st2.npipe = st.npipe
        /\ st2.ctx = ctx2
    BY <1>1 DEF Fields
  <1>. HIDE DEF st2, ctx, ctx2, mt, f, n
  <1>5. \A e \in Nat : e # d => /\ SlotAt(ctx2[t], e) = SlotAt(ctx[t], e) /\ PathAt(ctx2[t], e) = PathAt(ctx[t], e)
    BY <1>1 DEF SlotAt, PathAt
  <1>6. SlotAt(ctx2[t], d) = SlotOf(of) /\ PathAt(ctx2[t], d) = of.obj
    BY <1>1 DEF SlotAt, PathAt
  <1>7. WorkOf(ctx2[t]) = WorkOf(ctx[t])
    BY <1>1 DEF WorkOf
  <1>8. /\ x \in DOMAIN A /\ x # Top /\ A[x] = NOFID /\ B[x] = SlotOf(of) /\ Q[x] = of.obj
        /\ B[Top] = ROOTFCB /\ Q[Top] = <<>>
    <2>1. x \in Tags /\ x # Top /\ DOMAIN A = Tags
      BY <1>1, TagsAre, ViewIs
    <2>2. A[x] = SlotAt(ctx[t], d) /\ B[x] = SlotAt(ctx2[t], d) /\ Q[x] = PathAt(ctx2[t], d)
      BY <1>1, ViewIs, PathsAre
    <2>3. B[Top] = ROOTFCB /\ Q[Top] = <<>>
      BY ViewTop
    <2>. QED BY <1>1, <1>6, <2>1, <2>2, <2>3
  <1>9. Fewer(A, B, {x, Top}) /\ Relies(A, P, B, Q, {x, Top})
    <2>. DEFINE X == {x, Top}
    <2>1. Top \in X /\ x \in X
      OBVIOUS
    <2>2. \A e \in Nat : \/ Open(t, e) \in X \/ SlotAt(ctx2[t], e) = NOFID
                         \/ SlotAt(ctx2[t], e) = SlotAt(ctx[t], e) /\ PathAt(ctx2[t], e) = PathAt(ctx[t], e)
      BY <1>5
    <2>. HIDE DEF X
    <2>3. Fewer(A, B, X) /\ Relies(A, P, B, Q, X)
      BY <1>1, <1>7, <2>1, <2>2, ViewOfTask
    <2>. QED BY <2>3 DEF X
  <1>10. Slots(g, n, B, Q, m)
    <2>1. Grown(f, g) /\ Holds(of, f, n, g)
      BY DEF f, n
    <2>. HIDE DEF A, B, P, Q, x
    <2>2. CASE SlotOf(of) = NOFID
      <3>1. Fewer(A, B, {Top}) /\ Relies(A, P, B, Q, {Top})
        BY <1>8, <1>9, <2>2 DEF Fewer, Relies
      <3>. QED BY <1>0, <1>8, <2>1, <3>1, SlotsKept
    <2>3. CASE SlotOf(of) # NOFID
      <3>. DEFINE k == SlotOf(of)
      <3>1. k \in Index /\ k < n /\ f[k].path = of.obj /\ f[k].nopen + 1 <= g[k].nopen
        BY <2>1, <2>3 DEF Holds
      <3>. HIDE DEF k
      <3>2. B[x] = k
        BY <1>8 DEF k
      <3>. QED BY <1>0, <1>8, <1>9, <2>1, <3>1, <3>2, SlotsTaken
    <2>. QED BY <2>2, <2>3
  <1>11. Tasks(st.pipe, ctx2)
    <2>. SUFFICES ASSUME NEW u \in Pid
                  PROVE  /\ \A e \in DOMAIN ctx2[u].open : DescOK(st.pipe, ctx2[u].open[e])
                         /\ ctx2[u].root = NOFID => ctx2[u] = NoCtx
      BY DEF Tasks
    <2>1. /\ \A e \in DOMAIN ctx[u].open : DescOK(st.pipe, ctx[u].open[e])
          /\ ctx[u].root = NOFID => ctx[u] = NoCtx
      BY DEF Kept, Tasks, ctx
    <2>2. CASE u = t
      <3>1. ctx[t].root # NOFID
        BY <2>1, <2>2 DEF ctx
      <3>2. ASSUME NEW e \in DOMAIN ctx2[t].open PROVE DescOK(st.pipe, ctx2[t].open[e])
        <4>1. e \in Nat
          BY <1>1
        <4>. QED BY <1>1, <2>1, <2>2, <4>1
      <3>. QED BY <1>1, <2>2, <3>1, <3>2
    <2>3. CASE u # t
      BY <1>1, <2>1, <2>3
    <2>. QED BY <2>2, <2>3
  <1>12. Unnamed(st2, q) /\ Mounts(st2.mtab) /\ Devices(st2.dev, E)
    BY <1>4 DEF Kept, Unnamed, mt
  <1>13. Slots(st2.fcb, st2.nfcb, View(st2.ctx, st2.mtab), Paths(st2.ctx), m)
    BY <1>4, <1>10
  <1>14. Kept(E, st2, m, q)
    BY <1>3, <1>4, <1>11, <1>12, <1>13 DEF Kept
  <1>. QED BY <1>14 DEF st2, put, d

(* A new descriptor that holds no slot. *)
LEMMA KeptPutOther ==
  ASSUME NEW E, NEW st, NEW m, NEW q, Kept(E, st, m, q), NEW t \in Pid, st.ctx[t] # NoCtx, NEW want,
         NEW of, DescOK(st.pipe, of), SlotOf(of) = NOFID
  PROVE  Kept(E, PutFile(st, t, Descriptor(st, t, want), of), m, q)
  <1>. DEFINE d == Descriptor(st, t, want)
              put == PutFile(st, t, d, of)
              st2 == [put EXCEPT !.fcb = st.fcb]
  <1>1. Grown(st.fcb, st.fcb)
    <2>1. DOMAIN st.fcb = Index /\ \A i \in Index : DOMAIN st.fcb[i] = FcbFields /\ st.fcb[i].nopen \in Nat
      BY KeptTypes
    <2>. QED BY <2>1 DEF Grown
  <1>2. Kept(E, st2, m, q)
    BY <1>1, KeptPutFile DEF Holds
  <1>3. DOMAIN put = Fields /\ put.fcb = st.fcb
    BY PutFileIs
  <1>. HIDE DEF put
  <1>4. \A f \in Tables : put[f] = st2[f]
    BY <1>3 DEF Tables, Fields
  <1>. HIDE DEF st2
  <1>5. Kept(E, put, m, q)
    BY <1>2, <1>3, <1>4, KeptCopy
  <1>. QED BY <1>5 DEF put

(* A descriptor of a terminal holds no slot. *)
LEMMA KeptOpenTty ==
  ASSUME NEW E, NEW st, NEW m, NEW q, Kept(E, st, m, q), NEW t \in Pid, st.ctx[t] # NoCtx,
         NEW fid, NEW mode, "tty" \in mode, "fifo" \notin mode, NEW offs, NEW want
  PROVE  Kept(E, OpenTty(st, t, fid, mode, offs, want), m, q)
  <1>. DEFINE of == [fid |-> fid, mode |-> mode, offs |-> offs, obj |-> <<"tty">>]
  <1>1. of.fid = fid /\ of.mode = mode /\ {"fid", "mode"} \subseteq DOMAIN of
    OBVIOUS
  <1>. HIDE DEF of
  <1>2. SlotOf(of) = NOFID /\ DescOK(st.pipe, of)
    BY <1>1 DEF SlotOf, DescOK
  <1>3. Kept(E, PutFile(st, t, Descriptor(st, t, want), of), m, q)
    BY <1>2, KeptPutOther
  <1>. QED BY <1>3 DEF OpenTty, of

(* A descriptor of a pipe holds no slot. *)
LEMMA KeptOpenPipe ==
  ASSUME NEW E, NEW st, NEW m, NEW q, Kept(E, st, m, q), NEW t \in Pid, st.ctx[t] # NoCtx,
         NEW i, NEW mode, "fifo" \in mode, NEW offs, NEW want
  PROVE  Kept(E, OpenPipe(st, t, i, mode, offs, want), m, q)
  <1>. SUFFICES ASSUME IsPipe(st, i) PROVE Kept(E, OpenPipe(st, t, i, mode, offs, want), m, q)
    BY KeptFail DEF OpenPipe
  <1>. DEFINE of == [fid |-> i, mode |-> mode, offs |-> offs, obj |-> <<"pipe", st.pipe[i].id>>]
              d == Descriptor(st, t, want)
              put == PutFile(st, t, d, of)
              p == [put.pipe[i] EXCEPT !.nopen = @ + 1]
  <1>1. of.fid = i /\ of.mode = mode /\ {"fid", "mode"} \subseteq DOMAIN of
    OBVIOUS
  <1>2. i \in 0..MaxPipe /\ st.pipe[i].fid = ANONYMOUS
    BY PipeIndex
  <1>. HIDE DEF of
  <1>3. SlotOf(of) = NOFID /\ DescOK(st.pipe, of)
    BY <1>1, <1>2 DEF SlotOf, DescOK
  <1>4. Kept(E, put, m, q)
    BY <1>3, KeptPutOther
  <1>5. OpenPipe(st, t, i, mode, offs, want) = [put EXCEPT !.pipe[i].nopen = @ + 1]
    BY DEF OpenPipe, of
  <1>. HIDE DEF put
  <1>6. DOMAIN put = Fields /\ DOMAIN put.pipe = 0..MaxPipe /\ PipeOK(put.pipe[i])
    BY <1>2, <1>4, KeptTypes DEF PipesInOrder
  <1>7. PipeOK(p) /\ p.fid = put.pipe[i].fid
    BY <1>6 DEF PipeOK, PipeFields
  <1>8. [put EXCEPT !.pipe[i].nopen = @ + 1] = [put EXCEPT !.pipe[i] = p]
    BY <1>2, <1>6 DEF Fields
  <1>. HIDE DEF p
  <1>9. Kept(E, [put EXCEPT !.pipe[i] = p], m, q)
    BY <1>4, <1>7, KeptBytes
  <1>. QED BY <1>5, <1>8, <1>9

(* A count that grows covers what it did. *)
LEMMA KeptCountOpen ==
  ASSUME NEW E, NEW st, NEW m, NEW q, Kept(E, st, m, q), NEW fid, NEW excl
  PROVE  Kept(E, CountOpen(st, fid, excl), m, q)
  <1>. DEFINE g == [st.fcb EXCEPT ![fid].nopen = @ + 1, ![fid].excl = @ \/ excl]
  <1>1. DOMAIN st = Fields /\ DOMAIN st.fcb = Index
        /\ \A i \in Index : DOMAIN st.fcb[i] = FcbFields /\ st.fcb[i].nopen \in Nat
    BY KeptTypes
  <1>2. Grown(st.fcb, g)
    BY <1>1 DEF Grown, FcbFields
  <1>3. st.ret # 0 => CountOpen(st, fid, excl) = [st EXCEPT !.fcb = g]
    BY <1>1 DEF CountOpen, Fields
  <1>. HIDE DEF g
  <1>4. Kept(E, [st EXCEPT !.fcb = g], m, q)
    BY <1>2, KeptGrown
  <1>. QED BY <1>3, <1>4 DEF CountOpen

(* A descriptor of a file is counted in the slot of the file. *)
LEMMA KeptOpenReg ==
  ASSUME NEW E, NEW st, NEW m, NEW q, Kept(E, st, m, q), NEW t \in Pid, st.ctx[t] # NoCtx,
         NEW fid, LiveFcb(st, fid), NEW mode, "tty" \notin mode, "fifo" \notin mode, NEW offs, NEW want, NEW excl
  PROVE  Kept(E, CountOpen(OpenReg(st, t, fid, mode, offs, want), fid, excl), m, q)
  <1>. DEFINE of == [fid |-> fid, mode |-> mode, offs |-> offs, obj |-> st.fcb[fid].path]
              d == Descriptor(st, t, want)
              put == PutFile(st, t, d, of)
              g == [st.fcb EXCEPT ![fid].nopen = @ + 1, ![fid].excl = @ \/ excl]
  <1>1. of.fid = fid /\ of.mode = mode /\ of.obj = st.fcb[fid].path /\ {"fid", "mode"} \subseteq DOMAIN of
    OBVIOUS
  <1>2. /\ DOMAIN st = Fields /\ DOMAIN st.fcb = Index /\ st.nfcb \in Nat /\ st.nfcb <= MaxFcb + 1 /\ NOFID \notin Index
        /\ \A i \in Index : DOMAIN st.fcb[i] = FcbFields /\ st.fcb[i].nopen \in Nat
    <2>1. MaxFcb \in Nat
      BY TableAssumption
    <2>. QED BY <2>1, KeptTypes
  <1>3. fid \in Index /\ fid < st.nfcb /\ fid # NOFID /\ st.fcb[fid].path # Free
    <2>1. fid \in Nat /\ fid < st.nfcb /\ st.fcb[fid].path # Free
      BY <1>2 DEF LiveFcb, IsFcb
    <2>2. MaxFcb \in Nat
      BY TableAssumption
    <2>. QED BY <1>2, <2>1, <2>2 DEF Index
  <1>4. Grown(st.fcb, g) /\ st.fcb[fid].nopen + 1 <= g[fid].nopen
    BY <1>2, <1>3 DEF Grown, FcbFields
  <1>5. put.ret # 0 /\ DOMAIN put = Fields /\ put.fcb = st.fcb
    BY PutFileIs
  <1>. HIDE DEF of
  <1>6. SlotOf(of) = fid /\ DescOK(st.pipe, of)
    BY <1>1, <1>3 DEF SlotOf, DescOK
  <1>7. OpenReg(st, t, fid, mode, offs, want) = put
    BY DEF OpenReg, of
  <1>. HIDE DEF put
  <1>8. CountOpen(put, fid, excl) = [put EXCEPT !.fcb = g]
    BY <1>5 DEF CountOpen, Fields
  <1>. HIDE DEF g
  <1>9. Holds(of, st.fcb, st.nfcb, g)
    BY <1>1, <1>3, <1>4, <1>6 DEF Holds
  <1>10. Kept(E, [put EXCEPT !.fcb = g], m, q)
    BY <1>4, <1>6, <1>9, KeptPutFile DEF put
  <1>. QED BY <1>7, <1>8, <1>10

(* Each way to open a descriptor. *)
LEMMA KeptOpenAs ==
  ASSUME NEW E, NEW st, NEW m, NEW q, Kept(E, st, m, q), NEW t \in Pid,
         NEW fid, NEW mode, NEW f, NEW offs, NEW want
  PROVE  Kept(E, OpenAs(st, t, fid, mode, f, offs, want), m, q)
  <1>. DEFINE excl == "x" \in mode \union f.mode
  <1>. SUFFICES ASSUME st.ctx[t] # NoCtx PROVE Kept(E, OpenAs(st, t, fid, mode, f, offs, want), m, q)
    BY KeptFail DEF OpenAs
  <1>1. "fifo" \in mode => Kept(E, OpenPipe(st, t, fid, mode, offs, want), m, q)
    BY KeptOpenPipe
  <1>2. "tty" \in mode /\ "fifo" \notin mode => Kept(E, OpenTty(st, t, fid, mode, offs, want), m, q)
    BY KeptOpenTty
  <1>3. Kept(E, OpenPipe(st, t, f.storage, mode \union {"fifo"}, offs, want), m, q)
    BY KeptOpenPipe
  <1>4. Kept(E, CountOpen(OpenPipe(st, t, f.storage, mode \union {"fifo"}, offs, want), fid, excl), m, q)
    <2>. HIDE DEF excl
    <2>. QED BY <1>3, KeptCountOpen
  <1>5. "fifo" \in mode => Kept(E, CountOpen(OpenPipe(st, t, fid, mode, offs, want), fid, excl), m, q)
    <2>. HIDE DEF excl
    <2>. QED BY <1>1, KeptCountOpen
  <1>6. LiveFcb(st, fid) /\ "tty" \notin mode /\ "fifo" \notin mode
        => Kept(E, CountOpen(OpenReg(st, t, fid, mode, offs, want), fid, excl), m, q)
    <2>. HIDE DEF excl
    <2>. QED BY KeptOpenReg
  <1>7. \A e, r : Kept(E, Fail(st, e, r), m, q)
    BY KeptFail
  <1>. QED BY <1>1, <1>2, <1>4, <1>5, <1>6, <1>7 DEF OpenAs

(* taskctx_open. *)
LEMMA KeptOpen ==
  ASSUME NEW E, NEW st, NEW m, NEW q, Kept(E, st, m, q), NEW t \in Pid,
         NEW fid, NEW mode, NEW offs, NEW want
  PROVE  Kept(E, taskctx_open(st, t, fid, mode, offs, want), m, q)
  BY KeptOpenAs DEF taskctx_open

(* st has what k has but for descriptor d of t. *)
Dropped(k, st, t, d) ==
    /\ \A u \in Pid \ {t} : st.ctx[u] = k.ctx[u]
    /\ st.ctx[t].root = k.ctx[t].root /\ st.ctx[t].work = k.ctx[t].work
    /\ \A e \in DOMAIN st.ctx[t].open :
          /\ e \in DOMAIN k.ctx[t].open
          /\ IF e = d THEN st.ctx[t].open[e] = Closed ELSE st.ctx[t].open[e] = k.ctx[t].open[e]

(* The holders without the descriptor. *)
LEMMA DroppedView ==
  ASSUME NEW k, NEW st, NEW t \in Pid, NEW d \in Nat, Dropped(k, st, t, d), NEW mt
  PROVE  LET A == View(k.ctx, mt)
             B == View(st.ctx, mt)
             x == Open(t, d)
         IN  /\ x \in DOMAIN A /\ x # Top /\ B[x] = NOFID /\ A[x] = SlotAt(k.ctx[t], d)
             /\ Fewer(A, B, {x, Top}) /\ Relies(A, Paths(k.ctx), B, Paths(st.ctx), {x, Top})
  <1>. DEFINE A == View(k.ctx, mt)
              B == View(st.ctx, mt)
              P == Paths(k.ctx)
              Q == Paths(st.ctx)
              x == Open(t, d)
              X == {x, Top}
  <1>1. x \in Tags /\ x # Top /\ DOMAIN A = Tags
    BY TagsAre, ViewIs
  <1>2. A[x] = SlotAt(k.ctx[t], d) /\ B[x] = SlotAt(st.ctx[t], d)
    BY ViewIs
  <1>3. SlotAt(st.ctx[t], d) = NOFID
    BY DEF SlotAt, SlotOf, Dropped, Closed
  <1>4. \A e \in Nat : \/ Open(t, e) \in X \/ SlotAt(st.ctx[t], e) = NOFID
                       \/ SlotAt(st.ctx[t], e) = SlotAt(k.ctx[t], e) /\ PathAt(st.ctx[t], e) = PathAt(k.ctx[t], e)
    BY DEF SlotAt, PathAt, Dropped
  <1>5. Top \in X
    OBVIOUS
  <1>6. /\ \A u \in Pid \ {t} : st.ctx[u] = k.ctx[u] \/ st.ctx[u] = NoCtx
        /\ st.ctx[t].root = k.ctx[t].root /\ WorkOf(st.ctx[t]) = WorkOf(k.ctx[t])
    BY DEF Dropped, WorkOf
  <1>7. Fewer(A, B, X) /\ Relies(A, P, B, Q, X)
    <2>. HIDE DEF X
    <2>. QED BY <1>4, <1>5, <1>6, ViewOfTask
  <1>. QED BY <1>1, <1>2, <1>3, <1>7

(* A descriptor goes, and the count of its slot with it. *)
LEMMA KeptDropped ==
  ASSUME NEW E, NEW k, NEW m, NEW q, Kept(E, k, m, q), NEW st, NEW t \in Pid, k.ctx[t] # NoCtx,
         NEW d \in Nat, Dropped(k, st, t, d), PipesInOrder(st),
         st.pipe = k.pipe, st.npipe = k.npipe, st.mtab = k.mtab, st.dev = k.dev,
         Slots(st.fcb, st.nfcb, View(st.ctx, st.mtab), Paths(st.ctx), m)
  PROVE  Kept(E, st, m, q)
  <1>1. Tasks(st.pipe, st.ctx)
    <2>. SUFFICES ASSUME NEW u \in Pid
                  PROVE  /\ \A e \in DOMAIN st.ctx[u].open : DescOK(st.pipe, st.ctx[u].open[e])
                         /\ st.ctx[u].root = NOFID => st.ctx[u] = NoCtx
      BY DEF Tasks
    <2>1. /\ \A e \in DOMAIN k.ctx[u].open : DescOK(k.pipe, k.ctx[u].open[e])
          /\ k.ctx[u].root = NOFID => k.ctx[u] = NoCtx
      BY DEF Kept, Tasks
    <2>2. CASE u = t
      <3>1. st.ctx[t].root # NOFID
        BY <2>1, <2>2 DEF Dropped
      <3>2. ASSUME NEW e \in DOMAIN st.ctx[t].open PROVE DescOK(st.pipe, st.ctx[t].open[e])
        BY <2>1, <2>2 DEF Dropped, DescOK, Closed
      <3>. QED BY <2>2, <3>1, <3>2
    <2>3. CASE u # t
      BY <2>1, <2>3 DEF Dropped
    <2>. QED BY <2>2, <2>3
  <1>. QED BY <1>1 DEF Kept, Unnamed

(* The list of a task without descriptor d. *)
LEMMA DropFileIs ==
  ASSUME NEW st, DOMAIN st = Fields, NEW t \in Pid, DOMAIN st.ctx = Pid, DOMAIN st.ctx[t] = CtxFields,
         NEW k, k.ctx[t].root = st.ctx[t].root, k.ctx[t].work = st.ctx[t].work,
         \A u \in Pid \ {t} : k.ctx[u] = st.ctx[u], Listed(k.ctx[t].open), NEW d \in DOMAIN k.ctx[t].open, NEW dontfree
  PROVE  LET st2 == DropFile(st, t, [k.ctx[t].open EXCEPT ![d] = Closed], dontfree)
         IN  Dropped(k, st2, t, d) /\ \A f \in {"fcb", "nfcb", "pipe", "npipe", "dev", "mtab"} : st2[f] = st[f]
  <1>. DEFINE open == k.ctx[t].open
              open2 == [open EXCEPT ![d] = Closed]
              last == Least({m \in 0..Len(open2) : \A e \in (m + 1)..Len(open2) : open2[e].fid = NOFID})
              left == IF dontfree THEN open2 ELSE SubSeq(open2, 1, last)
              st2 == DropFile(st, t, open2, dontfree)
  <1>1. Len(open) \in Nat /\ DOMAIN open = 1..Len(open) /\ Listed(open2)
    <2>. HIDE DEF open
    <2>. QED BY ListedKept DEF open
  <1>2. DOMAIN open2 = DOMAIN open /\ Closed.fid = NOFID
    BY DEF Closed
  <1>3. last \in 0..Len(open2) /\ Len(open2) \in Nat /\ DOMAIN open2 = 1..Len(open2)
    <2>. HIDE DEF open2
    <2>. QED BY <1>1, LastOpen, ListedKept
  <1>4. /\ DOMAIN left \subseteq DOMAIN open2
        /\ \A e \in DOMAIN left : left[e] = open2[e]
    <2>. DEFINE R == {open2[i] : i \in DOMAIN open2}
    <2>1. open2 \in Seq(R) /\ \A i \in 1..Len(open2) : open2[i] \in R
      <3>. HIDE DEF open2
      <3>. QED BY <1>1, <1>3 DEF Listed
    <2>. HIDE DEF R, last, open2
    <2>2. \A i \in 1..last : open2[i] \in R
      BY <1>3, <2>1
    <2>3. /\ SubSeq(open2, 1, last) \in Seq(R)
          /\ Len(SubSeq(open2, 1, last)) = IF 1 <= last THEN last - 1 + 1 ELSE 0
          /\ \A i \in 1..(last - 1 + 1) : SubSeq(open2, 1, last)[i] = open2[1 + i - 1]
      BY <1>3, <2>1, <2>2, SubSeqProperties
    <2>4. DOMAIN SubSeq(open2, 1, last) = 1..last
      <3>1. DOMAIN SubSeq(open2, 1, last) = 1..Len(SubSeq(open2, 1, last))
        BY <2>3, LenProperties
      <3>. QED BY <1>3, <2>3, <3>1
    <2>5. \A i \in 1..last : SubSeq(open2, 1, last)[i] = open2[i]
      <3>1. \A i \in 1..last : i \in 1..(last - 1 + 1) /\ 1 + i - 1 = i
        BY <1>3
      <3>. QED BY <2>3, <3>1
    <2>. QED BY <1>3, <2>4, <2>5
  <1>5. /\ \A f \in {"fcb", "nfcb", "pipe", "npipe", "dev", "mtab"} : st2[f] = st[f]
        /\ \A u \in Pid \ {t} : st2.ctx[u] = st.ctx[u]
        /\ st2.ctx[t].root = st.ctx[t].root /\ st2.ctx[t].work = st.ctx[t].work /\ st2.ctx[t].open = left
    <2>1. st2 = [st EXCEPT !.ctx[t].open = left, !.ctx[t].nfiles = @ - 1, !.ret = TRUE]
      BY DEF DropFile
    <2>. HIDE DEF left, st2
    <2>. QED BY <2>1 DEF Fields, CtxFields
  <1>. HIDE DEF left, st2
  <1>6. \A e \in DOMAIN left : e \in DOMAIN open /\ IF e = d THEN left[e] = Closed ELSE left[e] = open[e]
    BY <1>2, <1>4
  <1>7. Dropped(k, st2, t, d)
    BY <1>5, <1>6 DEF Dropped
  <1>. QED BY <1>5, <1>7 DEF st2

(* A descriptor that holds no slot goes.  st has what k has but for what    *)
(* that descriptor shows.                                                   *)
LEMMA KeptDropOther ==
  ASSUME NEW E, NEW k, NEW m, NEW q, Kept(E, k, m, q), NEW t \in Pid, k.ctx[t] # NoCtx,
         NEW d \in DOMAIN k.ctx[t].open, SlotOf(k.ctx[t].open[d]) = NOFID,
         NEW st, PipesInOrder(st), st.fcb = k.fcb, st.nfcb = k.nfcb, st.pipe = k.pipe, st.npipe = k.npipe,
         st.mtab = k.mtab, st.dev = k.dev, \A u \in Pid \ {t} : k.ctx[u] = st.ctx[u],
         k.ctx[t].root = st.ctx[t].root, k.ctx[t].work = st.ctx[t].work, NEW dontfree
  PROVE  Kept(E, DropFile(st, t, [k.ctx[t].open EXCEPT ![d] = Closed], dontfree), m, q)
  <1>. DEFINE rest == [k.ctx[t].open EXCEPT ![d] = Closed]
              st2 == DropFile(st, t, rest, dontfree)
              mt == k.mtab
              A == View(k.ctx, mt)
              B == View(st2.ctx, mt)
              P == Paths(k.ctx)
              Q == Paths(st2.ctx)
              x == Open(t, d)
  <1>1. Listed(k.ctx[t].open) /\ Slots(k.fcb, k.nfcb, A, P, m) /\ DOMAIN k.fcb = Index
        /\ \A i \in Index : DOMAIN k.fcb[i] = FcbFields /\ k.fcb[i].nopen \in Nat
    BY KeptTypes
  <1>2. DOMAIN st = Fields /\ DOMAIN st.ctx = Pid /\ DOMAIN st.ctx[t] = CtxFields
    BY DEF PipesInOrder, CtxOK
  <1>3. d \in Nat
    <2>. DEFINE open == k.ctx[t].open
    <2>1. DOMAIN open = 1..Len(open) /\ Len(open) \in Nat
      BY <1>1, ListedKept
    <2>. QED BY <2>1
  <1>4. Dropped(k, st2, t, d) /\ \A f \in {"fcb", "nfcb", "pipe", "npipe", "dev", "mtab"} : st2[f] = st[f]
    BY <1>1, <1>2, DropFileIs
  <1>5. PipesInOrder(st2)
    <2>1. Listed(rest)
      BY <1>1, ListedKept
    <2>. HIDE DEF rest
    <2>. QED BY <2>1, OrderDropFile
  <1>6. /\ st2.fcb = k.fcb /\ st2.nfcb = k.nfcb /\ st2.pipe = k.pipe /\ st2.npipe = k.npipe
        /\ st2.dev = k.dev /\ st2.mtab = mt
    BY <1>4
  <1>. HIDE DEF st2
  <1>7. /\ x \in DOMAIN A /\ x # Top /\ B[x] = NOFID /\ A[x] = SlotAt(k.ctx[t], d)
        /\ Fewer(A, B, {x, Top}) /\ Relies(A, P, B, Q, {x, Top})
    BY <1>3, <1>4, DroppedView
  <1>8. A[x] = NOFID
    BY <1>7 DEF SlotAt
  <1>9. B[Top] = ROOTFCB /\ Q[Top] = <<>>
    BY ViewTop
  <1>10. Grown(k.fcb, k.fcb)
    BY <1>1 DEF Grown
  <1>11. Slots(k.fcb, k.nfcb, B, Q, m)
    <2>. HIDE DEF A, B, P, Q, x, mt
    <2>1. Fewer(A, B, {Top}) /\ Relies(A, P, B, Q, {Top})
      BY <1>7, <1>8 DEF Fewer, Relies
    <2>. QED BY <1>1, <1>9, <1>10, <2>1, SlotsKept
  <1>12. Slots(st2.fcb, st2.nfcb, View(st2.ctx, st2.mtab), Paths(st2.ctx), m)
    BY <1>6, <1>11
  <1>13. Kept(E, st2, m, q)
    BY <1>3, <1>4, <1>5, <1>6, <1>12, KeptDropped
  <1>. QED BY <1>13 DEF st2

(* fcb_del moves slots only. *)
LEMMA FcbDelIs ==
  ASSUME NEW st, DOMAIN st = Fields, NEW i
  PROVE  \A f \in Fields \ {"fcb", "nfcb"} : fcb_del(st, i)[f] = st[f]
  BY DEF fcb_del, Fields

(* A descriptor of a file goes, and its slot is counted once less. *)
LEMMA KeptDropFile ==
  ASSUME NEW E, NEW k, NEW m, NEW q, Kept(E, k, m, q), NEW t \in Pid, k.ctx[t] # NoCtx,
         NEW d \in DOMAIN k.ctx[t].open, SlotOf(k.ctx[t].open[d]) \in Index, NEW dontfree
  PROVE  Kept(E, DropFile(fcb_del(k, SlotOf(k.ctx[t].open[d])), t, [k.ctx[t].open EXCEPT ![d] = Closed], dontfree), m, q)
  <1>. DEFINE i == SlotOf(k.ctx[t].open[d])
              st == fcb_del(k, i)
              rest == [k.ctx[t].open EXCEPT ![d] = Closed]
              st2 == DropFile(st, t, rest, dontfree)
              mt == k.mtab
              A == View(k.ctx, mt)
              B == View(st2.ctx, mt)
              P == Paths(k.ctx)
              Q == Paths(st2.ctx)
              x == Open(t, d)
  <1>1. Listed(k.ctx[t].open) /\ Slots(k.fcb, k.nfcb, A, P, m) /\ PipesInOrder(k) /\ DOMAIN k = Fields
    BY KeptTypes
  <1>. HIDE DEF i
  <1>2. PipesInOrder(st)
    BY <1>1, OrderFcbDel
  <1>3. st.pipe = k.pipe /\ st.npipe = k.npipe /\ st.mtab = k.mtab /\ st.dev = k.dev /\ st.ctx = k.ctx
    BY <1>1, FcbDelIs DEF Fields
  <1>4. DOMAIN st = Fields /\ DOMAIN st.ctx = Pid /\ DOMAIN st.ctx[t] = CtxFields
    <2>. HIDE DEF st
    <2>. QED BY <1>2 DEF PipesInOrder, CtxOK
  <1>5. d \in Nat
    <2>. DEFINE open == k.ctx[t].open
    <2>1. DOMAIN open = 1..Len(open) /\ Len(open) \in Nat
      BY <1>1, ListedKept
    <2>. QED BY <2>1
  <1>. HIDE DEF st
  <1>6. Dropped(k, st2, t, d) /\ \A f \in {"fcb", "nfcb", "pipe", "npipe", "dev", "mtab"} : st2[f] = st[f]
    BY <1>1, <1>3, <1>4, DropFileIs
  <1>7. PipesInOrder(st2)
    <2>1. Listed(rest)
      BY <1>1, ListedKept
    <2>. HIDE DEF rest
    <2>. QED BY <1>2, <2>1, OrderDropFile
  <1>8. /\ st2.fcb = st.fcb /\ st2.nfcb = st.nfcb /\ st2.pipe = k.pipe /\ st2.npipe = k.npipe
        /\ st2.dev = k.dev /\ st2.mtab = mt
    BY <1>3, <1>6
  <1>. HIDE DEF st2
  <1>9. /\ x \in DOMAIN A /\ x # Top /\ B[x] = NOFID /\ A[x] = SlotAt(k.ctx[t], d)
        /\ Fewer(A, B, {x, Top}) /\ Relies(A, P, B, Q, {x, Top})
    BY <1>5, <1>6, DroppedView
  <1>10. A[x] = i /\ i \in Index
    BY <1>9 DEF SlotAt, i
  <1>11. B[Top] = ROOTFCB /\ Q[Top] = <<>>
    BY ViewTop
  <1>12. Slots(st.fcb, st.nfcb, B, Q, m)
    <2>. HIDE DEF A, B, P, Q, x, mt
    <2>1. Slots(fcb_del(k, i).fcb, fcb_del(k, i).nfcb, B, Q, m)
      BY <1>1, <1>9, <1>10, <1>11, SlotsFcbDel
    <2>. QED BY <2>1 DEF st
  <1>13. Slots(st2.fcb, st2.nfcb, View(st2.ctx, st2.mtab), Paths(st2.ctx), m)
    BY <1>8, <1>12
  <1>14. Kept(E, st2, m, q)
    BY <1>5, <1>6, <1>7, <1>8, <1>13, KeptDropped
  <1>. QED BY <1>14 DEF st2, st, i

(* fcb_flush writes nothing. *)
LEMMA KeptFlush ==
  ASSUME NEW E, NEW st, NEW m, NEW q, Kept(E, st, m, q), NEW i
  PROVE  /\ Kept(E, fcb_flush(st, i), m, q)
         /\ DOMAIN fcb_flush(st, i) = Fields /\ \A f \in Tables : fcb_flush(st, i)[f] = st[f]
  <1>1. \A e, r : Kept(E, Fail(st, e, r), m, q)
    BY KeptFail
  <1>2. DOMAIN st = Fields
    BY KeptTypes
  <1>3. ASSUME NEW e, NEW r PROVE DOMAIN Fail(st, e, r) = Fields /\ \A f \in Tables : Fail(st, e, r)[f] = st[f]
    BY <1>2 DEF Fail, Fields, Tables
  <1>. QED BY <1>1, <1>3 DEF fcb_flush

(* A descriptor of a pipe or of a terminal is closed. *)
LEMMA KeptCloseOther ==
  ASSUME NEW E, NEW st, NEW m, NEW q, Kept(E, st, m, q), NEW t \in Pid, NEW d, NEW dontfree,
         taskctx_validfid(st, t, d), {"fifo", "tty"} \intersect OpenFile(st, t, d).mode # {}
  PROVE  Kept(E, taskctx_close(st, t, d, dontfree), m, q)
  <1>. DEFINE of == OpenFile(st, t, d)
              mode == of.mode
              i == of.fid
              p == [st.pipe[i] EXCEPT !.reader = IF @ = t THEN Nobody ELSE @]
              left == [st EXCEPT !.pipe[i].reader = IF @ = t THEN Nobody ELSE @]
              freed == pipe_del(left, i)
              o == ClosePipe(st, t, d)
              open == [st.ctx[t].open EXCEPT ![d] = Closed]
  <1>0. /\ DOMAIN st = Fields /\ DOMAIN st.ctx = Pid /\ DOMAIN st.pipe = 0..MaxPipe /\ PipesInOrder(st)
        /\ Listed(st.ctx[t].open) /\ DOMAIN st.ctx[t] = CtxFields
        /\ \A j \in 0..MaxPipe : PipeOK(st.pipe[j])
    BY KeptTypes DEF PipesInOrder
  <1>1. /\ st.ctx[t] # NoCtx /\ d \in DOMAIN st.ctx[t].open /\ i # NOFID
        /\ of = st.ctx[t].open[d] /\ DescOK(st.pipe, of) /\ SlotOf(of) = NOFID
    <2>1. st.ctx[t] # NoCtx /\ d \in 1..Len(st.ctx[t].open) /\ i # NOFID /\ of = st.ctx[t].open[d]
      BY DEF taskctx_validfid, OpenFile
    <2>2. d \in DOMAIN st.ctx[t].open
      BY <1>0, <2>1, ListedKept
    <2>3. DescOK(st.pipe, of)
      BY <2>1, <2>2 DEF Kept, Tasks
    <2>. QED BY <2>1, <2>2, <2>3 DEF SlotOf
  <1>2. CASE "fifo" \notin mode
    <2>1. taskctx_close(st, t, d, dontfree) = DropFile(st, t, open, dontfree)
      BY <1>2 DEF taskctx_close, CloseFile
    <2>2. Kept(E, DropFile(st, t, open, dontfree), m, q)
      BY <1>0, <1>1, KeptDropOther
    <2>. QED BY <2>1, <2>2
  <1>3. CASE "fifo" \in mode
    <2>1. i \in 0..MaxPipe /\ st.pipe[i].fid = ANONYMOUS
      BY <1>1, <1>3 DEF DescOK
    <2>2. left = [st EXCEPT !.pipe[i] = p] /\ PipeOK(p) /\ p.fid = st.pipe[i].fid
      BY <1>0, <2>1 DEF PipeOK, PipeFields
    <2>. HIDE DEF p
    <2>3. Kept(E, left, m, q)
      BY <2>1, <2>2, KeptBytes
    <2>4. left.ctx = st.ctx /\ left.mtab = st.mtab /\ left.dev = st.dev
      BY <1>0, <2>2 DEF Fields
    <2>. HIDE DEF left
    <2>5. Kept(E, freed, m, q) /\ freed.ctx = st.ctx
      BY <2>3, <2>4, KeptPipeDel
    <2>6. o = [freed EXCEPT !.ctx[t].open[d].fid = ANONYMOUS]
      BY <2>1 DEF ClosePipe, left, ANONYMOUS
    <2>7. PipesInOrder(o)
      <3>. DEFINE of2 == [freed.ctx[t].open[d] EXCEPT !.fid = ANONYMOUS]
                  open2 == [freed.ctx[t].open EXCEPT ![d] = of2]
      <3>1. PipesInOrder(freed) /\ Listed(open2)
        BY <2>5, KeptTypes, ListedKept
      <3>2. PipesInOrder([freed EXCEPT !.ctx[t].open = open2])
        <4>. HIDE DEF open2, freed
        <4>. QED BY <3>1, OrderSetOpen
      <3>. QED BY <2>6, <3>2
    <2>8. DOMAIN freed = Fields /\ DOMAIN freed.ctx = Pid /\ DOMAIN freed.ctx[t] = CtxFields
      <3>. HIDE DEF freed
      <3>. QED BY <2>5, KeptTypes
    <2>. HIDE DEF freed, o
    <2>9. /\ o.fcb = freed.fcb /\ o.nfcb = freed.nfcb /\ o.pipe = freed.pipe /\ o.npipe = freed.npipe
          /\ o.mtab = freed.mtab /\ o.dev = freed.dev /\ \A u \in Pid \ {t} : freed.ctx[u] = o.ctx[u]
          /\ freed.ctx[t].root = o.ctx[t].root /\ freed.ctx[t].work = o.ctx[t].work
      BY <2>6, <2>8 DEF Fields, CtxFields
    <2>10. CloseFile(o, t, d, mode) = o
      <3>1. o.ctx[t].open[d].fid = ANONYMOUS
        <4>1. o.ctx[t].open = [freed.ctx[t].open EXCEPT ![d].fid = ANONYMOUS]
          BY <2>6, <2>8 DEF Fields, CtxFields
        <4>2. d \in DOMAIN freed.ctx[t].open /\ "fid" \in DOMAIN freed.ctx[t].open[d]
          BY <1>1, <2>5 DEF DescOK
        <4>. QED BY <4>1, <4>2
      <3>. QED BY <3>1 DEF CloseFile, CloseReg, IsFcb, OpenFile, ANONYMOUS
    <2>11. taskctx_close(st, t, d, dontfree) = DropFile(o, t, open, dontfree)
      BY <1>3, <2>10 DEF taskctx_close, o
    <2>12. Kept(E, DropFile(o, t, open, dontfree), m, q)
      <3>1. /\ freed.ctx[t] # NoCtx /\ d \in DOMAIN freed.ctx[t].open /\ SlotOf(freed.ctx[t].open[d]) = NOFID
            /\ open = [freed.ctx[t].open EXCEPT ![d] = Closed]
        BY <1>1, <2>5
      <3>. HIDE DEF open
      <3>. QED BY <2>5, <2>7, <2>9, <3>1, KeptDropOther
    <2>. QED BY <2>11, <2>12
  <1>. QED BY <1>2, <1>3

(* taskctx_close. *)
LEMMA KeptClose ==
  ASSUME NEW E, NEW st, NEW m, NEW q, Kept(E, st, m, q), NEW t \in Pid, NEW d, NEW dontfree
  PROVE  Kept(E, taskctx_close(st, t, d, dontfree), m, q)
  <1>. SUFFICES ASSUME taskctx_validfid(st, t, d), {"fifo", "tty"} \intersect OpenFile(st, t, d).mode = {}
                PROVE  Kept(E, taskctx_close(st, t, d, dontfree), m, q)
    <2>1. ~taskctx_validfid(st, t, d) => Kept(E, taskctx_close(st, t, d, dontfree), m, q)
      BY KeptFail DEF taskctx_close
    <2>. QED BY <2>1, KeptCloseOther
  <1>. DEFINE of == OpenFile(st, t, d)
              i == of.fid
              flush == "w" \in of.mode /\ "fifo" \notin of.mode
              b == IF flush THEN fcb_flush(st, i) ELSE st
              g == [b.fcb EXCEPT ![i].excl = FALSE]
              k == [b EXCEPT !.fcb = g]
              open == [st.ctx[t].open EXCEPT ![d] = Closed]
  <1>0. /\ DOMAIN st = Fields /\ st.nfcb \in Nat /\ st.nfcb <= MaxFcb + 1 /\ Listed(st.ctx[t].open) /\ MaxFcb \in Nat
    BY KeptTypes, TableAssumption
  <1>1. /\ st.ctx[t] # NoCtx /\ d \in DOMAIN st.ctx[t].open /\ of = st.ctx[t].open[d]
        /\ IsFcb(st, i) /\ SlotOf(of) = i /\ i \in Index
    <2>1. st.ctx[t] # NoCtx /\ d \in 1..Len(st.ctx[t].open) /\ i # NOFID /\ of = st.ctx[t].open[d] /\ LiveFcb(st, i)
      BY DEF taskctx_validfid, OpenFile
    <2>2. d \in DOMAIN st.ctx[t].open
      BY <1>0, <2>1, ListedKept
    <2>3. IsFcb(st, i) /\ i \in Index
      BY <1>0, <2>1 DEF LiveFcb, IsFcb, Index
    <2>. QED BY <2>1, <2>2, <2>3 DEF SlotOf
  <1>2. Kept(E, b, m, q) /\ DOMAIN b = Fields /\ b.ctx = st.ctx
    <2>1. flush => DOMAIN fcb_flush(st, i) = Fields /\ \A f \in Tables : fcb_flush(st, i)[f] = st[f]
      BY KeptFlush
    <2>. QED BY <1>0, <2>1, KeptFlush DEF Tables
  <1>. HIDE DEF b
  <1>3. Grown(b.fcb, g)
    <2>1. DOMAIN b.fcb = Index /\ \A j \in Index : DOMAIN b.fcb[j] = FcbFields /\ b.fcb[j].nopen \in Nat
      BY <1>2, KeptTypes
    <2>. QED BY <2>1 DEF Grown, FcbFields
  <1>4. k = [b EXCEPT !.fcb[i].excl = FALSE] /\ k.ctx = st.ctx
    BY <1>2 DEF Fields
  <1>. HIDE DEF g
  <1>5. Kept(E, k, m, q)
    BY <1>2, <1>3, KeptGrown
  <1>6. CloseFile(st, t, d, of.mode) = fcb_del(k, i)
    BY <1>1, <1>4 DEF CloseFile, CloseReg, b
  <1>. HIDE DEF k
  <1>7. taskctx_close(st, t, d, dontfree) = DropFile(fcb_del(k, i), t, open, dontfree)
    BY <1>6 DEF taskctx_close
  <1>8. k.ctx[t] # NoCtx /\ d \in DOMAIN k.ctx[t].open /\ SlotOf(k.ctx[t].open[d]) = i /\ i \in Index
        /\ open = [k.ctx[t].open EXCEPT ![d] = Closed]
    BY <1>1, <1>4
  <1>9. Kept(E, DropFile(fcb_del(k, SlotOf(k.ctx[t].open[d])), t, [k.ctx[t].open EXCEPT ![d] = Closed], dontfree), m, q)
    BY <1>5, <1>8, KeptDropFile
  <1>. QED BY <1>7, <1>8, <1>9

(* All descriptors of a task are closed. *)
LEMMA KeptCloseAll ==
  ASSUME NEW E, NEW st, NEW m, NEW q, Kept(E, st, m, q), NEW t \in Pid
  PROVE  Kept(E, CloseAll(st, t), m, q)
  <1>. DEFINE n == Len(st.ctx[t].open)
  <1>1. n \in Nat
    BY KeptTypes, ListedKept
  <1>2. PICK f : CloseAllSteps(f, st, t)
    BY <1>1, CloseAllStepsExists
  <1>. DEFINE T == {k \in Nat : k <= n => Kept(E, f[k], m, q)}
  <1>3. 0 \in T
    BY <1>2 DEF CloseAllSteps
  <1>4. ASSUME NEW k \in Nat, k \in T PROVE k + 1 \in T
    <2>1. CASE k + 1 <= n
      <3>. HIDE DEF n
      <3>1. k <= n /\ k < n
        BY <1>1, <2>1
      <3>2. Kept(E, f[k], m, q)
        BY <1>4, <3>1
      <3>3. f[k + 1] = taskctx_close(f[k], t, k + 1, FALSE)
        BY <1>2, <3>1 DEF CloseAllSteps, n
      <3>4. Kept(E, f[k + 1], m, q)
        BY <3>2, <3>3, KeptClose
      <3>. QED BY <3>4
    <2>. QED BY <2>1
  <1>5. n \in T
    <2>. HIDE DEF T
    <2>. QED BY <1>1, <1>3, <1>4, InductionSet
  <1>. QED BY <1>1, <1>2, <1>5 DEF CloseAllSteps

(* A descriptor of a task is changed, but neither what it is a descriptor of *)
(* nor whether it is one of a pipe or of a terminal.                         *)
LEMMA KeptSetFile ==
  ASSUME NEW E, NEW st, NEW m, NEW q, Kept(E, st, m, q), NEW t \in Pid, st.ctx[t] # NoCtx, NEW d, NEW of,
         d \in DOMAIN st.ctx[t].open =>
            /\ of.fid = st.ctx[t].open[d].fid /\ of.obj = st.ctx[t].open[d].obj
            /\ DOMAIN of = DOMAIN st.ctx[t].open[d]
            /\ \A f \in {"fifo", "tty"} : f \in of.mode <=> f \in st.ctx[t].open[d].mode
  PROVE  Kept(E, [st EXCEPT !.ctx[t].open = [st.ctx[t].open EXCEPT ![d] = of]], m, q)
  <1>. DEFINE open == [st.ctx[t].open EXCEPT ![d] = of]
              st2 == [st EXCEPT !.ctx[t].open = open]
  <1>0. DOMAIN st = Fields /\ PipesInOrder(st) /\ DOMAIN st.ctx = Pid /\ DOMAIN st.ctx[t] = CtxFields /\ Listed(st.ctx[t].open)
    BY KeptTypes
  <1>1. PipesInOrder(st2)
    <2>1. Listed(open)
      BY <1>0, ListedKept
    <2>. HIDE DEF open
    <2>. QED BY <1>0, <2>1, OrderSetOpen
  <1>2. SameCtx(st.ctx[t], [st.ctx[t] EXCEPT !.open = open])
    <2>1. DOMAIN open = DOMAIN st.ctx[t].open
      OBVIOUS
    <2>2. \A e \in DOMAIN st.ctx[t].open : open[e] = IF e = d THEN of ELSE st.ctx[t].open[e]
      OBVIOUS
    <2>. HIDE DEF open
    <2>3. LET c2 == [st.ctx[t] EXCEPT !.open = open]
          IN  c2.root = st.ctx[t].root /\ c2.work = st.ctx[t].work /\ c2.open = open
      BY <1>0 DEF CtxFields
    <2>. QED BY <2>1, <2>2, <2>3 DEF SameCtx
  <1>. HIDE DEF open
  <1>3. /\ st2.fcb = st.fcb /\ st2.nfcb = st.nfcb /\ st2.mtab = st.mtab /\ st2.dev = st.dev
        /\ st2.npipe = st.npipe /\ st2.pipe = st.pipe
        /\ st2.ctx = [st.ctx EXCEPT ![t].open = open]
    BY <1>0 DEF Fields
  <1>. HIDE DEF st2
  <1>4. \A u \in Pid : SameCtx(st.ctx[u], st2.ctx[u])
    <2>1. \A u \in Pid : st2.ctx[u] = IF u = t THEN [st.ctx[t] EXCEPT !.open = open] ELSE st.ctx[u]
      BY <1>0, <1>3
    <2>2. \A u \in Pid : SameCtx(st.ctx[u], st.ctx[u])
      BY DEF SameCtx
    <2>. QED BY <1>2, <2>1, <2>2
  <1>5. Kept(E, st2, m, q)
    BY <1>1, <1>3, <1>4, KeptSame
  <1>. QED BY <1>5 DEF st2, open

(* The position of a descriptor is set. *)
LEMMA KeptSetOffs ==
  ASSUME NEW E, NEW st, NEW m, NEW q, Kept(E, st, m, q), NEW t \in Pid, st.ctx[t] # NoCtx, NEW d, NEW n
  PROVE  Kept(E, [st EXCEPT !.ctx[t].open[d].offs = n], m, q)
  <1>. DEFINE of == [st.ctx[t].open[d] EXCEPT !.offs = n]
  <1>1. /\ of.fid = st.ctx[t].open[d].fid /\ of.obj = st.ctx[t].open[d].obj
        /\ DOMAIN of = DOMAIN st.ctx[t].open[d] /\ of.mode = st.ctx[t].open[d].mode
    OBVIOUS
  <1>2. [st EXCEPT !.ctx[t].open[d].offs = n] = [st EXCEPT !.ctx[t].open = [st.ctx[t].open EXCEPT ![d] = of]]
    BY KeptTypes
  <1>. HIDE DEF of
  <1>3. Kept(E, [st EXCEPT !.ctx[t].open = [st.ctx[t].open EXCEPT ![d] = of]], m, q)
    BY <1>1, KeptSetFile
  <1>. QED BY <1>2, <1>3

(* A directory that was opened. *)
LEMMA KeptAsDir ==
  ASSUME NEW E, NEW st, NEW m, NEW q, Kept(E, st, m, q), NEW t \in Pid
  PROVE  Kept(E, AsDir(st, t), m, q)
  <1>. DEFINE d == st.ret
              of == [st.ctx[t].open[d] EXCEPT !.mode = @ \union {"dir"}]
              st2 == [st EXCEPT !.ctx[t].open[d].mode = @ \union {"dir"}]
  <1>. SUFFICES Kept(E, st2, m, q)
    BY DEF AsDir
  <1>0. DOMAIN st = Fields /\ DOMAIN st.ctx = Pid /\ DOMAIN st.ctx[t] = CtxFields
    BY KeptTypes
  <1>1. CASE st.ctx[t] = NoCtx
    <2>1. st.ctx[t].open = <<>> /\ DOMAIN st.ctx[t].open = {}
      BY <1>1, NewCtxIs
    <2>2. [st.ctx[t].open EXCEPT ![d].mode = @ \union {"dir"}] = <<>>
      <3>. DEFINE e == [st.ctx[t].open[d] EXCEPT !.mode = @ \union {"dir"}]
                  open == [st.ctx[t].open EXCEPT ![d] = e]
      <3>1. Listed(open)
        <4>. HIDE DEF e
        <4>. QED BY KeptTypes, ListedKept
      <3>2. DOMAIN open = {}
        BY <2>1
      <3>. HIDE DEF open
      <3>3. Len(open) = 0 /\ open \in Seq({open[i] : i \in DOMAIN open})
        BY <3>1, <3>2, ListedKept DEF Listed
      <3>4. open = <<>>
        BY <3>3, EmptySeq
      <3>5. [st.ctx[t].open EXCEPT ![d].mode = @ \union {"dir"}] = [st.ctx[t].open EXCEPT ![d] = e]
        BY Zenon
      <3>. HIDE DEF e, d
      <3>. QED BY <3>4, <3>5 DEF open
    <2>3. [NoCtx EXCEPT !.open = <<>>] = NoCtx
      <3>. DEFINE none(o) == [root |-> NOFID, work |-> ROOTFCB, cwd |-> <<>>, open |-> o, nfiles |-> 0, msg |-> NoMsg]
      <3>1. NoCtx = none(<<>>)
        BY DEF NoCtx, NewCtx
      <3>2. \A o, o2 : [none(o) EXCEPT !.open = o2] = none(o2)
        OBVIOUS
      <3>. HIDE DEF none
      <3>. QED BY <3>1, <3>2
    <2>4. /\ st2.fcb = st.fcb /\ st2.nfcb = st.nfcb /\ st2.mtab = st.mtab /\ st2.dev = st.dev
          /\ st2.npipe = st.npipe /\ st2.pipe = st.pipe
          /\ \A u \in Pid : st2.ctx[u] = IF u = t THEN [NoCtx EXCEPT !.open = <<>>] ELSE st.ctx[u]
      BY <1>0, <1>1, <2>2 DEF Fields
    <2>5. PipesInOrder(st2)
      <3>1. st2 = [st EXCEPT !.ctx[t].open = <<>>]
        BY <2>2
      <3>2. Listed(<<>>)
        BY EmptySeq, SeqIsListed
      <3>. QED BY <3>1, <3>2, OrderSetOpen, KeptTypes
    <2>. HIDE DEF st2
    <2>6. \A u \in Pid : SameCtx(st.ctx[u], st2.ctx[u])
      BY <1>1, <2>3, <2>4 DEF SameCtx
    <2>. QED BY <2>4, <2>5, <2>6, KeptSame
  <1>2. CASE st.ctx[t] # NoCtx
    <2>1. ASSUME d \in DOMAIN st.ctx[t].open
          PROVE  /\ of.fid = st.ctx[t].open[d].fid /\ of.obj = st.ctx[t].open[d].obj
                 /\ DOMAIN of = DOMAIN st.ctx[t].open[d]
                 /\ \A f \in {"fifo", "tty"} : f \in of.mode <=> f \in st.ctx[t].open[d].mode
      <3>1. "mode" \in DOMAIN st.ctx[t].open[d]
        BY <2>1 DEF Kept, Tasks, DescOK
      <3>2. of.mode = st.ctx[t].open[d].mode \union {"dir"}
        BY <3>1
      <3>. QED BY <3>2
    <2>2. st2 = [st EXCEPT !.ctx[t].open = [st.ctx[t].open EXCEPT ![d] = of]]
      BY <1>0
    <2>. HIDE DEF of, d
    <2>3. Kept(E, [st EXCEPT !.ctx[t].open = [st.ctx[t].open EXCEPT ![d] = of]], m, q)
      BY <1>2, <2>1, KeptSetFile
    <2>. QED BY <2>2, <2>3
  <1>. QED BY <1>1, <1>2

(* Reading, writing and seeking. *)
LEMMA KeptSeek ==
  ASSUME NEW E, NEW st, NEW m, NEW q, Kept(E, st, m, q), NEW t \in Pid, NEW d, NEW offs, NEW whence
  PROVE  Kept(E, taskctx_seek(st, t, d, offs, whence), m, q)
  <1>1. \A a : Kept(E, a, m, q) => \A e, r : Kept(E, Fail(a, e, r), m, q) /\ Kept(E, Ok(a, r), m, q)
    BY KeptFail
  <1>2. taskctx_validfid(st, t, d) => \A n : Kept(E, [st EXCEPT !.ctx[t].open[d].offs = n], m, q)
    <2>1. taskctx_validfid(st, t, d) => st.ctx[t] # NoCtx
      BY DEF taskctx_validfid
    <2>. QED BY <2>1, KeptSetOffs
  <1>. QED BY <1>1, <1>2 DEF taskctx_seek

(* taskctx_read holds nothing and lets nothing go. *)
LEMMA KeptRead ==
  ASSUME NEW E, NEW st, NEW m, NEW q, Kept(E, st, m, q), NEW t \in Pid, NEW d, NEW size \in Nat
  PROVE  Kept(E, taskctx_read(st, t, d, size), m, q)
  BY KeptFail, KeptPipeRead DEF taskctx_read

(* taskctx_write holds nothing and lets nothing go. *)
LEMMA KeptWrite ==
  ASSUME NEW E, NEW st, NEW m, NEW q, Kept(E, st, m, q), NEW t \in Pid, NEW d, NEW size \in Nat
  PROVE  Kept(E, taskctx_write(st, t, d, size), m, q)
  <1>1. \A a : Kept(E, a, m, q) => \A e, r : Kept(E, Fail(a, e, r), m, q) /\ Kept(E, Ok(a, r), m, q)
    BY KeptFail
  <1>2. \A i : Kept(E, pipe_write(st, i, size), m, q)
    BY KeptPipeWrite
  <1>3. Kept(E, [st EXCEPT !.delay = TRUE], m, q)
    <2>1. DOMAIN st = Fields
      BY KeptTypes
    <2>2. DOMAIN [st EXCEPT !.delay = TRUE] = Fields /\ \A f \in Tables : [st EXCEPT !.delay = TRUE][f] = st[f]
      BY <2>1 DEF Fields, Tables
    <2>. QED BY <2>2, KeptCopy
  <1>. QED BY <1>1, <1>2, <1>3 DEF taskctx_write

-----------------------------------------------------------------------------
(* Working and root directories *)

(* A tag lets its slot go with fcb_del and takes another one, or the same   *)
(* one again.                                                               *)
LEMMA SlotsMoved ==
  ASSUME NEW st, PipesInOrder(st), NEW A, NEW P, NEW m, Slots(st.fcb, st.nfcb, A, P, m),
         NEW x \in DOMAIN A, x # Top, NEW old, A[x] = old,
         NEW B, NEW Q, Fewer(A, B, {x, Top}), Relies(A, P, B, Q, {x, Top}),
         B[Top] = ROOTFCB, Q[Top] = <<>>, NEW d \in Index, B[x] = d, Q[x] = Free,
         NEW g, Grown(fcb_del(st, old).fcb, g), fcb_del(st, old).fcb[d].nopen + 1 <= g[d].nopen
  PROVE  Slots(g, fcb_del(st, old).nfcb, B, Q, m)
  <1>. DEFINE C == [B EXCEPT ![x] = NOFID]
              f == fcb_del(st, old).fcb
              n == fcb_del(st, old).nfcb
  <1>1. DOMAIN B = DOMAIN A
    BY DEF Fewer
  <1>2. Without(B, C, x)
    BY <1>1 DEF Without
  <1>3. /\ C[x] = NOFID /\ C[Top] = ROOTFCB /\ DOMAIN C = DOMAIN A
        /\ Fewer(C, B, {x, Top}) /\ Relies(C, Q, B, Q, {x, Top})
        /\ Fewer(A, C, {Top}) /\ Relies(A, P, C, Q, {Top})
    <2>1. Fewer(A, B, {Top} \union {x}) /\ Relies(A, P, B, Q, {Top} \union {x})
      BY DEF Fewer, Relies
    <2>2. Top \in DOMAIN A
      BY DEF Slots
    <2>3. C[x] = NOFID /\ C[Top] = B[Top] /\ DOMAIN C = DOMAIN A
      BY <1>1, <1>2, <2>2 DEF Without
    <2>. HIDE DEF C
    <2>. QED BY <1>2, <2>1, <2>3, Between
  <1>. HIDE DEF C
  <1>4. Fewer(A, C, {x, Top}) /\ Relies(A, P, C, Q, {x, Top})
    BY <1>3 DEF Fewer, Relies
  <1>5. Slots(f, n, C, Q, m)
    <2>1. CASE old \in Index
      <3>. HIDE DEF f, n
      <3>. QED BY <1>3, <1>4, <2>1, SlotsFcbDel DEF f, n
    <2>2. CASE old \notin Index
      <3>1. old = NOFID
        BY <2>2 DEF Slots
      <3>2. fcb_del(st, old) = st
        <4>1. ~LiveFcb(st, NOFID)
          BY DEF LiveFcb, IsFcb, NOFID
        <4>. QED BY <3>1, <4>1 DEF fcb_del
      <3>3. Grown(st.fcb, st.fcb)
        <4>1. \A i \in Index : st.fcb[i].nopen \in Nat
          BY TopHeld
        <4>. QED BY <4>1 DEF Slots, Grown
      <3>4. Slots(st.fcb, st.nfcb, C, Q, m)
        <4>. HIDE DEF f, n
        <4>. QED BY <1>3, <3>3, SlotsKept
      <3>. QED BY <3>2, <3>4
    <2>. QED BY <2>1, <2>2
  <1>6. x \in DOMAIN C
    BY <1>3
  <1>. HIDE DEF f, n
  <1>7. Slots(g, n, B, Q, m)
    BY <1>3, <1>5, <1>6, SlotsTaken DEF f
  <1>. QED BY <1>7 DEF n

(* The working directory of a task, or its root, is slot d from now on; a is *)
(* the state in which the old one is let go.                                 *)
Moved(st, a, st2, t, x, d) ==
    /\ Grown(a.fcb, st2.fcb) /\ a.fcb[d].nopen + 1 <= st2.fcb[d].nopen /\ st2.nfcb = a.nfcb
    /\ st2.pipe = st.pipe /\ st2.npipe = st.npipe /\ st2.mtab = st.mtab /\ st2.dev = st.dev
    /\ \A u \in Pid \ {t} : st2.ctx[u] = st.ctx[u]
    /\ st2.ctx[t].open = st.ctx[t].open /\ st2.ctx[t].root # NOFID
    /\ x = Root(t) \/ st2.ctx[t].root = st.ctx[t].root
    /\ x = Work(t) \/ st2.ctx[t].work = st.ctx[t].work
    /\ View(st2.ctx, st.mtab)[x] = d

(* A directory of a task moves to the slot d. *)
LEMMA KeptMoved ==
  ASSUME NEW E, NEW st, NEW m, NEW q, Kept(E, st, m, q), NEW t \in Pid, st.ctx[t] # NoCtx, NEW d \in Index,
         NEW x \in {Root(t), Work(t)}, NEW old, View(st.ctx, st.mtab)[x] = old,
         NEW st2, PipesInOrder(st2), Moved(st, fcb_del(st, old), st2, t, x, d)
  PROVE  Kept(E, st2, m, q)
  <1>. DEFINE A == View(st.ctx, st.mtab)
              B == View(st2.ctx, st.mtab)
              P == Paths(st.ctx)
              Q == Paths(st2.ctx)
              X == {x, Top}
              a == fcb_del(st, old)
  <1>0. /\ Grown(a.fcb, st2.fcb) /\ a.fcb[d].nopen + 1 <= st2.fcb[d].nopen /\ st2.nfcb = a.nfcb
        /\ st2.pipe = st.pipe /\ st2.npipe = st.npipe /\ st2.mtab = st.mtab /\ st2.dev = st.dev
        /\ \A u \in Pid \ {t} : st2.ctx[u] = st.ctx[u]
        /\ st2.ctx[t].open = st.ctx[t].open /\ st2.ctx[t].root # NOFID
        /\ x = Root(t) \/ st2.ctx[t].root = st.ctx[t].root
        /\ x = Work(t) \/ st2.ctx[t].work = st.ctx[t].work
        /\ View(st2.ctx, st.mtab)[x] = d
    BY DEF Moved
  <1>1. st.ctx[t].root # NOFID
    BY DEF Kept, Tasks
  <1>2. x \in DOMAIN A /\ x # Top /\ Q[x] = Free
    <2>1. x \in Tags /\ x # Top
      BY TagsAre
    <2>2. \A u \in Pid, e \in Nat : x # Open(u, e)
      BY TagsDiffer
    <2>. QED BY <2>1, <2>2, ViewIs, PathsAre
  <1>3. Fewer(A, B, X) /\ Relies(A, P, B, Q, X)
    <2>1. \A e \in Nat : SlotAt(st2.ctx[t], e) = SlotAt(st.ctx[t], e) /\ PathAt(st2.ctx[t], e) = PathAt(st.ctx[t], e)
      BY <1>0 DEF SlotAt, PathAt
    <2>2. /\ Root(t) \in X \/ st2.ctx[t].root = st.ctx[t].root
          /\ Work(t) \in X \/ WorkOf(st2.ctx[t]) = WorkOf(st.ctx[t])
      BY <1>0, <1>1 DEF WorkOf
    <2>3. Top \in X
      OBVIOUS
    <2>. HIDE DEF X
    <2>. QED BY <1>0, <2>1, <2>2, <2>3, ViewOfTask
  <1>4. Slots(st.fcb, st.nfcb, A, P, m) /\ PipesInOrder(st) /\ B[Top] = ROOTFCB /\ Q[Top] = <<>>
    BY KeptTypes, ViewTop
  <1>5. Slots(st2.fcb, st2.nfcb, B, Q, m)
    <2>. HIDE DEF A, B, P, Q
    <2>1. A[x] = old /\ B[x] = d
      BY <1>0 DEF A, B
    <2>. QED BY <1>0, <1>2, <1>3, <1>4, <2>1, SlotsMoved
  <1>6. Tasks(st2.pipe, st2.ctx)
    <2>. SUFFICES ASSUME NEW u \in Pid
                  PROVE  /\ \A e \in DOMAIN st2.ctx[u].open : DescOK(st2.pipe, st2.ctx[u].open[e])
                         /\ st2.ctx[u].root = NOFID => st2.ctx[u] = NoCtx
      BY DEF Tasks
    <2>1. /\ \A e \in DOMAIN st.ctx[u].open : DescOK(st.pipe, st.ctx[u].open[e])
          /\ st.ctx[u].root = NOFID => st.ctx[u] = NoCtx
      BY DEF Kept, Tasks
    <2>. QED BY <1>0, <2>1
  <1>. QED BY <1>0, <1>4, <1>5, <1>6 DEF Kept, Unnamed

(* fcb_del leaves slots. *)
LEMMA FcbDelTypes ==
  ASSUME NEW E, NEW st, NEW m, NEW q, Kept(E, st, m, q), NEW i
  PROVE  DOMAIN fcb_del(st, i).fcb = Index
         /\ \A j \in Index : DOMAIN fcb_del(st, i).fcb[j] = FcbFields /\ fcb_del(st, i).fcb[j].nopen \in Nat
  <1>0. /\ DOMAIN st = Fields /\ DOMAIN st.fcb = Index
        /\ \A j \in Index : DOMAIN st.fcb[j] = FcbFields /\ st.fcb[j].nopen \in Nat
    BY KeptTypes
  <1>1. CASE ~LiveFcb(st, i)
    BY <1>0, <1>1 DEF fcb_del
  <1>2. CASE LiveFcb(st, i) /\ st.fcb[i].nopen > 1
    <2>1. fcb_del(st, i).fcb = [st.fcb EXCEPT ![i].nopen = @ - 1]
      BY <1>0, <1>2 DEF fcb_del, Fields
    <2>. QED BY <1>0, <1>2, <2>1 DEF FcbFields
  <1>3. CASE LiveFcb(st, i) /\ ~(st.fcb[i].nopen > 1)
    <2>1. fcb_del(st, i).fcb = [st.fcb EXCEPT ![i].nopen = 0, ![i].path = Free]
      BY <1>0, <1>3 DEF fcb_del, Fields
    <2>. QED BY <1>0, <2>1 DEF FcbFields
  <1>. QED BY <1>1, <1>2, <1>3

(* The task takes another working directory. *)
LEMMA KeptWorkAt ==
  ASSUME NEW E, NEW st, NEW m, NEW q, Kept(E, st, m, q), NEW t \in Pid, st.ctx[t] # NoCtx, NEW d \in Index, NEW cwd
  PROVE  Kept(E, WorkAt(st, t, d, cwd), m, q)
  <1>. DEFINE old == st.ctx[t].work
              a == fcb_del(st, old)
              b == [a EXCEPT !.fcb[d].nopen = @ + 1, !.ctx[t].work = d, !.ctx[t].cwd = cwd]
  <1>0. /\ DOMAIN st = Fields /\ PipesInOrder(st) /\ DOMAIN st.ctx = Pid /\ DOMAIN st.ctx[t] = CtxFields
        /\ st.ctx[t].root # NOFID
    BY KeptTypes DEF Kept, Tasks
  <1>1. PipesInOrder(a) /\ DOMAIN a = Fields /\ \A f \in Fields \ {"fcb", "nfcb"} : a[f] = st[f]
    <2>1. PipesInOrder(a)
      BY <1>0, OrderFcbDel
    <2>. QED BY <1>0, <2>1, FcbDelIs DEF PipesInOrder
  <1>2. DOMAIN a.fcb = Index /\ \A i \in Index : DOMAIN a.fcb[i] = FcbFields /\ a.fcb[i].nopen \in Nat
    BY FcbDelTypes
  <1>3. View(st.ctx, st.mtab)[Work(t)] = old
    BY <1>0, ViewIs DEF WorkOf
  <1>. HIDE DEF a, old
  <1>4. /\ b.fcb = [a.fcb EXCEPT ![d].nopen = @ + 1] /\ b.nfcb = a.nfcb
        /\ b.pipe = st.pipe /\ b.npipe = st.npipe /\ b.mtab = st.mtab /\ b.dev = st.dev
        /\ \A u \in Pid \ {t} : b.ctx[u] = st.ctx[u]
        /\ b.ctx[t].open = st.ctx[t].open /\ b.ctx[t].root = st.ctx[t].root /\ b.ctx[t].work = d
    BY <1>0, <1>1 DEF Fields, CtxFields
  <1>5. Grown(a.fcb, b.fcb) /\ a.fcb[d].nopen + 1 <= b.fcb[d].nopen
    BY <1>2, <1>4 DEF Grown, FcbFields
  <1>6. PipesInOrder(b)
    BY <1>1, OrderDirs
  <1>. HIDE DEF b
  <1>7. View(b.ctx, st.mtab)[Work(t)] = d
    BY <1>0, <1>4, ViewIs DEF WorkOf
  <1>8. Moved(st, a, b, t, Work(t), d)
    BY <1>0, <1>4, <1>5, <1>7 DEF Moved
  <1>9. Kept(E, b, m, q)
    BY <1>3, <1>6, <1>8, KeptMoved DEF a
  <1>. QED BY <1>9 DEF WorkAt, b, a, old

(* The task takes another root directory. *)
LEMMA KeptRootAt ==
  ASSUME NEW E, NEW st, NEW m, NEW q, Kept(E, st, m, q), NEW t \in Pid, st.ctx[t] # NoCtx, NEW d \in Index
  PROVE  Kept(E, RootAt(st, t, d), m, q) /\ RootAt(st, t, d).ctx[t] # NoCtx
  <1>. DEFINE old == st.ctx[t].root
              a == fcb_del(st, old)
              b == [a EXCEPT !.fcb[d].nopen = @ + 1, !.ctx[t].root = d]
  <1>0. /\ DOMAIN st = Fields /\ PipesInOrder(st) /\ DOMAIN st.ctx = Pid /\ DOMAIN st.ctx[t] = CtxFields
        /\ st.ctx[t].root # NOFID
    BY KeptTypes DEF Kept, Tasks
  <1>1. PipesInOrder(a) /\ DOMAIN a = Fields /\ \A f \in Fields \ {"fcb", "nfcb"} : a[f] = st[f]
    <2>1. PipesInOrder(a)
      BY <1>0, OrderFcbDel
    <2>. QED BY <1>0, <2>1, FcbDelIs DEF PipesInOrder
  <1>2. DOMAIN a.fcb = Index /\ \A i \in Index : DOMAIN a.fcb[i] = FcbFields /\ a.fcb[i].nopen \in Nat
    BY FcbDelTypes
  <1>3. View(st.ctx, st.mtab)[Root(t)] = old
    BY <1>0, ViewIs
  <1>. HIDE DEF a, old
  <1>4. /\ b.fcb = [a.fcb EXCEPT ![d].nopen = @ + 1] /\ b.nfcb = a.nfcb
        /\ b.pipe = st.pipe /\ b.npipe = st.npipe /\ b.mtab = st.mtab /\ b.dev = st.dev
        /\ \A u \in Pid \ {t} : b.ctx[u] = st.ctx[u]
        /\ b.ctx[t].open = st.ctx[t].open /\ b.ctx[t].work = st.ctx[t].work /\ b.ctx[t].root = d
    BY <1>0, <1>1 DEF Fields, CtxFields
  <1>5. Grown(a.fcb, b.fcb) /\ a.fcb[d].nopen + 1 <= b.fcb[d].nopen
    BY <1>2, <1>4 DEF Grown, FcbFields
  <1>6. PipesInOrder(b)
    BY <1>1, OrderDirs
  <1>. HIDE DEF b
  <1>7. View(b.ctx, st.mtab)[Root(t)] = d
    BY <1>0, <1>4, ViewIs
  <1>8. Moved(st, a, b, t, Root(t), d)
    <2>1. d # NOFID
      BY KeptTypes
    <2>. QED BY <2>1, <1>0, <1>4, <1>5, <1>7 DEF Moved
  <1>9. Kept(E, b, m, q)
    BY <1>3, <1>6, <1>8, KeptMoved DEF a
  <1>10. b.ctx[t] # NoCtx
    <2>1. d # NOFID
      BY KeptTypes
    <2>. QED BY <2>1, <1>4, NewCtxIs
  <1>. QED BY <1>9, <1>10 DEF RootAt, b, a, old

-----------------------------------------------------------------------------
(* vfs.c *)

(* fcb_add moves slots only and leaves the index of one. *)
LEMMA FcbAddIs ==
  ASSUME NEW st, DOMAIN st = Fields, NEW p, NEW type
  PROVE  \A f \in Fields \ {"fcb", "nfcb", "ret"} : fcb_add(st, p, type)[f] = st[f]
  BY DEF fcb_add, Fields, Ok

(* The bounds are one larger, as far as they go. *)
LEMMA KeptOneMore ==
  ASSUME NEW E, NEW st, NEW m, NEW q, Kept(E, st, m, q), m <= MaxFcb
  PROVE  Kept(E, st, m + 1, q)
  <1>1. m \in Nat /\ q \in Nat /\ q <= MaxPipe + 1 /\ MaxFcb \in Nat
    BY KeptTypes, TableAssumption
  <1>2. m + 1 \in Nat /\ m <= m + 1 /\ m + 1 <= MaxFcb + 1 /\ q <= q
    BY <1>1
  <1>. QED BY <1>1, <1>2, KeptMore

(* Modes and devices of slots change, and no count. *)
LEMMA KeptSetModes ==
  ASSUME NEW E, NEW st, NEW m, NEW q, Kept(E, st, m, q), NEW i, NEW mode, NEW dev
  PROVE  Kept(E, [st EXCEPT !.fcb[i].mode = mode, !.fcb[i].storage = dev], m, q)
  <1>. DEFINE g == [st.fcb EXCEPT ![i].mode = mode, ![i].storage = dev]
  <1>0. /\ DOMAIN st = Fields /\ DOMAIN st.fcb = Index
        /\ \A j \in Index : DOMAIN st.fcb[j] = FcbFields /\ st.fcb[j].nopen \in Nat
    BY KeptTypes
  <1>1. Grown(st.fcb, g)
    BY <1>0 DEF Grown, FcbFields
  <1>2. [st EXCEPT !.fcb[i].mode = mode, !.fcb[i].storage = dev] = [st EXCEPT !.fcb = g]
    BY <1>0 DEF Fields
  <1>. HIDE DEF g
  <1>. QED BY <1>1, <1>2, KeptGrown

(* lookup finds a slot, takes one or finds none. *)
LEMMA KeptEntered ==
  ASSUME NEW E, NEW st, NEW m, NEW q, Kept(E, st, m, q), m <= MaxFcb, NEW w
  PROVE  /\ Kept(E, Entered(st, w), m + 1, q) /\ Entered(st, w).ctx = st.ctx
         /\ Entered(st, w).ret \in Index \union {NOFID}
  <1>. DEFINE l == [st EXCEPT !.err = w.err, !.stuck = IF w.loop THEN "loop" ELSE @]
              fd == st.mtab[MountOf(st, w.path)].st
              a == fcb_add(l, w.path, Tree[w.path].type)
              i == fcb_get(st, w.path)
              b == [a EXCEPT !.fcb[a.ret].mode = st.fcb[fd].mode, !.fcb[a.ret].storage = fd]
  <1>0. DOMAIN st = Fields /\ st.nfcb \in Nat /\ m \in Nat /\ st.nfcb <= m /\ MaxFcb \in Nat
    BY KeptTypes, TableAssumption
  <1>1. DOMAIN l = Fields /\ \A f \in Tables : l[f] = st[f]
    BY <1>0 DEF Fields, Tables
  <1>2. l.ctx = st.ctx
    BY <1>0 DEF Fields
  <1>. HIDE DEF l
  <1>3. Kept(E, l, m, q)
    BY <1>1, KeptCopy
  <1>4. Kept(E, l, m + 1, q)
    BY <1>3, KeptOneMore
  <1>5. i \in Index \union {NOFID}
    <2>1. i = NOFID \/ i \in 0..(st.nfcb - 1)
      BY <1>0, FcbGetIs
    <2>. HIDE DEF i
    <2>. QED BY <1>0, <2>1 DEF Index
  <1>6. Kept(E, a, m + 1, q) /\ a.ret \in Index
    BY <1>3, KeptFcbAdd
  <1>7. DOMAIN a = Fields /\ a.ctx = st.ctx
    <2>1. \A f \in Fields \ {"fcb", "nfcb", "ret"} : a[f] = l[f]
      BY <1>1, FcbAddIs
    <2>2. DOMAIN a = Fields
      BY <1>6, KeptTypes
    <2>. HIDE DEF a
    <2>. QED BY <1>2, <2>1, <2>2 DEF Fields
  <1>. HIDE DEF a, i, fd
  <1>8. Kept(E, b, m + 1, q)
    BY <1>6, KeptSetModes
  <1>9. b.ctx = st.ctx /\ b.ret = a.ret
    BY <1>7 DEF Fields
  <1>. HIDE DEF b
  <1>10. \A r : Kept(E, Ok(l, r), m + 1, q) /\ Ok(l, r).ctx = st.ctx /\ Ok(l, r).ret = r
    <2>1. \A r : Kept(E, Ok(l, r), m + 1, q)
      BY <1>4, KeptFail
    <2>2. \A r : Ok(l, r).ctx = st.ctx /\ Ok(l, r).ret = r
      BY <1>1, <1>2 DEF Ok, Fields
    <2>. QED BY <2>1, <2>2
  <1>11. Entered(st, w) = IF w.path = Free THEN Ok(l, NOFID) ELSE IF i # NOFID THEN Ok(l, i) ELSE b
    BY DEF Entered, l, fd, a, i, b
  <1>. QED BY <1>5, <1>6, <1>8, <1>9, <1>10, <1>11

(* So does the lookup of a path. *)
LEMMA KeptLookup ==
  ASSUME NEW E, NEW st, NEW m, NEW q, Kept(E, st, m, q), m <= MaxFcb, NEW t, NEW path, NEW creat
  PROVE  /\ Kept(E, lookup(st, t, path, creat), m + 1, q) /\ lookup(st, t, path, creat).ctx = st.ctx
         /\ lookup(st, t, path, creat).ret \in Index \union {NOFID}
  BY KeptEntered DEF lookup

(* A file that is not found. *)
LEMMA KeptNotFound ==
  ASSUME NEW E, NEW st, NEW m, NEW q, Kept(E, st, m, q)
  PROVE  Kept(E, NotFound(st), m, q)
  <1>1. DOMAIN st = Fields
    BY KeptTypes
  <1>2. DOMAIN [st EXCEPT !.stuck = "fault"] = Fields /\ \A f \in Tables : [st EXCEPT !.stuck = "fault"][f] = st[f]
    BY <1>1 DEF Fields, Tables
  <1>3. Kept(E, [st EXCEPT !.stuck = "fault"], m, q)
    BY <1>2, KeptCopy
  <1>. QED BY <1>3 DEF NotFound

-----------------------------------------------------------------------------
(* Handlers *)

(* The state in which a request is handled, and the one it leaves: one more *)
(* slot and one more pipe may be in use.                                    *)
Ready(E, st, t) == Kept(E, st, MaxFcb, MaxPipe) /\ st.ctx[t] # NoCtx
Handled(E, h) == Kept(E, h, MaxFcb + 1, MaxPipe + 1)

(* What is kept within narrower bounds has been handled. *)
LEMMA KeptHandled ==
  ASSUME NEW E, NEW st, NEW m, NEW q, Kept(E, st, m, q)
  PROVE  Handled(E, st)
  <1>1. MaxFcb + 1 \in Nat /\ MaxPipe + 1 \in Nat
    BY TableAssumption
  <1>2. m <= MaxFcb + 1 /\ q <= MaxPipe + 1
    BY KeptTypes
  <1>3. MaxFcb + 1 <= MaxFcb + 1 /\ MaxPipe + 1 <= MaxPipe + 1
    BY <1>1
  <1>. QED BY <1>1, <1>2, <1>3, KeptMore DEF Handled

(* Results and errors. *)
LEMMA HandledFail ==
  ASSUME NEW E, NEW st, Handled(E, st), NEW e, NEW r
  PROVE  Handled(E, Fail(st, e, r)) /\ Handled(E, Ok(st, r))
  BY KeptFail DEF Handled

(* A file that is not found. *)
LEMMA HandledNotFound ==
  ASSUME NEW E, NEW st, Handled(E, st)
  PROVE  Handled(E, NotFound(st))
  BY KeptNotFound DEF Handled

(* The lookup of a path by a handler. *)
LEMMA HandledLookup ==
  ASSUME NEW E, NEW st, NEW t, Ready(E, st, t), NEW path, NEW creat
  PROVE  LET l == lookup(st, t, path, creat)
         IN  Handled(E, l) /\ l.ctx[t] # NoCtx /\ l.ret \in Index \union {NOFID}
  <1>. DEFINE l == lookup(st, t, path, creat)
  <1>1. MaxFcb <= MaxFcb
    BY TableAssumption
  <1>2. Kept(E, l, MaxFcb + 1, MaxPipe) /\ l.ctx = st.ctx /\ l.ret \in Index \union {NOFID}
    BY <1>1, KeptLookup DEF Ready
  <1>. HIDE DEF l
  <1>. QED BY <1>2, KeptHandled DEF Ready, l

(* SYS_chroot. *)
LEMMA Kept_SYS_chroot ==
  ASSUME NEW E, NEW st, NEW t \in Pid, Ready(E, st, t), NEW r
  PROVE  Handled(E, SYS_chroot(st, t, r))
  <1>1. ASSUME NEW l, Handled(E, l), l.ctx[t] # NoCtx, NEW d \in Index, NEW cwd
        PROVE  Handled(E, Chroot(l, t, d, cwd))
    BY <1>1, HandledFail, KeptWorkAt DEF Chroot, Handled
  <1>2. ASSUME NEW l, Handled(E, l), l.ctx[t] # NoCtx, l.ret \in Index \union {NOFID}
        PROVE  Handled(E, ChrootTo(l, t))
    <2>1. ASSUME l.ret \in Index PROVE Handled(E, RootAt(l, t, l.ret)) /\ RootAt(l, t, l.ret).ctx[t] # NoCtx
      BY <1>2, <2>1, KeptRootAt DEF Handled
    <2>2. ASSUME l.ret \in Index PROVE Handled(E, Chroot(RootAt(l, t, l.ret), t, l.ret, l.fcb[l.ret].path))
      BY <1>1, <2>1, <2>2
    <2>. QED BY <1>2, <2>2, HandledFail, HandledNotFound DEF ChrootTo, Found
  <1>. QED BY <1>2, HandledLookup DEF SYS_chroot

(* SYS_chdir. *)
LEMMA Kept_SYS_chdir ==
  ASSUME NEW E, NEW st, NEW t \in Pid, Ready(E, st, t), NEW r
  PROVE  Handled(E, SYS_chdir(st, t, r))
  <1>1. ASSUME NEW l, Handled(E, l), l.ctx[t] # NoCtx, l.ret \in Index
        PROVE  Handled(E, Chdir(l, fcb_del(l, l.ctx[t].work), t))
    <2>. DEFINE a == fcb_del(l, l.ctx[t].work)
                d == IF Inside(a, l.ret, a.ctx[t].root) THEN l.ret ELSE a.ctx[t].root
                c == IF Inside(l, l.ret, l.ctx[t].root) THEN l.ret ELSE l.ctx[t].root
    <2>1. Chdir(l, a, t) = Ok(WorkAt(l, t, d, l.fcb[c].path), 0)
      BY DEF Chdir, WorkAt
    <2>2. d \in Index
      <3>1. DOMAIN l = Fields /\ Slots(l.fcb, l.nfcb, View(l.ctx, l.mtab), Paths(l.ctx), MaxFcb + 1)
        BY <1>1, KeptTypes DEF Handled
      <3>2. a.ctx = l.ctx
        <4>1. \A f \in Fields \ {"fcb", "nfcb"} : a[f] = l[f]
          BY <3>1, FcbDelIs
        <4>. HIDE DEF a
        <4>. QED BY <4>1 DEF Fields
      <3>3. l.ctx[t].root # NOFID
        BY <1>1 DEF Handled, Kept, Tasks
      <3>4. View(l.ctx, l.mtab)[Root(t)] = l.ctx[t].root /\ Root(t) \in DOMAIN View(l.ctx, l.mtab)
        BY ViewIs, TagsAre
      <3>5. l.ctx[t].root \in Index
        BY <3>1, <3>3, <3>4 DEF Slots
      <3>. HIDE DEF a
      <3>. QED BY <1>1, <3>2, <3>5
    <2>. HIDE DEF a, d, c
    <2>3. Handled(E, WorkAt(l, t, d, l.fcb[c].path))
      BY <1>1, <2>2, KeptWorkAt DEF Handled
    <2>. QED BY <2>1, <2>3, HandledFail DEF a
  <1>2. ASSUME NEW l, Handled(E, l), l.ctx[t] # NoCtx, l.ret \in Index \union {NOFID}
        PROVE  Handled(E, ChdirTo(l, t))
    BY <1>1, <1>2, HandledFail, HandledNotFound DEF ChdirTo, Found
  <1>. QED BY <1>2, HandledLookup DEF SYS_chdir

(* SYS_opendir. *)
LEMMA Kept_SYS_opendir ==
  ASSUME NEW E, NEW st, NEW t \in Pid, Ready(E, st, t), NEW r
  PROVE  Handled(E, SYS_opendir(st, t, r))
  <1>1. ASSUME NEW l, Handled(E, l) PROVE Handled(E, OpenDir(l, t, r))
    <2>1. \A a : Handled(E, a) => Handled(E, taskctx_close(a, t, r.fd, TRUE))
      BY KeptClose DEF Handled
    <2>2. \A a, fid, mode, offs, want : Handled(E, a) => Handled(E, taskctx_open(a, t, fid, mode, offs, want))
      BY KeptOpen DEF Handled
    <2>3. \A a : Handled(E, a) => Handled(E, AsDir(a, t))
      BY KeptAsDir DEF Handled
    <2>. QED BY <1>1, <2>1, <2>2, <2>3, HandledFail, HandledNotFound DEF OpenDir
  <1>2. Handled(E, st)
    BY KeptHandled DEF Ready
  <1>. QED BY <1>1, <1>2, HandledFail, HandledLookup DEF SYS_opendir

(* SYS_readdir. *)
LEMMA Kept_SYS_readdir ==
  ASSUME NEW E, NEW st, NEW t \in Pid, Ready(E, st, t), NEW r
  PROVE  Handled(E, SYS_readdir(st, t, r))
  <1>1. Handled(E, st)
    BY KeptHandled DEF Ready
  <1>2. \A d, n : Handled(E, [st EXCEPT !.ctx[t].open[d].offs = n])
    BY <1>1, KeptSetOffs DEF Handled, Ready
  <1>. QED BY <1>1, <1>2, HandledFail DEF SYS_readdir, taskctx_readdir

-----------------------------------------------------------------------------
(* mtab.c *)

(* The items of a longer and of a shorter sequence. *)
LEMMA AppendItems ==
  ASSUME NEW x, Listed(x), NEW e
  PROVE  /\ Len(x) \in Nat /\ DOMAIN x = 1..Len(x) /\ DOMAIN Append(x, e) = 1..(Len(x) + 1)
         /\ \A k \in 1..Len(x) : Append(x, e)[k] = x[k]
         /\ Append(x, e)[Len(x) + 1] = e
  <1>. DEFINE R == {x[i] : i \in DOMAIN x} \union {e}
              y == Append(x, e)
  <1>1. x \in Seq(R) /\ e \in R
    BY SeqMonotonic DEF Listed
  <1>. HIDE DEF R
  <1>2. /\ Len(y) = Len(x) + 1 /\ \A k \in 1..Len(x) : y[k] = x[k]
        /\ y[Len(x) + 1] = e
    BY <1>1, AppendProperties
  <1>. HIDE DEF y
  <1>3. Listed(y)
    BY ListedKept DEF y
  <1>4. Len(x) \in Nat /\ DOMAIN x = 1..Len(x) /\ DOMAIN y = 1..Len(y)
    BY <1>3, ListedKept
  <1>. QED BY <1>2, <1>4 DEF y

(* A sequence without one of its items. *)
LEMMA RemovedItems ==
  ASSUME NEW x, Listed(x), NEW i \in 1..Len(x)
  PROVE  /\ Len(x) \in Nat /\ DOMAIN x = 1..Len(x) /\ DOMAIN RemoveAt(x, i) = 1..(Len(x) - 1)
         /\ \A k \in 1..(Len(x) - 1) : RemoveAt(x, i)[k] = IF k < i THEN x[k] ELSE x[k + 1]
  <1>. DEFINE R == {x[j] : j \in DOMAIN x}
              n == Len(x)
              a == SubSeq(x, 1, i - 1)
              b == SubSeq(x, i + 1, n)
              y == RemoveAt(x, i)
  <1>1. n \in Nat /\ DOMAIN x = 1..n /\ i \in Nat /\ i >= 1 /\ i <= n
    BY ListedKept
  <1>2. \A j \in 1..n : x[j] \in R
    BY <1>1
  <1>. HIDE DEF R, n
  <1>3. /\ a \in Seq(R) /\ Len(a) = i - 1
        /\ \A k \in 1..(i - 1) : a[k] = x[k]
    <2>1. \A j \in 1..(i - 1) : x[j] \in R
      BY <1>1, <1>2
    <2>2. /\ a \in Seq(R) /\ Len(a) = IF 1 <= i - 1 THEN (i - 1) - 1 + 1 ELSE 0
          /\ \A k \in 1..((i - 1) - 1 + 1) : a[k] = x[1 + k - 1]
      <3>1. 1 \in Int /\ i - 1 \in Int
        BY <1>1
      <3>. QED BY <2>1, <3>1, SubSeqProperties
    <2>. HIDE DEF a
    <2>3. Len(a) = i - 1
      BY <1>1, <2>2
    <2>4. ASSUME NEW k \in 1..(i - 1) PROVE a[k] = x[k]
      <3>1. k \in 1..((i - 1) - 1 + 1) /\ 1 + k - 1 = k
        BY <1>1
      <3>2. a[k] = x[1 + k - 1]
        BY <2>2, <3>1
      <3>. QED BY <3>1, <3>2
    <2>. QED BY <2>2, <2>3, <2>4
  <1>4. /\ b \in Seq(R) /\ Len(b) = n - i
        /\ \A k \in 1..(n - i) : b[k] = x[i + k]
    <2>1. \A j \in (i + 1)..n : x[j] \in R
      BY <1>1, <1>2
    <2>2. /\ b \in Seq(R) /\ Len(b) = IF i + 1 <= n THEN n - (i + 1) + 1 ELSE 0
          /\ \A k \in 1..(n - (i + 1) + 1) : b[k] = x[(i + 1) + k - 1]
      <3>1. i + 1 \in Int /\ n \in Int
        BY <1>1
      <3>. QED BY <2>1, <3>1, SubSeqProperties
    <2>. HIDE DEF b
    <2>3. Len(b) = n - i
      BY <1>1, <2>2
    <2>4. ASSUME NEW k \in 1..(n - i) PROVE b[k] = x[i + k]
      <3>1. k \in 1..(n - (i + 1) + 1) /\ (i + 1) + k - 1 = i + k
        BY <1>1
      <3>2. b[k] = x[(i + 1) + k - 1]
        BY <2>2, <3>1
      <3>. QED BY <3>1, <3>2
    <2>. QED BY <2>2, <2>3, <2>4
  <1>5. /\ y \in Seq(R) /\ Len(y) = Len(a) + Len(b)
        /\ \A k \in 1..(Len(a) + Len(b)) : y[k] = IF k <= Len(a) THEN a[k] ELSE b[k - Len(a)]
    <2>1. y = a \o b
      BY DEF RemoveAt, n
    <2>. HIDE DEF a, b, y
    <2>. QED BY <1>3, <1>4, <2>1, ConcatProperties
  <1>. HIDE DEF a, b, y
  <1>6. DOMAIN y = 1..(n - 1)
    <2>1. DOMAIN y = 1..Len(y)
      BY <1>5, SeqIsListed
    <2>2. Len(y) = n - 1
      BY <1>1, <1>3, <1>4, <1>5
    <2>. QED BY <2>1, <2>2
  <1>7. ASSUME NEW k \in 1..(n - 1) PROVE y[k] = IF k < i THEN x[k] ELSE x[k + 1]
    <2>1. k \in 1..(Len(a) + Len(b)) /\ (k <= Len(a) <=> k < i)
      BY <1>1, <1>3, <1>4
    <2>2. y[k] = IF k < i THEN a[k] ELSE b[k - (i - 1)]
      BY <1>3, <1>5, <2>1
    <2>3. CASE k < i
      <3>1. k \in 1..(i - 1)
        BY <1>1, <2>3
      <3>. QED BY <2>2, <2>3, <3>1, <1>3
    <2>4. CASE ~(k < i)
      <3>1. k - (i - 1) \in 1..(n - i) /\ i + (k - (i - 1)) = k + 1
        BY <1>1, <2>4
      <3>2. b[k - (i - 1)] = x[i + (k - (i - 1))]
        BY <1>4, <3>1
      <3>. QED BY <2>2, <2>4, <3>1, <3>2
    <2>. QED BY <2>3, <2>4
  <1>. QED BY <1>1, <1>6, <1>7 DEF n, y

(* A mount is taken back; its slots stay counted. *)
LEMMA KeptMtabDel ==
  ASSUME NEW E, NEW st, NEW m, NEW q, Kept(E, st, m, q), NEW path
  PROVE  Kept(E, mtab_del(st, path), m, q)
  <1>. DEFINE mt == st.mtab
              hit == {i \in DOMAIN mt : path \in {st.fcb[mt[i].st].path, st.fcb[mt[i].mp].path}}
              i == Least(hit)
              mt2 == RemoveAt(mt, i)
              st2 == [st EXCEPT !.mtab = mt2]
              A == View(st.ctx, mt)
              B == View(st.ctx, mt2)
              P == Paths(st.ctx)
  <1>0. Listed(mt) /\ Len(mt) \in Nat /\ DOMAIN mt = 1..Len(mt) /\ DOMAIN st = Fields /\ PipesInOrder(st)
    <2>1. Listed(mt)
      BY KeptTypes
    <2>. QED BY <2>1, ListedKept, KeptTypes
  <1>1. ASSUME hit # {} PROVE Kept(E, st2, m, q)
    <2>1. i \in 1..Len(mt)
      <3>1. hit \in SUBSET Nat /\ hit \subseteq 1..Len(mt)
        BY <1>0
      <3>. HIDE DEF hit
      <3>. QED BY <1>1, <3>1, LeastIs
    <2>. HIDE DEF hit, i
    <2>2. /\ DOMAIN mt2 = 1..(Len(mt) - 1)
          /\ \A k \in 1..(Len(mt) - 1) : mt2[k] = IF k < i THEN mt[k] ELSE mt[k + 1]
      BY <1>0, <2>1, RemovedItems
    <2>3. Listed(mt2)
      BY <1>0, <2>1, ListedKept
    <2>. DEFINE j(k) == IF k < i THEN k ELSE k + 1
    <2>4. /\ \A k \in DOMAIN mt2 : j(k) \in DOMAIN mt /\ mt2[k] = mt[j(k)]
          /\ \A k \in DOMAIN mt2, l \in DOMAIN mt2 : j(k) = j(l) => k = l
      BY <1>0, <2>1, <2>2
    <2>. HIDE DEF mt2, j, mt
    <2>5. Mounts(mt2)
      <3>1. Mounts(mt)
        BY DEF Kept, mt
      <3>. QED BY <2>4, <3>1 DEF Mounts
    <2>6. Fewer(A, B, {Top}) /\ Relies(A, P, B, P, {Top})
      <3>1. \A k \in Nat : MpAt(mt2, k) = NOFID \/ MpAt(mt2, k) = MpAt(mt, k)
        BY <2>4 DEF MpAt
      <3>2. \A k \in Nat, l \in Nat : StAt(mt2, k, l) = NOFID \/ StAt(mt2, k, l) = StAt(mt, k, l)
        BY <2>4 DEF StAt
      <3>. QED BY <3>1, <3>2, ViewFewer
    <2>7. Slots(st.fcb, st.nfcb, A, P, m) /\ Grown(st.fcb, st.fcb)
      <3>1. Slots(st.fcb, st.nfcb, A, P, m)
        BY KeptTypes DEF mt
      <3>2. \A k \in Index : st.fcb[k].nopen \in Nat
        BY KeptTypes
      <3>. QED BY <3>1, <3>2 DEF Slots, Grown
    <2>8. B[Top] = ROOTFCB /\ P[Top] = <<>>
      BY ViewTop
    <2>9. Slots(st.fcb, st.nfcb, B, P, m)
      <3>. HIDE DEF A, B, P
      <3>. QED BY <2>6, <2>7, <2>8, SlotsKept
    <2>10. /\ st2.fcb = st.fcb /\ st2.nfcb = st.nfcb /\ st2.pipe = st.pipe /\ st2.npipe = st.npipe
           /\ st2.dev = st.dev /\ st2.mtab = mt2 /\ st2.ctx = st.ctx /\ PipesInOrder(st2)
      BY <1>0, <2>3 DEF Fields, PipesInOrder
    <2>. HIDE DEF st2
    <2>. QED BY <2>5, <2>9, <2>10 DEF Kept, Unnamed
  <1>2. mtab_del(st, path) = IF hit = {} THEN Ok(st, NOFID) ELSE Ok(st2, 0)
    BY DEF mtab_del
  <1>. HIDE DEF hit, st2
  <1>. QED BY <1>1, <1>2, KeptFail

(* A device is mounted: st2 counts it once more than g does, and all other  *)
(* holders are counted in g.                                                *)
LEMMA KeptMounted ==
  ASSUME NEW E, NEW st, NEW m, NEW q, Kept(E, st, m, q), NEW ff \in Index, NEW fd \in Index, NEW mt2, Mounts(mt2),
         StAt(mt2, ff, fd) = fd, NEW C, Without(View(st.ctx, mt2), C, St(ff, fd)),
         NEW g, Slots(g, st.nfcb, C, Paths(st.ctx), m),
         NEW st2, PipesInOrder(st2), Grown(g, st2.fcb), g[fd].nopen + 1 <= st2.fcb[fd].nopen,
         st2.mtab = mt2, \A f \in {"nfcb", "pipe", "npipe", "dev", "ctx"} : st2[f] = st[f]
  PROVE  Kept(E, st2, m, q)
  <1>. DEFINE B == View(st.ctx, mt2)
              x == St(ff, fd)
              P == Paths(st.ctx)
  <1>1. /\ st2.nfcb = st.nfcb /\ st2.pipe = st.pipe /\ st2.npipe = st.npipe
        /\ st2.dev = st.dev /\ st2.ctx = st.ctx
    OBVIOUS
  <1>2. ff \in Nat /\ fd \in Nat
    BY KeptTypes
  <1>3. B[x] = fd /\ x # Top /\ DOMAIN B = Tags /\ x \in Tags
    BY <1>2, ViewIs, TagsAre
  <1>4. Fewer(C, B, {x, Top}) /\ Relies(C, P, B, P, {x, Top}) /\ x \in DOMAIN C
    BY <1>3 DEF Without, Fewer, Relies
  <1>5. B[Top] = ROOTFCB /\ P[Top] = <<>> /\ P[x] = Free
    <2>1. \A t \in Pid, d \in Nat : x # Open(t, d)
      BY TagsDiffer
    <2>. QED BY <1>3, <2>1, ViewTop, PathsAre
  <1>6. Slots(st2.fcb, st.nfcb, B, P, m)
    <2>. HIDE DEF B, P, x
    <2>. QED BY <1>3, <1>4, <1>5, SlotsTaken DEF P
  <1>. QED BY <1>1, <1>6 DEF Kept, Unnamed

(* A mount in a place where nothing was mounted. *)
LEMMA MountNew ==
  ASSUME NEW mt, Listed(mt), Mounts(mt), NEW ff \in Index, NEW fd \in Index, \A i \in DOMAIN mt : mt[i].mp # ff
  PROVE  LET mt2 == Append(mt, [mp |-> ff, st |-> fd])
         IN  /\ Mounts(mt2) /\ StAt(mt2, ff, fd) = fd
             /\ \A k : MpAt(mt2, k) = IF k = ff THEN ff ELSE MpAt(mt, k)
             /\ \A k, j : StAt(mt2, k, j) = IF k = ff /\ j = fd THEN fd ELSE StAt(mt, k, j)
  <1>. DEFINE ent == [mp |-> ff, st |-> fd]
              mt2 == Append(mt, ent)
              n == Len(mt)
  <1>1. /\ n \in Nat /\ DOMAIN mt = 1..n /\ DOMAIN mt2 = 1..(n + 1)
        /\ \A k \in 1..n : mt2[k] = mt[k]
        /\ mt2[n + 1] = ent
    <2>. HIDE DEF ent
    <2>. QED BY AppendItems
  <1>. HIDE DEF mt2, n
  <1>2. /\ n + 1 \in DOMAIN mt2 /\ mt2[n + 1].mp = ff /\ mt2[n + 1].st = fd
        /\ \A k \in DOMAIN mt : k \in DOMAIN mt2 /\ mt2[k] = mt[k]
        /\ \A k \in DOMAIN mt2 : k = n + 1 \/ k \in DOMAIN mt
    <2>1. \A k \in 1..(n + 1) : k = n + 1 \/ k \in 1..n
      BY <1>1
    <2>2. n + 1 \in 1..(n + 1) /\ \A k \in 1..n : k \in 1..(n + 1)
      BY <1>1
    <2>. QED BY <1>1, <2>1, <2>2
  <1>. HIDE DEF ent
  <1>3. Mounts(mt2)
    BY <1>2 DEF Mounts
  <1>4. \A k : MpAt(mt2, k) = IF k = ff THEN ff ELSE MpAt(mt, k)
    BY <1>2 DEF MpAt
  <1>5. \A k, j : StAt(mt2, k, j) = IF k = ff /\ j = fd THEN fd ELSE StAt(mt, k, j)
    BY <1>2 DEF StAt
  <1>. QED BY <1>3, <1>4, <1>5 DEF mt2, ent

(* The mounts when the device mounted at ff gives way to fd. *)
Remounted(mt, mt2, ff, fd, old) ==
    /\ StAt(mt, ff, old) = old
    /\ \A j : MpAt(mt2, j) = MpAt(mt, j)
    /\ \A j, n : j # ff => StAt(mt2, j, n) = StAt(mt, j, n)
    /\ \A n : n # fd => StAt(mt2, ff, n) = NOFID

(* A mount that takes the place of another one. *)
LEMMA MountOver ==
  ASSUME NEW mt, Mounts(mt), NEW ff \in Index, NEW fd \in Index, NEW i \in DOMAIN mt, mt[i].mp = ff
  PROVE  LET mt2 == [mt EXCEPT ![i] = [mp |-> ff, st |-> fd]]
         IN  Mounts(mt2) /\ StAt(mt2, ff, fd) = fd /\ Remounted(mt, mt2, ff, fd, mt[i].st)
  <1>. DEFINE ent == [mp |-> ff, st |-> fd]
              mt2 == [mt EXCEPT ![i] = ent]
  <1>1. /\ DOMAIN mt2 = DOMAIN mt /\ mt2[i].mp = ff /\ mt2[i].st = fd
        /\ \A k \in DOMAIN mt : k # i => mt2[k] = mt[k]
    OBVIOUS
  <1>2. \A k \in DOMAIN mt : k # i => mt[k].mp # ff
    BY DEF Mounts
  <1>. HIDE DEF mt2, ent
  <1>3. Mounts(mt2)
    BY <1>1, <1>2 DEF Mounts
  <1>4. \A k : MpAt(mt2, k) = MpAt(mt, k)
    BY <1>1, <1>2 DEF MpAt
  <1>5. \A k, j : k # ff => StAt(mt2, k, j) = StAt(mt, k, j)
    BY <1>1, <1>2 DEF StAt
  <1>6. \A j : j # fd => StAt(mt2, ff, j) = NOFID
    BY <1>1, <1>2 DEF StAt
  <1>7. StAt(mt2, ff, fd) = fd /\ StAt(mt, ff, mt[i].st) = mt[i].st
    BY <1>1 DEF StAt
  <1>8. Remounted(mt, mt2, ff, fd, mt[i].st)
    BY <1>4, <1>5, <1>6, <1>7 DEF Remounted
  <1>. QED BY <1>3, <1>7, <1>8 DEF mt2, ent

(* The directory of a new mount is counted once more.  C is what is held    *)
(* but for the device that is mounted.                                      *)
LEMMA SlotsMountNew ==
  ASSUME NEW E, NEW st, NEW m, NEW q, Kept(E, st, m, q), NEW ff \in Index, NEW fd \in Index, NEW mt2,
         \A k : MpAt(mt2, k) = IF k = ff THEN ff ELSE MpAt(st.mtab, k),
         \A k, j : StAt(mt2, k, j) = IF k = ff /\ j = fd THEN fd ELSE StAt(st.mtab, k, j),
         NEW C, Without(View(st.ctx, mt2), C, St(ff, fd)),
         NEW g, Grown(st.fcb, g), st.fcb[ff].nopen + 1 <= g[ff].nopen
  PROVE  Slots(g, st.nfcb, C, Paths(st.ctx), m)
  <1>. DEFINE A == View(st.ctx, st.mtab)
              B == View(st.ctx, mt2)
              P == Paths(st.ctx)
              x == St(ff, fd)
              y == Mp(ff)
              X == {y, Top}
  <1>0. Slots(st.fcb, st.nfcb, A, P, m) /\ ff \in Nat /\ fd \in Nat /\ x \in DOMAIN A /\ y \in DOMAIN A /\ x # Top /\ x # y
    <2>1. ff \in Nat /\ fd \in Nat /\ Slots(st.fcb, st.nfcb, A, P, m)
      BY KeptTypes
    <2>. QED BY <2>1, TagsAre, TagsDiffer, ViewIs
  <1>1. Fewer(A, B, X \union {x}) /\ Relies(A, P, B, P, X \union {x})
    <2>. DEFINE Y == X \union {x}
    <2>1. \A k \in Nat : Mp(k) \in Y \/ MpAt(mt2, k) = MpAt(st.mtab, k)
      OBVIOUS
    <2>2. \A k \in Nat, j \in Nat : St(k, j) \in Y \/ StAt(mt2, k, j) = StAt(st.mtab, k, j)
      OBVIOUS
    <2>3. Top \in Y
      OBVIOUS
    <2>. HIDE DEF Y
    <2>4. Fewer(A, B, Y) /\ Relies(A, P, B, P, Y)
      BY <2>1, <2>2, <2>3, ViewFewer
    <2>. QED BY <2>4 DEF Y
  <1>2. Fewer(A, C, X) /\ Relies(A, P, C, P, X)
    <2>1. Top \in X
      OBVIOUS
    <2>. HIDE DEF A, B, P, X, x
    <2>. QED BY <1>0, <1>1, <2>1, Between DEF B, x
  <1>3. C[y] = ff /\ C[Top] = ROOTFCB /\ P[Top] = <<>>
    <2>1. B[y] = MpAt(mt2, ff) /\ B[Top] = ROOTFCB /\ P[Top] = <<>> /\ DOMAIN B = Tags
      BY <1>0, ViewIs, ViewTop
    <2>2. MpAt(mt2, ff) = ff
      OBVIOUS
    <2>3. y \in Tags /\ Top \in Tags
      BY <1>0, TagsAre
    <2>. HIDE DEF x, y, B
    <2>. QED BY <1>0, <2>1, <2>2, <2>3 DEF Without, B, x
  <1>4. CASE y = Top
    <2>1. Fewer(A, C, {Top}) /\ Relies(A, P, C, P, {Top})
      BY <1>2, <1>4
    <2>. HIDE DEF A, P
    <2>2. Slots(g, st.nfcb, C, P, m)
      BY <1>0, <1>3, <2>1, SlotsKept
    <2>. QED BY <2>2 DEF P
  <1>5. CASE y # Top
    <2>1. P[y] = Free
      <3>1. \A t \in Pid, d \in Nat : y # Open(t, d)
        BY TagsDiffer
      <3>. QED BY <1>0, <1>5, <3>1, PathsAre, TagsAre
    <2>. HIDE DEF A, P, y
    <2>2. Slots(g, st.nfcb, C, P, m)
      BY <1>0, <1>2, <1>3, <1>5, <2>1, SlotsTaken
    <2>. QED BY <2>2 DEF P
  <1>. QED BY <1>4, <1>5

(* The device of a mount that is replaced is counted once less. *)
LEMMA SlotsMountOver ==
  ASSUME NEW E, NEW st, NEW m, NEW q, Kept(E, st, m, q), NEW ff \in Index, NEW fd \in Index, NEW mt2,
         NEW old \in Index, StAt(st.mtab, ff, old) = old, \A k : MpAt(mt2, k) = MpAt(st.mtab, k),
         \A k, j : k # ff => StAt(mt2, k, j) = StAt(st.mtab, k, j),
         \A j : j # fd => StAt(mt2, ff, j) = NOFID,
         NEW C, Without(View(st.ctx, mt2), C, St(ff, fd))
  PROVE  Slots([st.fcb EXCEPT ![old].nopen = @ - 1], st.nfcb, C, Paths(st.ctx), m)
  <1>. DEFINE A == View(st.ctx, st.mtab)
              B == View(st.ctx, mt2)
              P == Paths(st.ctx)
              x == St(ff, fd)
              y == St(ff, old)
              X == {y, Top}
              f == st.fcb
              g == [f EXCEPT ![old].nopen = @ - 1]
  <1>0. /\ Slots(f, st.nfcb, A, P, m) /\ ff \in Nat /\ fd \in Nat /\ old \in Nat
        /\ x \in DOMAIN A /\ y \in DOMAIN A /\ x # Top /\ y # Top /\ A[y] = old
        /\ DOMAIN f = Index /\ \A i \in Index : DOMAIN f[i] = FcbFields /\ f[i].nopen \in Nat
    <2>1. ff \in Nat /\ fd \in Nat /\ old \in Nat /\ Slots(f, st.nfcb, A, P, m)
      BY KeptTypes
    <2>2. A[y] = StAt(st.mtab, ff, old)
      BY <2>1, ViewIs
    <2>3. x \in DOMAIN A /\ y \in DOMAIN A /\ x # Top /\ y # Top
      BY <2>1, TagsAre, ViewIs
    <2>. HIDE DEF A, P, x, y
    <2>. QED BY <2>1, <2>2, <2>3, KeptTypes
  <1>1. Fewer(A, B, X \union {x}) /\ Relies(A, P, B, P, X \union {x})
    <2>. DEFINE Y == X \union {x}
    <2>1. \A k \in Nat : Mp(k) \in Y \/ MpAt(mt2, k) = MpAt(st.mtab, k)
      OBVIOUS
    <2>2. \A k \in Nat, j \in Nat : St(k, j) \in Y \/ StAt(mt2, k, j) = NOFID \/ StAt(mt2, k, j) = StAt(st.mtab, k, j)
      OBVIOUS
    <2>3. Top \in Y
      OBVIOUS
    <2>. HIDE DEF Y
    <2>4. Fewer(A, B, Y) /\ Relies(A, P, B, P, Y)
      BY <2>1, <2>2, <2>3, ViewFewer
    <2>. QED BY <2>4 DEF Y
  <1>2. Fewer(A, C, X) /\ Relies(A, P, C, P, X)
    <2>1. Top \in X
      OBVIOUS
    <2>. HIDE DEF A, B, P, X, x
    <2>. QED BY <1>0, <1>1, <2>1, Between DEF B, x
  <1>3. C[y] = NOFID /\ C[Top] = ROOTFCB /\ P[Top] = <<>>
    <2>1. B[y] = StAt(mt2, ff, old) /\ B[Top] = ROOTFCB /\ P[Top] = <<>> /\ DOMAIN B = Tags
      BY <1>0, ViewIs, ViewTop
    <2>2. old = fd \/ StAt(mt2, ff, old) = NOFID
      OBVIOUS
    <2>3. y \in Tags /\ Top \in Tags /\ (old = fd => y = x)
      BY <1>0, TagsAre
    <2>. HIDE DEF x, y, B
    <2>. QED BY <1>0, <2>1, <2>2, <2>3 DEF Without, B, x
  <1>4. f[old].nopen >= 1
    <2>. DEFINE c == [j \in Index |-> f[j].nopen]
    <2>1. Counted(c, A, Index)
      BY <1>0 DEF Slots
    <2>2. Index \in SUBSET Nat
      BY KeptTypes
    <2>3. c[A[y]] >= 1
      <3>. HIDE DEF c, f, A, y
      <3>. QED BY <1>0, <2>1, <2>2, CountHeld
    <2>4. c[old] >= 1
      <3>. HIDE DEF c, A, y, f
      <3>. QED BY <1>0, <2>3
    <2>. QED BY <2>4
  <1>5. Lessened(f, g, old)
    BY <1>0, <1>4 DEF Lessened, FcbFields
  <1>6. Cut(g, st.nfcb, st.nfcb)
    <2>1. st.nfcb \in Nat
      BY KeptTypes
    <2>. QED BY <2>1 DEF Cut
  <1>7. Slots(g, st.nfcb, C, P, m)
    <2>. HIDE DEF A, P, x, y, f, g
    <2>. QED BY <1>0, <1>2, <1>3, <1>5, <1>6, SlotsDropped DEF X
  <1>. QED BY <1>7

(* A device is mounted, or mounted in the place of another one. *)
LEMMA KeptMtabAdd ==
  ASSUME NEW E, NEW st, NEW m, NEW q, Kept(E, st, m, q), NEW devpath, NEW file
  PROVE  Kept(E, mtab_add(st, devpath, file), m, q)
  <1>. DEFINE fd == fcb_get(st, devpath)
              ff == fcb_get(st, file)
              mt == st.mtab
              over == {i \in DOMAIN mt : mt[i].mp = ff}
              k == Least(over)
              ent == [mp |-> ff, st |-> fd]
              a == IF over = {}
                   THEN [st EXCEPT !.mtab = Append(@, ent), !.fcb[ff].nopen = @ + 1]
                   ELSE LET i == Least(over)
                        IN  [st EXCEPT !.mtab[i] = ent, !.fcb[st.mtab[i].st].nopen = @ - 1]
              b == [a EXCEPT !.fcb[ff].mode = IF ff = DEVFCB THEN {"r"} ELSE a.fcb[fd].mode,
                             !.fcb[ff].storage = IF ff = DEVFCB THEN @ ELSE fd]
              c == [b EXCEPT !.fcb[fd].nopen = @ + 1]
              mt2 == IF over = {} THEN Append(mt, ent) ELSE [mt EXCEPT ![k] = ent]
              g == IF over = {} THEN [st.fcb EXCEPT ![ff].nopen = @ + 1]
                   ELSE [st.fcb EXCEPT ![mt[k].st].nopen = @ - 1]
  <1>0. /\ DOMAIN st = Fields /\ PipesInOrder(st) /\ DOMAIN st.fcb = Index
        /\ \A i \in Index : DOMAIN st.fcb[i] = FcbFields /\ st.fcb[i].nopen \in Nat
        /\ Listed(mt) /\ Len(mt) \in Nat /\ DOMAIN mt = 1..Len(mt)
    <2>1. Listed(mt)
      BY KeptTypes
    <2>. QED BY <2>1, KeptTypes, ListedKept
  <1>1. (fd = NOFID \/ fd \in Index) /\ (ff = NOFID \/ ff \in Index)
    <2>1. \A p : fcb_get(st, p) = NOFID \/ fcb_get(st, p) \in 0..(st.nfcb - 1)
      BY KeptTypes, FcbGetIs
    <2>2. \A i \in 0..(st.nfcb - 1) : i \in Index
      BY KeptTypes, TableAssumption DEF Index
    <2>. HIDE DEF fd, ff
    <2>. QED BY <2>1, <2>2 DEF fd, ff
  <1>2. Kept(E, [st EXCEPT !.stuck = "exit"], m, q)
    <2>1. DOMAIN [st EXCEPT !.stuck = "exit"] = Fields /\ \A f \in Tables : [st EXCEPT !.stuck = "exit"][f] = st[f]
      BY <1>0 DEF Fields, Tables
    <2>. QED BY <2>1, KeptCopy
  <1>3. ASSUME fd \in Index, ff \in Index, fd # ff PROVE Kept(E, c, m, q)
    <2>. HIDE DEF fd, ff
    <2>1. Mounts(mt)
      BY DEF Kept
    <2>2. over # {} => k \in DOMAIN mt /\ mt[k].mp = ff
      <3>1. over \in SUBSET Nat
        BY <1>0
      <3>2. over # {} => k \in over
        <4>. HIDE DEF over
        <4>. QED BY <3>1, LeastIs
      <3>. HIDE DEF k
      <3>. QED BY <3>2
    <2>3. a.mtab = mt2 /\ a.fcb = g /\ DOMAIN a = Fields /\ \A f \in Fields \ {"fcb", "mtab"} : a[f] = st[f]
      <3>. HIDE DEF ent, over, mt
      <3>. QED BY <1>0 DEF Fields, mt
    <2>4. Mounts(mt2) /\ StAt(mt2, ff, fd) = fd
      <3>1. CASE over = {}
        <4>. HIDE DEF mt
        <4>. QED BY <1>0, <1>3, <2>1, <3>1, MountNew
      <3>2. CASE over # {}
        <4>. HIDE DEF mt, k
        <4>. QED BY <1>3, <2>1, <2>2, <3>2, MountOver
      <3>. QED BY <3>1, <3>2
    <2>. DEFINE x == St(ff, fd)
                C == [View(st.ctx, mt2) EXCEPT ![x] = NOFID]
    <2>5. Without(View(st.ctx, mt2), C, x)
      <3>1. x \in DOMAIN View(st.ctx, mt2)
        BY <1>3, KeptTypes, TagsAre, ViewIs
      <3>. HIDE DEF mt2, x
      <3>. QED BY <3>1 DEF Without
    <2>6. Slots(g, st.nfcb, C, Paths(st.ctx), m)
      <3>1. CASE over = {}
        <4>1. /\ \A j : MpAt(mt2, j) = IF j = ff THEN ff ELSE MpAt(mt, j)
              /\ \A j, n : StAt(mt2, j, n) = IF j = ff /\ n = fd THEN fd ELSE StAt(mt, j, n)
          <5>. HIDE DEF mt
          <5>. QED BY <1>0, <1>3, <2>1, <3>1, MountNew
        <4>2. Grown(st.fcb, g) /\ st.fcb[ff].nopen + 1 <= g[ff].nopen
          <5>1. g = [st.fcb EXCEPT ![ff].nopen = @ + 1]
            BY <3>1
          <5>. HIDE DEF g, over
          <5>. QED BY <1>0, <1>3, <5>1 DEF Grown, FcbFields
        <4>. HIDE DEF g, C, mt2
        <4>. QED BY <1>3, <2>5, <4>1, <4>2, SlotsMountNew
      <3>2. CASE over # {}
        <4>. DEFINE old == mt[k].st
        <4>1. old \in Index
          BY <2>1, <2>2, <3>2 DEF Mounts
        <4>2. /\ \A j : MpAt(mt2, j) = MpAt(mt, j)
              /\ \A j, n : j # ff => StAt(mt2, j, n) = StAt(mt, j, n)
              /\ \A n : n # fd => StAt(mt2, ff, n) = NOFID
              /\ StAt(mt, ff, old) = old
          <5>. DEFINE mt3 == [mt EXCEPT ![k] = [mp |-> ff, st |-> fd]]
          <5>1. mt2 = mt3
            BY <3>2
          <5>2. /\ \A j : MpAt(mt3, j) = MpAt(mt, j)
                /\ \A j, n : j # ff => StAt(mt3, j, n) = StAt(mt, j, n)
                /\ \A n : n # fd => StAt(mt3, ff, n) = NOFID
                /\ StAt(mt, ff, mt[k].st) = mt[k].st
            <6>1. k \in DOMAIN mt /\ mt[k].mp = ff
              BY <2>2, <3>2
            <6>. HIDE DEF mt, k, mt3
            <6>2. Remounted(mt, [mt EXCEPT ![k] = [mp |-> ff, st |-> fd]], ff, fd, mt[k].st)
              BY <1>3, <2>1, <6>1, MountOver
            <6>3. Remounted(mt, mt3, ff, fd, mt[k].st)
              BY <6>2 DEF mt3
            <6>. QED BY <6>3 DEF Remounted
          <5>3. StAt(mt, ff, old) = old
            <6>. HIDE DEF mt, k, mt3
            <6>. QED BY <5>2
          <5>. HIDE DEF mt, mt2, mt3, old, k
          <5>. QED BY <5>1, <5>2, <5>3
        <4>3. g = [st.fcb EXCEPT ![old].nopen = @ - 1]
          BY <3>2
        <4>. HIDE DEF g, C, mt2, old
        <4>4. Slots([st.fcb EXCEPT ![old].nopen = @ - 1], st.nfcb, C, Paths(st.ctx), m)
          BY <1>3, <2>5, <4>1, <4>2, SlotsMountOver
        <4>. QED BY <4>3, <4>4
      <3>. QED BY <3>1, <3>2
    <2>7. PipesInOrder(c)
      <3>1. PipesInOrder(a)
        <4>1. Listed(mt2)
          <5>. HIDE DEF ent, k, mt
          <5>. QED BY <1>0, ListedKept
        <4>. HIDE DEF a, mt2
        <4>. QED BY <1>0, <2>3, <4>1 DEF PipesInOrder, Fields
      <3>. HIDE DEF a
      <3>. QED BY <3>1 DEF PipesInOrder, Fields
    <2>8. /\ DOMAIN g = Index /\ \A i \in Index : DOMAIN g[i] = FcbFields /\ g[i].nopen \in Nat
      BY <2>6 DEF Slots, Counted
    <2>. HIDE DEF a, mt2, g, C, over
    <2>9. /\ c.mtab = mt2 /\ \A f \in {"nfcb", "pipe", "npipe", "dev", "ctx"} : c[f] = st[f]
          /\ Grown(g, c.fcb) /\ g[fd].nopen + 1 <= c.fcb[fd].nopen
      <3>. DEFINE mode == IF ff = DEVFCB THEN {"r"} ELSE a.fcb[fd].mode
      <3>. HIDE DEF mode
      <3>1. /\ c.mtab = mt2 /\ \A f \in {"nfcb", "pipe", "npipe", "dev", "ctx"} : c[f] = st[f]
        BY <2>3 DEF Fields
      <3>. DEFINE dev == IF ff = DEVFCB THEN a.fcb[ff].storage ELSE fd
      <3>. HIDE DEF dev
      <3>2. b = [a EXCEPT !.fcb[ff].mode = mode, !.fcb[ff].storage = dev]
        BY DEF mode, dev
      <3>3. DOMAIN b = Fields /\ b.fcb = [g EXCEPT ![ff].mode = mode, ![ff].storage = dev]
        <4>. HIDE DEF b
        <4>. QED BY <2>3, <3>2 DEF Fields
      <3>. HIDE DEF b
      <3>4. c.fcb = [b.fcb EXCEPT ![fd].nopen = @ + 1]
        BY <3>3 DEF Fields
      <3>. HIDE DEF c
      <3>5. /\ DOMAIN b.fcb = Index
            /\ \A i \in Index : /\ DOMAIN b.fcb[i] = FcbFields /\ b.fcb[i].nopen = g[i].nopen
                                /\ b.fcb[i].path = g[i].path /\ b.fcb[i].type = g[i].type
        BY <1>3, <2>8, <3>3 DEF FcbFields
      <3>6. Grown(g, c.fcb) /\ g[fd].nopen + 1 <= c.fcb[fd].nopen
        BY <1>3, <2>8, <3>4, <3>5 DEF Grown, FcbFields
      <3>. QED BY <3>1, <3>6
    <2>. HIDE DEF c
    <2>. QED BY <1>3, <2>4, <2>5, <2>6, <2>7, <2>9, KeptMounted
  <1>4. \A e, r : Kept(E, Fail(st, e, r), m, q)
    BY KeptFail
  <1>5. Kept(E, c, m, q) => Kept(E, Ok(c, NOFID), m, q)
    <2>. HIDE DEF c
    <2>. QED BY KeptFail
  <1>. HIDE DEF b, c
  <1>6. \/ \E e, r : mtab_add(st, devpath, file) = Fail(st, e, r)
        \/ mtab_add(st, devpath, file) = [st EXCEPT !.stuck = "exit"]
        \/ mtab_add(st, devpath, file) = Ok(c, NOFID) /\ fd # NOFID /\ ff # NOFID /\ fd # ff
    <2>. HIDE DEF a, fd, ff, ent, over
    <2>. QED BY DEF mtab_add, a, b, c, fd, ff, ent, over
  <1>. QED BY <1>1, <1>2, <1>3, <1>4, <1>5, <1>6

-----------------------------------------------------------------------------
(* devfs.c *)

(* A device is added for a task that does not exit. *)
LEMMA KeptDevAdd ==
  ASSUME NEW E, NEW st, NEW m, NEW q, Kept(E, st, m, q), m <= MaxFcb, NEW name, NEW task, task \notin E, NEW mode
  PROVE  Kept(E, devfs_add(st, name, task, mode), m + 1, q)
  <1>. DEFINE path == Append(DEV, name)
              same == {i \in DOMAIN st.dev : st.dev[i].fid # NOFID /\ st.fcb[st.dev[i].fid].path = path}
              gone == {i \in DOMAIN st.dev : st.dev[i].fid = NOFID}
              a == fcb_add(st, path, "dev")
              f == a.ret
              of == mode \intersect Amsk
              new == [fid |-> f, task |-> task]
              g == [a.fcb EXCEPT ![f].nopen = @ + 1, ![f].mode = of, ![f].storage = DEVFCB]
              b == [a EXCEPT !.fcb = g]
              c == [b EXCEPT !.dev = Append(@, new)]
              d == [a EXCEPT !.fcb[f].nopen = @ + 1, !.fcb[f].mode = of, !.fcb[f].storage = DEVFCB,
                             !.dev = Append(@, new)]
  <1>. HIDE DEF path, same, gone, of
  <1>1. /\ Kept(E, a, m + 1, q) /\ f \in Index
        /\ DOMAIN a = Fields /\ a.dev = st.dev
    <2>1. Kept(E, a, m + 1, q) /\ f \in Index
      BY KeptFcbAdd
    <2>2. DOMAIN a = Fields
      <3>. HIDE DEF a
      <3>. QED BY <2>1, KeptTypes
    <2>3. a.dev = st.dev
      <3>1. DOMAIN st = Fields /\ "dev" \in Fields \ {"fcb", "nfcb", "ret"}
        BY KeptTypes DEF Fields
      <3>2. a["dev"] = st["dev"]
        BY <3>1, FcbAddIs
      <3>. QED BY <3>2
    <2>. QED BY <2>1, <2>2, <2>3
  <1>. HIDE DEF a, f
  <1>2. Kept(E, b, m + 1, q)
    <2>1. DOMAIN a.fcb = Index /\ \A i \in Index : DOMAIN a.fcb[i] = FcbFields /\ a.fcb[i].nopen \in Nat
      BY <1>1, KeptTypes
    <2>2. Grown(a.fcb, g)
      BY <1>1, <2>1 DEF Grown, FcbFields
    <2>. HIDE DEF g
    <2>. QED BY <1>1, <2>2, KeptGrown
  <1>3. c = d
    BY <1>1 DEF Fields
  <1>4. b.dev = st.dev /\ DOMAIN b = Fields
    BY <1>1 DEF Fields
  <1>. HIDE DEF b, new
  <1>5. Listed(Append(st.dev, new)) /\ Devices(Append(st.dev, new), E)
    <2>1. Listed(st.dev) /\ Devices(st.dev, E)
      BY KeptTypes DEF Kept
    <2>2. /\ Len(st.dev) \in Nat /\ DOMAIN st.dev = 1..Len(st.dev) /\ DOMAIN Append(st.dev, new) = 1..(Len(st.dev) + 1)
          /\ \A k \in 1..Len(st.dev) : Append(st.dev, new)[k] = st.dev[k]
          /\ Append(st.dev, new)[Len(st.dev) + 1] = new
      BY <2>1, AppendItems
    <2>3. new.task \notin E
      BY DEF new
    <2>4. Devices(Append(st.dev, new), E)
      BY <2>1, <2>2, <2>3 DEF Devices
    <2>. QED BY <2>1, <2>4, ListedKept
  <1>6. Kept(E, c, m + 1, q)
    <2>1. PipesInOrder(c)
      BY <1>2, <1>4, <1>5 DEF Kept, PipesInOrder, Fields
    <2>2. c.fcb = b.fcb /\ c.nfcb = b.nfcb /\ c.ctx = b.ctx /\ c.mtab = b.mtab /\ c.pipe = b.pipe /\ c.npipe = b.npipe
          /\ c.dev = Append(st.dev, new)
      BY <1>4 DEF Fields
    <2>. HIDE DEF c
    <2>. QED BY <1>2, <1>5, <2>1, <2>2 DEF Kept, Unnamed
  <1>. HIDE DEF c, d
  <1>7. Kept(E, [st EXCEPT !.stuck = "fault"], m + 1, q)
    <2>1. DOMAIN st = Fields
      BY KeptTypes
    <2>2. DOMAIN [st EXCEPT !.stuck = "fault"] = Fields /\ \A h \in Tables : [st EXCEPT !.stuck = "fault"][h] = st[h]
      BY <2>1 DEF Fields, Tables
    <2>. HIDE DEF d
    <2>. QED BY <2>2, KeptCopy, KeptOneMore
  <1>8. Kept(E, st, m + 1, q)
    BY KeptOneMore
  <1>9. \/ devfs_add(st, name, task, mode) = [st EXCEPT !.stuck = "fault"]
        \/ devfs_add(st, name, task, mode) = st
        \/ devfs_add(st, name, task, mode) = d
    BY DEF devfs_add, d, a, f, path, same, gone, of, new
  <1>. QED BY <1>3, <1>6, <1>7, <1>8, <1>9

-----------------------------------------------------------------------------
(* The rest of the handlers *)

(* A state that is ready, and the results given from it. *)
LEMMA ReadyHandled ==
  ASSUME NEW E, NEW st, NEW t, Ready(E, st, t)
  PROVE  /\ Handled(E, st) /\ st.ctx[t] # NoCtx
         /\ \A e, r : Handled(E, Fail(st, e, r)) /\ Handled(E, Ok(st, r))
  BY KeptHandled, HandledFail DEF Ready

(* SYS_mknod adds a device of the sender. *)
LEMMA Kept_SYS_mknod ==
  ASSUME NEW E, NEW st, NEW t \in Pid, Ready(E, st, t), NEW r, t \notin E
  PROVE  Handled(E, SYS_mknod(st, t, r))
  <1>1. \A name, mode : Kept(E, devfs_add(st, name, t, mode), MaxFcb + 1, MaxPipe)
    <2>1. MaxFcb <= MaxFcb
      BY TableAssumption
    <2>. QED BY <2>1, KeptDevAdd DEF Ready
  <1>. QED BY <1>1, ReadyHandled, KeptHandled, HandledFail DEF SYS_mknod

(* SYS_ioctl asks a driver. *)
LEMMA Kept_SYS_ioctl ==
  ASSUME NEW E, NEW st, NEW t \in Pid, Ready(E, st, t), NEW r
  PROVE  Handled(E, SYS_ioctl(st, t, r))
  <1>1. \A out : Handled(E, [st EXCEPT !.ctx[t].msg = NoMsg, !.out = out])
    <2>1. NoMsg.fn = "fread" => NoMsg.n \in Nat
      BY DEF NoMsg
    <2>. QED BY <2>1, ReadyHandled, SameMsg DEF Handled
  <1>2. \A to : st.ctx[t] # NoCtx /\ Handled(E, [st EXCEPT !.ctx[t].msg = NoMsg, !.out = Append(@, to)])
    BY <1>1, ReadyHandled
  <1>. QED BY <1>2, ReadyHandled DEF SYS_ioctl

(* SYS_mount adds a mount. *)
LEMMA Kept_SYS_mount ==
  ASSUME NEW E, NEW st, NEW t \in Pid, Ready(E, st, t), NEW r
  PROVE  Handled(E, SYS_mount(st, t, r))
  BY ReadyHandled, KeptMtabAdd DEF SYS_mount, Handled

(* SYS_umount removes a mount. *)
LEMMA Kept_SYS_umount ==
  ASSUME NEW E, NEW st, NEW t \in Pid, Ready(E, st, t), NEW r
  PROVE  Handled(E, SYS_umount(st, t, r))
  BY ReadyHandled, KeptMtabDel, KeptFcbFree DEF SYS_umount, Handled

(* SYS_fsck looks a path up. *)
LEMMA Kept_SYS_fsck ==
  ASSUME NEW E, NEW st, NEW t \in Pid, Ready(E, st, t), NEW r
  PROVE  Handled(E, SYS_fsck(st, t, r))
  BY HandledLookup, HandledFail DEF SYS_fsck

(* SYS_readlink looks a path up. *)
LEMMA Kept_SYS_readlink ==
  ASSUME NEW E, NEW st, NEW t \in Pid, Ready(E, st, t), NEW r
  PROVE  Handled(E, SYS_readlink(st, t, r))
  BY HandledLookup, HandledFail DEF SYS_readlink

(* SYS_realpath looks a path up. *)
LEMMA Kept_SYS_realpath ==
  ASSUME NEW E, NEW st, NEW t \in Pid, Ready(E, st, t), NEW r
  PROVE  Handled(E, SYS_realpath(st, t, r))
  BY HandledLookup, HandledNotFound, HandledFail DEF SYS_realpath

(* SYS_lstat looks a path up. *)
LEMMA Kept_SYS_lstat ==
  ASSUME NEW E, NEW st, NEW t \in Pid, Ready(E, st, t), NEW r
  PROVE  Handled(E, SYS_lstat(st, t, r))
  BY HandledLookup, HandledNotFound, HandledFail DEF SYS_lstat

(* SYS_getcwd reads. *)
LEMMA Kept_SYS_getcwd ==
  ASSUME NEW E, NEW st, NEW t \in Pid, Ready(E, st, t), NEW r
  PROVE  Handled(E, SYS_getcwd(st, t, r))
  BY ReadyHandled DEF SYS_getcwd

(* SYS_dstat reads. *)
LEMMA Kept_SYS_dstat ==
  ASSUME NEW E, NEW st, NEW t \in Pid, Ready(E, st, t), NEW r
  PROVE  Handled(E, SYS_dstat(st, t, r))
  BY ReadyHandled DEF SYS_dstat

(* SYS_fstat reads. *)
LEMMA Kept_SYS_fstat ==
  ASSUME NEW E, NEW st, NEW t \in Pid, Ready(E, st, t), NEW r
  PROVE  Handled(E, SYS_fstat(st, t, r))
  BY ReadyHandled DEF SYS_fstat

(* SYS_fclrerr reads. *)
LEMMA Kept_SYS_fclrerr ==
  ASSUME NEW E, NEW st, NEW t \in Pid, Ready(E, st, t), NEW r
  PROVE  Handled(E, SYS_fclrerr(st, t, r))
  BY ReadyHandled DEF SYS_fclrerr

(* SYS_ferror reads. *)
LEMMA Kept_SYS_ferror ==
  ASSUME NEW E, NEW st, NEW t \in Pid, Ready(E, st, t), NEW r
  PROVE  Handled(E, SYS_ferror(st, t, r))
  BY ReadyHandled DEF SYS_ferror

(* SYS_feof reads. *)
LEMMA Kept_SYS_feof ==
  ASSUME NEW E, NEW st, NEW t \in Pid, Ready(E, st, t), NEW r
  PROVE  Handled(E, SYS_feof(st, t, r))
  BY ReadyHandled DEF SYS_feof

(* SYS_ftell reads. *)
LEMMA Kept_SYS_ftell ==
  ASSUME NEW E, NEW st, NEW t \in Pid, Ready(E, st, t), NEW r
  PROVE  Handled(E, SYS_ftell(st, t, r))
  BY ReadyHandled DEF SYS_ftell

(* SYS_pipe adds a pipe and opens both ends. *)
LEMMA Kept_SYS_pipe ==
  ASSUME NEW E, NEW st, NEW t \in Pid, Ready(E, st, t), NEW r
  PROVE  Handled(E, SYS_pipe(st, t, r))
  <1>1. Kept(E, pipe_add(st, ANONYMOUS), MaxFcb, MaxPipe + 1)
    <2>1. MaxPipe <= MaxPipe
      BY TableAssumption
    <2>. QED BY <2>1, KeptPipeAdd DEF Ready
  <1>2. Handled(E, pipe_add(st, ANONYMOUS))
    BY <1>1, KeptHandled
  <1>. QED BY <1>2, KeptOpen, HandledFail DEF SYS_pipe, Handled

(* SYS_getty opens a terminal of another task. *)
LEMMA Kept_SYS_getty ==
  ASSUME NEW E, NEW st, NEW t \in Pid, Ready(E, st, t), NEW r, IsRequest(r)
  PROVE  Handled(E, SYS_getty(st, t, r))
  <1>1. ASSUME NEW a, Kept(E, a, MaxFcb, MaxPipe), NEW u \in Pid PROVE Handled(E, GettyOn(pipe_add(a, ANONYMOUS), u))
    <2>1. Kept(E, pipe_add(a, ANONYMOUS), MaxFcb, MaxPipe + 1)
      <3>1. MaxPipe <= MaxPipe
        BY TableAssumption
      <3>. QED BY <1>1, <3>1, KeptPipeAdd
    <2>2. Handled(E, pipe_add(a, ANONYMOUS))
      BY <2>1, KeptHandled
    <2>. QED BY <2>2, <1>1, KeptOpen DEF GettyOn, Handled
  <1>. QED BY <1>1, RequestFields, KeptGet, KeptClose, HandledFail DEF SYS_getty, Ready

(* SYS_evtty writes into the pipe of a terminal. *)
LEMMA Kept_SYS_evtty ==
  ASSUME NEW E, NEW st, NEW t \in Pid, Ready(E, st, t), NEW r, IsRequest(r), r.fn = "evtty"
  PROVE  Handled(E, SYS_evtty(st, t, r))
  <1>0. r.pid \in Pid /\ r.n \in Nat
    BY RequestFields
  <1>1. ASSUME NEW a, Handled(E, a) PROVE Handled(E, [a EXCEPT !.stuck = "fault"])
    <2>1. DOMAIN a = Fields
      BY <1>1, KeptTypes DEF Handled
    <2>2. DOMAIN [a EXCEPT !.stuck = "fault"] = Fields /\ \A h \in Tables : [a EXCEPT !.stuck = "fault"][h] = a[h]
      BY <2>1 DEF Fields, Tables
    <2>. QED BY <1>1, <2>2, KeptCopy DEF Handled
  <1>2. ASSUME NEW a, Handled(E, a), NEW i PROVE Handled(E, pipe_write(a, i, r.n))
    BY <1>0, <1>2, KeptPipeWrite DEF Handled
  <1>3. Handled(E, taskctx_get(st, r.pid))
    BY <1>0, ReadyHandled, KeptGet DEF Handled
  <1>. QED BY <1>1, <1>2, <1>3, HandledFail DEF SYS_evtty

(* SYS_tmpfile opens a file. *)
LEMMA Kept_SYS_tmpfile ==
  ASSUME NEW E, NEW st, NEW t \in Pid, Ready(E, st, t), NEW r
  PROVE  Handled(E, SYS_tmpfile(st, t, r))
  BY HandledLookup, KeptOpen DEF SYS_tmpfile, Handled

(* SYS_fopen opens a file. *)
LEMMA Kept_SYS_fopen ==
  ASSUME NEW E, NEW st, NEW t \in Pid, Ready(E, st, t), NEW r
  PROVE  Handled(E, SYS_fopen(st, t, r))
  <1>1. ASSUME NEW l, Handled(E, l) PROVE Handled(E, OpenFound(l, t, r))
    BY <1>1, HandledNotFound, HandledFail, KeptOpen, KeptClose DEF OpenFound, Handled
  <1>. QED BY <1>1, HandledLookup DEF SYS_fopen

(* SYS_fclose closes a descriptor. *)
LEMMA Kept_SYS_fclose ==
  ASSUME NEW E, NEW st, NEW t \in Pid, Ready(E, st, t), NEW r
  PROVE  Handled(E, SYS_fclose(st, t, r))
  BY ReadyHandled, HandledFail, KeptClose DEF SYS_fclose, Handled

(* SYS_fcloseall closes every descriptor. *)
LEMMA Kept_SYS_fcloseall ==
  ASSUME NEW E, NEW st, NEW t \in Pid, Ready(E, st, t), NEW r
  PROVE  Handled(E, SYS_fcloseall(st, t, r))
  BY ReadyHandled, HandledFail, KeptCloseAll, KeptFcbFree DEF SYS_fcloseall, Handled

(* SYS_fseek moves a position. *)
LEMMA Kept_SYS_fseek ==
  ASSUME NEW E, NEW st, NEW t \in Pid, Ready(E, st, t), NEW r
  PROVE  Handled(E, SYS_fseek(st, t, r))
  BY ReadyHandled, HandledFail, KeptSeek DEF SYS_fseek, Handled

(* SYS_rewind moves a position. *)
LEMMA Kept_SYS_rewind ==
  ASSUME NEW E, NEW st, NEW t \in Pid, Ready(E, st, t), NEW r
  PROVE  Handled(E, SYS_rewind(st, t, r))
  <1>1. Handled(E, [st EXCEPT !.ctx[t].open[r.fd].offs = 0])
    BY ReadyHandled, KeptSetOffs DEF Handled
  <1>. QED BY <1>1, ReadyHandled, HandledFail DEF SYS_rewind

(* SYS_dup opens a file again. *)
LEMMA Kept_SYS_dup ==
  ASSUME NEW E, NEW st, NEW t \in Pid, Ready(E, st, t), NEW r
  PROVE  Handled(E, SYS_dup(st, t, r))
  BY ReadyHandled, KeptOpen DEF SYS_dup, Handled

(* SYS_dup2 opens a file again, in the place of another one. *)
LEMMA Kept_SYS_dup2 ==
  ASSUME NEW E, NEW st, NEW t \in Pid, Ready(E, st, t), NEW r
  PROVE  Handled(E, SYS_dup2(st, t, r))
  <1>1. ASSUME NEW a, Handled(E, a) PROVE Handled(E, Duplicate(a, t, r.fd, r.to))
    BY <1>1, KeptOpen DEF Duplicate, Handled
  <1>2. Handled(E, taskctx_close(st, t, r.to, TRUE))
    BY ReadyHandled, KeptClose DEF Handled
  <1>. QED BY <1>1, <1>2, ReadyHandled DEF SYS_dup2

(* SYS_fread reads. *)
LEMMA Kept_SYS_fread ==
  ASSUME NEW E, NEW st, NEW t \in Pid, Ready(E, st, t), NEW r, IsRequest(r), r.fn = "fread"
  PROVE  Handled(E, SYS_fread(st, t, r))
  BY ReadyHandled, RequestFields, KeptRead DEF SYS_fread, Handled

(* SYS_fwrite writes. *)
LEMMA Kept_SYS_fwrite ==
  ASSUME NEW E, NEW st, NEW t \in Pid, Ready(E, st, t), NEW r, IsRequest(r), r.fn = "fwrite"
  PROVE  Handled(E, SYS_fwrite(st, t, r))
  BY ReadyHandled, RequestFields, KeptWrite DEF SYS_fwrite, Handled

(* SYS_fflush flushes. *)
LEMMA Kept_SYS_fflush ==
  ASSUME NEW E, NEW st, NEW t \in Pid, Ready(E, st, t), NEW r
  PROVE  Handled(E, SYS_fflush(st, t, r))
  <1>1. \A i : Handled(E, fcb_flush(st, i))
    BY ReadyHandled, KeptFlush DEF Handled
  <1>. QED BY <1>1, ReadyHandled, HandledFail DEF SYS_fflush

-----------------------------------------------------------------------------
(* The loop of the task *)

(* A request that makes no named pipe, nor a device of a task that exits. *)
Anonymous(E, t, r) == IsRequest(r) /\ r.fn # "mkfifo" /\ (r.fn = "mknod" => t \notin E)

(* Every request. *)
LEMMA KeptHandle ==
  ASSUME NEW E, NEW st, NEW t \in Pid, Ready(E, st, t), NEW r, Anonymous(E, t, r)
  PROVE  Handled(E, Handle(st, t, r))
  <1>1. IsRequest(r) /\ r.fn # "mkfifo" /\ (r.fn = "mknod" => t \notin E)
    BY DEF Anonymous
  <1>. QED
    BY <1>1, ReadyHandled,
       Kept_SYS_mknod, Kept_SYS_ioctl, Kept_SYS_mount, Kept_SYS_umount, Kept_SYS_fsck,
       Kept_SYS_chroot, Kept_SYS_chdir, Kept_SYS_getcwd, Kept_SYS_opendir,
       Kept_SYS_readdir, Kept_SYS_readlink, Kept_SYS_realpath, Kept_SYS_dstat,
       Kept_SYS_fstat, Kept_SYS_lstat, Kept_SYS_pipe, Kept_SYS_getty,
       Kept_SYS_evtty, Kept_SYS_tmpfile, Kept_SYS_fopen, Kept_SYS_fclose,
       Kept_SYS_fcloseall, Kept_SYS_fseek, Kept_SYS_rewind, Kept_SYS_ftell,
       Kept_SYS_feof, Kept_SYS_ferror, Kept_SYS_fclrerr, Kept_SYS_dup, Kept_SYS_dup2,
       Kept_SYS_fread, Kept_SYS_fwrite, Kept_SYS_fflush
    DEF Handle

(* A request that is kept in the context of its sender, or none. *)
LEMMA HandledMsg ==
  ASSUME NEW E, NEW h, Handled(E, h), NEW t \in Pid, NEW msg, msg.fn = "fread" => msg.n \in Nat, NEW out
  PROVE  /\ Handled(E, [h EXCEPT !.ctx = IF @[t] = NoCtx THEN @ ELSE [@ EXCEPT ![t].msg = msg]])
         /\ Handled(E, [h EXCEPT !.out = out, !.ctx = IF @[t] = NoCtx THEN @ ELSE [@ EXCEPT ![t].msg = msg]])
  <1>. DEFINE a == [h EXCEPT !.ctx = IF @[t] = NoCtx THEN @ ELSE [@ EXCEPT ![t].msg = msg]]
              b == [h EXCEPT !.out = out, !.ctx = IF @[t] = NoCtx THEN @ ELSE [@ EXCEPT ![t].msg = msg]]
  <1>0. DOMAIN h = Fields /\ DOMAIN h.ctx = Pid /\ DOMAIN h.ctx[t] = CtxFields
    BY KeptTypes DEF Handled
  <1>1. CASE h.ctx[t] = NoCtx
    <2>1. DOMAIN a = Fields /\ \A f \in Tables : a[f] = h[f]
      BY <1>0, <1>1 DEF Fields, Tables
    <2>2. DOMAIN b = Fields /\ \A f \in Tables : b[f] = h[f]
      BY <1>0, <1>1 DEF Fields, Tables
    <2>. HIDE DEF a, b
    <2>3. Handled(E, a) /\ Handled(E, b)
      BY <2>1, <2>2, KeptCopy DEF Handled
    <2>. QED BY <2>3 DEF a, b
  <1>2. CASE h.ctx[t] # NoCtx
    <2>. DEFINE c == [h EXCEPT !.ctx[t].msg = msg]
    <2>1. Handled(E, c)
      <3>. HIDE DEF c
      <3>1. Kept(E, [h EXCEPT !.ctx[t].msg = msg], MaxFcb + 1, MaxPipe + 1)
        BY <1>2, SameMsg DEF Handled
      <3>. QED BY <3>1 DEF Handled, c
    <2>2. DOMAIN a = Fields /\ \A f \in Tables : a[f] = c[f]
      BY <1>0, <1>2 DEF Fields, Tables
    <2>3. DOMAIN b = Fields /\ \A f \in Tables : b[f] = c[f]
      BY <1>0, <1>2 DEF Fields, Tables
    <2>. HIDE DEF a, b, c
    <2>4. Handled(E, a) /\ Handled(E, b)
      BY <2>1, <2>2, <2>3, KeptCopy DEF Handled
    <2>. QED BY <2>4 DEF a, b
  <1>. QED BY <1>1, <1>2

(* The answer, or the request that is kept. *)
LEMMA KeptFinish ==
  ASSUME NEW E, NEW h, Handled(E, h), NEW t \in Pid, NEW r, IsRequest(r), NEW low
  PROVE  Handled(E, Finish(h, t, r, low))
  <1>1. ASSUME NEW l, Handled(E, l) PROVE Handled(E, Reply(l, t))
    <2>1. NoMsg.fn = "fread" => NoMsg.n \in Nat
      BY DEF NoMsg
    <2>. QED BY <1>1, <2>1, HandledMsg DEF Reply
  <1>2. ASSUME NEW l, Handled(E, l)
        PROVE Handled(E, [l EXCEPT !.ctx = IF @[t] = NoCtx THEN @ ELSE [@ EXCEPT ![t].msg = r]])
    <2>1. r.fn = "fread" => r.n \in Nat
      BY RequestFields
    <2>. QED BY <1>2, <2>1, HandledMsg
  <1>3. Handled(E, [fcb_free(h) EXCEPT !.nomem = TRUE])
    <2>. DEFINE a == fcb_free(h)
                b == [a EXCEPT !.nomem = TRUE]
    <2>1. Handled(E, a)
      BY KeptFcbFree DEF Handled
    <2>. HIDE DEF a
    <2>2. DOMAIN a = Fields
      BY <2>1, KeptTypes DEF Handled
    <2>3. DOMAIN b = Fields /\ \A f \in Tables : b[f] = a[f]
      BY <2>2 DEF Fields, Tables
    <2>. HIDE DEF b
    <2>4. Handled(E, b)
      BY <2>1, <2>3, KeptCopy DEF Handled
    <2>. QED BY <2>4 DEF a, b
  <1>. QED BY <1>1, <1>2, <1>3 DEF Finish

(* What is set between two messages is no table. *)
LEMMA KeptTaken ==
  ASSUME NEW E, NEW st, NEW m, NEW q, Kept(E, st, m, q)
  PROVE  Kept(E, Taken(st), m, q) /\ Kept(E, Settled(st), m, q)
  <1>0. DOMAIN st = Fields
    BY KeptTypes
  <1>1. DOMAIN Taken(st) = Fields /\ \A f \in Tables : Taken(st)[f] = st[f]
    BY <1>0 DEF Taken, Fields, Tables
  <1>2. DOMAIN Settled(st) = Fields /\ \A f \in Tables : Settled(st)[f] = st[f]
    BY <1>0 DEF Settled, Fields, Tables
  <1>. QED BY <1>1, <1>2, KeptCopy

(* A message. *)
LEMMA KeptServe ==
  ASSUME NEW E, NEW st, Kept(E, st, MaxFcb, MaxPipe), NEW t \in Pid, NEW r, Anonymous(E, t, r), NEW low
  PROVE  Handled(E, Serve(st, t, r, low))
  <1>1. Ready(E, taskctx_get(Taken(st), t), t)
    BY KeptTaken, KeptGet DEF Ready
  <1>2. IsRequest(r)
    BY DEF Anonymous
  <1>. QED BY <1>1, <1>2, KeptHandle, KeptFinish DEF Serve

(* What is within the bounds of the instance. *)
LEMMA KeptBounded ==
  ASSUME NEW E, NEW h, Handled(E, h), Bounded(h)
  PROVE  Kept(E, h, MaxFcb, MaxPipe)
  <1>1. h.nfcb \in Nat /\ h.npipe \in Nat
    BY KeptTypes DEF Handled, Kept, Unnamed
  <1>2. h.nfcb <= MaxFcb /\ h.npipe <= MaxPipe
    BY DEF Bounded
  <1>3. MaxFcb \in Nat /\ MaxPipe \in Nat /\ MaxFcb <= MaxFcb + 1 /\ MaxPipe <= MaxPipe + 1
    BY TableAssumption
  <1>. QED BY <1>1, <1>2, <1>3 DEF Handled, Kept, Slots, Unnamed

-----------------------------------------------------------------------------
(* The first state *)

(* Sets of none, of one and of two. *)
LEMMA FewElements ==
  ASSUME NEW S
  PROVE  /\ S = {} => IsFiniteSet(S) /\ Cardinality(S) <= 0
         /\ \A a : S \subseteq {a} => IsFiniteSet(S) /\ Cardinality(S) <= 1
         /\ \A a, b : S \subseteq {a, b} => IsFiniteSet(S) /\ Cardinality(S) <= 2
  <1>1. S = {} => IsFiniteSet(S) /\ Cardinality(S) <= 0
    BY FS_EmptySet
  <1>2. ASSUME NEW a, S \subseteq {a} PROVE IsFiniteSet(S) /\ Cardinality(S) <= 1
    <2>1. IsFiniteSet({a}) /\ Cardinality({a}) = 1
      BY FS_Singleton
    <2>2. S \in SUBSET {a}
      BY <1>2
    <2>3. IsFiniteSet(S) /\ Cardinality(S) <= Cardinality({a})
      BY <2>1, <2>2, FS_Subset
    <2>. QED BY <2>1, <2>3
  <1>3. ASSUME NEW a, NEW b, S \subseteq {a, b} PROVE IsFiniteSet(S) /\ Cardinality(S) <= 2
    <2>1. IsFiniteSet({a}) /\ Cardinality({a}) = 1
      BY FS_Singleton
    <2>2. IsFiniteSet({a} \union {b})
          /\ Cardinality({a} \union {b}) = IF b \in {a} THEN Cardinality({a}) ELSE Cardinality({a}) + 1
      BY <2>1, FS_AddElement
    <2>3. Cardinality({a} \union {b}) = 1 \/ Cardinality({a} \union {b}) = 2
      BY <2>1, <2>2
    <2>4. S \in SUBSET ({a} \union {b})
      BY <1>3
    <2>5. IsFiniteSet(S) /\ Cardinality(S) <= Cardinality({a} \union {b})
      BY <2>2, <2>4, FS_Subset
    <2>6. Cardinality(S) \in Nat
      BY <2>5, FS_CardinalityType
    <2>. QED BY <2>3, <2>5, <2>6
  <1>. QED BY <1>1, <1>2, <1>3

(* What the mounts of the first state hold. *)
LEMMA StartView ==
  ASSUME NEW x \in Tags
  PROVE  LET A == View(Start.ctx, Start.mtab)
         IN  /\ x = Mp(0) => A[x] = 0
             /\ x = Mp(1) => A[x] = 1
             /\ x = St(1, 1) => A[x] = 1
             /\ x = St(0, 3) => A[x] = 3
             /\ x \notin {Mp(0), Mp(1), St(1, 1), St(0, 3)} => A[x] = NOFID
             /\ x # Top => Paths(Start.ctx)[x] = Free
  <1>. DEFINE ctx == Start.ctx
              mt == Start.mtab
              A == View(ctx, mt)
  <1>1. \A t \in Pid : ctx[t] = NoCtx
    BY DEF Start
  <1>2. mt = <<[mp |-> 0, st |-> 3], [mp |-> 1, st |-> 1]>>
    BY DEF Start, ROOTFCB, RAMDISK, DEVFCB
  <1>3. DOMAIN mt = {1, 2} /\ mt[1].mp = 0 /\ mt[1].st = 3 /\ mt[2].mp = 1 /\ mt[2].st = 1
    BY <1>2
  <1>. HIDE DEF ctx, mt
  <1>4. /\ \A k : MpAt(mt, k) = IF k \in {0, 1} THEN k ELSE NOFID
        /\ \A k, j : StAt(mt, k, j) = IF (k = 0 /\ j = 3) \/ (k = 1 /\ j = 1) THEN j ELSE NOFID
    BY <1>3 DEF MpAt, StAt, ROOTFCB
  <1>5. /\ \A t \in Pid, d \in Nat : A[Open(t, d)] = NOFID
        /\ \A t \in Pid : A[Root(t)] = NOFID /\ A[Work(t)] = NOFID
        /\ \A k \in Nat : A[Mp(k)] = MpAt(mt, k)
        /\ \A k \in Nat, j \in Nat : A[St(k, j)] = StAt(mt, k, j)
    BY <1>1, ViewIs, NewCtxIs
  <1>. HIDE DEF A
  <1>6. \/ \E t \in Pid, d \in Nat : x = Open(t, d)
        \/ \E t \in Pid : x = Root(t) \/ x = Work(t)
        \/ \E k \in Nat : x = Mp(k)
        \/ \E k \in Nat, j \in Nat : x = St(k, j)
    BY TagsAre
  <1>7. /\ x = Mp(0) => A[x] = 0
        /\ x = Mp(1) => A[x] = 1
        /\ x = St(1, 1) => A[x] = 1
        /\ x = St(0, 3) => A[x] = 3
    BY <1>4, <1>5
  <1>8. ASSUME x \notin {Mp(0), Mp(1), St(1, 1), St(0, 3)} PROVE A[x] = NOFID
    <2>1. ASSUME NEW k \in Nat, x = Mp(k) PROVE A[x] = NOFID
      <3>1. k # 0 /\ k # 1
        BY <1>8, <2>1
      <3>. QED BY <1>4, <1>5, <2>1, <3>1
    <2>2. ASSUME NEW k \in Nat, NEW j \in Nat, x = St(k, j) PROVE A[x] = NOFID
      <3>1. ~(k = 0 /\ j = 3) /\ ~(k = 1 /\ j = 1)
        BY <1>8, <2>2
      <3>. QED BY <1>4, <1>5, <2>2, <3>1
    <2>. QED BY <1>5, <1>6, <2>1, <2>2
  <1>9. ASSUME x # Top PROVE Paths(ctx)[x] = Free
    <2>1. ASSUME NEW t \in Pid, NEW d \in Nat, x = Open(t, d) PROVE Paths(ctx)[x] = Free
      <3>1. Paths(ctx)[Open(t, d)] = PathAt(NoCtx, d)
        BY <1>1, PathsAre
      <3>2. PathAt(NoCtx, d) = Free
        BY NewCtxIs DEF PathAt
      <3>. QED BY <2>1, <3>1, <3>2
    <2>2. (\A t \in Pid, d \in Nat : x # Open(t, d)) => Paths(ctx)[x] = Free
      BY <1>9, PathsAre
    <2>. QED BY <2>1, <2>2
  <1>. QED BY <1>7, <1>8, <1>9 DEF A, ctx, mt

(* The slots of the first state. *)
LEMMA StartFcb ==
  /\ Start.nfcb = 6 /\ DOMAIN Start.fcb = Index
  /\ \A i \in Index : DOMAIN Start.fcb[i] = FcbFields /\ Start.fcb[i].nopen \in Nat
  /\ Start.fcb[0].nopen = 1 /\ Start.fcb[0].path = <<>> /\ Start.fcb[0].type = "dir"
  /\ Start.fcb[1].nopen = 2 /\ Start.fcb[3].nopen = 2
  <1>. DEFINE F == [i \in 0..MaxFcb |->
                CASE i = 0 -> [EmptyFcb EXCEPT !.path = <<>>, !.nopen = 1, !.type = "dir",
                                               !.mode = {"r", "w"}, !.storage = RAMDISK]
                  [] i = 1 -> [EmptyFcb EXCEPT !.path = DEV, !.nopen = 2, !.type = "dir", !.mode = {"r"}]
                  [] i \in 2..5 ->
                       [EmptyFcb EXCEPT !.path = Append(DEV, <<"zero", "root", "random", "null">>[i - 1]),
                                        !.nopen = IF i = RAMDISK THEN 2 ELSE 1, !.type = "dev",
                                        !.mode = <<{"r"}, {"r", "w"}, {"r"}, {"w"}>>[i - 1],
                                        !.storage = DEVFCB]
                  [] OTHER -> EmptyFcb]
  <1>1. Start.nfcb = 6 /\ Start.fcb = F
    BY DEF Start
  <1>2. 0 \in 0..MaxFcb /\ 1 \in 0..MaxFcb /\ 3 \in 0..MaxFcb /\ 3 \in 2..5
    BY TableAssumption
  <1>. DEFINE p(i) == Append(DEV, <<"zero", "root", "random", "null">>[i - 1])
              o(i) == <<{"r"}, {"r", "w"}, {"r"}, {"w"}>>[i - 1]
  <1>3. F[0] = [EmptyFcb EXCEPT !.path = <<>>, !.nopen = 1, !.type = "dir", !.mode = {"r", "w"}, !.storage = RAMDISK]
    BY <1>2
  <1>4. F[1] = [EmptyFcb EXCEPT !.path = DEV, !.nopen = 2, !.type = "dir", !.mode = {"r"}]
    BY <1>2
  <1>5. ASSUME NEW i \in 2..5
        PROVE F[i] = [EmptyFcb EXCEPT !.path = p(i), !.nopen = IF i = RAMDISK THEN 2 ELSE 1, !.type = "dev",
                                      !.mode = o(i), !.storage = DEVFCB]
    <2>1. i \in 0..MaxFcb /\ i # 0 /\ i # 1
      BY <1>5, TableAssumption
    <2>. QED BY <1>5, <2>1
  <1>6. ASSUME NEW i \in 0..MaxFcb, i # 0, i # 1, i \notin 2..5 PROVE F[i] = EmptyFcb
    BY <1>6
  <1>7. DOMAIN F = Index
    BY DEF Index
  <1>. HIDE DEF F, p, o
  <1>8. \A i \in Index : DOMAIN F[i] = FcbFields /\ F[i].nopen \in Nat
    <2>. TAKE i \in Index
    <2>0. DOMAIN EmptyFcb = FcbFields /\ "nopen" \in DOMAIN EmptyFcb
      BY DEF EmptyFcb, FcbFields
    <2>1. CASE i = 0
      <3>1. DOMAIN F[0] = DOMAIN EmptyFcb /\ F[0].nopen = 1
        BY <1>3, <2>0
      <3>. QED BY <2>0, <2>1, <3>1
    <2>2. CASE i = 1
      <3>1. DOMAIN F[1] = DOMAIN EmptyFcb /\ F[1].nopen = 2
        BY <1>4, <2>0
      <3>. QED BY <2>0, <2>2, <3>1
    <2>3. CASE i \in 2..5
      <3>. DEFINE m == IF i = RAMDISK THEN 2 ELSE 1
      <3>1. m \in Nat
        OBVIOUS
      <3>2. F[i] = [EmptyFcb EXCEPT !.path = p(i), !.nopen = m, !.type = "dev", !.mode = o(i), !.storage = DEVFCB]
        BY <1>5, <2>3
      <3>. HIDE DEF m
      <3>3. DOMAIN F[i] = DOMAIN EmptyFcb
        BY <3>2
      <3>4. F[i].nopen = m
        BY <2>0, <3>2
      <3>. QED BY <2>0, <3>1, <3>3, <3>4
    <2>4. CASE i # 0 /\ i # 1 /\ i \notin 2..5
      <3>1. F[i] = EmptyFcb
        BY <1>6, <2>4 DEF Index
      <3>. QED BY <3>1 DEF EmptyFcb, FcbFields
    <2>. QED BY <2>1, <2>2, <2>3, <2>4
  <1>9. F[0].nopen = 1 /\ F[0].path = <<>> /\ F[0].type = "dir"
    BY <1>3 DEF EmptyFcb
  <1>10. F[1].nopen = 2
    BY <1>4 DEF EmptyFcb
  <1>11. F[3].nopen = 2
    <2>1. F[3] = [EmptyFcb EXCEPT !.path = p(3), !.nopen = IF 3 = RAMDISK THEN 2 ELSE 1, !.type = "dev",
                                  !.mode = o(3), !.storage = DEVFCB]
      BY <1>2, <1>5
    <2>. QED BY <2>1 DEF EmptyFcb, RAMDISK
  <1>. QED BY <1>1, <1>7, <1>8, <1>9, <1>10, <1>11

(* The first state, when no device of the file system task goes. *)
LEMMA KeptStart ==
  ASSUME NEW E, MEMFS \notin E
  PROVE  Kept(E, Start, MaxFcb, MaxPipe)
  <1>. DEFINE A == View(Start.ctx, Start.mtab)
              P == Paths(Start.ctx)
              n == [i \in Index |-> Start.fcb[i].nopen]
  <1>0. /\ DOMAIN A = Tags
        /\ \A x \in Tags : /\ x \notin {Mp(0), Mp(1), St(1, 1), St(0, 3)} => A[x] = NOFID
                           /\ x = Mp(0) => A[x] = 0
                           /\ x = Mp(1) => A[x] = 1
                           /\ x = St(1, 1) => A[x] = 1
                           /\ x = St(0, 3) => A[x] = 3
                           /\ x # Top => P[x] = Free
    BY ViewIs, StartView
  <1>1. Index \in SUBSET Nat /\ 0 \in Index /\ 1 \in Index /\ 3 \in Index /\ MaxFcb \in Nat /\ MaxFcb >= 6 /\ MaxPipe \in Nat
    BY TableAssumption DEF Index
  <1>2. /\ Top = Mp(0) /\ Top \in Tags /\ A[Top] = 0 /\ P[Top] = <<>>
    BY TagsAre, ViewTop DEF ROOTFCB
  <1>3. Counted(n, A, Index)
    <2>. SUFFICES ASSUME NEW i \in Index
                  PROVE  n[i] \in Nat /\ IsFiniteSet(Users(A, i)) /\ Cardinality(Users(A, i)) <= n[i]
      BY DEF Counted
    <2>1. n[i] \in Nat /\ n[0] = 1 /\ n[1] = 2 /\ n[3] = 2
      BY <1>1, StartFcb
    <2>. HIDE DEF n, A, P
    <2>2. CASE i = 0
      <3>1. Users(A, i) \subseteq {Mp(0)}
        BY <1>0, <2>2 DEF Users, NOFID
      <3>. QED BY <2>1, <2>2, <3>1, FewElements
    <2>3. CASE i = 1
      <3>1. Users(A, i) \subseteq {Mp(1), St(1, 1)}
        BY <1>0, <2>3 DEF Users, NOFID
      <3>. QED BY <2>1, <2>3, <3>1, FewElements
    <2>4. CASE i = 3
      <3>1. Users(A, i) \subseteq {St(0, 3)}
        BY <1>0, <2>4 DEF Users, NOFID
      <3>2. IsFiniteSet(Users(A, i)) /\ Cardinality(Users(A, i)) <= 1
        BY <3>1, FewElements
      <3>3. Cardinality(Users(A, i)) \in Nat
        BY <3>2, FS_CardinalityType
      <3>. QED BY <2>1, <2>4, <3>2, <3>3
    <2>5. CASE i \notin {0, 1, 3}
      <3>1. Users(A, i) = {}
        BY <1>0, <1>1, <2>5 DEF Users, NOFID
      <3>2. IsFiniteSet(Users(A, i)) /\ Cardinality(Users(A, i)) = 0
        BY <3>1, FS_EmptySet
      <3>. QED BY <2>1, <3>2
    <2>. QED BY <2>2, <2>3, <2>4, <2>5
  <1>4. Slots(Start.fcb, Start.nfcb, A, P, MaxFcb)
    <2>1. \A x \in DOMAIN A : A[x] \in Index \union {NOFID}
      <3>. HIDE DEF A, P, n
      <3>. QED BY <1>0, <1>1
    <2>2. \A x \in DOMAIN A : P[x] # Free /\ A[x] # NOFID => A[x] < 6 /\ Start.fcb[A[x]].path = P[x]
      <3>1. \A x \in DOMAIN A : P[x] # Free => x = Top
        <4>. HIDE DEF A, P, n
        <4>. QED BY <1>0
      <3>2. A[Top] < 6 /\ Start.fcb[A[Top]].path = P[Top]
        <4>1. Start.fcb[0].path = <<>>
          BY StartFcb
        <4>. HIDE DEF A, P, n
        <4>. QED BY <1>2, <4>1
      <3>. HIDE DEF A, P, n
      <3>. QED BY <3>1, <3>2
    <2>. HIDE DEF A, P
    <2>. QED BY <1>0, <1>1, <1>2, <1>3, <2>1, <2>2, StartFcb DEF Slots, ROOTFCB
  <1>5. Unnamed(Start, MaxPipe)
    <2>1. Start.npipe = 0
      BY DEF Start
    <2>. QED BY <1>1, <2>1 DEF Unnamed
  <1>6. Tasks(Start.pipe, Start.ctx)
    <2>1. \A t \in Pid : Start.ctx[t] = NoCtx
      BY DEF Start
    <2>. QED BY <2>1, NewCtxIs DEF Tasks
  <1>7. Mounts(Start.mtab)
    <2>1. Start.mtab = <<[mp |-> 0, st |-> 3], [mp |-> 1, st |-> 1]>>
      BY DEF Start, ROOTFCB, RAMDISK, DEVFCB
    <2>. QED BY <1>1, <2>1 DEF Mounts
  <1>8. Devices(Start.dev, E)
    <2>1. Start.dev = [i \in 1..4 |-> [fid |-> i + 1, task |-> MEMFS]]
      BY DEF Start
    <2>. QED BY <2>1 DEF Devices
  <1>. QED BY <1>4, <1>5, <1>6, <1>7, <1>8, OrderStart DEF Kept

(* The requests of a load, those before the first state included, make no    *)
(* named pipe, and no task that exits adds a device.  A copy of a descriptor *)
(* of a named pipe is counted in the slot with the number of the pipe and    *)
(* let go in the slot of its name; and devfs_del frees the slots of the      *)
(* files of a device whatever their counts.                                  *)
Orderly(l) ==
    /\ MEMFS \notin l.exits
    /\ \A t \in Pid : \A r \in l.reqs[t] : r.fn # "mkfifo" /\ (r.fn = "mknod" => t \notin l.exits)
    /\ \A k \in 1..Len(l.boot) :
          l.boot[k].r.fn # "mkfifo" /\ (l.boot[k].r.fn = "mknod" => l.boot[k].t \notin l.exits)

(* A request before the first state. *)
LEMMA KeptBoot ==
  ASSUME NEW E, NEW st, Kept(E, st, MaxFcb, MaxPipe), NEW b, b.t \in Pid, Anonymous(E, b.t, b.r)
  PROVE  Kept(E, Boot(st, b), MaxFcb, MaxPipe)
  <1>1. Handled(E, Serve(st, b.t, b.r, FALSE))
    BY KeptServe
  <1>. QED BY <1>1, KeptBounded, KeptTaken DEF Boot, Admitted

(* All of them. *)
LEMMA KeptBooted ==
  ASSUME load \in Loads, Orderly(load)
  PROVE  Kept(load.exits, Booted, MaxFcb, MaxPipe)
  <1>. DEFINE m == Len(load.boot)
              E == load.exits
  <1>1. m \in Nat
    BY LoadsAssumption
  <1>2. PICK f : BootedSteps(f)
    BY <1>1, BootedStepsExists
  <1>. DEFINE T == {k \in Nat : k <= m => Kept(E, f[k], MaxFcb, MaxPipe)}
  <1>3. 0 \in T
    BY <1>2, KeptStart DEF BootedSteps, Orderly
  <1>4. ASSUME NEW k \in Nat, k \in T PROVE k + 1 \in T
    <2>1. CASE k + 1 <= m
      <3>. HIDE DEF m
      <3>1. k <= m /\ k < m
        BY <1>1, <2>1
      <3>2. Kept(E, f[k], MaxFcb, MaxPipe)
        BY <1>4, <3>1
      <3>3. f[k + 1] = Boot(f[k], load.boot[k + 1])
        BY <1>2, <3>1 DEF BootedSteps, m
      <3>4. load.boot[k + 1].t \in Pid /\ Anonymous(E, load.boot[k + 1].t, load.boot[k + 1].r)
        <4>1. k + 1 \in 1..Len(load.boot)
          BY <1>1, <2>1 DEF m
        <4>. QED BY <4>1, LoadsAssumption DEF Orderly, Anonymous
      <3>. HIDE DEF E
      <3>5. Kept(E, f[k + 1], MaxFcb, MaxPipe)
        BY <3>2, <3>3, <3>4, KeptBoot
      <3>. QED BY <3>5
    <2>. QED BY <2>1
  <1>5. m \in T
    <2>. HIDE DEF T
    <2>. QED BY <1>1, <1>3, <1>4, InductionSet
  <1>. QED BY <1>1, <1>2, <1>5 DEF BootedSteps

(* A task without devices has none to lose. *)
LEMMA NoDevices ==
  ASSUME NEW E, NEW st, Listed(st.dev), Devices(st.dev, E), NEW pid \in E
  PROVE  DropDevices(st, pid) = st
  <1>. DEFINE m == Len(st.dev)
  <1>1. m \in Nat /\ DOMAIN st.dev = 1..m
    BY ListedKept DEF Listed
  <1>2. PICK f : DropDevicesSteps(f, st, pid)
    BY <1>1, DropDevicesStepsExists
  <1>. DEFINE T == {k \in Nat : k <= m => f[k] = st}
  <1>3. 0 \in T
    BY <1>2 DEF DropDevicesSteps
  <1>4. ASSUME NEW k \in Nat, k \in T PROVE k + 1 \in T
    <2>1. CASE k + 1 <= m
      <3>1. f[k + 1] = DropDevice(f[k], pid, k + 1)
        <4>. HIDE DEF m
        <4>1. k < m
          BY <1>1, <2>1
        <4>. QED BY <1>2, <4>1 DEF DropDevicesSteps, m
      <3>2. f[k] = st
        <4>. HIDE DEF m
        <4>1. k <= m
          BY <1>1, <2>1
        <4>. QED BY <1>4, <4>1
      <3>3. k + 1 \in DOMAIN st.dev
        BY <1>1, <2>1
      <3>4. st.dev[k + 1].task # pid
        BY <3>3 DEF Devices
      <3>. QED BY <3>1, <3>2, <3>4 DEF DropDevice
    <2>. QED BY <2>1
  <1>5. m \in T
    <2>. HIDE DEF T
    <2>. QED BY <1>1, <1>3, <1>4, InductionSet
  <1>. QED BY <1>1, <1>2, <1>5 DEF DropDevicesSteps

(* What a step makes of the tables. *)
LEMMA KeptNext ==
  ASSUME load \in Loads, Orderly(load), Kept(load.exits, s, MaxFcb, MaxPipe), [Next]_vars
  PROVE  load' = load /\ Kept(load.exits, s', MaxFcb, MaxPipe)
  <1>. DEFINE E == load.exits
  <1>1. ASSUME NEW t \in Pid, NEW r \in load.reqs[t], Request(t, r)
        PROVE  load' = load /\ Kept(E, s', MaxFcb, MaxPipe)
    <2>1. Anonymous(E, t, r)
      BY LoadsAssumption DEF Orderly, Anonymous
    <2>. HIDE DEF E
    <2>2. PICK h \in Outcomes(t, r) : Take(t, h)
      BY <1>1 DEF Request
    <2>3. Handled(E, h)
      BY <2>1, <2>2, KeptServe DEF Outcomes, E
    <2>4. Bounded(h) /\ s' = Settled(h) /\ load' = load
      BY <2>2 DEF Take
    <2>. QED BY <2>3, <2>4, KeptBounded, KeptTaken
  <1>2. ASSUME NEW t \in Pid, EVT_exit(t)
        PROVE  load' = load /\ Kept(E, s', MaxFcb, MaxPipe)
    <2>. DEFINE a == CloseAll(taskctx_get(Taken(s), t), t)
    <2>1. t \in E /\ s' = Settled(fcb_free(DropDevices(a, t))) /\ load' = load
      BY <1>2 DEF EVT_exit
    <2>2. Kept(E, a, MaxFcb, MaxPipe)
      BY KeptTaken, KeptGet, KeptCloseAll
    <2>. HIDE DEF a, E
    <2>3. DropDevices(a, t) = a
      <3>1. Listed(a.dev) /\ Devices(a.dev, E)
        BY <2>2, KeptTypes DEF Kept
      <3>. QED BY <2>1, <3>1, NoDevices
    <2>4. Kept(E, Settled(fcb_free(a)), MaxFcb, MaxPipe)
      BY <2>2, KeptFcbFree, KeptTaken
    <2>. QED BY <2>1, <2>3, <2>4
  <1>3. ASSUME SYS_nomem PROVE load' = load /\ Kept(E, s', MaxFcb, MaxPipe)
    <2>. DEFINE a == fcb_free(Taken(s))
                b == [a EXCEPT !.nomem = TRUE]
    <2>1. Kept(E, a, MaxFcb, MaxPipe)
      BY KeptTaken, KeptFcbFree
    <2>2. s' = Settled(b) /\ load' = load
      BY <1>3 DEF SYS_nomem
    <2>. HIDE DEF a, E
    <2>3. DOMAIN a = Fields
      BY <2>1, KeptTypes
    <2>4. DOMAIN b = Fields /\ \A f \in Tables : b[f] = a[f]
      BY <2>3 DEF Fields, Tables
    <2>. HIDE DEF b
    <2>5. Kept(E, Settled(b), MaxFcb, MaxPipe)
      BY <2>1, <2>4, KeptCopy, KeptTaken
    <2>. QED BY <2>2, <2>5
  <1>4. ASSUME NEW t \in Pid, DriverAck(t) \/ ScreenAck(t)
        PROVE load' = load /\ Kept(E, s', MaxFcb, MaxPipe)
    BY <1>4 DEF DriverAck, ScreenAck
  <1>5. CASE UNCHANGED vars
    BY <1>5 DEF vars
  <1>. QED BY <1>1, <1>2, <1>3, <1>4, <1>5 DEF Next

-----------------------------------------------------------------------------
(* The references of a slot, counted *)

(* A set whose elements can be told apart in another one. *)
LEMMA ToldApart ==
  ASSUME NEW S, NEW U, IsFiniteSet(U), NEW f, DOMAIN f = S, f = [x \in S |-> f[x]],
         \A x \in S : f[x] \in U, \A x, y \in S : f[x] = f[y] => x = y
  PROVE  Cardinality(S) \in Nat /\ Cardinality(S) <= Cardinality(U)
  <1>1. f \in [S -> U]
    OBVIOUS
  <1>2. f \in Injection(S, U)
    BY <1>1 DEF Injection, IsInjective
  <1>3. IsFiniteSet(S) /\ Cardinality(S) <= Cardinality(U)
    BY <1>2, FS_Injection
  <1>. QED BY <1>3, FS_CardinalityType

(* The tags of one kind. *)
Kind(U, w) == {x \in U : x[1] = w}

(* Two parts of a set that have nothing in common. *)
Apart(U, A, B) == A \in SUBSET U /\ B \in SUBSET U /\ A \intersect B = {}

(* Two such parts of a finite set. *)
LEMMA Parts ==
  ASSUME NEW U, IsFiniteSet(U), NEW A, NEW B, Apart(U, A, B)
  PROVE  /\ IsFiniteSet(A) /\ IsFiniteSet(B) /\ IsFiniteSet(A \union B)
         /\ Cardinality(A) \in Nat /\ Cardinality(B) \in Nat /\ Cardinality(A \union B) \in Nat
         /\ Cardinality(A \union B) = Cardinality(A) + Cardinality(B)
  <1>1. IsFiniteSet(A) /\ IsFiniteSet(B)
    <2>1. A \in SUBSET U /\ B \in SUBSET U
      BY DEF Apart
    <2>. QED BY <2>1, FS_Subset
  <1>2. IsFiniteSet(A \union B) /\ Cardinality(A \union B) = Cardinality(A) + Cardinality(B) - Cardinality(A \intersect B)
    BY <1>1, FS_Union
  <1>3. Cardinality(A \intersect B) = 0
    <2>1. A \intersect B = {}
      BY DEF Apart
    <2>. QED BY <2>1, FS_EmptySet
  <1>4. Cardinality(A) \in Nat /\ Cardinality(B) \in Nat /\ Cardinality(A \union B) \in Nat
    BY <1>1, <1>2, FS_CardinalityType
  <1>. QED BY <1>1, <1>2, <1>3, <1>4

(* The five kinds are no more than all tags. *)
LEMMA FiveKinds ==
  ASSUME NEW U, IsFiniteSet(U)
  PROVE  /\ \A w : IsFiniteSet(Kind(U, w)) /\ Cardinality(Kind(U, w)) \in Nat
         /\ Cardinality(Kind(U, "open")) + Cardinality(Kind(U, "root")) + Cardinality(Kind(U, "work"))
            + Cardinality(Kind(U, "mp")) + Cardinality(Kind(U, "st")) <= Cardinality(U)
  <1>. DEFINE A == Kind(U, "open")
              B == A \union Kind(U, "root")
              C == B \union Kind(U, "work")
              D == C \union Kind(U, "mp")
              F == D \union Kind(U, "st")
  <1>1. \A w : IsFiniteSet(Kind(U, w)) /\ Cardinality(Kind(U, w)) \in Nat
    <2>. TAKE w
    <2>1. Kind(U, w) \in SUBSET U
      BY DEF Kind
    <2>2. IsFiniteSet(Kind(U, w))
      BY <2>1, FS_Subset
    <2>. QED BY <2>2, FS_CardinalityType
  <1>2. /\ A \in SUBSET U /\ B \in SUBSET U /\ C \in SUBSET U /\ D \in SUBSET U /\ F \in SUBSET U
        /\ A \intersect Kind(U, "root") = {} /\ B \intersect Kind(U, "work") = {}
        /\ C \intersect Kind(U, "mp") = {} /\ D \intersect Kind(U, "st") = {}
        /\ \A w : Kind(U, w) \in SUBSET U
    BY DEF Kind
  <1>3. \A X, w : X \in SUBSET U /\ X \intersect Kind(U, w) = {} =>
                    /\ Cardinality(X) \in Nat
                    /\ Cardinality(X \union Kind(U, w)) = Cardinality(X) + Cardinality(Kind(U, w))
    <2>. SUFFICES ASSUME NEW X \in SUBSET U, NEW w, X \intersect Kind(U, w) = {}
                  PROVE  /\ Cardinality(X) \in Nat
                         /\ Cardinality(X \union Kind(U, w)) = Cardinality(X) + Cardinality(Kind(U, w))
      OBVIOUS
    <2>1. Kind(U, w) \in SUBSET U
      BY DEF Kind
    <2>2. Apart(U, X, Kind(U, w))
      BY <2>1 DEF Apart
    <2>. QED BY <2>2, Parts
  <1>. HIDE DEF A, B, C, D, F
  <1>4. Cardinality(B) = Cardinality(A) + Cardinality(Kind(U, "root"))
    BY <1>2, <1>3 DEF B
  <1>5. Cardinality(C) = Cardinality(B) + Cardinality(Kind(U, "work"))
    BY <1>2, <1>3 DEF C
  <1>6. Cardinality(D) = Cardinality(C) + Cardinality(Kind(U, "mp"))
    BY <1>2, <1>3 DEF D
  <1>7. Cardinality(F) = Cardinality(D) + Cardinality(Kind(U, "st"))
    BY <1>2, <1>3 DEF F
  <1>8. Cardinality(F) <= Cardinality(U) /\ Cardinality(U) \in Nat
    BY <1>2, FS_Subset, FS_CardinalityType
  <1>9. A = Kind(U, "open")
    BY DEF A
  <1>. QED BY <1>1, <1>4, <1>5, <1>6, <1>7, <1>8, <1>9

(* What a task that is in the table holds. *)
LEMMA LiveHolds ==
  ASSUME NEW E, NEW st, NEW m, NEW q, Kept(E, st, m, q), NEW t \in Pid, st.ctx[t] # NoCtx
  PROVE  LET A == View(st.ctx, st.mtab)
         IN  /\ A[Root(t)] = st.ctx[t].root /\ A[Work(t)] = st.ctx[t].work
             /\ \A d \in Used(st.ctx[t]) : {"fifo", "tty"} \intersect st.ctx[t].open[d].mode = {} =>
                   /\ d \in Nat /\ A[Open(t, d)] = st.ctx[t].open[d].fid /\ st.ctx[t].open[d].fid # NOFID
                   /\ Paths(st.ctx)[Open(t, d)] = st.ctx[t].open[d].obj /\ st.ctx[t].open[d].obj # Free
  <1>. DEFINE A == View(st.ctx, st.mtab)
  <1>1. st.ctx[t].root # NOFID
    BY DEF Kept, Tasks
  <1>2. A[Root(t)] = st.ctx[t].root /\ A[Work(t)] = st.ctx[t].work
    BY <1>1, ViewIs DEF WorkOf
  <1>3. ASSUME NEW d \in Used(st.ctx[t]), {"fifo", "tty"} \intersect st.ctx[t].open[d].mode = {}
        PROVE  /\ d \in Nat /\ A[Open(t, d)] = st.ctx[t].open[d].fid /\ st.ctx[t].open[d].fid # NOFID
               /\ Paths(st.ctx)[Open(t, d)] = st.ctx[t].open[d].obj /\ st.ctx[t].open[d].obj # Free
    <2>1. d \in DOMAIN st.ctx[t].open /\ st.ctx[t].open[d].fid # NOFID
      BY <1>3 DEF Used
    <2>2. d \in Nat
      <3>1. Listed(st.ctx[t].open)
        BY KeptTypes
      <3>2. DOMAIN st.ctx[t].open = 1..Len(st.ctx[t].open) /\ Len(st.ctx[t].open) \in Nat
        BY <3>1, ListedKept
      <3>. QED BY <2>1, <3>2
    <2>3. DescOK(st.pipe, st.ctx[t].open[d])
      BY <2>1 DEF Kept, Tasks
    <2>4. SlotAt(st.ctx[t], d) = st.ctx[t].open[d].fid /\ PathAt(st.ctx[t], d) = st.ctx[t].open[d].obj
      BY <1>3, <2>1 DEF SlotAt, SlotOf, PathAt
    <2>5. st.ctx[t].open[d].obj # Free
      BY <1>3, <2>1, <2>3 DEF DescOK
    <2>. QED BY <2>1, <2>2, <2>4, <2>5, ViewIs, PathsAre
  <1>. QED BY <1>2, <1>3

(* The count of a slot covers the descriptors, directories and mounts that  *)
(* use it.                                                                  *)
LEMMA KeptReferences ==
  ASSUME NEW m, NEW q, Kept(load.exits, s, m, q), NEW i \in Index
  PROVE  s.fcb[i].nopen >= References(i)
  <1>. DEFINE ctx == s.ctx
              mt == s.mtab
              A == View(ctx, mt)
              U == Users(A, i)
              Refers(t, d) == /\ d \in Used(ctx[t]) /\ ctx[t].open[d].fid = i
                              /\ {"fifo", "tty"} \intersect ctx[t].open[d].mode = {}
              S1 == {x \in Live \X (1..load.open) : Refers(x[1], x[2])}
              S2 == {t \in Live : ctx[t].root = i}
              S3 == {t \in Live : ctx[t].work = i}
              S4 == {k \in DOMAIN mt : mt[k].mp = i}
              S5 == {k \in DOMAIN mt : mt[k].st = i}
  <1>0. References(i) = Cardinality(S1) + Cardinality(S2) + Cardinality(S3) + Cardinality(S4) + Cardinality(S5)
    BY DEF References
  <1>1. s.fcb[i].nopen \in Nat /\ IsFiniteSet(U) /\ Cardinality(U) <= s.fcb[i].nopen
    BY DEF Kept, Slots, Counted
  <1>2. \A w : IsFiniteSet(Kind(U, w)) /\ Cardinality(Kind(U, w)) \in Nat
    BY <1>1, FiveKinds
  <1>3. DOMAIN A = Tags /\ i \in Nat /\ i # NOFID /\ \A k \in DOMAIN mt : mt[k].mp \in Nat /\ mt[k].st \in Nat
    BY ViewIs, KeptTypes DEF Kept, Mounts
  <1>4. \A t \in Live : /\ t \in Pid /\ A[Root(t)] = ctx[t].root /\ A[Work(t)] = ctx[t].work
                        /\ \A d : Refers(t, d) => d \in Nat /\ A[Open(t, d)] = i
    <2>. TAKE t \in Live
    <2>1. t \in Pid /\ ctx[t] # NoCtx
      BY DEF Live
    <2>. QED BY <2>1, LiveHolds
  <1>5. /\ \A k \in DOMAIN mt : A[Mp(mt[k].mp)] = mt[k].mp /\ A[St(mt[k].mp, mt[k].st)] = mt[k].st
        /\ \A k, j \in DOMAIN mt : mt[k].mp = mt[j].mp => k = j
    <2>1. \A k \in DOMAIN mt : MpAt(mt, mt[k].mp) = mt[k].mp /\ StAt(mt, mt[k].mp, mt[k].st) = mt[k].st
      BY DEF MpAt, StAt
    <2>2. \A k, j \in DOMAIN mt : mt[k].mp = mt[j].mp => k = j
      BY DEF Kept, Mounts
    <2>. HIDE DEF ctx, mt
    <2>. QED BY <1>3, <2>1, <2>2, ViewIs
  <1>. HIDE DEF ctx, mt, A, Refers
  <1>6. Cardinality(S1) \in Nat /\ Cardinality(S1) <= Cardinality(Kind(U, "open"))
    <2>. DEFINE f == [x \in S1 |-> Open(x[1], x[2])]
    <2>1. \A x \in S1 : f[x] \in Kind(U, "open")
      <3>. TAKE x \in S1
      <3>1. x[1] \in Pid /\ x[2] \in Nat /\ A[Open(x[1], x[2])] = i
        BY <1>4
      <3>2. Open(x[1], x[2]) \in U
        BY <1>3, <3>1, TagsAre DEF Users
      <3>. QED BY <3>2 DEF Kind, Open
    <2>2. \A x, y \in S1 : f[x] = f[y] => x = y
      <3>. SUFFICES ASSUME NEW x \in S1, NEW y \in S1, f[x] = f[y] PROVE x = y
        OBVIOUS
      <3>1. Open(x[1], x[2]) = Open(y[1], y[2])
        OBVIOUS
      <3>2. x[1] = y[1] /\ x[2] = y[2]
        BY <3>1, TagsDiffer
      <3>3. x = <<x[1], x[2]>> /\ y = <<y[1], y[2]>>
        OBVIOUS
      <3>. QED BY <3>2, <3>3
    <2>3. DOMAIN f = S1 /\ f = [x \in S1 |-> f[x]]
      OBVIOUS
    <2>. HIDE DEF f, S1, U
    <2>. QED BY <1>2, <2>1, <2>2, <2>3, ToldApart
  <1>7. Cardinality(S2) \in Nat /\ Cardinality(S2) <= Cardinality(Kind(U, "root"))
    <2>. DEFINE f == [t \in S2 |-> Root(t)]
    <2>1. \A x \in S2 : f[x] \in Kind(U, "root")
      BY <1>3, <1>4, TagsAre DEF Users, Kind, Root
    <2>2. \A x, y \in S2 : f[x] = f[y] => x = y
      BY TagsDiffer
    <2>3. DOMAIN f = S2 /\ f = [x \in S2 |-> f[x]]
      OBVIOUS
    <2>. HIDE DEF f, S2, U
    <2>. QED BY <1>2, <2>1, <2>2, <2>3, ToldApart
  <1>8. Cardinality(S3) \in Nat /\ Cardinality(S3) <= Cardinality(Kind(U, "work"))
    <2>. DEFINE f == [t \in S3 |-> Work(t)]
    <2>1. \A x \in S3 : f[x] \in Kind(U, "work")
      BY <1>3, <1>4, TagsAre DEF Users, Kind, Work
    <2>2. \A x, y \in S3 : f[x] = f[y] => x = y
      BY TagsDiffer
    <2>3. DOMAIN f = S3 /\ f = [x \in S3 |-> f[x]]
      OBVIOUS
    <2>. HIDE DEF f, S3, U
    <2>. QED BY <1>2, <2>1, <2>2, <2>3, ToldApart
  <1>9. Cardinality(S4) \in Nat /\ Cardinality(S4) <= Cardinality(Kind(U, "mp"))
    <2>. DEFINE f == [k \in S4 |-> Mp(mt[k].mp)]
    <2>1. \A x \in S4 : f[x] \in Kind(U, "mp")
      BY <1>3, <1>5, TagsAre DEF Users, Kind, Mp
    <2>2. \A x, y \in S4 : f[x] = f[y] => x = y
      BY <1>5
    <2>3. DOMAIN f = S4 /\ f = [x \in S4 |-> f[x]]
      OBVIOUS
    <2>. HIDE DEF f, S4, U
    <2>. QED BY <1>2, <2>1, <2>2, <2>3, ToldApart
  <1>10. Cardinality(S5) \in Nat /\ Cardinality(S5) <= Cardinality(Kind(U, "st"))
    <2>. DEFINE f == [k \in S5 |-> St(mt[k].mp, mt[k].st)]
    <2>1. \A x \in S5 : f[x] \in Kind(U, "st")
      BY <1>3, <1>5, TagsAre DEF Users, Kind, St
    <2>2. \A x, y \in S5 : f[x] = f[y] => x = y
      BY <1>5, TagsDiffer
    <2>3. DOMAIN f = S5 /\ f = [x \in S5 |-> f[x]]
      OBVIOUS
    <2>. HIDE DEF f, S5, U
    <2>. QED BY <1>2, <2>1, <2>2, <2>3, ToldApart
  <1>. HIDE DEF S1, S2, S3, S4, S5, U
  <1>11. /\ Cardinality(Kind(U, "open")) + Cardinality(Kind(U, "root")) + Cardinality(Kind(U, "work"))
            + Cardinality(Kind(U, "mp")) + Cardinality(Kind(U, "st")) <= Cardinality(U)
         /\ Cardinality(U) \in Nat
    BY <1>1, FiveKinds, FS_CardinalityType
  <1>. QED BY <1>0, <1>1, <1>2, <1>6, <1>7, <1>8, <1>9, <1>10, <1>11

-----------------------------------------------------------------------------
(* The invariant and what it shows *)

(* Slots are counted at least as often as they are held. *)
RefsInv ==
    /\ load \in Loads /\ Orderly(load)
    /\ Kept(load.exits, s, MaxFcb, MaxPipe)

(* It covers the references. *)
LEMMA RefsInvCovers == RefsInv => NopenCoversRefs
  <1>. SUFFICES ASSUME RefsInv, NEW i \in 0..(s.nfcb - 1)
                PROVE  s.fcb[i].nopen >= References(i)
    BY DEF NopenCoversRefs
  <1>1. Kept(load.exits, s, MaxFcb, MaxPipe)
    BY DEF RefsInv
  <1>2. i \in Index
    BY <1>1, KeptTypes, TableAssumption DEF Kept, Slots, Index
  <1>. QED BY <1>1, <1>2, KeptReferences

(* It keeps a slot for the file of a descriptor. *)
LEMMA RefsInvFiles == RefsInv => DescriptorKeepsFile
  <1>. SUFFICES ASSUME RefsInv, NEW t \in Live, NEW d \in Used(s.ctx[t]),
                       {"fifo", "tty"} \intersect s.ctx[t].open[d].mode = {}
                PROVE  IsFcb(s, s.ctx[t].open[d].fid) /\ s.fcb[s.ctx[t].open[d].fid].path = s.ctx[t].open[d].obj
    BY DEF DescriptorKeepsFile
  <1>. DEFINE A == View(s.ctx, s.mtab)
              P == Paths(s.ctx)
              x == Open(t, d)
  <1>1. Kept(load.exits, s, MaxFcb, MaxPipe)
    BY DEF RefsInv
  <1>2. t \in Pid /\ s.ctx[t] # NoCtx
    BY DEF Live
  <1>3. /\ d \in Nat /\ A[x] = s.ctx[t].open[d].fid /\ s.ctx[t].open[d].fid # NOFID
        /\ P[x] = s.ctx[t].open[d].obj /\ s.ctx[t].open[d].obj # Free
    BY <1>1, <1>2, LiveHolds
  <1>4. x \in DOMAIN A
    BY <1>2, <1>3, ViewIs, TagsAre
  <1>5. Slots(s.fcb, s.nfcb, A, P, MaxFcb)
    BY <1>1 DEF Kept
  <1>. HIDE DEF A, P, x
  <1>6. A[x] \in Index /\ A[x] < s.nfcb /\ s.fcb[A[x]].path = P[x] /\ s.nfcb \in Nat
    BY <1>3, <1>4, <1>5 DEF Slots
  <1>7. A[x] \in Nat
    BY <1>6, TableAssumption DEF Index
  <1>. QED BY <1>3, <1>6, <1>7 DEF IsFcb

(* The invariant holds in the first state of an orderly load. *)
LEMMA RefsInit == Init /\ Orderly(load) => RefsInv
  <1>. SUFFICES ASSUME Init, Orderly(load) PROVE RefsInv
    OBVIOUS
  <1>1. load \in Loads /\ s = Booted
    BY DEF Init
  <1>. QED BY <1>1, KeptBooted DEF RefsInv

(* Every step keeps it. *)
LEMMA RefsNext == RefsInv /\ [Next]_vars => RefsInv'
  <1>. SUFFICES ASSUME RefsInv, [Next]_vars PROVE RefsInv'
    OBVIOUS
  <1>1. load' = load /\ Kept(load.exits, s', MaxFcb, MaxPipe) /\ load \in Loads /\ Orderly(load)
    BY KeptNext DEF RefsInv
  <1>2. load' \in Loads /\ Orderly(load') /\ Kept(load'.exits, s', MaxFcb, MaxPipe)
    BY <1>1
  <1>. QED BY <1>2 DEF RefsInv

(* A file is not taken out of its slot while descriptors, directories of    *)
(* tasks or mounts use it: whatever tasks do, and wherever they exit, its   *)
(* count (nopen) covers them.                                               *)
THEOREM NopenCovers == Spec /\ Orderly(load) => []NopenCoversRefs
  <1>1. Init /\ Orderly(load) => RefsInv
    BY RefsInit
  <1>2. RefsInv /\ [Next]_vars => RefsInv'
    BY RefsNext
  <1>3. RefsInv => NopenCoversRefs
    BY RefsInvCovers
  <1>. QED BY <1>1, <1>2, <1>3, PTL DEF Spec

(* So an open descriptor shows the file it was opened for. *)
THEOREM DescriptorsKeepFiles == Spec /\ Orderly(load) => []DescriptorKeepsFile
  <1>1. Init /\ Orderly(load) => RefsInv
    BY RefsInit
  <1>2. RefsInv /\ [Next]_vars => RefsInv'
    BY RefsNext
  <1>3. RefsInv => DescriptorKeepsFile
    BY RefsInvFiles
  <1>. QED BY <1>1, <1>2, <1>3, PTL DEF Spec
=============================================================================
