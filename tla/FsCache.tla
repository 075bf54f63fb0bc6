------------------------------ MODULE FsCache ------------------------------
(***************************************************************************)
(* The block cache of the file system task, src/fs/cache.c, with the way   *)
(* to it (readblock and writeblock of vfs.c), the list of devices by last  *)
(* use (devfs.c) and the messages between the task and the drivers of      *)
(* disks: DRV_read answered by SYS_setblock, DRV_write by SYS_ackblock     *)
(* (main.c).  The drivers are other tasks: their side is external.         *)
(*                                                                         *)
(* A line of the cache is a linked list.  Here it is the sequence of the   *)
(* blocks that can be reached from its head, and knot says that the head   *)
(* points to itself: the code links a block it has found in front of the   *)
(* head, also when the block is the head (cache.c:90, cache.c:144).  A     *)
(* walk over a knotted line that does not stop at the head never ends:     *)
(* then stuck is TRUE and the task does nothing more.                      *)
(***************************************************************************)
EXTENDS Integers, SequencesExt, FiniteSets

CONSTANTS NDev,       \* number of devices, the first four are memory devices
          Disk,       \* indexes of the disks; the devices of drivers that are no
                      \* disks have blocks of one byte
          MaxLsn,     \* blocks of a disk are 0..MaxLsn
          cachelines, \* lines of the cache
          MaxVal,     \* bound: versions of a block
          MaxUse,     \* bound: reads and writes by file systems
          MaxFlush    \* bound: number of flushes

ASSUME DiskAssumption ==
    /\ NDev \in Nat \ {0} /\ Disk \subseteq 4..(NDev - 1)
    /\ MaxLsn \in Nat /\ cachelines \in Nat \ {0}
ASSUME BoundAssumption == MaxVal \in Nat /\ MaxUse \in Nat /\ MaxFlush \in Nat

NOTDIRTY == 0
Prio == {1, 4}               \* BLKPRIO_CRIT, BLKPRIO_META
Lsn == 0..MaxLsn
Line == 0..(cachelines - 1)
LineOf(lsn) == lsn % cachelines

\* The fcb of a device: those of "/" and "/dev" come first.
Fid(d) == d + 2

VARIABLES
    line, knot,     \* the cache
    inflush,        \* cache_inflush
    recent, last,   \* dev[i].recent and dev_recent
    nomem,          \* memory ran out and blocks are being written
    reads, writes,  \* external: DRV_read and DRV_write on their way to the drivers
    loaded, acks,   \* external: SYS_setblock and SYS_ackblock on their way back
    disk,           \* external: what each block of a disk holds
    newest,         \* history: the last value the file system wrote to a block
    flushed, stuck

vars == <<line, knot, inflush, recent, last, nomem, reads, writes, loaded, acks, disk, newest, flushed, stuck>>
queues == <<reads, writes, loaded, acks, disk>>

TypeOK ==
    /\ line \in [Line -> Seq([dev : Disk, lsn : Lsn, prio : 0..4, val : 0..MaxVal])]
    /\ knot \in [Line -> BOOLEAN] /\ \A j \in Line : knot[j] => Len(line[j]) = 1
    /\ inflush \in Int /\ recent \in [0..(NDev - 1) -> Nat] /\ last \in Nat
    /\ nomem \in BOOLEAN /\ stuck \in BOOLEAN

Init ==
    /\ line = [j \in Line |-> <<>>] /\ knot = [j \in Line |-> FALSE]
    /\ inflush = 0
    /\ recent = [i \in 0..(NDev - 1) |-> i + 1] /\ last = NDev
    /\ nomem = FALSE /\ stuck = FALSE
    /\ reads = {} /\ writes = <<>> /\ loaded = <<>> /\ acks = <<>>
    /\ disk = [b \in Disk \X Lsn |-> 0] /\ newest = [b \in Disk \X Lsn |-> 0]
    /\ flushed = 0

----------------------------------------------------------------------------
(* devfs.c *)

devfs_used(d) == recent' = [recent EXCEPT ![d] = last + 1] /\ last' = last + 1

\* The device used longest ago of those that were used since they were last
\* taken; the one used last is not looked at.  The first one when there is none.
devfs_lastused(r) ==
    LET old == {i \in DOMAIN r : r[i] < last /\ r[i] # 0}
    IN  IF old = {} THEN 0 ELSE CHOOSE i \in old : \A k \in old : r[i] <= r[k]

----------------------------------------------------------------------------
(* cache.c *)

At(j, d, lsn) == {k \in DOMAIN line[j] : line[j][k].dev = d /\ line[j][k].lsn = lsn}

\* What is left of a line when the block at k is linked in front of it.
Moved_kept(j, k, e) == <<e>> \o RemoveAt(line[j], k)
Moved(j, k, e) ==
    IF k = 1 THEN <<e>> ELSE <<e>> \o RemoveAt(line[j], k)

\* An empty line asks for nothing.  A block that is not there is asked for
\* and the request of the client waits.
cache_getblock(d, lsn) ==
    LET j == LineOf(lsn)
        hit == At(j, d, lsn)
        k == CHOOSE i \in hit : TRUE
    IN  \/ line[j] = <<>> /\ UNCHANGED <<line, knot, reads, stuck>>
        \/ /\ hit # {}
           /\ line' = [line EXCEPT ![j] = Moved(j, k, @[k])]
           /\ knot' = [knot EXCEPT ![j] = @ \/ k = 1]
           /\ UNCHANGED <<reads, stuck>>
        \/ /\ line[j] # <<>> /\ hit = {}
           /\ stuck' = knot[j]
           /\ reads' = IF knot[j] THEN reads ELSE reads \union {<<d, lsn>>}
           /\ UNCHANGED <<line, knot>>

cache_setblock_twice(d, lsn, val, prio) ==
    /\ line' = [line EXCEPT ![LineOf(lsn)] = <<[dev |-> d, lsn |-> lsn, prio |-> prio, val |-> val]>> \o @]
    /\ UNCHANGED <<knot, stuck>>
cache_setblock(d, lsn, val, prio) ==
    LET j == LineOf(lsn)
        hit == At(j, d, lsn)
        k == CHOOSE i \in hit : TRUE
        e == [dev |-> d, lsn |-> lsn, prio |-> prio, val |-> val]
    IN  IF hit = {} /\ knot[j] THEN stuck' = TRUE /\ UNCHANGED <<line, knot>>
        ELSE /\ line' = [line EXCEPT ![j] = IF hit = {} THEN <<e>> \o @ ELSE Moved(j, k, e)]
             /\ knot' = [knot EXCEPT ![j] = @ \/ (hit # {} /\ k = 1)]
             /\ UNCHANGED stuck

\* Where the blocks are: line and position.
Blocks(l) == UNION {{j} \X DOMAIN l[j] : j \in Line}

\* The members of S, each behind those that precede it in the relation R.
Enumerate(S, R) ==
    [n \in 1..Cardinality(S) |->
        CHOOSE x \in S : Cardinality({y \in S : <<y, x>> \in R}) = n - 1]

\* What is left of the line s when only the blocks at the positions K stay.
Kept(s, K) ==
    LET at == Enumerate(K, {p \in K \X K : p[1] < p[2]})
    IN  [n \in DOMAIN at |-> s[at[n]]]

\* The lines are gone through from the last to the first, as long as blocks
\* are needed; all blocks of the device in a line go, written or not.
cache_freeblocks(l, d, needed) ==
    LET Of(J) == {x \in Blocks(l) : x[1] \in J /\ l[x[1]][x[2]].dev = d}
        reached == {j \in Line : needed = 0 \/ Cardinality(Of({i \in Line : i > j})) < needed}
    IN  [cnt |-> Cardinality(Of(reached)),
         line |-> [j \in Line |-> IF j \in reached
                                  THEN Kept(l[j], {k \in DOMAIN l[j] : l[j][k].dev # d})
                                  ELSE l[j]]]

\* Half of the blocks, from the devices used longest ago, until the same
\* device comes twice.
cache_free(l) ==
    LET half == Cardinality(Blocks(l)) \div 2
        Take(acc) ==
            IF acc.cnt >= half \/ acc.i = acc.k THEN acc
            ELSE LET k == devfs_lastused(acc.recent)
                     f == cache_freeblocks(acc.line, k, half - acc.cnt)
                 IN  [line |-> f.line, cnt |-> acc.cnt + f.cnt, i |-> acc.k, k |-> k,
                      recent |-> [acc.recent EXCEPT ![k] = 0]]
        loop[n \in 0..(NDev + 2)] ==
            IF n = 0 THEN [line |-> l, cnt |-> 0, i |-> 0, k |-> -1, recent |-> recent]
            ELSE Take(loop[n - 1])
    IN  loop[NDev + 2]

Knotted == \E j \in Line : knot[j]

\* All dirty blocks, the more critical ones first, then line by line.
DirtyAt == {x \in Blocks(line) : line[x[1]][x[2]].prio # NOTDIRTY}
Sooner(x, y) ==
    LET p == line[x[1]][x[2]].prio
        q == line[y[1]][y[2]].prio
    IN  p < q \/ (p = q /\ (x[1] < y[1] \/ (x[1] = y[1] /\ x[2] < y[2])))

Sent_lines ==
    LET at == Enumerate(DirtyAt, {p \in DirtyAt \X DirtyAt : p[1][1] < p[2][1]
                                     \/ (p[1][1] = p[2][1] /\ p[1][2] < p[2][2])})
    IN  [n \in DOMAIN at |-> line[at[n][1]][at[n][2]]]
Sent ==
    LET at == Enumerate(DirtyAt, {p \in DirtyAt \X DirtyAt : Sooner(p[1], p[2])})
    IN  [n \in DOMAIN at |-> line[at[n][1]][at[n][2]]]
cache_flush ==
    /\ flushed < MaxFlush /\ flushed' = flushed + 1
    /\ stuck' = Knotted
    /\ writes' = writes \o [k \in DOMAIN Sent |-> [b |-> Sent[k], no |-> flushed']]
    /\ inflush' = Len(Sent)

----------------------------------------------------------------------------
(* vfs.c: what a driver of a file system does with a block of a disk       *)

Read(d, lsn) ==
    /\ ~stuck /\ last < NDev + MaxUse
    /\ devfs_used(d)
    /\ cache_getblock(d, lsn)
    /\ UNCHANGED <<inflush, nomem, writes, loaded, acks, disk, newest, flushed>>

\* Each write is a new version of the block.
Write(d, lsn, prio) ==
    /\ ~stuck /\ newest[<<d, lsn>>] < MaxVal /\ last < NDev + MaxUse
    /\ devfs_used(d)
    /\ newest' = [newest EXCEPT ![<<d, lsn>>] = @ + 1]
    /\ cache_setblock(d, lsn, newest[<<d, lsn>>] + 1, prio)
    /\ UNCHANGED <<inflush, nomem, flushed>> /\ UNCHANGED queues

----------------------------------------------------------------------------
(* main.c *)

SYS_fcloseall ==
    /\ ~stuck /\ cache_flush
    /\ UNCHANGED <<line, knot, recent, last, nomem, reads, loaded, acks, disk, newest>>

SYS_nomem ==
    /\ ~stuck /\ cache_flush /\ nomem' = TRUE
    /\ UNCHANGED <<line, knot, recent, last, reads, loaded, acks, disk, newest>>

SYS_setblock_dirty ==
    /\ ~stuck /\ loaded # <<>>
    /\ cache_setblock(Head(loaded).dev, Head(loaded).lsn, Head(loaded).val, 2)
    /\ loaded' = Tail(loaded)
    /\ UNCHANGED <<inflush, recent, last, nomem, reads, writes, acks, disk, newest, flushed>>
SYS_setblock ==
    /\ ~stuck /\ loaded # <<>>
    /\ cache_setblock(Head(loaded).dev, Head(loaded).lsn, Head(loaded).val, NOTDIRTY)
    /\ loaded' = Tail(loaded)
    /\ UNCHANGED <<inflush, recent, last, nomem, reads, writes, acks, disk, newest, flushed>>

\* The fcb of the device in the message is compared with the number of
\* devices, so the acknowledgements of the last two devices are dropped; and
\* it is taken for the index of a device, which must not have blocks of a byte.
Ignored(d) == Fid(d) >= NDev \/ Fid(d) \notin Disk

Cleared(d, lsn) ==
    [line EXCEPT ![LineOf(lsn)] = [k \in DOMAIN @ |-> IF k \in At(LineOf(lsn), d, lsn)
                                                     THEN [@[k] EXCEPT !.prio = NOTDIRTY] ELSE @[k]]]

SYS_ackblock ==
    /\ ~stuck /\ acks # <<>>
    /\ acks' = Tail(acks)
    /\ LET d == Head(acks).dev
           lsn == Head(acks).lsn
           j == LineOf(lsn)
           done == inflush = 1 /\ nomem
           freed == cache_free(Cleared(d, lsn))
       IN  IF Ignored(d) \/ line[j] = <<>>
           THEN UNCHANGED <<line, recent, inflush, nomem, stuck>>
           ELSE /\ inflush' = inflush - 1
                /\ stuck' = ((knot[j] /\ At(j, d, lsn) = {}) \/ (done /\ Knotted))
                /\ nomem' = (nomem /\ ~done)
                /\ line' = IF done /\ ~Knotted THEN freed.line ELSE Cleared(d, lsn)
                /\ recent' = IF done /\ ~Knotted THEN freed.recent ELSE recent
    /\ UNCHANGED <<knot, last, reads, writes, loaded, disk, newest, flushed>>

----------------------------------------------------------------------------
(* External: the drivers take their messages in order.                     *)

DriverRead ==
    \E b \in reads :
        /\ reads' = reads \ {b}
        /\ loaded' = Append(loaded, [dev |-> b[1], lsn |-> b[2], val |-> disk[b]])
        /\ UNCHANGED <<line, knot, inflush, recent, last, nomem, writes, acks, disk, newest, flushed, stuck>>

DriverWrite ==
    /\ writes # <<>>
    /\ LET e == Head(writes).b
       IN  /\ disk' = [disk EXCEPT ![<<e.dev, e.lsn>>] = e.val]
           /\ acks' = Append(acks, [dev |-> e.dev, lsn |-> e.lsn])
    /\ writes' = Tail(writes)
    /\ UNCHANGED <<line, knot, inflush, recent, last, nomem, reads, loaded, newest, flushed, stuck>>

Next ==
    \/ \E d \in Disk, lsn \in Lsn : Read(d, lsn)
    \/ \E d \in Disk, lsn \in Lsn, p \in Prio : Write(d, lsn, p)
    \/ SYS_fcloseall \/ SYS_nomem \/ SYS_setblock \/ SYS_ackblock
    \/ DriverRead \/ DriverWrite

Spec == Init /\ [][Next]_vars

----------------------------------------------------------------------------
(* Properties *)

\* A block is at most once in the cache and in the line of its number: the
\* walks of cache_getblock and cache_setblock find the one copy.
OneCopy ==
    \A j \in Line : \A k \in DOMAIN line[j] :
        LineOf(line[j][k].lsn) = j /\ At(j, line[j][k].dev, line[j][k].lsn) = {k}

\* Soft updates: of the blocks sent by one flush the more critical ones reach
\* the driver first (cache.h, BLKPRIO).
FlushOrder ==
    \A i, k \in DOMAIN writes :
        i < k /\ writes[i].no = writes[k].no => writes[i].b.prio <= writes[k].b.prio

\* An older version of a block never replaces a newer one on a disk, in
\* whatever order reads, writes, flushes and their answers cross.
DiskForward == [][\A b \in DOMAIN disk : disk'[b] >= disk[b]]_vars

\* Nothing written is forgotten: the newest version of a block is on the disk,
\* on its way there, or dirty in the cache.
NothingForgotten ==
    \A b \in DOMAIN newest :
        \/ disk[b] = newest[b]
        \/ \E k \in DOMAIN writes : <<writes[k].b.dev, writes[k].b.lsn>> = b /\ writes[k].b.val = newest[b]
        \/ \E k \in At(LineOf(b[2]), b[1], b[2]) :
              line[LineOf(b[2])][k].prio # NOTDIRTY /\ line[LineOf(b[2])][k].val = newest[b]

\* A block that has just been found does not make its line endless.
NoKnot == ~Knotted

\* The counter of blocks on their way is their number.
InflushExact == ~nomem \/ inflush = Len(writes) + Len(acks)
=============================================================================
