------------------------------ MODULE Bztalloc ------------------------------
(***************************************************************************)
(* The allocator of src/libc/bztalloc.c.  Memory is handed out in units of *)
(* a quantum, a power of two; a chunk has Units units of one quantum and a *)
(* bitmap, a block of ALLOCSIZE or more has a chunk of its own.  The table *)
(* of chunks is the allocmap.  The core, every task and the shared memory  *)
(* have an arena each.                                                     *)
(*                                                                         *)
(* Sizes and addresses count the smallest quantum, 8 bytes.  A page has as *)
(* many of them as a chunk has units, and ALLOCSIZE as many pages, as in   *)
(* the code, where Units is 512.  Both calls hold bit 63 of the arena from *)
(* beginning to end and run on one core, so a call is one step.            *)
(*                                                                         *)
(* Left out: the second and further allocmaps.  The test at line 260       *)
(* compares the index behind the last map with the number of maps, it is   *)
(* always true, and the call fails; MAXCHUNKS is therefore the end.        *)
(***************************************************************************)
EXTENDS Integers, Sequences, SequencesExt

CONSTANTS Units,        \* units of a chunk: BITMAPSIZE*64
          WordBits,     \* bits of a word of the bitmap
          UintBits,     \* bits of the type uint
          MAXCHUNKS,    \* chunks of an allocmap
          Sizes,        \* the sizes programs ask for
          Aligns,       \* the alignments they ask for
          Flags,        \* a subset of {"private", "sparse"}
          Shrink,       \* whether programs realloc to a smaller quantum
          MaxLive,      \* bound: blocks a program has at a time
          MaxCalls,     \* bound: calls in one behaviour
          MaxFail       \* bound: mappings that fail in one behaviour

PAGESIZE == Units
ALLOCSIZE == Units * Units

MaxShift == 30      \* bound: powers of two looked at
Power[i \in 0..MaxShift] == IF i = 0 THEN 1 ELSE 2 * Power[i - 1]
Powers == {Power[i] : i \in 0..MaxShift}

(* Alignments are used as masks (a-1). *)
ASSUME WidthAssumption ==
    /\ Units \in Powers
    /\ UintBits \in 1..WordBits
    /\ MAXCHUNKS \in Nat \ {0}
    /\ Sizes \subseteq Nat \ {0} /\ Aligns \subseteq Powers
    /\ \A s \in Sizes : \E q \in Powers : s <= q
    /\ Flags \subseteq {"private", "sparse"}

VARIABLES chunk,            \* the chunks of the allocmap
          numallocmaps,     \* 1 if the allocmap is there, else 0
          mapped,           \* the pages that are mapped
          live,             \* the blocks the program has
          wrote,            \* history: the addresses the last call wrote to, as a pair
          failed,           \* history: mappings that failed
          calls             \* history: calls so far

heapvars == <<chunk, numallocmaps, mapped, live, wrote, failed, calls>>
-----------------------------------------------------------------------------
(* The smallest power of two that is not below s. *)
Quantum(s) == CHOOSE q \in Powers : q >= s /\ (q = 1 \/ q \div 2 < s)
RoundUp(x, a) == ((x + a - 1) \div a) * a

(* chunksize(q) is q*Units rounded down to pages, of which it is a multiple. *)
chunksize(q) == q * Units
Extent(c) == IF c.quantum < ALLOCSIZE THEN chunksize(c.quantum) ELSE c.size
Pages(lo, size) == (lo \div PAGESIZE)..((lo + size - 1) \div PAGESIZE)

Apart(lo1, hi1, lo2, hi2) == hi1 <= lo2 \/ hi2 <= lo1

(* The chunks a pointer is in. *)
Owners(tbl, ptr) ==
    {j \in DOMAIN tbl : tbl[j].ptr <= ptr /\ ptr < tbl[j].ptr + Extent(tbl[j])}

(* The chunks with a free unit of this quantum at a multiple of the        *)
(* alignment, and the unit.                                                *)
FreeUnits(c, q, a) == {k \in 0..(Units - 1) : k % (a \div q) = 0 /\ k \notin c.map}
Fitting(tbl, q, a) ==
    {j \in DOMAIN tbl : /\ tbl[j].quantum = q /\ q < ALLOCSIZE
                        /\ tbl[j].ptr % a = 0
                        /\ FreeUnits(tbl[j], q, a) # {}}

(* Fault: the allocmap behind the arena is forgotten. *)
Place_nomap(tbl, s, a) ==
    Max({ALLOCSIZE} \union {tbl[j].ptr + Extent(tbl[j]) : j \in DOMAIN tbl})

(* Fault: the space in front of the first chunk is used whatever its size. *)
Place_nosize(tbl, s, a) ==
    LET lp == 2 * ALLOCSIZE
    IN IF tbl # << >> /\ lp < Min({tbl[j].ptr : j \in DOMAIN tbl}) /\ lp % a = 0
       THEN lp
       ELSE Max({lp} \union {tbl[j].ptr + Extent(tbl[j]) : j \in DOMAIN tbl})

(* Where a new chunk goes: behind the last one, or between the allocmap    *)
(* and the first one if the block asked for fits in there.  The arena and  *)
(* the allocmap have the first two times ALLOCSIZE.                        *)
Place(tbl, s, a) ==
    LET lp == 2 * ALLOCSIZE
    IN IF /\ tbl # << >>
          /\ lp + RoundUp(s, ALLOCSIZE) < Min({tbl[j].ptr : j \in DOMAIN tbl})
          /\ lp % a = 0
       THEN lp
       ELSE Max({lp} \union {tbl[j].ptr + Extent(tbl[j]) : j \in DOMAIN tbl})

(* Fault: the chunk goes back with its last unit still in use. *)
Unused_one(map, bits) == Cardinality(map) <= 1

(* No unit is used, as the code finds out: it adds the words of the bitmap *)
(* in a variable of the given width.                                       *)
Unused(map, bits) == MapThenSumSet(LAMBDA k : 2^(k % WordBits), map) % 2^bits = 0

(* Fault: a unit of a page or more stays mapped. *)
Release_small(tbl, j, ptr, bits) ==
    LET c == tbl[j]
        map == c.map \ {(ptr - c.ptr) \div c.quantum}
    IN IF Unused(map, bits)
       THEN [tbl |-> RemoveAt(tbl, j),
             unmap |-> IF c.quantum < PAGESIZE THEN Pages(c.ptr, Extent(c)) ELSE {}]
       ELSE [tbl |-> [tbl EXCEPT ![j].map = map], unmap |-> {}]

(* The unit of a pointer is given back, and its chunk if it was the last.  *)
(* A large block is always the last of its chunk.                          *)
Release(tbl, j, ptr, bits) ==
    LET c == tbl[j]
        map == c.map \ {(ptr - c.ptr) \div c.quantum}
        last == c.quantum >= ALLOCSIZE \/ Unused(map, bits)
    IN [tbl |-> IF last THEN RemoveAt(tbl, j) ELSE [tbl EXCEPT ![j].map = map],
        unmap |-> IF c.quantum >= ALLOCSIZE THEN Pages(c.ptr, c.size)
                  ELSE IF c.quantum >= PAGESIZE THEN Pages(ptr, c.quantum)
                  ELSE IF last THEN Pages(c.ptr, Extent(c)) ELSE {}]
-----------------------------------------------------------------------------
Block(p, s) == [ptr |-> p, size |-> s]
Nothing == <<0, 0>>

(* The table with a unit for a block of size s: an existing chunk or a new *)
(* one; j and k are the chunk and the unit.                                *)
WithUnit(tbl, s, q, a) ==
    LET fit == Fitting(tbl, q, a)
        p == Place(tbl, s, a)
        new == [quantum |-> q, ptr |-> IF q >= ALLOCSIZE THEN RoundUp(p, a) ELSE p,
                map |-> {}, size |-> 0]
        j == IF fit # {} THEN Max(fit) ELSE Len(tbl) + 1
        t == IF fit # {} THEN tbl ELSE Append(tbl, new)
    IN [tbl |-> t, j |-> j, fresh |-> fit = {},
        k |-> IF fit # {} THEN Min(FreeUnits(t[j], q, a)) ELSE 0]

(* A block of size s for the program, in place of the block old if there   *)
(* is one.  oom says which mapping fails: the one of the allocmap, the one *)
(* of the block's memory, or none.                                         *)
bzt_alloc(align, old, s, flag, oom) ==
    LET q == Quantum(s)
        a == Max({align, q})
        u == WithUnit(chunk, s, q, a)
        c == u.tbl[u.j]
        fp == IF q < ALLOCSIZE THEN c.ptr + u.k * q ELSE c.ptr
        size == RoundUp(s, ALLOCSIZE)
        used == [c EXCEPT !.map = IF q < ALLOCSIZE THEN c.map \union {u.k} ELSE c.map,
                          !.size = IF q < ALLOCSIZE THEN 0 ELSE size]
        taken == [u.tbl EXCEPT ![u.j] = used]
        map == IF flag = "sparse" THEN {}
               ELSE IF q < PAGESIZE
               THEN IF u.fresh THEN Pages(c.ptr, chunksize(q)) ELSE {}
               ELSE Pages(fp, IF q < ALLOCSIZE THEN q ELSE size)
        ocm == UNION {Owners(chunk, b.ptr) : b \in old}
        keeps == q < ALLOCSIZE /\ ~u.fresh /\ u.j \in ocm
        oq == {chunk[j].quantum : j \in ocm}
        Back(b) == Release(taken, Max(ocm), b.ptr, UintBits)
        first == IF numallocmaps = 0 THEN Pages(ALLOCSIZE, PAGESIZE) ELSE {}
    IN /\ oom = "allocmap" => numallocmaps = 0
       /\ oom = "memory" => map # {} /\ ~keeps /\ Len(u.tbl) <= MAXCHUNKS
       /\ failed' = IF oom = "none" THEN failed ELSE failed + 1
       /\ numallocmaps' = IF oom = "allocmap" THEN 0 ELSE 1
       /\ IF oom = "allocmap"
          THEN UNCHANGED <<chunk, mapped, live>> /\ wrote' = Nothing
          ELSE IF keeps
          THEN /\ live' = (live \ old) \union {Block(b.ptr, s) : b \in old}
               /\ wrote' = Nothing
               /\ UNCHANGED <<chunk, mapped>>
          ELSE IF Len(u.tbl) > MAXCHUNKS
          THEN /\ mapped' = mapped \union first
               /\ wrote' = Nothing
               /\ UNCHANGED <<chunk, live>>
          ELSE IF oom = "memory"
          THEN /\ chunk' = IF q < PAGESIZE \/ q >= ALLOCSIZE THEN u.tbl ELSE taken
               /\ mapped' = mapped \union first
               /\ wrote' = Nothing
               /\ UNCHANGED live
          ELSE /\ chunk' = IF ocm = {} THEN taken ELSE Back(CHOOSE b \in old : TRUE).tbl
               /\ mapped' = (mapped \union first \union map)
                            \ (IF ocm = {} THEN {} ELSE Back(CHOOSE b \in old : TRUE).unmap)
               /\ live' = (live \ old) \union {Block(fp, s)}
               /\ wrote' = IF flag = "sparse" THEN Nothing
                           ELSE <<fp, fp + Max({q} \union oq)>>

(* The block is found by its address, its unit and perhaps its chunk and   *)
(* the allocmap are given back.                                            *)
bzt_free(b) ==
    LET own == Owners(chunk, b.ptr)
        r == Release(chunk, Min(own), b.ptr, WordBits)
    IN /\ live' = live \ {b}
       /\ wrote' = Nothing
       /\ IF own = {}
          THEN UNCHANGED <<chunk, numallocmaps, mapped>>
          ELSE /\ chunk' = r.tbl
               /\ numallocmaps' = IF r.tbl = << >> THEN 0 ELSE 1
               /\ mapped' = (mapped \ r.unmap)
                            \ (IF r.tbl = << >> THEN Pages(ALLOCSIZE, ALLOCSIZE) ELSE {})
       /\ UNCHANGED failed
-----------------------------------------------------------------------------
HeapInit ==
    /\ chunk = << >> /\ numallocmaps = 0 /\ mapped = {}
    /\ live = {} /\ wrote = Nothing /\ failed = 0 /\ calls = 0

Another == calls < MaxCalls /\ calls' = calls + 1
Oom == IF failed < MaxFail THEN {"none", "allocmap", "memory"} ELSE {"none"}

malloc ==
    /\ Another /\ Cardinality(live) < MaxLive
    /\ \E s \in Sizes, a \in Aligns, f \in Flags, o \in Oom : bzt_alloc(a, {}, s, f, o)

realloc ==
    /\ Another
    /\ \E b \in live, s \in Sizes, o \in Oom :
          /\ Shrink \/ Quantum(s) >= Quantum(b.size)
          /\ bzt_alloc(1, {b}, s, "private", o)

free ==
    /\ Another
    /\ \E b \in live : bzt_free(b)

HeapNext == malloc \/ realloc \/ free

HeapSpec == HeapInit /\ [][HeapNext]_heapvars

-----------------------------------------------------------------------------
(* Chunks have units of their quantum and lie behind the allocmap. *)
TypeOK ==
    /\ numallocmaps \in {0, 1} /\ failed \in Nat /\ calls \in Nat
    /\ chunk # << >> => numallocmaps = 1
    /\ \A j \in DOMAIN chunk :
          /\ chunk[j].map \subseteq 0..(Units - 1)
          /\ chunk[j].ptr >= 2 * ALLOCSIZE
          /\ chunk[j].quantum >= ALLOCSIZE => chunk[j].map = {}
    /\ \A b \in live : b.size \in Sizes

(* No memory is given to the program twice: two blocks it holds have no    *)
(* address in common, whatever was freed and reallocated in between and    *)
(* whatever mapping failed (the bitmaps and Place of bzt_alloc).           *)
NoOverlap ==
    \A b, c \in live : b # c => Apart(b.ptr, b.ptr + b.size, c.ptr, c.ptr + c.size)

(* A block the program holds is not unmapped by the end of another block's *)
(* life: bzt_free gives pages and chunks back to the system, and as long   *)
(* as no mapping failed every block is mapped.                             *)
HeldIsMapped ==
    (failed = 0 /\ Flags = {"private"}) =>
        \A b \in live : Pages(b.ptr, b.size) \subseteq mapped

(* Memory goes back to the system as soon as it can, which the head of the *)
(* file promises: a program that has nothing left keeps no page, unless a  *)
(* mapping failed on the way.                                              *)
AllReturned == (live = {} /\ failed = 0 /\ calls > 1) => mapped = {}

(* Clearing a new block and copying an old one writes only to the block    *)
(* that is returned: blocks the program has besides it keep their contents.*)
OthersKept ==
    \A b \in live : \/ wrote = Nothing
                    \/ wrote[1] = b.ptr
                    \/ Apart(b.ptr, b.ptr + b.size, wrote[1], wrote[2])
=============================================================================
