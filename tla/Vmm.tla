-------------------------------- MODULE Vmm ---------------------------------
(***************************************************************************)
(* Address spaces (src/src/core/vmm.c, src/src/core/x86_64/vmm.c).  Pages  *)
(* are counted from address 0; a table of pages covers Slot pages (2M), a  *)
(* table of tables covers Giga pages (1G), and a task has Gigas of those.  *)
(* The operators take the state s of the core and a task t and return the  *)
(* next state; a record [s, ok] where the function has a result.           *)
(*                                                                         *)
(* s.free is the set of free frames (pmm.c is modelled in Pmm: here it     *)
(* hands out the lowest free frame).  An address space is                  *)
(*   root   the two root tables (cr3 and pml4 of x86_64),                  *)
(*   g      the frame of each 1G table, None where there is none,          *)
(*   m      for each 2M: nothing, a table of pages or a block of 2M,       *)
(*   p      for each page: its frame and whether it is PG_SHARED,          *)
(*   alloc, link  tcb->allocmem and tcb->linkmem.                          *)
(***************************************************************************)
EXTENDS Naturals, FiniteSets, Sequences

CONSTANTS
    Slot,        \* pages of a table of pages (512)
    Giga,        \* pages of a table of tables (512 * 512)
    TEXT,        \* TEXT_ADDRESS, the end of the stack and the start of the code
    DYN,         \* DYN_ADDRESS, the heap
    BUF          \* BUF_ADDRESS, where an exec builds the new code segment

ASSUME VmmAssumption ==
    /\ {Slot, Giga, TEXT, DYN, BUF} \subseteq Nat \ {0}
    /\ Giga % Slot = 0 /\ TEXT % Slot = 0 /\ DYN % Giga = 0 /\ BUF % Giga = 0
    /\ TEXT < DYN /\ DYN < BUF

Pages == 0 .. BUF + DYN - 1
Slots == 0 .. (BUF + DYN) \div Slot - 1
Gigas == 0 .. (BUF + DYN) \div Giga - 1

None    == 0                    \* no frame: the entry is not present
Outside == [f |-> None, sh |-> TRUE]    \* memory that is not the pmm's: text, MMIO
NoPage  == [f |-> None, sh |-> FALSE]
NoSlot  == [f |-> None, k |-> "none"]

Present(e) == e # NoPage
SlotOf(b)  == b \div Slot
GigaOf(b)  == b \div Giga
SlotsOf(i) == {j \in Slots : GigaOf(j * Slot) = i}
PagesOf(j) == {b \in Pages : b \div Slot = j}

-----------------------------------------------------------------------------
(* what pmm_alloc, pmm_allocslot and pmm_free do for a task                 *)

Lowest(S) == CHOOSE f \in S : \A h \in S : f <= h

\* the aligned runs of Slot free frames
FreeSlots(s) == {f \in s.free : f % Slot = 0 /\ f .. f + Slot - 1 \subseteq s.free}

\* pmm_alloc(tcb, 1) and pmm_allocslot(tcb); out of memory is a panic until
\* the system is up
Taken(s, t, frames) ==
    [s EXCEPT !.free = @ \ frames, !.task[t].alloc = @ + Cardinality(frames)]

OutOfRam(s) ==
    IF s.runlevel = "norm" THEN [s EXCEPT !.errno = "ENOMEM"]
                           ELSE [s EXCEPT !.panic = TRUE]

pmm_free(s, t, frames) ==
    [s EXCEPT !.free = @ \cup frames, !.task[t].alloc = @ - Cardinality(frames)]

-----------------------------------------------------------------------------
(* vmm_map: tables are added where the walk finds none, a whole aligned 2M *)
(* becomes a block.  w is the shared page to map (Outside, or the frame of *)
(* the TCB), NoPage for new memory; al tells whether it starts at 2M.      *)

WithGiga(s, t, b) ==
    LET f == Lowest(s.free) IN [Taken(s, t, {f}) EXCEPT !.task[t].g[GigaOf(b)] = f]

WithTable(s, t, b) ==
    LET f == Lowest(s.free) IN
    [Taken(s, t, {f}) EXCEPT !.task[t].m[SlotOf(b)] = [f |-> f, k |-> "table"]]

MapSlot(s, t, j, w) ==
    IF Present(w)
    THEN [s EXCEPT !.task[t].m[j] = [f |-> w.f, k |-> "shared"],
                   !.task[t].link = @ + Slot]
    ELSE LET f == Lowest(FreeSlots(s)) IN
         [Taken(s, t, f .. f + Slot - 1) EXCEPT
            !.task[t].m[j] = [f |-> f, k |-> "slot"]]

MapPage(s, t, b, w) ==
    IF Present(w)
    THEN [s EXCEPT !.task[t].p[b] = [w EXCEPT !.sh = TRUE],
                   !.task[t].link = @ + 1]
    ELSE LET f == Lowest(s.free) IN
         [Taken(s, t, {f}) EXCEPT !.task[t].p[b] = [f |-> f, sh |-> FALSE]]

Failed(s)   == [s |-> OutOfRam(s), ok |-> FALSE]
Fault(s)    == [s |-> [s EXCEPT !.errno = "EFAULT"], ok |-> FALSE]
Done(s)     == [s |-> s, ok |-> TRUE]

\* the walk does not tell a block of 2M from a table: the entries are written
\* into the memory of the block
Clobbered(s) == [s |-> [s EXCEPT !.clobbered = TRUE], ok |-> TRUE]

(* A table of the space: n pages still to map at b.  lev is where the loop *)
(* is: "top" at the label again, "slots" while 2M blocks are mapped,       *)
(* "pages" in the loop over one table.  Note that the loop over blocks     *)
(* goes back to the top with nothing left to map.                          *)
RECURSIVE MapFrom(_, _, _, _, _, _, _)
MapFrom(s, t, b, n, w, al, lev) ==
    LET T == s.task[t]
        full == Failed(s)
    IN
    CASE lev = "top" ->
            IF T.g[GigaOf(b)] = None
            THEN IF s.free = {} THEN full
                 ELSE MapFrom(WithGiga(s, t, b), t, b, n, w, al, "top")
            ELSE IF T.m[SlotOf(b)] # NoSlot
            THEN MapFrom(s, t, b, n, w, al, "pages")
            ELSE IF al /\ b % Slot = 0 /\ n >= Slot
            THEN MapFrom(s, t, b, n, w, al, "slots")
            ELSE IF s.free = {} THEN full
                 ELSE MapFrom(WithTable(s, t, b), t, b, n, w, al, "pages")
      [] lev = "slots" ->
            IF T.m[SlotOf(b)] # NoSlot THEN Fault(s)
            ELSE IF ~Present(w) /\ FreeSlots(s) = {} THEN full
            ELSE LET c == MapSlot(s, t, SlotOf(b), w)
                     more == n - Slot >= Slot /\ (b + Slot) % Giga # 0
                 IN MapFrom(c, t, b + Slot, n - Slot, w, al,
                            IF more THEN "slots" ELSE "top")
      [] lev = "pages" ->
            IF n = 0 THEN Done(s)
            ELSE IF T.m[SlotOf(b)].k # "table" THEN Clobbered(s)
            ELSE IF Present(T.p[b]) THEN Fault(s)
            ELSE IF ~Present(w) /\ s.free = {} THEN full
            ELSE MapFrom(MapPage(s, t, b, w), t, b + 1, n - 1, w, al,
                         IF (b + 1) % Slot = 0 THEN "top" ELSE "pages")

vmm_map(s, t, b, n, w, al) ==
    IF n = 0 \/ b = 0 THEN [s |-> [s EXCEPT !.errno = "EINVAL"], ok |-> FALSE]
    ELSE MapFrom(s, t, b, n, w, al, "top")

\* vmm_maptext maps the pages of a file read-only and shared, never as blocks
vmm_maptext(s, t, b, n) ==
    IF n = 0 \/ b < BUF + TEXT \/ b > BUF + DYN
    THEN [s |-> [s EXCEPT !.errno = "EINVAL"], ok |-> FALSE]
    ELSE MapFrom(s, t, b, n, Outside, FALSE, "top")

-----------------------------------------------------------------------------
(* vmm_free: the walk over the tables and the counters that follow it.     *)
(* The place in the tables (i, j, k) and the address b advance on their    *)
(* own; q holds where the walk started and ends.                           *)

Unmapped_shared(s, t, b) ==
    LET e == s.task[t].p[b]
        c == [s EXCEPT !.task[t].p[b] = NoPage]
    IN IF ~Present(e) THEN s
       ELSE IF e = Outside THEN [c EXCEPT !.task[t].link = @ - 1]
       ELSE pmm_free(c, t, {e.f})

Unmapped(s, t, b) ==
    LET e == s.task[t].p[b]
        c == [s EXCEPT !.task[t].p[b] = NoPage]
    IN IF ~Present(e) THEN s
       ELSE IF e.sh THEN [c EXCEPT !.task[t].link = @ - 1]
       ELSE pmm_free(c, t, {e.f})

UnmappedSlot_one(s, t, j) ==
    LET e == s.task[t].m[j]
        c == [s EXCEPT !.task[t].m[j] = NoSlot]
    IN IF e.k = "shared" THEN [c EXCEPT !.task[t].link = @ - 1]
       ELSE pmm_free(c, t, e.f .. e.f + Slot - 1)

UnmappedSlot(s, t, j) ==
    LET e == s.task[t].m[j]
        c == [s EXCEPT !.task[t].m[j] = NoSlot]
    IN IF e.k = "shared" THEN [c EXCEPT !.task[t].link = @ - Slot]
       ELSE pmm_free(c, t, e.f .. e.f + Slot - 1)

DropTable_kept(s, t, j) ==
    IF \E b \in PagesOf(j) : Present(s.task[t].p[b]) THEN s
    ELSE [s EXCEPT !.task[t].m[j] = NoSlot, !.task[t].alloc = @ - 1]

DropTable(s, t, j) ==
    IF \E b \in PagesOf(j) : Present(s.task[t].p[b]) THEN s
    ELSE [pmm_free(s, t, {s.task[t].m[j].f}) EXCEPT !.task[t].m[j] = NoSlot]

DropGiga(s, t, i) ==
    IF \E j \in SlotsOf(i) : s.task[t].m[j] # NoSlot THEN s
    ELSE [pmm_free(s, t, {s.task[t].g[i]}) EXCEPT !.task[t].g[i] = None]

\* the loop over the pages j * Slot + k of a table, up to ke
RECURSIVE FreePages(_, _, _, _, _, _, _)
FreePages(s, t, q, j, k, ke, b) ==
    IF k > ke \/ b >= q.end THEN [s |-> DropTable(s, t, j), b |-> b]
    ELSE FreePages(Unmapped(s, t, j * Slot + k), t, q, j, k + 1, ke, b + 1)

\* the loop over the 2M entries j of 1G table i, up to je
RECURSIVE FreeSlotsOf(_, _, _, _, _, _)
FreeSlotsOf(s, t, q, j, je, b) ==
    LET e == s.task[t].m[j]
        k  == IF q.start = b THEN b % Slot ELSE 0
        ke == IF SlotOf(q.end) = SlotOf(b) THEN q.end % Slot ELSE Slot - 1
    IN IF j > je \/ b >= q.end THEN [s |-> s, b |-> b]
       ELSE IF e = NoSlot THEN FreeSlotsOf(s, t, q, j + 1, je, b + Slot)
       ELSE IF e.k # "table"
            THEN FreeSlotsOf(UnmappedSlot(s, t, j), t, q, j + 1, je, b + Slot)
       ELSE LET r == FreePages(s, t, q, j, k, ke, b)
            IN FreeSlotsOf(r.s, t, q, j + 1, je, r.b)

RECURSIVE FreeFrom(_, _, _, _)
FreeFrom(s, t, q, b) ==
    LET i  == GigaOf(b)
        first == SlotOf(i * Giga)
        j  == IF SlotOf(q.start) = SlotOf(b) THEN SlotOf(b) ELSE first
        je == IF SlotOf(q.end) = SlotOf(b) THEN SlotOf(b)
              ELSE first + Giga \div Slot - 1
    IN IF b >= q.end THEN s
       ELSE IF s.task[t].g[i] = None THEN FreeFrom(s, t, q, b + Giga)
       ELSE LET r == FreeSlotsOf(s, t, q, j, je, b)
            IN FreeFrom(DropGiga(r.s, t, i), t, q, r.b)

vmm_free(s, t, b, n) ==
    IF n = 0 THEN [s EXCEPT !.errno = "EINVAL"]
    ELSE FreeFrom(s, t, [start |-> b, end |-> b + n], b)

-----------------------------------------------------------------------------
(* vmm_new takes the roots, the tables down to page 0 and the TCB; the     *)
(* frame of the TCB is the pid of the task.                                *)

Empty == [g |-> [i \in Gigas |-> None], m |-> [j \in Slots |-> NoSlot],
          p |-> [b \in Pages |-> NoPage]]

RECURSIVE LowestOf(_, _)
LowestOf(S, n) ==
    IF n = 0 THEN <<>>
    ELSE LET f == Lowest(S) IN <<f>> \o LowestOf(S \ {f}, n - 1)

vmm_new(s, t) ==
    LET F == LowestOf(s.free, 5) IN
    IF Cardinality(s.free) < 5
    THEN [OutOfRam(s) EXCEPT !.clobbered = TRUE]    \* frame 0 is taken for a table
    ELSE
    [s EXCEPT
        !.free = @ \ {F[i] : i \in 1..5},
        !.task[t] = [@ EXCEPT !.live = TRUE, !.pid = F[5],
                        !.root = <<F[1], F[2]>>, !.alloc = 5, !.link = 0,
                        !.g = [Empty.g EXCEPT ![0] = F[3]],
                        !.m = [Empty.m EXCEPT ![0] = [f |-> F[4], k |-> "table"]],
                        !.p = [Empty.p EXCEPT ![0] = [f |-> F[5], sh |-> FALSE]]]]

\* vmm_del: everything up to the end of the buffers, then the roots
vmm_del(s, t) ==
    LET c == vmm_free(s, t, 0, BUF + DYN)
        r == pmm_free(pmm_free(c, t, {c.task[t].root[2]}), t, {c.task[t].root[1]})
    IN [r EXCEPT !.task[t].live = FALSE]

vmm_swaptextbuf_noflag(s, t) ==
    LET T == s.task[t]
        Other(b, size) == IF b < DYN \div size THEN b + BUF \div size
                          ELSE IF b >= BUF \div size THEN b - BUF \div size ELSE b
    IN [s EXCEPT !.task[t].g = [i \in Gigas |-> T.g[Other(i, Giga)]],
                 !.task[t].m = [j \in Slots |-> T.m[Other(j, Slot)]],
                 !.task[t].p = [b \in Pages |-> T.p[Other(b, 1)]]]

\* vmm_swaptextbuf exchanges the 1G tables of the code and of the buffer, and
\* then the PG_SHARED bit of the two mappings of the TCB
vmm_swaptextbuf(s, t) ==
    LET T == s.task[t]
        Other(b, size) == IF b < DYN \div size THEN b + BUF \div size
                          ELSE IF b >= BUF \div size THEN b - BUF \div size ELSE b
        p2 == [b \in Pages |-> T.p[Other(b, 1)]]
    IN [s EXCEPT !.task[t].g = [i \in Gigas |-> T.g[Other(i, Giga)]],
                 !.task[t].m = [j \in Slots |-> T.m[Other(j, Slot)]],
                 !.task[t].p = [p2 EXCEPT ![BUF].sh = TRUE, ![0].sh = FALSE,
                                          ![1].sh = FALSE]]
=============================================================================
