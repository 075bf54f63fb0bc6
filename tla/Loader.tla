------------------------------- MODULE Loader --------------------------------
(***************************************************************************)
(* Tasks and their programs: creating and deleting a task and its exec     *)
(* (src/src/core/task.c), the cache of ELF files, the loader and the       *)
(* run-time linker (src/src/core/elf.c), and the loading of drivers and    *)
(* services (src/src/core/drivers.c), over the address spaces of Vmm.      *)
(* The core runs on one CPU here and is not preempted: every operation is  *)
(* one step.                                                               *)
(***************************************************************************)
EXTENDS Vmm, Integers, FiniteSetsExt, SequencesExt

CONSTANTS
    Tid,            \* tasks that can exist at a time, 1..n
    NumCores,
    FrameSets,      \* the physical pages, 1..n, of the machines looked at
    Files,          \* name -> what the loader reads of a file on the initrd
    Names,          \* the names that are asked for, missing files too
    Dispatcher,     \* /sys/driver, the common code of the drivers
    Displays,       \* the names under display/
    FsFile, FsDrivers,   \* /sys/fs and the drivers listed for it
    DevSize,        \* pages of the device specification of a driver, 0 if none
    DrvMem,         \* sizes of the MMIO regions, in half pages
    MapRanges, FreeRanges,  \* <<page, number>> asked for by SYS_memmap, SYS_memunmap
    FaultPages,     \* pages that are touched before they are mapped
    MaxSteps

VARIABLES s, last
vars == <<s, last>>

Cpus    == 0 .. NumCores - 1
NoFile  == "no file"
NoEntry == [fn |-> NoFile, data |-> FALSE, numref |-> 0]

NoTask == [live |-> FALSE, pid |-> None, root |-> <<None, None>>,
           g |-> Empty.g, m |-> Empty.m, p |-> Empty.p, alloc |-> 0, link |-> 0,
           cpu |-> 0, prio |-> "drv", bin |-> <<>>, start |-> <<>>, sched |-> FALSE]

-----------------------------------------------------------------------------
(* The cache of ELF files.  The comparison with an empty place counts as   *)
(* equal (strcmp with a null pointer): the second empty place of the cache *)
(* is found for any name.                                                  *)

Empties(c) == {i \in DOMAIN c : c[i].fn = NoFile}

Cached(c, fn) ==
    {i \in DOMAIN c : \/ c[i].fn = fn
                      \/ c[i].fn = NoFile /\ \E h \in Empties(c) : h < i}

\* elf_getfile: [s, i], i = 0 for NULL
elf_getfile(q, fn) ==
    LET c   == q.cache
        hit == Cached(c, fn)
        i   == IF Empties(c) # {} THEN Min(Empties(c)) ELSE Len(c) + 1
        here == q.runlevel # "norm" /\ fn \in DOMAIN Files
        new == [NoEntry EXCEPT !.fn = fn, !.data = here]
        q2  == [q EXCEPT !.cache = IF i > Len(c) THEN Append(c, new)
                                   ELSE [c EXCEPT ![i].fn = fn, ![i].data = here]]
    IN IF hit # {} THEN [s |-> q, i |-> Min(hit)]
       ELSE IF here THEN [s |-> q2, i |-> i]
       ELSE [s |-> IF q.runlevel # "norm" THEN [q2 EXCEPT !.errno = "ENOENT"] ELSE q2,
             i |-> 0]

Unreferenced_first(c, bin) ==
    [i \in DOMAIN c |-> IF bin[1] = i THEN [c[i] EXCEPT !.numref = @ - 1] ELSE c[i]]

Unreferenced(c, bin) ==
    [i \in DOMAIN c |->
        [c[i] EXCEPT !.numref = @ - Cardinality({k \in DOMAIN bin : bin[k] = i})]]

Swept_cut(c) ==
    LET clean == [i \in DOMAIN c |-> IF c[i].numref = 0 THEN NoEntry ELSE c[i]]
        gone  == {i \in DOMAIN c : c[i].numref = 0}
    IN IF gone = {} THEN clean ELSE SubSeq(clean, 1, Min(gone))

\* places nobody refers to become empty, and all but one of the empty places at
\* the end are given back
Swept(c) ==
    LET clean == [i \in DOMAIN c |-> IF c[i].numref = 0 THEN NoEntry ELSE c[i]]
        used  == {i \in DOMAIN c : c[i].numref # 0}
        top   == IF used = {} THEN 0 ELSE Max(used)
    IN SubSeq(clean, 1, IF top < Len(c) THEN top + 1 ELSE top)

elf_unload(q, bin) ==
    IF bin = <<>> \/ q.cache = <<>> THEN q
    ELSE [q EXCEPT !.cache = Swept(Unreferenced(q.cache, bin))]

-----------------------------------------------------------------------------
(* elf_load works in the buffer of the task.  c is elfctx: the next free   *)
(* address, the files loaded (as places of the cache) and the list of the  *)
(* entry points, which is reordered on its own.  The result of a library   *)
(* is not looked at.                                                       *)

NoCtx == [next |-> TEXT, bin |-> <<>>, entry |-> <<>>, extra |-> FALSE]

ToTheEnd(e, i) == RemoveAt(e, i) \o <<e[i]>>

\* an ELF that is loaded already moves to the end of the list of entries
Again(c, i) ==
    LET k == CHOOSE h \in DOMAIN c.bin : c.bin[h] = i IN
    IF k > 1 /\ k < Len(c.bin) THEN [c EXCEPT !.entry = ToTheEnd(@, k)] ELSE c

\* the code shared, the data copied, and the extra buffer behind the first one
LoadSegments(q, c, t, i, extra) ==
    LET F   == Files[q.cache[i].fn]
        end == c.next + F.text + F.data
        code == [vmm_maptext(q, t, BUF + c.next, F.text).s EXCEPT !.cache[i].numref = @ + 1]
        data == vmm_map(code, t, BUF + c.next + F.text, F.data, NoPage, TRUE).s
        more == extra /\ ~c.extra
    IN [s |-> IF more THEN vmm_map(data, t, BUF + end, 1, Outside, FALSE).s ELSE data,
        c |-> [c EXCEPT !.next = IF more THEN end + 1 ELSE end, !.bin = Append(@, i),
                        !.entry = Append(@, q.cache[i].fn), !.extra = @ \/ extra]]

MaxReent == 3

NotLoaded(q, c, e) ==
    [s |-> IF q.errno = "ok" THEN [q EXCEPT !.errno = e] ELSE q, c |-> c, ok |-> FALSE]

RECURSIVE LoadFile(_, _, _, _, _, _)
RECURSIVE LoadNeeded(_, _, _, _, _)
elf_load(q, c, t, fn, extra, reent) ==
    IF reent > MaxReent THEN [s |-> [q EXCEPT !.errno = "EINVAL"], c |-> c, ok |-> FALSE]
    ELSE LoadFile(elf_getfile(q, fn), c, t, fn, extra, reent)

\* r is what elf_getfile answered
LoadFile(r, c, t, fn, extra, reent) ==
    IF r.s.errno # "ok" \/ r.i = 0 THEN NotLoaded(r.s, c, "EINVAL")
    ELSE IF ~r.s.cache[r.i].data THEN NotLoaded(r.s, c, "EINVAL")
    ELSE IF r.i \in Range(c.bin) THEN [s |-> r.s, c |-> Again(c, r.i), ok |-> TRUE]
    ELSE IF Files[fn].type = "other" THEN [s |-> [r.s EXCEPT !.errno = "ENOEXEC"], c |-> c, ok |-> FALSE]
    ELSE LET l == LoadSegments(r.s, c, t, r.i, extra)
         IN [LoadNeeded(l.s, l.c, t, Files[fn].needs, reent + 1) EXCEPT !.ok = TRUE]

LoadNeeded(q, c, t, needs, reent) ==
    IF needs = <<>> THEN [s |-> q, c |-> c, ok |-> TRUE]
    ELSE LET r == elf_load(q, c, t, Head(needs), FALSE, reent)
         IN LoadNeeded(r.s, r.c, t, Tail(needs), reent)

(* elf_rtlink: the first file is a program and the others are libraries,   *)
(* every symbol that is asked for is exported by a file; the libraries are *)
(* put on the stack, from where the program starts the last one first.     *)
elf_rtlink(q, c, t) ==
    LET File(k) == Files[q.cache[c.bin[k]].fn]
        all     == DOMAIN c.bin
        typed   == all # {} /\ \A k \in all : File(k).type = IF k = 1 THEN "exec" ELSE "dyn"
        exports == UNION {File(k).exports : k \in all}
        linked  == \A k \in all : File(k).imports \subseteq exports
    IN IF typed /\ linked
       THEN [s |-> [q EXCEPT !.errno = "ok", !.task[t].start = Reverse(Tail(c.entry))],
             ok |-> TRUE]
       ELSE IF typed /\ q.runlevel = "boot"
       THEN [s |-> [q EXCEPT !.panic = TRUE], ok |-> FALSE]
       ELSE [s |-> [q EXCEPT !.errno = "ERTEXEC"], ok |-> FALSE]

-----------------------------------------------------------------------------
(* Tasks                                                                   *)

\* task_new: on the CPU that was fixed, or on the one with the fewest tasks
task_new(q, t, prio) ==
    LET least == Min({i \in Cpus : \A h \in Cpus : q.numtasks[i] <= q.numtasks[h]})
        cpu   == IF q.nextcpu = NumCores THEN least ELSE q.nextcpu
        q2    == vmm_new(q, t)
    IN [q2 EXCEPT !.nextcpu = cpu, !.numtasks[cpu] = @ + 1,
                  !.task[t].cpu = cpu, !.task[t].prio = prio]

task_del(q, t) ==
    LET q2 == [q EXCEPT !.numtasks[q.task[t].cpu] = @ - 1]
        q3 == elf_unload(q2, q.task[t].bin)
    IN [vmm_del(q3, t) EXCEPT !.task[t].sched = FALSE, !.task[t].bin = <<>>,
                              !.task[t].start = <<>>, !.task[t].pid = None,
                              !.task[t].root = <<None, None>>]

\* task_execinit: the stack, the page of the loader and the TCB in the buffer,
\* and the first page of the heap; what vmm_map answers is not looked at
ExecBuffer(q, t, tcb) ==
    LET stack == vmm_map(vmm_free(q, t, BUF, DYN), t, BUF + TEXT - 1, 1, NoPage, TRUE).s
        ldr   == vmm_map(stack, t, BUF + 1, 1, NoPage, TRUE).s
        own   == vmm_map(ldr, t, BUF, 1, tcb, FALSE).s
    IN vmm_map(own, t, DYN, 1, NoPage, TRUE).s

ExecInit(r, t) ==
    IF r.i # 0 /\ r.s.cache[r.i].data /\ ~(r.s.task[t].prio = "drv" /\ r.s.cache[r.i].numref # 0)
    THEN [s |-> ExecBuffer(r.s, t, [f |-> r.s.task[t].pid, sh |-> TRUE]), ok |-> TRUE]
    ELSE [s |-> r.s, ok |-> FALSE]

task_execinit(q, t, fn) == ExecInit(elf_getfile([q EXCEPT !.errno = "ok"], fn), t)

\* task_execfini: the new code takes the place of the old one, or is dropped
task_execfini(q, c, t) ==
    LET good == vmm_swaptextbuf([elf_unload(q, q.task[t].bin) EXCEPT
                                    !.task[t].bin = c.bin, !.nextcpu = NumCores], t)
    IN IF q.errno = "ok" THEN [s |-> vmm_free(good, t, BUF, DYN), ok |-> TRUE]
       ELSE [s |-> vmm_free(elf_unload(q, c.bin), t, BUF, DYN), ok |-> FALSE]

-----------------------------------------------------------------------------
(* Drivers and services                                                    *)

\* the MMIO regions one behind the other from v, counted in half pages: the
\* next one starts where the last one ends, rounded to nothing
RECURSIVE MapDrvMem(_, _, _, _)
MapDrvMem(q, t, sizes, v) ==
    IF sizes = <<>> THEN q
    ELSE MapDrvMem(vmm_map(q, t, v \div 2, (Head(sizes) + 1) \div 2, Outside, FALSE).s,
                   t, Tail(sizes), v + Head(sizes))

\* each step of drivers_add goes on where the one before it succeeded
DriverRuns(q, t) ==
    [MapDrvMem(IF DevSize = 0 THEN q ELSE vmm_map(q, t, BUF, DevSize, Outside, FALSE).s,
               t, DrvMem, 2 * (BUF + DevSize)) EXCEPT !.task[t].sched = TRUE]
DriverLinked(k, c, t) ==
    IF k.ok THEN DriverRuns(task_execfini(k.s, c, t).s, t) ELSE task_del(elf_unload(k.s, c.bin), t)
DriverLoaded(l, t) ==
    IF l.ok THEN DriverLinked(elf_rtlink(l.s, l.c, t), l.c, t) ELSE task_del(elf_unload(l.s, l.c.bin), t)
DriverBase(d, t, fn) ==
    IF d.ok THEN DriverLoaded(elf_load(d.s, d.c, t, fn, FALSE, 0), t) ELSE [d.s EXCEPT !.panic = TRUE]
DriverTask(i, t, fn) ==
    IF i.ok THEN DriverBase(elf_load(i.s, NoCtx, t, Dispatcher, TRUE, 0), t, fn) ELSE task_del(i.s, t)

drivers_add(q, t, fn) ==
    IF fn \in Displays
    THEN [task_new(q, t, "drv") EXCEPT !.display = IF @ = NoFile THEN fn ELSE @]
    ELSE DriverTask(task_execinit(task_new(q, t, "drv"), t, fn), t, fn)

\* the drivers of a service: one that cannot be loaded is only logged
RECURSIVE LoadDrivers(_, _, _, _)
LoadDrivers(q, c, t, names) ==
    IF names = <<>> THEN [s |-> q, c |-> c]
    ELSE LET r == elf_load(q, c, t, Head(names), FALSE, 0)
         IN LoadDrivers(IF r.ok THEN r.s ELSE [r.s EXCEPT !.errno = "ok"],
                        r.c, t, Tail(names))

\* service_add(SRV_FS, ...): without it the system stops
FsRuns(f, t) ==
    IF f.ok THEN [vmm_map(f.s, t, BUF, Slot, Outside, TRUE).s EXCEPT !.task[t].sched = TRUE, !.fs = t]
    ELSE [f.s EXCEPT !.panic = TRUE]
FsLinked(k, c, t) == IF k.ok THEN FsRuns(task_execfini(k.s, c, t), t) ELSE [k.s EXCEPT !.panic = TRUE]
FsWithDrivers(d, t) == FsLinked(elf_rtlink(d.s, d.c, t), d.c, t)
FsLoaded(l, t) ==
    IF l.ok THEN FsWithDrivers(LoadDrivers(l.s, l.c, t, FsDrivers), t) ELSE [l.s EXCEPT !.panic = TRUE]
FsTaskInit(i, t) ==
    IF i.ok THEN FsLoaded(elf_load(i.s, NoCtx, t, FsFile, TRUE, 0), t) ELSE [i.s EXCEPT !.panic = TRUE]

service_add(q, t) == FsTaskInit(task_execinit(task_new(q, t, "srv"), t, FsFile), t)

-----------------------------------------------------------------------------
(* Actions                                                                 *)

Unused  == {t \in Tid : ~s.task[t].live}
Running == {t \in Tid : s.task[t].live /\ s.task[t].sched}
Works   == ~s.panic /\ ~s.clobbered /\ s.steps < MaxSteps

\* a panic stops the machine in the middle of the call, and what a core does
\* that has written over memory is not followed any further
Step(q) == s' = [IF q.panic \/ q.clobbered
                 THEN [s EXCEPT !.panic = q.panic, !.clobbered = q.clobbered]
                 ELSE q EXCEPT !.steps = s.steps + 1]
Quiet   == last' = [op |-> "none", t |-> 0, b |-> 0, n |-> 0]

\* drivers_init: the FS service first, then the drivers of the table
BootFs ==
    /\ Works /\ s.runlevel = "boot" /\ s.fs = 0
    /\ Step(service_add(s, Min(Unused))) /\ Quiet

BootDriver(fn) ==
    /\ Works /\ s.runlevel = "boot" /\ s.fs # 0 /\ Unused # {}
    /\ Step(drivers_add(s, Min(Unused), fn)) /\ Quiet

\* drivers_init and drivers_ready raise the run level
Raise ==
    /\ Works /\ s.fs # 0
    /\ \/ s.runlevel = "boot" /\ Step([s EXCEPT !.runlevel = "coop"])
       \/ s.runlevel = "coop" /\ Step([s EXCEPT !.runlevel = "norm"])
    /\ Quiet

\* SYS_drvadd of a driver that found a device
SYS_drvadd(t, fn) ==
    /\ Works /\ s.runlevel # "boot" /\ Unused # {}
    /\ t \in Running /\ s.task[t].prio = "drv"
    /\ Step(drivers_add([s EXCEPT !.errno = "ok"], Min(Unused), fn)) /\ Quiet

SYS_memmap(t, b, n) ==
    /\ Works /\ s.runlevel # "boot" /\ t \in Running
    /\ Step(vmm_map([s EXCEPT !.errno = "ok"], t, b, n, NoPage, TRUE).s)
    /\ last' = [op |-> "map", t |-> t, b |-> b, n |-> n]

SYS_memunmap(t, b, n) ==
    /\ Works /\ s.runlevel # "boot" /\ t \in Running
    /\ Step(vmm_free([s EXCEPT !.errno = "ok"], t, b, n))
    /\ last' = [op |-> "free", t |-> t, b |-> b, n |-> n]

\* fault_pagefault maps the page that was touched
PageFault(t, b) ==
    /\ Works /\ s.runlevel # "boot" /\ t \in Running
    /\ ~Present(s.task[t].p[b]) /\ s.task[t].m[SlotOf(b)].k \in {"none", "table"}
    /\ (1 < b /\ b < TEXT) \/ (DYN <= b /\ b < BUF)
    /\ Step(vmm_map(s, t, b, 1, NoPage, TRUE).s) /\ Quiet

SYS_exit(t) ==
    /\ Works /\ s.runlevel # "boot" /\ t \in Running
    /\ Step(IF t = s.fs THEN [s EXCEPT !.panic = TRUE] ELSE task_del(s, t)) /\ Quiet

Init ==
    /\ \E ram \in FrameSets :
       s = [ram |-> ram, free |-> ram, task |-> [t \in Tid |-> NoTask], cache |-> <<>>,
            errno |-> "ok", nextcpu |-> 0, numtasks |-> [i \in Cpus |-> 0],
            runlevel |-> "boot", panic |-> FALSE, clobbered |-> FALSE,
            display |-> NoFile, fs |-> 0, steps |-> 0]
    /\ last = [op |-> "none", t |-> 0, b |-> 0, n |-> 0]

Next ==
    \/ BootFs
    \/ Raise
    \/ \E fn \in Names : BootDriver(fn)
    \/ \E t \in Tid :
        \/ \E fn \in Names : SYS_drvadd(t, fn)
        \/ \E r \in MapRanges : SYS_memmap(t, r[1], r[2])
        \/ \E r \in FreeRanges : SYS_memunmap(t, r[1], r[2])
        \/ \E b \in FaultPages : PageFault(t, b)
        \/ SYS_exit(t)

Spec == Init /\ [][Next]_vars

-----------------------------------------------------------------------------
Live == {t \in Tid : s.task[t].live}


\* where the frames of a task are: <<task, kind, index, frame>>
Places(t) ==
    LET T == s.task[t] IN
    {<<t, "root", i, T.root[i]>> : i \in 1..2}
    \cup {<<t, "giga", i, T.g[i]>> : i \in {h \in Gigas : T.g[h] # None}}
    \cup {<<t, "table", j, T.m[j].f>> : j \in {h \in Slots : T.m[h].k = "table"}}
    \cup UNION {{<<t, "block", j, T.m[j].f + i>> : i \in 0 .. Slot - 1} :
                    j \in {h \in Slots : T.m[h].k = "slot"}}
    \cup {<<t, "page", b, T.p[b].f>> : b \in {h \in Pages : T.p[h].f # None /\ ~T.p[h].sh}}

Shared(t) ==
    LET T == s.task[t] IN
    Cardinality({b \in Pages : T.p[b].sh})
    + Slot * Cardinality({j \in Slots : T.m[j].k = "shared"})

\* Types of the state of the core, and of the cache of ELF files in particular.
TypeOK ==
    /\ s.free \subseteq s.ram
    /\ \A i \in DOMAIN s.cache : s.cache[i].numref \in Nat
    /\ \A t \in Tid : s.task[t].alloc \in Nat /\ s.task[t].link \in Nat
    /\ \A t \in Live : s.task[t].p[0] = [f |-> s.task[t].pid, sh |-> FALSE]
    /\ s.nextcpu \in 0 .. NumCores
    /\ \A i \in Cpus : s.numtasks[i] = Cardinality({t \in Live : s.task[t].cpu = i})

\* A frame is free or it is in one place of one task, through every exec, exit,
\* mapping and unmapping (vmm.c): none is lost and none is in two places.
FramesOnce ==
    LET all == UNION {Places(t) : t \in Live} IN
    \A f \in s.ram :
        Cardinality({x \in all : x[4] = f}) = IF f \in s.free THEN 0 ELSE 1

\* allocmem and linkmem are what the task really holds, which is what makes the
\* check of vmm_del for lost memory hold (vmm.c, the memleak panic).
Accounts ==
    \A t \in Live : /\ s.task[t].alloc = Cardinality(Places(t))
                    /\ s.task[t].link = Shared(t)

\* No page of a task, the shared mapping of its TCB included, leads to a frame
\* that was given back (vmm_swaptextbuf, vmm_free).
NoDangling ==
    \A t \in Live : \A b \in Pages : s.task[t].p[b].f \notin s.free

\* numref of a place of the cache is the number of tasks whose program uses it,
\* and the file of a running program is not dropped (elf_load, elf_unload).
RefsExact ==
    \A i \in DOMAIN s.cache :
        LET users == {t \in Live : i \in Range(s.task[t].bin)} IN
        /\ s.cache[i].numref = Cardinality(users)
        /\ users # {} => s.cache[i].data

\* Every file a running program is made of is in the cache.
FilesCached == \A t \in Live : Range(s.task[t].bin) \subseteq DOMAIN s.cache

Before(q, a, b) ==
    \E i, j \in DOMAIN q : i < j /\ q[i] = a /\ q[j] = b

\* A library is started before the libraries that need it, which is what moving
\* its entry to the end of the list is for (elf.c, elf_load).
InitOrder ==
    \A t \in Running : LET q == s.task[t].start IN
        \A a, b \in Range(q) :
            (b # a /\ b \in Range(Files[a].needs) /\ a \notin Range(Files[b].needs))
                => Before(q, b, a)

\* A task that exists is known to the scheduler once its creation is over: for a
\* video card "no separate task is created" (the comment in drivers_add).
Scheduled == ~s.panic => \A t \in Live : s.task[t].sched

\* A driver sees every MMIO region (drivers_add maps them one by one).
MmioMapped ==
    ~s.panic => \A t \in Running : s.task[t].prio = "drv" =>
        Cardinality({b \in Pages : b >= BUF /\ s.task[t].p[b] = Outside})
            >= DevSize + FoldSeq(LAMBDA x, n : n + (x + 1) \div 2, 0, DrvMem)

\* vmm_free "ends the mapping in the virtual address space and frees the
\* physical RAM that belongs to it": nothing of the range is mapped after it.
Unmaps ==
    last.op = "free" =>
        \A b \in last.b .. last.b + last.n - 1 :
            /\ ~Present(s.task[last.t].p[b])
            /\ s.task[last.t].m[SlotOf(b)].k \in {"none", "table"}

\* vmm_map never writes its entries into a block of 2M.
NotClobbered == ~s.clobbered

\* A file that is on the initrd can be loaded during boot whatever was loaded and
\* unloaded before it (elf_getfile).
CanBeFound ==
    s.runlevel # "norm" => \A fn \in DOMAIN Files :
        LET r == elf_getfile(s, fn) IN r.i # 0 /\ r.s.cache[r.i].fn = fn
=============================================================================
