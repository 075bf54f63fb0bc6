# A TLA+ model of OS/Z

OS/Z is a micro-kernel: a supervisor called `core`, tasks that see nothing of
each other, message queues between them, a file system task and drivers in user
space, a libc that turns calls into messages, and a tool that makes the images
the system boots from. These modules model the parts of it that keep state,
check on small instances what makes them correct, and prove for every instance
what can be proved of the physical memory manager, the message queues, the lists
of the scheduler, the end of the boot with the interrupts, the block cache, and
the pipes and open files of the file system task.

Paths below are relative to `src/` of the repository unless they begin with
`tools/` or `include/`.

## Inventory

| component | state | operations | talks to |
|---|---|---|---|
| physical memory `core/pmm.c` | table of free fragments, counters of free and of all pages, a lock in bit 63 of the latter, pages charged to each task | `pmm_init`, `pmm_alloc`, `pmm_allocslot`, `pmm_free` | called by everything that needs pages, on any core |
| message queues `core/msg.c` | per task: ring of slots, its pages, a serial number, a chain of blocked senders | `msg_send`, `msg_recv`, `msg_notify` | system calls and interrupts; wakes and blocks tasks; allocates pages |
| message calls of libc `libc/*/stdlib.S`, `libc/dispatch.c` | the message a task is working on | `mq_send`, `mq_call`, `mq_recv`, `mq_dispatch` | system calls |
| scheduler `core/sched.c` | per core: list and cursor of each priority level, list of blocked tasks, queue of sleeping ones, the timer | `sched_add`, `sched_remove`, `sched_awake`, `sched_block`, `sched_delay`, `sched_pick`, `sched_intr` | queues, system calls, interrupts |
| system calls `core/msgcore.c`, `platform.S` | none of its own | `SYS_exit`, `SYS_usleep`, `SYS_yield`, `SYS_regirq`, `EVT_ack`, ... | scheduler, memory, interrupts |
| interrupts and clock `core/drivers.c`, `core/clock.c` | routing table, masked lines, the boot barrier, the wall clock | `drivers_init`, `drivers_ready`, `drivers_intr`, `drivers_regintr`, `drivers_unregintr`, `clock_intr` | queues, scheduler, drivers |
| virtual memory `core/vmm.c`, `core/x86_64/vmm.c` | page tables, pages charged to a task | `vmm_map`, `vmm_maptext`, `vmm_swaptextbuf`, `vmm_free`, `vmm_new`, `vmm_del` | physical memory |
| tasks `core/task.c` | task control blocks | `task_new`, `task_del`, `task_execinit`, `task_execfini` | virtual memory, ELF loader |
| ELF loader `core/elf.c` | cache of files with references, list of entry points | `elf_load`, `elf_unload`, `elf_rtlink`, ... | initial ramdisk, virtual memory |
| loading of drivers and services `core/drivers.c` | drivers found | `drivers_add`, `service_add` | tasks, ELF loader |
| security `core/security.c` | access lists in the task control block | `msg_allowed`, `task_allowed` | queues |
| file system task `fs/` | slots of open files, pipes, devices, mounts, a context per client, requests put aside | a message loop, one handler per request | queues, drivers, block cache |
| block cache `fs/cache.c` | lines of blocks with dirty priorities, number of writes on their way | `cache_getblock`, `cache_setblock`, `cache_flush`, `cache_cleardirty`, `cache_free` | drivers of disks |
| `libc/bztalloc.c` | table of chunks with bitmaps, a lock | `bzt_alloc`, `bzt_free` | virtual memory |
| `libc/stdio.c` | a message per call | `fopen`, `fread`, `dup2`, `pipe`, ... | file system task |
| strings, sorting, formatted text in libc and core | none | `strtok`, `qsort`, `sprintf`, ... | |
| user space drivers `drivers/` | devices | a message loop | queues, interrupts |
| environment `core/env.c` | switches, limits and the boot time | `env_init`, `env_asktime`, `env_getts` | console, clock |
| console `core/kprintf.c` | cursor, rows since the last wait | `kprintf`, `kprintf_scrollscr`, `kpanic`, ... | keyboard |
| language files `core/lang.c` | strings | `lang_init` | initial ramdisk |
| initial ramdisk reader `core/fs.c` | none | `fs_locate` | the image |
| FS/Z driver `drivers/fs/fsz/main.c` | none beside the cache | `detect`, `locate`, `stat`, `read`, `getdirent`, `resizefs`, `allocateblock` | block cache |
| image tool `tools/mkfs.c` | an image in memory | files, directories, links, unions, disks, option ROM | the three readers above |
| boot log, debugger, fault report, boot loader, other tools | | parsing and printing | |

What is hard. Several cores share the fragment table and its counters. A system
call runs with interrupts off, but a task makes several of them to do one thing:
`mq_call` sends and then receives, a service receives, works and then reads the
message again to answer it. Queues fill up, wrap around and have answers taken
out of their middle. A task may leave a list of the scheduler at any time, by
blocking, sleeping, exiting or being woken, while cursors and neighbours refer
to it. The cores meet at the end of the boot under a lock, while drivers ask for
interrupt lines. Memory may run out in the middle of loading a program. Slots of
the file system task are shared by descriptors, directories and mounts through
counting, and are cut while they are used. Answers of disks come late and in any
order. The list `hazards` in `PROJECT.json` names each such place by its line.

What makes each part correct:

* memory: no page is used twice, none is lost, the counters agree, the lock is given back;
* queues: nothing is lost or invented, messages come in order, answers go to the
  call they answer, nobody sleeps over a message, a blocked sender is woken;
* scheduler: every task is in the list its state says, every task that can run
  does so in its share of the time, alarms wake the right task at the right time;
* interrupts: no core is left at the barrier, no line opens before it may, every
  request of a device reaches its driver;
* address spaces and tasks: a frame is free or in one place, no mapping outlives
  its frame, accounts and references are exact, libraries start in order;
* file system task: a descriptor leads to the file it was opened for, a slot is
  not freed while somebody uses it, pipes keep the order of bytes, nobody waits for
  data that is there;
* block cache: one copy of a block, soft updates in order, no newer version
  replaced by an older one;
* heap: blocks do not overlap, are mapped and given back;
* algorithms: what the header files promise; what the tool wrote the readers find.

## The modules

| module | models |
|---|---|
| `Pmm` | `core/pmm.c` for any number of cores |
| `PmmProofs` | its theorems |
| `Mailbox` | abstract: what a message queue promises |
| `MsgQueue` | `core/msg.c`, the message calls of libc and the loop of a service; implements `Mailbox` |
| `MsgQueueProofs` | its theorems |
| `Sched` | `core/sched.c` for one core, with the system calls and interrupts that use it |
| `SchedProofs` | its theorems |
| `Induction` | induction over the natural numbers, for the proofs about recursive functions |
| `Security` | `core/security.c`, as operators |
| `Irq` | barrier of the boot, routing and masking of interrupts, the loop of a driver, the clock; extends `Security` |
| `IrqProofs` | its theorems |
| `Vmm` | address spaces, as operators |
| `Loader` | tasks, ELF cache and linker, loading of drivers and services; extends `Vmm` |
| `FsTable` | `fs/fcb.c`, `pipe.c`, `taskctx.c`, `devfs.c`, `mtab.c`, as operators |
| `FsTask` | `fs/main.c` and `vfs.c`: the loop and its handlers; extends `FsTable` |
| `Stdio` | `libc/stdio.c` in the clients, composed with `FsTask` |
| `FsTaskProofs` | theorems about `FsTask`: its pipes, and its references (descriptors, directories of tasks, mounts) |
| `FsCache` | `fs/cache.c` with the messages to and from the drivers of disks |
| `FsCacheProofs` | its theorems |
| `Bztalloc` | `libc/bztalloc.c` |
| `BztallocProofs` | its theorems |
| `Job` | a call of a function whose result depends on its arguments only |
| `CString`, `Libc` | strings; sorting, searching, numbers and the other algorithms of libc |
| `Mkfs` | `tools/mkfs.c` |
| `FsZ` | the readers of its images: `core/fs.c`, `drivers/fs/fsz/main.c`, `core/lang.c` |
| `Printf`, `Console` | formatted text of core and libc; the console |
| `Env` | `core/env.c` |
| `Calls` | a program that uses the heap or makes one of those calls; composes `Bztalloc` and the modules of algorithms |
| `MC...` | the instances for TLC |

A definition whose name ends in an underscore and a word (`TakeFront_keepsbase`)
is a plausible fault in the definition after it. `PROJECT.json` says which
property each one breaks; nothing else uses them.

### Pmm

Addresses and sizes count pages. The table is `pmm_entries`, a sequence of
fragments. A call runs in steps (`pc`), split wherever another core can see or
change something: taking the lock, the scan, the update, the load and the store
of each counter, the release. `idx` is the loop variable that lives from the
scan to the update. The lock is bit 63 of `pmm_totalpages`, so `TotalRead`, what
the unlocked check at the head of `pmm_alloc` reads, is huge while the lock is
held. `held` is the memory the callers have. A panic stops the machine. The
zeroing of pages and the entropy pool are left out.

### MsgQueue and Mailbox

One system call is one step. `mq_start` and `mq_end` are 0 in a fresh queue;
slot 0 is the header. `present` are the mapped pages. `blksend` is the chain of
senders blocked on a full queue, threaded through the task control blocks as in
the code, where one field is both the head of a task's own chain and its link in
the chain of another. A blocked sender resumes behind its system call with the
registers it made the call with (`platform.S` has no other result for it), which
`Resume` models. `Answer` says how a service answers; the sources have three
ways, see `Dispatch`. `id`, `copy`, `callee`, `undelivered` and `sent` are
history variables that no guard but the bounds reads.

`Mailbox` knows only a set of waiting messages: a message sent appears in the
box of its addressee, and is taken first come first served, or by its serial.

Left out: buffers (`MSG_PTRDATA`), tracing, a message to oneself (`EBUSY`),
`msg_allowed`, an addressee that does not exist, a failing `pmm_alloc`.

### Sched

The functions of `sched.c` call each other, so each is an operator from a state
of the scheduler to the next one, and an action is a system call or an interrupt
with everything it calls. The lists are threaded through `prev` and `next` as in
the code. The search of `sched_pick` over the levels is `Stops`, `Rewind` and
`Take`: levels in front of the first one that is in the middle of a round begin
a new one. `AwakeVia` has the task and the task control block the pointer refers
to after the mapping of `LDYN_tcbalarm` has changed. `Wild` is page 0 taken for
a task control block. `OneShot` tells the timer of ibmpc, which fires once, from
that of the Raspberry Pi, which is level triggered. `left` and `waited` are
history variables.

Left out: accounting, several cores, `sched_migrate` and `sched_hybernate`
(nothing calls them).

### Irq

Each core runs its own way through the boot: it is counted, waits for the lock
of the console, loads and stores `numinit`, releases the lock, and waits until
the first core sets the run level. A driver makes the calls of its `drv_init`
and then receives. A line is open, masked, or latched: a device that asks while
its line is masked is remembered by the controller. `Calls`, `Later` and `Late`
choose what drivers do and which cores come late; `Task` are the other tasks of
the system calls whose permission `Security` decides. `SYS_drvadd` starts a driver
of `Later` once: a second task for the same device would be another driver.

### Vmm and Loader

A table has `Slot` pages and a table of tables `Giga` pages, so that a program of
a few pages crosses both. An address space keeps the frames of its tables, so
the frames that are lost or used twice can be seen. One operation of the core is
one step, with every page it allocates on the way and what it leaves behind when
`pmm_alloc` has nothing more. `FrameSets` are the sizes of memory. An ELF file is
what the loader reads of it: sizes, needed libraries, imported and exported
symbols. The relocations themselves, the registers of the MMU and the tables of
the core are left out.

### FsTable, FsTask and Stdio

The file system task handles one message to its end, so a handler is one step;
what it cannot answer it keeps in the context of the sender. The functions of the
tables are operators on the state `s`, with result and error left in it. The
arrays `fcb` and `pipe` are functions, and only their lengths move, because a
`realloc` within one quantum leaves the memory where it is. A client is in one
call at a time and makes the requests of it one after the other. `Loads` are the
workloads: what was opened before, what each task may ask for, who may exit,
whether memory may run low, which devices and mounts come and go.

The driver of the root file system has no write function, and its read function
is called with two arguments in each other's place (`taskctx.c:497`), so no file
is ever read or written beyond the checks; the write buffers and the lists of
unions are never reached and are left out.

The loops of the code over descriptors, mounts, files and devices (`CloseAll`,
`LetGo`, `EmptyAll`, `DropDevices`), the walk over links and unions of `lookup`
(`Walk`) and the requests before the first state (`Booted`) are recursive functions
over the steps made. Kept as the code has them: `fclrerr` clears only bits that
nobody sets; `getty` leaves a task without its terminal when closing a descriptor
left an error; the loop of `devfs_del` over the mounts passes over the one behind a
mount it took out; a driver that exits after one of its devices was removed makes
the task read `fcb[-1U]`.

### FsCache

A line is a sequence of blocks, the one used last first. The blocks to be read are
a set, so a driver may serve them in any order and at any time between the writes;
writes and the two kinds of answers are sequences, as messages between two tasks
are. What `cache_flush` sends is written as an enumeration: the set of the dirty
blocks, in the order in which the three nested loops come to them (`Sooner`).
Likewise `cache_freeblocks` is the set of lines its loop reaches with what is kept
of each. `knot` is the head of a line that points to itself. The drivers' side and
the disk are external.

### Bztalloc, Calls and the algorithms

`Calls` is one program: it works with the heap, any number of calls one after the
other, or makes one `Job`: asks for something and gets a result, which the
properties compare with what is promised. Heap sizes count the smallest quantum;
a chunk has 8 units instead of 512, a page 8 quanta, a table 3 chunks. `Power` is
the doubling of the loop that finds the quantum; it is a function and not `2^i`
because the provers know nothing of powers.

`LibcRight` covers what its six parts name: sorting and searching arrays, `memcpy`,
`memset`, `memchr`, the copies and lengths of texts, `strcmp` and `strcasecmp` of texts
that are not empty, tokens with `strtok_r` and `strsep`, numbers and `atexit`; of the
searches in texts, that what they find is there. The other functions of `string.c`
are modelled too, but each breaks its header; they have properties of their own,
which fail and are listed below.

A string is what a pointer points to, the bytes after the terminator included. An
image is a sequence of sectors with inodes, sector directories and file data
counted in units; a sector holds 4 of them and an inode 2, so that files
of up to ten units need every form `add_file` has. The console is a screen of a few
rows with the keys that will be pressed. The text of `/sys/config` is a sequence
in which a character is a number and the name of a key is one symbol.

## The runs

| run | checks | shows |
|---|---|---|
| `pmm_cores` | `TypeOK`, `NoDoubleUse`, `Coalesced`, `ScanStillValid`, `LockReleased` | two cores may call the three functions at the same time: no page is used twice, no stale index, neighbours are merged, the lock is always released |
| `msg_calls` | `MessageStable`, `CallAnswered` | calls of two clients to a service that is also notified are all answered; the message a service works on is not overwritten |
| `msg_async` | `NothingLost`, `AnswerMatches`, `InOrder` | mixed synchronous and asynchronous use with notifications in between: the queue implements `Mailbox` and each call gets its answer |
| `msg_full` | `SendersChained`, `NoSleepOnMessage` | three clients and a queue that is full all the time: a blocked sender stays on the chain, nobody sleeps over a message |
| `msg_fs` | `CallAnswered` (violated) | the answers of the file system do not carry the serial the caller waits for |
| `sched_lists` | `TasksInLists`, `CursorsValid`, `BoundedWait` | boot, blocking, waking, sleeping, exit and interrupts in any order: lists and cursors stay right and the shares of the levels are kept |
| `sched_turns` | `SharedFairly` | nobody starves once interrupts stop moving the cursors |
| `irq_boot` | `NothingMissed`, `OpenWhenReady`, `Booted`, `Served` | two cores boot while drivers ask for lines: all come through the barrier, lines open only then, every request of a device is served |
| `load` | `NoDangling`, `FramesOnce`, `Accounts`, `RefsExact` | drivers and services are loaded, linked, map and unmap memory and exit, with enough and with too little memory: every frame is free or in one place, accounts and references are exact |
| `fs_task` | `DescriptorKeepsFile`, `NopenCoversRefs`, `PipeInOrder`, `NoSleepOnData`, `StreamsOpen` | programs that use `stdio.c` and the task that serves them: files, directories, mounts, devices, pipes, terminals, exits and low memory |
| `fs_cache` | `OneCopy`, `FlushOrder`, `DiskForward` | reads, writes, flushes and the answers of two disks in any order |
| `libc` | `NoOverlap`, `HeldIsMapped`, `AllReturned`; `LibcRight`, `DisksRight`, `FilesFound`, `PrintedRight`, `ClockRight` | any sequence of `malloc`, `realloc` and `free` with a failing mapping; the algorithms of libc, of the console, of the environment and of the image tool with its readers on bounded inputs |

Bounds, and why they are enough.

* `Pmm`: slots of 2 pages and two areas, one of them not aligned, give every case
  of `pmm_allocslot` (slot at the front, in the middle, at the end, no slot). Four
  calls are the fewest that free a block between two free neighbours; two cores
  are the fewest that race. `WordSize` is far above the pages in use;
  the counters wrap below zero, as unsigned numbers do.
* `MsgQueue`: rings of 2 to 6 slots wrap several times within `MaxSent`
  messages. `msg_calls` has serial numbers up to 2, so they wrap as well. In
  `msg_calls` and `msg_async` `MaxPending` keeps the programs from filling a
  queue, because a full queue loses messages in this code
  (`MCMsgQueue_overflow.cfg`); in `msg_full` it does not.
* `Sched`: four tasks on three levels, a level with two tasks in the middle. One
  task sleeps at a time in `sched_lists`, because two sleepers corrupt the lists
  (see below). `MaxWait` is above the largest share.
* `Irq`: two cores are the fewest that meet; one driver has a line of its own, one
  asks for the line of the clock first and is refused, one is added later and
  finds no device. Two events of a device are the fewest of which one comes while
  the line is masked. A second has 4 microseconds and a minute 3 seconds, so the
  clock carries in 3 ticks.
* `Loader`: 2 pages to a table and 4 tables to the next one; programs cross both.
  One memory is large enough for everything and one runs out at every place.
  Seven operations load, run and exit two tasks that share a library.
* `FsTask`: a workload per group of handlers (files, directories, links and unions,
  mounts, devices, pipes, terminals, low memory), each with the fewest tasks that
  interfere. `MaxLinks` bounds a lookup, which in the code ends by itself only
  where links do not lead to each other.
* `FsCache`: two disks, two lines and two blocks: the blocks of two disks meet in
  a line. Three uses are the fewest that change a block between a flush and its
  acknowledgement; a line that was knotted (below) stops the task, so longer
  histories add little.
* `Calls`: six calls with three blocks at a time, sizes of one unit, of one page and
  of ALLOCSIZE; enough to fill a chunk, the table, and to give a chunk back. The
  arrays to sort are all short ones with two keys, and long ones that reach the
  median of nine. The images have every kind of entry, with names that begin other
  names. Formats, screens and dates are those at the ends of what is allowed.

Fairness. `Pmm`: a core inside a call goes on, since interrupts are off and the
lock is given back (weak fairness of each core; `LockReleased` needs no more).
`MsgQueue`: a task that can run does run, which is what `sched_turns` shows for
tasks of the same core. `Sched`: the timer is hardware and runs down once set;
a task of a level that is never preempted (drivers) waits for a message sooner
or later, as every driver loop does; `yield` and the system calls of other tasks
get no fairness: the timer alone has to be enough. `Irq`: each core goes on with
its own boot, each driver with its calls and its loop, and the controller delivers
a request of an open line; devices get no fairness, they need not ask.

## What the checks found

The finding in `PROJECT.json` is `msg_fs`. The configurations of this table give
counterexamples as well. They are kept because they show what the code does, and
will say so when it is corrected.

| configuration | property | the code |
|---|---|---|
| `MCMsgQueue_overflow.cfg` | `NothingLost` | `core/msg.c:186`: the sender that finds a queue full empties it |
| `MCMsgQueue_page.cfg` | `Mapped` | `core/msg.c:198-200`: an empty queue at an unmapped page is rewound with `mq_end` = 1 and the message in slot 1 |
| `MCSched_starve.cfg` | `NoStarvation` | `core/sched.c:209`: as long as interrupts for a level come, the levels below it may starve |
| `MCSched_alarm.cfg` | `AlarmWakes` | `core/sched.c:356`: with two sleepers the wrong one is woken and the right one lost |
| `MCSched_slice.cfg` | `SliceEnds` | `core/sched.c:387`: the one-shot timer is set only when the task changes; line 401 says a task is interrupted after the quantum at the latest |

The next ones need a passing configuration changed as said.

| change | property | the code |
|---|---|---|
| `MCPmm_cores` with `BootMap <- OneArea`, `BootTotal = 4`, `MaxCalls = 6` | `NeverInconsistent` | `core/pmm.c:232`: the free counter is updated outside the lock and can overtake the total |
| `MCPmm_cores` with one core | `NoPageLost` | `core/pmm.c:295-301`: when the slot ends where its fragment ends, the head that was cut off is removed instead of the empty tail |
| `MCMsgQueue_calls` with `Answer <- ToCore`, `MaxSent = 4` | `CallAnswered` | `libc/dispatch.c:100`: the mask removes the sender, the answer goes to the core |
| `MCMsgQueue_calls` with one client, `MQ_MAX = 4`, `USHRT_MAX = 3`, `MaxPending = 4`, `MaxSent = 6` | `NothingLost` | `core/msg.c:283`: `msg_notify` has no test for a full queue |
| `MCMsgQueue_async` with `Server = {s1, s2}` | `AnswerMatches` | `core/msg.c:243`: serials count per queue, so a client that has sent to one service and calls another may be given the answer of the first |
| `MCMsgQueue_full` with `Async = {c1}`, `MQ_MAX = 3`, `USHRT_MAX = 9`, `MaxPending = 9`, `MaxSent = 6` | `SendersChained` | `core/msg.c:188`: a task that blocks overwrites the head of its own chain |
| `MCSched_alarm` as it is | `TasksInLists` | `core/sched.c:291`: `sched_delay` sets no `prev`, so a sleeper behind the head cannot be taken out |
| `MCSched_alarm` with `Sleeper = {fs}`, `MaxSleepers = 1`, `Usec = {1, 5}` | `NotEarly` | `core/sched.c:91` counts the time asked for, `intr_nextsched` waits no longer than the quantum |
| the same | `SleepersOff` | `core/msgcore.c:125`: `SYS_usleep` returns to its caller, which goes on running |
| `MCIrq_boot` with `Calls <- Shared`, `Later = {}`, `Task <- NoTask` | `Subscribed` | `core/drivers.c:92`: the loop for the end of a list of handlers stops at the first used entry, the second driver of a line replaces the first |
| `MCIrq_boot` with `MaxTicks = 4` | `TicksInMicroseconds`, `ZoneShift` | `core/clock.c:55`: the step that is added to the microseconds is computed from 10^12; `core/msgcore.c:161`: the zone moves the seconds by microseconds |
| `MCIrq_boot` with `Task <- NoTask` | `Subscribed` | `core/drivers.c:125,137`: when a task exits the search ends at once with index 0, and the lists of all lines are freed, those of other tasks too |
| `MCIrq_boot` with `Calls <- Added`, `Later = {disk}`, `Task <- NoTask` | `Served` | a driver that is added after the boot asks for a line that nobody opens |
| `MCIrq_boot` with `Late = {ap}` | `Booted` | a core that counts itself after the first one is through waits for the run level COOP, which is over |
| `MCLoader_load` | `InitOrder` | `core/elf.c:194-202`: a library needed again is moved so that it starts before what it needs |
| `MCLoader_load` with `MapRanges <- Inside`, `MaxSteps = 6` | `NotClobbered` | `core/vmm.c:149,175`: a page mapped inside a block of 2M is entered into the block as if it were a table |
| `MCLoader_load` with `MaxSteps = 8` | `CanBeFound` | `core/elf.c:72-78`: with two empty places the name asked for is compared with the one the second has not |
| `MCLoader_load` with `FreeRanges <- Across` | `Unmaps` | `core/vmm.c:320-333`: a missing table is skipped by its full size from where the range began, and the beginning of the next one with it |
| `MCLoader_load` with `DrvMem <- Halves` | `MmioMapped` | `core/drivers.c:213`: the next region is mapped behind the size, not behind the pages, of the one before, and over its last page |
| `MCLoader_load` | `Scheduled` | `core/drivers.c:174,183-189`: the task is made before it is known that a display driver gets none; it stays in no list |
| `MCStdio_task` with `Loads <- OnlyUnplug` | `NeverHangs` | `fs/fcb.c:142`: `fcb_free` starts again as long as it finds a slot nobody has open, and `fcb_del` does not always take it away: the loop does not end |
| `MCStdio_task` with `Loads <- OnlyQuestions` | `ErrorReported` | `libc/*/stdlib.S`: `mq_call` does not copy the error of an answer to `errno`; the caller sees no failure |
| `MCStdio_task` with `Loads <- OnlyDirs`, `Pulled`, `OnlyLists`, `OnlyTalk` | `WorkdirKept`, `DescriptorKeepsFile`, `OpendirOnce`, `FgetcInBuffer` | `fs/main.c:286`: `chdir` frees the old directory before it counts the new one, which may be the same; a driver that exits leaves the descriptors of its devices; `libc/stdio.c:486`: `opendir` asks again after every directory; `libc/stdio.c:319`: the bound is tested after the fifth byte was read |
| `MCFsCache_cache` | `NothingForgotten` | `fs/cache.c:90-92`: a block that is found at the head of its line is linked in front of itself; the walk of a later write to the line never ends |
| `MCFsCache_cache` | `NoKnot`, `InflushExact` | `fs/cache.c:90-92,129,144`: the head of a line is linked in front of itself; `228`: the counter begins at 0 although writes of the flush before are on their way |
| `MCCalls_libc` with `Shrink = TRUE` | `OthersKept` | `libc/bztalloc.c:369`: the old quantum is copied into a smaller block |
| `MCCalls_libc` with `UintBits = 8`, `MAXCHUNKS = 4`, `Sizes = {1, 32, 128}`, `Aligns = {1, 128}`, `MaxLive = 4`, `MaxFail = 0` | `NoOverlap` | `libc/bztalloc.c:253`: the room in front of the first chunk is measured by the size asked for, in ALLOCSIZEs; a chunk of blocks larger than a page is larger than that and reaches into the next one |
| `MCCalls_libc` with `WordBits = 4`, `Sizes = {1}`, `Aligns = {1}`, `MaxLive = 8`, `MaxCalls = 14`, `MaxFail = 0` | `HeldIsMapped` | `libc/bztalloc.c:102`: whether a chunk is empty is found out by adding the words of its bitmap; with units 0 to 64 in use the sum is 2^64, which is 0, and the chunk is unmapped under 65 blocks |
| `MCCalls_libc` with `Sizes = {1, 2}`, `Aligns = {1}`, `MaxLive = 6`, `MaxCalls = 12`, `MaxFail = 0` | `HeldIsMapped` | `libc/bztalloc.c:158,378`: `realloc` adds them in 32 bits, where the upper half of every word is lost |

These hold for none or not all of the inputs of `MCCalls_libc.cfg`:

| property | the code |
|---|---|
| `MoveKeeps`, `BulkAligned`, `LowerStable` | `libc/string.c:164`: `memmove` of overlapping memory; `libc/x86_64/string.S:101`: `movntdq` to an address that is not aligned; `libc/string.c:119`: lower case of letters that are small already |
| `CaseCopies`, `DupBounded` | `libc/string.c:432,445`: `strcasecpy` and `strncasecpy` append to what the destination holds, where `string.h:94-97` says copy; `:495`: `strncasedup` allocates n bytes and writes the whole text |
| `LastByteFound`, `SearchFinds`, `SearchEnds` | `libc/string.c:200`: `memrchr` looks at the byte behind the area and not at the first one; `:218,238,564,582`: the last place, or for the searches from the end the first one, is never tried, so `strchr`, `strstr`, `strrstr`, `strcasestr` and `strrcasestr` do not find what is there; `:532`: `strrchr` moves the wrong pointer and does not return |
| `CompareBounded`, `CaseCompareBounded`, `EmptyEqual` | `libc/string.c:344,371`: `strncmp` and `strncasecmp` compare a byte beyond n; `:331`: the first byte is compared before the end is looked for, so two empty strings may differ |
| `NamesWhole`, `DirsWhole`, `StrtokGoesOn` | `libc/string.c:602,619`: the last character of what `basename` and `dirname` return is missing; `:662`: `strtok` begins again |
| `NumbersWhole`, `FormatBounded`, `PrintfOnlyText`, `PerrorText` | `core/libc.c:203`; `libc/stdio.c:677,726,792`: the first digits of a wide number are cut off, `snprintf` writes its terminator behind the buffer, `printf` and `perror` write the terminator too |
| `StaysOnScreen`, `OnlyText`, `DumpEnds`, `PanicFits`, `PanicSeen` | `core/kprintf.c:604,813,821,888` draw beside the screen, `740` fills the last line from behind the frame buffer, `555,557` wait for a lock that is held, `253` a reason longer than its buffer, `288` a screen narrower than the text |
| `BinaryRight`, `InUtc`, `TypedIsSet`, `ClockSet`, `KeysMean` | `core/env.c:77,89` binary years, `94` the zone is added where it would be subtracted, `295` a digit typed into a month that was replaced in between, a year below 2000 that ends in 80 or more, `164` a switch that cannot be turned off, `450,454` keys that never match |
| `OnlyWhatExists`, `DirsFound`, `AllRead` | `drivers/fs/fsz/main.c:213`, `core/fs.c:102`: a name is compared as far as the entry is long; `main.c:349` the first sector is read for every offset when the numbers are in the inode |
| `HolesKept`, `CoreFound`, `InUsable`, `MbrSystem`, `TableFits`; `SpaceRight` after a link was added, `RomAddsUp` with something in byte 6 | `tools/mkfs.c:1033` sectors after a hole, `1700` `sys/core` entered before `sys/`, `1381,1369,1388` partition tables, `1861` the free sectors, `1922` the sum of the ROM |
| `StillDetected`, `FilesKept` | `drivers/fs/fsz/main.c:240`: `resizefs` makes no new check sum; `452`: the inode of the free list is written over the sector that was read last |

Read while modelling, and kept as the code has it: a failed `fopen` returns
0xFFFFFFFF; pipes 0 and 1 are never writable (`fs/main.c:693`) and `pipe()` fails
for odd indexes; the error of a member of a union stays; links are made canonical
twice; contexts whose pids have the same hash are dropped with one of them
(`fs/taskctx.c:62-65`); a reader that is woken is told 0 bytes (`fs/pipe.c:152`);
`mtab_add` always returns -1; `munmap` sends `SYS_memmap` (`libc/stdlib.c:126`);
`atoi("")` is -1; a second table of chunks is never made (`libc/bztalloc.c:260`);
`vmm_new` does not test `pmm_alloc`; `CLOCK_IRQ` of the Raspberry Pi is beyond
the lines it has.

## What is proved

A theorem holds for every value of the constants that the `ASSUME`s of its module
allow; TLC evaluates those for the values of the runs. Where a theorem has a
hypothesis beyond them, the property is false of the code without it, and the
section above has the counterexample.

### Physical memory (`PmmProofs`)

For any number of cores and tasks, any slot size, word size and bound on calls,
and any boot map of disjoint areas:

* `TypeCorrect`: `Spec => []TypeOK`. Not a formality: sizes are natural numbers,
  so no update may take more from a fragment than it has;
* `NoPageUsedTwice`: `Spec => []NoDoubleUse`;
* `ScanNeverStale`: `Spec => []ScanStillValid`;
* `LockExcludes`: no two cores are between taking and releasing the lock;
* `NeighboursMerged`: `Spec /\ Maximal => []Coalesced`. `Maximal` says that the areas
  of the loader are not next to each other; `pmm_init` puts them into the table as
  they are, so without it the first state is a counterexample.

None of the first four is inductive alone. That the update of `pmm_alloc` keeps
fragments disjoint needs that the entry it works on is still the one the scan
found; that this is so needs that no other core is between lock and release; the
types need all of them. `IndInv` is their conjunction, and `Inductive` is `Spec =>
[]IndInv`. The argument has three layers: intervals (`Apart`, `Within`); tables,
where `Carve` says that a table in which every entry is part of an entry of the
old one, and no two parts of one entry overlap, is disjoint again and lost what
was taken out (`TakeFrontKeeps`, `TakeSlotKeeps`, `PutBackKeeps` and the lemma on
merging follow); and the steps, one lemma per conjunct with one case per action.

`Coalesced` needs more than `IndInv`, which lets an empty entry be anywhere:
`pmm_allocslot` may leave one in the table (it drops the head instead of the empty
tail), and if it could lie inside a fragment, taking the front of that fragment
would make the two touch. `GapInv` adds that entries, empty ones included, have
pages between them (`Gaps`), that no block outside the table begins or ends inside
an entry, and that what a core has put back and not yet merged touches one other
entry at most, on the far side of the block (`SpreadBut`, `JoinedOnce`): that is
why a single pass of the second loop of `pmm_free` is enough.

### Message queues (`MsgQueueProofs`)

For any tasks, any length of a queue and any range of serial numbers:

| theorem | states | hypothesis |
|---|---|---|
| `TypeCorrect` | `TypeOK` | none |
| `NoMissedWakeup` | `NoSleepOnMessage` | none: also when queues overflow |
| `QueuesKeepMessages` | `NothingLost` | `[]Room` |
| `QueuesAreMailboxes` | `InOrder`, the refinement of `Mailbox` | `[]Room` |
| `HandledMessageStable` | `MessageStable` for the services | `[]Room` |
| `ReturnedMessageStable` | `MessageStable` | `[]Room`, `Synchronous` |
| `CallsGetTheirAnswers` | `AnswerMatches` | `[]NoRewind`, `Synchronous` |
| `BlockedSendersChained` | `SendersChained` | `[]NoRewind`, `Synchronous` |
| `RoomWhenBounded` | `Room` | `[]NoRewind`, `Synchronous`, `Bounded` |

`Room` says that no queue is full or about to be rewound (`NoRewind`: only the
latter): both lose messages (`core/msg.c:186,198`). `Synchronous` says that clients
use `mq_call` only and are not notified: an asynchronous client may get an old
answer once serials have wrapped, or one of another service with the same serial, and a service that blocks with senders on its
chain loses them (`core/msg.c:188`). `RoomWhenBounded` says when the first
hypothesis holds: programs with at most `MaxPending` messages on their way to a
service, three slots fewer than a queue has, never fill one.

`BaseInv` has what holds of every queue: types, the header that is zero only
before the first message, who may have sent what. A queue is an arc of the ring
(`Arc`), and three lemmas (`ArcAppend`, `ArcAdvance`, `ArcCut`) are all that the
proofs know about its arithmetic. `NothingLost` is inductive together with
`Numbered` and `Sorted` (`QueueInv`): messages are numbered as they are sent and
lie in that order, so two slots never hold the same one, and the first slot has
the oldest. For the refinement each system call is shown to be a send, a take or
nothing of `Mailbox` (`BoxesStep`). `AnswerMatches` needs that a client has at most
one call under way, as a request in a queue, in the hands of a service, or as an
answer (`OneCall`, `Answered`). For the chain: only clients wait for room, nobody
is on two chains, and a client that does not wait has none (`ChainInv`).

### Boot and interrupts (`IrqProofs`)

For any cores, drivers, lines and calls of the drivers: `TypeCorrect`;
`LinesOpenWhenReady`, that is `Spec => []OpenWhenReady`; and `NothingMissed` twice:
`RequestsKept` for machines on which a driver that another one adds is put on the
core of the latter or asks for no line (`AddedInTime`), and
`RequestsKeptOnOneCore` for one core without that hypothesis. `task_new` may choose
another core (`core/task.c:55-61`), and nobody opens a line that is registered
after the boot.

`BootInv` says that `numcores` and `numinit` are the numbers of the cores that have
come up and come through, that the core between the load and the store of `numinit`
has the lock and a current value, and where the cores are at each run level.
`DriverInv` adds the drivers, and that a list of handlers has one entry at most
(`drivers.c:92`). `LineInv` is what the requests need: one message about a line at
most and none while it is open, a closed line with a handler is owed an `EVT_ack`,
and a core that has come to the barrier has no driver left that will ask for a
line.

### Lists of the scheduler (`SchedProofs`)

For any tasks, levels, priorities and times, and `MaxSleepers <= 1`: `TypeCorrect`,
`TasksStayInLists` (`TasksInLists`) and `CursorsStayValid` (`CursorsValid`). With two
sleepers `sched_pick` wakes the wrong one and `sched_delay` leaves a list that is
linked in one direction only (`core/sched.c:356,291`).

The properties are about walks along `next`. The invariant (`Ordered`) is about
the links instead: `prev` and `next` are inverse, lead to tasks of the same list,
and upwards in some order of the tasks (`rank`), so there are no rings; the head is
the one without `prev`. `MembersAre` turns this into what a walk finds, by induction
over its length. Taking a task out and putting one in keep it
(`TakenOutOrdered`, `PutInOrdered`), and each function of `sched.c` is shown to be
one or the other, or to move only cursors; between the two the task is in no list,
which is the parameter `out`. That the timer is never set to a negative time needs
that an alarm that is over is served first (`InTime`).

### Block cache (`FsCacheProofs`)

For any disks, lines and numbers of blocks: `TypeCorrect`, `OneCopyKept`
(`OneCopy`), `CriticalFirst` (`FlushOrder`) and `DiskGoesForward`, the action
property `DiskForward`; none has a hypothesis. `CacheInv` says that a dirty block
holds the newest version (`LineOK`), and that the versions of a block on their way
to a driver are in the order they were written in, not behind the disk and not
ahead of the newest (`WritesOK`); that is why a flush that overtakes an
acknowledgement, or a late answer to a read, cannot take a disk back. Lines are
treated by one lemma: a line made of blocks of another, each once, some of them
clean now, is as good as the other (`DerivedOK`). `EnumerateIs` says what an
enumeration in an order is, `FreeOK` goes through the loop of `cache_free`.

### File system task (`FsTaskProofs`)

`PipesKeepOrder`: `Spec => []PipeInOrder` for any tasks, workloads, trees of files
and sizes of the tables. Whatever is opened, closed, copied, removed or suspended,
readers get the bytes that were written into a pipe in order, each once.
`PipesInOrder` adds what that needs: the position of a reader is within the buffer,
the lists of descriptors, devices and mounts are lists, and a suspended `fread` has
a number of bytes, because `pipe_write` wakes a reader with the number it finds in
whatever request that task is suspended in. Every operator of `FsTable` and every
handler of `FsTask` has a lemma that it keeps `PipesInOrder` (`OrderPipeRead`,
`OrderPipeWrite`, `Order_SYS_dup2`, ...); the loops have one that says their
recursive function has a value and one by induction over the steps. Only
`OrderRead` and `OrderWrite` are about bytes.

Second, the references. `NopenCovers`: `Spec /\ Orderly(load) => []NopenCoversRefs`, and
`DescriptorsKeepFiles`: the same for `DescriptorKeepsFile`; for any tasks and sizes
of the tables. Slots of the tables of files and pipes are freed when their counter
reaches zero, and no table leads from a slot to its holders, so a counter that is
one too low anywhere shows later, as a file that changes under a descriptor.

`Orderly` is about the workload, and each part of it is a place where the code
does lose a reference:

* no `mkfifo`. A copy of a descriptor of a named pipe is opened with the number of
  the *pipe*, so it is counted in the slot of `fcb` with that number
  (`fs/taskctx.c:150,212`), and `taskctx_close` lets go of the slot of its *name*
  (`:234,252`);
* no task that exits has sent `mknod`, and the entry that stands for the memory
  devices does not exit. `devfs_del` frees the slots of a device's files whatever
  their counters say (`fs/devfs.c:107-116`).

Six of the twelve loads of `MCStdio` are orderly (`Files`, `Dirs`, `Devices`,
`Streams`, `Questions`, `Drives`); in the others a named pipe is made or a driver
exits, and the two properties are model-checked, at the sizes given there.

Holders are named by tags: descriptor `d` of task `t`, root and working directory
of `t`, the mount on `k`, the device mounted there. `View` says what each tag
holds, `Paths` the path it relies on. The invariant is `Kept`: for every slot, the
counter is at least the number of tags that hold it (`Counted`), a tag that relies
on a path holds a slot with that path (`Slots`), pipes in use are anonymous, a
place is mounted once, and no task that may exit has devices; with `PipesInOrder`,
which gives the types. Each function that takes or drops a reference is compared
with the one tag that changes (`CountTaken`, `CountDropped`, `CountKept`), and
`RefsInvCovers` adds the tags up to the five terms of `NopenCoversRefs`, which are
about disjoint kinds of tags. Tags range over `Nat`, so TLC cannot evaluate
`RefsInv`; it checks what follows from it.

### Allocator (`BztallocProofs`)

For any numbers of units and chunks, sizes, alignments, calls and failing mappings:
`BlocksApart` (`NoOverlap`), `BlocksMapped` (`HeldIsMapped`) and `PagesReturned`
(`AllReturned`), each as `HeapSpec /\ []FrontRoom /\ []Counted => [](...)`, where
`HeapSpec` is the heap without the other calls of `Calls`. Each hypothesis is a test
of the code that is wrong for some heaps, and the table above has the
counterexamples:

* `FrontRoom`: a small chunk that is put in front of the first one fits there.
  `RoomForPages` says when that follows: no size has a quantum between a page and
  ALLOCSIZE;
* `Counted`: the words of a bitmap add up to zero just if no unit is used any more,
  in 64 bits for `bzt_free` and in 32 bits for `realloc`. With one word it always
  holds for the former. That an empty bitmap adds up to zero is part of the
  hypothesis only because nothing about `2^n` can be proved here.

The instance of `libc` satisfies both. The invariant of `BlocksApart` is `Good`:
chunks do not overlap, and every block is a used unit of a chunk or a large chunk,
two blocks never the same. A unit is found again from its address by a division
(`UnitIn`, `OwnerIs`), so `bzt_free` clears the bit of the block it was given and of
no other; a new chunk lies behind all others or in front of them (`PlaceIs`). As a
`realloc` takes the new unit before it gives back the old one, the table is compared
with the one in between (`TakenGood`, `ReturnGood`). `BlocksMapped` adds that what a
chunk owns is mapped (`Backed`: all pages of a chunk of small units, those of the
used units otherwise), and that the pages of different units and chunks are
different, which rests on their alignment. `PagesReturned` needs the converse:
every used unit and every chunk is there for a block, every mapped page for a unit
or chunk or the allocmap, and the latter goes with the last chunk (`Balanced`).

### Induction

The induction theorems of the library take a predicate as a parameter, which the
provers cannot instantiate. `Induction` states the principle for sets
(`InductionSet`) and shows with it that a function applied again and again has a
value each time (`Iterated`). This reaches the recursive functions of `Sched`,
`FsCache`, `FsTable` and `FsTask`, but not operators declared `RECURSIVE`.

### Only model-checked

* `LockReleased`, `CallAnswered`, `SharedFairly`, `Booted`, `Served`: the prover has
  no fairness.
* `BoundedWait`: it counts the picks of a level between two turns of a task, and
  needs the shares of all levels in front of it summed up.
* `Loader` (with `Vmm`) and the modules of the algorithms: they use `RECURSIVE`
  operators.
* `NopenCoversRefs` and `DescriptorKeepsFile` of `FsTask` with named pipes and with
  drivers that exit; `NoSleepOnData` of `FsTask` and `StreamsOpen` of `Stdio`.
* `Bztalloc` without `FrontRoom`, that is with sizes between a page and ALLOCSIZE
  that do not meet in front of the first chunk.

## Not modelled

* Device access in the drivers, the glyphs, colours and the logo of the console:
  output to hardware.
* The boot log, the debugger and the report of exceptions (`core/syslog.c`,
  `dbg.c`, `fault.c`, `disasm.h`): they print; the page fault that maps a page is
  in `Loader`.
* The boot loader, `tools/config.c`, `elftool.c` and the fuse driver: build tools.
* Check sums, encryption and compression of images: arithmetic on bytes.
* Message buffers (`MSG_PTRDATA`) and the failures of a send after its slot was
  taken (`core/msg.c:202,212`).
* Several cores in queues and scheduler. The code takes no lock there
  (`core/msg.c:180`), so every outcome of a race on the fields would have to be
  allowed and nothing would hold.
* On AArch64 `lockrelease` (`core/aarch64/libc.S:76`) may fail without a retry;
  `Pmm` has the lock of x86_64.

## Plan

Theorems to come: `NoSleepOnData` of `FsTask`, by the route of `PipesKeepOrder`.

Models to come: message buffers in `MsgQueue`; the composition of `MsgQueue` and
`FsTask`, which now has answers that arrive.

## Running

    tlc -workers 2 -config MCPmm_cores.cfg MCPmm
    tlapm PmmProofs.tla

and likewise for the other runs and for `MsgQueueProofs`, `IrqProofs`,
`SchedProofs`, `Induction`, `FsCacheProofs`, `FsTaskProofs` and `BztallocProofs`.
`FsTaskProofs` takes about a quarter of an hour.
