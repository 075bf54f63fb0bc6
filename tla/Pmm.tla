-------------------------------- MODULE Pmm --------------------------------
(***************************************************************************)
(* The physical memory manager of the core, src/core/pmm.c: one table of   *)
(* free fragments shared by every CPU core, first-fit allocation of pages  *)
(* (pmm_alloc), allocation of an aligned slot (pmm_allocslot), and         *)
(* coalescing release (pmm_free).                                          *)
(*                                                                         *)
(* Addresses and sizes are counted in pages.  A call runs in steps, split  *)
(* where another core can observe or change shared state: taking the lock, *)
(* the scan of the table, its update, each half of the read-modify-write   *)
(* of a counter, the release.  The lock is bit 63 of pmm_totalpages        *)
(* itself, so who reads that counter while the lock is held reads a huge   *)
(* number.                                                                 *)
(*                                                                         *)
(* Left out: zeroing the pages, the entropy pool, the debug console.       *)
(***************************************************************************)
EXTENDS Integers, Sequences, FiniteSetsExt

CONSTANTS CPU,          \* the processor cores
          Task,         \* the task control blocks memory is charged to
          None,         \* no core holds the lock, no task is charged
          SlotPages,    \* __SLOTSIZE/__PAGESIZE, 512 in the code
          MaxPages,     \* the largest block a caller asks pmm_alloc for
          MaxCalls,     \* bound: the calls made in one behaviour
          WordSize,     \* stands for 2^64, the range of the counters
          BootMap,      \* the table pmm_init builds from the loader's map
          BootTotal     \* the pages in it

Fragment == [base : Nat, size : Nat]

(* No page of one fragment is a page of the other. *)
Apart(a, b) == \/ a.size = 0
               \/ b.size = 0
               \/ a.base + a.size <= b.base
               \/ b.base + b.size <= a.base

(* One fragment ends where the other begins. *)
Adjoins(a, b) == a.base + a.size = b.base

ASSUME NoneAssumption == None \notin CPU \union Task
ASSUME SizeAssumption ==
    /\ SlotPages \in Nat \ {0}
    /\ MaxPages \in Nat
    /\ MaxCalls \in Nat
    /\ WordSize \in Nat \ {0}

(* Page 0 never enters the table: pmm_init keeps the first free page for   *)
(* the table itself.  The loader's map lists disjoint, maximal areas.      *)
ASSUME BootMapAssumption ==
    /\ BootMap \in Seq(Fragment)
    /\ \A i \in 1..Len(BootMap) : BootMap[i].base > 0 /\ BootMap[i].size > 0
    /\ \A i, j \in 1..Len(BootMap) : i # j => Apart(BootMap[i], BootMap[j])
    /\ BootTotal \in 0..(WordSize - 1)
    /\ BootTotal = MapThenSumSet(LAMBDA i : BootMap[i].size, 1..Len(BootMap))

VARIABLES
    pmm_entries,    \* the table of free fragments; pmm_size is its length
    pmm_freepages,  \* the counter of free pages
    pmm_totalpages, \* the counter of all pages, without the lock bit
    lock,           \* the core that set bit 63 of pmm_totalpages
    runlevel,       \* "coop" while booting, "norm" after drivers_ready
    panicked,       \* kpanic() has been called
    allocmem,       \* tcb->allocmem, pages charged to a task
    calls,          \* the calls made so far, for the bound
    held,           \* blocks handed out and not given back, with their owner
    pc,             \* where a core is inside a call
    call,           \* which function it is in
    tcb,            \* argument: the task charged
    pages,          \* argument: the number of pages
    blk,            \* the block taken from, or not yet put into the table
    idx,            \* loop variable i after the scan
    reg             \* the register of a counter's read-modify-write

table == <<pmm_entries, lock>>
counters == <<pmm_freepages, pmm_totalpages, allocmem>>
locals == <<pc, call, tcb, pages, blk, idx, reg>>
vars == <<pmm_entries, pmm_freepages, pmm_totalpages, lock, runlevel, panicked,
          allocmem, calls, held, pc, call, tcb, pages, blk, idx, reg>>

Block == [base : Nat, size : Nat, owner : Task]
NoBlock == [base |-> 0, size |-> 0]
Steps == {"idle", "acquire", "scan", "take", "freeread", "freewrite",
          "memread", "memwrite", "merge", "release", "return"}
Counting == {"freeread", "freewrite", "memread", "memwrite"}

(* The steps of a call between lockacquire and lockrelease. *)
Inside(c) == \/ pc[c] \in {"scan", "take", "merge", "release"}
             \/ pc[c] \in Counting /\ call[c] \in {"pmm_allocslot", "pmm_free"}

(* pmm_free has put the block back and not yet looked for a neighbour. *)
Unmerged(c) == call[c] = "pmm_free" /\ pc[c] \in Counting \union {"merge"}

(* The counters are unsigned 64 bit. *)
Word(n) == n % WordSize
LockBit == WordSize \div 2
TotalRead == pmm_totalpages + (IF lock = None THEN 0 ELSE LockBit)
Shouldnothappen == pmm_freepages > TotalRead
-----------------------------------------------------------------------------
(* The updates of the table. *)

Replace(s, i, e) == [s EXCEPT ![i] = e]
Remove(s, i) == [k \in 1..(Len(s) - 1) |-> IF k < i THEN s[k] ELSE s[k + 1]]
Duplicate(s, i) == [k \in 1..(Len(s) + 1) |-> IF k <= i THEN s[k] ELSE s[k - 1]]

(* i is the first index of the table with property P, 0 when none has it. *)
IsFirst(i, s, P(_)) ==
    \/ /\ i \in 1..Len(s)
       /\ P(s[i])
       /\ \A k \in 1..(i - 1) : ~P(s[k])
    \/ /\ i = 0
       /\ \A k \in 1..Len(s) : ~P(s[k])

(* b in pmm_allocslot: the first slot boundary at or above the base. *)
SlotBase(e) == ((e.base + SlotPages - 1) \div SlotPages) * SlotPages
HasSlot(e) == e.base + e.size >= SlotBase(e) + SlotPages

(* Fault: the base of the entry is not moved. *)
TakeFront_keepsbase(s, i, n) ==
    IF s[i].size = n THEN Remove(s, i)
    ELSE Replace(s, i, [base |-> s[i].base, size |-> s[i].size - n])

(* pmm_alloc takes the front of entry i and drops the entry when empty. *)
TakeFront(s, i, n) ==
    IF s[i].size = n THEN Remove(s, i)
    ELSE Replace(s, i, [base |-> s[i].base + n, size |-> s[i].size - n])

(* pmm_allocslot duplicates entry i when the slot starts inside it: the    *)
(* head keeps index i, the tail gets the next one.  An empty tail is       *)
(* dropped by removing index i, whichever entry that is.                   *)
TakeSlot(s, i) ==
    LET b == SlotBase(s[i])
        n == b - s[i].base
        tail == [base |-> b + SlotPages, size |-> s[i].size - (n + SlotPages)]
        cut == IF n > 0
               THEN Replace(Replace(Duplicate(s, i), i,
                                    [base |-> s[i].base, size |-> n]),
                            i + 1, tail)
               ELSE Replace(s, i, tail)
    IN IF tail.size = 0 THEN Remove(cut, i) ELSE cut

(* pmm_free: the freed block extends the first entry it touches, at its    *)
(* front or at its back, or becomes a new last entry.                      *)
Touches(e, b) == Adjoins(b, e) \/ Adjoins(e, b)
PutBack(s, i, b) ==
    IF i = Len(s) + 1 THEN Append(s, b)
    ELSE IF Adjoins(b, s[i])
         THEN Replace(s, i, [base |-> b.base, size |-> s[i].size + b.size])
         ELSE Replace(s, i, [s[i] EXCEPT !.size = @ + b.size])

(* Fault: the neighbour is not absorbed. *)
Merge_missing(s, i, j) == s

(* The second pass of pmm_free: entry i, just extended, absorbs entry j,    *)
(* the first one that now touches it.                                      *)
Merge(s, i, j) ==
    LET whole == [base |-> IF Adjoins(s[i], s[j]) THEN s[i].base ELSE s[j].base,
                  size |-> s[i].size + s[j].size]
    IN Remove(Replace(s, i, whole), j)
-----------------------------------------------------------------------------
(* pmm_init: every page of the table is free and nothing is charged yet. *)
Init ==
    /\ pmm_entries = BootMap
    /\ pmm_freepages = BootTotal
    /\ pmm_totalpages = BootTotal
    /\ lock = None
    /\ runlevel = "coop"
    /\ panicked = FALSE
    /\ allocmem = [t \in Task |-> 0]
    /\ calls = 0
    /\ held = {}
    /\ pc = [c \in CPU |-> "idle"]
    /\ call = [c \in CPU |-> "none"]
    /\ tcb = [c \in CPU |-> None]
    /\ pages = [c \in CPU |-> 0]
    /\ blk = [c \in CPU |-> NoBlock]
    /\ idx = [c \in CPU |-> 0]
    /\ reg = [c \in CPU |-> 0]

(* The end of drivers_ready. *)
Boot ==
    /\ runlevel = "coop"
    /\ runlevel' = "norm"
    /\ UNCHANGED <<table, counters, panicked, calls, held, locals>>

(* A core enters function f for task t, n pages and block b. *)
Enter(c, f, t, n, b) ==
    /\ pc' = [pc EXCEPT ![c] = "acquire"]
    /\ call' = [call EXCEPT ![c] = f]
    /\ tcb' = [tcb EXCEPT ![c] = t]
    /\ pages' = [pages EXCEPT ![c] = n]
    /\ blk' = [blk EXCEPT ![c] = b]
    /\ UNCHANGED <<table, counters, runlevel, idx, reg>>

(* pmm_alloc checks the counters before it takes the lock.  A request for  *)
(* no pages returns at once.                                               *)
pmm_alloc(c, t, n) ==
    /\ pc[c] = "idle"
    /\ IF Shouldnothappen
       THEN /\ panicked' = TRUE
            /\ UNCHANGED <<table, counters, runlevel, held, locals>>
       ELSE /\ Enter(c, "pmm_alloc", t, n, NoBlock)
            /\ UNCHANGED <<panicked, held>>

pmm_allocslot(c, t) ==
    /\ pc[c] = "idle"
    /\ Enter(c, "pmm_allocslot", t, SlotPages, NoBlock)
    /\ UNCHANGED <<panicked, held>>

(* The caller gives back a block it was handed.  Page 0, which msg_send    *)
(* maps when pmm_alloc fails, is freed as zero pages: the call returns.    *)
pmm_free(c, b) ==
    /\ pc[c] = "idle"
    /\ held' = held \ {b}
    /\ Enter(c, "pmm_free", b.owner, b.size, [base |-> b.base, size |-> b.size])
    /\ UNCHANGED panicked

Goto(c, step) == pc' = [pc EXCEPT ![c] = step]

(* Fault: the lock bit is set without a look at it. *)
lockacquire_blind(c) ==
    /\ pc[c] = "acquire"
    /\ lock' = c
    /\ Goto(c, "scan")
    /\ UNCHANGED <<pmm_entries, counters, runlevel, panicked, held,
                   call, tcb, pages, blk, idx, reg>>

lockacquire(c) ==
    /\ pc[c] = "acquire"
    /\ lock = None
    /\ lock' = c
    /\ Goto(c, "scan")
    /\ UNCHANGED <<pmm_entries, counters, runlevel, panicked, held,
                   call, tcb, pages, blk, idx, reg>>

(* The loop over the table.  pmm_free falls through to a new last entry. *)
Scan(c) ==
    /\ pc[c] = "scan"
    /\ \E i \in 0..Len(pmm_entries) :
        \/ /\ call[c] = "pmm_alloc"
           /\ IsFirst(i, pmm_entries, LAMBDA e : e.size >= pages[c])
           /\ idx' = [idx EXCEPT ![c] = i]
           /\ Goto(c, IF i = 0 THEN "release" ELSE "take")
        \/ /\ call[c] = "pmm_allocslot"
           /\ IsFirst(i, pmm_entries, HasSlot)
           /\ idx' = [idx EXCEPT ![c] = i]
           /\ Goto(c, IF i = 0 THEN "release" ELSE "take")
        \/ /\ call[c] = "pmm_free"
           /\ IsFirst(i, pmm_entries, LAMBDA e : Touches(e, blk[c]))
           /\ idx' = [idx EXCEPT ![c] = IF i = 0 THEN Len(pmm_entries) + 1 ELSE i]
           /\ Goto(c, "take")
    /\ UNCHANGED <<table, counters, runlevel, panicked, held,
                   call, tcb, pages, blk, reg>>

(* The update of the table at the index the scan found. *)
AllocTake(c) ==
    /\ pc[c] = "take" /\ call[c] = "pmm_alloc"
    /\ blk' = [blk EXCEPT ![c] = [base |-> pmm_entries[idx[c]].base, size |-> pages[c]]]
    /\ pmm_entries' = TakeFront(pmm_entries, idx[c], pages[c])
    /\ Goto(c, "release")
    /\ UNCHANGED <<lock, counters, runlevel, panicked, held, call, tcb, pages, idx, reg>>

SlotTake(c) ==
    /\ pc[c] = "take" /\ call[c] = "pmm_allocslot"
    /\ blk' = [blk EXCEPT ![c] = [base |-> SlotBase(pmm_entries[idx[c]]), size |-> SlotPages]]
    /\ pmm_entries' = TakeSlot(pmm_entries, idx[c])
    /\ Goto(c, "freeread")
    /\ UNCHANGED <<lock, counters, runlevel, panicked, held, call, tcb, pages, idx, reg>>

FreePut(c) ==
    /\ pc[c] = "take" /\ call[c] = "pmm_free"
    /\ pmm_entries' = PutBack(pmm_entries, idx[c], blk[c])
    /\ blk' = [blk EXCEPT ![c] = NoBlock]
    /\ Goto(c, "freeread")
    /\ UNCHANGED <<lock, counters, runlevel, panicked, held, call, tcb, pages, idx, reg>>

(* pmm_freepages -= pages, or += in pmm_free: a load and a store.  Only    *)
(* pmm_alloc does this after it has released the lock.                     *)
FreepagesRead(c) ==
    /\ pc[c] = "freeread"
    /\ reg' = [reg EXCEPT ![c] = pmm_freepages]
    /\ Goto(c, "freewrite")
    /\ UNCHANGED <<table, counters, runlevel, panicked, held, call, tcb, pages, blk, idx>>

Change(c, n) == Word(IF call[c] = "pmm_free" THEN n + pages[c] ELSE n - pages[c])

(* Fault: the task's counter goes below zero. *)
Charge_signed(c, n) == IF call[c] = "pmm_free" THEN n - pages[c] ELSE n + pages[c]
Charge(c, n) == Word(IF call[c] = "pmm_free" THEN n - pages[c] ELSE n + pages[c])

FreepagesWrite(c) ==
    /\ pc[c] = "freewrite"
    /\ pmm_freepages' = Change(c, reg[c])
    /\ Goto(c, "memread")
    /\ UNCHANGED <<table, pmm_totalpages, allocmem, runlevel, panicked, held,
                   call, tcb, pages, blk, idx, reg>>

(* tcb->allocmem += pages, or -= in pmm_free. *)
AllocmemRead(c) ==
    /\ pc[c] = "memread"
    /\ reg' = [reg EXCEPT ![c] = allocmem[tcb[c]]]
    /\ Goto(c, "memwrite")
    /\ UNCHANGED <<table, counters, runlevel, panicked, held, call, tcb, pages, blk, idx>>

AllocmemWrite(c) ==
    /\ pc[c] = "memwrite"
    /\ allocmem' = [allocmem EXCEPT ![tcb[c]] = Charge(c, reg[c])]
    /\ Goto(c, CASE call[c] = "pmm_alloc"     -> "return"
                 [] call[c] = "pmm_allocslot" -> "release"
                 [] call[c] = "pmm_free"      -> "merge")
    /\ UNCHANGED <<table, pmm_freepages, pmm_totalpages, runlevel, panicked, held,
                   call, tcb, pages, blk, idx, reg>>

(* Three neighbouring fragments become one. *)
FreeMerge(c) ==
    /\ pc[c] = "merge"
    /\ \E j \in 0..Len(pmm_entries) :
        /\ IsFirst(j, pmm_entries, LAMBDA e : Touches(e, pmm_entries[idx[c]]))
        /\ pmm_entries' = IF j = 0 THEN pmm_entries ELSE Merge(pmm_entries, idx[c], j)
    /\ Goto(c, "release")
    /\ UNCHANGED <<lock, counters, runlevel, panicked, held, call, tcb, pages, blk, idx, reg>>

(* Fault: the call returns with the lock bit set. *)
lockrelease_forgotten(c) ==
    /\ pc[c] = "release"
    /\ Goto(c, IF call[c] = "pmm_alloc" /\ blk[c] # NoBlock THEN "freeread" ELSE "return")
    /\ UNCHANGED <<table, counters, runlevel, panicked, held,
                   call, tcb, pages, blk, idx, reg>>

lockrelease(c) ==
    /\ pc[c] = "release"
    /\ lock' = None
    /\ Goto(c, IF call[c] = "pmm_alloc" /\ blk[c] # NoBlock THEN "freeread" ELSE "return")
    /\ UNCHANGED <<pmm_entries, counters, runlevel, panicked, held,
                   call, tcb, pages, blk, idx, reg>>

(* The last lines of each function: hand the block out; fail with ENOMEM,  *)
(* or panic when that happens during boot; pmm_free checks the counters.   *)
Return(c) ==
    /\ pc[c] = "return"
    /\ held' = IF blk[c] = NoBlock THEN held
               ELSE held \union {[base |-> blk[c].base, size |-> blk[c].size, owner |-> tcb[c]]}
    /\ panicked' = \/ call[c] = "pmm_free" /\ Shouldnothappen
                   \/ call[c] # "pmm_free" /\ blk[c] = NoBlock /\ runlevel = "coop"
    /\ blk' = [blk EXCEPT ![c] = NoBlock]
    /\ idx' = [idx EXCEPT ![c] = 0]
    /\ reg' = [reg EXCEPT ![c] = 0]
    /\ call' = [call EXCEPT ![c] = "none"]
    /\ tcb' = [tcb EXCEPT ![c] = None]
    /\ pages' = [pages EXCEPT ![c] = 0]
    /\ Goto(c, "idle")
    /\ UNCHANGED <<table, counters, runlevel>>
-----------------------------------------------------------------------------
(* One step of core c inside a call. *)
Run(c) ==
    /\ \/ lockacquire(c) \/ Scan(c)
       \/ AllocTake(c) \/ SlotTake(c) \/ FreePut(c)
       \/ FreepagesRead(c) \/ FreepagesWrite(c)
       \/ AllocmemRead(c) \/ AllocmemWrite(c)
       \/ FreeMerge(c) \/ lockrelease(c) \/ Return(c)
    /\ UNCHANGED calls

(* The rest of the core calls the manager. *)
Use(c) ==
    /\ calls < MaxCalls
    /\ calls' = calls + 1
    /\ \/ \E t \in Task, n \in 1..MaxPages : pmm_alloc(c, t, n)
       \/ \E t \in Task : pmm_allocslot(c, t)
       \/ \E b \in held : pmm_free(c, b)

Next == ~panicked /\ (Boot \/ \E c \in CPU : Use(c) \/ Run(c))

Spec == Init /\ [][Next]_vars

(* A core inside a call keeps executing: the code runs with interrupts off. *)
FairSpec == Spec /\ \A c \in CPU : WF_vars(~panicked /\ Run(c))
-----------------------------------------------------------------------------
(* The variables keep their types; the counters stay within a word. *)
TypeOK ==
    /\ pmm_entries \in Seq(Fragment)
    /\ pmm_freepages \in 0..(WordSize - 1)
    /\ pmm_totalpages \in 0..(WordSize - 1)
    /\ lock \in CPU \union {None}
    /\ runlevel \in {"coop", "norm"}
    /\ panicked \in BOOLEAN
    /\ allocmem \in [Task -> 0..(WordSize - 1)]
    /\ calls \in Nat
    /\ held \subseteq Block
    /\ pc \in [CPU -> Steps]
    /\ call \in [CPU -> {"none", "pmm_alloc", "pmm_allocslot", "pmm_free"}]
    /\ tcb \in [CPU -> Task \union {None}]
    /\ pages \in [CPU -> Nat]
    /\ blk \in [CPU -> Fragment]
    /\ idx \in [CPU -> Nat]
    /\ reg \in [CPU -> 0..(WordSize - 1)]

(* No page is used twice: whatever two cores do at the same time in        *)
(* pmm_alloc, pmm_allocslot and pmm_free, the free fragments, the blocks   *)
(* handed out and the blocks in the middle of a call share no page.        *)
NoDoubleUse ==
    /\ \A i, j \in 1..Len(pmm_entries) :
          i # j => Apart(pmm_entries[i], pmm_entries[j])
    /\ \A b \in held : \A i \in 1..Len(pmm_entries) : Apart(b, pmm_entries[i])
    /\ \A a, b \in held : a # b => Apart(a, b)
    /\ \A c \in CPU : \A i \in 1..Len(pmm_entries) : Apart(blk[c], pmm_entries[i])
    /\ \A c \in CPU : \A b \in held : Apart(blk[c], b)
    /\ \A c, d \in CPU : c # d => Apart(blk[c], blk[d])

(* A core that has found an entry works on that entry: between the scan    *)
(* and the update no other core moves, shrinks or extends it, so the index *)
(* i of the loops in pmm.c never goes stale while it is used.              *)
ScanStillValid ==
    \A c \in CPU :
        /\ pc[c] = "take" /\ call[c] = "pmm_alloc" =>
              /\ idx[c] \in 1..Len(pmm_entries)
              /\ pmm_entries[idx[c]].size >= pages[c]
        /\ pc[c] = "take" /\ call[c] = "pmm_allocslot" =>
              /\ idx[c] \in 1..Len(pmm_entries)
              /\ HasSlot(pmm_entries[idx[c]])
        /\ pc[c] = "take" /\ call[c] = "pmm_free" =>
              /\ idx[c] \in 1..(Len(pmm_entries) + 1)
              /\ idx[c] <= Len(pmm_entries) => Touches(pmm_entries[idx[c]], blk[c])
        /\ Unmerged(c) => idx[c] \in 1..Len(pmm_entries)

(* Mutual exclusion: a core between lockacquire and lockrelease is the one *)
(* that set the lock bit, and a call in progress is charged to a task.     *)
CallsInOrder ==
    \A c \in CPU :
        /\ Inside(c) => lock = c
        /\ pc[c] # "idle" => call[c] # "none" /\ tcb[c] \in Task
        /\ pc[c] = "merge" => call[c] = "pmm_free"

(* The inductive invariant. *)
IndInv == TypeOK /\ CallsInOrder /\ ScanStillValid /\ NoDoubleUse

(* pmm_free leaves one fragment where there were two or three neighbours   *)
(* (the comment on its second loop), so no two fragments of the table      *)
(* touch, except while a core is between putting a block back and merging. *)
Coalesced ==
    \/ \E c \in CPU : Unmerged(c)
    \/ \A i, j \in 1..Len(pmm_entries) :
          i # j => ~Adjoins(pmm_entries[i], pmm_entries[j])

(* Whoever takes the lock bit of pmm_totalpages gives it back, on every    *)
(* path through the three functions, unless the machine stops.             *)
LockReleased == \A c \in CPU : lock = c ~> (lock # c \/ panicked)
=============================================================================
