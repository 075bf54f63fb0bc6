-------------------------------- MODULE Irq ---------------------------------
(***************************************************************************)
(* The end of the boot and the life after it, as the drivers see them:     *)
(* the cores meet in drivers_ready (src/src/core/drivers.c), the interrupt *)
(* lines that somebody asked for are opened, an interrupt closes its line  *)
(* and becomes a message to the driver, and the driver's EVT_ack opens the *)
(* line again (src/src/drivers/driver.c, src/src/core/msgcore.c).  The     *)
(* wall clock counts in its own interrupt (src/src/core/clock.c).          *)
(*                                                                         *)
(* A driver runs the calls of its drv_init, a sequence the constant Calls  *)
(* gives, and then its loop of mq_recv.  The queue of a driver is the      *)
(* sequence of the numbers it was notified with; the queues themselves are *)
(* modelled in MsgQueue.  Times are scaled down: one second is Million     *)
(* microseconds, one microsecond is Million picoseconds.                   *)
(***************************************************************************)
EXTENDS Integers, Sequences, FiniteSets, Functions, Security

CONSTANTS
    Core, BSP,          \* the processors and the one that boots
    Late,               \* cores the boot loader may start late
    Driver,             \* the pids of the driver tasks
    CoreOf,             \* the core of each driver
    Calls,              \* the calls each driver makes in drv_init
    Later,              \* drivers that another driver adds with SYS_drvadd
    Task,               \* the other tasks, records as in Security
    Line,               \* the lines below irq_max, the scheduler's excluded
    clock_irq,          \* the line of the wall clock
    USHRT_MAX,          \* the number a timer message carries
    clock_freq, Million, Sixty,
    StartTime, Word,    \* the time at boot and the width of clock_ts
    Zone,               \* time zones, in minutes
    MaxTicks, MaxEvents \* bounds of the ticks and of the devices' events

\* a call of drv_init, and the number, line or driver it is about
Call == [fn : STRING, arg : Nat \cup Driver]

ASSUME BSPIsCore == BSP \in Core /\ Late \subseteq Core \ {BSP}
ASSUME CoresFinite == IsFiniteSet(Core) /\ "none" \notin Core
ASSUME DriverCalls ==
    /\ CoreOf \in [Driver -> Core] /\ Calls \in [Driver -> Seq(Call)]
    /\ Later \subseteq Driver
ASSUME ClockRouted == clock_irq \in Line /\ USHRT_MAX \notin Line
ASSUME ClockRuns == clock_freq \in Nat \ {0}

VARIABLES
    runlevel,   \* "BOOT", "COOP" or "NORM"
    numcores, numinit,
    lck,        \* who holds kprintf_lck
    core,       \* what each core does
    reg,        \* the value of numinit a core has loaded
    routes,     \* irq_routing_table: the pids of a line, <<>> for no list
    masked,     \* the lines that are disabled
    latch,      \* the lines with a request the controller remembers
    due,        \* the lines whose device has something to be read
    drv,        \* what each driver does: [pc, left, irq]
    inbox,      \* the messages of each driver
    time,       \* clock_cnt, clock_ts, clock_ns, clock_ticks, clock_tz
    clock_pids, \* the subscriber that is told next
    asked,      \* the lines each driver has registered with success
    told,       \* how often each driver was told in this second
    ticks, events

bootvars  == <<runlevel, numcores, numinit, lck, core, reg>>
linevars  == <<routes, masked, latch, due>>
drvvars   == <<drv, inbox, asked>>
clockvars == <<time, clock_pids, told, ticks>>
vars == <<bootvars, linevars, drvvars, clockvars, events>>

None == "none"
Idle(d) == drv[d].pc = "recv" /\ inbox[d] = <<>>

\* what one step of the clock adds: 1000000000000UL / clock_freq
clock_step == (Million * Million) \div clock_freq

-----------------------------------------------------------------------------
(* The boot *)

Init ==
    /\ runlevel = "BOOT" /\ numcores = 0 /\ numinit = 0 /\ lck = None
    /\ core = [c \in Core |-> "off"] /\ reg = [c \in Core |-> 0]
    /\ routes = [l \in Line |-> <<>>]
    /\ masked = Line /\ latch = {} /\ due = {}
    /\ drv = [d \in Driver |->
                [pc |-> IF d \in Later THEN "none" ELSE "init",
                 left |-> Calls[d], irq |-> USHRT_MAX]]
    /\ inbox = [d \in Driver |-> <<>>]
    /\ asked = [d \in Driver |-> {}]
    /\ told = [d \in Driver |-> 0]
    /\ time = [cnt |-> clock_freq, ts |-> StartTime, ns |-> 0, ticks |-> 0, tz |-> 0]
    /\ clock_pids = 0 /\ ticks = 0 /\ events = 0

\* a core counts itself, atomically
Count(c) ==
    /\ core[c] = "off"
    /\ numcores' = numcores + 1
    /\ core' = [core EXCEPT ![c] = "start"]
    /\ UNCHANGED <<runlevel, numinit, lck, reg, linevars, drvvars, clockvars, events>>

\* the end of drivers_init: the drivers are loaded, the tasks may run.  The
\* boot loader starts the cores at once, the ones in Late possibly too late
drivers_init ==
    /\ core[BSP] = "start" /\ runlevel = "BOOT"
    /\ \A c \in Core \ Late : core[c] # "off"
    /\ numinit' = 0
    /\ runlevel' = "COOP"
    /\ core' = [core EXCEPT ![BSP] = "run"]
    /\ UNCHANGED <<numcores, lck, reg, linevars, drvvars, clockvars, events>>

\* the other cores wait for exactly this run level
ap_start(c) ==
    /\ c # BSP /\ core[c] = "start" /\ runlevel = "COOP"
    /\ core' = [core EXCEPT ![c] = "run"]
    /\ UNCHANGED <<runlevel, numcores, numinit, lck, reg, linevars, drvvars,
                   clockvars, events>>

\* sched_pick has nothing to run on this core and the run level is COOP:
\* drivers_ready begins
Blocked(c) == \A d \in Driver : CoreOf[d] = c => drv[d].pc \in {"none", "gone"} \/ Idle(d)

AcquireReady_free(c) ==
    /\ core[c] = "run" /\ runlevel = "COOP" /\ Blocked(c)
    /\ lck' = c
    /\ core' = [core EXCEPT ![c] = "load"]
    /\ UNCHANGED <<runlevel, numcores, numinit, reg, linevars, drvvars, clockvars, events>>

AcquireReady(c) ==
    /\ core[c] = "run" /\ runlevel = "COOP" /\ Blocked(c)
    /\ lck = None
    /\ lck' = c
    /\ core' = [core EXCEPT ![c] = "load"]
    /\ UNCHANGED <<runlevel, numcores, numinit, reg, linevars, drvvars, clockvars, events>>

\* numinit++ under the lock
LoadNuminit(c) ==
    /\ core[c] = "load"
    /\ reg' = [reg EXCEPT ![c] = numinit]
    /\ core' = [core EXCEPT ![c] = "store"]
    /\ UNCHANGED <<runlevel, numcores, numinit, lck, linevars, drvvars, clockvars, events>>

StoreNuminit(c) ==
    /\ core[c] = "store"
    /\ numinit' = reg[c] + 1
    /\ lck' = None
    /\ core' = [core EXCEPT ![c] = "wait"]
    /\ UNCHANGED <<runlevel, numcores, reg, linevars, drvvars, clockvars, events>>

Routed(l) == routes[l] # <<>>

Notify(box, d, n) == [box EXCEPT ![d] = Append(@, n)]

EveryCore_butone == numinit + 1 >= numcores

\* the first core waits for the others, opens the lines with a list, and goes
\* to the normal run level (the message to the file system is in FsTask)
EveryCore == numinit >= numcores

drivers_ready ==
    /\ core[BSP] = "wait" /\ EveryCore
    /\ masked' = masked \ ({l \in Line : Routed(l)} \cup {clock_irq})
    /\ latch' = latch \ {clock_irq}
    /\ runlevel' = "NORM"
    /\ core' = [core EXCEPT ![BSP] = "norm"]
    /\ UNCHANGED <<numcores, numinit, lck, reg, routes, due, drvvars, clockvars, events>>

Released(c) ==
    /\ c # BSP /\ core[c] = "wait" /\ runlevel = "NORM"
    /\ core' = [core EXCEPT ![c] = "norm"]
    /\ UNCHANGED <<runlevel, numcores, numinit, lck, reg, linevars, drvvars,
                   clockvars, events>>

-----------------------------------------------------------------------------
(* The routing table *)

StopAt_end(list) == Len(list)

\* where the loop that looks for the end of a list stops: at the first entry
\* that is not zero, which is the first one
StopAt(list) == 0

\* drivers_regintr: the list afterwards; the entries after the new one stay
\* behind the end that the next zero marks
Registered(list, d) == Append(SubSeq(list, 1, StopAt(list)), d)

drivers_regintr(l, d) ==
    IF d \in Range(SubSeq(routes[l], 1, StopAt(routes[l])))
    THEN UNCHANGED <<routes, asked>>            \* EEXIST
    ELSE /\ routes' = [routes EXCEPT ![l] = Registered(@, d)]
         /\ asked' = [asked EXCEPT ![d] = @ \cup {l}]

\* drivers_unregintr: what is left of a list when task d exits
Unregistered(list, d) ==
    LET i    == StopAt(list)
        kept == SelectSeq(SubSeq(list, 1, i), LAMBDA e : e # d)
                    \o SubSeq(list, i + 1, Len(list))
    IN IF i <= 1 THEN <<>> ELSE kept

drivers_unregintr(d) ==
    routes' = [l \in Line |-> Unregistered(routes[l], d)]

-----------------------------------------------------------------------------
(* What a driver does *)

\* sched_pick has the driver's turn: before drivers_ready and after it
Runs_coop(d) == core[CoreOf[d]] = "run"

Runs(d) == core[CoreOf[d]] \in {"run", "norm"}
AsTask(d) == [pid |-> d, prio |-> "drv", root |-> FALSE, acl |-> <<>>]
Allowed(task, e) == core_allowed(task, e)

\* the calls of drv_init, one after the other; SYS_regirq refuses the lines of
\* the core, SYS_drvadd starts another driver, exit ends this one
InitCall(d) ==
    /\ Runs(d) /\ drv[d].pc = "init" /\ drv[d].left # <<>>
    /\ LET call == Head(drv[d].left)
           next == [drv EXCEPT ![d].left = Tail(@)]
       IN /\ Allowed(AsTask(d), call.fn)
          /\ \/ /\ call.fn = "SYS_regirq"
                /\ drv' = next
                /\ IF call.arg \in Line \ {clock_irq}
                   THEN drivers_regintr(call.arg, d)
                   ELSE UNCHANGED <<routes, asked>>     \* EINVAL
             \/ /\ call.fn = "SYS_regtmr"
                /\ drv' = next
                /\ drivers_regintr(clock_irq, d)
             \/ /\ call.fn = "SYS_drvadd"
                /\ drv' = [next EXCEPT ![call.arg].pc = IF @ = "none" THEN "init" ELSE @]
                /\ UNCHANGED <<routes, asked>>
             \/ /\ call.fn = "SYS_exit"
                /\ drv' = [next EXCEPT ![d].pc = "gone"]
                /\ drivers_unregintr(d)
                /\ asked' = [asked EXCEPT ![d] = {}]
    /\ UNCHANGED <<bootvars, masked, latch, due, inbox, clockvars, events>>

EnterLoop(d) ==
    /\ Runs(d) /\ drv[d].pc = "init" /\ drv[d].left = <<>>
    /\ drv' = [drv EXCEPT ![d].pc = "recv"]
    /\ UNCHANGED <<bootvars, linevars, inbox, asked, clockvars, events>>

\* mq_recv, then drv_irq, which reads everything its device has
Receive(d) ==
    /\ Runs(d) /\ drv[d].pc = "recv" /\ inbox[d] # <<>>
    /\ drv' = [drv EXCEPT ![d].pc = "irq", ![d].irq = Head(inbox[d])]
    /\ inbox' = [inbox EXCEPT ![d] = Tail(@)]
    /\ UNCHANGED <<bootvars, linevars, asked, clockvars, events>>

drv_irq(d) ==
    /\ Runs(d) /\ drv[d].pc = "irq"
    /\ due' = due \ {drv[d].irq}
    /\ drv' = [drv EXCEPT ![d].pc = IF drv[d].irq = USHRT_MAX THEN "recv" ELSE "ack"]
    /\ UNCHANGED <<bootvars, routes, masked, latch, inbox, asked, clockvars, events>>

EVT_ack_clear(d) ==
    /\ Runs(d) /\ drv[d].pc = "ack"
    /\ masked' = masked \ {drv[d].irq} /\ latch' = latch \ {drv[d].irq}
    /\ drv' = [drv EXCEPT ![d].pc = "recv"]
    /\ UNCHANGED <<bootvars, routes, due, inbox, asked, clockvars, events>>

EVT_ack_lost(d) ==
    /\ Runs(d) /\ drv[d].pc = "ack"
    /\ drv' = [drv EXCEPT ![d].pc = "recv"]
    /\ UNCHANGED <<bootvars, linevars, inbox, asked, clockvars, events>>

\* EVT_ack: the core opens the line
EVT_ack(d) ==
    /\ Runs(d) /\ drv[d].pc = "ack"
    /\ masked' = IF Allowed(AsTask(d), "EVT_ack") THEN masked \ {drv[d].irq} ELSE masked
    /\ drv' = [drv EXCEPT ![d].pc = "recv"]
    /\ UNCHANGED <<bootvars, routes, latch, due, inbox, asked, clockvars, events>>

-----------------------------------------------------------------------------
(* Interrupts *)

\* a device has something: external
Device(l) ==
    /\ events < MaxEvents /\ l # clock_irq /\ runlevel # "BOOT"
    /\ events' = events + 1
    /\ due' = due \cup {l} /\ latch' = latch \cup {l}
    /\ UNCHANGED <<bootvars, routes, masked, drvvars, clockvars>>

Told(box, list, n) ==
    [d \in Driver |-> box[d] \o [i \in 1..Cardinality({j \in DOMAIN list : list[j] = d}) |-> n]]

drivers_intr_open(l) ==
    /\ core[BSP] = "norm" /\ l \in latch \ masked /\ l # clock_irq
    /\ latch' = latch \ {l}
    /\ inbox' = Told(inbox, routes[l], l)
    /\ UNCHANGED <<bootvars, routes, masked, due, drv, asked, clockvars, events>>

\* drivers_intr: an interrupt nobody has asked for is only taken
drivers_intr(l) ==
    /\ core[BSP] = "norm" /\ l \in latch \ masked /\ l # clock_irq
    /\ latch' = latch \ {l}
    /\ masked' = IF Routed(l) THEN masked \cup {l} ELSE masked
    /\ inbox' = Told(inbox, routes[l], l)
    /\ UNCHANGED <<bootvars, routes, due, drv, asked, clockvars, events>>

Subscribers == routes[clock_irq]

NextTold_all == Subscribers # <<>>

\* one subscriber in every step, in the whole second the list starts again
\* when it is done
NextTold == clock_pids < Len(Subscribers)

clock_intr_stop ==
    /\ core[BSP] = "norm" /\ clock_irq \notin masked /\ ticks < MaxTicks
    /\ ticks' = ticks + 1
    /\ time' = IF time.cnt > 1
               THEN [time EXCEPT !.cnt = @ - 1, !.ns = @ + clock_step, !.ticks = @ + clock_step]
               ELSE [time EXCEPT !.cnt = @ - 1, !.ts = @ + 1, !.ns = 0, !.ticks = @ + clock_step]
    /\ UNCHANGED <<bootvars, linevars, drv, inbox, asked, clock_pids, told, events>>

clock_intr_ns ==
    /\ core[BSP] = "norm" /\ clock_irq \notin masked /\ ticks < MaxTicks
    /\ ticks' = ticks + 1
    /\ time' = IF time.cnt > 1
               THEN [time EXCEPT !.cnt = @ - 1, !.ns = @ + clock_step, !.ticks = @ + clock_step]
               ELSE [time EXCEPT !.cnt = clock_freq, !.ns = 0, !.ticks = @ + clock_step]
    /\ UNCHANGED <<bootvars, linevars, drv, inbox, asked, clock_pids, told, events>>

clock_intr ==
    /\ core[BSP] = "norm" /\ clock_irq \notin masked /\ ticks < MaxTicks
    /\ ticks' = ticks + 1
    /\ IF time.cnt > 1
       THEN /\ time' = [time EXCEPT !.cnt = @ - 1, !.ns = @ + clock_step, !.ticks = @ + clock_step]
            /\ IF NextTold
               THEN LET d == Subscribers[(clock_pids % Len(Subscribers)) + 1] IN
                    /\ inbox' = Notify(inbox, d, USHRT_MAX)
                    /\ told' = [told EXCEPT ![d] = @ + 1]
                    /\ clock_pids' = clock_pids + 1
               ELSE UNCHANGED <<inbox, told, clock_pids>>
       ELSE /\ time' = [time EXCEPT !.cnt = clock_freq, !.ts = (@ + 1) % Word, !.ns = 0,
                                    !.ticks = @ + clock_step]
            /\ clock_pids' = IF Subscribers # <<>> /\ ~NextTold THEN 0 ELSE clock_pids
            /\ told' = [d \in Driver |-> 0]
            /\ UNCHANGED inbox
    /\ UNCHANGED <<bootvars, linevars, drv, asked, events>>

-----------------------------------------------------------------------------
(* The clock calls of a task *)

SYS_stimezone(task, tz) ==
    /\ core[BSP] = "norm" /\ Allowed(task, "SYS_stimezone")
    /\ time' = [time EXCEPT !.ts = (@ + (tz - time.tz) * Sixty * Million) % Word, !.tz = tz]
    /\ UNCHANGED <<bootvars, linevars, drvvars, clock_pids, told, ticks, events>>

SYS_stime(task, usec) ==
    /\ core[BSP] = "norm" /\ Allowed(task, "SYS_stime")
    /\ time' = [time EXCEPT !.ts = usec \div Million, !.ns = usec % Million]
    /\ UNCHANGED <<bootvars, linevars, drvvars, clock_pids, told, ticks, events>>

\* SYS_time: what the call returns, the microseconds since 1970
SYS_time(t) == (t.ts * Million) + (t.ns \div Million)

-----------------------------------------------------------------------------
Next ==
    \/ \E c \in Core : Count(c) \/ ap_start(c) \/ AcquireReady(c) \/ LoadNuminit(c)
                        \/ StoreNuminit(c) \/ Released(c)
    \/ drivers_init \/ drivers_ready \/ clock_intr
    \/ \E d \in Driver : InitCall(d) \/ EnterLoop(d) \/ Receive(d) \/ drv_irq(d) \/ EVT_ack(d)
    \/ \E l \in Line : Device(l) \/ drivers_intr(l)
    \/ \E t \in Task : \/ \E tz \in Zone \ {time.tz} : SYS_stimezone(t, tz)
                       \/ ticks < MaxTicks /\ SYS_stime(t, 2 * Million + 3)

Spec == Init /\ [][Next]_vars

(* Every core runs, each driver gets its turn on its core, and the          *)
(* controller delivers a request of a line that is open.  Nothing is        *)
(* assumed of the devices, the clock and the other tasks.                   *)
FairSpec ==
    /\ Spec
    /\ \A c \in Core : WF_vars(Count(c) \/ ap_start(c) \/ AcquireReady(c) \/ LoadNuminit(c)
                                \/ StoreNuminit(c) \/ Released(c))
    /\ WF_vars(drivers_init) /\ WF_vars(drivers_ready)
    /\ \A d \in Driver : WF_vars(InitCall(d) \/ EnterLoop(d) \/ Receive(d) \/ drv_irq(d) \/ EVT_ack(d))
    /\ \A l \in Line : WF_vars(drivers_intr(l))
-----------------------------------------------------------------------------
(* Properties *)

TypeOK ==
    /\ runlevel \in {"BOOT", "COOP", "NORM"}
    /\ numinit \in 0..numcores /\ numcores \in 0..Cardinality(Core)
    /\ lck \in Core \cup {None}
    /\ core \in [Core -> {"off", "start", "run", "load", "store", "wait", "norm"}]
    /\ \A l \in Line : Range(routes[l]) \subseteq Driver
    /\ masked \subseteq Line /\ latch \subseteq Line /\ due \subseteq Line
    /\ \A d \in Driver : /\ drv[d].pc \in {"none", "init", "recv", "irq", "ack", "gone"}
                         /\ Range(inbox[d]) \subseteq Line \cup {USHRT_MAX}
    /\ time.cnt \in 1..clock_freq
    /\ clock_pids <= Len(routes[clock_irq]) + 1

\* how many messages about a line a driver has, the one it works on included
Outstanding(d, l) ==
    Cardinality({i \in DOMAIN inbox[d] : inbox[d][i] = l})
        + (IF drv[d].pc \in {"irq", "ack"} /\ drv[d].irq = l THEN 1 ELSE 0)

\* A closed line that has a driver is owed an EVT_ack: the driver has, or is at
\* work on, the message that will open it again.  (drivers_intr closes, the
\* loop in driver.c acknowledges; nothing else opens a line after the boot.)
AckOwed ==
    runlevel = "NORM" =>
        \A l \in masked : Routed(l) => \E d \in Driver : Outstanding(d, l) > 0

\* A driver never has two messages about the same line, so that no number of
\* interrupts fills its queue (msg_notify does not test for a full queue).
OnePerLine == \A d \in Driver, l \in Line : Outstanding(d, l) <= 1

\* What a device has is never forgotten: the controller still has the
\* request, or the driver the message.  A closed line is opened again by a
\* message its driver still has, and no driver has two messages about a line.
NothingMissed ==
    /\ AckOwed /\ OnePerLine
    /\ \A l \in due : runlevel = "NORM" /\ Routed(l) =>
          \/ l \in latch
          \/ \E d \in Driver : \/ l \in Range(inbox[d])
                               \/ drv[d].pc = "irq" /\ drv[d].irq = l

\* No line is opened while a core can still be in the middle of the boot, with
\* drivers that have not asked for their lines yet (drivers.c:403).
OpenWhenReady ==
    masked # Line => \A c \in Core \ Late : core[c] \in {"wait", "norm"}

\* A subscriber of the timer is told at most once in a second (driver.c:43).
OncePerSecond == \A d \in Driver : told[d] <= 1

\* A tick of the clock never takes the time SYS_time returns back, through the
\* carry at the whole second and after SYS_stime in the middle of one.
TimeForward == [][ticks' = ticks + 1 => SYS_time(time') >= SYS_time(time)]_vars

\* Every core gets out of drivers_ready: none waits for the other for ever.
Booted == <>(\A c \in Core : core[c] = "norm")

\* What a device with a driver has is read in the end.
Served == \A l \in Line : (runlevel = "NORM" /\ l \in due /\ Routed(l)) ~> l \notin due

-----------------------------------------------------------------------------
(* What the comments say and the code does not do *)

\* A task stays in the lists of the lines it has registered for until it exits
\* (drivers.c:90 and 122).
Subscribed ==
    \A d \in Driver : \A l \in asked[d] : d \in Range(routes[l])

\* A change of the time zone moves the time by the difference, in seconds.
ZoneShift ==
    [][time'.tz # time.tz => time'.ts = (time.ts + (time'.tz - time.tz) * Sixty) % Word]_vars

\* clock_ticks counts microseconds (clock.c:42).
TicksInMicroseconds ==
    runlevel = "NORM" => time.ticks <= (ticks * Million) \div clock_freq
=============================================================================
