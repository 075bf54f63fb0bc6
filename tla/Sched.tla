------------------------------- MODULE Sched -------------------------------
(***************************************************************************)
(* The scheduler of one CPU core, src/core/sched.c: a list of running      *)
(* tasks for each priority level with a cursor, a list of blocked tasks    *)
(* and a queue of sleeping ones, all threaded through the prev and next    *)
(* fields of the task control blocks.                                      *)
(*                                                                         *)
(* The functions of sched.c call each other, so each is an operator from   *)
(* the state k of the scheduler to the state it leaves; an action is a     *)
(* system call or an interrupt, with every function it calls.  The core    *)
(* runs with interrupts off.                                               *)
(*                                                                         *)
(* One core: every core has lists of its own.  Left out: accounting        *)
(* (blkcnt), hasactivetask, which only matters to other cores,             *)
(* sched_hybernate and sched_migrate, which nothing calls.                 *)
(***************************************************************************)
EXTENDS Integers, FiniteSetsExt

CONSTANTS Task,         \* the tasks of this core
          FS,           \* the file system service, the first task
          None,         \* no task: pid 0
          Idle,         \* idle_tcb, in no list
          Wild,         \* what page 0 holds, taken for a task control block
          Prio,         \* tcb->priority of each task
          PRI_DRV,      \* the last level that is not preempted; 2 in the code
          PRI_IDLE,     \* the level of no task; 7 in the code
          quantum,      \* the time slice
          OneShot,      \* the timer of ibmpc; that of rpi fires until set anew
          Usec,         \* arguments of usleep
          Sender,       \* tasks that send messages
          Sleeper,      \* tasks that call usleep
          Exiting,      \* tasks that may exit
          Notified,     \* tasks that handle interrupts
          MaxSleepers,  \* bound: tasks asleep at the same time
          MaxTicks,     \* bound: the time counted while tasks sleep
          MaxWait       \* bound: the count of picks in waited

Level == 0..(PRI_IDLE - 1)

ASSUME TaskAssumption ==
    /\ FS \in Task
    /\ {None, Idle, Wild} \intersect Task = {}
    /\ None # Idle /\ None # Wild /\ Idle # Wild
    /\ Sender \subseteq Task /\ Sleeper \subseteq Task /\ Notified \subseteq Task
    /\ Exiting \subseteq Task \ {FS}
ASSUME TasksFinite == IsFiniteSet(Task)
ASSUME LevelAssumption ==
    /\ PRI_IDLE \in Nat \ {0} /\ PRI_DRV \in Nat
    /\ Prio \in [Task -> Level]
ASSUME TimeAssumption ==
    /\ OneShot \in BOOLEAN
    /\ quantum \in Nat \ {0} /\ Usec \subseteq Nat \ {0}
    /\ MaxSleepers \in Nat /\ MaxTicks \in Nat /\ MaxWait \in Nat

VARIABLES
    ccb,        \* the CPU control block, with the state of the timer
    tcb,        \* the list fields and the state of each task
    runlevel,   \* "load" while tasks are added, "coop", "norm"
    left,       \* history: what is left of a sleep by the timer's time
    waited      \* history: picks that passed a running task over

vars == <<ccb, tcb, runlevel, left, waited>>

(* The argument and the result of the functions of sched.c. *)
kernel == [ccb |-> ccb, tcb |-> tcb, runlevel |-> runlevel]
-----------------------------------------------------------------------------
(* The lists. *)

(* Takes t out of the list it is in: its neighbours are joined. *)
Unlink(tasks, t) ==
    LET n == tasks[t].next
        p == tasks[t].prev
    IN [u \in Task |-> [tasks[u] EXCEPT
            !.next = IF u = t THEN None ELSE IF u = p THEN n ELSE @,
            !.prev = IF u = t THEN None ELSE IF u = n THEN p ELSE @]]

(* Fault: the old head does not learn of the new one. *)
Link_oneway(tasks, t, h) == [tasks EXCEPT ![t].prev = None, ![t].next = h]

(* Puts t in front of the task h. *)
Link(tasks, t, h) ==
    LET linked == [tasks EXCEPT ![t].prev = None, ![t].next = h]
    IN IF h = None THEN linked ELSE [linked EXCEPT ![h].prev = t]

sched_add(k, t) ==
    LET h == k.ccb.hd_active[Prio[t]]
    IN [k EXCEPT !.ccb.hd_active[Prio[t]] = t,
                 !.tcb = [Link(k.tcb, t, h) EXCEPT ![t].state = "running"]]

(* Fault: the head of the active list is not moved. *)
sched_remove_head(k, t) ==
    LET n == k.tcb[t].next
    IN [k EXCEPT !.ccb.cr_active[Prio[t]] = IF @ = t THEN n ELSE @,
                 !.ccb.hd_blocked = IF @ = t THEN n ELSE @,
                 !.ccb.hd_timerq = IF @ = t THEN n ELSE @,
                 !.tcb = Unlink(k.tcb, t)]

sched_remove(k, t) ==
    LET n == k.tcb[t].next
        l == Prio[t]
    IN [k EXCEPT !.ccb.hd_active[l] = IF @ = t THEN n ELSE @,
                 !.ccb.cr_active[l] = IF @ = t THEN n ELSE @,
                 !.ccb.hd_blocked = IF @ = t THEN n ELSE @,
                 !.ccb.hd_timerq = IF @ = t THEN n ELSE @,
                 !.tcb = Unlink(k.tcb, t)]

(* sched_awake is given a pointer to t; e is the task the pointer refers   *)
(* to once the head of the sleeping queue has been mapped anew.  Either    *)
(* way the task becomes the next one of its level.                         *)
AwakeVia(k, t, e) ==
    LET out == [k EXCEPT !.ccb.hd_blocked = IF @ = t THEN k.tcb[t].next ELSE @,
                         !.ccb.hd_timerq = IF @ = t THEN k.tcb[t].next ELSE @,
                         !.tcb[t].alarmusec = IF k.ccb.hd_timerq = t THEN 0 ELSE @]
        in == sched_add([out EXCEPT !.tcb = Unlink(out.tcb, e)], e)
    IN IF k.tcb[t].state = "running"
       THEN [k EXCEPT !.ccb.cr_active[Prio[t]] = t]
       ELSE [in EXCEPT !.ccb.cr_active[Prio[e]] = e]

sched_awake(k, t) == AwakeVia(k, t, t)

(* sched_pick wakes the head of the sleeping queue through LDYN_tcbalarm,  *)
(* which is where sched_awake maps the new head before it goes on.         *)
AwakeAlarm(k) ==
    LET t == k.ccb.hd_timerq
        n == k.tcb[t].next
    IN AwakeVia(k, t, IF n = None THEN t ELSE n)

sched_block(k, t) ==
    LET out == sched_remove(k, t)
    IN IF k.tcb[t].state # "running" THEN k
       ELSE [out EXCEPT !.ccb.hd_blocked = t,
                        !.tcb = [Link(out.tcb, t, out.ccb.hd_blocked)
                                    EXCEPT ![t].state = "blocked"]]

(* The n-th task of the list that begins with h. *)
Walk(tasks, h) ==
    LET nth[n \in 0..Cardinality(Task)] ==
            IF n = 0 THEN h
            ELSE IF nth[n - 1] = None THEN None ELSE tasks[nth[n - 1]].next
    IN nth
Members(tasks, h) == {Walk(tasks, h)[n] : n \in 0..Cardinality(Task)} \ {None}

(* t goes behind everybody who is to be woken no later.  The count of      *)
(* ticks starts again when nobody sleeps.  No prev is set.                 *)
sched_delay(k, t, usec) ==
    LET out == sched_remove(k, t)
        ticks == IF out.ccb.hd_timerq = None THEN 0 ELSE out.ccb.sched_ticks
        q == Walk(out.tcb, out.ccb.hd_timerq)
        pos == Min({n \in DOMAIN q :
                      q[n] = None \/ ticks + usec < out.tcb[q[n]].alarmusec})
        in == [out EXCEPT !.ccb.sched_ticks = ticks,
                          !.tcb[t].state = "blocked",
                          !.tcb[t].alarmusec = ticks + usec,
                          !.tcb[t].next = q[pos]]
    IN IF k.tcb[t].state # "running" THEN k
       ELSE IF pos = 0 THEN [in EXCEPT !.ccb.hd_timerq = t]
       ELSE [in EXCEPT !.tcb[q[pos - 1]].next = t]
-----------------------------------------------------------------------------
(* The choice of the next task. *)

Priority(t) == IF t = Idle THEN PRI_IDLE + 1 ELSE Prio[t]

(* The end of sched_pick: another task is switched to and the timer set,   *)
(* for the next alarm or the end of the time slice, whichever is first.    *)
Switch(k, t) ==
    LET h == k.ccb.hd_timerq
        wait == IF h # None /\ (Priority(t) > PRI_DRV \/ Prio[h] <= Priority(t))
                THEN k.tcb[h].alarmusec - k.ccb.sched_ticks ELSE 0
        delta == IF Priority(t) > PRI_DRV /\ t # Idle /\ (wait <= 0 \/ wait > quantum)
                 THEN quantum ELSE wait
    IN IF k.ccb.current = t THEN k
       ELSE IF t = Wild \/ k.runlevel # "norm" THEN [k EXCEPT !.ccb.current = t]
       ELSE [k EXCEPT !.ccb.current = t,
                      !.ccb.sched_delta = delta,
                      !.ccb.armed = delta # 0]

(* Fault: the cursor stays where it is. *)
Take_stays(k, i) ==
    LET t == k.ccb.cr_active[i]
    IN IF t = None THEN Switch(k, Wild) ELSE Switch(k, t)

(* The task at the cursor of level i, and the cursor moves on. *)
Take(k, i) ==
    LET t == k.ccb.cr_active[i]
    IN IF t = None THEN Switch(k, Wild)
       ELSE Switch([k EXCEPT !.ccb.cr_active[i] = k.tcb[t].next], t)

(* A sleeping task of level i is due; level i is in the middle of a round. *)
Due(k, i) == LET h == k.ccb.hd_timerq
             IN h # None /\ Prio[h] = i /\ k.tcb[h].alarmusec <= k.ccb.sched_ticks
(* Fault: empty levels are not skipped. *)
Busy_all(k) == Level
Busy(k) == {i \in Level : k.ccb.hd_active[i] # None}
Stops(k) == {i \in Level : Due(k, i) \/ (i \in Busy(k) /\ k.ccb.cr_active[i] # None)}

(* Fault: the level the search stops at begins a new round, too. *)
Rewind_stop(k, i) ==
    [k EXCEPT !.ccb.cr_active =
        [j \in Level |-> IF j <= i /\ j \in Busy(k) THEN k.ccb.hd_active[j] ELSE @[j]]]

(* The levels above i had finished their round and begin a new one. *)
Rewind(k, i) ==
    [k EXCEPT !.ccb.cr_active =
        [j \in Level |-> IF j < i /\ j \in Busy(k) THEN k.ccb.hd_active[j] ELSE @[j]]]

(* drivers_ready: every task has blocked, the boot is over. *)
drivers_ready(k) == [sched_awake(k, FS) EXCEPT !.runlevel = "norm"]

sched_pick(k) ==
    IF Stops(k) # {}
    THEN LET i == Min(Stops(k))
             r == Rewind(k, i)
         IN Take(IF Due(k, i) THEN AwakeAlarm(r) ELSE r, i)
    ELSE IF Busy(k) # {} THEN Take(Rewind(k, PRI_IDLE), Min(Busy(k)))
    ELSE IF k.runlevel = "coop" THEN Take(drivers_ready(k), Prio[FS])
    ELSE Switch(k, Idle)
-----------------------------------------------------------------------------
Init ==
    /\ ccb = [hd_active |-> [i \in Level |-> None], cr_active |-> [i \in Level |-> None],
              hd_blocked |-> None, hd_timerq |-> None, current |-> None,
              sched_ticks |-> 0, sched_delta |-> 0, armed |-> FALSE]
    /\ tcb = [t \in Task |-> [prev |-> None, next |-> None, state |-> "new", alarmusec |-> 0]]
    /\ runlevel = "load"
    /\ left = [t \in Task |-> 0]
    /\ waited = [t \in Task |-> 0]

Commit(k) == ccb' = k.ccb /\ tcb' = k.tcb /\ runlevel' = k.runlevel

(* A pick counts for the tasks it passes over, unless it wakes somebody. *)
Counted(k) ==
    LET woken == \E t \in Task : tcb[t].state = "blocked" /\ k.tcb[t].state = "running"
    IN waited' = [t \in Task |->
           IF woken \/ k.tcb[t].state # "running" \/ k.ccb.current = t THEN 0
           ELSE IF waited[t] = MaxWait THEN MaxWait ELSE waited[t] + 1]
Forgotten == waited' = [t \in Task |-> 0]

Alive(t) == tcb[t].state \in {"running", "blocked"}

(* service_add and drivers_add of drivers_init, the file system first. *)
Load(t) ==
    /\ runlevel = "load" /\ tcb[t].state = "new"
    /\ t = FS \/ tcb[FS].state # "new"
    /\ Commit(sched_add(kernel, t))
    /\ UNCHANGED <<left, waited>>

(* The end of drivers_init: the file system runs without being picked. *)
Start ==
    /\ runlevel = "load" /\ \A t \in Task : tcb[t].state # "new"
    /\ runlevel' = "coop"
    /\ UNCHANGED <<ccb, tcb, left, waited>>

OnCPU(t) == /\ runlevel # "load"
            /\ ccb.current = t \/ (ccb.current = None /\ t = FS)

(* The system calls of the task on the CPU: SYS_yield, SYS_recv with no    *)
(* message in the queue, a message sent to another task, SYS_usleep, which *)
(* returns to the caller, and SYS_exit with its EVT_exit for the services. *)
yield(t) ==
    /\ OnCPU(t)
    /\ Commit(sched_pick(kernel))
    /\ Counted(sched_pick(kernel))
    /\ UNCHANGED left

recv(t) ==
    LET k == sched_pick(sched_block(kernel, t))
    IN /\ OnCPU(t)
       /\ Commit(k)
       /\ Counted(k)
       /\ UNCHANGED left

send(t, u) ==
    /\ OnCPU(t) /\ u # t /\ Alive(u)
    /\ Commit(sched_awake(kernel, u))
    /\ Forgotten
    /\ UNCHANGED left

Asleep == Members(tcb, ccb.hd_timerq)

usleep(t, usec) ==
    LET k == sched_delay(kernel, t, usec)
    IN /\ OnCPU(t) /\ runlevel = "norm"
       /\ Cardinality(Asleep) < MaxSleepers /\ k.tcb[t].alarmusec <= MaxTicks
       /\ Commit(k)
       /\ left' = IF tcb[t].state = "running" THEN [left EXCEPT ![t] = usec] ELSE left
       /\ Forgotten

exit(t) ==
    LET gone == sched_remove(sched_awake(kernel, FS), t)
        k == sched_pick([gone EXCEPT !.tcb[t].state = "dead"])
    IN /\ OnCPU(t)
       /\ Commit(k)
       /\ left' = [left EXCEPT ![t] = 0]
       /\ Forgotten

(* drivers_intr and clock_intr: the handler is notified and a task picked. *)
drivers_intr(t) ==
    /\ runlevel = "norm" /\ Alive(t)
    /\ Commit(sched_pick(sched_awake(kernel, t)))
    /\ Forgotten
    /\ UNCHANGED left

(* The timer has run down.  intr_nextsched never sets it to more than the  *)
(* quantum, but the whole sched_delta is added to the ticks; they count    *)
(* only while somebody sleeps.                                             *)
sched_intr ==
    LET ticks == IF ccb.hd_timerq = None THEN 0 ELSE ccb.sched_ticks + ccb.sched_delta
        k == sched_pick([kernel EXCEPT !.ccb.sched_ticks = ticks, !.ccb.armed = ~OneShot])
        time == IF ccb.sched_delta \in 0..quantum THEN ccb.sched_delta ELSE quantum
    IN /\ ccb.armed /\ ccb.sched_ticks <= MaxTicks
       /\ Commit(k)
       /\ Counted(k)
       /\ left' = [t \in Task |-> IF t \in Asleep THEN Max({0, left[t] - time}) ELSE left[t]]

Next ==
    \/ \E t \in Task : Load(t) \/ yield(t) \/ recv(t)
    \/ Start
    \/ \E t \in Sender, u \in Task : send(t, u)
    \/ \E t \in Sleeper, usec \in Usec : usleep(t, usec)
    \/ \E t \in Exiting : exit(t)
    \/ \E t \in Notified : drivers_intr(t)
    \/ sched_intr

Spec == Init /\ [][Next]_vars

(* The timer is hardware: once set it runs down.  A task that is never     *)
(* preempted waits for its next message sooner or later.                   *)
FairSpec ==
    /\ Spec
    /\ WF_vars(sched_intr)
    /\ \A t \in Task : Prio[t] <= PRI_DRV => WF_vars(recv(t))
-----------------------------------------------------------------------------
(* The variables keep their types; no page that is not a task control      *)
(* block is ever run.                                                      *)
TypeOK ==
    /\ ccb \in [hd_active : [Level -> Task \union {None}],
                cr_active : [Level -> Task \union {None}],
                hd_blocked : Task \union {None}, hd_timerq : Task \union {None},
                current : Task \union {None, Idle},
                sched_ticks : Nat, sched_delta : Int, armed : BOOLEAN]
    /\ tcb \in [Task -> [prev : Task \union {None}, next : Task \union {None},
                         state : {"new", "running", "blocked", "dead"}, alarmusec : Nat]]
    /\ runlevel \in {"load", "coop", "norm"}
    /\ left \in [Task -> Nat]
    /\ waited \in [Task -> 0..MaxWait]

(* The fields prev and next of the list that begins with h fit together. *)
Doubly(h) ==
    /\ h # None => tcb[h].prev = None
    /\ \A t \in Members(tcb, h) : tcb[t].next # None => tcb[tcb[t].next].prev = t

(* Every task is in exactly the list its state says: sched_awake moves a   *)
(* blocked or sleeping task to the active list of its level, sched_block   *)
(* and sched_delay move it away, from whatever place in whatever list, no  *)
(* task is lost on the way, and the lists stay doubly linked.              *)
TasksInLists ==
    /\ \A i \in Level : Members(tcb, ccb.hd_active[i]) =
                            {t \in Task : tcb[t].state = "running" /\ Prio[t] = i}
    /\ Members(tcb, ccb.hd_blocked) \union Asleep = {t \in Task : tcb[t].state = "blocked"}
    /\ Members(tcb, ccb.hd_blocked) \intersect Asleep = {}
    /\ \A i \in Level : Doubly(ccb.hd_active[i])
    /\ Doubly(ccb.hd_blocked)

(* A cursor never points to a task that has left its level: blocked, gone  *)
(* to sleep or exited between two picks.                                   *)
CursorsValid ==
    \A i \in Level : ccb.cr_active[i] = None
                     \/ ccb.cr_active[i] \in Members(tcb, ccb.hd_active[i])

(* Time is shared as docs/scheduler.en.md says: a level with n tasks gives *)
(* every (n+1)st slice to the levels below it.  So between two wake-ups no *)
(* running task is passed over more often than the levels down to its own  *)
(* account for, whoever yields, blocks or is preempted meanwhile.          *)
Turns(i) == Cardinality({t \in Task : Prio[t] = i}) + 1
Share(t) == MapThenFoldSet(LAMBDA a, b : a * b, 1, Turns, LAMBDA S : CHOOSE i \in S : TRUE, 0..Prio[t])
BoundedWait == \A t \in Task : waited[t] < Share(t)

(* No task starves: who is not blocked runs sooner or later. *)
NoStarvation ==
    \A t \in Task : []<>(ccb.current = t \/ tcb[t].state # "running" \/ runlevel # "norm")

(* Nobody starves once interrupts stop moving the cursors: the timer set   *)
(* by sched_pick is enough to go through all levels again and again.       *)
SharedFairly == <>[][\A t \in Notified : ~drivers_intr(t)]_vars => NoStarvation

(* A task that can be preempted while others wait is preempted: the timer  *)
(* is set.                                                                 *)
SliceEnds ==
    (/\ runlevel = "norm" /\ ccb.current \in Task
     /\ Prio[ccb.current] > PRI_DRV
     /\ \E t \in Task \ {ccb.current} : tcb[t].state = "running")
    => ccb.armed

(* The timer does not wake a task before the time it asked for. *)
NotEarly == [][sched_intr => \A t \in Asleep \ Asleep' : left'[t] = 0]_vars

(* A task that leaves the sleeping queue runs again, or has exited. *)
AlarmWakes == [][\A t \in Asleep \ Asleep' : tcb'[t].state # "blocked"]_vars

(* A task that has called usleep does not run until it is woken. *)
SleepersOff ==
    \A t \in Task : ccb.current = t => tcb[t].state = "running"
=============================================================================
