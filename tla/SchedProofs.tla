---------------------------- MODULE SchedProofs -----------------------------
(***************************************************************************)
(* Proofs about the lists of the scheduler, for any tasks, levels and      *)
(* priorities, and any order of the system calls and interrupts.           *)
(***************************************************************************)
EXTENDS Sched, Induction, FiniteSetTheorems, TLAPS

-----------------------------------------------------------------------------
(* The members of a list *)

Ref == Task \cup {None}

(* The walk over a list, as the definition means it. *)
LEMMA WalkIs ==
  ASSUME NEW tasks, \A t \in Task : tasks[t].next \in Ref, NEW h \in Ref
  PROVE  /\ Walk(tasks, h) \in [0..Cardinality(Task) -> Ref]
         /\ Walk(tasks, h)[0] = h
         /\ \A n \in 1..Cardinality(Task) :
              Walk(tasks, h)[n] = IF Walk(tasks, h)[n - 1] = None THEN None
                                  ELSE tasks[Walk(tasks, h)[n - 1]].next
  <1>. DEFINE m == Cardinality(Task)
              F == [x \in Ref |-> IF x = None THEN None ELSE tasks[x].next]
              E(f) == [n \in 0..m |-> IF n = 0 THEN h
                         ELSE IF f[n - 1] = None THEN None ELSE tasks[f[n - 1]].next]
  <1>1. m \in Nat
    BY TasksFinite, FS_CardinalityType
  <1>2. F \in [Ref -> Ref]
    BY DEF Ref
  <1>3. PICK g \in [0..m -> Ref] : g[0] = h /\ \A n \in 1..m : g[n] = F[g[n - 1]]
    <2>1. Orbit(Ref, F, h, m) # {}
      <3>. HIDE DEF F, m
      <3>. QED BY <1>1, <1>2, Iterated
    <2>. HIDE DEF F, m
    <2>. QED BY <2>1 DEF Orbit
  <1>4. g = E(g)
    <2>1. \A n \in 1..m : g[n - 1] \in Ref
      BY <1>1
    <2>2. \A n \in 0..m : g[n] = IF n = 0 THEN h
                                 ELSE IF g[n - 1] = None THEN None ELSE tasks[g[n - 1]].next
      <3>1. \A n \in 1..m : g[n] = IF g[n - 1] = None THEN None ELSE tasks[g[n - 1]].next
        BY <1>3, <2>1
      <3>2. \A n \in 0..m : n = 0 \/ n \in 1..m
        BY <1>1
      <3>. QED BY <1>3, <3>1, <3>2
    <2>. HIDE DEF m
    <2>. QED BY <2>2
  <1>5. Walk(tasks, h) = CHOOSE f : f = E(f)
    BY Zenon DEF Walk
  <1>6. Walk(tasks, h) = E(Walk(tasks, h))
    <2>. HIDE DEF E
    <2>. QED BY <1>4, <1>5, Zenon
  <1>7. Walk(tasks, h) \in [0..m -> Ref]
    <2>. DEFINE f == Walk(tasks, h)
                S == {n \in Nat : n <= m => f[n] \in Ref}
    <2>. HIDE DEF m
    <2>0. f = [n \in 0..m |-> IF n = 0 THEN h
                 ELSE IF f[n - 1] = None THEN None ELSE tasks[f[n - 1]].next]
      BY <1>6
    <2>. HIDE DEF f
    <2>1. 0 \in S
      BY <1>1, <2>0
    <2>2. ASSUME NEW n \in Nat, n \in S PROVE n + 1 \in S
      <3>1. CASE n + 1 <= m
        <4>1. f[n] \in Ref /\ n + 1 \in 0..m /\ n + 1 # 0 /\ (n + 1) - 1 = n
          BY <1>1, <2>2, <3>1
        <4>2. f[n + 1] = IF f[n] = None THEN None ELSE tasks[f[n]].next
          BY <2>0, <4>1
        <4>3. f[n + 1] \in Ref
          BY <4>1, <4>2 DEF Ref
        <4>. QED BY <4>3
      <3>2. CASE ~(n + 1 <= m)
        BY <3>2
      <3>. QED BY <3>1, <3>2
    <2>3. \A n \in 0..m : f[n] \in Ref
      <3>1. Nat \subseteq S
        <4>. HIDE DEF S
        <4>. QED BY <2>1, <2>2, InductionSet
      <3>. QED BY <1>1, <3>1
    <2>4. f \in [0..m -> Ref]
      BY <2>0, <2>3
    <2>. QED BY <2>4 DEF f
  <1>. QED BY <1>1, <1>6, <1>7

(* A list whose links lead from lower to higher ranks, within a set M and  *)
(* to everyone in M but the head, has exactly the members M.               *)
LEMMA MembersAre ==
  ASSUME NEW tasks, \A t \in Task : tasks[t].next \in Ref,
         NEW rank \in [Task -> Nat], NEW M \in SUBSET Task,
         NEW h \in Ref, h # None => h \in M,
         \A t \in M : tasks[t].next # None =>
             tasks[t].next \in M /\ rank[t] < rank[tasks[t].next],
         \A t \in M : t = h \/ \E u \in M : tasks[u].next = t
  PROVE  Members(tasks, h) = M
  <1>. DEFINE m == Cardinality(Task)
              w == Walk(tasks, h)
  <1>0. m \in Nat /\ None \notin Task
    BY TasksFinite, TaskAssumption, FS_CardinalityType
  <1>w. /\ w \in [0..m -> Ref] /\ w[0] = h
        /\ \A n \in 1..m : w[n] = IF w[n - 1] = None THEN None ELSE tasks[w[n - 1]].next
    BY WalkIs
  <1>. HIDE DEF m, w
  <1>s. \A n \in Nat : n + 1 <= m =>
          /\ n \in 0..m /\ n + 1 \in 0..m
          /\ w[n + 1] = IF w[n] = None THEN None ELSE tasks[w[n]].next
    BY <1>0, <1>w
  <1>1. \A n \in 0..m : w[n] = None \/ w[n] \in M
    <2>. DEFINE S == {n \in Nat : n <= m => w[n] = None \/ w[n] \in M}
    <2>1. 0 \in S
      BY <1>w DEF Ref
    <2>2. \A n \in Nat : n \in S => n + 1 \in S
      BY <1>0, <1>s
    <2>3. Nat \subseteq S
      <3>. HIDE DEF S
      <3>. QED BY <2>1, <2>2, InductionSet
    <2>. QED BY <1>0, <2>3
  <1>2. ASSUME NEW j \in 0..m, w[j] # None PROVE j < m
    <2>. DEFINE S == {n \in Nat : n <= j =>
                        \A i \in 0..n : i < n => w[n] = None \/
                            (w[i] # None /\ rank[w[i]] < rank[w[n]])}
    <2>1. 0 \in S
      OBVIOUS
    <2>2. ASSUME NEW n \in Nat, n \in S PROVE n + 1 \in S
      <3>. SUFFICES ASSUME n + 1 <= j, NEW i \in 0..(n + 1), i < n + 1, w[n + 1] # None
                    PROVE  w[i] # None /\ rank[w[i]] < rank[w[n + 1]]
        OBVIOUS
      <3>1. n \in 0..m /\ w[n] # None /\ w[n + 1] = tasks[w[n]].next
        BY <1>0, <1>s
      <3>2. w[n] \in M /\ rank[w[n]] < rank[w[n + 1]] /\ w[n + 1] \in M
        BY <1>1, <3>1
      <3>3. CASE i = n
        BY <3>1, <3>2, <3>3
      <3>4. CASE i # n
        <4>1. i \in 0..n /\ i < n /\ n <= j /\ i \in 0..m
          BY <1>0, <3>1, <3>4
        <4>2. w[i] # None /\ rank[w[i]] < rank[w[n]]
          BY <2>2, <3>1, <4>1
        <4>3. w[i] \in M
          BY <1>1, <4>1, <4>2
        <4>4. rank[w[i]] \in Nat /\ rank[w[n]] \in Nat /\ rank[w[n + 1]] \in Nat
          BY <3>2, <4>3
        <4>. QED BY <3>2, <4>2, <4>4
      <3>. QED BY <3>3, <3>4
    <2>3. Nat \subseteq S
      <3>. HIDE DEF S
      <3>. QED BY <2>1, <2>2, InductionSet
    <2>4. ASSUME NEW n \in 0..j, NEW i \in 0..j, i < n, w[n] # None
          PROVE  w[i] # None /\ rank[w[i]] < rank[w[n]]
      BY <1>0, <2>3, <2>4
    <2>5. \A i \in 0..j : w[i] \in M
      <3>. SUFFICES ASSUME NEW i \in 0..j PROVE w[i] \in M
        OBVIOUS
      <3>1. i < j => w[i] # None
        BY <1>0, <1>2, <2>4
      <3>2. w[i] # None /\ i \in 0..m
        BY <1>0, <1>2, <3>1
      <3>. QED BY <1>1, <3>2
    <2>6. \A n, i \in 0..j : w[i] = w[n] => i = n
      <3>. SUFFICES ASSUME NEW n \in 0..j, NEW i \in 0..j, w[i] = w[n], i < n PROVE FALSE
        BY <1>0
      <3>1. rank[w[i]] < rank[w[n]] /\ rank[w[n]] \in Nat
        BY <1>0, <2>4, <2>5
      <3>. QED BY <3>1
    <2>. DEFINE f == [i \in 0..j |-> w[i]]
    <2>7. f \in Injection(0..j, Task)
      BY <2>5, <2>6 DEF Injection, IsInjective
    <2>8. Cardinality(0..j) <= m
      <3>. HIDE DEF f
      <3>. QED BY <2>7, TasksFinite, FS_Injection DEF m
    <2>9. Cardinality(0..j) = j + 1
      BY <1>0, FS_Interval
    <2>. QED BY <1>0, <2>8, <2>9
  <1>3. ASSUME NEW t \in M PROVE \E j \in 0..m : w[j] = t
    <2>. DEFINE S == {n \in Nat : \A u \in M : rank[u] <= n => \E j \in 0..m : w[j] = u}
    <2>0. ASSUME NEW u \in M, NEW v \in M, tasks[v].next = u, NEW j \in 0..m, w[j] = v
          PROVE  \E i \in 0..m : w[i] = u
      <3>1. v # None /\ j < m
        BY <1>0, <1>2, <2>0
      <3>2. j + 1 \in 0..m /\ w[j + 1] = u
        BY <1>0, <1>s, <2>0, <3>1
      <3>. QED BY <3>2
    <2>h. \E i \in 0..m : w[i] = h
      BY <1>0, <1>w
    <2>1. 0 \in S
      <3>. SUFFICES ASSUME NEW u \in M, rank[u] <= 0 PROVE \E j \in 0..m : w[j] = u
        OBVIOUS
      <3>1. u # None /\ rank[u] \in Nat /\ \A v \in M : rank[v] \in Nat
        BY <1>0
      <3>2. \A v \in M : tasks[v].next # u
        BY <3>1
      <3>. QED BY <2>h, <3>2
    <2>2. ASSUME NEW n \in Nat, n \in S PROVE n + 1 \in S
      <3>. SUFFICES ASSUME NEW u \in M, rank[u] <= n + 1 PROVE \E j \in 0..m : w[j] = u
        OBVIOUS
      <3>1. CASE u = h
        BY <2>h, <3>1
      <3>2. ASSUME NEW v \in M, tasks[v].next = u PROVE \E j \in 0..m : w[j] = u
        <4>1. rank[v] < rank[u] /\ rank[v] \in Nat /\ rank[u] \in Nat
          BY <1>0, <3>2
        <4>2. rank[v] <= n
          BY <4>1
        <4>3. PICK j \in 0..m : w[j] = v
          BY <2>2, <4>2
        <4>. QED BY <2>0, <3>2, <4>3
      <3>. QED BY <3>1, <3>2
    <2>3. Nat \subseteq S
      <3>. HIDE DEF S
      <3>. QED BY <2>1, <2>2, InductionSet
    <2>4. rank[t] \in S
      BY <2>3
    <2>5. rank[t] <= rank[t]
      BY <2>4
    <2>. QED BY <2>4, <2>5
  <1>4. Members(tasks, h) = {w[n] : n \in 0..m} \ {None}
    BY DEF Members, w, m
  <1>. QED BY <1>0, <1>1, <1>3, <1>4

-----------------------------------------------------------------------------
(* The inductive invariant *)

State == {"new", "running", "blocked", "dead"}

Ccb == [hd_active : [Level -> Ref], cr_active : [Level -> Ref],
        hd_blocked : Ref, hd_timerq : Ref, current : Ref \cup {Idle},
        sched_ticks : Nat, sched_delta : Nat, armed : BOOLEAN]
Tcbs == [Task -> [prev : Ref, next : Ref, state : State, alarmusec : Nat]]
Kernel == [ccb : Ccb, tcb : Tcbs, runlevel : {"load", "coop", "norm"}]

(* The links of the tasks.  rank orders every list; the tasks in out have  *)
(* been taken out of their list and not put into another one yet.          *)
Links(k, rank, out) ==
    \A t \in Task :
        LET n == k.tcb[t].next
            p == k.tcb[t].prev
            s == k.tcb[t].state
        IN /\ n # None => /\ k.tcb[n].prev = t /\ rank[t] < rank[n]
                          /\ k.tcb[n].state = s /\ (s = "running" => Prio[n] = Prio[t])
           /\ p # None => k.tcb[p].next = t
           /\ t \in out \/ s \in {"new", "dead"} => n = None /\ p = None
           /\ p = None /\ t \notin out =>
                /\ s = "running" => k.ccb.hd_active[Prio[t]] = t
                /\ s = "blocked" => t = k.ccb.hd_blocked \/ t = k.ccb.hd_timerq

(* The heads of the lists and the cursors.  The queue of the sleeping      *)
(* tasks has one task at most.                                             *)
Heads(k, out) ==
    /\ \A i \in Level :
          LET h == k.ccb.hd_active[i]
              c == k.ccb.cr_active[i]
          IN /\ h # None => /\ h \notin out /\ Prio[h] = i
                            /\ k.tcb[h].state = "running" /\ k.tcb[h].prev = None
             /\ c # None => c \notin out /\ Prio[c] = i /\ k.tcb[c].state = "running"
    /\ LET h == k.ccb.hd_blocked
       IN h # None => /\ h \notin out /\ h # k.ccb.hd_timerq
                      /\ k.tcb[h].state = "blocked" /\ k.tcb[h].prev = None
    /\ LET h == k.ccb.hd_timerq
       IN h # None => /\ h \notin out /\ k.tcb[h].state = "blocked"
                      /\ k.tcb[h].prev = None /\ k.tcb[h].next = None

(* The lists of a kernel are in order, the tasks in out apart. *)
Ordered(k, out) ==
    /\ k \in Kernel
    /\ \E rank \in [Task -> Nat] : Links(k, rank, out)
    /\ Heads(k, out)

(* The file system, once started, never ends. *)
FsAlive(k) == \/ k.tcb[FS].state \in {"running", "blocked"}
              \/ k.runlevel = "load" /\ k.tcb[FS].state = "new"

KernelInv(k) == Ordered(k, {}) /\ FsAlive(k)

(* The constants that stand for no task are not tasks. *)
LEMMA Basics ==
  /\ None \notin Task /\ Idle \notin Task /\ None # Idle /\ None \in Ref /\ Task \subseteq Ref
  /\ FS \in Task
  /\ \A t \in Task : Prio[t] \in Level
  /\ \A r \in Ref : r # None => r \in Task
  BY TaskAssumption, LevelAssumption DEF Ref

(* From the invariant to the properties. *)
LEMMA ListsFollow ==
  ASSUME NEW k, Ordered(k, {})
  PROVE  /\ \A i \in Level : Members(k.tcb, k.ccb.hd_active[i]) =
                {t \in Task : k.tcb[t].state = "running" /\ Prio[t] = i}
         /\ Members(k.tcb, k.ccb.hd_blocked) =
                {t \in Task : k.tcb[t].state = "blocked" /\ t # k.ccb.hd_timerq}
         /\ Members(k.tcb, k.ccb.hd_timerq) = {t \in Task : t = k.ccb.hd_timerq}
  <1>0. k \in Kernel /\ Heads(k, {})
    BY DEF Ordered
  <1>1. PICK rank \in [Task -> Nat] : Links(k, rank, {})
    BY DEF Ordered
  <1>2. /\ \A t \in Task : k.tcb[t].next \in Ref /\ k.tcb[t].prev \in Ref
        /\ \A i \in Level : k.ccb.hd_active[i] \in Ref
        /\ k.ccb.hd_blocked \in Ref /\ k.ccb.hd_timerq \in Ref
    BY <1>0 DEF Kernel, Ccb, Tcbs
  <1>3. ASSUME NEW i \in Level
        PROVE  Members(k.tcb, k.ccb.hd_active[i]) =
                  {t \in Task : k.tcb[t].state = "running" /\ Prio[t] = i}
    <2>. DEFINE M == {t \in Task : k.tcb[t].state = "running" /\ Prio[t] = i}
                h == k.ccb.hd_active[i]
    <2>1. M \in SUBSET Task /\ h \in Ref /\ (h # None => h \in M)
      BY <1>0, <1>2, Basics DEF Heads
    <2>2. \A t \in M : k.tcb[t].next # None =>
             k.tcb[t].next \in M /\ rank[t] < rank[k.tcb[t].next]
      BY <1>1, <1>2, Basics DEF Links
    <2>3. \A t \in M : t = h \/ \E u \in M : k.tcb[u].next = t
      BY <1>1, <1>2, Basics DEF Links
    <2>. HIDE DEF M, h
    <2>4. Members(k.tcb, h) = M
      BY <1>2, <2>1, <2>2, <2>3, MembersAre
    <2>. QED BY <2>4 DEF M, h
  <1>4. Members(k.tcb, k.ccb.hd_blocked) =
                {t \in Task : k.tcb[t].state = "blocked" /\ t # k.ccb.hd_timerq}
    <2>. DEFINE M == {t \in Task : k.tcb[t].state = "blocked" /\ t # k.ccb.hd_timerq}
                h == k.ccb.hd_blocked
    <2>1. M \in SUBSET Task /\ h \in Ref /\ (h # None => h \in M)
      BY <1>0, <1>2, Basics DEF Heads
    <2>2. \A t \in M : k.tcb[t].next # None =>
             k.tcb[t].next \in M /\ rank[t] < rank[k.tcb[t].next]
      BY <1>0, <1>1, <1>2, Basics DEF Links, Heads
    <2>3. \A t \in M : t = h \/ \E u \in M : k.tcb[u].next = t
      BY <1>0, <1>1, <1>2, Basics DEF Links, Heads
    <2>. HIDE DEF M, h
    <2>4. Members(k.tcb, h) = M
      BY <1>2, <2>1, <2>2, <2>3, MembersAre
    <2>. QED BY <2>4 DEF M, h
  <1>5. Members(k.tcb, k.ccb.hd_timerq) = {t \in Task : t = k.ccb.hd_timerq}
    <2>. DEFINE M == {t \in Task : t = k.ccb.hd_timerq}
                h == k.ccb.hd_timerq
    <2>1. M \in SUBSET Task /\ h \in Ref /\ (h # None => h \in M)
      BY <1>2, Basics
    <2>2. \A t \in M : k.tcb[t].next # None =>
             k.tcb[t].next \in M /\ rank[t] < rank[k.tcb[t].next]
      BY <1>0, <1>2, Basics DEF Heads
    <2>3. \A t \in M : t = h \/ \E u \in M : k.tcb[u].next = t
      OBVIOUS
    <2>. HIDE DEF M, h
    <2>4. Members(k.tcb, h) = M
      BY <1>2, <2>1, <2>2, <2>3, MembersAre
    <2>. QED BY <2>4 DEF M, h
  <1>. QED BY <1>3, <1>4, <1>5

-----------------------------------------------------------------------------
(* Taking a task out of its list and putting it into one *)

(* Taking a task out joins its neighbours and changes no other field. *)
LEMMA UnlinkIs ==
  ASSUME NEW T \in Tcbs, NEW t \in Task
  PROVE  /\ Unlink(T, t) \in Tcbs
         /\ \A u \in Task :
              /\ Unlink(T, t)[u].next = IF u = t THEN None
                                        ELSE IF u = T[t].prev THEN T[t].next ELSE T[u].next
              /\ Unlink(T, t)[u].prev = IF u = t THEN None
                                        ELSE IF u = T[t].next THEN T[t].prev ELSE T[u].prev
              /\ Unlink(T, t)[u].state = T[u].state
              /\ Unlink(T, t)[u].alarmusec = T[u].alarmusec
  BY Basics DEF Unlink, Tcbs

(* Putting a task in front of h. *)
LEMMA LinkIs ==
  ASSUME NEW T \in Tcbs, NEW t \in Task, NEW h \in Ref, h # t
  PROVE  /\ Link(T, t, h) \in Tcbs
         /\ \A u \in Task :
              /\ Link(T, t, h)[u].next = IF u = t THEN h ELSE T[u].next
              /\ Link(T, t, h)[u].prev = IF u = t THEN None ELSE IF u = h THEN t ELSE T[u].prev
              /\ Link(T, t, h)[u].state = T[u].state
              /\ Link(T, t, h)[u].alarmusec = T[u].alarmusec
  <1>. DEFINE linked == [T EXCEPT ![t].prev = None, ![t].next = h]
  <1>1. /\ linked \in Tcbs
        /\ \A u \in Task : /\ linked[u].next = IF u = t THEN h ELSE T[u].next
                           /\ linked[u].prev = IF u = t THEN None ELSE T[u].prev
                           /\ linked[u].state = T[u].state
                           /\ linked[u].alarmusec = T[u].alarmusec
    BY Basics DEF Tcbs
  <1>. HIDE DEF linked
  <1>2. CASE h = None
    <2>1. Link(T, t, h) = linked
      BY <1>2 DEF Link, linked
    <2>2. \A u \in Task : u # h
      BY <1>2, Basics
    <2>. QED BY <1>1, <2>1, <2>2
  <1>3. CASE h # None
    <2>1. h \in Task
      BY <1>3, Basics
    <2>2. Link(T, t, h) = [linked EXCEPT ![h].prev = t]
      BY <1>3 DEF Link, linked
    <2>. QED BY <1>1, <2>1, <2>2, Basics DEF Tcbs
  <1>. QED BY <1>2, <1>3

(* r is k with task t taken out of its list: what the functions of sched.c *)
(* do to the links, the heads and the cursors.                             *)
TakenOut(k, r, t) ==
    LET n == k.tcb[t].next
        p == k.tcb[t].prev
    IN /\ r \in Kernel
       /\ \A u \in Task :
             /\ r.tcb[u].next = IF u = t THEN None ELSE IF u = p THEN n ELSE k.tcb[u].next
             /\ r.tcb[u].prev = IF u = t THEN None ELSE IF u = n THEN p ELSE k.tcb[u].prev
             /\ r.tcb[u].state = k.tcb[u].state
       /\ \A i \in Level :
             /\ r.ccb.hd_active[i] = IF k.ccb.hd_active[i] = t THEN n ELSE k.ccb.hd_active[i]
             /\ r.ccb.cr_active[i] = IF k.ccb.cr_active[i] = t THEN n ELSE k.ccb.cr_active[i]
       /\ r.ccb.hd_blocked = IF k.ccb.hd_blocked = t THEN n ELSE k.ccb.hd_blocked
       /\ r.ccb.hd_timerq = IF k.ccb.hd_timerq = t THEN n ELSE k.ccb.hd_timerq

(* The lists without a task are in order. *)
LEMMA TakenOutOrdered ==
  ASSUME NEW k, NEW r, NEW t \in Task, Ordered(k, {}), TakenOut(k, r, t)
  PROVE  Ordered(r, {t})
  <1>. DEFINE n == k.tcb[t].next
              p == k.tcb[t].prev
  <1>0. k \in Kernel /\ r \in Kernel /\ Heads(k, {})
    BY DEF Ordered, TakenOut
  <1>1. PICK rank \in [Task -> Nat] : Links(k, rank, {})
    BY DEF Ordered
  <1>2. /\ \A u \in Task : k.tcb[u].next \in Ref /\ k.tcb[u].prev \in Ref
        /\ \A i \in Level : k.ccb.hd_active[i] \in Ref /\ k.ccb.cr_active[i] \in Ref
        /\ k.ccb.hd_blocked \in Ref /\ k.ccb.hd_timerq \in Ref
        /\ \A u \in Task : rank[u] \in Nat
    BY <1>0 DEF Kernel, Ccb, Tcbs
  <1>3. /\ n # None => /\ n \in Task /\ n # t /\ k.tcb[n].prev = t /\ rank[t] < rank[n]
                       /\ k.tcb[n].state = k.tcb[t].state
                       /\ (k.tcb[t].state = "running" => Prio[n] = Prio[t])
        /\ p # None => /\ p \in Task /\ p # t /\ k.tcb[p].next = t /\ rank[p] < rank[t]
                       /\ k.tcb[p].state = k.tcb[t].state
                       /\ (k.tcb[t].state = "running" => Prio[p] = Prio[t])
    BY <1>1, <1>2, Basics DEF Links
  <1>4. Links(r, rank, {t})
    <2>. SUFFICES ASSUME NEW u \in Task
                  PROVE  LET m == r.tcb[u].next
                             q == r.tcb[u].prev
                             s == r.tcb[u].state
                         IN /\ m # None => /\ r.tcb[m].prev = u /\ rank[u] < rank[m]
                                           /\ r.tcb[m].state = s
                                           /\ (s = "running" => Prio[m] = Prio[u])
                            /\ q # None => r.tcb[q].next = u
                            /\ u \in {t} \/ s \in {"new", "dead"} => m = None /\ q = None
                            /\ q = None /\ u \notin {t} =>
                                 /\ s = "running" => r.ccb.hd_active[Prio[u]] = u
                                 /\ s = "blocked" => u = r.ccb.hd_blocked \/ u = r.ccb.hd_timerq
      BY DEF Links
    <2>1. CASE u = t
      BY <2>1 DEF TakenOut
    <2>2. CASE u # t
      <3>. DEFINE m == r.tcb[u].next
                  q == r.tcb[u].prev
                  s == k.tcb[u].state
      <3>0. /\ m = IF u = p THEN n ELSE k.tcb[u].next
            /\ q = IF u = n THEN p ELSE k.tcb[u].prev
            /\ r.tcb[u].state = s
            /\ m \in Ref /\ q \in Ref
        BY <1>2, <2>2 DEF TakenOut
      <3>1. m # None => /\ r.tcb[m].prev = u /\ rank[u] < rank[m]
                        /\ r.tcb[m].state = s
                        /\ (s = "running" => Prio[m] = Prio[u])
        <4>1. CASE u = p
          BY <1>2, <1>3, <2>2, <3>0, <4>1, Basics DEF TakenOut
        <4>2. CASE u # p
          BY <1>1, <1>2, <1>3, <2>2, <3>0, <4>2, Basics DEF TakenOut, Links
        <4>. QED BY <4>1, <4>2
      <3>2. q # None => r.tcb[q].next = u
        <4>1. CASE u = n
          BY <1>2, <1>3, <2>2, <3>0, <4>1, Basics DEF TakenOut
        <4>2. CASE u # n
          BY <1>1, <1>2, <1>3, <2>2, <3>0, <4>2, Basics DEF TakenOut, Links
        <4>. QED BY <4>1, <4>2
      <3>3. s \in {"new", "dead"} => m = None /\ q = None
        BY <1>1, <1>2, <1>3, <2>2, <3>0, Basics DEF Links
      <3>4. q = None => /\ s = "running" => r.ccb.hd_active[Prio[u]] = u
                        /\ s = "blocked" => u = r.ccb.hd_blocked \/ u = r.ccb.hd_timerq
        <4>1. CASE u = n
          <5>. SUFFICES ASSUME p = None
                        PROVE  /\ s = "running" => r.ccb.hd_active[Prio[u]] = u
                               /\ s = "blocked" => u = r.ccb.hd_blocked \/ u = r.ccb.hd_timerq
            BY <3>0, <4>1
          <5>1. /\ s = k.tcb[t].state /\ (s = "running" => Prio[u] = Prio[t])
                /\ Prio[u] \in Level /\ u # None
            BY <1>3, <4>1, Basics
          <5>2. /\ s = "running" => k.ccb.hd_active[Prio[t]] = t
                /\ s = "blocked" => t = k.ccb.hd_blocked \/ t = k.ccb.hd_timerq
            BY <1>1, <5>1 DEF Links
          <5>. QED BY <4>1, <5>1, <5>2 DEF TakenOut
        <4>2. CASE u # n
          BY <1>1, <1>2, <1>3, <2>2, <3>0, <4>2, Basics DEF TakenOut, Links
        <4>. QED BY <4>1, <4>2
      <3>. QED BY <2>2, <3>0, <3>1, <3>2, <3>3, <3>4
    <2>. QED BY <2>1, <2>2
  <1>5. Heads(r, {t})
    <2>1. ASSUME NEW i \in Level
          PROVE  LET h == r.ccb.hd_active[i]
                     c == r.ccb.cr_active[i]
                 IN /\ h # None => /\ h \notin {t} /\ Prio[h] = i
                                   /\ r.tcb[h].state = "running" /\ r.tcb[h].prev = None
                    /\ c # None => c \notin {t} /\ Prio[c] = i /\ r.tcb[c].state = "running"
      <3>. DEFINE h == k.ccb.hd_active[i]
                  c == k.ccb.cr_active[i]
      <3>1. /\ h \in Ref /\ c \in Ref
            /\ h # None => /\ Prio[h] = i /\ k.tcb[h].state = "running"
                           /\ k.tcb[h].prev = None
            /\ c # None => Prio[c] = i /\ k.tcb[c].state = "running"
        BY <1>0, <1>2 DEF Heads
      <3>2. /\ r.ccb.hd_active[i] = IF h = t THEN n ELSE h
            /\ r.ccb.cr_active[i] = IF c = t THEN n ELSE c
            /\ \A u \in Task : r.tcb[u].state = k.tcb[u].state
            /\ \A u \in Task : u # t => r.tcb[u].prev = IF u = n THEN p ELSE k.tcb[u].prev
        BY DEF TakenOut
      <3>3. h = t => p = None
        BY <3>1, Basics
      <3>4. h # t /\ h # None => h # n
        BY <1>3, <3>1, Basics
      <3>5. r.ccb.hd_active[i] # None =>
               /\ r.ccb.hd_active[i] \notin {t} /\ Prio[r.ccb.hd_active[i]] = i
               /\ r.tcb[r.ccb.hd_active[i]].state = "running"
               /\ r.tcb[r.ccb.hd_active[i]].prev = None
        BY <1>3, <3>1, <3>2, <3>3, <3>4, Basics
      <3>6. r.ccb.cr_active[i] # None =>
               /\ r.ccb.cr_active[i] \notin {t} /\ Prio[r.ccb.cr_active[i]] = i
               /\ r.tcb[r.ccb.cr_active[i]].state = "running"
        BY <1>3, <3>1, <3>2, Basics
      <3>. QED BY <3>5, <3>6
    <2>2. LET h == r.ccb.hd_blocked
          IN h # None => /\ h \notin {t} /\ h # r.ccb.hd_timerq
                         /\ r.tcb[h].state = "blocked" /\ r.tcb[h].prev = None
      <3>1. CASE k.ccb.hd_blocked = t
        BY <1>0, <1>2, <1>3, <3>1, Basics DEF TakenOut, Heads
      <3>2. CASE k.ccb.hd_blocked # t
        BY <1>0, <1>2, <1>3, <3>2, Basics DEF TakenOut, Heads
      <3>. QED BY <3>1, <3>2
    <2>3. LET h == r.ccb.hd_timerq
          IN h # None => /\ h \notin {t} /\ r.tcb[h].state = "blocked"
                         /\ r.tcb[h].prev = None /\ r.tcb[h].next = None
      BY <1>0, <1>2, <1>3, Basics DEF TakenOut, Heads
    <2>. QED BY <2>1, <2>2, <2>3 DEF Heads
  <1>. QED BY <1>0, <1>4, <1>5 DEF Ordered

(* r is k with task t, in no list so far, put in front of h with state s:  *)
(* into the active list of its level, the blocked list or the queue of     *)
(* the sleeping tasks when that is empty.                                  *)
PutIn(k, r, t, s, h) ==
    /\ r \in Kernel
    /\ \A u \in Task :
          /\ r.tcb[u].next = IF u = t THEN h ELSE k.tcb[u].next
          /\ r.tcb[u].prev = IF u = t THEN None ELSE IF u = h THEN t ELSE k.tcb[u].prev
          /\ r.tcb[u].state = IF u = t THEN s ELSE k.tcb[u].state
    /\ \A i \in Level : r.ccb.cr_active[i] = k.ccb.cr_active[i]
                        \/ (s = "running" /\ i = Prio[t] /\ r.ccb.cr_active[i] = t)
    /\ \/ /\ s = "running" /\ h = k.ccb.hd_active[Prio[t]]
          /\ \A i \in Level :
                r.ccb.hd_active[i] = IF i = Prio[t] THEN t ELSE k.ccb.hd_active[i]
          /\ r.ccb.hd_blocked = k.ccb.hd_blocked /\ r.ccb.hd_timerq = k.ccb.hd_timerq
       \/ /\ s = "blocked" /\ h = k.ccb.hd_blocked
          /\ \A i \in Level : r.ccb.hd_active[i] = k.ccb.hd_active[i]
          /\ r.ccb.hd_blocked = t /\ r.ccb.hd_timerq = k.ccb.hd_timerq
       \/ /\ s = "blocked" /\ h = None /\ k.ccb.hd_timerq = None
          /\ \A i \in Level : r.ccb.hd_active[i] = k.ccb.hd_active[i]
          /\ r.ccb.hd_blocked = k.ccb.hd_blocked /\ r.ccb.hd_timerq = t

(* The lists with a task put in front of one are in order. *)
LEMMA PutInOrdered ==
  ASSUME NEW k, NEW r, NEW t \in Task, NEW s, NEW h, Ordered(k, {t}), PutIn(k, r, t, s, h)
  PROVE  Ordered(r, {})
  <1>0. k \in Kernel /\ r \in Kernel /\ Heads(k, {t}) /\ s \in {"running", "blocked"}
    BY DEF Ordered, PutIn
  <1>1. PICK old \in [Task -> Nat] : Links(k, old, {t})
    BY DEF Ordered
  <1>. DEFINE rank == [u \in Task |-> IF u = t THEN 0 ELSE old[u] + 1]
  <1>2. /\ \A u \in Task : k.tcb[u].next \in Ref /\ k.tcb[u].prev \in Ref
        /\ \A i \in Level : k.ccb.hd_active[i] \in Ref /\ k.ccb.cr_active[i] \in Ref
        /\ k.ccb.hd_blocked \in Ref /\ k.ccb.hd_timerq \in Ref
    BY <1>0 DEF Kernel, Ccb, Tcbs
  <1>3. /\ rank \in [Task -> Nat]
        /\ \A u \in Task : u # t => rank[t] < rank[u]
        /\ \A u, v \in Task : u # t /\ v # t /\ old[u] < old[v] => rank[u] < rank[v]
    OBVIOUS
  <1>. HIDE DEF rank
  <1>4. /\ k.tcb[t].next = None /\ k.tcb[t].prev = None
        /\ \A u \in Task : k.tcb[u].next # t /\ k.tcb[u].prev # t
    BY <1>1, <1>2, Basics DEF Links
  <1>5. h # None => /\ h \in Task /\ h # t /\ k.tcb[h].prev = None
                    /\ k.tcb[h].state = s /\ (s = "running" => Prio[h] = Prio[t])
    BY <1>0, <1>2, Basics DEF PutIn, Heads
  <1>6. /\ \A u \in Task :
             /\ r.tcb[u].next = IF u = t THEN h ELSE k.tcb[u].next
             /\ r.tcb[u].prev = IF u = t THEN None ELSE IF u = h THEN t ELSE k.tcb[u].prev
             /\ r.tcb[u].state = IF u = t THEN s ELSE k.tcb[u].state
    BY DEF PutIn
  <1>7. Links(r, rank, {})
    <2>. SUFFICES ASSUME NEW u \in Task
                  PROVE  LET m == r.tcb[u].next
                             q == r.tcb[u].prev
                             x == r.tcb[u].state
                         IN /\ m # None => /\ r.tcb[m].prev = u /\ rank[u] < rank[m]
                                           /\ r.tcb[m].state = x
                                           /\ (x = "running" => Prio[m] = Prio[u])
                            /\ q # None => r.tcb[q].next = u
                            /\ u \in {} \/ x \in {"new", "dead"} => m = None /\ q = None
                            /\ q = None /\ u \notin {} =>
                                 /\ x = "running" => r.ccb.hd_active[Prio[u]] = u
                                 /\ x = "blocked" => u = r.ccb.hd_blocked \/ u = r.ccb.hd_timerq
      BY DEF Links
    <2>1. CASE u = t
      <3>1. r.tcb[u].next = h /\ r.tcb[u].prev = None /\ r.tcb[u].state = s
        BY <1>6, <2>1
      <3>2. h # None => /\ r.tcb[h].prev = u /\ rank[u] < rank[h] /\ r.tcb[h].state = s
                        /\ (s = "running" => Prio[h] = Prio[u])
        BY <1>3, <1>5, <1>6, <2>1
      <3>3. /\ s = "running" => r.ccb.hd_active[Prio[u]] = u
            /\ s = "blocked" => u = r.ccb.hd_blocked \/ u = r.ccb.hd_timerq
        BY <2>1, Basics DEF PutIn
      <3>. QED BY <1>0, <3>1, <3>2, <3>3
    <2>2. CASE u # t
      <3>. DEFINE m == k.tcb[u].next
                  x == k.tcb[u].state
      <3>1. r.tcb[u].next = m /\ r.tcb[u].state = x /\ m \in Ref /\ m # t
        BY <1>2, <1>4, <1>6, <2>2
      <3>2. m # None => /\ r.tcb[m].prev = u /\ rank[u] < rank[m] /\ r.tcb[m].state = x
                        /\ (x = "running" => Prio[m] = Prio[u])
        <4>. SUFFICES ASSUME m # None
                      PROVE  /\ r.tcb[m].prev = u /\ rank[u] < rank[m] /\ r.tcb[m].state = x
                             /\ (x = "running" => Prio[m] = Prio[u])
          OBVIOUS
        <4>1. /\ m \in Task /\ k.tcb[m].prev = u /\ old[u] < old[m] /\ k.tcb[m].state = x
              /\ (x = "running" => Prio[m] = Prio[u])
          BY <1>1, <3>1, Basics DEF Links
        <4>2. m # h
          BY <1>5, <4>1, Basics
        <4>. QED BY <1>3, <1>6, <2>2, <3>1, <4>1, <4>2
      <3>3. r.tcb[u].prev # None => r.tcb[r.tcb[u].prev].next = u
        <4>1. CASE u = h
          BY <1>6, <2>2, <4>1
        <4>2. CASE u # h
          <5>1. r.tcb[u].prev = k.tcb[u].prev /\ k.tcb[u].prev # t /\ k.tcb[u].prev \in Ref
            BY <1>2, <1>4, <1>6, <2>2, <4>2
          <5>2. k.tcb[u].prev # None => k.tcb[k.tcb[u].prev].next = u
            BY <1>1 DEF Links
          <5>. QED BY <1>6, <5>1, <5>2, Basics
        <4>. QED BY <4>1, <4>2
      <3>4. x \in {"new", "dead"} => m = None /\ r.tcb[u].prev = None
        <4>1. x \in {"new", "dead"} => m = None /\ k.tcb[u].prev = None /\ u # h
          BY <1>0, <1>1, <1>5, Basics DEF Links
        <4>. QED BY <1>6, <2>2, <4>1
      <3>5. ASSUME r.tcb[u].prev = None
            PROVE  /\ x = "running" => r.ccb.hd_active[Prio[u]] = u
                   /\ x = "blocked" => u = r.ccb.hd_blocked \/ u = r.ccb.hd_timerq
        <4>1. u # h /\ k.tcb[u].prev = None
          BY <1>6, <2>2, <3>5, Basics
        <4>2. /\ x = "running" => k.ccb.hd_active[Prio[u]] = u
              /\ x = "blocked" => u = k.ccb.hd_blocked \/ u = k.ccb.hd_timerq
          BY <1>1, <2>2, <4>1 DEF Links
        <4>. QED BY <2>2, <4>1, <4>2, Basics DEF PutIn
      <3>. QED BY <2>2, <3>1, <3>2, <3>3, <3>4, <3>5
    <2>. QED BY <2>1, <2>2
  <1>8. Heads(r, {})
    <2>1. ASSUME NEW i \in Level
          PROVE  LET g == r.ccb.hd_active[i]
                     c == r.ccb.cr_active[i]
                 IN /\ g # None => /\ g \notin {} /\ Prio[g] = i
                                   /\ r.tcb[g].state = "running" /\ r.tcb[g].prev = None
                    /\ c # None => c \notin {} /\ Prio[c] = i /\ r.tcb[c].state = "running"
      <3>. DEFINE g == k.ccb.hd_active[i]
                  c == k.ccb.cr_active[i]
      <3>1. /\ g \in Ref /\ c \in Ref
            /\ g # None => /\ g # t /\ Prio[g] = i /\ k.tcb[g].state = "running"
                           /\ k.tcb[g].prev = None
            /\ c # None => c # t /\ Prio[c] = i /\ k.tcb[c].state = "running"
        BY <1>0, <1>2 DEF Heads
      <3>2. /\ r.ccb.cr_active[i] = c \/ (s = "running" /\ i = Prio[t] /\ r.ccb.cr_active[i] = t)
            /\ \/ s = "running" /\ i = Prio[t] /\ r.ccb.hd_active[i] = t
               \/ r.ccb.hd_active[i] = g /\ ~(s = "running" /\ i = Prio[t])
        BY DEF PutIn
      <3>3. g # None /\ g = h => s = "running" /\ i = Prio[t]
        BY <1>5, <3>1, Basics
      <3>4. r.ccb.hd_active[i] # None =>
               /\ Prio[r.ccb.hd_active[i]] = i
               /\ r.tcb[r.ccb.hd_active[i]].state = "running"
               /\ r.tcb[r.ccb.hd_active[i]].prev = None
        BY <1>6, <3>1, <3>2, <3>3, Basics
      <3>5. r.ccb.cr_active[i] # None =>
               Prio[r.ccb.cr_active[i]] = i /\ r.tcb[r.ccb.cr_active[i]].state = "running"
        BY <1>6, <3>1, <3>2, Basics
      <3>. QED BY <3>4, <3>5
    <2>. DEFINE b == k.ccb.hd_blocked
                q == k.ccb.hd_timerq
    <2>2. /\ b \in Ref /\ q \in Ref
          /\ b # None => /\ b # t /\ b # q /\ k.tcb[b].state = "blocked" /\ k.tcb[b].prev = None
          /\ q # None => /\ q # t /\ k.tcb[q].state = "blocked"
                         /\ k.tcb[q].prev = None /\ k.tcb[q].next = None
      BY <1>0, <1>2 DEF Heads
    <2>3. \/ s = "running" /\ r.ccb.hd_blocked = b /\ r.ccb.hd_timerq = q
          \/ s = "blocked" /\ h = b /\ r.ccb.hd_blocked = t /\ r.ccb.hd_timerq = q
          \/ s = "blocked" /\ h = None /\ r.ccb.hd_blocked = b /\ r.ccb.hd_timerq = t /\ q = None
      BY DEF PutIn
    <2>4. /\ b # None => (h = b => s = "blocked")
          /\ q # None => (h = q => s = "blocked" /\ h # b /\ h # None)
          /\ s = "running" => (h = None \/ (h # b /\ h # q))
      BY <1>5, <2>2, Basics
    <2>5. r.ccb.hd_blocked # None =>
             /\ r.ccb.hd_blocked # r.ccb.hd_timerq
             /\ r.tcb[r.ccb.hd_blocked].state = "blocked"
             /\ r.tcb[r.ccb.hd_blocked].prev = None
      BY <1>6, <2>2, <2>3, <2>4, Basics
    <2>6. r.ccb.hd_timerq # None =>
             /\ r.tcb[r.ccb.hd_timerq].state = "blocked"
             /\ r.tcb[r.ccb.hd_timerq].prev = None /\ r.tcb[r.ccb.hd_timerq].next = None
      BY <1>6, <2>2, <2>3, <2>4, Basics
    <2>. QED BY <2>1, <2>5, <2>6 DEF Heads
  <1>. QED BY <1>0, <1>3, <1>7, <1>8 DEF Ordered

(* A new task is in no list. *)
LEMMA NewIsOut ==
  ASSUME NEW k, NEW t \in Task, Ordered(k, {}), k.tcb[t].state = "new"
  PROVE  Ordered(k, {t})
  <1>1. PICK rank \in [Task -> Nat] : Links(k, rank, {})
    BY DEF Ordered
  <1>2. Links(k, rank, {t})
    BY <1>1 DEF Links
  <1>3. Heads(k, {t})
    BY DEF Ordered, Heads
  <1>. QED BY <1>2, <1>3 DEF Ordered

-----------------------------------------------------------------------------
(* The functions of sched.c *)

(* What the functions on the lists leave alone. *)
Rest(k) == <<k.runlevel, k.ccb.current, k.ccb.sched_ticks, k.ccb.sched_delta, k.ccb.armed>>

(* sched_remove takes the task out of whichever list it is in. *)
LEMMA RemoveTakesOut ==
  ASSUME NEW k, NEW t \in Task, Ordered(k, {})
  PROVE  /\ TakenOut(k, sched_remove(k, t), t)
         /\ Rest(sched_remove(k, t)) = Rest(k)
  <1>. DEFINE n == k.tcb[t].next
              l == Prio[t]
              T == Unlink(k.tcb, t)
              c == [k.ccb EXCEPT !.hd_active[l] = IF @ = t THEN n ELSE @,
                                 !.cr_active[l] = IF @ = t THEN n ELSE @,
                                 !.hd_blocked = IF @ = t THEN n ELSE @,
                                 !.hd_timerq = IF @ = t THEN n ELSE @]
              r == sched_remove(k, t)
  <1>0. k \in Kernel /\ Heads(k, {})
    BY DEF Ordered
  <1>1. /\ k.ccb \in Ccb /\ k.tcb \in Tcbs /\ k.runlevel \in {"load", "coop", "norm"}
        /\ n \in Ref /\ l \in Level
    BY <1>0, Basics DEF Kernel, Tcbs
  <1>2. T \in Tcbs
    BY <1>1, UnlinkIs
  <1>x. r = [k EXCEPT !.ccb.hd_active[l] = IF @ = t THEN n ELSE @,
                 !.ccb.cr_active[l] = IF @ = t THEN n ELSE @,
                 !.ccb.hd_blocked = IF @ = t THEN n ELSE @,
                 !.ccb.hd_timerq = IF @ = t THEN n ELSE @,
                 !.tcb = T]
    BY DEF sched_remove
  <1>. HIDE DEF T, n, l, r
  <1>3. r = [k EXCEPT !.ccb = c, !.tcb = T]
    BY <1>0, <1>1, <1>x DEF Kernel, Ccb
  <1>4. /\ c \in Ccb
        /\ \A i \in Level :
             /\ c.hd_active[i] = IF i = l /\ k.ccb.hd_active[i] = t THEN n ELSE k.ccb.hd_active[i]
             /\ c.cr_active[i] = IF i = l /\ k.ccb.cr_active[i] = t THEN n ELSE k.ccb.cr_active[i]
        /\ c.hd_blocked = IF k.ccb.hd_blocked = t THEN n ELSE k.ccb.hd_blocked
        /\ c.hd_timerq = IF k.ccb.hd_timerq = t THEN n ELSE k.ccb.hd_timerq
        /\ c.current = k.ccb.current /\ c.sched_ticks = k.ccb.sched_ticks
        /\ c.sched_delta = k.ccb.sched_delta /\ c.armed = k.ccb.armed
    BY <1>1 DEF Ccb
  <1>. HIDE DEF c
  <1>5. r \in Kernel /\ r.ccb = c /\ r.tcb = T /\ r.runlevel = k.runlevel
    BY <1>0, <1>2, <1>3, <1>4 DEF Kernel
  <1>6. \A i \in Level : i # l => k.ccb.hd_active[i] # t /\ k.ccb.cr_active[i] # t
    BY <1>0, Basics DEF Heads, l
  <1>7. TakenOut(k, r, t)
    BY <1>1, <1>4, <1>5, <1>6, UnlinkIs DEF TakenOut, T, n
  <1>. QED BY <1>4, <1>5, <1>7 DEF Rest, r

(* sched_add, alone or followed by a move of the cursor to the new task. *)
AddedAt(k, t, d) ==
    IF d = "cursor" THEN [sched_add(k, t) EXCEPT !.ccb.cr_active[Prio[t]] = t] ELSE sched_add(k, t)

(* sched_add puts the task into the active list of its level. *)
LEMMA AddPutsIn ==
  ASSUME NEW k, NEW t \in Task, Ordered(k, {t}), NEW d \in {"cursor", "head"}
  PROVE  /\ PutIn(k, AddedAt(k, t, d), t, "running", k.ccb.hd_active[Prio[t]])
         /\ Rest(AddedAt(k, t, d)) = Rest(k)
         /\ d = "cursor" => AddedAt(k, t, d).ccb.cr_active[Prio[t]] = t
         /\ \A u \in Task : AddedAt(k, t, d).tcb[u].alarmusec = k.tcb[u].alarmusec
  <1>. DEFINE l == Prio[t]
              h == k.ccb.hd_active[l]
              T == [Link(k.tcb, t, h) EXCEPT ![t].state = "running"]
              a == sched_add(k, t)
              r == AddedAt(k, t, d)
              c == [k.ccb EXCEPT !.hd_active[l] = t]
              e == IF d = "cursor" THEN [c EXCEPT !.cr_active[l] = t] ELSE c
  <1>0. k \in Kernel /\ Heads(k, {t})
    BY DEF Ordered
  <1>1. /\ k.ccb \in Ccb /\ k.tcb \in Tcbs /\ k.runlevel \in {"load", "coop", "norm"}
        /\ l \in Level
    BY <1>0, Basics DEF Kernel
  <1>2. h \in Ref /\ h # t
    BY <1>0, <1>1, Basics DEF Heads, Ccb
  <1>3. /\ T \in Tcbs
        /\ \A u \in Task :
             /\ T[u].next = IF u = t THEN h ELSE k.tcb[u].next
             /\ T[u].prev = IF u = t THEN None ELSE IF u = h THEN t ELSE k.tcb[u].prev
             /\ T[u].state = IF u = t THEN "running" ELSE k.tcb[u].state
             /\ T[u].alarmusec = k.tcb[u].alarmusec
    <2>. DEFINE L == Link(k.tcb, t, h)
    <2>1. /\ L \in Tcbs
          /\ \A u \in Task :
               /\ L[u].next = IF u = t THEN h ELSE k.tcb[u].next
               /\ L[u].prev = IF u = t THEN None ELSE IF u = h THEN t ELSE k.tcb[u].prev
               /\ L[u].state = k.tcb[u].state /\ L[u].alarmusec = k.tcb[u].alarmusec
      BY <1>1, <1>2, LinkIs
    <2>2. T = [L EXCEPT ![t].state = "running"]
      OBVIOUS
    <2>. HIDE DEF L, T, h
    <2>. QED BY <2>1, <2>2 DEF Tcbs, State
  <1>4. a = [k EXCEPT !.ccb.hd_active[l] = t, !.tcb = T]
    BY DEF sched_add
  <1>. HIDE DEF T, h, l, a
  <1>5. /\ e \in Ccb
        /\ \A i \in Level :
             /\ e.hd_active[i] = IF i = l THEN t ELSE k.ccb.hd_active[i]
             /\ e.cr_active[i] = IF d = "cursor" /\ i = l THEN t ELSE k.ccb.cr_active[i]
        /\ e.hd_blocked = k.ccb.hd_blocked /\ e.hd_timerq = k.ccb.hd_timerq
        /\ e.current = k.ccb.current /\ e.sched_ticks = k.ccb.sched_ticks
        /\ e.sched_delta = k.ccb.sched_delta /\ e.armed = k.ccb.armed
    BY <1>1, Basics DEF Ccb
  <1>6. r = [k EXCEPT !.ccb = e, !.tcb = T]
    <2>1. r = IF d = "cursor" THEN [a EXCEPT !.ccb.cr_active[l] = t] ELSE a
      BY DEF AddedAt, a, l
    <2>. HIDE DEF r
    <2>. QED BY <1>0, <1>1, <1>4, <2>1 DEF Kernel, Ccb
  <1>. HIDE DEF e, r
  <1>7. r.ccb = e /\ r.tcb = T /\ r.runlevel = k.runlevel
    BY <1>0, <1>6 DEF Kernel
  <1>8. r \in Kernel
    BY <1>0, <1>1, <1>3, <1>5, <1>6 DEF Kernel
  <1>9. PutIn(k, r, t, "running", h)
    BY <1>3, <1>5, <1>7, <1>8 DEF PutIn, h, l
  <1>. QED BY <1>1, <1>3, <1>5, <1>7, <1>9 DEF Rest, r, h, l

(* r is k with task t running and next on its level, whatever it did. *)
Awoken(k, r, t) ==
    /\ Ordered(r, {})
    /\ Rest(r) = Rest(k)
    /\ r.ccb.cr_active[Prio[t]] = t
    /\ r.ccb.hd_timerq = IF k.ccb.hd_timerq = t THEN None ELSE k.ccb.hd_timerq
    /\ \A u \in Task :
          /\ r.tcb[u].state = IF u = t THEN "running" ELSE k.tcb[u].state
          /\ u # t => r.tcb[u].alarmusec = k.tcb[u].alarmusec

(* A task that runs or is blocked, asleep or not, is woken. *)
LEMMA AwakeWakes ==
  ASSUME NEW k, NEW t \in Task, Ordered(k, {}), k.tcb[t].state \in {"running", "blocked"}
  PROVE  Awoken(k, sched_awake(k, t), t)
  <1>. DEFINE r == sched_awake(k, t)
              l == Prio[t]
  <1>0. k \in Kernel /\ Heads(k, {}) /\ l \in Level
    BY Basics DEF Ordered
  <1>1. k.ccb \in Ccb /\ k.tcb \in Tcbs /\ k.runlevel \in {"load", "coop", "norm"}
    BY <1>0 DEF Kernel
  <1>2. CASE k.tcb[t].state = "running"
    <2>. DEFINE c == [k.ccb EXCEPT !.cr_active[l] = t]
    <2>1. r = [k EXCEPT !.ccb.cr_active[l] = t]
      BY <1>2 DEF sched_awake, AwakeVia
    <2>. HIDE DEF r, l
    <2>2. r = [k EXCEPT !.ccb = c]
      BY <1>0, <2>1 DEF Kernel, Ccb
    <2>3. /\ c \in Ccb /\ c.hd_active = k.ccb.hd_active
          /\ \A i \in Level : c.cr_active[i] = IF i = l THEN t ELSE k.ccb.cr_active[i]
          /\ c.hd_blocked = k.ccb.hd_blocked /\ c.hd_timerq = k.ccb.hd_timerq
          /\ c.current = k.ccb.current /\ c.sched_ticks = k.ccb.sched_ticks
          /\ c.sched_delta = k.ccb.sched_delta /\ c.armed = k.ccb.armed
      BY <1>0, <1>1, Basics DEF Ccb
    <2>. HIDE DEF c
    <2>4. r \in Kernel /\ r.ccb = c /\ r.tcb = k.tcb /\ r.runlevel = k.runlevel
      BY <1>0, <2>2, <2>3 DEF Kernel
    <2>5. Heads(r, {})
      BY <1>0, <1>2, <2>3, <2>4 DEF Heads, l
    <2>6. PICK rank \in [Task -> Nat] : Links(k, rank, {})
      BY DEF Ordered
    <2>7. Links(r, rank, {})
      BY <2>3, <2>4, <2>6 DEF Links
    <2>8. Ordered(r, {})
      BY <2>4, <2>5, <2>7 DEF Ordered
    <2>9. k.ccb.hd_timerq # t
      BY <1>0, <1>2, Basics DEF Heads
    <2>. QED BY <1>0, <1>2, <2>3, <2>4, <2>8, <2>9 DEF Awoken, Rest, r, l
  <1>3. CASE k.tcb[t].state = "blocked"
    <2>. DEFINE n == k.tcb[t].next
                c == [k.ccb EXCEPT !.hd_blocked = IF @ = t THEN n ELSE @,
                                   !.hd_timerq = IF @ = t THEN n ELSE @]
                A == [k.tcb EXCEPT ![t].alarmusec = IF k.ccb.hd_timerq = t THEN 0 ELSE @]
                out == [k EXCEPT !.ccb.hd_blocked = IF @ = t THEN n ELSE @,
                                 !.ccb.hd_timerq = IF @ = t THEN n ELSE @,
                                 !.tcb[t].alarmusec = IF k.ccb.hd_timerq = t THEN 0 ELSE @]
                T == Unlink(A, t)
                mid == [out EXCEPT !.tcb = Unlink(out.tcb, t)]
    <2>0. n \in Ref
      BY <1>1 DEF Tcbs
    <2>1. r = AddedAt(mid, t, "cursor")
      BY <1>3 DEF sched_awake, AwakeVia, AddedAt
    <2>2. out = [k EXCEPT !.ccb = c, !.tcb = A]
      <3>. HIDE DEF n
      <3>. QED BY <1>0, <2>0 DEF Kernel, Ccb, Tcbs
    <2>3. /\ c \in Ccb /\ c.hd_active = k.ccb.hd_active /\ c.cr_active = k.ccb.cr_active
          /\ c.hd_blocked = IF k.ccb.hd_blocked = t THEN n ELSE k.ccb.hd_blocked
          /\ c.hd_timerq = IF k.ccb.hd_timerq = t THEN n ELSE k.ccb.hd_timerq
          /\ c.current = k.ccb.current /\ c.sched_ticks = k.ccb.sched_ticks
          /\ c.sched_delta = k.ccb.sched_delta /\ c.armed = k.ccb.armed
      <3>. HIDE DEF n
      <3>. QED BY <1>1, <2>0 DEF Ccb
    <2>4. /\ A \in Tcbs
          /\ \A u \in Task : /\ A[u].next = k.tcb[u].next /\ A[u].prev = k.tcb[u].prev
                             /\ A[u].state = k.tcb[u].state
                             /\ u # t => A[u].alarmusec = k.tcb[u].alarmusec
      BY <1>1 DEF Tcbs
    <2>. HIDE DEF A, c, out
    <2>5. /\ T \in Tcbs
          /\ \A u \in Task :
               /\ T[u].next = IF u = t THEN None ELSE IF u = A[t].prev THEN A[t].next ELSE A[u].next
               /\ T[u].prev = IF u = t THEN None ELSE IF u = A[t].next THEN A[t].prev ELSE A[u].prev
               /\ T[u].state = A[u].state
               /\ T[u].alarmusec = A[u].alarmusec
      BY <2>4, UnlinkIs
    <2>6. out \in Kernel /\ out.ccb = c /\ out.tcb = A /\ out.runlevel = k.runlevel
      BY <1>0, <2>2, <2>3, <2>4 DEF Kernel
    <2>. HIDE DEF T
    <2>7. mid \in Kernel /\ mid.ccb = c /\ mid.tcb = T /\ mid.runlevel = k.runlevel
      BY <2>5, <2>6 DEF Kernel, T
    <2>. HIDE DEF mid
    <2>8. \A i \in Level : k.ccb.hd_active[i] # t /\ k.ccb.cr_active[i] # t
      BY <1>0, <1>3, Basics DEF Heads
    <2>9. TakenOut(k, mid, t)
      BY <2>3, <2>4, <2>5, <2>7, <2>8 DEF TakenOut
    <2>10. Ordered(mid, {t})
      BY <2>9, TakenOutOrdered
    <2>11. /\ PutIn(mid, r, t, "running", mid.ccb.hd_active[Prio[t]])
           /\ Rest(r) = Rest(mid) /\ r.ccb.cr_active[Prio[t]] = t
           /\ \A u \in Task : r.tcb[u].alarmusec = mid.tcb[u].alarmusec
      <3>1. "cursor" \in {"cursor", "head"}
        OBVIOUS
      <3>. HIDE DEF r, l, n
      <3>2. PutIn(mid, AddedAt(mid, t, "cursor"), t, "running", mid.ccb.hd_active[Prio[t]])
         BY <2>10, <3>1, AddPutsIn
      <3>3. Rest(AddedAt(mid, t, "cursor")) = Rest(mid)
         BY <2>10, <3>1, AddPutsIn
      <3>4. AddedAt(mid, t, "cursor").ccb.cr_active[Prio[t]] = t
         BY <2>10, <3>1, AddPutsIn
      <3>5. \A u \in Task : AddedAt(mid, t, "cursor").tcb[u].alarmusec = mid.tcb[u].alarmusec
         BY <2>10, <3>1, AddPutsIn
      <3>. QED BY <2>1, <3>2, <3>3, <3>4, <3>5
    <2>. HIDE DEF r
    <2>12. Ordered(r, {})
      BY <2>10, <2>11, PutInOrdered
    <2>13. k.ccb.hd_timerq = t => n = None
      BY <1>0, Basics DEF Heads
    <2>14. r.ccb.hd_timerq = mid.ccb.hd_timerq
      BY <2>11 DEF PutIn
    <2>15. /\ r.ccb.hd_timerq = IF k.ccb.hd_timerq = t THEN None ELSE k.ccb.hd_timerq
           /\ Rest(mid) = Rest(k)
      BY <2>3, <2>7, <2>13, <2>14 DEF Rest
    <2>16. \A u \in Task : /\ r.tcb[u].state = IF u = t THEN "running" ELSE k.tcb[u].state
                           /\ u # t => r.tcb[u].alarmusec = k.tcb[u].alarmusec
      BY <2>4, <2>5, <2>7, <2>11 DEF PutIn
    <2>. QED BY <2>11, <2>12, <2>15, <2>16 DEF Awoken, r
  <1>. QED BY <1>2, <1>3

(* With one sleeping task the pointer of sched_pick is to that task. *)
LEMMA HeadWakes ==
  ASSUME NEW k, Ordered(k, {}), k.ccb.hd_timerq # None
  PROVE  /\ k.ccb.hd_timerq \in Task
         /\ Awoken(k, AwakeAlarm(k), k.ccb.hd_timerq)
  <1>. DEFINE t == k.ccb.hd_timerq
  <1>1. t \in Task
    BY Basics DEF Ordered, Kernel, Ccb
  <1>2. k.tcb[t].state = "blocked" /\ k.tcb[t].next = None
    BY DEF Ordered, Heads
  <1>3. AwakeAlarm(k) = sched_awake(k, t)
    BY <1>2 DEF AwakeAlarm, sched_awake
  <1>. QED BY <1>1, <1>2, <1>3, AwakeWakes

(* Who is running is blocked, the others stay as they are. *)
LEMMA BlockBlocks ==
  ASSUME NEW k, NEW t \in Task, Ordered(k, {})
  PROVE  LET r == sched_block(k, t)
         IN /\ Ordered(r, {}) /\ Rest(r) = Rest(k)
            /\ \A u \in Task : r.tcb[u].state = IF u = t /\ k.tcb[t].state = "running"
                                                THEN "blocked" ELSE k.tcb[u].state
  <1>. DEFINE r == sched_block(k, t)
  <1>1. CASE k.tcb[t].state # "running"
    <2>1. r = k
      BY <1>1 DEF sched_block
    <2>. QED BY <1>1, <2>1
  <1>2. CASE k.tcb[t].state = "running"
    <2>. DEFINE out == sched_remove(k, t)
                h == out.ccb.hd_blocked
                T == [Link(out.tcb, t, h) EXCEPT ![t].state = "blocked"]
    <2>1. TakenOut(k, out, t) /\ Rest(out) = Rest(k)
      BY RemoveTakesOut
    <2>2. Ordered(out, {t})
      BY <2>1, TakenOutOrdered
    <2>3. r = [out EXCEPT !.ccb.hd_blocked = t, !.tcb = T]
      BY <1>2 DEF sched_block
    <2>. HIDE DEF out, r
    <2>4. out \in Kernel /\ h \in Ref /\ h # t
      BY <2>2, Basics DEF Ordered, Heads, Kernel, Ccb
    <2>5. out.ccb \in Ccb /\ out.tcb \in Tcbs
      BY <2>4 DEF Kernel
    <2>6. /\ T \in Tcbs
          /\ \A u \in Task :
               /\ T[u].next = IF u = t THEN h ELSE out.tcb[u].next
               /\ T[u].prev = IF u = t THEN None ELSE IF u = h THEN t ELSE out.tcb[u].prev
               /\ T[u].state = IF u = t THEN "blocked" ELSE out.tcb[u].state
      <3>. DEFINE L == Link(out.tcb, t, h)
      <3>1. /\ L \in Tcbs
            /\ \A u \in Task :
                 /\ L[u].next = IF u = t THEN h ELSE out.tcb[u].next
                 /\ L[u].prev = IF u = t THEN None ELSE IF u = h THEN t ELSE out.tcb[u].prev
                 /\ L[u].state = out.tcb[u].state
        BY <2>4, <2>5, LinkIs
      <3>2. T = [L EXCEPT ![t].state = "blocked"]
        OBVIOUS
      <3>. HIDE DEF L, T, h
      <3>. QED BY <3>1, <3>2 DEF Tcbs, State
    <2>. HIDE DEF T
    <2>7. /\ r \in Kernel /\ r.tcb = T /\ r.runlevel = out.runlevel
          /\ r.ccb.hd_active = out.ccb.hd_active /\ r.ccb.cr_active = out.ccb.cr_active
          /\ r.ccb.hd_blocked = t /\ r.ccb.hd_timerq = out.ccb.hd_timerq
          /\ Rest(r) = Rest(out)
      BY <2>3, <2>4, <2>6, Basics DEF Kernel, Ccb, Rest
    <2>8. PutIn(out, r, t, "blocked", h)
      BY <2>6, <2>7 DEF PutIn
    <2>9. Ordered(r, {})
      BY <2>2, <2>8, PutInOrdered
    <2>10. \A u \in Task : out.tcb[u].state = k.tcb[u].state
      BY <2>1 DEF TakenOut
    <2>. QED BY <1>2, <2>1, <2>6, <2>7, <2>9, <2>10 DEF r
  <1>. QED BY <1>1, <1>2

(* Who is running goes to sleep when nobody else sleeps. *)
LEMMA DelayDelays ==
  ASSUME NEW k, NEW t \in Task, NEW usec \in Nat, Ordered(k, {}), k.ccb.hd_timerq = None
  PROVE  LET r == sched_delay(k, t, usec)
         IN /\ Ordered(r, {}) /\ r.runlevel = k.runlevel
            /\ \A u \in Task : r.tcb[u].state = IF u = t /\ k.tcb[t].state = "running"
                                                THEN "blocked" ELSE k.tcb[u].state
  <1>. DEFINE r == sched_delay(k, t, usec)
  <1>1. CASE k.tcb[t].state # "running"
    <2>1. r = k
      BY <1>1 DEF sched_delay
    <2>. QED BY <1>1, <2>1
  <1>2. CASE k.tcb[t].state = "running"
    <2>. DEFINE out == sched_remove(k, t)
                q == Walk(out.tcb, out.ccb.hd_timerq)
                ticks == IF out.ccb.hd_timerq = None THEN 0 ELSE out.ccb.sched_ticks
                S == {n \in DOMAIN q : q[n] = None \/ ticks + usec < out.tcb[q[n]].alarmusec}
                in == [out EXCEPT !.ccb.sched_ticks = ticks,
                                  !.tcb[t].state = "blocked",
                                  !.tcb[t].alarmusec = ticks + usec,
                                  !.tcb[t].next = q[Min(S)]]
    <2>1. TakenOut(k, out, t) /\ Rest(out) = Rest(k)
      BY RemoveTakesOut
    <2>2. Ordered(out, {t})
      BY <2>1, TakenOutOrdered
    <2>3. r = IF Min(S) = 0 THEN [in EXCEPT !.ccb.hd_timerq = t]
              ELSE [in EXCEPT !.tcb[q[Min(S) - 1]].next = t]
      BY <1>2 DEF sched_delay
    <2>. HIDE DEF out, r
    <2>4. out \in Kernel /\ out.ccb.hd_timerq = None
      BY <2>1, <2>2, Basics DEF Ordered, TakenOut
    <2>5. Min(S) = 0 /\ q[0] = None
      <3>1. \A u \in Task : out.tcb[u].next \in Ref
        BY <2>4 DEF Kernel, Tcbs
      <3>2. q \in [0..Cardinality(Task) -> Ref] /\ q[0] = None
        BY <2>4, <3>1, Basics, WalkIs
      <3>3. Cardinality(Task) \in Nat
        BY TasksFinite, FS_CardinalityType
      <3>4. 0 \in S /\ S \subseteq Nat
        BY <3>2, <3>3
      <3>. HIDE DEF S
      <3>5. Min(S) \in S /\ Min(S) <= 0
        BY <3>4, MinIs
      <3>6. \A x \in S : x <= 0 => x = 0
        BY <3>4
      <3>7. Min(S) = 0
        BY <3>5, <3>6
      <3>. QED BY <3>2, <3>7
    <2>. HIDE DEF S, q
    <2>6. ticks = 0
      BY <2>4
    <2>7. r = [in EXCEPT !.ccb.hd_timerq = t]
      BY <2>3, <2>5
    <2>8. /\ in \in Kernel
          /\ in.runlevel = out.runlevel /\ in.ccb = [out.ccb EXCEPT !.sched_ticks = 0]
          /\ \A u \in Task :
               /\ in.tcb[u].next = IF u = t THEN None ELSE out.tcb[u].next
               /\ in.tcb[u].prev = out.tcb[u].prev
               /\ in.tcb[u].state = IF u = t THEN "blocked" ELSE out.tcb[u].state
      <3>1. in = [out EXCEPT !.ccb.sched_ticks = 0,
                             !.tcb[t].state = "blocked",
                             !.tcb[t].alarmusec = usec,
                             !.tcb[t].next = None]
        <4>1. q[Min(S)] = None /\ ticks + usec = usec
          BY <2>5, <2>6
        <4>. HIDE DEF ticks
        <4>. QED BY <2>6, <4>1, Zenon
      <3>. HIDE DEF in, ticks
      <3>2. out.ccb \in Ccb /\ out.tcb \in Tcbs
        BY <2>4 DEF Kernel
      <3>. DEFINE T == [out.tcb EXCEPT ![t].state = "blocked", ![t].alarmusec = usec,
                                       ![t].next = None]
                  c == [out.ccb EXCEPT !.sched_ticks = 0]
      <3>3. in = [out EXCEPT !.ccb = c, !.tcb = T]
        BY <2>4, <3>1 DEF Kernel, Ccb, Tcbs
      <3>4. /\ T \in Tcbs
            /\ \A u \in Task :
                 /\ T[u].next = IF u = t THEN None ELSE out.tcb[u].next
                 /\ T[u].prev = out.tcb[u].prev
                 /\ T[u].state = IF u = t THEN "blocked" ELSE out.tcb[u].state
        BY <3>2, Basics DEF Tcbs, State
      <3>5. c \in Ccb
        BY <3>2 DEF Ccb
      <3>. HIDE DEF T
      <3>. QED BY <2>4, <3>3, <3>4, <3>5 DEF Kernel
    <2>. HIDE DEF ticks, in
    <2>9. /\ r \in Kernel /\ r.tcb = in.tcb
          /\ r.runlevel = out.runlevel
          /\ r.ccb.hd_active = out.ccb.hd_active /\ r.ccb.cr_active = out.ccb.cr_active
          /\ r.ccb.hd_blocked = out.ccb.hd_blocked /\ r.ccb.hd_timerq = t
      BY <2>4, <2>7, <2>8, Basics DEF Kernel, Ccb
    <2>10. out.tcb[t].prev = None
      BY <2>1 DEF TakenOut
    <2>11. PutIn(out, r, t, "blocked", None)
      BY <2>4, <2>8, <2>9, <2>10, Basics DEF PutIn
    <2>12. Ordered(r, {})
      BY <2>2, <2>11, PutInOrdered
    <2>13. out.runlevel = k.runlevel /\ \A u \in Task : out.tcb[u].state = k.tcb[u].state
      BY <2>1 DEF TakenOut, Rest
    <2>. QED BY <1>2, <2>8, <2>9, <2>12, <2>13 DEF r
  <1>. QED BY <1>1, <1>2

(* A task that has been taken out of its list may die. *)
LEMMA RemovedDies ==
  ASSUME NEW k, NEW t \in Task, Ordered(k, {})
  PROVE  LET gone == sched_remove(k, t)
             r == [gone EXCEPT !.tcb[t].state = "dead"]
         IN /\ Ordered(r, {}) /\ Rest(r) = Rest(k)
            /\ \A u \in Task : u # t => r.tcb[u].state = k.tcb[u].state
  <1>. DEFINE gone == sched_remove(k, t)
              r == [gone EXCEPT !.tcb[t].state = "dead"]
  <1>1. TakenOut(k, gone, t) /\ Rest(gone) = Rest(k)
    BY RemoveTakesOut
  <1>2. Ordered(gone, {t})
    BY <1>1, TakenOutOrdered
  <1>. HIDE DEF gone
  <1>3. gone \in Kernel /\ Heads(gone, {t})
    BY <1>2 DEF Ordered
  <1>4. /\ r \in Kernel /\ r.ccb = gone.ccb /\ r.runlevel = gone.runlevel
        /\ \A u \in Task :
             /\ r.tcb[u].next = gone.tcb[u].next /\ r.tcb[u].prev = gone.tcb[u].prev
             /\ r.tcb[u].state = IF u = t THEN "dead" ELSE gone.tcb[u].state
    BY <1>3 DEF Kernel, Tcbs, State
  <1>. HIDE DEF r
  <1>5. PICK rank \in [Task -> Nat] : Links(gone, rank, {t})
    BY <1>2 DEF Ordered
  <1>6. /\ \A u \in Task : gone.tcb[u].next \in Ref /\ gone.tcb[u].prev \in Ref
        /\ gone.tcb[t].next = None /\ gone.tcb[t].prev = None
        /\ \A u \in Task : gone.tcb[u].next # t
    <2>1. \A u \in Task : gone.tcb[u].next \in Ref /\ gone.tcb[u].prev \in Ref
      BY <1>3 DEF Kernel, Tcbs
    <2>. QED BY <1>5, <2>1, Basics DEF Links
  <1>7. Links(r, rank, {})
    BY <1>4, <1>5, <1>6, Basics DEF Links
  <1>8. /\ \A i \in Level : gone.ccb.hd_active[i] \in Ref /\ gone.ccb.cr_active[i] \in Ref
        /\ gone.ccb.hd_blocked \in Ref /\ gone.ccb.hd_timerq \in Ref
    BY <1>3 DEF Kernel, Ccb
  <1>9. Heads(r, {})
    BY <1>3, <1>4, <1>8, Basics DEF Heads
  <1>10. Ordered(r, {})
    BY <1>4, <1>7, <1>9 DEF Ordered
  <1>11. Rest(r) = Rest(k)
    BY <1>1, <1>4 DEF Rest
  <1>12. \A u \in Task : u # t => r.tcb[u].state = k.tcb[u].state
    BY <1>1, <1>4 DEF TakenOut
  <1>. QED BY <1>10, <1>11, <1>12 DEF r, gone

-----------------------------------------------------------------------------
(* The choice of the next task *)

(* r has the lists of k; its cursors may have moved within their levels. *)
SameLists(k, r) ==
    /\ r \in Kernel
    /\ r.tcb = k.tcb
    /\ r.ccb.hd_active = k.ccb.hd_active
    /\ r.ccb.hd_blocked = k.ccb.hd_blocked /\ r.ccb.hd_timerq = k.ccb.hd_timerq
    /\ \A i \in Level :
          \/ r.ccb.cr_active[i] = k.ccb.cr_active[i]
          \/ r.ccb.cr_active[i] = None
          \/ Prio[r.ccb.cr_active[i]] = i /\ k.tcb[r.ccb.cr_active[i]].state = "running"

(* A cursor may move within its list. *)
LEMMA CursorsMove ==
  ASSUME NEW k, NEW r, Ordered(k, {}), SameLists(k, r)
  PROVE  Ordered(r, {})
  <1>1. PICK rank \in [Task -> Nat] : Links(k, rank, {})
    BY DEF Ordered
  <1>2. Links(r, rank, {})
    BY <1>1 DEF Links, SameLists
  <1>3. Heads(r, {})
    BY DEF Ordered, Heads, SameLists
  <1>. QED BY <1>2, <1>3 DEF Ordered, SameLists

(* The alarm the timer would be set for is not in the past: it is still to *)
(* come, or task t is preempted, or t goes before the sleeping task.       *)
InTime(k, t) ==
    LET h == k.ccb.hd_timerq
    IN h # None => \/ k.ccb.sched_ticks <= k.tcb[h].alarmusec
                   \/ t # Idle /\ (Priority(t) > PRI_DRV \/ Prio[h] > Priority(t))

(* The switch to a task sets the timer and leaves the lists alone. *)
LEMMA SwitchKeeps ==
  ASSUME NEW k, NEW t \in Task \cup {Idle}, Ordered(k, {}), InTime(k, t)
  PROVE  LET r == Switch(k, t)
         IN SameLists(k, r) /\ r.runlevel = k.runlevel
  <1>. DEFINE h == k.ccb.hd_timerq
              wait == IF h # None /\ (Priority(t) > PRI_DRV \/ Prio[h] <= Priority(t))
                      THEN k.tcb[h].alarmusec - k.ccb.sched_ticks ELSE 0
              delta == IF Priority(t) > PRI_DRV /\ t # Idle /\ (wait <= 0 \/ wait > quantum)
                       THEN quantum ELSE wait
              r == Switch(k, t)
  <1>0. k \in Kernel
    BY DEF Ordered
  <1>1. /\ k.ccb \in Ccb /\ h \in Ref /\ k.ccb.sched_ticks \in Nat
        /\ \A u \in Task : k.tcb[u].alarmusec \in Nat
        /\ t # Wild /\ t \in Ref \cup {Idle}
    BY <1>0, Basics, TaskAssumption DEF Kernel, Ccb, Tcbs
  <1>2. Priority(t) \in Nat /\ PRI_DRV \in Nat /\ quantum \in Nat
        /\ (h # None => Prio[h] \in Nat)
    <2>1. t # Idle => Prio[t] \in Level
      BY Basics
    <2>2. h # None => Prio[h] \in Level
      BY <1>1, Basics
    <2>. QED BY <2>1, <2>2, LevelAssumption, TimeAssumption DEF Priority, Level
  <1>3. delta \in Nat
    <2>1. CASE h = None
      BY <1>2, <2>1
    <2>2. CASE h # None
      <3>1. h \in Task /\ k.tcb[h].alarmusec \in Nat
        BY <1>1, <2>2, Basics
      <3>2. \/ k.ccb.sched_ticks <= k.tcb[h].alarmusec
            \/ t # Idle /\ (Priority(t) > PRI_DRV \/ Prio[h] > Priority(t))
        BY <2>2 DEF InTime
      <3>. HIDE DEF h
      <3>. QED BY <1>1, <1>2, <2>2, <3>1, <3>2
    <2>. QED BY <2>1, <2>2
  <1>4. \/ r = k
        \/ r = [k EXCEPT !.ccb.current = t]
        \/ r = [k EXCEPT !.ccb.current = t, !.ccb.sched_delta = delta, !.ccb.armed = delta # 0]
    BY <1>1 DEF Switch
  <1>. HIDE DEF r, delta, wait, h
  <1>5. CASE r = k
    BY <1>0, <1>5 DEF SameLists, r
  <1>6. CASE r = [k EXCEPT !.ccb.current = t]
    <2>1. r \in Kernel /\ r.tcb = k.tcb /\ r.runlevel = k.runlevel
      BY <1>0, <1>1, <1>6 DEF Kernel, Ccb
    <2>2. /\ r.ccb.hd_active = k.ccb.hd_active /\ r.ccb.cr_active = k.ccb.cr_active
          /\ r.ccb.hd_blocked = k.ccb.hd_blocked /\ r.ccb.hd_timerq = k.ccb.hd_timerq
      BY <1>0, <1>1, <1>6 DEF Kernel, Ccb
    <2>. QED BY <2>1, <2>2 DEF SameLists, r
  <1>7. CASE r = [k EXCEPT !.ccb.current = t, !.ccb.sched_delta = delta, !.ccb.armed = delta # 0]
    <2>1. r \in Kernel /\ r.tcb = k.tcb /\ r.runlevel = k.runlevel
      BY <1>0, <1>1, <1>3, <1>7 DEF Kernel, Ccb
    <2>2. /\ r.ccb.hd_active = k.ccb.hd_active /\ r.ccb.cr_active = k.ccb.cr_active
          /\ r.ccb.hd_blocked = k.ccb.hd_blocked /\ r.ccb.hd_timerq = k.ccb.hd_timerq
      BY <1>0, <1>1, <1>7 DEF Kernel, Ccb
    <2>. QED BY <2>1, <2>2 DEF SameLists, r
  <1>. QED BY <1>4, <1>5, <1>6, <1>7

(* There is a task at the cursor: it is switched to, no wild page is. *)
LEMMA TakeKeeps ==
  ASSUME NEW k, NEW i \in Level, Ordered(k, {}), k.ccb.cr_active[i] # None,
         InTime(k, k.ccb.cr_active[i])
  PROVE  LET r == Take(k, i)
         IN Ordered(r, {}) /\ r.tcb = k.tcb /\ r.runlevel = k.runlevel
  <1>. DEFINE t == k.ccb.cr_active[i]
              n == k.tcb[t].next
              m == [k EXCEPT !.ccb.cr_active[i] = n]
              r == Take(k, i)
  <1>0. k \in Kernel /\ Heads(k, {})
    BY DEF Ordered
  <1>1. t \in Task /\ k.tcb[t].state = "running" /\ Prio[t] = i
    BY <1>0, Basics DEF Kernel, Ccb, Heads
  <1>2. n \in Ref
    BY <1>0, <1>1 DEF Kernel, Tcbs
  <1>3. n # None => Prio[n] = i /\ k.tcb[n].state = "running"
    BY <1>1 DEF Ordered, Links
  <1>4. r = Switch(m, t)
    BY DEF Take
  <1>. HIDE DEF n, t
  <1>5. /\ m \in Kernel /\ m.tcb = k.tcb /\ m.runlevel = k.runlevel
        /\ m.ccb.hd_active = k.ccb.hd_active
        /\ \A j \in Level : m.ccb.cr_active[j] = IF j = i THEN n ELSE k.ccb.cr_active[j]
        /\ m.ccb.hd_blocked = k.ccb.hd_blocked /\ m.ccb.hd_timerq = k.ccb.hd_timerq
        /\ m.ccb.sched_ticks = k.ccb.sched_ticks
    BY <1>0, <1>2 DEF Kernel, Ccb
  <1>. HIDE DEF m, r
  <1>6. SameLists(k, m)
    BY <1>3, <1>5 DEF SameLists
  <1>7. Ordered(m, {})
    BY <1>6, CursorsMove
  <1>8. InTime(m, t)
    BY <1>5 DEF InTime, t
  <1>9. SameLists(m, Switch(m, t)) /\ Switch(m, t).runlevel = m.runlevel
    BY <1>1, <1>7, <1>8, SwitchKeeps
  <1>10. Ordered(r, {})
    BY <1>4, <1>7, <1>9, CursorsMove
  <1>. QED BY <1>4, <1>5, <1>9, <1>10 DEF SameLists, r

(* Levels in front of the one that is picked from begin a new round. *)
LEMMA RewindKeeps ==
  ASSUME NEW k, NEW i \in Nat, Ordered(k, {})
  PROVE  LET r == Rewind(k, i)
         IN /\ Ordered(r, {}) /\ r.tcb = k.tcb /\ Rest(r) = Rest(k)
            /\ r.ccb.hd_timerq = k.ccb.hd_timerq
            /\ \A j \in Level : r.ccb.cr_active[j] = IF j < i /\ j \in Busy(k)
                                                     THEN k.ccb.hd_active[j]
                                                     ELSE k.ccb.cr_active[j]
  <1>. DEFINE r == Rewind(k, i)
              c == [j \in Level |-> IF j < i /\ j \in Busy(k) THEN k.ccb.hd_active[j]
                                    ELSE k.ccb.cr_active[j]]
  <1>0. k \in Kernel /\ Heads(k, {})
    BY DEF Ordered
  <1>1. c \in [Level -> Ref]
    BY <1>0 DEF Kernel, Ccb
  <1>2. r = [k EXCEPT !.ccb.cr_active = c]
    BY DEF Rewind
  <1>3. \A j \in Level : c[j] = k.ccb.cr_active[j] \/ c[j] = None
                         \/ (Prio[c[j]] = j /\ k.tcb[c[j]].state = "running")
    BY <1>0 DEF Heads
  <1>4. \A j \in Level : c[j] = IF j < i /\ j \in Busy(k) THEN k.ccb.hd_active[j]
                                ELSE k.ccb.cr_active[j]
    OBVIOUS
  <1>. HIDE DEF c, r
  <1>5. /\ r \in Kernel /\ r.tcb = k.tcb /\ r.runlevel = k.runlevel
        /\ r.ccb.hd_active = k.ccb.hd_active /\ r.ccb.cr_active = c
        /\ r.ccb.hd_blocked = k.ccb.hd_blocked /\ r.ccb.hd_timerq = k.ccb.hd_timerq
        /\ Rest(r) = Rest(k)
    BY <1>0, <1>1, <1>2 DEF Kernel, Ccb, Rest
  <1>6. SameLists(k, r)
    BY <1>3, <1>5 DEF SameLists
  <1>7. Ordered(r, {})
    BY <1>6, CursorsMove
  <1>. QED BY <1>4, <1>5, <1>7 DEF r

(* sched_pick keeps the lists in order, whatever it wakes and picks. *)
LEMMA PickKeeps ==
  ASSUME NEW k, KernelInv(k)
  PROVE  KernelInv(sched_pick(k))
  <1>. DEFINE h == k.ccb.hd_timerq
              p == sched_pick(k)
  <1>0. Ordered(k, {}) /\ FsAlive(k) /\ k \in Kernel
    BY DEF KernelInv, Ordered
  <1>1. /\ h \in Ref /\ k.ccb.sched_ticks \in Nat
        /\ \A u \in Task : k.tcb[u].alarmusec \in Nat
        /\ \A i \in Level : k.ccb.hd_active[i] \in Ref /\ k.ccb.cr_active[i] \in Ref
    BY <1>0 DEF Kernel, Ccb, Tcbs
  <1>2. Level \subseteq Nat /\ PRI_IDLE \in Nat /\ \A i \in Level : i < PRI_IDLE
    BY LevelAssumption DEF Level
  <1>3. \A i \in Level, t \in Task : k.ccb.cr_active[i] = t => Prio[t] = i
    BY <1>0, Basics DEF Ordered, Heads
  <1>4. h # None => h \in Task /\ Prio[h] \in Level
    BY <1>1, Basics
  <1>5. \A t \in Task : t # Idle /\ Priority(t) = Prio[t] /\ Prio[t] \in Nat
    BY <1>2, Basics DEF Priority
  <1>6. ASSUME Stops(k) = {}, h # None PROVE k.ccb.sched_ticks <= k.tcb[h].alarmusec
    BY <1>1, <1>4, <1>6 DEF Stops, Due
  <1>7. CASE Stops(k) # {}
    <2>. DEFINE i == Min(Stops(k))
                r == Rewind(k, i)
    <2>1. i \in Stops(k) /\ \A j \in Stops(k) : i <= j
      <3>1. Stops(k) \in SUBSET Nat
        BY <1>2 DEF Stops
      <3>. QED BY <1>7, <3>1, MinIs
    <2>2. i \in Level /\ i \in Nat
      BY <1>2, <2>1 DEF Stops
    <2>3. p = Take(IF Due(k, i) THEN AwakeAlarm(r) ELSE r, i)
      BY <1>7 DEF sched_pick
    <2>. HIDE DEF i, p
    <2>4. /\ Ordered(r, {}) /\ r.tcb = k.tcb /\ Rest(r) = Rest(k)
          /\ r.ccb.hd_timerq = h
          /\ r.ccb.cr_active[i] = k.ccb.cr_active[i]
      BY <1>0, <2>2, RewindKeeps
    <2>. HIDE DEF r
    <2>5. CASE Due(k, i)
      <3>. DEFINE a == AwakeAlarm(r)
      <3>1. h # None /\ h \in Task /\ Prio[h] = i
        BY <1>4, <2>5 DEF Due
      <3>2. Awoken(r, a, h)
        BY <2>4, <3>1, HeadWakes
      <3>. HIDE DEF a
      <3>3. /\ Ordered(a, {}) /\ a.ccb.cr_active[i] = h /\ a.ccb.hd_timerq = None
            /\ a.runlevel = k.runlevel
            /\ \A u \in Task : a.tcb[u].state = IF u = h THEN "running" ELSE k.tcb[u].state
        BY <2>4, <3>1, <3>2 DEF Awoken, Rest
      <3>4. InTime(a, h)
        BY <3>3 DEF InTime
      <3>5. Ordered(Take(a, i), {}) /\ Take(a, i).tcb = a.tcb /\ Take(a, i).runlevel = a.runlevel
        BY <2>2, <3>1, <3>3, <3>4, TakeKeeps
      <3>6. p = Take(a, i)
        BY <2>3, <2>5 DEF a
      <3>7. FsAlive(p)
        BY <1>0, <3>3, <3>5, <3>6, Basics DEF FsAlive
      <3>. QED BY <3>5, <3>6, <3>7 DEF KernelInv, p
    <2>6. CASE ~Due(k, i)
      <3>. DEFINE t == k.ccb.cr_active[i]
      <3>1. t # None /\ t \in Task /\ Prio[t] = i
        BY <1>1, <1>3, <2>1, <2>2, <2>6, Basics DEF Stops
      <3>2. ASSUME h # None, ~(Prio[h] > i), ~(k.ccb.sched_ticks <= k.tcb[h].alarmusec)
            PROVE  FALSE
        <4>1. k.tcb[h].alarmusec <= k.ccb.sched_ticks /\ Prio[h] <= i
          <5>1. \A x, y \in Nat : ~(x > y) => x <= y
            OBVIOUS
          <5>2. \A x, y \in Nat : ~(x <= y) => y <= x
            OBVIOUS
          <5>3. Prio[h] \in Nat /\ k.tcb[h].alarmusec \in Nat
            BY <1>1, <1>2, <1>4, <3>2
          <5>4. Prio[h] <= i
            BY <2>2, <3>2, <5>1, <5>3
          <5>5. k.tcb[h].alarmusec <= k.ccb.sched_ticks
            BY <1>1, <3>2, <5>2, <5>3
          <5>. QED BY <5>4, <5>5
        <4>2. Prio[h] \in Stops(k)
          BY <1>4, <3>2, <4>1 DEF Stops, Due
        <4>3. Prio[h] = i
          <5>1. \A x, y \in Nat : x <= y /\ y <= x => x = y
            OBVIOUS
          <5>2. Prio[h] \in Nat /\ i <= Prio[h]
            BY <1>2, <1>4, <2>1, <3>2, <4>2
          <5>. QED BY <2>2, <4>1, <5>1, <5>2
        <4>. QED BY <2>6, <3>2, <4>1, <4>3 DEF Due
      <3>3. InTime(r, t)
        <4>1. r.ccb.sched_ticks = k.ccb.sched_ticks
          BY <2>4 DEF Rest
        <4>2. t # Idle /\ Priority(t) = i
          BY <1>5, <3>1
        <4>. HIDE DEF t
        <4>. QED BY <2>4, <3>2, <4>1, <4>2 DEF InTime
      <3>4. Ordered(Take(r, i), {}) /\ Take(r, i).tcb = r.tcb /\ Take(r, i).runlevel = r.runlevel
        BY <2>2, <2>4, <3>1, <3>3, TakeKeeps
      <3>5. p = Take(r, i) /\ r.runlevel = k.runlevel
        BY <2>3, <2>4, <2>6 DEF Rest
      <3>6. FsAlive(p)
        BY <1>0, <2>4, <3>4, <3>5 DEF FsAlive
      <3>. QED BY <3>4, <3>5, <3>6 DEF KernelInv, p
    <2>. QED BY <2>5, <2>6
  <1>8. CASE Stops(k) = {} /\ Busy(k) # {}
    <2>. DEFINE i == Min(Busy(k))
                r == Rewind(k, PRI_IDLE)
    <2>1. i \in Busy(k)
      <3>1. Busy(k) \in SUBSET Nat
        BY <1>2 DEF Busy
      <3>. QED BY <1>8, <3>1, MinIs
    <2>2. i \in Level /\ k.ccb.hd_active[i] # None
      BY <2>1 DEF Busy
    <2>3. p = Take(r, i)
      BY <1>8 DEF sched_pick
    <2>. HIDE DEF i, p
    <2>4. /\ Ordered(r, {}) /\ r.tcb = k.tcb /\ Rest(r) = Rest(k)
          /\ r.ccb.hd_timerq = h
          /\ r.ccb.cr_active[i] = k.ccb.hd_active[i]
      BY <1>0, <1>2, <2>1, <2>2, RewindKeeps
    <2>. HIDE DEF r
    <2>5. InTime(r, r.ccb.cr_active[i])
      BY <1>6, <1>8, <2>4 DEF InTime, Rest
    <2>6. Ordered(p, {}) /\ p.tcb = r.tcb /\ p.runlevel = r.runlevel
      BY <2>2, <2>3, <2>4, <2>5, TakeKeeps
    <2>7. FsAlive(p)
      BY <1>0, <2>4, <2>6 DEF FsAlive, Rest
    <2>. QED BY <2>6, <2>7 DEF KernelInv, p
  <1>9. CASE Stops(k) = {} /\ Busy(k) = {} /\ k.runlevel = "coop"
    <2>. DEFINE a == sched_awake(k, FS)
                r == drivers_ready(k)
                i == Prio[FS]
    <2>1. p = Take(r, i)
      BY <1>9 DEF sched_pick
    <2>2. r = [a EXCEPT !.runlevel = "norm"]
      BY DEF drivers_ready
    <2>3. Awoken(k, a, FS)
      BY <1>0, <1>9, Basics, AwakeWakes DEF FsAlive
    <2>. HIDE DEF a, r, p
    <2>4. a \in Kernel /\ Ordered(a, {})
      BY <2>3 DEF Awoken, Ordered
    <2>5. r \in Kernel /\ r.ccb = a.ccb /\ r.tcb = a.tcb /\ r.runlevel = "norm"
      BY <2>2, <2>4 DEF Kernel
    <2>6. SameLists(a, r)
      BY <2>5 DEF SameLists
    <2>7. Ordered(r, {})
      BY <2>4, <2>6, CursorsMove
    <2>8. r.ccb.cr_active[i] = FS /\ i \in Level /\ FS # None
      BY <2>3, <2>5, Basics DEF Awoken
    <2>9. InTime(r, FS)
      <3>1. /\ r.ccb.hd_timerq = IF h = FS THEN None ELSE h
            /\ r.ccb.sched_ticks = k.ccb.sched_ticks
            /\ \A u \in Task : u # FS => r.tcb[u].alarmusec = k.tcb[u].alarmusec
        BY <2>3, <2>5 DEF Awoken, Rest
      <3>. QED BY <1>4, <1>6, <1>9, <3>1 DEF InTime
    <2>10. Ordered(p, {}) /\ p.tcb = r.tcb
      BY <2>1, <2>7, <2>8, <2>9, TakeKeeps
    <2>11. p.tcb[FS].state = "running"
      BY <2>3, <2>5, <2>10, Basics DEF Awoken
    <2>. QED BY <2>10, <2>11 DEF KernelInv, FsAlive, p
  <1>10. CASE Stops(k) = {} /\ Busy(k) = {} /\ k.runlevel # "coop"
    <2>1. p = Switch(k, Idle)
      BY <1>10 DEF sched_pick
    <2>2. InTime(k, Idle)
      BY <1>6, <1>10 DEF InTime
    <2>3. Idle \in Task \cup {Idle}
      OBVIOUS
    <2>4. SameLists(k, Switch(k, Idle)) /\ Switch(k, Idle).runlevel = k.runlevel
      BY <1>0, <2>2, <2>3, SwitchKeeps
    <2>. HIDE DEF p
    <2>5. Ordered(p, {})
      BY <1>0, <2>1, <2>4, CursorsMove
    <2>6. FsAlive(p)
      BY <1>0, <2>1, <2>4 DEF FsAlive, SameLists
    <2>. QED BY <2>5, <2>6 DEF KernelInv, p
  <1>. QED BY <1>7, <1>8, <1>9, <1>10

-----------------------------------------------------------------------------
(* The steps of the system *)

SchedInv ==
    /\ KernelInv(kernel)
    /\ left \in [Task -> Nat]
    /\ waited \in [Task -> 0..MaxWait]

(* The state an action leaves is the one its functions computed. *)
LEMMA CommitKeeps ==
  ASSUME NEW k, KernelInv(k), ccb' = k.ccb, tcb' = k.tcb, runlevel' = k.runlevel
  PROVE  KernelInv(kernel)'
  <1>1. k \in Kernel
    BY DEF KernelInv, Ordered
  <1>2. kernel' = k
    BY <1>1 DEF kernel, Kernel
  <1>3. KernelInv(kernel')
    BY <1>2
  <1>. QED BY <1>3

(* The history of the waiting times stays within its bound. *)
LEMMA CountedKeeps ==
  ASSUME NEW k, waited \in [Task -> 0..MaxWait], Counted(k) \/ Forgotten \/ UNCHANGED waited
  PROVE  waited' \in [Task -> 0..MaxWait]
  <1>1. MaxWait \in Nat
    BY TimeAssumption
  <1>2. CASE Counted(k)
    <2>1. \A t \in Task : waited[t] \in 0..MaxWait
      OBVIOUS
    <2>2. \A x \in 0..MaxWait : x # MaxWait => x + 1 \in 0..MaxWait
      BY <1>1
    <2>3. 0 \in 0..MaxWait /\ MaxWait \in 0..MaxWait
      BY <1>1
    <2>. QED BY <1>2, <2>1, <2>2, <2>3 DEF Counted
  <1>3. CASE Forgotten
    BY <1>1, <1>3 DEF Forgotten
  <1>4. CASE UNCHANGED waited
    BY <1>4
  <1>. QED BY <1>2, <1>3, <1>4

(* A difference cut off at zero is a natural number. *)
LEMMA MaxZero ==
  ASSUME NEW x \in Int
  PROVE  Max({0, x}) \in Nat
  <1>. DEFINE S == {0, x}
              P(z) == z \in S /\ \A y \in S : z >= y
  <1>1. \E z : P(z)
    <2>1. P(0) \/ P(x)
      OBVIOUS
    <2>. QED BY <2>1
  <1>2. Max(S) = CHOOSE z : P(z)
    BY DEF Max
  <1>3. P(CHOOSE z : P(z))
    <2>. HIDE DEF P
    <2>. QED BY <1>1, Zenon
  <1>4. \A z : P(z) => z \in Nat
    OBVIOUS
  <1>. HIDE DEF P
  <1>. QED BY <1>2, <1>3, <1>4

(* Before the boot no list has a task. *)
LEMMA InitKeeps == Init => SchedInv
  <1>. SUFFICES ASSUME Init PROVE SchedInv
    OBVIOUS
  <1>1. kernel \in Kernel
    BY Basics DEF Init, kernel, Kernel, Ccb, Tcbs, State
  <1>. DEFINE rank == [t \in Task |-> 0]
  <1>2. Links(kernel, rank, {})
    BY DEF Init, kernel, Links
  <1>3. Heads(kernel, {})
    BY DEF Init, kernel, Heads
  <1>4. rank \in [Task -> Nat]
    OBVIOUS
  <1>5. Ordered(kernel, {})
    <2>. HIDE DEF rank
    <2>. QED BY <1>1, <1>2, <1>3, <1>4 DEF Ordered
  <1>6. FsAlive(kernel)
    BY Basics DEF Init, kernel, FsAlive
  <1>7. left \in [Task -> Nat] /\ waited \in [Task -> 0..MaxWait]
    BY TimeAssumption DEF Init
  <1>. QED BY <1>5, <1>6, <1>7 DEF SchedInv, KernelInv

(* A kernel that has woken an existing task is in order. *)
LEMMA AwakeKeeps ==
  ASSUME NEW k, KernelInv(k), NEW t \in Task, k.tcb[t].state \in {"running", "blocked"}
  PROVE  KernelInv(sched_awake(k, t))
  <1>1. Awoken(k, sched_awake(k, t), t)
    BY AwakeWakes DEF KernelInv
  <1>2. FsAlive(sched_awake(k, t))
    BY <1>1, Basics DEF KernelInv, FsAlive, Awoken, Rest
  <1>. QED BY <1>1, <1>2 DEF KernelInv, Awoken

(* Every system call and interrupt keeps the invariant. *)
LEMMA NextKeeps ==
  ASSUME SchedInv, [Next]_vars, MaxSleepers <= 1
  PROVE  SchedInv'
  <1>0. KernelInv(kernel) /\ left \in [Task -> Nat] /\ waited \in [Task -> 0..MaxWait]
    BY DEF SchedInv
  <1>k. kernel.ccb = ccb /\ kernel.tcb = tcb /\ kernel.runlevel = runlevel
    BY DEF kernel
  <1>o. kernel \in Kernel /\ Ordered(kernel, {}) /\ FsAlive(kernel)
    BY <1>0 DEF KernelInv, Ordered
  <1>. SUFFICES KernelInv(kernel)' /\ left' \in [Task -> Nat] /\ waited' \in [Task -> 0..MaxWait]
    BY DEF SchedInv
  <1>1. ASSUME NEW t \in Task, Load(t)
        PROVE  KernelInv(kernel)' /\ left' \in [Task -> Nat] /\ waited' \in [Task -> 0..MaxWait]
    <2>. DEFINE r == sched_add(kernel, t)
    <2>1. Ordered(kernel, {t})
      BY <1>k, <1>o, <1>1, NewIsOut DEF Load
    <2>2. r = AddedAt(kernel, t, "head") /\ "head" \in {"cursor", "head"}
      BY DEF AddedAt
    <2>3. /\ PutIn(kernel, AddedAt(kernel, t, "head"), t, "running",
                   kernel.ccb.hd_active[Prio[t]])
          /\ Rest(AddedAt(kernel, t, "head")) = Rest(kernel)
      <3>1. PutIn(kernel, AddedAt(kernel, t, "head"), t, "running",
                  kernel.ccb.hd_active[Prio[t]])
        BY <2>1, <2>2, AddPutsIn
      <3>2. Rest(AddedAt(kernel, t, "head")) = Rest(kernel)
        BY <2>1, <2>2, AddPutsIn
      <3>. QED BY <3>1, <3>2
    <2>4. Ordered(r, {})
      BY <2>1, <2>2, <2>3, PutInOrdered
    <2>. HIDE DEF r
    <2>5. FsAlive(r)
      BY <1>o, <2>2, <2>3, Basics DEF FsAlive, PutIn, Rest
    <2>6. KernelInv(r)
      BY <2>4, <2>5 DEF KernelInv
    <2>7. ccb' = r.ccb /\ tcb' = r.tcb /\ runlevel' = r.runlevel /\ UNCHANGED <<left, waited>>
      BY <1>1 DEF Load, Commit, r
    <2>. QED BY <1>0, <2>6, <2>7, CommitKeeps
  <1>2. ASSUME Start
        PROVE  KernelInv(kernel)' /\ left' \in [Task -> Nat] /\ waited' \in [Task -> 0..MaxWait]
    <2>. DEFINE r == [kernel EXCEPT !.runlevel = "coop"]
    <2>1. r \in Kernel /\ r.ccb = ccb /\ r.tcb = tcb /\ r.runlevel = "coop"
      BY <1>k, <1>o DEF Kernel
    <2>. HIDE DEF r
    <2>2. Ordered(r, {})
      BY <1>k, <1>o, <2>1, CursorsMove DEF SameLists
    <2>3. FsAlive(r)
      BY <1>k, <1>o, <1>2, <2>1, Basics DEF FsAlive, Start
    <2>4. ccb' = r.ccb /\ tcb' = r.tcb /\ runlevel' = r.runlevel
      BY <1>2, <2>1 DEF Start
    <2>. QED BY <1>0, <1>2, <2>2, <2>3, <2>4, CommitKeeps DEF KernelInv, Start
  <1>3. ASSUME NEW t \in Task, yield(t)
        PROVE  KernelInv(kernel)' /\ left' \in [Task -> Nat] /\ waited' \in [Task -> 0..MaxWait]
    <2>. DEFINE r == sched_pick(kernel)
    <2>1. KernelInv(r)
      BY <1>0, PickKeeps
    <2>. HIDE DEF r
    <2>2. /\ ccb' = r.ccb /\ tcb' = r.tcb /\ runlevel' = r.runlevel
          /\ Counted(r) /\ UNCHANGED left
      BY <1>3 DEF yield, Commit, r
    <2>. QED BY <1>0, <2>1, <2>2, CommitKeeps, CountedKeeps
  <1>4. ASSUME NEW t \in Task, recv(t)
        PROVE  KernelInv(kernel)' /\ left' \in [Task -> Nat] /\ waited' \in [Task -> 0..MaxWait]
    <2>. DEFINE b == sched_block(kernel, t)
                r == sched_pick(b)
    <2>1. /\ Ordered(b, {}) /\ Rest(b) = Rest(kernel)
          /\ \A u \in Task : b.tcb[u].state = IF u = t /\ kernel.tcb[t].state = "running"
                                              THEN "blocked" ELSE kernel.tcb[u].state
      BY <1>o, BlockBlocks
    <2>. HIDE DEF b
    <2>2. FsAlive(b)
      BY <1>o, <2>1, Basics DEF FsAlive, Rest
    <2>3. KernelInv(r)
      BY <2>1, <2>2, PickKeeps DEF KernelInv
    <2>. HIDE DEF r
    <2>4. /\ ccb' = r.ccb /\ tcb' = r.tcb /\ runlevel' = r.runlevel
          /\ Counted(r) /\ UNCHANGED left
      BY <1>4 DEF recv, Commit, r, b
    <2>. QED BY <1>0, <2>3, <2>4, CommitKeeps, CountedKeeps
  <1>5. ASSUME NEW t \in Sender, NEW u \in Task, send(t, u)
        PROVE  KernelInv(kernel)' /\ left' \in [Task -> Nat] /\ waited' \in [Task -> 0..MaxWait]
    <2>. DEFINE r == sched_awake(kernel, u)
    <2>1. KernelInv(r)
      BY <1>0, <1>k, <1>5, AwakeKeeps DEF send, Alive
    <2>. HIDE DEF r
    <2>2. /\ ccb' = r.ccb /\ tcb' = r.tcb /\ runlevel' = r.runlevel
          /\ Forgotten /\ UNCHANGED left
      BY <1>5 DEF send, Commit, r
    <2>. QED BY <1>0, <2>1, <2>2, CommitKeeps, CountedKeeps
  <1>6. ASSUME NEW t \in Sleeper, NEW usec \in Usec, usleep(t, usec)
        PROVE  KernelInv(kernel)' /\ left' \in [Task -> Nat] /\ waited' \in [Task -> 0..MaxWait]
    <2>. DEFINE r == sched_delay(kernel, t, usec)
    <2>0. t \in Task /\ usec \in Nat
      BY TaskAssumption, TimeAssumption
    <2>1. kernel.ccb.hd_timerq = None
      <3>. SUFFICES ASSUME ccb.hd_timerq # None PROVE FALSE
        BY <1>k
      <3>1. ccb.hd_timerq \in Task
        BY <1>k, <1>o, Basics DEF Kernel, Ccb
      <3>2. Members(tcb, ccb.hd_timerq) = {u \in Task : u = ccb.hd_timerq}
        BY <1>k, <1>o, ListsFollow
      <3>3. Asleep = {ccb.hd_timerq}
        BY <3>1, <3>2 DEF Asleep
      <3>4. Cardinality(Asleep) = 1
        BY <3>3, FS_Singleton
      <3>5. MaxSleepers \in Nat /\ Cardinality(Asleep) < MaxSleepers
        BY <1>6, TimeAssumption DEF usleep
      <3>. QED BY <3>4, <3>5
    <2>2. /\ Ordered(r, {}) /\ r.runlevel = kernel.runlevel
          /\ \A u \in Task : r.tcb[u].state = IF u = t /\ kernel.tcb[t].state = "running"
                                              THEN "blocked" ELSE kernel.tcb[u].state
      BY <1>o, <2>0, <2>1, DelayDelays
    <2>. HIDE DEF r
    <2>3. FsAlive(r)
      BY <1>o, <2>2, Basics DEF FsAlive
    <2>4. /\ ccb' = r.ccb /\ tcb' = r.tcb /\ runlevel' = r.runlevel /\ Forgotten
          /\ left' = IF tcb[t].state = "running" THEN [left EXCEPT ![t] = usec] ELSE left
      BY <1>6 DEF usleep, Commit, r
    <2>5. left' \in [Task -> Nat]
      BY <1>0, <2>0, <2>4
    <2>6. KernelInv(r)
      BY <2>2, <2>3 DEF KernelInv
    <2>. QED BY <1>0, <2>4, <2>5, <2>6, CommitKeeps, CountedKeeps
  <1>7. ASSUME NEW t \in Exiting, exit(t)
        PROVE  KernelInv(kernel)' /\ left' \in [Task -> Nat] /\ waited' \in [Task -> 0..MaxWait]
    <2>. DEFINE a == sched_awake(kernel, FS)
                gone == sched_remove(a, t)
                d == [gone EXCEPT !.tcb[t].state = "dead"]
                r == sched_pick(d)
    <2>0. t \in Task /\ t # FS /\ FS \in Task
      BY TaskAssumption
    <2>1. kernel.tcb[FS].state \in {"running", "blocked"}
      BY <1>k, <1>o, <1>7 DEF FsAlive, exit, OnCPU
    <2>2. Awoken(kernel, a, FS)
      BY <1>o, <2>0, <2>1, AwakeWakes
    <2>. HIDE DEF a
    <2>3. Ordered(a, {}) /\ a.tcb[FS].state = "running"
      BY <2>0, <2>2 DEF Awoken
    <2>4. /\ Ordered(d, {}) /\ Rest(d) = Rest(a)
          /\ \A u \in Task : u # t => d.tcb[u].state = a.tcb[u].state
      BY <2>0, <2>3, RemovedDies
    <2>5. KernelInv(d)
      <3>. HIDE DEF d
      <3>. QED BY <2>0, <2>3, <2>4 DEF KernelInv, FsAlive
    <2>6. KernelInv(r)
      <3>. HIDE DEF d
      <3>. QED BY <2>5, PickKeeps
    <2>. HIDE DEF r
    <2>7. /\ ccb' = r.ccb /\ tcb' = r.tcb /\ runlevel' = r.runlevel /\ Forgotten
          /\ left' = [left EXCEPT ![t] = 0]
      BY <1>7 DEF exit, Commit, r, a
    <2>8. left' \in [Task -> Nat]
      BY <1>0, <2>7
    <2>. QED BY <1>0, <2>6, <2>7, <2>8, CommitKeeps, CountedKeeps
  <1>8. ASSUME NEW t \in Notified, drivers_intr(t)
        PROVE  KernelInv(kernel)' /\ left' \in [Task -> Nat] /\ waited' \in [Task -> 0..MaxWait]
    <2>. DEFINE a == sched_awake(kernel, t)
                r == sched_pick(a)
    <2>1. KernelInv(a)
      BY <1>0, <1>k, <1>8, TaskAssumption, AwakeKeeps DEF drivers_intr, Alive
    <2>2. KernelInv(r)
      BY <2>1, PickKeeps
    <2>. HIDE DEF r
    <2>3. /\ ccb' = r.ccb /\ tcb' = r.tcb /\ runlevel' = r.runlevel
          /\ Forgotten /\ UNCHANGED left
      BY <1>8 DEF drivers_intr, Commit, r
    <2>. QED BY <1>0, <2>2, <2>3, CommitKeeps, CountedKeeps
  <1>9. ASSUME sched_intr
        PROVE  KernelInv(kernel)' /\ left' \in [Task -> Nat] /\ waited' \in [Task -> 0..MaxWait]
    <2>. DEFINE ticks == IF ccb.hd_timerq = None THEN 0 ELSE ccb.sched_ticks + ccb.sched_delta
                m == [kernel EXCEPT !.ccb.sched_ticks = ticks, !.ccb.armed = ~OneShot]
                r == sched_pick(m)
                time == IF ccb.sched_delta \in 0..quantum THEN ccb.sched_delta ELSE quantum
    <2>0. ccb \in Ccb /\ tcb \in Tcbs
      BY <1>k, <1>o DEF Kernel
    <2>1. ticks \in Nat /\ time \in Nat /\ (~OneShot) \in BOOLEAN
      BY <2>0, TimeAssumption DEF Ccb
    <2>. HIDE DEF ticks, time
    <2>2. /\ m \in Kernel /\ m.tcb = kernel.tcb /\ m.runlevel = kernel.runlevel
          /\ m.ccb.hd_active = kernel.ccb.hd_active /\ m.ccb.cr_active = kernel.ccb.cr_active
          /\ m.ccb.hd_blocked = kernel.ccb.hd_blocked /\ m.ccb.hd_timerq = kernel.ccb.hd_timerq
      BY <1>o, <2>1 DEF Kernel, Ccb
    <2>. HIDE DEF m
    <2>3. Ordered(m, {})
      BY <1>o, <2>2, CursorsMove DEF SameLists
    <2>4. KernelInv(m)
      BY <1>o, <2>2, <2>3 DEF KernelInv, FsAlive
    <2>5. KernelInv(r)
      BY <2>4, PickKeeps
    <2>. HIDE DEF r
    <2>6. /\ ccb' = r.ccb /\ tcb' = r.tcb /\ runlevel' = r.runlevel /\ Counted(r)
          /\ left' = [t \in Task |-> IF t \in Asleep THEN Max({0, left[t] - time}) ELSE left[t]]
      BY <1>9 DEF sched_intr, Commit, r, m, ticks, time
    <2>7. left' \in [Task -> Nat]
      <3>1. \A t \in Task : left[t] \in Nat /\ left[t] - time \in Int
        BY <1>0, <2>1
      <3>2. \A t \in Task : Max({0, left[t] - time}) \in Nat
        BY <3>1, MaxZero
      <3>. QED BY <2>6, <3>1, <3>2
    <2>. QED BY <1>0, <2>5, <2>6, <2>7, CommitKeeps, CountedKeeps
  <1>10. CASE UNCHANGED vars
    <2>1. kernel' = kernel /\ left' = left /\ waited' = waited
      BY <1>10 DEF vars, kernel
    <2>. QED BY <1>0, <2>1
  <1>. QED BY <1>1, <1>2, <1>3, <1>4, <1>5, <1>6, <1>7, <1>8, <1>9, <1>10 DEF Next

-----------------------------------------------------------------------------
(* The theorems.  All of them are about a core on which one task at most   *)
(* sleeps at a time: sched_pick passes the head of the sleeping queue to   *)
(* sched_awake by an address that sched_awake maps to the next sleeping    *)
(* task, so with two of them the wrong one is put into the active list.    *)

(* The invariant of the kernel holds always. *)
LEMMA Inductive ==
  ASSUME MaxSleepers <= 1
  PROVE  Spec => []SchedInv
  <1>1. SchedInv /\ [Next]_vars => SchedInv'
    BY NextKeeps
  <1>. QED BY <1>1, InitKeeps, PTL DEF Spec

(* The fields of the control blocks keep their types, whatever the system  *)
(* calls and interrupts do: the timer is never set to a negative time, and *)
(* sched_pick never takes the page at address 0 for a task.                *)
THEOREM TypeCorrect ==
  ASSUME MaxSleepers <= 1
  PROVE  Spec => []TypeOK
  <1>1. ASSUME SchedInv PROVE TypeOK
    <2>1. kernel \in Kernel
      BY <1>1 DEF SchedInv, KernelInv, Ordered
    <2>2. ccb \in Ccb /\ tcb \in Tcbs /\ runlevel \in {"load", "coop", "norm"}
      BY <2>1 DEF kernel, Kernel
    <2>3. ccb \in [hd_active : [Level -> Task \union {None}],
                   cr_active : [Level -> Task \union {None}],
                   hd_blocked : Task \union {None}, hd_timerq : Task \union {None},
                   current : Task \union {None, Idle},
                   sched_ticks : Nat, sched_delta : Int, armed : BOOLEAN]
      <3>1. Ref \cup {Idle} = Task \union {None, Idle}
        BY DEF Ref
      <3>. QED BY <2>2, <3>1 DEF Ccb, Ref
    <2>. QED BY <1>1, <2>2, <2>3 DEF TypeOK, SchedInv, Tcbs, State, Ref
  <1>. QED BY <1>1, Inductive, PTL

(* Every task is in exactly the list its state says, and the lists are     *)
(* doubly linked, after any number of wake-ups, blocks, sleeps and exits   *)
(* of any tasks on any levels.                                             *)
THEOREM TasksStayInLists ==
  ASSUME MaxSleepers <= 1
  PROVE  Spec => []TasksInLists
  <1>1. ASSUME SchedInv PROVE TasksInLists
    <2>. DEFINE q == ccb.hd_timerq
    <2>0. kernel.ccb = ccb /\ kernel.tcb = tcb /\ Ordered(kernel, {})
      BY <1>1 DEF kernel, SchedInv, KernelInv
    <2>1. /\ \A i \in Level : Members(tcb, ccb.hd_active[i]) =
                {t \in Task : tcb[t].state = "running" /\ Prio[t] = i}
          /\ Members(tcb, ccb.hd_blocked) = {t \in Task : tcb[t].state = "blocked" /\ t # q}
          /\ Asleep = {t \in Task : t = q}
      BY <2>0, ListsFollow DEF Asleep
    <2>2. Heads(kernel, {})
      BY <2>0 DEF Ordered
    <2>3. /\ q # None => tcb[q].state = "blocked"
          /\ ccb.hd_blocked # None => tcb[ccb.hd_blocked].prev = None
          /\ \A i \in Level : ccb.hd_active[i] # None => tcb[ccb.hd_active[i]].prev = None
      BY <2>0, <2>2 DEF Heads
    <2>4. \A t \in Task : tcb[t].next # None => tcb[tcb[t].next].prev = t
      BY <2>0 DEF Ordered, Links
    <2>5. \A t \in Asleep : tcb[t].state = "blocked"
      BY <2>1, <2>3, Basics
    <2>. HIDE DEF q
    <2>6. /\ Members(tcb, ccb.hd_blocked) \union Asleep = {t \in Task : tcb[t].state = "blocked"}
          /\ Members(tcb, ccb.hd_blocked) \intersect Asleep = {}
      BY <2>1, <2>5
    <2>7. \A i \in Level : Doubly(ccb.hd_active[i])
      BY <2>1, <2>3, <2>4 DEF Doubly
    <2>8. Doubly(ccb.hd_blocked)
      BY <2>1, <2>3, <2>4 DEF Doubly
    <2>. QED BY <2>1, <2>6, <2>7, <2>8 DEF TasksInLists
  <1>. QED BY <1>1, Inductive, PTL

(* The cursor of a level never points to a task that has left its level,   *)
(* so the task that sched_pick takes there is one that may run.            *)
THEOREM CursorsStayValid ==
  ASSUME MaxSleepers <= 1
  PROVE  Spec => []CursorsValid
  <1>1. ASSUME SchedInv PROVE CursorsValid
    <2>0. kernel.ccb = ccb /\ kernel.tcb = tcb /\ Ordered(kernel, {})
      BY <1>1 DEF kernel, SchedInv, KernelInv
    <2>1. \A i \in Level : Members(tcb, ccb.hd_active[i]) =
                {t \in Task : tcb[t].state = "running" /\ Prio[t] = i}
      BY <2>0, ListsFollow
    <2>2. \A i \in Level : ccb.cr_active[i] \in Ref
      BY <2>0 DEF Ordered, Kernel, Ccb
    <2>3. \A i \in Level : ccb.cr_active[i] # None =>
             Prio[ccb.cr_active[i]] = i /\ tcb[ccb.cr_active[i]].state = "running"
      BY <2>0 DEF Ordered, Heads
    <2>. QED BY <2>1, <2>2, <2>3, Basics DEF CursorsValid
  <1>. QED BY <1>1, Inductive, PTL
=============================================================================
