----------------------------- MODULE IrqProofs ------------------------------
(***************************************************************************)
(* Proofs about the end of the boot and the interrupts, for any cores,     *)
(* drivers, lines and calls of the drivers.                                *)
(***************************************************************************)
EXTENDS Irq, FiniteSetTheorems, TLAPS

-----------------------------------------------------------------------------
(* The inductive invariants *)

PC == {"none", "init", "recv", "irq", "ack", "gone"}
Number == Line \cup {USHRT_MAX}

(* The types, of the boot and of the drivers. *)
BootOK ==
    /\ runlevel \in {"BOOT", "COOP", "NORM"}
    /\ numcores \in Nat /\ numinit \in Nat
    /\ lck \in Core \cup {None}
    /\ core \in [Core -> {"off", "start", "run", "load", "store", "wait", "norm"}]
    /\ reg \in [Core -> Nat]

DriverOK ==
    /\ drv \in [Driver -> [pc : PC, left : Seq(Call), irq : Number]]
    /\ inbox \in [Driver -> Seq(Number)]
    /\ masked \subseteq Line /\ latch \subseteq Line /\ due \subseteq Line

(* A list of handlers never has more than one entry. *)
RoutesOK ==
    /\ routes = [l \in Line |-> routes[l]]
    /\ \A l \in Line : routes[l] = <<>> \/ \E d \in Driver : routes[l] = <<d>>

ClockOK ==
    /\ time = [cnt |-> time.cnt, ts |-> time.ts, ns |-> time.ns, ticks |-> time.ticks, tz |-> time.tz]
    /\ time.cnt \in 1..clock_freq
    /\ clock_pids \in {0, 1}

(* numcores and numinit are what they are meant to be: the cores that have *)
(* come up, and the ones that have come through drivers_ready.             *)
Up    == {c \in Core : core[c] # "off"}
Ready == {c \in Core : core[c] \in {"wait", "norm"}}

Counted == numcores = Cardinality(Up) /\ numinit = Cardinality(Ready)

(* The core at numinit++ has the lock, and what it has loaded is current. *)
Locked ==
    \A c \in Core : /\ core[c] \in {"load", "store"} => lck = c
                    /\ core[c] = "store" => reg[c] = numinit

(* Where the cores are at each run level. *)
Stages ==
    /\ runlevel = "BOOT" => \A c \in Core : core[c] \in {"off", "start"}
    /\ runlevel # "BOOT" => /\ \A c \in Core \ Late : core[c] # "off"
                            /\ core[BSP] \notin {"off", "start"}
    /\ runlevel = "NORM" <=> core[BSP] = "norm"
    /\ runlevel = "NORM" => /\ \A c \in Core : core[c] \in {"off", "start", "wait", "norm"}
                            /\ \A c \in Core \ Late : core[c] \in {"wait", "norm"}
    /\ runlevel # "NORM" => \A c \in Core : core[c] # "norm"

(* No interrupt reaches a driver before the lines are opened. *)
Closed ==
    runlevel # "NORM" => /\ masked = Line
                         /\ \A d \in Driver : inbox[d] = <<>> /\ drv[d].pc \notin {"irq", "ack"}

BootInv == BootOK /\ Counted /\ Locked /\ Stages
DriverInv == BootInv /\ DriverOK /\ RoutesOK /\ ClockOK /\ Closed

(* A driver is at work on the message of a line, or has one at place i. *)
Works(d, l) == drv[d].pc \in {"irq", "ack"} /\ drv[d].irq = l
Waits(d, i, l) == i \in DOMAIN inbox[d] /\ inbox[d][i] = l

(* There is at most one message about a line, and none while it is open. *)
OneMessage ==
    \A l \in Line :
        /\ \A d, e \in Driver : \A i, j \in Nat :
              Waits(d, i, l) /\ Waits(e, j, l) => d = e /\ i = j
        /\ \A d, e \in Driver : \A i \in Nat : ~(Waits(d, i, l) /\ Works(e, l))
        /\ \A d, e \in Driver : Works(d, l) /\ Works(e, l) => d = e
        /\ l \notin masked => \A d \in Driver : ~Works(d, l) /\ \A i \in Nat : ~Waits(d, i, l)

(* The line of the clock is not one a driver answers for. *)
ClockApart ==
    /\ \A d \in Driver : ~Works(d, clock_irq) /\ \A i \in Nat : ~Waits(d, i, clock_irq)
    /\ clock_irq \notin due
    /\ runlevel = "NORM" => clock_irq \notin masked

(* A closed line with a handler has its message; a device that waits has   *)
(* its request or its message.                                             *)
Owed ==
    runlevel = "NORM" =>
        \A l \in masked : Routed(l) => \E d \in Driver : Works(d, l) \/ \E i \in Nat : Waits(d, i, l)

Kept ==
    /\ runlevel # "NORM" => due \subseteq latch
    /\ runlevel = "NORM" =>
          \A l \in due : Routed(l) =>
              \/ l \in latch
              \/ \E d \in Driver : \/ drv[d].pc = "irq" /\ drv[d].irq = l
                                   \/ \E i \in Nat : Waits(d, i, l)

(* Calls that neither ask for a line nor add a driver. *)
Silent(calls) == \A i \in DOMAIN calls : calls[i].fn \notin {"SYS_regirq", "SYS_drvadd"}

(* The calls a driver has left are calls of its drv_init. *)
LeftOK ==
    \A d \in Driver : /\ Range(drv[d].left) \subseteq Range(Calls[d])
                      /\ drv[d].pc = "none" => drv[d].left = Calls[d]

(* A core that has come to drivers_ready has no driver that asks for a     *)
(* line after that.                                                        *)
Asked ==
    \A d \in Driver : core[CoreOf[d]] \in {"load", "store", "wait", "norm"} /\ drv[d].pc = "init"
                        => Silent(drv[d].left)

(* A driver that is added by another one asks for no lines and adds none   *)
(* itself, or it is on the core of the one that adds it: the core is not   *)
(* in drivers_ready before the new driver has made its calls.  Where there *)
(* is one core this always holds; with more, task_new may choose another.  *)
AddedInTime ==
    \A e, d \in Driver : \A i \in DOMAIN Calls[e] :
        Calls[e][i].fn = "SYS_drvadd" /\ Calls[e][i].arg = d
            => CoreOf[d] = CoreOf[e] \/ Silent(Calls[d])

LineInv == OneMessage /\ ClockApart /\ Owed /\ Kept /\ LeftOK /\ Asked

-----------------------------------------------------------------------------
(* The boot *)

(* Counting cores: one more is one more, and all of them are all. *)
LEMMA CoresCounted ==
  ASSUME NEW S, S \subseteq Core
  PROVE  /\ Cardinality(S) \in Nat /\ Cardinality(S) <= Cardinality(Core)
         /\ \A x \in Core \ S : Cardinality(S \cup {x}) = Cardinality(S) + 1
         /\ \A T \in SUBSET S : /\ Cardinality(T) \in Nat
                                /\ Cardinality(T) <= Cardinality(S)
                                /\ Cardinality(T) = Cardinality(S) => T = S
  <1>1. IsFiniteSet(Core)
    BY CoresFinite
  <1>2. IsFiniteSet(S)
    BY <1>1, FS_Subset
  <1>3. Cardinality(S) \in Nat /\ Cardinality(S) <= Cardinality(Core)
    BY <1>1, <1>2, FS_Subset, FS_CardinalityType
  <1>4. \A x \in Core \ S : Cardinality(S \cup {x}) = Cardinality(S) + 1
    BY <1>2, FS_AddElement
  <1>5. \A T \in SUBSET S : /\ IsFiniteSet(T)
                            /\ Cardinality(T) <= Cardinality(S)
                            /\ Cardinality(T) = Cardinality(S) => T = S
    BY <1>2, FS_Subset
  <1>6. \A T \in SUBSET S : Cardinality(T) \in Nat
    BY <1>5, FS_CardinalityType
  <1>. QED BY <1>3, <1>4, <1>5, <1>6

(* A step that leaves the cores and their counters alone. *)
LEMMA BootUnchanged == BootInv /\ UNCHANGED bootvars => BootInv'
  BY DEF bootvars, BootInv, BootOK, Counted, Locked, Stages, Up, Ready

(* The rendezvous of the cores: the counters are right through every step, *)
(* and the lock of drivers_ready makes numinit++ one step.                 *)
LEMMA BootStep == BootInv /\ Next => BootInv'
  <1>. SUFFICES ASSUME BootInv, Next PROVE BootInv'
    OBVIOUS
  <1>. USE BSPIsCore
  <1>0. /\ BootOK /\ Counted /\ Locked /\ Stages
        /\ Up \subseteq Core /\ Ready \subseteq Up /\ None \notin Core
    BY CoresFinite DEF BootInv, Up, Ready, None
  <1>1. ASSUME NEW c \in Core, Count(c) PROVE BootInv'
    <2>1. Up' = Up \cup {c} /\ c \notin Up /\ Ready' = Ready
      BY <1>0, <1>1 DEF Count, BootOK, Up, Ready
    <2>2. Counted'
      BY <1>0, <1>1, <2>1, CoresCounted DEF Count, Counted
    <2>3. BootOK' /\ Locked' /\ Stages'
      BY <1>0, <1>1 DEF Count, BootOK, Locked, Stages
    <2>. QED BY <2>2, <2>3 DEF BootInv
  <1>2. ASSUME NEW c \in Core, ap_start(c) PROVE BootInv'
    <2>1. Up' = Up /\ Ready' = Ready
      BY <1>0, <1>2 DEF ap_start, BootOK, Up, Ready
    <2>2. BootOK' /\ Counted' /\ Locked' /\ Stages'
      BY <1>0, <1>2, <2>1 DEF ap_start, BootOK, Counted, Locked, Stages
    <2>. QED BY <2>2 DEF BootInv
  <1>3. ASSUME NEW c \in Core, AcquireReady(c) PROVE BootInv'
    <2>1. Up' = Up /\ Ready' = Ready
      BY <1>0, <1>3 DEF AcquireReady, BootOK, Up, Ready
    <2>2. BootOK' /\ Counted' /\ Locked' /\ Stages'
      BY <1>0, <1>3, <2>1 DEF AcquireReady, BootOK, Counted, Locked, Stages
    <2>. QED BY <2>2 DEF BootInv
  <1>4. ASSUME NEW c \in Core, LoadNuminit(c) PROVE BootInv'
    <2>1. Up' = Up /\ Ready' = Ready
      BY <1>0, <1>4 DEF LoadNuminit, BootOK, Up, Ready
    <2>2. BootOK' /\ Counted' /\ Locked' /\ Stages'
      BY <1>0, <1>4, <2>1 DEF LoadNuminit, BootOK, Counted, Locked, Stages
    <2>. QED BY <2>2 DEF BootInv
  <1>5. ASSUME NEW c \in Core, StoreNuminit(c) PROVE BootInv'
    <2>1. Up' = Up /\ Ready' = Ready \cup {c} /\ c \notin Ready
      BY <1>0, <1>5 DEF StoreNuminit, BootOK, Up, Ready
    <2>2. Counted'
      BY <1>0, <1>5, <2>1, CoresCounted DEF StoreNuminit, Counted, Locked
    <2>3. BootOK' /\ Locked' /\ Stages'
      BY <1>0, <1>5 DEF StoreNuminit, BootOK, Locked, Stages
    <2>. QED BY <2>2, <2>3 DEF BootInv
  <1>6. ASSUME NEW c \in Core, Released(c) PROVE BootInv'
    <2>1. Up' = Up /\ Ready' = Ready
      BY <1>0, <1>6 DEF Released, BootOK, Up, Ready
    <2>2. BootOK' /\ Counted' /\ Locked' /\ Stages'
      BY <1>0, <1>6, <2>1 DEF Released, BootOK, Counted, Locked, Stages
    <2>. QED BY <2>2 DEF BootInv
  <1>7. CASE drivers_init
    <2>1. Up' = Up /\ Ready' = Ready /\ Ready = {}
      BY <1>0, <1>7 DEF drivers_init, BootOK, Stages, Up, Ready
    <2>2. Counted'
      BY <1>0, <1>7, <2>1, FS_EmptySet DEF drivers_init, Counted
    <2>3. BootOK' /\ Locked' /\ Stages'
      BY <1>0, <1>7 DEF drivers_init, BootOK, Locked, Stages
    <2>. QED BY <2>2, <2>3 DEF BootInv
  <1>8. CASE drivers_ready
    <2>1. Up' = Up /\ Ready' = Ready
      BY <1>0, <1>8 DEF drivers_ready, BootOK, Up, Ready
    <2>2. Ready = Up
      <3>1. Cardinality(Up) \in Nat /\ Cardinality(Ready) \in Nat
            /\ Cardinality(Ready) <= Cardinality(Up)
            /\ (Cardinality(Ready) = Cardinality(Up) => Ready = Up)
        BY <1>0, CoresCounted
      <3>2. Cardinality(Ready) >= Cardinality(Up)
        BY <1>0, <1>8 DEF drivers_ready, EveryCore, Counted
      <3>. QED BY <3>1, <3>2
    <2>3. \A c \in Core : core[c] = "off" \/ core[c] \in {"wait", "norm"}
      BY <2>2 DEF Up, Ready
    <2>4. BootOK' /\ Counted' /\ Locked'
      BY <1>0, <1>8, <2>1 DEF drivers_ready, BootOK, Counted, Locked
    <2>5. Stages'
      BY <1>0, <1>8, <2>3 DEF drivers_ready, BootOK, Stages
    <2>. QED BY <2>4, <2>5 DEF BootInv
  <1>9. ASSUME UNCHANGED bootvars PROVE BootInv'
    BY <1>9, BootUnchanged
  <1>. QED
    BY <1>1, <1>2, <1>3, <1>4, <1>5, <1>6, <1>7, <1>8, <1>9
    DEF Next, clock_intr, InitCall, EnterLoop, Receive, drv_irq, EVT_ack, Device,
        drivers_intr, SYS_stimezone, SYS_stime

-----------------------------------------------------------------------------
(* The drivers and the lines *)

(* The list of a line is the last driver that asked for it, and the exit   *)
(* of any driver empties every list (drivers.c:92 and 125).                *)
LEMMA OneHandler ==
  ASSUME NEW list \in Seq(Driver), NEW d \in Driver
  PROVE  /\ SubSeq(list, 1, StopAt(list)) = <<>>
         /\ Registered(list, d) = <<d>>
         /\ Unregistered(list, d) = <<>>
  <1>1. SubSeq(list, 1, 0) = <<>>
    OBVIOUS
  <1>2. Append(<<>>, d) = <<d>>
    OBVIOUS
  <1>3. StopAt(list) = 0 /\ 0 <= 1
    BY DEF StopAt
  <1>4. Unregistered(list, d) = <<>>
    BY <1>3, Zenon DEF Unregistered
  <1>. QED BY <1>1, <1>2, <1>3, <1>4 DEF Registered

(* An interrupt of a line is one message to its handler, or none. *)
LEMMA TellOne ==
  ASSUME NEW box \in [Driver -> Seq(Number)], NEW n \in Number
  PROVE  /\ Told(box, <<>>, n) = box
         /\ \A d \in Driver : Told(box, <<d>>, n) = Notify(box, d, n)
  <1>1. Told(box, <<>>, n) = box
    <2>1. \A e \in Driver : {j \in DOMAIN <<>> : <<>>[j] = e} = {}
      OBVIOUS
    <2>2. Cardinality({}) = 0
      BY FS_EmptySet
    <2>3. \A e \in Driver : box[e] \o [i \in 1..0 |-> n] = box[e]
      <3>1. [i \in 1..0 |-> n] = <<>>
        OBVIOUS
      <3>2. \A e \in Driver : box[e] \o <<>> = box[e]
        OBVIOUS
      <3>. QED BY <3>1, <3>2
    <2>. QED BY <2>1, <2>2, <2>3 DEF Told
  <1>2. ASSUME NEW d \in Driver PROVE Told(box, <<d>>, n) = Notify(box, d, n)
    <2>1. {j \in DOMAIN <<d>> : <<d>>[j] = d} = {1}
      OBVIOUS
    <2>2. \A e \in Driver \ {d} : {j \in DOMAIN <<d>> : <<d>>[j] = e} = {}
      OBVIOUS
    <2>3. Cardinality({}) = 0 /\ Cardinality({1}) = 1
      BY FS_EmptySet, FS_Singleton
    <2>4. box[d] \o [i \in 1..1 |-> n] = Append(box[d], n)
      <3>1. [i \in 1..1 |-> n] = <<n>>
        OBVIOUS
      <3>2. box[d] \o <<n>> = Append(box[d], n)
        OBVIOUS
      <3>. QED BY <3>1, <3>2
    <2>5. \A e \in Driver \ {d} : box[e] \o [i \in 1..0 |-> n] = box[e]
      <3>1. [i \in 1..0 |-> n] = <<>>
        OBVIOUS
      <3>2. \A e \in Driver : box[e] \o <<>> = box[e]
        OBVIOUS
      <3>. QED BY <3>1, <3>2
    <2>6. Told(box, <<d>>, n)[d] = Append(box[d], n)
      BY <2>1, <2>3, <2>4 DEF Told
    <2>7. \A e \in Driver \ {d} : Told(box, <<d>>, n)[e] = box[e]
      BY <2>2, <2>3, <2>5 DEF Told
    <2>8. Told(box, <<d>>, n) = [e \in Driver |-> Told(box, <<d>>, n)[e]]
      BY DEF Told
    <2>9. Notify(box, d, n) = [e \in Driver |-> IF e = d THEN Append(box[d], n) ELSE box[e]]
      BY DEF Notify
    <2>. HIDE DEF Told, Notify
    <2>. QED BY <2>6, <2>7, <2>8, <2>9
  <1>. QED BY <1>1, <1>2

(* What a call of drv_init does to the lists: nothing, one handler for one *)
(* line, or no handlers at all.                                            *)
LEMMA CallRoutes ==
  ASSUME RoutesOK, NEW d \in Driver, InitCall(d)
  PROVE  \/ routes' = routes
         \/ \E l \in Line : /\ routes' = [routes EXCEPT ![l] = <<d>>]
                            /\ l # clock_irq => Head(drv[d].left).fn = "SYS_regirq"
         \/ routes' = [l \in Line |-> <<>>]
  <1>1. \A l \in Line : routes[l] \in Seq(Driver)
    <2>1. <<>> \in Seq(Driver) /\ \A e \in Driver : <<e>> \in Seq(Driver)
      OBVIOUS
    <2>. QED BY <2>1 DEF RoutesOK
  <1>2. \A l \in Line : /\ Registered(routes[l], d) = <<d>>
                        /\ Unregistered(routes[l], d) = <<>>
    BY <1>1, OneHandler
  <1>3. ASSUME NEW l \in Line, drivers_regintr(l, d)
        PROVE  routes' = routes \/ routes' = [routes EXCEPT ![l] = <<d>>]
    BY <1>2, <1>3 DEF drivers_regintr
  <1>4. drivers_unregintr(d) => routes' = [l \in Line |-> <<>>]
    BY <1>2 DEF drivers_unregintr
  <1>. QED BY <1>3, <1>4, ClockRouted DEF InitCall

(* What it does to the driver itself, and to the one it adds. *)
LEMMA CallDriver ==
  ASSUME DriverOK, NEW d \in Driver, InitCall(d)
  PROVE  /\ drv[d].left \in Seq(Call) /\ drv[d].left # <<>>
         /\ drv' \in [Driver -> [pc : PC, left : Seq(Call), irq : Number]]
         /\ drv'[d].left = Tail(drv[d].left)
         /\ \A e \in Driver : /\ drv'[e].irq = drv[e].irq
                              /\ e # d => drv'[e].left = drv[e].left
                              /\ drv'[e].pc # drv[e].pc =>
                                   \/ e = d /\ drv'[e].pc = "gone"
                                   \/ /\ drv[e].pc = "none" /\ drv'[e].pc = "init"
                                      /\ e # d
                                      /\ Head(drv[d].left).fn = "SYS_drvadd"
                                      /\ Head(drv[d].left).arg = e
  <1>. DEFINE call == Head(drv[d].left)
              next == [drv EXCEPT ![d].left = Tail(@)]
  <1>1. /\ drv[d].left \in Seq(Call) /\ drv[d].left # <<>> /\ drv[d].pc = "init"
        /\ Tail(drv[d].left) \in Seq(Call)
    BY DEF DriverOK, InitCall
  <1>2. /\ next \in [Driver -> [pc : PC, left : Seq(Call), irq : Number]]
        /\ next[d].left = Tail(drv[d].left)
        /\ \A e \in Driver : /\ next[e].irq = drv[e].irq /\ next[e].pc = drv[e].pc
                             /\ e # d => next[e].left = drv[e].left
    BY <1>1 DEF DriverOK
  <1>3. \/ drv' = next
        \/ call.fn = "SYS_drvadd" /\ drv' = [next EXCEPT ![call.arg].pc = IF @ = "none" THEN "init" ELSE @]
        \/ drv' = [next EXCEPT ![d].pc = "gone"]
    BY DEF InitCall
  <1>. HIDE DEF next, call
  <1>4. CASE drv' = next
    BY <1>1, <1>2, <1>4
  <1>5. CASE call.fn = "SYS_drvadd" /\ drv' = [next EXCEPT ![call.arg].pc = IF @ = "none" THEN "init" ELSE @]
    <2>1. /\ drv' \in [Driver -> [pc : PC, left : Seq(Call), irq : Number]]
          /\ \A e \in Driver : /\ drv'[e].irq = next[e].irq /\ drv'[e].left = next[e].left
                               /\ drv'[e].pc # next[e].pc =>
                                     e = call.arg /\ next[e].pc = "none" /\ drv'[e].pc = "init"
      <3>1. CASE call.arg \in Driver
        BY <1>2, <1>5, <3>1 DEF PC
      <3>2. CASE call.arg \notin Driver
        BY <1>2, <1>5, <3>2
      <3>. QED BY <3>1, <3>2
    <2>2. ASSUME NEW e \in Driver, drv'[e].pc # drv[e].pc
          PROVE  /\ drv[e].pc = "none" /\ drv'[e].pc = "init" /\ e # d
                 /\ Head(drv[d].left).fn = "SYS_drvadd"
                 /\ Head(drv[d].left).arg = e
      <3>1. e = call.arg /\ drv[e].pc = "none" /\ drv'[e].pc = "init"
        BY <1>2, <2>1, <2>2
      <3>2. e # d
        BY <1>1, <3>1
      <3>. QED BY <1>5, <3>1, <3>2, Zenon DEF call
    <2>3. \A e \in Driver : drv'[e].irq = drv[e].irq /\ (e # d => drv'[e].left = drv[e].left)
      BY <1>2, <2>1
    <2>4. drv'[d].left = Tail(drv[d].left)
      BY <1>2, <2>1
    <2>. QED BY <1>1, <2>1, <2>2, <2>3, <2>4
  <1>6. CASE drv' = [next EXCEPT ![d].pc = "gone"]
    BY <1>1, <1>2, <1>6 DEF PC
  <1>. QED BY <1>3, <1>4, <1>5, <1>6

(* A tick tells the timer's subscriber, when there is one and it has not   *)
(* been told, and nobody else.                                             *)
LEMMA TickTells ==
  ASSUME DriverOK, RoutesOK, ClockOK, clock_intr
  PROVE  \/ inbox' = inbox /\ clock_pids' \in {0, 1}
         \/ /\ \E d \in Driver : inbox' = Notify(inbox, d, USHRT_MAX)
            /\ clock_pids' = 1
  <1>1. CASE ~(time.cnt > 1 /\ NextTold)
    BY <1>1 DEF clock_intr, ClockOK
  <1>2. CASE time.cnt > 1 /\ NextTold
    <2>1. /\ NextTold /\ clock_pids' = clock_pids + 1
          /\ inbox' = Notify(inbox, Subscribers[(clock_pids % Len(Subscribers)) + 1], USHRT_MAX)
      BY <1>2 DEF clock_intr
    <2>2. Subscribers # <<>>
      BY <2>1 DEF NextTold, ClockOK
    <2>3. PICK d \in Driver : Subscribers = <<d>>
      BY <2>2, ClockRouted DEF Subscribers, RoutesOK
    <2>4. clock_pids = 0 /\ Len(Subscribers) = 1
      BY <2>1, <2>3 DEF NextTold, ClockOK
    <2>5. Subscribers[(clock_pids % Len(Subscribers)) + 1] = d
      BY <2>3, <2>4
    <2>. QED BY <2>1, <2>4, <2>5
  <1>. QED BY <1>1, <1>2

(* The message of a line goes to its handler, when there is one. *)
LEMMA InterruptTells ==
  ASSUME DriverOK, RoutesOK, NEW l \in Line, drivers_intr(l)
  PROVE  \/ ~Routed(l) /\ inbox' = inbox /\ masked' = masked
         \/ /\ Routed(l) /\ masked' = masked \cup {l}
            /\ \E d \in Driver : inbox' = Notify(inbox, d, l)
  <1>1. inbox \in [Driver -> Seq(Number)] /\ l \in Number
    BY DEF DriverOK, Number
  <1>2. inbox' = Told(inbox, routes[l], l)
    BY DEF drivers_intr
  <1>3. CASE routes[l] = <<>>
    BY <1>1, <1>2, <1>3, TellOne DEF drivers_intr, Routed
  <1>4. ASSUME NEW d \in Driver, routes[l] = <<d>>
        PROVE  Routed(l) /\ masked' = masked \cup {l} /\ inbox' = Notify(inbox, d, l)
    <2>1. Routed(l)
      BY <1>4 DEF Routed
    <2>2. inbox' = Notify(inbox, d, l)
      BY <1>1, <1>2, <1>4, TellOne
    <2>. QED BY <2>1, <2>2 DEF drivers_intr
  <1>. QED BY <1>3, <1>4 DEF RoutesOK

(* A step of a core that only brings the boot forward. *)
BootOnly ==
    /\ UNCHANGED <<linevars, drvvars, clockvars, events>>
    /\ runlevel' = "NORM" <=> runlevel = "NORM"

(* A step of one of the cores on its way through the boot. *)
CoreStep(c) ==
    Count(c) \/ ap_start(c) \/ AcquireReady(c) \/ LoadNuminit(c) \/ StoreNuminit(c) \/ Released(c)

(* A core on its way through the boot touches no driver and no line. *)
LEMMA CoreStepQuiet == \A c \in Core : CoreStep(c) => BootOnly
  BY DEF CoreStep, BootOnly, Count, ap_start, AcquireReady, LoadNuminit, StoreNuminit, Released

(* Neither does drivers_init. *)
LEMMA InitQuiet == drivers_init => BootOnly
  BY DEF BootOnly, drivers_init

(* The types of the drivers, the lines and the clock, and the closed lines *)
(* before the normal run level, through every step.                        *)
LEMMA DriverStep == DriverInv /\ Next => DriverInv'
  <1>. SUFFICES ASSUME DriverInv, Next PROVE DriverInv'
    OBVIOUS
  <1>0. /\ BootInv /\ DriverOK /\ RoutesOK /\ ClockOK /\ Closed
        /\ (runlevel = "NORM" <=> core[BSP] = "norm")
    BY DEF DriverInv, BootInv, Stages
  <1>b. BootInv'
    BY <1>0, BootStep
  <1>n. ASSUME NEW d \in Driver, NEW n \in Number, inbox' = Notify(inbox, d, n)
        PROVE  inbox' \in [Driver -> Seq(Number)]
    BY <1>0, <1>n DEF Notify, DriverOK
  <1>1. CASE BootOnly
    BY <1>0, <1>b, <1>1 DEF BootOnly, linevars, drvvars, clockvars, DriverInv, DriverOK,
        RoutesOK, ClockOK, Closed
  <1>2. CASE drivers_ready
    BY <1>0, <1>b, <1>2 DEF drivers_ready, drvvars, clockvars, DriverInv, DriverOK,
        RoutesOK, ClockOK, Closed
  <1>3. CASE clock_intr
    <2>1. inbox' \in [Driver -> Seq(Number)] /\ clock_pids' \in {0, 1}
      BY <1>0, <1>3, <1>n, TickTells DEF Number, DriverOK
    <2>2. ClockOK'
      <3>1. CASE time.cnt > 1
        <4>1. time' = [time EXCEPT !.cnt = @ - 1, !.ns = @ + clock_step, !.ticks = @ + clock_step]
          BY <1>3, <3>1 DEF clock_intr
        <4>2. time.cnt - 1 \in 1..clock_freq
          BY <1>0, <3>1, ClockRuns DEF ClockOK
        <4>. QED BY <1>0, <2>1, <4>1, <4>2 DEF ClockOK
      <3>2. CASE ~(time.cnt > 1)
        <4>1. time' = [time EXCEPT !.cnt = clock_freq, !.ts = (@ + 1) % Word, !.ns = 0,
                                   !.ticks = @ + clock_step]
          BY <1>3, <3>2 DEF clock_intr
        <4>2. clock_freq \in 1..clock_freq
          BY ClockRuns
        <4>. QED BY <1>0, <2>1, <4>1, <4>2 DEF ClockOK
      <3>. QED BY <3>1, <3>2
    <2>3. DriverOK' /\ RoutesOK' /\ Closed'
      BY <1>0, <1>3, <2>1 DEF clock_intr, bootvars, linevars, DriverOK, RoutesOK, Closed
    <2>. QED BY <1>b, <2>2, <2>3 DEF DriverInv
  <1>4. ASSUME NEW d \in Driver, InitCall(d) PROVE DriverInv'
    <2>1. RoutesOK'
      BY <1>0, <1>4, CallRoutes DEF RoutesOK
    <2>2. /\ drv' \in [Driver -> [pc : PC, left : Seq(Call), irq : Number]]
          /\ \A e \in Driver : drv'[e].pc # drv[e].pc => drv'[e].pc \in {"init", "gone"}
      BY <1>0, <1>4, CallDriver
    <2>3. DriverOK' /\ Closed'
      BY <1>0, <1>4, <2>2 DEF InitCall, bootvars, DriverOK, Closed
    <2>4. ClockOK'
      BY <1>0, <1>4 DEF InitCall, clockvars, ClockOK
    <2>. QED BY <1>b, <2>1, <2>3, <2>4 DEF DriverInv
  <1>5. ASSUME NEW d \in Driver, EnterLoop(d) PROVE DriverInv'
    BY <1>0, <1>b, <1>5 DEF EnterLoop, bootvars, linevars, clockvars, DriverInv, DriverOK,
        RoutesOK, ClockOK, Closed, PC
  <1>6. ASSUME NEW d \in Driver, Receive(d) PROVE DriverInv'
    <2>1. Head(inbox[d]) \in Number /\ Tail(inbox[d]) \in Seq(Number)
      BY <1>0, <1>6 DEF Receive, DriverOK
    <2>2. runlevel = "NORM"
      BY <1>0, <1>6 DEF Receive, Closed
    <2>. QED
      BY <1>0, <1>b, <1>6, <2>1, <2>2 DEF Receive, bootvars, linevars, clockvars, DriverInv,
          DriverOK, RoutesOK, ClockOK, Closed, PC
  <1>7. ASSUME NEW d \in Driver, drv_irq(d) PROVE DriverInv'
    <2>1. runlevel = "NORM"
      BY <1>0, <1>7 DEF drv_irq, Closed
    <2>. QED
      BY <1>0, <1>b, <1>7, <2>1 DEF drv_irq, bootvars, clockvars, DriverInv, DriverOK, RoutesOK,
          ClockOK, Closed, PC
  <1>8. ASSUME NEW d \in Driver, EVT_ack(d) PROVE DriverInv'
    <2>1. runlevel = "NORM"
      BY <1>0, <1>8 DEF EVT_ack, Closed
    <2>. QED
      BY <1>0, <1>b, <1>8, <2>1 DEF EVT_ack, bootvars, clockvars, DriverInv, DriverOK, RoutesOK,
          ClockOK, Closed, PC
  <1>9. ASSUME NEW l \in Line, Device(l) PROVE DriverInv'
    BY <1>0, <1>b, <1>9 DEF Device, bootvars, drvvars, clockvars, DriverInv, DriverOK, RoutesOK,
        ClockOK, Closed
  <1>10. ASSUME NEW l \in Line, drivers_intr(l) PROVE DriverInv'
    <2>1. inbox' \in [Driver -> Seq(Number)]
      BY <1>0, <1>10, <1>n, InterruptTells DEF Number, DriverOK
    <2>. QED
      BY <1>0, <1>b, <1>10, <2>1 DEF drivers_intr, bootvars, clockvars, DriverInv, DriverOK,
          RoutesOK, ClockOK, Closed
  <1>11. ASSUME NEW t \in Task, \/ \E tz \in Zone : SYS_stimezone(t, tz)
                                \/ SYS_stime(t, 2 * Million + 3)
         PROVE  DriverInv'
    <2>1. DriverOK' /\ RoutesOK' /\ Closed'
      BY <1>0, <1>11 DEF SYS_stimezone, SYS_stime, bootvars, linevars, drvvars, DriverOK,
          RoutesOK, Closed
    <2>2. ClockOK'
      <3>1. CASE SYS_stime(t, 2 * Million + 3)
        BY <1>0, <3>1 DEF SYS_stime, ClockOK
      <3>2. ASSUME NEW tz \in Zone, SYS_stimezone(t, tz) PROVE ClockOK'
        BY <1>0, <3>2 DEF SYS_stimezone, ClockOK
      <3>. QED BY <1>11, <3>1, <3>2
    <2>. QED BY <1>b, <2>1, <2>2 DEF DriverInv
  <1>. QED
    BY <1>1, <1>2, <1>3, <1>4, <1>5, <1>6, <1>7, <1>8, <1>9, <1>10, <1>11,
       CoreStepQuiet, InitQuiet DEF Next, CoreStep

(* The invariant holds when the machine starts. *)
LEMMA DriverInit == Init => DriverInv
  <1>. SUFFICES ASSUME Init PROVE DriverInv
    OBVIOUS
  <1>1. Up = {} /\ Ready = {}
    BY DEF Init, Up, Ready
  <1>2. Counted
    BY <1>1, FS_EmptySet DEF Init, Counted
  <1>3. BootOK /\ Locked /\ Stages
    BY BSPIsCore DEF Init, BootOK, Locked, Stages
  <1>4. drv \in [Driver -> [pc : PC, left : Seq(Call), irq : Number]]
    BY DriverCalls DEF Init, PC, Number
  <1>5. DriverOK /\ Closed
    BY <1>4 DEF Init, DriverOK, Closed
  <1>6. RoutesOK
    BY DEF Init, RoutesOK
  <1>7. ClockOK
    BY ClockRuns DEF Init, ClockOK
  <1>. QED BY <1>2, <1>3, <1>5, <1>6, <1>7 DEF DriverInv, BootInv

(* It says nothing of other variables. *)
LEMMA DriverStutter == DriverInv /\ UNCHANGED vars => DriverInv'
  BY BootUnchanged DEF vars, linevars, drvvars, clockvars, DriverInv, DriverOK, RoutesOK,
      ClockOK, Closed, bootvars

(* The boot, the drivers and the lists of handlers keep it. *)
LEMMA DriverInvariant == Spec => []DriverInv
  <1>1. DriverInv /\ [Next]_vars => DriverInv'
    BY DriverStep, DriverStutter
  <1>. QED BY <1>1, DriverInit, PTL DEF Spec

(* The type invariant. *)
THEOREM TypeCorrect == Spec => []TypeOK
  <1>1. DriverInv => TypeOK
    <2>. SUFFICES ASSUME DriverInv PROVE TypeOK
      OBVIOUS
    <2>0. BootOK /\ Counted /\ DriverOK /\ RoutesOK /\ ClockOK
      BY DEF DriverInv, BootInv
    <2>1. numinit \in 0..numcores /\ numcores \in 0..Cardinality(Core)
      <3>1. Up \subseteq Core /\ Ready \subseteq Up
        BY DEF Up, Ready
      <3>2. Cardinality(Ready) <= Cardinality(Up) /\ Cardinality(Up) <= Cardinality(Core)
        BY <3>1, CoresCounted
      <3>3. Cardinality(Core) \in Nat
        BY CoresFinite, FS_CardinalityType
      <3>. QED BY <2>0, <3>2, <3>3 DEF BootOK, Counted
    <2>2. \A l \in Line : Range(routes[l]) \subseteq Driver
      BY <2>0 DEF RoutesOK, Range
    <2>3. \A d \in Driver : /\ drv[d].pc \in {"none", "init", "recv", "irq", "ack", "gone"}
                            /\ Range(inbox[d]) \subseteq Line \cup {USHRT_MAX}
      BY <2>0 DEF DriverOK, PC, Number, Range
    <2>4. Len(routes[clock_irq]) \in Nat
      BY <2>0, ClockRouted DEF RoutesOK
    <2>. QED BY <2>0, <2>1, <2>2, <2>3, <2>4 DEF BootOK, DriverOK, ClockOK, TypeOK
  <1>. QED BY <1>1, DriverInvariant, PTL

(* No interrupt line is opened before every core that the boot loader has  *)
(* started in time has come through drivers_ready (drivers.c:403): the     *)
(* count of the cores is exact, whatever the order in which they arrive.   *)
THEOREM LinesOpenWhenReady == Spec => []OpenWhenReady
  <1>1. DriverInv => OpenWhenReady
    BY DEF DriverInv, BootInv, Stages, Closed, OpenWhenReady
  <1>. QED BY <1>1, DriverInvariant, PTL

-----------------------------------------------------------------------------
(* The messages about a line *)

(* A notification is one more message, the last one of its driver. *)
LEMMA NotifyWaits ==
  ASSUME DriverOK, NEW d \in Driver, NEW n \in Number, inbox' = Notify(inbox, d, n)
  PROVE  \A e \in Driver : \A i \in Nat : \A l \in Line :
            Waits(e, i, l)' <=> Waits(e, i, l) \/ (e = d /\ i = Len(inbox[d]) + 1 /\ l = n)
  BY DEF DriverOK, Notify, Waits

(* What mq_recv takes is the first message of the driver. *)
LEMMA ReceiveWaits ==
  ASSUME DriverOK, NEW d \in Driver, Receive(d)
  PROVE  /\ Waits(d, 1, Head(inbox[d]))
         /\ \A e \in Driver : \A i \in Nat : \A l \in Line :
              Waits(e, i, l)' <=> IF e = d THEN i > 0 /\ Waits(d, i + 1, l) ELSE Waits(e, i, l)
         /\ \A e \in Driver : \A l \in Line :
              Works(e, l)' <=> IF e = d THEN l = Head(inbox[d]) ELSE Works(e, l)
         /\ \A l \in Line : ~Works(d, l)
         /\ drv'[d].pc = "irq" /\ drv'[d].irq = Head(inbox[d])
         /\ \A e \in Driver \ {d} : drv'[e] = drv[e]
  <1>1. inbox[d] \in Seq(Number) /\ inbox[d] # <<>>
    BY DEF DriverOK, Receive
  <1>2. inbox' = [inbox EXCEPT ![d] = Tail(inbox[d])]
    BY DEF Receive
  <1>3. drv' = [drv EXCEPT ![d].pc = "irq", ![d].irq = Head(inbox[d])] /\ drv[d].pc = "recv"
    BY DEF Receive
  <1>4. Waits(d, 1, Head(inbox[d]))
    BY <1>1 DEF Waits
  <1>5. ASSUME NEW i \in Nat, NEW l \in Line
        PROVE  Waits(d, i, l)' <=> i > 0 /\ Waits(d, i + 1, l)
    BY <1>1, <1>2 DEF Waits, DriverOK
  <1>6. \A e \in Driver \ {d} : \A i \in Nat : \A l \in Line : Waits(e, i, l)' <=> Waits(e, i, l)
    BY <1>2 DEF Waits, DriverOK
  <1>7. /\ drv'[d].pc = "irq" /\ drv'[d].irq = Head(inbox[d])
        /\ \A e \in Driver \ {d} : drv'[e] = drv[e]
    BY <1>3 DEF DriverOK
  <1>. QED BY <1>3, <1>4, <1>5, <1>6, <1>7 DEF Works

(* A driver may acknowledge what it was told. *)
LEMMA AckAllowed == \A d \in Driver : Allowed(AsTask(d), "EVT_ack")
  BY DEF Allowed, AsTask, core_allowed, Drivers, Clock

(* What the line invariants say depends on these variables only. *)
LEMMA LinesUnchanged ==
  ASSUME LineInv, UNCHANGED <<linevars, drv, inbox, core>>,
         runlevel' = "NORM" <=> runlevel = "NORM"
  PROVE  LineInv'
  BY DEF LineInv, linevars, OneMessage, ClockApart, Owed, Kept, LeftOK, Asked, Waits, Works,
      Routed, Silent

(* The boot of the cores: no driver is left with lines to ask for on a     *)
(* core that enters drivers_ready, because the core has nothing to run.    *)
LEMMA AskedBoot ==
  ASSUME DriverInv, Asked, drivers_init \/ \E c \in Core : CoreStep(c)
  PROVE  Asked'
  <1>0. BootOK /\ UNCHANGED drv
    BY CoreStepQuiet, InitQuiet DEF DriverInv, BootInv, BootOnly, drvvars
  <1>1. CASE drivers_init
    BY <1>0, <1>1, BSPIsCore, DriverCalls DEF drivers_init, Asked, BootOK, Silent
  <1>2. ASSUME NEW c \in Core, AcquireReady(c) PROVE Asked'
    <2>1. \A d \in Driver : CoreOf[d] = c => drv[d].pc # "init"
      BY <1>2 DEF AcquireReady, Blocked, Idle
    <2>2. \A d \in Driver : core'[CoreOf[d]] = core[CoreOf[d]] \/ CoreOf[d] = c
      BY <1>0, <1>2, DriverCalls DEF AcquireReady, BootOK
    <2>. QED BY <1>0, <2>1, <2>2 DEF Asked, Silent
  <1>3. ASSUME NEW c \in Core, CoreStep(c), ~AcquireReady(c) PROVE Asked'
    <2>1. \A x \in Core : core'[x] \in {"load", "store", "wait", "norm"}
                            => core[x] \in {"load", "store", "wait", "norm"}
      BY <1>0, <1>3 DEF CoreStep, Count, ap_start, LoadNuminit, StoreNuminit, Released, BootOK
    <2>. QED BY <1>0, <2>1, DriverCalls DEF Asked, Silent
  <1>. QED BY <1>1, <1>2, <1>3

(* A call of drv_init leaves the messages alone, and once the lines are    *)
(* open it gives no line a new handler, the clock's apart.                 *)
LEMMA LineCall ==
  ASSUME AddedInTime, DriverInv, LineInv, NEW d \in Driver, InitCall(d)
  PROVE  LineInv'
  <1>0. /\ BootOK /\ DriverOK /\ RoutesOK /\ Stages
        /\ OneMessage /\ ClockApart /\ Owed /\ Kept /\ LeftOK /\ Asked
    BY DEF DriverInv, BootInv, LineInv
  <1>1. /\ UNCHANGED <<runlevel, core, masked, latch, due, inbox>>
        /\ drv[d].pc = "init" /\ core[CoreOf[d]] \in {"run", "norm"}
    BY DEF InitCall, bootvars, Runs
  <1>2. /\ drv[d].left \in Seq(Call) /\ drv[d].left # <<>>
        /\ drv'[d].left = Tail(drv[d].left)
        /\ \A e \in Driver : /\ drv'[e].irq = drv[e].irq
                             /\ e # d => drv'[e].left = drv[e].left
                             /\ drv'[e].pc # drv[e].pc =>
                                  \/ e = d /\ drv'[e].pc = "gone"
                                  \/ /\ drv[e].pc = "none" /\ drv'[e].pc = "init"
                                     /\ e # d
                                     /\ Head(drv[d].left).fn = "SYS_drvadd"
                                     /\ Head(drv[d].left).arg = e
    BY <1>0, CallDriver
  <1>3. \A e \in Driver : \A l \in Line : Works(e, l)' <=> Works(e, l)
    BY <1>1, <1>2 DEF Works
  <1>4. \A e \in Driver : \A i \in Nat : \A l \in Line : Waits(e, i, l)' <=> Waits(e, i, l)
    BY <1>1 DEF Waits
  <1>5. OneMessage' /\ ClockApart'
    BY <1>0, <1>1, <1>3, <1>4, ClockRouted DEF OneMessage, ClockApart
  <1>6. Head(drv[d].left) = drv[d].left[1] /\ 1 \in DOMAIN drv[d].left
    BY <1>2
  <1>7. ASSUME runlevel = "NORM" PROVE \A l \in Line \ {clock_irq} : Routed(l)' => Routed(l)
    <2>1. core[CoreOf[d]] = "norm"
      BY <1>0, <1>1, <1>7, DriverCalls DEF Stages
    <2>2. Head(drv[d].left).fn # "SYS_regirq"
      BY <1>0, <1>1, <1>6, <2>1 DEF Asked, Silent
    <2>. QED BY <1>0, <2>2, CallRoutes DEF Routed, RoutesOK
  <1>8. Owed'
    BY <1>0, <1>1, <1>3, <1>4, <1>7 DEF Owed, ClockApart, DriverOK
  <1>9. Kept'
    <2>1. \A e \in Driver : drv[e].pc = "irq" => drv'[e].pc = "irq" /\ drv'[e].irq = drv[e].irq
      BY <1>1, <1>2
    <2>2. CASE runlevel # "NORM"
      BY <1>0, <1>1, <2>2 DEF Kept
    <2>3. CASE runlevel = "NORM"
      <3>. SUFFICES ASSUME NEW l \in due, Routed(l)', l \notin latch
                    PROVE  \E e \in Driver : \/ drv'[e].pc = "irq" /\ drv'[e].irq = l
                                             \/ \E i \in Nat : Waits(e, i, l)'
        BY <1>1, <2>3 DEF Kept
      <3>1. l \in Line \ {clock_irq}
        BY <1>0 DEF DriverOK, ClockApart
      <3>2. Routed(l)
        BY <1>7, <2>3, <3>1
      <3>3. PICK e \in Driver : \/ drv[e].pc = "irq" /\ drv[e].irq = l
                                \/ \E i \in Nat : Waits(e, i, l)
        BY <1>0, <2>3, <3>2 DEF Kept
      <3>. QED BY <1>4, <2>1, <3>1, <3>3
    <2>. QED BY <2>2, <2>3
  <1>10. \A i \in DOMAIN Tail(drv[d].left) : i + 1 \in DOMAIN drv[d].left
                                             /\ Tail(drv[d].left)[i] = drv[d].left[i + 1]
    BY <1>2
  <1>11. LeftOK'
    <2>1. Range(Tail(drv[d].left)) \subseteq Range(drv[d].left)
      BY <1>10 DEF Range
    <2>2. \A e \in Driver : drv'[e].pc = "none" => e # d /\ drv[e].pc = "none"
      BY <1>1, <1>2
    <2>. QED BY <1>0, <1>2, <2>1, <2>2 DEF LeftOK
  <1>12. Asked'
    <2>. SUFFICES ASSUME NEW e \in Driver, drv'[e].pc = "init",
                         core[CoreOf[e]] \in {"load", "store", "wait", "norm"}
                  PROVE  Silent(drv'[e].left)
      BY <1>1 DEF Asked
    <2>1. CASE drv[e].pc = "init"
      <3>1. Silent(drv[e].left)
        BY <1>0, <2>1 DEF Asked
      <3>2. CASE e # d
        BY <1>2, <3>1, <3>2
      <3>3. CASE e = d
        <4>1. \A i \in DOMAIN Tail(drv[d].left) :
                Tail(drv[d].left)[i].fn \notin {"SYS_regirq", "SYS_drvadd"}
          BY <1>10, <3>1, <3>3 DEF Silent
        <4>. QED BY <1>2, <3>3, <4>1 DEF Silent
      <3>. QED BY <3>2, <3>3
    <2>2. CASE drv[e].pc # "init"
      <3>1. /\ drv[e].pc = "none" /\ e # d
            /\ drv[d].left[1].fn = "SYS_drvadd" /\ drv[d].left[1].arg = e
        BY <1>2, <1>6, <2>2
      <3>2. drv[d].left[1] \in Range(drv[d].left)
        BY <1>6 DEF Range
      <3>3. drv[d].left[1] \in Range(Calls[d])
        BY <1>0, <3>2 DEF LeftOK
      <3>4. PICK i \in DOMAIN Calls[d] : Calls[d][i] = drv[d].left[1]
        BY <3>3 DEF Range
      <3>5. CoreOf[e] = CoreOf[d] \/ Silent(Calls[e])
        BY <3>1, <3>4 DEF AddedInTime
      <3>6. drv'[e].left = Calls[e]
        BY <1>0, <1>2, <3>1 DEF LeftOK
      <3>7. CASE CoreOf[e] = CoreOf[d]
        <4>1. core[CoreOf[d]] = "norm"
          BY <1>1, <3>7
        <4>2. drv[d].left[1].fn # "SYS_drvadd"
          BY <1>0, <1>1, <1>6, <4>1 DEF Asked, Silent
        <4>. QED BY <3>1, <4>2
      <3>. QED BY <3>5, <3>6, <3>7
    <2>. QED BY <2>1, <2>2
  <1>. QED BY <1>5, <1>8, <1>9, <1>11, <1>12 DEF LineInv

(* The lines are opened: no message is under way yet. *)
LEMMA LineReady ==
  ASSUME DriverInv, LineInv, drivers_ready
  PROVE  LineInv'
  <1>0. /\ BootOK /\ DriverOK /\ Stages /\ Closed
        /\ OneMessage /\ ClockApart /\ Owed /\ Kept /\ LeftOK /\ Asked
    BY DEF DriverInv, BootInv, LineInv
  <1>1. runlevel # "NORM" /\ runlevel' = "NORM"
    BY <1>0 DEF drivers_ready, Stages
  <1>2. \A d \in Driver : drv'[d].pc \notin {"irq", "ack"} /\ inbox'[d] = <<>>
    BY <1>0, <1>1 DEF drivers_ready, drvvars, Closed
  <1>3. \A d \in Driver : \A l \in Line : ~Works(d, l)' /\ \A i \in Nat : ~Waits(d, i, l)'
    BY <1>2 DEF Works, Waits
  <1>4. OneMessage'
    BY <1>3 DEF OneMessage
  <1>5. ClockApart'
    BY <1>0, <1>3, ClockRouted DEF drivers_ready, ClockApart
  <1>6. Owed'
    BY <1>0 DEF drivers_ready, Owed, Routed, DriverOK
  <1>7. Kept'
    BY <1>0, <1>1 DEF drivers_ready, Kept, ClockApart
  <1>8. LeftOK'
    BY <1>0 DEF drivers_ready, drvvars, LeftOK
  <1>9. Asked'
    BY <1>0, BSPIsCore, DriverCalls DEF drivers_ready, drvvars, Asked, BootOK, Silent
  <1>. QED BY <1>4, <1>5, <1>6, <1>7, <1>8, <1>9 DEF LineInv

(* The driver takes a message: it is still the only one of its line. *)
LEMMA LineReceive ==
  ASSUME DriverInv, LineInv, NEW d \in Driver, Receive(d)
  PROVE  LineInv'
  <1>0. /\ DriverOK /\ OneMessage /\ ClockApart /\ Owed /\ Kept /\ LeftOK /\ Asked
    BY DEF DriverInv, LineInv
  <1>1. UNCHANGED <<runlevel, core, routes, masked, latch, due>>
    BY DEF Receive, bootvars, linevars
  <1>. DEFINE n == Head(inbox[d])
  <1>2. /\ Waits(d, 1, n)
        /\ \A e \in Driver : \A i \in Nat : \A l \in Line :
              Waits(e, i, l)' <=> IF e = d THEN i > 0 /\ Waits(d, i + 1, l) ELSE Waits(e, i, l)
        /\ \A e \in Driver : \A l \in Line :
              Works(e, l)' <=> IF e = d THEN l = n ELSE Works(e, l)
        /\ \A l \in Line : ~Works(d, l)
        /\ drv'[d].pc = "irq" /\ drv'[d].irq = n
        /\ \A e \in Driver \ {d} : drv'[e] = drv[e]
    BY <1>0, ReceiveWaits
  <1>3. n \in Number
    BY <1>0 DEF Receive, DriverOK
  <1>4. drv'[d].left = drv[d].left /\ drv'[d].pc \notin {"none", "init"}
    BY <1>0 DEF Receive, DriverOK
  <1>. HIDE DEF n
  <1>5. OneMessage'
    <2>. SUFFICES ASSUME NEW l \in Line
                  PROVE  /\ \A e, f \in Driver : \A i, j \in Nat :
                              Waits(e, i, l)' /\ Waits(f, j, l)' => e = f /\ i = j
                         /\ \A e, f \in Driver : \A i \in Nat : ~(Waits(e, i, l)' /\ Works(f, l)')
                         /\ \A e, f \in Driver : Works(e, l)' /\ Works(f, l)' => e = f
                         /\ l \notin masked => \A e \in Driver : ~Works(e, l)' /\ \A i \in Nat : ~Waits(e, i, l)'
      BY <1>1 DEF OneMessage
    <2>1. /\ \A e, f \in Driver : \A i, j \in Nat :
               Waits(e, i, l) /\ Waits(f, j, l) => e = f /\ i = j
          /\ \A e, f \in Driver : \A i \in Nat : ~(Waits(e, i, l) /\ Works(f, l))
          /\ \A e, f \in Driver : Works(e, l) /\ Works(f, l) => e = f
          /\ l \notin masked => \A e \in Driver : ~Works(e, l) /\ \A i \in Nat : ~Waits(e, i, l)
      BY <1>0 DEF OneMessage
    <2>2. \A e, f \in Driver : \A i, j \in Nat :
             Waits(e, i, l)' /\ Waits(f, j, l)' => e = f /\ i = j
      BY <1>2, <2>1
    <2>3. \A e, f \in Driver : \A i \in Nat : ~(Waits(e, i, l)' /\ Works(f, l)')
      BY <1>2, <2>1
    <2>4. \A e, f \in Driver : Works(e, l)' /\ Works(f, l)' => e = f
      BY <1>2, <2>1
    <2>5. l \notin masked => \A e \in Driver : ~Works(e, l)' /\ \A i \in Nat : ~Waits(e, i, l)'
      BY <1>2, <2>1
    <2>. QED BY <2>2, <2>3, <2>4, <2>5
  <1>6. ClockApart'
    BY <1>0, <1>1, <1>2, ClockRouted DEF ClockApart
  <1>7. ASSUME NEW l \in Line, NEW e \in Driver, NEW i \in Nat, Waits(e, i, l)
        PROVE  (drv'[e].pc = "irq" /\ drv'[e].irq = l) \/ \E j \in Nat : Waits(e, j, l)'
    <2>1. i \in Nat \ {0}
      BY <1>0, <1>7 DEF Waits, DriverOK
    <2>2. CASE e = d /\ i = 1
      BY <1>2, <1>7, <2>2 DEF Waits
    <2>3. CASE e = d /\ i # 1
      <3>1. i - 1 \in Nat /\ i - 1 > 0 /\ (i - 1) + 1 = i
        BY <2>1, <2>3
      <3>. QED BY <1>2, <1>7, <2>3, <3>1
    <2>4. CASE e # d
      BY <1>2, <1>7, <2>4
    <2>. QED BY <2>2, <2>3, <2>4
  <1>8. Owed'
    <2>. SUFFICES ASSUME runlevel = "NORM", NEW l \in masked, Routed(l)
                  PROVE  \E e \in Driver : Works(e, l)' \/ \E i \in Nat : Waits(e, i, l)'
      BY <1>1 DEF Owed, Routed
    <2>1. l \in Line
      BY <1>0 DEF DriverOK
    <2>2. PICK e \in Driver : Works(e, l) \/ \E i \in Nat : Waits(e, i, l)
      BY <1>0 DEF Owed
    <2>3. CASE Works(e, l)
      BY <1>2, <2>1, <2>3
    <2>4. CASE \E i \in Nat : Waits(e, i, l)
      BY <1>2, <1>7, <2>1, <2>4
    <2>. QED BY <2>2, <2>3, <2>4
  <1>9. Kept'
    <2>1. CASE runlevel # "NORM"
      BY <1>0, <1>1, <2>1 DEF Kept
    <2>2. CASE runlevel = "NORM"
      <3>. SUFFICES ASSUME NEW l \in due, Routed(l), l \notin latch
                    PROVE  \E e \in Driver : \/ drv'[e].pc = "irq" /\ drv'[e].irq = l
                                             \/ \E i \in Nat : Waits(e, i, l)'
        BY <1>1, <2>2 DEF Kept, Routed
      <3>1. l \in Line
        BY <1>0 DEF DriverOK
      <3>2. PICK e \in Driver : \/ drv[e].pc = "irq" /\ drv[e].irq = l
                                \/ \E i \in Nat : Waits(e, i, l)
        BY <1>0, <2>2 DEF Kept
      <3>3. CASE drv[e].pc = "irq" /\ drv[e].irq = l
        <4>1. e # d
          BY <1>2, <3>1, <3>3 DEF Works
        <4>. QED BY <1>2, <3>3, <4>1
      <3>4. CASE \E i \in Nat : Waits(e, i, l)
        BY <1>7, <3>1, <3>4
      <3>. QED BY <3>2, <3>3, <3>4
    <2>. QED BY <2>1, <2>2
  <1>10. LeftOK' /\ Asked'
    BY <1>0, <1>1, <1>2, <1>4 DEF LeftOK, Asked, Silent
  <1>. QED BY <1>5, <1>6, <1>8, <1>9, <1>10 DEF LineInv

(* The driver reads its device, then opens the line with EVT_ack. *)
LEMMA LineRead ==
  ASSUME DriverInv, LineInv, NEW d \in Driver, drv_irq(d)
  PROVE  LineInv'
  <1>0. /\ DriverOK /\ OneMessage /\ ClockApart /\ Owed /\ Kept /\ LeftOK /\ Asked
    BY DEF DriverInv, LineInv
  <1>1. /\ UNCHANGED <<runlevel, core, routes, masked, latch, inbox>>
        /\ due' = due \ {drv[d].irq} /\ drv[d].pc = "irq"
    BY DEF drv_irq, bootvars
  <1>2. /\ drv'[d].pc = (IF drv[d].irq = USHRT_MAX THEN "recv" ELSE "ack")
        /\ drv'[d].irq = drv[d].irq /\ drv'[d].left = drv[d].left
        /\ \A e \in Driver \ {d} : drv'[e] = drv[e]
    BY <1>0 DEF drv_irq, DriverOK
  <1>3. \A e \in Driver : \A l \in Line : Works(e, l)' <=> Works(e, l)
    BY <1>1, <1>2, ClockRouted DEF Works
  <1>4. \A e \in Driver : \A i \in Nat : \A l \in Line : Waits(e, i, l)' <=> Waits(e, i, l)
    BY <1>1 DEF Waits
  <1>5. OneMessage' /\ ClockApart'
    BY <1>0, <1>1, <1>3, <1>4, ClockRouted DEF OneMessage, ClockApart
  <1>6. Owed'
    BY <1>0, <1>1, <1>3, <1>4 DEF Owed, DriverOK, Routed
  <1>7. Kept'
    <2>1. CASE runlevel # "NORM"
      BY <1>0, <1>1, <2>1 DEF Kept
    <2>2. CASE runlevel = "NORM"
      <3>. SUFFICES ASSUME NEW l \in due, l # drv[d].irq, Routed(l), l \notin latch
                    PROVE  \E e \in Driver : \/ drv'[e].pc = "irq" /\ drv'[e].irq = l
                                             \/ \E i \in Nat : Waits(e, i, l)'
        BY <1>1, <2>2 DEF Kept, Routed
      <3>1. l \in Line
        BY <1>0 DEF DriverOK
      <3>2. PICK e \in Driver : \/ drv[e].pc = "irq" /\ drv[e].irq = l
                                \/ \E i \in Nat : Waits(e, i, l)
        BY <1>0, <2>2 DEF Kept
      <3>. QED BY <1>2, <1>4, <3>1, <3>2
    <2>. QED BY <2>1, <2>2
  <1>8. LeftOK' /\ Asked'
    BY <1>0, <1>1, <1>2 DEF LeftOK, Asked, Silent
  <1>. QED BY <1>5, <1>6, <1>7, <1>8 DEF LineInv

(* EVT_ack: the message is done and the line is open again. *)
LEMMA LineAck ==
  ASSUME DriverInv, LineInv, NEW d \in Driver, EVT_ack(d)
  PROVE  LineInv'
  <1>0. /\ DriverOK /\ OneMessage /\ ClockApart /\ Owed /\ Kept /\ LeftOK /\ Asked
    BY DEF DriverInv, LineInv
  <1>1. /\ UNCHANGED <<runlevel, core, routes, latch, due, inbox>>
        /\ masked' = masked \ {drv[d].irq} /\ drv[d].pc = "ack"
    BY AckAllowed DEF EVT_ack, bootvars
  <1>2. /\ drv'[d].pc = "recv" /\ drv'[d].left = drv[d].left
        /\ \A e \in Driver \ {d} : drv'[e] = drv[e]
    BY <1>0 DEF EVT_ack, DriverOK
  <1>3. /\ \A e \in Driver : \A l \in Line : Works(e, l)' <=> e # d /\ Works(e, l)
        /\ Works(d, drv[d].irq)
    BY <1>1, <1>2 DEF Works
  <1>4. \A e \in Driver : \A i \in Nat : \A l \in Line : Waits(e, i, l)' <=> Waits(e, i, l)
    BY <1>1 DEF Waits
  <1>5. OneMessage'
    BY <1>0, <1>1, <1>3, <1>4 DEF OneMessage
  <1>6. ClockApart'
    BY <1>0, <1>1, <1>3, <1>4, ClockRouted DEF ClockApart
  <1>7. Owed'
    <2>. SUFFICES ASSUME runlevel = "NORM", NEW l \in masked, l # drv[d].irq, Routed(l)
                  PROVE  \E e \in Driver : Works(e, l)' \/ \E i \in Nat : Waits(e, i, l)'
      BY <1>1 DEF Owed, Routed
    <2>1. l \in Line
      BY <1>0 DEF DriverOK
    <2>2. PICK e \in Driver : Works(e, l) \/ \E i \in Nat : Waits(e, i, l)
      BY <1>0 DEF Owed
    <2>3. Works(e, l) => e # d
      BY DEF Works
    <2>. QED BY <1>3, <1>4, <2>1, <2>2, <2>3
  <1>8. Kept'
    <2>1. \A e \in Driver : drv[e].pc = "irq" => drv'[e] = drv[e]
      BY <1>1, <1>2
    <2>2. \A l \in due : l \in Line
      BY <1>0 DEF DriverOK
    <2>. QED BY <1>0, <1>1, <1>4, <2>1, <2>2 DEF Kept, Routed
  <1>9. LeftOK' /\ Asked'
    BY <1>0, <1>1, <1>2 DEF LeftOK, Asked, Silent
  <1>. QED BY <1>5, <1>6, <1>7, <1>8, <1>9 DEF LineInv

(* An interrupt: its line was open, so there was no message about it, and  *)
(* now there is one and the line is closed.                                *)
LEMMA LineInterrupt ==
  ASSUME DriverInv, LineInv, NEW n \in Line, drivers_intr(n)
  PROVE  LineInv'
  <1>0. /\ DriverOK /\ RoutesOK /\ Stages
        /\ OneMessage /\ ClockApart /\ Owed /\ Kept /\ LeftOK /\ Asked
    BY DEF DriverInv, BootInv, LineInv
  <1>1. /\ UNCHANGED <<runlevel, core, routes, due, drv>>
        /\ latch' = latch \ {n} /\ n \notin masked /\ n # clock_irq /\ runlevel = "NORM"
    BY <1>0 DEF drivers_intr, bootvars, Stages
  <1>2. \A e \in Driver : \A l \in Line : Works(e, l)' <=> Works(e, l)
    BY <1>1 DEF Works
  <1>3. LeftOK' /\ Asked'
    BY <1>0, <1>1 DEF LeftOK, Asked, Silent
  <1>4. CASE ~Routed(n) /\ inbox' = inbox /\ masked' = masked
    <2>1. \A e \in Driver : \A i \in Nat : \A l \in Line : Waits(e, i, l)' <=> Waits(e, i, l)
      BY <1>4 DEF Waits
    <2>2. OneMessage' /\ ClockApart' /\ Owed'
      <3>1. OneMessage'
        BY <1>0, <1>2, <1>4, <2>1 DEF OneMessage
      <3>2. ClockApart'
        BY <1>0, <1>1, <1>2, <1>4, <2>1, ClockRouted DEF ClockApart
      <3>3. Owed'
        BY <1>0, <1>1, <1>2, <1>4, <2>1 DEF Owed, Routed, DriverOK
      <3>. QED BY <3>1, <3>2, <3>3
    <2>3. Kept'
      BY <1>0, <1>1, <1>4, <2>1 DEF Kept, Routed, DriverOK
    <2>. QED BY <1>3, <2>2, <2>3 DEF LineInv
  <1>5. ASSUME NEW d \in Driver, masked' = masked \cup {n}, inbox' = Notify(inbox, d, n)
        PROVE  LineInv'
    <2>1. /\ \A e \in Driver : \A i \in Nat : \A l \in Line :
               Waits(e, i, l)' <=> Waits(e, i, l) \/ (e = d /\ i = Len(inbox[d]) + 1 /\ l = n)
          /\ Len(inbox[d]) + 1 \in Nat
      BY <1>0, <1>5, NotifyWaits DEF Number, DriverOK
    <2>2. \A e \in Driver : ~Works(e, n) /\ \A i \in Nat : ~Waits(e, i, n)
      BY <1>0, <1>1 DEF OneMessage
    <2>3. OneMessage'
      BY <1>0, <1>2, <1>5, <2>1, <2>2 DEF OneMessage
    <2>4. ClockApart'
      BY <1>0, <1>1, <1>2, <1>5, <2>1, ClockRouted DEF ClockApart
    <2>5. Owed'
      BY <1>0, <1>1, <1>2, <1>5, <2>1 DEF Owed, Routed, DriverOK
    <2>6. Kept'
      <3>. SUFFICES ASSUME NEW l \in due, Routed(l), l \notin latch \ {n}
                    PROVE  \E e \in Driver : \/ drv'[e].pc = "irq" /\ drv'[e].irq = l
                                             \/ \E i \in Nat : Waits(e, i, l)'
        BY <1>1 DEF Kept, Routed
      <3>1. l \in Line
        BY <1>0 DEF DriverOK
      <3>2. CASE l = n
        BY <2>1, <3>2
      <3>3. CASE l # n
        <4>1. PICK e \in Driver : \/ drv[e].pc = "irq" /\ drv[e].irq = l
                                  \/ \E i \in Nat : Waits(e, i, l)
          BY <1>0, <1>1, <3>3 DEF Kept
        <4>. QED BY <1>1, <2>1, <3>1, <4>1
      <3>. QED BY <3>2, <3>3
    <2>. QED BY <1>3, <2>3, <2>4, <2>5, <2>6 DEF LineInv
  <1>. QED BY <1>0, <1>4, <1>5, InterruptTells

(* The message of the timer is about no line. *)
LEMMA LineTick ==
  ASSUME DriverInv, LineInv, clock_intr
  PROVE  LineInv'
  <1>0. /\ DriverOK /\ RoutesOK /\ ClockOK
        /\ OneMessage /\ ClockApart /\ Owed /\ Kept /\ LeftOK /\ Asked
    BY DEF DriverInv, LineInv
  <1>1. UNCHANGED <<runlevel, core, routes, masked, latch, due, drv>>
    BY DEF clock_intr, bootvars, linevars
  <1>2. \A e \in Driver : \A i \in Nat : \A l \in Line : Waits(e, i, l)' <=> Waits(e, i, l)
    <2>1. CASE inbox' = inbox
      BY <2>1 DEF Waits
    <2>2. ASSUME NEW d \in Driver, inbox' = Notify(inbox, d, USHRT_MAX)
          PROVE  \A e \in Driver : \A i \in Nat : \A l \in Line : Waits(e, i, l)' <=> Waits(e, i, l)
      BY <1>0, <2>2, NotifyWaits, ClockRouted DEF Number
    <2>. QED BY <1>0, <2>1, <2>2, TickTells
  <1>3. \A e \in Driver : \A l \in Line : Works(e, l)' <=> Works(e, l)
    BY <1>1 DEF Works
  <1>4. OneMessage' /\ ClockApart' /\ Owed'
    BY <1>0, <1>1, <1>2, <1>3, ClockRouted DEF OneMessage, ClockApart, Owed, Routed, DriverOK
  <1>5. Kept'
    BY <1>0, <1>1, <1>2 DEF Kept, Routed, DriverOK
  <1>6. LeftOK' /\ Asked'
    BY <1>0, <1>1 DEF LeftOK, Asked, Silent
  <1>. QED BY <1>4, <1>5, <1>6 DEF LineInv

(* A device has something: the controller remembers it. *)
LEMMA LineDevice ==
  ASSUME DriverInv, LineInv, NEW n \in Line, Device(n)
  PROVE  LineInv'
  <1>0. /\ DriverOK /\ OneMessage /\ ClockApart /\ Owed /\ Kept /\ LeftOK /\ Asked
    BY DEF DriverInv, LineInv
  <1>1. /\ UNCHANGED <<runlevel, core, routes, masked, drv, inbox>>
        /\ due' = due \cup {n} /\ latch' = latch \cup {n} /\ n # clock_irq
    BY DEF Device, bootvars, drvvars
  <1>. QED
    BY <1>0, <1>1 DEF LineInv, OneMessage, ClockApart, Owed, Kept, LeftOK, Asked, Waits, Works,
        Routed, Silent

(* Every step keeps the invariant of the lines. *)
LEMMA LineStep ==
  ASSUME AddedInTime
  PROVE  DriverInv /\ LineInv /\ [Next]_vars => LineInv'
  <1>. SUFFICES ASSUME DriverInv, LineInv, [Next]_vars PROVE LineInv'
    OBVIOUS
  <1>0. /\ OneMessage /\ ClockApart /\ Owed /\ Kept /\ LeftOK /\ Asked
    BY DEF LineInv
  <1>1. ASSUME drivers_init \/ \E c \in Core : CoreStep(c) PROVE LineInv'
    <2>1. BootOnly
      BY <1>1, CoreStepQuiet, InitQuiet
    <2>2. Asked'
      BY <1>0, <1>1, AskedBoot
    <2>3. OneMessage' /\ ClockApart' /\ Owed' /\ Kept' /\ LeftOK'
      BY <1>0, <2>1 DEF BootOnly, linevars, drvvars, OneMessage, ClockApart, Owed, Kept, LeftOK,
          Waits, Works, Routed
    <2>. QED BY <2>2, <2>3 DEF LineInv
  <1>2. ASSUME NEW d \in Driver, EnterLoop(d) PROVE LineInv'
    <2>1. UNCHANGED <<runlevel, core, routes, masked, latch, due, inbox>>
      BY <1>2 DEF EnterLoop, bootvars, linevars
    <2>2. \A e \in Driver : /\ drv'[e].irq = drv[e].irq /\ drv'[e].left = drv[e].left
                            /\ \/ drv'[e].pc = drv[e].pc
                               \/ drv'[e].pc = "recv" /\ drv[e].pc = "init"
      BY <1>2 DEF EnterLoop, DriverInv, DriverOK
    <2>3. \A e \in Driver : \A l \in Line : Works(e, l)' <=> Works(e, l)
      BY <2>2 DEF Works
    <2>4. \A e \in Driver : \A i \in Nat : \A l \in Line : Waits(e, i, l)' <=> Waits(e, i, l)
      BY <2>1 DEF Waits
    <2>5. OneMessage' /\ ClockApart' /\ Owed'
      BY <1>0, <2>1, <2>3, <2>4, ClockRouted DEF OneMessage, ClockApart, Owed, Routed, DriverInv, DriverOK
    <2>6. Kept'
      BY <1>0, <2>1, <2>2, <2>4 DEF Kept, Routed, DriverInv, DriverOK
    <2>7. LeftOK' /\ Asked'
      BY <1>0, <2>1, <2>2 DEF LeftOK, Asked, Silent
    <2>. QED BY <2>5, <2>6, <2>7 DEF LineInv
  <1>3. ASSUME NEW t \in Task, \/ \E tz \in Zone : SYS_stimezone(t, tz)
                               \/ SYS_stime(t, 2 * Million + 3)
        PROVE  LineInv'
    BY <1>3, LinesUnchanged DEF SYS_stimezone, SYS_stime, bootvars, drvvars
  <1>4. CASE UNCHANGED vars
    BY <1>4, LinesUnchanged DEF vars, bootvars, drvvars
  <1>. QED
    BY <1>1, <1>2, <1>3, <1>4, LineCall, LineReady, LineReceive, LineRead, LineAck,
       LineInterrupt, LineTick, LineDevice DEF Next, CoreStep

(* No line has a handler or a request when the machine starts. *)
LEMMA LineInit == Init => LineInv
  <1>. SUFFICES ASSUME Init PROVE LineInv
    OBVIOUS
  <1>1. \A d \in Driver : /\ drv[d].pc \in {"none", "init"} /\ drv[d].left = Calls[d]
                          /\ inbox[d] = <<>>
    BY DEF Init
  <1>2. \A d \in Driver : \A l \in Line : ~Works(d, l) /\ \A i \in Nat : ~Waits(d, i, l)
    BY <1>1 DEF Works, Waits
  <1>3. runlevel = "BOOT" /\ due = {} /\ \A c \in Core : core[c] = "off"
    BY DEF Init
  <1>4. OneMessage /\ ClockApart /\ Owed /\ Kept
    BY <1>2, <1>3, ClockRouted DEF OneMessage, ClockApart, Owed, Kept
  <1>5. LeftOK /\ Asked
    BY <1>1, <1>3, DriverCalls DEF LeftOK, Asked
  <1>. QED BY <1>4, <1>5 DEF LineInv

(* At most one message: what Outstanding counts. *)
LEMMA OutstandingOne ==
  ASSUME DriverOK, OneMessage, NEW d \in Driver, NEW l \in Line
  PROVE  /\ Outstanding(d, l) <= 1
         /\ Works(d, l) \/ (\E i \in Nat : Waits(d, i, l)) => Outstanding(d, l) > 0
  <1>. DEFINE S == {i \in DOMAIN inbox[d] : inbox[d][i] = l}
  <1>0. Outstanding(d, l) = Cardinality(S) + (IF Works(d, l) THEN 1 ELSE 0)
    BY DEF Outstanding, Works
  <1>1. \A i \in S : i \in Nat /\ Waits(d, i, l)
    BY DEF Waits, DriverOK
  <1>2. CASE S = {}
    <2>1. Cardinality(S) = 0
      BY <1>2, FS_EmptySet
    <2>2. \A i \in Nat : ~Waits(d, i, l)
      BY <1>2 DEF Waits
    <2>. QED BY <1>0, <2>1, <2>2
  <1>3. CASE S # {}
    <2>1. PICK i \in S : TRUE
      BY <1>3
    <2>2. S = {i}
      BY <1>1, <2>1 DEF OneMessage
    <2>3. Cardinality(S) = 1
      BY <2>2, FS_Singleton
    <2>4. ~Works(d, l)
      BY <1>1, <2>1 DEF OneMessage
    <2>. QED BY <1>0, <2>3, <2>4
  <1>. QED BY <1>2, <1>3

(* What a device has is never forgotten, a closed line is always owed an   *)
(* acknowledgement, and no driver ever has two messages about one line     *)
(* (drivers.c:154, driver.c:43), for any number of cores, drivers and      *)
(* interrupts: when every driver asks for its lines before they are        *)
(* opened, which an added driver only does where AddedInTime holds.        *)
THEOREM RequestsKept ==
  ASSUME AddedInTime
  PROVE  Spec => []NothingMissed
  <1>1. DriverInv /\ LineInv => NothingMissed
    <2>. SUFFICES ASSUME DriverInv, LineInv PROVE NothingMissed
      OBVIOUS
    <2>0. DriverOK /\ OneMessage /\ Owed /\ Kept
      BY DEF DriverInv, LineInv
    <2>1. OnePerLine
      BY <2>0, OutstandingOne DEF OnePerLine
    <2>2. AckOwed
      BY <2>0, OutstandingOne DEF AckOwed, Owed, DriverOK
    <2>3. \A d \in Driver : \A l \in Line : \A i \in Nat : Waits(d, i, l) => l \in Range(inbox[d])
      BY DEF Waits, Range
    <2>. QED BY <2>0, <2>1, <2>2, <2>3 DEF NothingMissed, Kept, DriverOK
  <1>2. DriverInv /\ LineInv /\ [Next]_vars => LineInv'
    BY LineStep
  <1>. QED BY <1>1, <1>2, LineInit, DriverInvariant, PTL DEF Spec

(* On a machine with one core nothing has to be assumed of the drivers.    *)
THEOREM RequestsKeptOnOneCore ==
  ASSUME Core = {BSP}
  PROVE  Spec => []NothingMissed
  <1>1. AddedInTime
    BY DriverCalls DEF AddedInTime
  <1>. QED BY <1>1, RequestsKept
=============================================================================
