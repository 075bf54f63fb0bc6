------------------------------ MODULE MsgQueue ------------------------------
(***************************************************************************)
(* The message queues of src/core/msg.c and the system calls of libc that  *)
(* use them.  Every task has a circular queue of message slots; msg_send   *)
(* appends to the queue of another task, msg_notify does so on behalf of   *)
(* the core, msg_recv takes the first message or the answer with a given   *)
(* serial.                                                                 *)
(*                                                                         *)
(* A system call runs on one core with interrupts off, so it is one step.  *)
(* Between two system calls of a task anything may happen: mq_call is a    *)
(* msg_send and then a msg_recv; the loop of a service is a msg_recv, the  *)
(* handler, and a msg_send that reads the message it answers again.        *)
(*                                                                         *)
(* Left out: message contents and buffers (MSG_PTRDATA), tracing, debug    *)
(* output, the checks of msg_allowed and ESRCH (all services run and may   *)
(* be called), a failing pmm_alloc.                                        *)
(***************************************************************************)
EXTENDS Integers

CONSTANTS Client,       \* tasks that call services: mq_call
          Server,       \* services and drivers: tasks that receive in a loop
          Answer,       \* how each service answers, see Dispatch
          Async,        \* the clients that also use mq_send and mq_recv
          Notified,     \* the tasks the core sends notifications to
          Core,         \* the sender of notifications
          None,         \* no task
          MQ_MAX,       \* slots of a queue, slot 0 holds the header; 192 in the code
          PageSlots,    \* slots in a page; 64 in the code
          USHRT_MAX,    \* the largest serial number; 65535 in the code
          MaxPending,   \* bound: messages programs let pile up for one task
          MaxSent       \* bound: requests and notifications in one behaviour

Task == Client \union Server

ASSUME TaskAssumption ==
    /\ Client \intersect Server = {}
    /\ Async \subseteq Client
    /\ Answer \in [Server -> {"serial", "fresh", "core"}]
    /\ Notified \subseteq Task
    /\ Core \notin Task /\ None \notin Task /\ Core # None
ASSUME QueueAssumption ==
    /\ MQ_MAX \in Nat /\ MQ_MAX > 2
    /\ PageSlots \in Nat \ {0}
    /\ USHRT_MAX \in Nat \ {0}
    /\ MaxPending \in Nat
    /\ MaxSent \in Nat

Index == 1..(MQ_MAX - 1)

(* EVT_DEST(pid) | mq_serial; a notification has no pid in its serial. *)
Serial == [pid : Task \union {Core}, n : Nat]
AnySerial == [pid |-> None, n |-> 0]
EventCode == [pid |-> None, n |-> 1]    \* an event code taken for a serial

(* A slot; id numbers the messages in the order of sending, which the code *)
(* does not, and no property but the ones about order looks at it.         *)
Message == [id : Nat, from : Task \union {Core}, kind : {"req", "ack", "irq"},
            serial : Serial]
Blank == [id |-> 0, from |-> Core, kind |-> "irq", serial |-> [pid |-> Core, n |-> 0]]

VARIABLES
    mq_start, mq_end,   \* msghdr: first message, first free slot; 0 at the start
    mq_serial,          \* msghdr: the last serial number given out
    slot,               \* the slots of each task's queue
    responsed,          \* the slots with MSG_RESPONSED in their evt
    present,            \* the mapped pages of each queue
    blksend,            \* tcb->blksend: chain of tasks blocked in msg_send
    state,              \* tcb->state
    pc,                 \* "ready", in "recv", to "use" the message received,
                        \* or in a system call that found the queue full
    want,               \* the serial msg_recv is called with
    got,                \* the slot the pointer returned by msg_recv refers to
    copy,               \* history: what that slot held at the return
    callee,             \* history: the service the last mq_call went to
    undelivered,        \* history: what msg_send accepted and nobody took
    sent                \* history: the number of messages sent

queue == <<mq_start, mq_end, mq_serial, slot, responsed, present>>
user == <<pc, want, got, copy, callee>>
vars == <<mq_start, mq_end, mq_serial, slot, responsed, present, blksend, state,
          pc, want, got, copy, callee, undelivered, sent>>
-----------------------------------------------------------------------------
(* The circular queue. *)

(* Fault: the end of the ring is passed. *)
Succ_nowrap(i) == i + 1

Succ(i) == IF i + 1 >= MQ_MAX THEN 1 ELSE i + 1
Pred(i) == IF i - 1 = 0 THEN MQ_MAX - 1 ELSE i - 1
Page(i) == (i \div PageSlots) + 1

(* The header is zero when the task starts, the indexes skip slot 0. *)
Start(d) == IF mq_start[d] = 0 THEN 1 ELSE mq_start[d]
End(d) == IF mq_end[d] = 0 THEN 1 ELSE mq_end[d]

(* How many slots after slot a slot b is. *)
Dist(a, b) == IF a <= b THEN b - a ELSE b - a + (MQ_MAX - 1)
Ring(d) == {k \in Index : Dist(Start(d), k) < Dist(Start(d), End(d))}
Live(d) == Ring(d) \ responsed[d]
Pending(d) == Dist(Start(d), End(d))

Full(d) == Succ(End(d)) = Start(d)

(* Fault: an empty queue is rewound although its page is mapped. *)
Rewind_always(d) == End(d) # 1 /\ Start(d) + 1 = Succ(End(d))

(* The page of the free slot is not mapped and the queue is empty: the     *)
(* message goes to slot 1, and mq_end is set to 1.                         *)
Rewind(d) == Page(End(d)) \notin present[d] /\ Start(d) + 1 = Succ(End(d))
Place(d) == IF Rewind(d) THEN 1 ELSE End(d)
NextEnd(d) == IF Rewind(d) THEN 1 ELSE Succ(End(d))

NextSerial(d) == IF mq_serial[d] >= USHRT_MAX THEN 1 ELSE mq_serial[d] + 1

(* A message from src is written into the queue of d. *)
Put(d, src, kind, serial) ==
    LET m == [id |-> sent + 1, from |-> src, kind |-> kind, serial |-> serial]
    IN /\ mq_start' = [mq_start EXCEPT ![d] = Start(d)]
       /\ mq_end' = [mq_end EXCEPT ![d] = NextEnd(d)]
       /\ mq_serial' = [mq_serial EXCEPT ![d] = NextSerial(d)]
       /\ slot' = [slot EXCEPT ![d][Place(d)] = m]
       /\ responsed' = [responsed EXCEPT ![d] = @ \ {Place(d)}]
       /\ present' = [present EXCEPT ![d] = @ \union {Page(Place(d))}]
       /\ undelivered' = [undelivered EXCEPT ![d] = @ \union {m}]
       /\ sent' = sent + 1

(* Fault: the addressee is not woken. *)
sched_awake_forgotten(t) == UNCHANGED state

(* sched_awake and sched_block of sched.c, as far as the queues see them. *)
sched_awake(t) == state' = [state EXCEPT ![t] = "running"]
sched_block(t) == state' = [state EXCEPT ![t] = "blocked"]
-----------------------------------------------------------------------------
(* The success of msg_send: the addressee is woken. *)
msg_send(src, dst, kind, serial) ==
    /\ ~Full(dst)
    /\ Put(dst, src, kind, serial)
    /\ sched_awake(dst)
    /\ UNCHANGED blksend

(* The queue is full: mq_end has been advanced onto mq_start, and the      *)
(* sender is put on the chain of the addressee and blocked.  The system    *)
(* call is not repeated when the sender runs again.                        *)
msg_send_full(src, dst) ==
    /\ Full(dst)
    /\ mq_start' = [mq_start EXCEPT ![dst] = Start(dst)]
    /\ mq_end' = [mq_end EXCEPT ![dst] = Succ(End(dst))]
    /\ blksend' = [blksend EXCEPT ![src] = blksend[dst], ![dst] = src]
    /\ sched_block(src)
    /\ UNCHANGED <<mq_serial, slot, responsed, present, undelivered, sent>>

(* msg_notify has no test for a full queue. *)
msg_notify(d) ==
    /\ Put(d, Core, "irq", [pid |-> Core, n |-> NextSerial(d)])
    /\ sched_awake(d)
    /\ UNCHANGED <<blksend, user>>

(* Fault: the tasks behind the one that is woken are forgotten. *)
WakeSender_drops(t, found) ==
    LET s == blksend[t]
        woken == IF s = None THEN state ELSE [state EXCEPT ![s] = "running"]
    IN /\ blksend' = [blksend EXCEPT ![t] = None]
       /\ state' = IF found THEN woken ELSE [woken EXCEPT ![t] = "blocked"]

(* The end of msg_recv: one task that could not send is woken; then, in    *)
(* platform_syscall, the receiver is blocked if there was no message.      *)
WakeSender(t, found) ==
    LET s == blksend[t]
        woken == IF s = None THEN state ELSE [state EXCEPT ![s] = "running"]
    IN /\ blksend' = IF s = None THEN blksend
                     ELSE [blksend EXCEPT ![t] = blksend[s], ![s] = None]
       /\ state' = IF found THEN woken ELSE [woken EXCEPT ![t] = "blocked"]

(* The pointer to slot k is returned to the task. *)
Received(t, k) ==
    /\ pc' = [pc EXCEPT ![t] = "use"]
    /\ got' = [got EXCEPT ![t] = k]
    /\ copy' = [copy EXCEPT ![t] = slot[t][k]]
    /\ undelivered' = [undelivered EXCEPT ![t] = @ \ {slot[t][k]}]
    /\ WakeSender(t, TRUE)
    /\ UNCHANGED <<mq_serial, slot, present, want, callee, sent>>

(* No message: the program counter is set back to the system call. *)
NotReceived(t) ==
    /\ WakeSender(t, FALSE)
    /\ UNCHANGED <<mq_end, mq_serial, slot, responsed, present, user, undelivered, sent>>

(* Fault: the newest message is taken first. *)
RecvAny_newest(t) ==
    /\ want[t] = AnySerial
    /\ \/ \E k \in Live(t) :
             /\ \A l \in Live(t) : Dist(Start(t), k) >= Dist(Start(t), l)
             /\ responsed' = [responsed EXCEPT ![t] = @ \union {k}]
             /\ UNCHANGED <<mq_start, mq_end>>
             /\ Received(t, k)
       \/ /\ Live(t) = {}
          /\ mq_start' = [mq_start EXCEPT ![t] = mq_end[t]]
          /\ NotReceived(t)

(* msg_recv(0): the first message that has not been taken as an answer. *)
RecvAny(t) ==
    /\ want[t] = AnySerial
    /\ \/ \E k \in Live(t) :
             /\ \A l \in Live(t) : Dist(Start(t), k) <= Dist(Start(t), l)
             /\ mq_start' = [mq_start EXCEPT ![t] = Succ(k)]
             /\ UNCHANGED <<mq_end, responsed>>
             /\ Received(t, k)
       \/ /\ Live(t) = {}
          /\ mq_start' = [mq_start EXCEPT ![t] = mq_end[t]]
          /\ NotReceived(t)

(* Fault: the queue is cut off at an answer that is not the last message. *)
RecvAnswer_cut(t) ==
    LET match == {k \in Live(t) : slot[t][k].serial = want[t]}
    IN /\ want[t] # AnySerial
       /\ \/ \E k \in match :
                /\ \A l \in match : Dist(Start(t), l) <= Dist(Start(t), k)
                /\ mq_end' = [mq_end EXCEPT ![t] = k]
                /\ UNCHANGED responsed
                /\ Received(t, k)
          \/ match = {} /\ NotReceived(t)
       /\ UNCHANGED mq_start

(* Fault: any message is taken for the answer. *)
RecvAnswer_any(t) ==
    /\ want[t] # AnySerial
    /\ \/ \E k \in Live(t) :
             /\ responsed' = [responsed EXCEPT ![t] = @ \union {k}]
             /\ UNCHANGED mq_end
             /\ Received(t, k)
       \/ Live(t) = {} /\ NotReceived(t)
    /\ UNCHANGED mq_start

(* msg_recv(serial): the last message with the serial.  At the end of the  *)
(* queue it is cut off, elsewhere it is marked.                            *)
RecvAnswer(t) ==
    LET match == {k \in Live(t) : slot[t][k].serial = want[t]}
    IN /\ want[t] # AnySerial
       /\ \/ \E k \in match :
                /\ \A l \in match : Dist(Start(t), l) <= Dist(Start(t), k)
                /\ IF k = Pred(mq_end[t])
                   THEN /\ mq_end' = [mq_end EXCEPT ![t] = k]
                        /\ UNCHANGED responsed
                   ELSE /\ responsed' = [responsed EXCEPT ![t] = @ \union {k}]
                        /\ UNCHANGED mq_end
                /\ Received(t, k)
          \/ match = {} /\ NotReceived(t)
       /\ UNCHANGED mq_start

msg_recv(t) ==
    /\ pc[t] = "recv" /\ state[t] = "running"
    /\ RecvAny(t) \/ RecvAnswer(t)
-----------------------------------------------------------------------------
(* Programs.  They stop sending when MaxPending messages wait already,     *)
(* for the addressee or for themselves.                                    *)
Allowed(d) == sent < MaxSent /\ Pending(d) < MaxPending

(* mq_call of client c: request, then wait for the answer with its serial. *)
mq_call(c, s) ==
    LET k == [pid |-> c, n |-> NextSerial(s)]
    IN /\ pc[c] = "ready" /\ state[c] = "running" /\ Allowed(s) /\ Pending(c) < MaxPending
       /\ \/ /\ msg_send(c, s, "req", k)
             /\ pc' = [pc EXCEPT ![c] = "recv"]
             /\ want' = [want EXCEPT ![c] = k]
          \/ /\ msg_send_full(c, s)
             /\ pc' = [pc EXCEPT ![c] = "callfull"]
             /\ UNCHANGED want
       /\ callee' = [callee EXCEPT ![c] = s]
       /\ UNCHANGED <<got, copy>>

(* mq_send of a client that does not wait for an answer. *)
mq_send(c, s) ==
    /\ pc[c] = "ready" /\ state[c] = "running" /\ Allowed(s) /\ Pending(c) < MaxPending
    /\ \/ /\ msg_send(c, s, "req", [pid |-> c, n |-> NextSerial(s)])
          /\ UNCHANGED pc
       \/ /\ msg_send_full(c, s)
          /\ pc' = [pc EXCEPT ![c] = "sendfull"]
    /\ UNCHANGED <<want, got, copy, callee>>

(* A sender that was blocked runs again, after the system call, with the   *)
(* registers it made the call with: mq_call takes a first argument other   *)
(* than 0 for an error, and with 0 it takes the event code for the serial. *)
Resume(t) ==
    /\ pc[t] \in {"callfull", "sendfull"} /\ state[t] = "running"
    /\ \/ /\ pc' = [pc EXCEPT ![t] = IF t \in Server THEN "recv" ELSE "ready"]
          /\ UNCHANGED want
       \/ /\ pc[t] = "callfull"
          /\ pc' = [pc EXCEPT ![t] = "recv"]
          /\ want' = [want EXCEPT ![t] = EventCode]
    /\ UNCHANGED <<queue, blksend, state, got, copy, callee, undelivered, sent>>

(* mq_recv of such a client. *)
mq_recv(c) ==
    /\ pc[c] = "ready" /\ state[c] = "running"
    /\ pc' = [pc EXCEPT ![c] = "recv"]
    /\ want' = [want EXCEPT ![c] = AnySerial]
    /\ UNCHANGED <<queue, blksend, state, got, copy, callee, undelivered, sent>>

(* The client reads the message it was given and goes on. *)
Use(c) ==
    /\ pc[c] = "use" /\ state[c] = "running"
    /\ pc' = [pc EXCEPT ![c] = "ready"]
    /\ got' = [got EXCEPT ![c] = 0]
    /\ copy' = [copy EXCEPT ![c] = Blank]
    /\ UNCHANGED <<queue, blksend, state, want, callee, undelivered, sent>>

(* The loop of a service or driver: the handler has run, and the message   *)
(* is read once more for the sender and the serial of the answer.  There   *)
(* are three ways to answer in the sources:                                *)
(*   "serial"  mq_send to the sender with the serial, fs/pipe.c;           *)
(*   "fresh"   mq_send4 to the sender, which sends the serial as an        *)
(*             argument and lets msg_send number the answer, fs/main.c;    *)
(*   "core"    mq_dispatch masks the sender out of the event, and the      *)
(*             answer goes to the core, which has no queue and no caller.  *)
(* An interrupt is acknowledged to the core.                               *)
Dispatch(s) ==
    LET msg == slot[s][got[s]]
        serial == IF Answer[s] = "serial" THEN msg.serial
                  ELSE [pid |-> s, n |-> NextSerial(msg.from)]
        answers == msg.kind = "req" /\ Answer[s] # "core"
    IN /\ pc[s] = "use" /\ state[s] = "running"
       /\ \/ /\ answers
             /\ msg_send(s, msg.from, "ack", serial)
             /\ pc' = [pc EXCEPT ![s] = "recv"]
          \/ /\ answers
             /\ msg_send_full(s, msg.from)
             /\ pc' = [pc EXCEPT ![s] = "sendfull"]
          \/ /\ ~answers
             /\ pc' = [pc EXCEPT ![s] = "recv"]
             /\ UNCHANGED <<queue, blksend, state, undelivered, sent>>
       /\ got' = [got EXCEPT ![s] = 0]
       /\ copy' = [copy EXCEPT ![s] = Blank]
       /\ UNCHANGED <<want, callee>>
-----------------------------------------------------------------------------
Init ==
    /\ mq_start = [t \in Task |-> 0]
    /\ mq_end = [t \in Task |-> 0]
    /\ mq_serial = [t \in Task |-> 0]
    /\ slot = [t \in Task |-> [k \in Index |-> Blank]]
    /\ responsed = [t \in Task |-> {}]
    /\ present = [t \in Task |-> {1}]
    /\ blksend = [t \in Task |-> None]
    /\ state = [t \in Task |-> "running"]
    /\ pc = [t \in Task |-> IF t \in Server THEN "recv" ELSE "ready"]
    /\ want = [t \in Task |-> AnySerial]
    /\ got = [t \in Task |-> 0]
    /\ copy = [t \in Task |-> Blank]
    /\ callee = [t \in Task |-> None]
    /\ undelivered = [t \in Task |-> {}]
    /\ sent = 0

Step(t) ==
    \/ msg_recv(t)
    \/ Resume(t)
    \/ t \in Client /\ Use(t)
    \/ t \in Server /\ Dispatch(t)

Next ==
    \/ \E c \in Client, s \in Server : mq_call(c, s)
    \/ \E c \in Async, s \in Server : mq_send(c, s)
    \/ \E c \in Async : mq_recv(c)
    \/ \E d \in Notified : Allowed(d) /\ msg_notify(d)
    \/ \E t \in Task : Step(t)

Spec == Init /\ [][Next]_vars

(* A task that can run goes on: tasks of one priority run in turns. *)
FairSpec == Spec /\ \A t \in Task : WF_vars(Step(t))
-----------------------------------------------------------------------------
(* The variables keep their types: the indexes of a queue stay inside the  *)
(* ring and a serial number within 16 bits, whatever wraps around.         *)
TypeOK ==
    /\ mq_start \in [Task -> 0..(MQ_MAX - 1)]
    /\ mq_end \in [Task -> 0..(MQ_MAX - 1)]
    /\ mq_serial \in [Task -> 0..USHRT_MAX]
    /\ slot \in [Task -> [Index -> Message]]
    /\ responsed \in [Task -> SUBSET Index]
    /\ present \in [Task -> SUBSET Nat]
    /\ blksend \in [Task -> Task \union {None}]
    /\ state \in [Task -> {"running", "blocked"}]
    /\ pc \in [Task -> {"ready", "recv", "use", "callfull", "sendfull"}]
    /\ want \in [Task -> Serial \union {AnySerial, EventCode}]
    /\ got \in [Task -> 0..(MQ_MAX - 1)]
    /\ copy \in [Task -> Message]
    /\ callee \in [Task -> Server \union {None}]
    /\ undelivered \in [Task -> SUBSET Message]
    /\ sent \in Nat

Waiting(d) == {slot[d][k] : k \in Live(d)}

(* What msg_send and msg_notify have accepted and msg_recv has not         *)
(* returned is in the queue, and the queue holds nothing else: no message  *)
(* is lost, returned twice or invented, across wrap-around of the ring and *)
(* answers taken out of the middle.                                        *)
NothingLost == \A t \in Task : Waiting(t) = undelivered[t]

(* No task sleeps in msg_recv while a message it would take is in its      *)
(* queue: every send comes before the receiver's look into the queue, or   *)
(* wakes the receiver after it blocked.                                    *)
NoSleepOnMessage ==
    \A t \in Task :
        state[t] = "blocked" /\ pc[t] = "recv" =>
            \A k \in Live(t) : want[t] # AnySerial /\ slot[t][k].serial # want[t]

(* The message mq_call returns is an answer of the service that was called *)
(* with the serial of the call.  That it answers this very call follows as *)
(* long as serials have not wrapped, or if the client has one call under   *)
(* way at a time.                                                          *)
AnswerMatches ==
    \A c \in Client :
        pc[c] = "use" /\ want[c] # AnySerial =>
            /\ copy[c].kind = "ack"
            /\ copy[c].from = callee[c]
            /\ copy[c].serial = want[c]

(* msg_recv returns a pointer into the queue, and the loop of a service    *)
(* reads the message again after its handler has run: until the next       *)
(* msg_recv of the task nobody writes to that slot, whatever arrives.      *)
MessageStable ==
    \A t \in Task : pc[t] = "use" => slot[t][got[t]] = copy[t]

(* Who is blocked in msg_send is on the blksend chain of somebody, who     *)
(* will wake it: waking one sender drops none of those behind it.          *)
SendersChained ==
    \A t \in Task : state[t] = "blocked" /\ pc[t] \in {"callfull", "sendfull"} =>
        \E d \in Task \ {t} : blksend[d] = t

(* Every message of a queue is in a mapped page. *)
Mapped == \A t \in Task : \A k \in Ring(t) : Page(k) \in present[t]

(* The queues implement the mailboxes: first come, first served, except    *)
(* for answers, which are taken by serial.                                 *)
Boxes == INSTANCE Mailbox WITH Any <- AnySerial, asked <- want,
                               box <- [t \in Task |-> Waiting(t)]
InOrder == Boxes!Spec

(* Every mq_call returns with a message, whatever else the service has to  *)
(* do and whoever else calls it.                                           *)
CallAnswered ==
    \A c \in Client : (pc[c] = "recv" /\ want[c] # AnySerial) ~> pc[c] = "use"
=============================================================================
