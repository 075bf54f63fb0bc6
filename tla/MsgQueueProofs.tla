--------------------------- MODULE MsgQueueProofs ---------------------------
(***************************************************************************)
(* Proofs about the message queues, for any tasks, any length of the       *)
(* queues, any number of messages and any serial numbers.                  *)
(***************************************************************************)
EXTENDS MsgQueue, TLAPS

-----------------------------------------------------------------------------
(* Arithmetic of the ring: Arc(a, b) is what lies from slot a up to, and    *)
(* not including, slot b.                                                  *)
Arc(a, b) == {k \in Index : Dist(a, k) < Dist(a, b)}

(* The successor and the predecessor of a slot are slots, inverse to each  *)
(* other, and the distance of two slots is less than the length.           *)
LEMMA RingType ==
  /\ \A i \in Index : Succ(i) \in Index /\ Pred(i) \in Index
  /\ \A i \in Index : Pred(Succ(i)) = i /\ Succ(Pred(i)) = i
  /\ \A a, b \in Index : Dist(a, b) \in 0..(MQ_MAX - 2)
  /\ \A a, b, k \in Index : Dist(a, b) = Dist(a, k) => b = k
  /\ 1 \in Index
  BY QueueAssumption DEF Index, Succ, Pred, Dist

(* An arc of no length is empty. *)
LEMMA ArcEmpty == \A a \in Index : Arc(a, a) = {}
  BY QueueAssumption DEF Index, Arc, Dist

(* A message appended to a queue that is not full adds its slot, behind    *)
(* the others, and nothing else.                                           *)
LEMMA ArcAppend ==
  ASSUME NEW a \in Index, NEW b \in Index, Succ(b) # a
  PROVE  /\ Arc(a, Succ(b)) = Arc(a, b) \union {b}
         /\ b \notin Arc(a, b)
         /\ \A k \in Arc(a, b) : Dist(a, k) < Dist(a, b)
  BY QueueAssumption DEF Index, Succ, Dist, Arc

(* Moving the start behind slot k drops k and what is before it, and keeps *)
(* the order of the rest.                                                  *)
LEMMA ArcAdvance ==
  ASSUME NEW a \in Index, NEW b \in Index, NEW k \in Arc(a, b)
  PROVE  /\ Arc(Succ(k), b) = {l \in Arc(a, b) : Dist(a, k) < Dist(a, l)}
         /\ \A l, m \in Arc(Succ(k), b) :
                Dist(Succ(k), l) < Dist(Succ(k), m) <=> Dist(a, l) < Dist(a, m)
  BY QueueAssumption DEF Index, Succ, Dist, Arc

(* Moving the end back drops the last slot. *)
LEMMA ArcCut ==
  ASSUME NEW a \in Index, NEW b \in Index, a # b
  PROVE  /\ Pred(b) \in Arc(a, b)
         /\ Arc(a, Pred(b)) = Arc(a, b) \ {Pred(b)}
  BY QueueAssumption DEF Index, Pred, Dist, Arc

-----------------------------------------------------------------------------
(* What holds of every queue, full or not, and whoever writes to it.       *)

(* The two parts of the type invariant: the queues, and the tasks. *)
QueueOK ==
    /\ mq_start \in [Task -> 0..(MQ_MAX - 1)]
    /\ mq_end \in [Task -> 0..(MQ_MAX - 1)]
    /\ mq_serial \in [Task -> 0..USHRT_MAX]
    /\ slot \in [Task -> [Index -> Message]]
    /\ responsed \in [Task -> SUBSET Index]
    /\ present \in [Task -> SUBSET Nat]
    /\ undelivered \in [Task -> SUBSET Message]
    /\ sent \in Nat

TaskOK ==
    /\ blksend \in [Task -> Task \union {None}]
    /\ state \in [Task -> {"running", "blocked"}]
    /\ pc \in [Task -> {"ready", "recv", "use", "callfull", "sendfull"}]
    /\ want \in [Task -> Serial \union {AnySerial, EventCode}]
    /\ got \in [Task -> 0..(MQ_MAX - 1)]
    /\ copy \in [Task -> Message]
    /\ callee \in [Task -> Server \union {None}]

(* The header is zero until the first message, never half of it. *)
Header == \A t \in Task : mq_start[t] = 0 <=> mq_end[t] = 0

(* A task that has a message to use has a slot in hand. *)
InHand == \A t \in Task : pc[t] = "use" => got[t] \in Index

(* Requests come from clients, never from the core: they can be answered.  *)
(* The answers come from services and the notifications from the core.     *)
Signed ==
    \A t \in Task : \A k \in Index :
        /\ slot[t][k].kind = "req" => slot[t][k].from \in Client
        /\ slot[t][k].kind = "ack" => slot[t][k].from \in Server

BaseInv == QueueOK /\ TaskOK /\ Header /\ InHand /\ Signed

(* The indexes of a queue are slots, and what waits in it is an arc. *)
LEMMA QueueShape ==
  ASSUME QueueOK, NEW t \in Task
  PROVE  /\ Start(t) \in Index /\ End(t) \in Index
         /\ Ring(t) = Arc(Start(t), End(t))
         /\ Ring(t) \subseteq Index /\ Live(t) \subseteq Ring(t)
         /\ NextSerial(t) \in 1..USHRT_MAX
  BY QueueAssumption DEF QueueOK, Start, End, Ring, Live, Arc, Index, NextSerial

(* The slot a message is written to, and the end after it, are slots. *)
LEMMA PlaceType ==
  ASSUME QueueOK, NEW t \in Task
  PROVE  /\ Place(t) \in Index /\ NextEnd(t) \in Index
         /\ Page(Place(t)) \in Nat
  <1>1. Place(t) \in Index /\ NextEnd(t) \in Index
    BY QueueShape, RingType DEF Place, NextEnd
  <1>2. \A i \in Index : Page(i) \in Nat
    BY QueueAssumption DEF Page, Index
  <1>. QED BY <1>1, <1>2

(* A queue whose header is zero is empty. *)
LEMMA FreshEmpty ==
  ASSUME QueueOK, Header, NEW t \in Task, Ring(t) # {}
  PROVE  /\ mq_start[t] = Start(t) /\ mq_end[t] = End(t)
         /\ mq_start[t] \in Index /\ mq_end[t] \in Index
         /\ mq_start[t] # mq_end[t]
  BY QueueShape, ArcEmpty DEF QueueOK, Header, Start, End, Index

(* Writing a message keeps the types and the header. *)
LEMMA PutKeeps ==
  ASSUME QueueOK, Header, Signed,
         NEW d \in Task, NEW src \in Task \union {Core},
         NEW kind \in {"req", "ack", "irq"}, NEW serial \in Serial,
         kind = "req" => src \in Client, kind = "ack" => src \in Server,
         Put(d, src, kind, serial)
  PROVE  QueueOK' /\ Header' /\ Signed'
  <1>. DEFINE m == [id |-> sent + 1, from |-> src, kind |-> kind, serial |-> serial]
  <1>1. m \in Message
    BY DEF QueueOK, Message
  <1>2. Start(d) \in Index /\ Place(d) \in Index /\ NextEnd(d) \in Index
        /\ Page(Place(d)) \in Nat /\ NextSerial(d) \in 0..USHRT_MAX
    BY QueueShape, PlaceType, QueueAssumption
  <1>3. slot' = [slot EXCEPT ![d][Place(d)] = m]
    BY DEF Put
  <1>4. QueueOK'
    <2>1. slot' \in [Task -> [Index -> Message]]
      BY <1>1, <1>2, <1>3 DEF QueueOK
    <2>2. undelivered' \in [Task -> SUBSET Message]
      BY <1>1 DEF QueueOK, Put
    <2>. QED BY <1>2, <2>1, <2>2 DEF QueueOK, Put, Index
  <1>5. Header'
    BY <1>2 DEF Header, QueueOK, Put, Index
  <1>6. Signed'
    BY <1>1, <1>2, <1>3 DEF Signed, QueueOK
  <1>. QED BY <1>4, <1>5, <1>6

(* A failed send moves the end onto the start, and nothing else. *)
LEMMA FullKeeps ==
  ASSUME BaseInv, NEW src \in Task, NEW dst \in Task, msg_send_full(src, dst)
  PROVE  /\ QueueOK' /\ Header' /\ Signed'
         /\ blksend' \in [Task -> Task \union {None}]
         /\ state' \in [Task -> {"running", "blocked"}]
  <1>1. Start(dst) \in Index /\ Succ(End(dst)) \in Index
    BY QueueShape, RingType DEF BaseInv
  <1>2. QueueOK' /\ Header'
    BY <1>1 DEF BaseInv, QueueOK, Header, msg_send_full, Index
  <1>3. Signed'
    BY DEF BaseInv, Signed, msg_send_full
  <1>. QED BY <1>2, <1>3 DEF BaseInv, TaskOK, msg_send_full, sched_block

(* Waking a sender keeps the types of the chain and of the states. *)
LEMMA WakeKeeps ==
  ASSUME TaskOK, NEW t \in Task, NEW found \in BOOLEAN, WakeSender(t, found)
  PROVE  /\ blksend' \in [Task -> Task \union {None}]
         /\ state' \in [Task -> {"running", "blocked"}]
  BY TaskAssumption DEF TaskOK, WakeSender

(* msg_recv, whatever it finds, keeps the base invariant. *)
LEMMA RecvKeeps ==
  ASSUME BaseInv, NEW t \in Task, msg_recv(t)
  PROVE  BaseInv'
  <1>1. ASSUME NEW k \in Live(t), Received(t, k),
               mq_start' = [mq_start EXCEPT ![t] = Succ(k)] \/ UNCHANGED mq_start,
               mq_end' = [mq_end EXCEPT ![t] = k] \/ UNCHANGED mq_end,
               responsed' = [responsed EXCEPT ![t] = @ \union {k}] \/ UNCHANGED responsed
        PROVE  BaseInv'
    <2>1. k \in Index /\ Succ(k) \in Index /\ Ring(t) # {}
      BY QueueShape, RingType DEF BaseInv
    <2>2. mq_start[t] \in Index /\ mq_end[t] \in Index
      BY <2>1, FreshEmpty DEF BaseInv
    <2>3. slot[t][k] \in Message
      BY <2>1 DEF BaseInv, QueueOK
    <2>4. QueueOK'
      <3>0. k \in 0..(MQ_MAX - 1) /\ Succ(k) \in 0..(MQ_MAX - 1)
        BY <2>1 DEF Index
      <3>1. mq_start' \in [Task -> 0..(MQ_MAX - 1)]
        BY <1>1, <3>0 DEF BaseInv, QueueOK
      <3>4. mq_end' \in [Task -> 0..(MQ_MAX - 1)]
        BY <1>1, <3>0 DEF BaseInv, QueueOK
      <3>2. responsed' \in [Task -> SUBSET Index]
        BY <1>1, <2>1 DEF BaseInv, QueueOK
      <3>3. undelivered' \in [Task -> SUBSET Message]
        BY <1>1 DEF BaseInv, QueueOK, Received
      <3>. QED BY <1>1, <3>1, <3>2, <3>3, <3>4 DEF BaseInv, QueueOK, Received
    <2>7. Header'
      BY <1>1, <2>1, <2>2 DEF BaseInv, QueueOK, Header, Index
    <2>5. TaskOK' /\ InHand'
      <3>1. blksend' \in [Task -> Task \union {None}] /\ state' \in [Task -> {"running", "blocked"}]
        BY <1>1, WakeKeeps DEF BaseInv, Received
      <3>2. /\ pc' = [pc EXCEPT ![t] = "use"] /\ got' = [got EXCEPT ![t] = k]
            /\ copy' = [copy EXCEPT ![t] = slot[t][k]] /\ UNCHANGED <<want, callee>>
        BY <1>1 DEF Received
      <3>3. TaskOK'
        BY <2>1, <2>3, <3>1, <3>2 DEF BaseInv, TaskOK, Index
      <3>4. InHand'
        BY <2>1, <3>2 DEF BaseInv, TaskOK, InHand
      <3>. QED BY <3>3, <3>4
    <2>6. Signed'
      BY <1>1 DEF BaseInv, Signed, Received
    <2>. QED BY <2>4, <2>5, <2>6, <2>7 DEF BaseInv
  <1>2. ASSUME NotReceived(t), mq_start' = [mq_start EXCEPT ![t] = mq_end[t]] \/ UNCHANGED mq_start
        PROVE  BaseInv'
    <2>1. QueueOK' /\ Header'
      BY <1>2 DEF BaseInv, QueueOK, Header, NotReceived
    <2>2. TaskOK' /\ InHand'
      BY <1>2, WakeKeeps DEF BaseInv, TaskOK, InHand, NotReceived, user
    <2>3. Signed'
      BY <1>2 DEF BaseInv, Signed, NotReceived
    <2>. QED BY <2>1, <2>2, <2>3 DEF BaseInv
  <1>3. CASE RecvAny(t)
    BY <1>1, <1>2, <1>3 DEF RecvAny
  <1>4. CASE RecvAnswer(t)
    BY <1>1, <1>2, <1>4 DEF RecvAnswer
  <1>. QED BY <1>3, <1>4 DEF msg_recv

(* The serial a request gets names its sender. *)
LEMMA SerialType ==
  ASSUME QueueOK, NEW s \in Task, NEW p \in Task \union {Core}
  PROVE  [pid |-> p, n |-> NextSerial(s)] \in Serial
  BY QueueShape DEF Serial

(* A send that succeeds keeps the types; the addressee is woken. *)
LEMMA SendKeeps ==
  ASSUME BaseInv, NEW src \in Task, NEW dst \in Task,
         NEW kind \in {"req", "ack", "irq"}, NEW serial \in Serial,
         kind = "req" => src \in Client, kind = "ack" => src \in Server,
         msg_send(src, dst, kind, serial)
  PROVE  /\ QueueOK' /\ Header' /\ Signed'
         /\ blksend' \in [Task -> Task \union {None}]
         /\ state' \in [Task -> {"running", "blocked"}]
  <1>1. QueueOK' /\ Header' /\ Signed'
    BY PutKeeps DEF BaseInv, msg_send
  <1>. QED BY <1>1 DEF BaseInv, TaskOK, msg_send, sched_awake

(* mq_call keeps the base invariant, whether the queue is full or not. *)
LEMMA CallKeeps ==
  ASSUME BaseInv, NEW c \in Client, NEW s \in Server, mq_call(c, s)
  PROVE  BaseInv'
  <1>. DEFINE k == [pid |-> c, n |-> NextSerial(s)]
  <1>1. c \in Task /\ s \in Task /\ k \in Serial
    BY SerialType DEF Task, BaseInv
  <1>2. msg_send(c, s, "req", k) \/ msg_send_full(c, s)
    BY DEF mq_call
  <1>3. /\ QueueOK' /\ Header' /\ Signed'
        /\ blksend' \in [Task -> Task \union {None}]
        /\ state' \in [Task -> {"running", "blocked"}]
    BY <1>1, <1>2, SendKeeps, FullKeeps
  <1>4. pc' = [pc EXCEPT ![c] = "recv"] \/ pc' = [pc EXCEPT ![c] = "callfull"]
    BY DEF mq_call
  <1>5. want' = [want EXCEPT ![c] = k] \/ UNCHANGED want
    BY DEF mq_call
  <1>6. callee' = [callee EXCEPT ![c] = s] /\ UNCHANGED <<got, copy>>
    BY DEF mq_call
  <1>7. TaskOK'
    BY <1>1, <1>3, <1>4, <1>5, <1>6 DEF BaseInv, TaskOK
  <1>8. InHand'
    BY <1>4, <1>6 DEF BaseInv, TaskOK, InHand
  <1>. QED BY <1>3, <1>7, <1>8 DEF BaseInv

(* So does mq_send. *)
LEMMA MqSendKeeps ==
  ASSUME BaseInv, NEW c \in Client, NEW s \in Server, mq_send(c, s)
  PROVE  BaseInv'
  <1>. DEFINE k == [pid |-> c, n |-> NextSerial(s)]
  <1>1. c \in Task /\ s \in Task /\ k \in Serial
    BY SerialType DEF Task, BaseInv
  <1>2. msg_send(c, s, "req", k) \/ msg_send_full(c, s)
    BY DEF mq_send
  <1>3. /\ QueueOK' /\ Header' /\ Signed'
        /\ blksend' \in [Task -> Task \union {None}]
        /\ state' \in [Task -> {"running", "blocked"}]
    BY <1>1, <1>2, SendKeeps, FullKeeps
  <1>4. UNCHANGED pc \/ pc' = [pc EXCEPT ![c] = "sendfull"]
    BY DEF mq_send
  <1>5. UNCHANGED <<want, got, copy, callee>>
    BY DEF mq_send
  <1>6. TaskOK'
    BY <1>1, <1>3, <1>4, <1>5 DEF BaseInv, TaskOK
  <1>7. InHand'
    BY <1>4, <1>5 DEF BaseInv, TaskOK, InHand
  <1>. QED BY <1>3, <1>6, <1>7 DEF BaseInv

(* So does msg_notify, which does not look whether the queue is full. *)
LEMMA NotifyKeeps ==
  ASSUME BaseInv, NEW d \in Task, msg_notify(d)
  PROVE  BaseInv'
  <1>1. [pid |-> Core, n |-> NextSerial(d)] \in Serial
    BY SerialType DEF BaseInv
  <1>2. QueueOK' /\ Header' /\ Signed'
    BY <1>1, PutKeeps DEF BaseInv, msg_notify
  <1>3. TaskOK' /\ InHand'
    BY DEF BaseInv, TaskOK, InHand, msg_notify, sched_awake, user
  <1>. QED BY <1>2, <1>3 DEF BaseInv

(* What a service answers: a request, to the client that sent it. *)
LEMMA AnswerType ==
  ASSUME BaseInv, NEW s \in Server, pc[s] = "use", slot[s][got[s]].kind = "req"
  PROVE  /\ slot[s][got[s]] \in Message
         /\ slot[s][got[s]].from \in Client
         /\ (IF Answer[s] = "serial" THEN slot[s][got[s]].serial
             ELSE [pid |-> s, n |-> NextSerial(slot[s][got[s]].from)]) \in Serial
  <1>1. s \in Task /\ got[s] \in Index
    BY DEF Task, BaseInv, InHand
  <1>2. slot[s][got[s]] \in Message
    BY <1>1 DEF BaseInv, QueueOK
  <1>3. slot[s][got[s]].from \in Client
    BY <1>1 DEF BaseInv, Signed
  <1>4. [pid |-> s, n |-> NextSerial(slot[s][got[s]].from)] \in Serial
    BY <1>1, <1>3, SerialType DEF BaseInv, Task
  <1>5. slot[s][got[s]].serial \in Serial
    BY <1>2 DEF Message
  <1>. QED BY <1>2, <1>3, <1>4, <1>5

(* So does the answer of a service. *)
LEMMA DispatchKeeps ==
  ASSUME BaseInv, NEW s \in Server, Dispatch(s)
  PROVE  BaseInv'
  <1>. DEFINE msg == slot[s][got[s]]
              serial == IF Answer[s] = "serial" THEN msg.serial
                        ELSE [pid |-> s, n |-> NextSerial(msg.from)]
  <1>1. s \in Task /\ pc[s] = "use"
    BY DEF Task, Dispatch
  <1>2. \/ msg.kind = "req" /\ msg_send(s, msg.from, "ack", serial)
        \/ msg.kind = "req" /\ msg_send_full(s, msg.from)
        \/ UNCHANGED <<queue, blksend, state, undelivered, sent>>
    BY DEF Dispatch
  <1>3. msg.kind = "req" => msg.from \in Task /\ serial \in Serial
    BY <1>1, AnswerType DEF Task
  <1>4. /\ QueueOK' /\ Header' /\ Signed'
        /\ blksend' \in [Task -> Task \union {None}]
        /\ state' \in [Task -> {"running", "blocked"}]
    <2>1. CASE msg.kind = "req" /\ msg_send(s, msg.from, "ack", serial)
      BY <1>1, <1>3, <2>1, SendKeeps
    <2>2. CASE msg.kind = "req" /\ msg_send_full(s, msg.from)
      BY <1>1, <1>3, <2>2, FullKeeps
    <2>3. CASE UNCHANGED <<queue, blksend, state, undelivered, sent>>
      BY <2>3 DEF BaseInv, QueueOK, TaskOK, Header, Signed, queue
    <2>. QED BY <1>2, <2>1, <2>2, <2>3
  <1>5. pc' = [pc EXCEPT ![s] = "recv"] \/ pc' = [pc EXCEPT ![s] = "sendfull"]
    BY DEF Dispatch
  <1>6. /\ got' = [got EXCEPT ![s] = 0] /\ copy' = [copy EXCEPT ![s] = Blank]
        /\ UNCHANGED <<want, callee>>
    BY DEF Dispatch
  <1>7. Blank \in Message /\ 0 \in 0..(MQ_MAX - 1)
    BY QueueAssumption DEF Blank, Message, Serial
  <1>8. TaskOK'
    BY <1>1, <1>4, <1>5, <1>6, <1>7 DEF BaseInv, TaskOK
  <1>9. InHand'
    BY <1>1, <1>5, <1>6 DEF BaseInv, TaskOK, InHand
  <1>. QED BY <1>4, <1>8, <1>9 DEF BaseInv

(* The steps of a task outside the core. *)
LEMMA LocalKeeps ==
  ASSUME BaseInv, NEW t \in Task, Resume(t) \/ mq_recv(t) \/ Use(t)
  PROVE  BaseInv'
  <1>1. QueueOK' /\ Header' /\ Signed'
    BY DEF BaseInv, QueueOK, Header, Signed, Resume, mq_recv, Use, queue
  <1>2. Blank \in Message /\ 0 \in 0..(MQ_MAX - 1)
    BY QueueAssumption DEF Blank, Message, Serial
  <1>3. CASE Resume(t)
    BY <1>1, <1>3 DEF BaseInv, TaskOK, InHand, Resume
  <1>4. CASE mq_recv(t)
    BY <1>1, <1>4 DEF BaseInv, TaskOK, InHand, mq_recv
  <1>5. CASE Use(t)
    BY <1>1, <1>2, <1>5 DEF BaseInv, TaskOK, InHand, Use
  <1>. QED BY <1>3, <1>4, <1>5

(* The base invariant holds when the tasks start. *)
LEMMA BaseInit == Init => BaseInv
  BY QueueAssumption, TaskAssumption
  DEF Init, BaseInv, QueueOK, TaskOK, Header, InHand, Signed, Blank, Message, Serial, Index

(* Every step keeps the base invariant. *)
LEMMA BaseStep == BaseInv /\ [Next]_vars => BaseInv'
  <1>. SUFFICES ASSUME BaseInv, [Next]_vars PROVE BaseInv'
    OBVIOUS
  <1>1. ASSUME NEW c \in Client, NEW s \in Server, mq_call(c, s) PROVE BaseInv'
    BY <1>1, CallKeeps
  <1>2. ASSUME NEW c \in Async, NEW s \in Server, mq_send(c, s) PROVE BaseInv'
    BY <1>2, MqSendKeeps, TaskAssumption
  <1>3. ASSUME NEW c \in Async, mq_recv(c) PROVE BaseInv'
    BY <1>3, LocalKeeps, TaskAssumption DEF Task
  <1>4. ASSUME NEW d \in Notified, msg_notify(d) PROVE BaseInv'
    BY <1>4, NotifyKeeps, TaskAssumption
  <1>5. ASSUME NEW t \in Task, Step(t) PROVE BaseInv'
    BY <1>5, RecvKeeps, LocalKeeps, DispatchKeeps DEF Step
  <1>6. CASE UNCHANGED vars
    BY <1>6 DEF vars, BaseInv, QueueOK, TaskOK, Header, InHand, Signed
  <1>. QED BY <1>1, <1>2, <1>3, <1>4, <1>5, <1>6 DEF Next

(* The indexes of every queue stay inside the ring and the serial numbers  *)
(* within 16 bits, also when a queue overflows and when the numbers wrap.  *)
THEOREM TypeCorrect == Spec => []TypeOK
  <1>1. BaseInv => TypeOK
    BY DEF BaseInv, QueueOK, TaskOK, TypeOK
  <1>. QED BY <1>1, BaseInit, BaseStep, PTL DEF Spec
-----------------------------------------------------------------------------
(* No task sleeps on a message. *)

(* What a task that sleeps in msg_recv has in its queue. *)
Asleep(t) == state[t] = "blocked" /\ pc[t] = "recv"
NothingToTake(t) ==
    \A k \in Live(t) : want[t] # AnySerial /\ slot[t][k].serial # want[t]

(* What task t sees in its queue does not depend on the other queues. *)
LEMMA LiveSame ==
  ASSUME NEW t \in Task, mq_start'[t] = mq_start[t], mq_end'[t] = mq_end[t],
         responsed'[t] = responsed[t]
  PROVE  /\ Start(t)' = Start(t) /\ End(t)' = End(t)
         /\ Ring(t)' = Ring(t) /\ Live(t)' = Live(t)
  BY DEF Live, Ring, Start, End

(* A step that leaves a sleeper's queue and state alone leaves it right. *)
LEMMA SleepSame ==
  ASSUME NEW t \in Task, Asleep(t) => NothingToTake(t),
         mq_start'[t] = mq_start[t], mq_end'[t] = mq_end[t], responsed'[t] = responsed[t],
         slot'[t] = slot[t], want'[t] = want[t], pc'[t] = pc[t],
         state'[t] = "blocked" => state[t] = "blocked"
  PROVE  Asleep(t)' => NothingToTake(t)'
  BY LiveSame DEF Asleep, NothingToTake

(* Something is put into the queue of dst and dst is woken. *)
Sends(src, dst) == \E kind, serial : msg_send(src, dst, kind, serial)

(* A send wakes the addressee, or empties its queue. *)
LEMMA SendSleep ==
  ASSUME BaseInv, NoSleepOnMessage, NEW src \in Task, NEW dst \in Task,
         state[src] = "running",
         Sends(src, dst) \/ (msg_send_full(src, dst) /\ pc'[src] # "recv"),
         \A t \in Task \ {src} : pc'[t] = pc[t] /\ want'[t] = want[t]
  PROVE  NoSleepOnMessage'
  <1>. SUFFICES ASSUME NEW t \in Task, Asleep(t)' PROVE NothingToTake(t)'
    BY DEF NoSleepOnMessage, Asleep, NothingToTake
  <1>0. Asleep(t) => NothingToTake(t)
    BY DEF NoSleepOnMessage, Asleep, NothingToTake
  <1>1. ASSUME NEW kind, NEW serial, msg_send(src, dst, kind, serial)
        PROVE  NothingToTake(t)'
    <2>1. t # dst /\ t # src /\ state[t] = "blocked"
      BY <1>1 DEF msg_send, sched_awake, Asleep, BaseInv, TaskOK
    <2>2. /\ mq_start'[t] = mq_start[t] /\ mq_end'[t] = mq_end[t]
          /\ responsed'[t] = responsed[t] /\ slot'[t] = slot[t]
      BY <1>1, <2>1 DEF msg_send, Put, BaseInv, QueueOK
    <2>. QED BY <1>0, <2>1, <2>2, SleepSame
  <1>2. CASE msg_send_full(src, dst) /\ pc'[src] # "recv"
    <2>1. t # src
      BY <1>2 DEF Asleep
    <2>2. state[t] = "blocked"
      BY <1>2, <2>1 DEF msg_send_full, sched_block, Asleep, BaseInv, TaskOK
    <2>3. CASE t # dst
      <3>1. /\ mq_start'[t] = mq_start[t] /\ mq_end'[t] = mq_end[t]
            /\ responsed'[t] = responsed[t] /\ slot'[t] = slot[t]
        BY <1>2, <2>3 DEF msg_send_full, BaseInv, QueueOK
      <3>. QED BY <1>0, <2>1, <2>2, <3>1, SleepSame
    <2>4. CASE t = dst
      <3>1. mq_start'[t] = mq_end'[t] /\ mq_end'[t] \in Index
        BY <1>2, <2>4, QueueShape, RingType DEF msg_send_full, Full, BaseInv, QueueOK
      <3>2. Live(t)' = {}
        BY <3>1, ArcEmpty DEF Live, Ring, Start, End, Arc, Index
      <3>. QED BY <3>2 DEF NothingToTake
    <2>. QED BY <2>3, <2>4
  <1>. QED BY <1>1, <1>2 DEF Sends

(* Before a task sleeps in msg_recv it has looked at all its queue. *)
LEMMA RecvSleep ==
  ASSUME BaseInv, NoSleepOnMessage, NEW r \in Task, msg_recv(r)
  PROVE  NoSleepOnMessage'
  <1>. SUFFICES ASSUME NEW t \in Task, Asleep(t)' PROVE NothingToTake(t)'
    BY DEF NoSleepOnMessage, Asleep, NothingToTake
  <1>0. Asleep(t) => NothingToTake(t)
    BY DEF NoSleepOnMessage, Asleep, NothingToTake
  <1>1. CASE t # r
    <2>1. /\ mq_start'[t] = mq_start[t] /\ mq_end'[t] = mq_end[t]
          /\ responsed'[t] = responsed[t] /\ slot'[t] = slot[t]
      BY <1>1 DEF msg_recv, RecvAny, RecvAnswer, Received, NotReceived, BaseInv, QueueOK
    <2>2. pc'[t] = pc[t] /\ want'[t] = want[t]
      BY <1>1 DEF msg_recv, RecvAny, RecvAnswer, Received, NotReceived, BaseInv, TaskOK, user
    <2>3. \E found \in BOOLEAN : WakeSender(r, found)
      BY DEF msg_recv, RecvAny, RecvAnswer, Received, NotReceived
    <2>4. state'[t] = "blocked" => state[t] = "blocked"
      BY <1>1, <2>3 DEF WakeSender, BaseInv, TaskOK
    <2>. QED BY <1>0, <2>1, <2>2, <2>4, SleepSame
  <1>2. CASE t = r
    <2>1. ASSUME NEW k, Received(r, k) PROVE FALSE
      BY <1>2, <2>1 DEF Received, Asleep, BaseInv, TaskOK
    <2>2. CASE RecvAny(r)
      <3>1. mq_start' = [mq_start EXCEPT ![r] = mq_end[r]] /\ UNCHANGED <<mq_end, responsed>>
        BY <2>1, <2>2 DEF RecvAny, NotReceived
      <3>2. mq_start'[t] = mq_end'[t] /\ mq_end'[t] \in 0..(MQ_MAX - 1)
        BY <1>2, <3>1 DEF BaseInv, QueueOK
      <3>3. Start(t)' = End(t)' /\ End(t)' \in Index
        BY <3>2, RingType DEF Start, End, Index
      <3>4. Live(t)' = {}
        BY <3>3, ArcEmpty DEF Live, Ring, Arc
      <3>. QED BY <3>4 DEF NothingToTake
    <2>3. CASE RecvAnswer(r)
      <3>1. /\ want[r] # AnySerial /\ UNCHANGED <<mq_start, mq_end, responsed, slot, want>>
            /\ \A k \in Live(r) : slot[r][k].serial # want[r]
        BY <2>1, <2>3 DEF RecvAnswer, NotReceived, user
      <3>. QED BY <1>2, <3>1, LiveSame DEF NothingToTake
    <2>. QED BY <2>2, <2>3 DEF msg_recv
  <1>. QED BY <1>1, <1>2

(* Every step keeps the sleepers right. *)
LEMMA SleepStep == BaseInv /\ NoSleepOnMessage /\ [Next]_vars => NoSleepOnMessage'
  <1>. SUFFICES ASSUME BaseInv, NoSleepOnMessage, [Next]_vars PROVE NoSleepOnMessage'
    OBVIOUS
  <1>. USE DEF Task
  <1>1. ASSUME NEW c \in Client, NEW s \in Server, mq_call(c, s) PROVE NoSleepOnMessage'
    <2>1. \A t \in Task \ {c} : pc'[t] = pc[t] /\ want'[t] = want[t]
      BY <1>1 DEF mq_call, BaseInv, TaskOK
    <2>2. Sends(c, s) \/ (msg_send_full(c, s) /\ pc'[c] # "recv")
      BY <1>1 DEF mq_call, Sends, BaseInv, TaskOK
    <2>3. state[c] = "running" /\ c \in Task /\ s \in Task
      BY <1>1 DEF mq_call
    <2>. QED BY <2>1, <2>2, <2>3, SendSleep
  <1>2. ASSUME NEW c \in Async, NEW s \in Server, mq_send(c, s) PROVE NoSleepOnMessage'
    <2>0. c \in Client
      BY TaskAssumption
    <2>1. \A t \in Task \ {c} : pc'[t] = pc[t] /\ want'[t] = want[t]
      BY <1>2 DEF mq_send, BaseInv, TaskOK
    <2>2. Sends(c, s) \/ (msg_send_full(c, s) /\ pc'[c] # "recv")
      BY <1>2, <2>0 DEF mq_send, Sends, BaseInv, TaskOK
    <2>3. state[c] = "running" /\ c \in Task /\ s \in Task
      BY <1>2, <2>0 DEF mq_send
    <2>. QED BY <2>1, <2>2, <2>3, SendSleep
  <1>3. ASSUME NEW c \in Task, mq_recv(c) \/ Resume(c) \/ Use(c) PROVE NoSleepOnMessage'
    <2>. SUFFICES ASSUME NEW t \in Task, Asleep(t)' PROVE NothingToTake(t)'
      BY DEF NoSleepOnMessage, Asleep, NothingToTake
    <2>1. Asleep(t) => NothingToTake(t)
      BY DEF NoSleepOnMessage, Asleep, NothingToTake
    <2>2. t # c /\ UNCHANGED <<queue, state>>
      BY <1>3 DEF mq_recv, Resume, Use, Asleep
    <2>3. pc'[t] = pc[t] /\ want'[t] = want[t]
      BY <1>3, <2>2 DEF mq_recv, Resume, Use, BaseInv, TaskOK
    <2>. QED BY <2>1, <2>2, <2>3, SleepSame DEF queue
  <1>4. ASSUME NEW d \in Notified, msg_notify(d) PROVE NoSleepOnMessage'
    <2>. SUFFICES ASSUME NEW t \in Task, Asleep(t)' PROVE NothingToTake(t)'
      BY DEF NoSleepOnMessage, Asleep, NothingToTake
    <2>1. Asleep(t) => NothingToTake(t)
      BY DEF NoSleepOnMessage, Asleep, NothingToTake
    <2>2. t # d /\ state[t] = "blocked"
      BY <1>4 DEF msg_notify, sched_awake, Asleep, BaseInv, TaskOK
    <2>3. /\ mq_start'[t] = mq_start[t] /\ mq_end'[t] = mq_end[t]
          /\ responsed'[t] = responsed[t] /\ slot'[t] = slot[t]
      BY <1>4, <2>2 DEF msg_notify, Put, BaseInv, QueueOK
    <2>. QED BY <1>4, <2>1, <2>2, <2>3, SleepSame DEF msg_notify, user
  <1>5. ASSUME NEW s \in Server, Dispatch(s) PROVE NoSleepOnMessage'
    <2>. DEFINE msg == slot[s][got[s]]
    <2>1. \A t \in Task \ {s} : pc'[t] = pc[t] /\ want'[t] = want[t]
      BY <1>5 DEF Dispatch, BaseInv, TaskOK
    <2>2. \/ msg.kind = "req" /\ (Sends(s, msg.from) \/ (msg_send_full(s, msg.from) /\ pc'[s] # "recv"))
          \/ UNCHANGED <<queue, blksend, state, undelivered, sent>>
      BY <1>5 DEF Dispatch, Sends, BaseInv, TaskOK
    <2>3. state[s] = "running" /\ pc[s] = "use"
      BY <1>5 DEF Dispatch
    <2>4. CASE msg.kind = "req" /\ (Sends(s, msg.from) \/ (msg_send_full(s, msg.from) /\ pc'[s] # "recv"))
      <3>1. msg.from \in Task
        BY <2>3, <2>4, AnswerType
      <3>. QED BY <2>1, <2>3, <2>4, <3>1, SendSleep
    <2>5. CASE UNCHANGED <<queue, blksend, state, undelivered, sent>>
      <3>. SUFFICES ASSUME NEW t \in Task, Asleep(t)' PROVE NothingToTake(t)'
        BY DEF NoSleepOnMessage, Asleep, NothingToTake
      <3>1. Asleep(t) => NothingToTake(t)
        BY DEF NoSleepOnMessage, Asleep, NothingToTake
      <3>2. t # s
        BY <2>3, <2>5 DEF Asleep
      <3>. QED BY <2>1, <2>5, <3>1, <3>2, SleepSame DEF queue
    <2>. QED BY <2>2, <2>4, <2>5
  <1>6. CASE UNCHANGED vars
    BY <1>6, LiveSame DEF vars, NoSleepOnMessage
  <1>. QED BY <1>1, <1>2, <1>3, <1>4, <1>5, <1>6, RecvSleep, TaskAssumption DEF Next, Step

(* msg_recv and the senders never miss each other: a task that sleeps in   *)
(* msg_recv has nothing in its queue that it would take, whether queues    *)
(* overflow or not and whoever else sends, notifies or wakes.              *)
THEOREM NoMissedWakeup == Spec => []NoSleepOnMessage
  <1>1. Init => NoSleepOnMessage
    BY DEF Init, NoSleepOnMessage
  <1>. QED BY <1>1, BaseInit, BaseStep, SleepStep, PTL DEF Spec
-----------------------------------------------------------------------------
(* The contents of a queue, as long as no queue is full and none is        *)
(* rewound: the code loses messages in both cases.                         *)
Room == \A t \in Task : ~Full(t) /\ ~Rewind(t)

(* The messages are numbered in the order of sending, and what waits in a  *)
(* queue is in that order.                                                 *)
Numbered == \A t \in Task : \A k \in Index : slot[t][k].id <= sent
Sorted ==
    \A t \in Task : \A k, l \in Ring(t) :
        Dist(Start(t), k) < Dist(Start(t), l) => slot[t][k].id < slot[t][l].id

QueueInv == NothingLost /\ Numbered /\ Sorted

(* The queue of d is the old one with message m at the end. *)
Appended(d, m) ==
    /\ Start(d)' = Start(d)
    /\ Ring(d)' = Ring(d) \union {End(d)} /\ End(d) \notin Ring(d)
    /\ Live(d)' = Live(d) \union {End(d)}
    /\ \A k \in Ring(d) : Dist(Start(d), k) < Dist(Start(d), End(d))
    /\ slot' = [slot EXCEPT ![d][End(d)] = m]

(* The queue of t is the old one without the message in slot k. *)
Taken(t, k) ==
    /\ k \in Live(t)
    /\ Ring(t)' \subseteq Ring(t)
    /\ Live(t)' = Live(t) \ {k}
    /\ \A l, m \in Ring(t)' :
           Dist(Start(t)', l) < Dist(Start(t)', m) => Dist(Start(t), l) < Dist(Start(t), m)

(* What a write does to the queues. *)
LEMMA PutEffect ==
  ASSUME QueueOK, NEW d \in Task, ~Full(d), ~Rewind(d), NEW src, NEW kind, NEW serial,
         Put(d, src, kind, serial)
  PROVE  /\ Appended(d, [id |-> sent + 1, from |-> src, kind |-> kind, serial |-> serial])
         /\ \A t \in Task \ {d} : /\ mq_start'[t] = mq_start[t] /\ mq_end'[t] = mq_end[t]
                                  /\ responsed'[t] = responsed[t] /\ slot'[t] = slot[t]
                                  /\ undelivered'[t] = undelivered[t]
  <1>. DEFINE m == [id |-> sent + 1, from |-> src, kind |-> kind, serial |-> serial]
              a == Start(d)
              b == End(d)
  <1>1. a \in Index /\ b \in Index /\ Succ(b) \in Index /\ Succ(b) # a
    BY QueueShape, RingType DEF Full
  <1>2. Place(d) = b /\ NextEnd(d) = Succ(b)
    BY DEF Place, NextEnd
  <1>3. mq_start'[d] = a /\ mq_end'[d] = Succ(b) /\ responsed'[d] = responsed[d] \ {b}
    BY <1>2 DEF Put, QueueOK
  <1>4. Start(d)' = a /\ End(d)' = Succ(b)
    BY <1>1, <1>3 DEF Start, End, Index
  <1>5. Ring(d)' = Arc(a, Succ(b)) /\ Ring(d) = Arc(a, b)
    BY <1>4 DEF Ring, Arc
  <1>6. /\ Arc(a, Succ(b)) = Arc(a, b) \union {b}
        /\ b \notin Arc(a, b)
        /\ \A k \in Arc(a, b) : Dist(a, k) < Dist(a, b)
    BY <1>1, ArcAppend
  <1>7. Live(d)' = Live(d) \union {b}
    BY <1>3, <1>5, <1>6 DEF Live
  <1>8. slot' = [slot EXCEPT ![d][b] = m]
    BY <1>2 DEF Put
  <1>9. \A t \in Task \ {d} : /\ mq_start'[t] = mq_start[t] /\ mq_end'[t] = mq_end[t]
                              /\ responsed'[t] = responsed[t] /\ slot'[t] = slot[t]
                              /\ undelivered'[t] = undelivered[t]
    BY DEF Put, QueueOK
  <1>. QED BY <1>4, <1>5, <1>6, <1>7, <1>8, <1>9 DEF Appended

(* What msg_recv does to the queues: it takes one message, the first, or   *)
(* the last with the serial; or there is none to take.                     *)
LEMMA RecvEffect ==
  ASSUME BaseInv, NEW t \in Task, msg_recv(t)
  PROVE  /\ \A u \in Task \ {t} : /\ mq_start'[u] = mq_start[u] /\ mq_end'[u] = mq_end[u]
                                  /\ responsed'[u] = responsed[u]
                                  /\ undelivered'[u] = undelivered[u]
         /\ UNCHANGED <<slot, sent, want>>
         /\ \/ \E k \in Live(t) :
                 /\ Taken(t, k)
                 /\ undelivered' = [undelivered EXCEPT ![t] = @ \ {slot[t][k]}]
                 /\ \/ /\ want[t] = AnySerial
                       /\ \A l \in Live(t) : Dist(Start(t), k) <= Dist(Start(t), l)
                    \/ /\ slot[t][k].serial = want[t]
                       /\ \A l \in Live(t) : slot[t][l].serial = want[t] =>
                                Dist(Start(t), l) <= Dist(Start(t), k)
            \/ Ring(t)' \subseteq Ring(t) /\ Live(t)' = Live(t) /\ UNCHANGED undelivered
               /\ (Ring(t)' = {} \/ Start(t)' = Start(t))
  <1>1. \A u \in Task \ {t} : /\ mq_start'[u] = mq_start[u] /\ mq_end'[u] = mq_end[u]
                              /\ responsed'[u] = responsed[u]
                              /\ undelivered'[u] = undelivered[u]
    BY DEF msg_recv, RecvAny, RecvAnswer, Received, NotReceived, BaseInv, QueueOK
  <1>2. UNCHANGED <<slot, sent, want>>
    BY DEF msg_recv, RecvAny, RecvAnswer, Received, NotReceived, user
  <1>. DEFINE a == Start(t)
              b == End(t)
  <1>3. a \in Index /\ b \in Index /\ Ring(t) = Arc(a, b) /\ Live(t) \subseteq Arc(a, b)
        /\ Arc(a, b) \subseteq Index
    BY QueueShape DEF BaseInv
  <1>4. ASSUME NEW k \in Live(t),
               \A l \in Live(t) : Dist(a, k) <= Dist(a, l),
               mq_start' = [mq_start EXCEPT ![t] = Succ(k)],
               UNCHANGED <<mq_end, responsed>>
        PROVE  Taken(t, k)
    <2>1. Start(t)' = Succ(k) /\ End(t)' = b
      BY <1>3, <1>4, RingType DEF Start, End, BaseInv, QueueOK, Index
    <2>2. Ring(t)' = {l \in Arc(a, b) : Dist(a, k) < Dist(a, l)}
      BY <1>3, <2>1, ArcAdvance DEF Ring, Arc
    <2>3. \A l, m \in Ring(t)' : Dist(Succ(k), l) < Dist(Succ(k), m) <=> Dist(a, l) < Dist(a, m)
      BY <1>3, <2>1, ArcAdvance DEF Ring, Arc
    <2>4. responsed'[t] = responsed[t]
      BY <1>4
    <2>5. Live(t)' = Live(t) \ {k}
      <3>1. \A l \in Live(t) : l # k => Dist(a, k) < Dist(a, l)
        <4>. TAKE l \in Live(t)
        <4>1. /\ k \in Index /\ l \in Index /\ Dist(a, k) <= Dist(a, l)
              /\ Dist(a, k) \in 0..(MQ_MAX - 2) /\ Dist(a, l) \in 0..(MQ_MAX - 2)
          BY <1>3, <1>4, RingType
        <4>2. l # k => Dist(a, k) # Dist(a, l)
          BY <1>3, <4>1, RingType
        <4>. QED BY <4>1, <4>2, QueueAssumption
      <3>2. ~(Dist(a, k) < Dist(a, k))
        BY <1>3, RingType
      <3>. QED BY <1>3, <2>2, <2>4, <3>1, <3>2 DEF Live
    <2>. QED BY <1>3, <2>1, <2>2, <2>3, <2>5 DEF Taken
  <1>5. ASSUME NEW k \in Live(t), k = Pred(mq_end[t]),
               mq_end' = [mq_end EXCEPT ![t] = k], UNCHANGED <<mq_start, responsed>>
        PROVE  Taken(t, k)
    <2>1. mq_start[t] = a /\ mq_end[t] = b /\ a # b
      BY <1>3, FreshEmpty DEF BaseInv
    <2>2. Start(t)' = a /\ End(t)' = k
      BY <1>3, <1>5, <2>1 DEF Start, End, BaseInv, QueueOK, Index
    <2>3. Ring(t)' = Ring(t) \ {k}
      BY <1>3, <1>5, <2>1, <2>2, ArcCut DEF Ring, Arc
    <2>4. Live(t)' = Live(t) \ {k}
      BY <1>5, <2>3 DEF Live
    <2>. QED BY <2>2, <2>3, <2>4 DEF Taken
  <1>6. ASSUME NEW k \in Live(t), responsed' = [responsed EXCEPT ![t] = @ \union {k}],
               UNCHANGED <<mq_start, mq_end>>
        PROVE  Taken(t, k)
    <2>1. Start(t)' = a /\ End(t)' = b /\ Ring(t)' = Ring(t)
      BY <1>6 DEF Start, End, Ring
    <2>2. Live(t)' = Live(t) \ {k}
      BY <1>6, <2>1 DEF Live, BaseInv, QueueOK
    <2>. QED BY <2>1, <2>2 DEF Taken
  <1>7. CASE RecvAny(t)
    <2>1. CASE Live(t) = {} /\ mq_start' = [mq_start EXCEPT ![t] = mq_end[t]] /\ NotReceived(t)
      <3>1. mq_start'[t] = mq_end'[t] /\ mq_end'[t] \in 0..(MQ_MAX - 1)
        BY <2>1 DEF NotReceived, BaseInv, QueueOK
      <3>2. Start(t)' = End(t)' /\ End(t)' \in Index
        BY <3>1, RingType DEF Start, End, Index
      <3>3. Ring(t)' = {} /\ Live(t)' = {}
        BY <3>2, ArcEmpty DEF Live, Ring, Arc
      <3>. QED BY <1>1, <1>2, <2>1, <3>3 DEF NotReceived
    <2>2. ASSUME NEW k \in Live(t), \A l \in Live(t) : Dist(a, k) <= Dist(a, l),
                 mq_start' = [mq_start EXCEPT ![t] = Succ(k)],
                 UNCHANGED <<mq_end, responsed>>, Received(t, k)
          PROVE  /\ Taken(t, k) /\ want[t] = AnySerial
                 /\ undelivered' = [undelivered EXCEPT ![t] = @ \ {slot[t][k]}]
      BY <1>4, <1>7, <2>2 DEF RecvAny, Received
    <2>. QED BY <1>1, <1>2, <1>7, <2>1, <2>2 DEF RecvAny
  <1>8. CASE RecvAnswer(t)
    <2>1. CASE NotReceived(t) /\ UNCHANGED mq_start
      <3>1. Start(t)' = Start(t) /\ Ring(t)' = Ring(t) /\ Live(t)' = Live(t)
        BY <2>1, LiveSame DEF NotReceived
      <3>. QED BY <1>1, <1>2, <2>1, <3>1 DEF NotReceived
    <2>2. ASSUME NEW k \in Live(t), slot[t][k].serial = want[t],
                 \A l \in Live(t) : slot[t][l].serial = want[t] => Dist(a, l) <= Dist(a, k),
                 \/ k = Pred(mq_end[t]) /\ mq_end' = [mq_end EXCEPT ![t] = k] /\ UNCHANGED responsed
                 \/ responsed' = [responsed EXCEPT ![t] = @ \union {k}] /\ UNCHANGED mq_end,
                 UNCHANGED mq_start, Received(t, k)
          PROVE  /\ Taken(t, k)
                 /\ undelivered' = [undelivered EXCEPT ![t] = @ \ {slot[t][k]}]
      BY <1>5, <1>6, <2>2 DEF Received
    <2>. QED BY <1>1, <1>2, <1>8, <2>1, <2>2 DEF RecvAnswer
  <1>. QED BY <1>7, <1>8 DEF msg_recv

(* A queue whose header and slots do not change holds the same messages. *)
LEMMA QueueSame ==
  ASSUME NEW t \in Task, mq_start'[t] = mq_start[t], mq_end'[t] = mq_end[t],
         responsed'[t] = responsed[t], slot'[t] = slot[t]
  PROVE  /\ Waiting(t)' = Waiting(t)
         /\ Start(t)' = Start(t) /\ Ring(t)' = Ring(t) /\ Live(t)' = Live(t)
  BY LiveSame DEF Waiting

(* Writing a message adds it to what waits for d, and to nothing else. *)
LEMMA PutInv ==
  ASSUME BaseInv, QueueInv, Room, NEW d \in Task, NEW src, NEW kind, NEW serial,
         Put(d, src, kind, serial)
  PROVE  /\ QueueInv'
         /\ \A t \in Task \ {d} : Waiting(t)' = Waiting(t)
         /\ Waiting(d)' = Waiting(d) \union
               {[id |-> sent + 1, from |-> src, kind |-> kind, serial |-> serial]}
  <1>. DEFINE m == [id |-> sent + 1, from |-> src, kind |-> kind, serial |-> serial]
  <1>1. Appended(d, m)
    BY PutEffect DEF BaseInv, Room
  <1>2. \A t \in Task \ {d} : /\ mq_start'[t] = mq_start[t] /\ mq_end'[t] = mq_end[t]
                              /\ responsed'[t] = responsed[t] /\ slot'[t] = slot[t]
                              /\ undelivered'[t] = undelivered[t]
    BY PutEffect DEF BaseInv, Room
  <1>3. End(d) \in Index /\ Ring(d) \subseteq Index /\ Live(d) \subseteq Ring(d)
    BY QueueShape DEF BaseInv
  <1>4. /\ slot'[d][End(d)] = m
        /\ \A k \in Index \ {End(d)} : slot'[d][k] = slot[d][k]
    BY <1>1, <1>3 DEF Appended, BaseInv, QueueOK
  <1>5. Waiting(d)' = Waiting(d) \union {m}
    BY <1>1, <1>3, <1>4 DEF Waiting, Appended
  <1>6. \A t \in Task \ {d} : Waiting(t)' = Waiting(t)
    BY <1>2, QueueSame
  <1>7. undelivered'[d] = undelivered[d] \union {m} /\ sent' = sent + 1 /\ sent \in Nat
    BY DEF Put, BaseInv, QueueOK
  <1>8. NothingLost'
    BY <1>2, <1>5, <1>6, <1>7 DEF QueueInv, NothingLost
  <1>9. Numbered'
    <2>. SUFFICES ASSUME NEW t \in Task, NEW k \in Index PROVE slot'[t][k].id <= sent'
      BY DEF Numbered
    <2>1. slot[t][k].id <= sent /\ slot[t][k].id \in Nat
      BY DEF QueueInv, Numbered, BaseInv, QueueOK, Message
    <2>2. slot'[t][k] = slot[t][k] \/ slot'[t][k] = m
      BY <1>2, <1>4
    <2>. QED BY <1>7, <2>1, <2>2
  <1>10. Sorted'
    <2>. SUFFICES ASSUME NEW t \in Task, NEW k \in Ring(t)', NEW l \in Ring(t)',
                         Dist(Start(t)', k) < Dist(Start(t)', l)
                  PROVE  slot'[t][k].id < slot'[t][l].id
      BY DEF Sorted, Dist
    <2>1. CASE t # d
      BY <1>2, <2>1, QueueSame DEF QueueInv, Sorted
    <2>2. CASE t = d
      <3>1. Start(d)' = Start(d) /\ k \in Ring(d) \union {End(d)} /\ l \in Ring(d) \union {End(d)}
        BY <1>1, <2>2 DEF Appended
      <3>2. CASE k \in Ring(d) /\ l \in Ring(d)
        <4>1. k # End(d) /\ l # End(d)
          BY <1>1, <3>2 DEF Appended
        <4>. QED BY <1>3, <1>4, <2>2, <3>1, <3>2, <4>1 DEF QueueInv, Sorted
      <3>3. CASE k \in Ring(d) /\ l = End(d)
        <4>1. k # End(d)
          BY <1>1, <3>3 DEF Appended
        <4>2. slot'[d][k].id <= sent /\ slot'[d][k].id \in Nat
          BY <1>3, <1>4, <3>3, <4>1 DEF QueueInv, Numbered, BaseInv, QueueOK, Message
        <4>. QED BY <1>4, <1>7, <2>2, <3>3, <4>2
      <3>4. CASE k = End(d)
        <4>1. \A i \in Index : Dist(Start(d), i) \in Nat
          BY QueueShape, RingType DEF BaseInv
        <4>2. l = End(d) \/ Dist(Start(d), l) < Dist(Start(d), k)
          BY <1>1, <3>1, <3>4 DEF Appended
        <4>. QED BY <1>3, <2>2, <3>1, <3>4, <4>1, <4>2
      <3>. QED BY <3>1, <3>2, <3>3, <3>4
    <2>. QED BY <2>1, <2>2
  <1>. QED BY <1>5, <1>6, <1>8, <1>9, <1>10 DEF QueueInv

(* No two messages of a queue have the same number. *)
LEMMA Distinct ==
  ASSUME BaseInv, QueueInv, NEW t \in Task, NEW k \in Ring(t), NEW l \in Ring(t), k # l
  PROVE  slot[t][k].id # slot[t][l].id
  <1>1. k \in Index /\ l \in Index /\ Start(t) \in Index
    BY QueueShape DEF BaseInv
  <1>2. Dist(Start(t), k) \in Nat /\ Dist(Start(t), l) \in Nat /\ Dist(Start(t), k) # Dist(Start(t), l)
    BY <1>1, RingType
  <1>3. slot[t][k].id \in Nat /\ slot[t][l].id \in Nat
    BY <1>1 DEF BaseInv, QueueOK, Message
  <1>4. \/ slot[t][k].id < slot[t][l].id
        \/ slot[t][l].id < slot[t][k].id
    BY <1>2 DEF QueueInv, Sorted
  <1>. QED BY <1>3, <1>4

(* Taking a message removes it from what waits for t, and nothing else. *)
LEMMA TakenInv ==
  ASSUME BaseInv, QueueInv, NEW t \in Task, NEW k \in Live(t), Taken(t, k), UNCHANGED slot
  PROVE  /\ Waiting(t)' = Waiting(t) \ {slot[t][k]}
         /\ \A i, j \in Ring(t)' : Dist(Start(t)', i) < Dist(Start(t)', j) =>
                slot'[t][i].id < slot'[t][j].id
  <1>1. \A l \in Live(t) \ {k} : slot[t][l] # slot[t][k]
    BY Distinct, QueueShape DEF BaseInv
  <1>2. Waiting(t)' = Waiting(t) \ {slot[t][k]}
    BY <1>1 DEF Waiting, Taken
  <1>. QED BY <1>2 DEF Taken, QueueInv, Sorted

(* msg_recv keeps the queues in order. *)
LEMMA RecvInv ==
  ASSUME BaseInv, QueueInv, NEW t \in Task, msg_recv(t)
  PROVE  /\ QueueInv'
         /\ \A u \in Task \ {t} : Waiting(u)' = Waiting(u)
         /\ \/ Waiting(t)' = Waiting(t)
            \/ \E k \in Live(t) :
                 /\ Waiting(t)' = Waiting(t) \ {slot[t][k]}
                 /\ \/ /\ want[t] = AnySerial
                       /\ \A l \in Live(t) : Dist(Start(t), k) <= Dist(Start(t), l)
                    \/ /\ slot[t][k].serial = want[t]
                       /\ \A l \in Live(t) : slot[t][l].serial = want[t] =>
                                Dist(Start(t), l) <= Dist(Start(t), k)
  <1>1. /\ \A u \in Task \ {t} : /\ mq_start'[u] = mq_start[u] /\ mq_end'[u] = mq_end[u]
                                 /\ responsed'[u] = responsed[u]
                                 /\ undelivered'[u] = undelivered[u]
        /\ UNCHANGED <<slot, sent, want>>
    BY RecvEffect
  <1>2. \A u \in Task \ {t} : /\ Waiting(u)' = Waiting(u) /\ Start(u)' = Start(u)
                              /\ Ring(u)' = Ring(u)
    BY <1>1, QueueSame
  <1>3. Numbered'
    BY <1>1 DEF QueueInv, Numbered
  <1>4. ASSUME NEW k \in Live(t), Taken(t, k),
               undelivered' = [undelivered EXCEPT ![t] = @ \ {slot[t][k]}]
        PROVE  QueueInv' /\ Waiting(t)' = Waiting(t) \ {slot[t][k]}
    <2>1. Waiting(t)' = Waiting(t) \ {slot[t][k]}
      BY <1>1, <1>4, TakenInv
    <2>2. \A i, j \in Ring(t)' : Dist(Start(t)', i) < Dist(Start(t)', j) =>
                slot'[t][i].id < slot'[t][j].id
      BY <1>1, <1>4, TakenInv
    <2>3. undelivered'[t] = undelivered[t] \ {slot[t][k]}
      BY <1>4 DEF BaseInv, QueueOK
    <2>4. NothingLost'
      BY <1>1, <1>2, <2>1, <2>3 DEF QueueInv, NothingLost
    <2>5. Sorted'
      BY <1>1, <1>2, <2>2 DEF QueueInv, Sorted, Dist
    <2>. QED BY <1>3, <2>1, <2>4, <2>5 DEF QueueInv
  <1>5. ASSUME Ring(t)' \subseteq Ring(t), Live(t)' = Live(t), UNCHANGED undelivered,
               Ring(t)' = {} \/ Start(t)' = Start(t)
        PROVE  QueueInv' /\ Waiting(t)' = Waiting(t)
    <2>1. Waiting(t)' = Waiting(t)
      BY <1>1, <1>5 DEF Waiting
    <2>2. NothingLost'
      BY <1>2, <1>5, <2>1 DEF QueueInv, NothingLost
    <2>3. Sorted'
      BY <1>1, <1>2, <1>5 DEF QueueInv, Sorted, Dist
    <2>. QED BY <1>3, <2>1, <2>2, <2>3 DEF QueueInv
  <1>. QED BY <1>2, <1>4, <1>5, RecvEffect

(* As long as there is room, a step writes one message to one queue, or is *)
(* a msg_recv, or leaves the queues alone.                                 *)
Writes == \E d \in Task : \E src, kind, serial : Put(d, src, kind, serial)
Still == UNCHANGED <<mq_start, mq_end, slot, responsed, undelivered, sent>>

(* These are all the cases: a send to a full queue is not among them. *)
LEMMA StepCases ==
  ASSUME BaseInv, Room, [Next]_vars
  PROVE  Writes \/ (\E t \in Task : msg_recv(t)) \/ Still
  <1>. USE DEF Task
  <1>0. \A src, dst \in Task : ~msg_send_full(src, dst)
    BY DEF Room, msg_send_full
  <1>1. ASSUME NEW c \in Client, NEW s \in Server, mq_call(c, s) PROVE Writes
    BY <1>0, <1>1 DEF mq_call, msg_send, Writes
  <1>2. ASSUME NEW c \in Async, NEW s \in Server, mq_send(c, s) PROVE Writes
    BY <1>0, <1>2, TaskAssumption DEF mq_send, msg_send, Writes
  <1>3. ASSUME NEW c \in Task, mq_recv(c) \/ Resume(c) \/ Use(c) PROVE Still
    BY <1>3 DEF mq_recv, Resume, Use, Still, queue
  <1>4. ASSUME NEW d \in Notified, msg_notify(d) PROVE Writes
    BY <1>4, TaskAssumption DEF msg_notify, Writes
  <1>5. ASSUME NEW s \in Server, Dispatch(s) PROVE Writes \/ Still
    <2>1. CASE slot[s][got[s]].kind = "req"
      <3>1. slot[s][got[s]].from \in Task
        BY <1>5, <2>1, AnswerType DEF Dispatch
      <3>. QED BY <1>0, <1>5, <3>1 DEF Dispatch, msg_send, Writes, Still, queue
    <2>2. CASE slot[s][got[s]].kind # "req"
      BY <1>5, <2>2 DEF Dispatch, Still, queue
    <2>. QED BY <2>1, <2>2
  <1>6. CASE UNCHANGED vars
    BY <1>6 DEF vars, Still
  <1>. QED BY <1>1, <1>2, <1>3, <1>4, <1>5, <1>6, TaskAssumption DEF Next, Step

(* Queues that are left alone hold the same messages in the same order. *)
LEMMA StillSame ==
  ASSUME QueueInv, Still
  PROVE  /\ QueueInv'
         /\ \A t \in Task : Waiting(t)' = Waiting(t)
  <1>1. \A t \in Task : /\ Waiting(t)' = Waiting(t) /\ Start(t)' = Start(t)
                        /\ Ring(t)' = Ring(t)
    BY QueueSame DEF Still
  <1>2. NothingLost'
    BY <1>1 DEF Still, QueueInv, NothingLost
  <1>3. Numbered' /\ Sorted'
    BY <1>1 DEF Still, QueueInv, Numbered, Sorted, Dist
  <1>. QED BY <1>1, <1>2, <1>3 DEF QueueInv

(* The queues are empty at the start. *)
LEMMA QueueInit == Init => QueueInv
  <1>. SUFFICES ASSUME Init PROVE QueueInv
    OBVIOUS
  <1>1. \A t \in Task : Start(t) = End(t) /\ End(t) \in Index
    BY RingType DEF Init, Start, End
  <1>2. \A t \in Task : Ring(t) = {} /\ Live(t) = {}
    BY <1>1, ArcEmpty DEF Live, Ring, Arc
  <1>3. NothingLost
    BY <1>2 DEF Init, NothingLost, Waiting
  <1>4. Numbered
    BY DEF Init, Numbered, Blank
  <1>. QED BY <1>2, <1>3, <1>4 DEF QueueInv, Sorted

(* Every step keeps the queues in order while there is room. *)
LEMMA QueueStep ==
  ASSUME BaseInv, Room, QueueInv, [Next]_vars
  PROVE  QueueInv'
  BY StepCases, PutInv, RecvInv, StillSame DEF Writes

(* The queues lose, duplicate and invent nothing, for any length of the    *)
(* ring, any interleaving of senders, receivers and notifications, and     *)
(* answers taken from anywhere in the ring, as long as there is room.      *)
THEOREM QueuesKeepMessages == Spec /\ []Room => []NothingLost
  <1>1. QueueInv => NothingLost
    BY DEF QueueInv
  <1>2. Init => BaseInv /\ QueueInv
    BY BaseInit, QueueInit
  <1>3. BaseInv /\ QueueInv /\ Room /\ [Next]_vars => BaseInv' /\ QueueInv'
    BY BaseStep, QueueStep
  <1>. QED BY <1>1, <1>2, <1>3, PTL DEF Spec

-----------------------------------------------------------------------------
(* The queues implement the mailboxes. *)

(* What waits first in the ring has waited longest. *)
LEMMA FirstIsOldest ==
  ASSUME BaseInv, QueueInv, NEW t \in Task, NEW k \in Live(t), NEW l \in Live(t),
         Dist(Start(t), k) <= Dist(Start(t), l)
  PROVE  slot[t][k].id <= slot[t][l].id
  <1>1. k \in Ring(t) /\ l \in Ring(t) /\ k \in Index /\ l \in Index /\ Start(t) \in Index
    BY QueueShape DEF BaseInv
  <1>2. Dist(Start(t), k) \in Nat /\ Dist(Start(t), l) \in Nat
    BY <1>1, RingType
  <1>3. slot[t][k].id \in Nat /\ slot[t][l].id \in Nat
    BY <1>1 DEF BaseInv, QueueOK, Message
  <1>4. CASE k = l
    BY <1>3, <1>4
  <1>5. CASE k # l
    <2>0. Dist(Start(t), k) # Dist(Start(t), l)
      BY <1>1, <1>5, RingType
    <2>1. Dist(Start(t), k) < Dist(Start(t), l)
      BY <1>2, <2>0
    <2>. QED BY <1>1, <1>3, <2>1 DEF QueueInv, Sorted
  <1>. QED BY <1>4, <1>5

Contents == [t \in Task |-> Waiting(t)]

(* The empty queues are empty mailboxes. *)
LEMMA BoxesInit == Init => Boxes!Init
  <1>. SUFFICES ASSUME Init PROVE Boxes!Init
    OBVIOUS
  <1>1. \A t \in Task : Waiting(t) = {}
    BY QueueInit DEF QueueInv, NothingLost, Init
  <1>. QED BY <1>1 DEF Init, Boxes!Init

(* Every step of the queues is a step of the mailboxes, or none. *)
LEMMA BoxesStep ==
  ASSUME BaseInv, Room, QueueInv, [Next]_vars
  PROVE  [Boxes!Next]_(Boxes!vars)
  <1>1. ASSUME NEW d \in Task, NEW src, NEW kind, NEW serial, Put(d, src, kind, serial)
        PROVE  Boxes!Send(d)
    <2>. DEFINE m == [id |-> sent + 1, from |-> src, kind |-> kind, serial |-> serial]
    <2>1. /\ \A t \in Task \ {d} : Waiting(t)' = Waiting(t)
          /\ Waiting(d)' = Waiting(d) \union {m}
      BY <1>1, PutInv
    <2>2. Contents' = [Contents EXCEPT ![d] = @ \union {m}]
      BY <2>1 DEF Contents
    <2>3. m \in Contents'[d] /\ m.id = sent + 1
      BY <2>1 DEF Contents
    <2>4. sent' = sent + 1
      BY <1>1 DEF Put
    <2>. QED BY <2>2, <2>3, <2>4 DEF Boxes!Send, Contents
  <1>2. ASSUME NEW t \in Task, msg_recv(t)
        PROVE  Boxes!Ask \/ Boxes!TakeFirst(t) \/ Boxes!TakeAnswer(t)
    <2>1. /\ \A u \in Task \ {t} : Waiting(u)' = Waiting(u)
          /\ UNCHANGED <<slot, sent, want>>
      BY <1>2, RecvInv, RecvEffect
    <2>2. CASE Waiting(t)' = Waiting(t)
      <3>1. Contents' = Contents
        BY <2>1, <2>2 DEF Contents
      <3>. QED BY <2>1, <3>1 DEF Boxes!Ask, Contents
    <2>3. ASSUME NEW k \in Live(t), Waiting(t)' = Waiting(t) \ {slot[t][k]},
                 want[t] = AnySerial,
                 \A l \in Live(t) : Dist(Start(t), k) <= Dist(Start(t), l)
          PROVE  Boxes!TakeFirst(t)
      <3>1. Contents' = [Contents EXCEPT ![t] = @ \ {slot[t][k]}]
        BY <2>1, <2>3 DEF Contents
      <3>2. slot[t][k] \in Contents[t] /\ \A n \in Contents[t] : slot[t][k].id <= n.id
        BY <2>3, FirstIsOldest DEF Contents, Waiting
      <3>. QED BY <2>1, <2>3, <3>1, <3>2 DEF Boxes!TakeFirst, Contents
    <2>4. ASSUME NEW k \in Live(t), Waiting(t)' = Waiting(t) \ {slot[t][k]},
                 slot[t][k].serial = want[t],
                 \A l \in Live(t) : slot[t][l].serial = want[t] =>
                        Dist(Start(t), l) <= Dist(Start(t), k)
          PROVE  Boxes!TakeAnswer(t)
      <3>1. Contents' = [Contents EXCEPT ![t] = @ \ {slot[t][k]}]
        BY <2>1, <2>4 DEF Contents
      <3>2. /\ slot[t][k] \in Contents[t]
            /\ \A n \in Contents[t] : n.serial = slot[t][k].serial => n.id <= slot[t][k].id
        BY <2>4, FirstIsOldest DEF Contents, Waiting
      <3>. QED BY <2>1, <2>4, <3>1, <3>2 DEF Boxes!TakeAnswer, Contents
    <2>. QED BY <1>2, <2>2, <2>3, <2>4, RecvInv
  <1>3. CASE Still
    <2>1. Contents' = Contents
      BY <1>3, StillSame DEF Contents
    <2>. QED BY <1>3, <2>1 DEF Boxes!Next, Boxes!Ask, Contents, Still
  <1>. QED BY <1>1, <1>2, <1>3, StepCases DEF Writes, Boxes!Next

(* The queues behave like mailboxes: messages are taken in the order they  *)
(* were sent, except for answers, which are taken by serial, the last one  *)
(* first; as long as there is room.                                        *)
THEOREM QueuesAreMailboxes == Spec /\ []Room => InOrder
  <1>1. Init => BaseInv /\ QueueInv
    BY BaseInit, QueueInit
  <1>2. BaseInv /\ QueueInv /\ Room /\ [Next]_vars => BaseInv' /\ QueueInv'
    BY BaseStep, QueueStep
  <1>3. BaseInv /\ QueueInv /\ Room /\ [Next]_vars => [Boxes!Next]_(Boxes!vars)
    BY BoxesStep
  <1>. QED BY <1>1, <1>2, <1>3, BoxesInit, PTL DEF Spec, InOrder, Boxes!Spec
-----------------------------------------------------------------------------
(* The message a service works on. *)

(* A service takes its messages in order, so the slot in its hands is the  *)
(* one before the start of its queue; it never blocks in mq_call.          *)
ServerInv ==
    \A s \in Server :
        /\ want[s] = AnySerial
        /\ pc[s] \in {"recv", "use", "sendfull"}
        /\ pc[s] = "use" => mq_start[s] = Succ(got[s])

(* The services start in their loops. *)
LEMMA ServerInit == Init => ServerInv
  BY DEF Init, ServerInv, Task

(* No step takes a service out of its loop. *)
LEMMA ServerStep == BaseInv /\ ServerInv /\ [Next]_vars => ServerInv'
  <1>. SUFFICES ASSUME BaseInv, ServerInv, [Next]_vars, NEW s \in Server
                PROVE  /\ want'[s] = AnySerial
                       /\ pc'[s] \in {"recv", "use", "sendfull"}
                       /\ pc'[s] = "use" => mq_start'[s] = Succ(got'[s])
    BY DEF ServerInv, Succ
  <1>. DEFINE P == /\ want'[s] = AnySerial
                   /\ pc'[s] \in {"recv", "use", "sendfull"}
                   /\ pc'[s] = "use" => mq_start'[s] = Succ(got'[s])
  <1>0. /\ s \in Task /\ s \notin Client /\ want[s] = AnySerial
        /\ pc[s] \in {"recv", "use", "sendfull"}
        /\ pc[s] = "use" => mq_start[s] = Succ(got[s]) /\ mq_start[s] = Start(s)
    <2>1. pc[s] = "use" => got[s] \in Index /\ Succ(got[s]) # 0
      BY RingType DEF BaseInv, InHand, Task, Index
    <2>. QED BY <2>1, TaskAssumption DEF ServerInv, Task, Start
  <1>1. ASSUME NEW src, NEW dst \in Task, Sends(src, dst) \/ msg_send_full(src, dst)
        PROVE  pc[s] = "use" => mq_start'[s] = mq_start[s]
    BY <1>0, <1>1 DEF Sends, msg_send, msg_send_full, Put, BaseInv, QueueOK
  <1>2. ASSUME NEW c \in Client, NEW r \in Server, mq_call(c, r) \/ mq_send(c, r) PROVE P
    <2>1. Sends(c, r) \/ msg_send_full(c, r)
      BY <1>2 DEF mq_call, mq_send, Sends
    <2>2. pc'[s] = pc[s] /\ want'[s] = want[s] /\ got' = got
      BY <1>0, <1>2 DEF mq_call, mq_send, BaseInv, TaskOK
    <2>. QED BY <1>0, <1>1, <2>1, <2>2 DEF Task
  <1>3. ASSUME NEW c \in Task, mq_recv(c) \/ Use(c), c \in Client PROVE P
    <2>1. pc'[s] = pc[s] /\ want'[s] = want[s] /\ got'[s] = got[s] /\ mq_start' = mq_start
      BY <1>0, <1>3 DEF mq_recv, Use, BaseInv, TaskOK, queue
    <2>. QED BY <1>0, <2>1
  <1>4. ASSUME NEW c \in Task, Resume(c) PROVE P
    BY <1>0, <1>4 DEF Resume, BaseInv, TaskOK, queue
  <1>5. ASSUME NEW d \in Notified, msg_notify(d) PROVE P
    BY <1>0, <1>5 DEF msg_notify, Put, user, BaseInv, QueueOK
  <1>6. ASSUME NEW r \in Server, Dispatch(r) PROVE P
    <2>1. CASE r # s
      <3>1. pc'[s] = pc[s] /\ want'[s] = want[s] /\ got'[s] = got[s]
        BY <1>0, <1>6, <2>1 DEF Dispatch, BaseInv, TaskOK
      <3>2. CASE slot[r][got[r]].kind = "req"
        <4>1. slot[r][got[r]].from \in Task
          BY <1>6, <3>2, AnswerType DEF Dispatch, Task
        <4>2. \/ Sends(r, slot[r][got[r]].from) \/ msg_send_full(r, slot[r][got[r]].from)
              \/ UNCHANGED mq_start
          BY <1>6, <3>2 DEF Dispatch, Sends, queue
        <4>. QED BY <1>0, <1>1, <3>1, <4>1, <4>2
      <3>3. CASE slot[r][got[r]].kind # "req"
        <4>1. UNCHANGED mq_start
          BY <1>6, <3>3 DEF Dispatch, queue
        <4>. QED BY <1>0, <3>1, <4>1
      <3>. QED BY <3>2, <3>3
    <2>2. CASE r = s
      BY <1>0, <1>6, <2>2 DEF Dispatch, BaseInv, TaskOK
    <2>. QED BY <2>1, <2>2
  <1>7. ASSUME NEW t \in Task, msg_recv(t) PROVE P
    <2>1. CASE t # s
      BY <1>0, <1>7, <2>1
      DEF msg_recv, RecvAny, RecvAnswer, Received, NotReceived, user, BaseInv, QueueOK, TaskOK
    <2>2. CASE t = s
      <3>1. RecvAny(s)
        BY <1>0, <1>7, <2>2 DEF msg_recv, RecvAnswer
      <3>2. ASSUME NEW k \in Live(s), mq_start' = [mq_start EXCEPT ![s] = Succ(k)], Received(s, k)
            PROVE  P
        BY <1>0, <3>2 DEF Received, BaseInv, QueueOK, TaskOK
      <3>3. CASE NotReceived(s)
        BY <1>0, <1>7, <2>2, <3>3 DEF NotReceived, user, msg_recv
      <3>. QED BY <3>1, <3>2, <3>3 DEF RecvAny
    <2>. QED BY <2>1, <2>2
  <1>8. CASE UNCHANGED vars
    BY <1>0, <1>8 DEF vars
  <1>. QED BY <1>2, <1>3, <1>4, <1>5, <1>6, <1>7, <1>8, TaskAssumption DEF Next, Step, Task

(* The slot in the hands of a service is not one that waits. *)
LEMMA HandNotLive ==
  ASSUME BaseInv, ServerInv, NEW s \in Server, pc[s] = "use"
  PROVE  got[s] \notin Ring(s) /\ got[s] \in Index
  <1>1. s \in Task /\ got[s] \in Index /\ Succ(got[s]) \in Index /\ Pred(Succ(got[s])) = got[s]
    BY RingType DEF Task, BaseInv, InHand
  <1>2. Start(s) = Succ(got[s])
    BY <1>1 DEF ServerInv, Start, Index
  <1>3. End(s) \in Index /\ Ring(s) = Arc(Start(s), End(s))
    BY <1>1, QueueShape DEF BaseInv
  <1>4. \A a, b \in Index : Pred(a) \notin Arc(a, b)
    BY QueueAssumption DEF Arc, Dist, Pred, Index
  <1>. QED BY <1>1, <1>2, <1>3, <1>4

-----------------------------------------------------------------------------
(* Clients that only use mq_call, and get no notifications: the calls of   *)
(* the standard library.                                                   *)
Synchronous == Async = {} /\ Notified \intersect Client = {}

NoRewind == \A t \in Task : ~Rewind(t)

(* A write adds at most its slot; a write to a full queue, which only      *)
(* msg_notify makes, hides the others.                                     *)
LEMMA PutLive ==
  ASSUME QueueOK, NEW d \in Task, ~Rewind(d), NEW src, NEW kind, NEW serial,
         Put(d, src, kind, serial)
  PROVE  /\ Ring(d)' \subseteq Ring(d) \union {End(d)}
         /\ Live(d)' \subseteq Live(d) \union {End(d)}
         /\ End(d) \notin Ring(d) /\ End(d) \in Index
         /\ Start(d)' = Start(d)
         /\ slot' = [slot EXCEPT ![d][End(d)] =
                [id |-> sent + 1, from |-> src, kind |-> kind, serial |-> serial]]
         /\ \A t \in Task \ {d} : /\ Start(t)' = Start(t) /\ slot'[t] = slot[t]
                                  /\ Ring(t)' = Ring(t) /\ Live(t)' = Live(t)
  <1>1. /\ Start(d) \in Index /\ End(d) \in Index /\ Ring(d) = Arc(Start(d), End(d))
        /\ End(d) \notin Ring(d)
    BY QueueShape, RingType DEF Arc
  <1>2. \A t \in Task \ {d} : /\ Start(t)' = Start(t) /\ slot'[t] = slot[t]
                              /\ Ring(t)' = Ring(t) /\ Live(t)' = Live(t)
    <2>. TAKE t \in Task \ {d}
    <2>1. /\ mq_start'[t] = mq_start[t] /\ mq_end'[t] = mq_end[t]
          /\ responsed'[t] = responsed[t] /\ slot'[t] = slot[t]
      BY DEF Put, QueueOK
    <2>. QED BY <2>1, QueueSame
  <1>3. CASE Full(d)
    <2>1. Place(d) = End(d) /\ NextEnd(d) = Start(d)
      BY <1>3 DEF Place, NextEnd, Full
    <2>2. mq_start'[d] = Start(d) /\ mq_end'[d] = Start(d)
      BY <2>1 DEF Put, QueueOK
    <2>3. Start(d)' = Start(d) /\ End(d)' = Start(d)
      BY <1>1, <2>2 DEF Start, End, Index
    <2>4. Ring(d)' = {} /\ Live(d)' = {}
      BY <1>1, <2>3, ArcEmpty DEF Ring, Live, Arc
    <2>. QED BY <1>1, <1>2, <2>1, <2>3, <2>4 DEF Put
  <1>4. CASE ~Full(d)
    BY <1>1, <1>2, <1>4, PutEffect DEF Appended
  <1>. QED BY <1>3, <1>4

(* A failed send hides what waits for dst. *)
LEMMA FullLive ==
  ASSUME QueueOK, NEW src \in Task, NEW dst \in Task, msg_send_full(src, dst)
  PROVE  /\ Ring(dst)' = {} /\ Live(dst)' = {} /\ UNCHANGED slot
         /\ \A t \in Task \ {dst} : Ring(t)' = Ring(t) /\ Live(t)' = Live(t)
  <1>1. Start(dst) \in Index /\ mq_start'[dst] = Start(dst) /\ mq_end'[dst] = Start(dst)
    BY QueueShape DEF msg_send_full, Full, QueueOK
  <1>2. Start(dst)' = Start(dst) /\ End(dst)' = Start(dst)
    BY <1>1 DEF Start, End, Index
  <1>3. Ring(dst)' = {} /\ Live(dst)' = {}
    BY <1>1, <1>2, ArcEmpty DEF Ring, Live, Arc
  <1>4. \A t \in Task \ {dst} : Ring(t)' = Ring(t) /\ Live(t)' = Live(t)
    <2>. TAKE t \in Task \ {dst}
    <2>1. /\ mq_start'[t] = mq_start[t] /\ mq_end'[t] = mq_end[t] /\ responsed'[t] = responsed[t]
      BY DEF msg_send_full, QueueOK
    <2>. QED BY <2>1, LiveSame
  <1>. QED BY <1>3, <1>4 DEF msg_send_full

(* Service s has a request of client c in slot k: in its queue, or in its  *)
(* hands.                                                                  *)
Holds(s, k, c) ==
    /\ slot[s][k].kind = "req" /\ slot[s][k].from = c
    /\ k \in Live(s) \/ (pc[s] = "use" /\ k = got[s])

(* A client has one call at a time: its request is in one place, and while *)
(* it is there its queue is empty; its queue has at most the answer.       *)
OneCall(c) ==
    /\ pc[c] # "recv" => Ring(c) = {}
    /\ \A k, l \in Ring(c) : k = l
    /\ \A s \in Server : \A k \in Index : Holds(s, k, c) =>
            /\ pc[c] = "recv" /\ Ring(c) = {} /\ s = callee[c]
            /\ \A r \in Server : \A l \in Index : Holds(r, l, c) => r = s /\ l = k

(* What it gets is the answer of the service it called, and it is asked by *)
(* serial.                                                                 *)
Answered(c) ==
    /\ responsed[c] = {}
    /\ pc[c] \in {"ready", "recv", "use", "callfull"}
    /\ pc[c] \in {"recv", "use"} => want[c] # AnySerial
    /\ \A k \in Ring(c) : slot[c][k].kind = "ack" /\ slot[c][k].from = callee[c]
    /\ pc[c] = "use" => /\ copy[c].kind = "ack" /\ copy[c].from = callee[c]
                        /\ copy[c].serial = want[c]

CallInv == \A c \in Client : OneCall(c) /\ Answered(c)

(* A queue with nothing in it is not full. *)
LEMMA EmptyNotFull ==
  ASSUME QueueOK, NEW t \in Task, Ring(t) = {}
  PROVE  ~Full(t) /\ Start(t) = End(t)
  <1>1. Start(t) \in Index /\ End(t) \in Index /\ Arc(Start(t), End(t)) = {}
    BY QueueShape
  <1>2. Start(t) = End(t)
    BY <1>1, ArcCut
  <1>3. Succ(End(t)) # End(t)
    BY <1>1, QueueAssumption DEF Succ, Index
  <1>. QED BY <1>2, <1>3 DEF Full

(* What holds of the call of client c depends on its queue, on its state   *)
(* and on the requests the services have.                                  *)
LEMMA CallSame ==
  ASSUME NEW c \in Client, OneCall(c), Answered(c),
         Ring(c)' = Ring(c), slot'[c] = slot[c], responsed'[c] = responsed[c],
         pc'[c] = pc[c], want'[c] = want[c], callee'[c] = callee[c], copy'[c] = copy[c],
         \A s \in Server : \A k \in Index : Holds(s, k, c)' => Holds(s, k, c)
  PROVE  OneCall(c)' /\ Answered(c)'
  <1>1. Answered(c)'
    BY DEF Answered
  <1>2. OneCall(c)'
    BY DEF OneCall
  <1>. QED BY <1>1, <1>2

(* A service that does not take a message in this step has no other slot   *)
(* in its hands afterwards.                                                *)
HandsSame == \A s \in Server : pc'[s] = "use" => pc[s] = "use" /\ got'[s] = got[s]

(* The only request a write adds is the one it writes. *)
LEMMA HoldsPut ==
  ASSUME QueueOK, NoRewind, HandsSame, NEW d \in Task, NEW src, NEW kind, NEW serial,
         Put(d, src, kind, serial), NEW s \in Server, NEW k \in Index, NEW c, Holds(s, k, c)'
  PROVE  Holds(s, k, c) \/ (s = d /\ k = End(d) /\ kind = "req" /\ src = c)
  <1>. DEFINE m == [id |-> sent + 1, from |-> src, kind |-> kind, serial |-> serial]
  <1>0. s \in Task /\ ~Rewind(d)
    BY DEF Task, NoRewind
  <1>1. CASE s # d
    <2>1. slot'[s] = slot[s] /\ Live(s)' = Live(s)
      BY <1>0, <1>1, PutLive
    <2>. QED BY <2>1 DEF Holds, HandsSame
  <1>2. CASE s = d
    <2>1. /\ slot' = [slot EXCEPT ![d][End(d)] = m] /\ End(d) \in Index
          /\ Live(d)' \subseteq Live(d) \union {End(d)}
      BY <1>0, PutLive
    <2>2. CASE k = End(d)
      <3>1. slot'[s][k] = m
        BY <1>0, <1>2, <2>1, <2>2 DEF QueueOK
      <3>2. m.kind = "req" /\ m.from = c
        BY <3>1 DEF Holds
      <3>. QED BY <1>2, <2>2, <3>2
    <2>3. CASE k # End(d)
      <3>1. slot'[s][k] = slot[s][k]
        BY <1>0, <1>2, <2>1, <2>3 DEF QueueOK
      <3>. QED BY <1>2, <2>1, <2>3, <3>1 DEF Holds, HandsSame
    <2>. QED BY <2>2, <2>3
  <1>. QED BY <1>1, <1>2

(* A failed send adds none. *)
LEMMA HoldsFull ==
  ASSUME QueueOK, HandsSame, NEW src \in Task, NEW dst \in Task, msg_send_full(src, dst),
         NEW s \in Server, NEW k \in Index, NEW c, Holds(s, k, c)'
  PROVE  Holds(s, k, c)
  BY FullLive DEF Holds, HandsSame, Task

(* A client's mq_call keeps the calls of all clients in order. *)
LEMMA CallCall ==
  ASSUME BaseInv, NoRewind, CallInv, NEW a \in Client, NEW d \in Server, mq_call(a, d)
  PROVE  CallInv'
  <1>. SUFFICES ASSUME NEW c \in Client PROVE OneCall(c)' /\ Answered(c)'
    BY DEF CallInv, OneCall, Answered, Holds
  <1>0. /\ a \in Task /\ d \in Task /\ c \in Task /\ c # d /\ a # d /\ a \notin Server
        /\ OneCall(c) /\ Answered(c) /\ OneCall(a) /\ Answered(a)
    BY TaskAssumption DEF CallInv, Task
  <1>1. /\ HandsSame /\ pc[a] = "ready" /\ UNCHANGED <<got, copy>>
        /\ \A t \in Task \ {a} : pc'[t] = pc[t] /\ want'[t] = want[t] /\ callee'[t] = callee[t]
    BY <1>0 DEF mq_call, HandsSame, BaseInv, TaskOK, Task
  <1>2. /\ Ring(a) = {} /\ callee'[a] = d
        /\ \A s \in Server : \A k \in Index : ~Holds(s, k, a)
    BY <1>0, <1>1 DEF OneCall, mq_call, BaseInv, TaskOK
  <1>. DEFINE q == [pid |-> a, n |-> NextSerial(d)]
  <1>3. CASE msg_send(a, d, "req", q) /\ pc' = [pc EXCEPT ![a] = "recv"] /\ want' = [want EXCEPT ![a] = q]
    <2>1. Put(d, a, "req", q) /\ ~Rewind(d)
      BY <1>0, <1>3 DEF msg_send, NoRewind
    <2>2. /\ Ring(c)' = Ring(c) /\ slot'[c] = slot[c] /\ responsed'[c] = responsed[c]
      BY <1>0, <2>1, PutLive DEF BaseInv, QueueOK, Put
    <2>3. \A s \in Server : \A k \in Index :
             Holds(s, k, c)' => Holds(s, k, c) \/ (s = d /\ k = End(d) /\ c = a)
      BY <1>1, <2>1, <1>0, HoldsPut DEF BaseInv
    <2>4. CASE c # a
      BY <1>0, <1>1, <2>2, <2>3, <2>4, CallSame
    <2>5. CASE c = a
      <3>1. Ring(a)' = {} /\ responsed'[a] = {} /\ pc'[a] = "recv" /\ want'[a] = q
        BY <1>0, <1>2, <1>3, <2>2, <2>5 DEF Answered, BaseInv, TaskOK
      <3>2. q # AnySerial
        BY <1>0, TaskAssumption DEF AnySerial
      <3>3. Answered(a)'
        BY <3>1, <3>2 DEF Answered
      <3>4. OneCall(a)'
        BY <1>2, <2>3, <2>5, <3>1 DEF OneCall
      <3>. QED BY <2>5, <3>3, <3>4
    <2>. QED BY <2>4, <2>5
  <1>4. CASE msg_send_full(a, d) /\ pc' = [pc EXCEPT ![a] = "callfull"] /\ UNCHANGED want
    <2>1. Ring(c)' = Ring(c) /\ slot'[c] = slot[c] /\ responsed'[c] = responsed[c]
      BY <1>0, <1>4, FullLive DEF BaseInv, msg_send_full
    <2>2. \A s \in Server : \A k \in Index : Holds(s, k, c)' => Holds(s, k, c)
      BY <1>0, <1>1, <1>4, HoldsFull DEF BaseInv
    <2>3. CASE c # a
      BY <1>0, <1>1, <2>1, <2>2, <2>3, CallSame
    <2>4. CASE c = a
      <3>1. Ring(a)' = {} /\ responsed'[a] = {} /\ pc'[a] = "callfull"
        BY <1>0, <1>2, <1>4, <2>1, <2>4 DEF Answered, BaseInv, TaskOK
      <3>2. Answered(a)'
        BY <3>1 DEF Answered
      <3>3. OneCall(a)'
        BY <1>2, <2>2, <2>4, <3>1 DEF OneCall
      <3>. QED BY <2>4, <3>2, <3>3
    <2>. QED BY <2>3, <2>4
  <1>. QED BY <1>3, <1>4 DEF mq_call

(* A notification to a service adds no request and no answer. *)
LEMMA CallNotify ==
  ASSUME BaseInv, NoRewind, CallInv, NEW d \in Server, msg_notify(d)
  PROVE  CallInv'
  <1>. SUFFICES ASSUME NEW c \in Client PROVE OneCall(c)' /\ Answered(c)'
    BY DEF CallInv, OneCall, Answered, Holds
  <1>0. c \in Task /\ d \in Task /\ c # d /\ OneCall(c) /\ Answered(c)
    BY TaskAssumption DEF CallInv, Task
  <1>1. HandsSame /\ UNCHANGED <<pc, want, got, copy, callee>>
    BY DEF msg_notify, user, HandsSame
  <1>2. Put(d, Core, "irq", [pid |-> Core, n |-> NextSerial(d)]) /\ ~Rewind(d)
    BY <1>0 DEF msg_notify, NoRewind
  <1>3. Ring(c)' = Ring(c) /\ slot'[c] = slot[c] /\ responsed'[c] = responsed[c]
    BY <1>0, <1>2, PutLive DEF BaseInv, QueueOK, Put
  <1>4. \A s \in Server : \A k \in Index : Holds(s, k, c)' => Holds(s, k, c)
    BY <1>0, <1>1, <1>2, HoldsPut DEF BaseInv
  <1>. QED BY <1>0, <1>1, <1>3, <1>4, CallSame

(* A service that takes a message holds what it held. *)
LEMMA CallServerRecv ==
  ASSUME BaseInv, ServerInv, CallInv, NEW r \in Server, msg_recv(r)
  PROVE  CallInv'
  <1>. SUFFICES ASSUME NEW c \in Client PROVE OneCall(c)' /\ Answered(c)'
    BY DEF CallInv, OneCall, Answered, Holds
  <1>0. c \in Task /\ r \in Task /\ c # r /\ OneCall(c) /\ Answered(c)
    BY TaskAssumption DEF CallInv, Task
  <1>1. /\ \A u \in Task \ {r} : /\ mq_start'[u] = mq_start[u] /\ mq_end'[u] = mq_end[u]
                                 /\ responsed'[u] = responsed[u]
        /\ UNCHANGED <<slot, want>>
    BY <1>0, RecvEffect
  <1>2. \A u \in Task \ {r} : Ring(u)' = Ring(u) /\ Live(u)' = Live(u)
    BY <1>1, QueueSame
  <1>3. /\ \A u \in Task \ {r} : pc'[u] = pc[u] /\ got'[u] = got[u] /\ copy'[u] = copy[u]
        /\ UNCHANGED callee
    BY <1>0 DEF msg_recv, RecvAny, RecvAnswer, Received, NotReceived, user, BaseInv, TaskOK
  <1>4. Live(r)' \subseteq Live(r)
    BY <1>0, RecvEffect DEF Taken
  <1>5. pc'[r] = "use" => got'[r] \in Live(r)
    BY <1>0 DEF msg_recv, RecvAny, RecvAnswer, Received, NotReceived, user, BaseInv, TaskOK
  <1>6. \A s \in Server : \A k \in Index : Holds(s, k, c)' => Holds(s, k, c)
    BY <1>1, <1>2, <1>3, <1>4, <1>5 DEF Holds, Task
  <1>. QED BY <1>0, <1>1, <1>2, <1>3, <1>6, CallSame

(* A client that takes its answer has nothing else in its queue. *)
LEMMA CallClientRecv ==
  ASSUME BaseInv, CallInv, NEW a \in Client, msg_recv(a)
  PROVE  CallInv'
  <1>. SUFFICES ASSUME NEW c \in Client PROVE OneCall(c)' /\ Answered(c)'
    BY DEF CallInv, OneCall, Answered, Holds
  <1>0. c \in Task /\ a \in Task /\ a \notin Server /\ OneCall(c) /\ Answered(c) /\ OneCall(a) /\ Answered(a)
    BY TaskAssumption DEF CallInv, Task
  <1>1. /\ \A u \in Task \ {a} : /\ mq_start'[u] = mq_start[u] /\ mq_end'[u] = mq_end[u]
                                 /\ responsed'[u] = responsed[u]
        /\ UNCHANGED <<slot, want>>
    BY <1>0, RecvEffect
  <1>2. \A u \in Task \ {a} : Ring(u)' = Ring(u) /\ Live(u)' = Live(u)
    BY <1>1, QueueSame
  <1>3. /\ \A u \in Task \ {a} : pc'[u] = pc[u] /\ got'[u] = got[u] /\ copy'[u] = copy[u]
        /\ UNCHANGED callee
    BY <1>0 DEF msg_recv, RecvAny, RecvAnswer, Received, NotReceived, user, BaseInv, TaskOK
  <1>4. \A s \in Server : \A k \in Index : Holds(s, k, c)' => Holds(s, k, c)
    BY <1>0, <1>1, <1>2, <1>3 DEF Holds, Task
  <1>5. CASE c # a
    BY <1>0, <1>1, <1>2, <1>3, <1>4, <1>5, CallSame
  <1>6. CASE c = a
    <2>1. pc[a] = "recv" /\ RecvAnswer(a)
      BY <1>0 DEF msg_recv, Answered, RecvAny
    <2>2. CASE NotReceived(a) /\ UNCHANGED mq_start
      <3>1. /\ mq_start'[a] = mq_start[a] /\ mq_end'[a] = mq_end[a] /\ responsed'[a] = responsed[a]
            /\ pc'[a] = pc[a] /\ copy'[a] = copy[a]
        BY <2>2 DEF NotReceived, user
      <3>2. Ring(a)' = Ring(a)
        BY <1>0, <3>1, LiveSame
      <3>. QED BY <1>0, <1>1, <1>3, <1>4, <1>6, <3>1, <3>2, CallSame
    <2>3. ASSUME NEW k \in Live(a), slot[a][k].serial = want[a], Received(a, k), UNCHANGED mq_start,
                 IF k = Pred(mq_end[a])
                 THEN mq_end' = [mq_end EXCEPT ![a] = k] /\ UNCHANGED responsed
                 ELSE responsed' = [responsed EXCEPT ![a] = @ \union {k}] /\ UNCHANGED mq_end
          PROVE  OneCall(a)' /\ Answered(a)'
      <3>1. /\ Start(a) \in Index /\ End(a) \in Index /\ Ring(a) = Arc(Start(a), End(a))
            /\ k \in Ring(a) /\ k \in Index
        BY <1>0, QueueShape DEF BaseInv
      <3>2. mq_start[a] = Start(a) /\ mq_end[a] = End(a) /\ Start(a) # End(a)
        BY <1>0, <3>1, FreshEmpty DEF BaseInv
      <3>3. Pred(End(a)) \in Ring(a) /\ Arc(Start(a), Pred(End(a))) = Ring(a) \ {Pred(End(a))}
        BY <3>1, <3>2, ArcCut
      <3>4. k = Pred(mq_end[a])
        BY <1>0, <3>1, <3>2, <3>3 DEF OneCall
      <3>5. mq_start'[a] = Start(a) /\ mq_end'[a] = k /\ responsed'[a] = {}
        BY <1>0, <2>3, <3>2, <3>4 DEF BaseInv, QueueOK, Answered
      <3>6. Start(a)' = Start(a) /\ End(a)' = k
        BY <3>1, <3>5 DEF Start, End, Index
      <3>7. Ring(a)' = {}
        <4>1. Ring(a)' = Arc(Start(a), k)
          BY <3>6 DEF Ring, Arc
        <4>2. Ring(a) \ {k} = {}
          BY <1>0, <3>1 DEF OneCall
        <4>. QED BY <3>2, <3>3, <3>4, <4>1, <4>2
      <3>8. pc'[a] = "use" /\ copy'[a] = slot[a][k]
        BY <1>0, <2>3 DEF Received, BaseInv, TaskOK
      <3>9. \A s \in Server : \A l \in Index : ~Holds(s, l, a)
        BY <1>0, <3>1 DEF OneCall
      <3>10. Answered(a)'
        BY <1>0, <1>1, <1>3, <2>1, <2>3, <3>1, <3>5, <3>7, <3>8 DEF Answered
      <3>11. OneCall(a)'
        BY <1>4, <1>6, <3>7, <3>9 DEF OneCall
      <3>. QED BY <3>10, <3>11
    <2>. QED BY <1>6, <2>1, <2>2, <2>3 DEF RecvAnswer
  <1>. QED BY <1>5, <1>6

(* The client a service answers waits, with an empty queue. *)
LEMMA AnswerFits ==
  ASSUME BaseInv, CallInv, NEW r \in Server, pc[r] = "use", slot[r][got[r]].kind = "req",
         NEW a, a = slot[r][got[r]].from
  PROVE  /\ a \in Client /\ a \in Task /\ Holds(r, got[r], a) /\ got[r] \in Index
         /\ pc[a] = "recv" /\ Ring(a) = {} /\ callee[a] = r /\ ~Full(a)
  <1>1. a \in Client /\ a \in Task /\ r \in Task /\ got[r] \in Index
    BY AnswerType DEF Task, BaseInv, InHand
  <1>2. Holds(r, got[r], a)
    BY DEF Holds
  <1>3. pc[a] = "recv" /\ Ring(a) = {} /\ callee[a] = r
    BY <1>1, <1>2 DEF CallInv, OneCall
  <1>. QED BY <1>1, <1>2, <1>3, EmptyNotFull DEF BaseInv

(* An answer ends the call; a message without one does not begin any. *)
LEMMA CallDispatch ==
  ASSUME BaseInv, ServerInv, NoRewind, CallInv, NEW r \in Server, Dispatch(r)
  PROVE  CallInv'
  <1>. SUFFICES ASSUME NEW c \in Client PROVE OneCall(c)' /\ Answered(c)'
    BY DEF CallInv, OneCall, Answered, Holds
  <1>0. c \in Task /\ r \in Task /\ r \notin Client /\ OneCall(c) /\ Answered(c) /\ pc[r] = "use"
    BY TaskAssumption DEF CallInv, Task, Dispatch
  <1>. DEFINE msg == slot[r][got[r]]
              a == msg.from
              serial == IF Answer[r] = "serial" THEN msg.serial
                        ELSE [pid |-> r, n |-> NextSerial(a)]
  <1>1. /\ \A t \in Task \ {r} : pc'[t] = pc[t] /\ copy'[t] = copy[t] /\ got'[t] = got[t]
        /\ UNCHANGED <<want, callee>> /\ pc'[r] # "use"
    BY <1>0 DEF Dispatch, BaseInv, TaskOK
  <1>2. HandsSame
    BY <1>1 DEF HandsSame, Task
  <1>3. CASE msg.kind = "req" /\ msg_send(r, a, "ack", serial)
    <2>1. Put(a, r, "ack", serial) /\ a \in Client /\ a \in Task /\ ~Rewind(a)
      BY <1>0, <1>3, AnswerFits DEF msg_send, NoRewind
    <2>2. \A s \in Server : \A k \in Index : Holds(s, k, c)' => Holds(s, k, c)
      BY <1>2, <2>1, HoldsPut DEF BaseInv
    <2>3. CASE c # a
      <3>1. Ring(c)' = Ring(c) /\ slot'[c] = slot[c] /\ responsed'[c] = responsed[c]
        BY <1>0, <2>1, <2>3, PutLive DEF BaseInv, QueueOK, Put
      <3>. QED BY <1>0, <1>1, <2>2, <3>1, CallSame
    <2>4. CASE c = a
      <3>1. /\ Holds(r, got[r], c) /\ got[r] \in Index
            /\ pc[c] = "recv" /\ Ring(c) = {} /\ callee[c] = r
        BY <1>0, <1>3, <2>4, AnswerFits
      <3>2. Ring(c)' \subseteq {End(c)} /\ slot'[c][End(c)].kind = "ack" /\ slot'[c][End(c)].from = r
        BY <1>0, <2>1, <2>4, <3>1, PutLive DEF BaseInv, QueueOK
      <3>3. responsed'[c] = {}
        BY <1>0, <2>1, <2>4 DEF Put, BaseInv, QueueOK, Answered
      <3>4. \A s \in Server : \A k \in Index : ~Holds(s, k, c)'
        <4>. SUFFICES ASSUME NEW s \in Server, NEW k \in Index, Holds(s, k, c)' PROVE FALSE
          OBVIOUS
        <4>1. s = r /\ k = got[r]
          BY <1>0, <2>2, <3>1 DEF OneCall
        <4>2. got[r] \in Live(r)'
          BY <1>1, <4>1 DEF Holds
        <4>3. Live(r)' = Live(r)
          BY <1>0, <2>1, PutLive DEF BaseInv
        <4>4. got[r] \notin Live(r)
          BY <1>0, HandNotLive DEF Live
        <4>. QED BY <4>2, <4>3, <4>4
      <3>5. pc'[c] = "recv" /\ want'[c] = want[c] /\ callee'[c] = r /\ copy'[c] = copy[c]
        BY <1>0, <1>1, <3>1
      <3>6. Answered(c)'
        BY <1>0, <3>1, <3>2, <3>3, <3>5 DEF Answered
      <3>7. OneCall(c)'
        BY <3>2, <3>4, <3>5 DEF OneCall
      <3>. QED BY <3>6, <3>7
    <2>. QED BY <2>3, <2>4
  <1>4. CASE msg.kind = "req" /\ msg_send_full(r, a)
    BY <1>0, <1>4, AnswerFits DEF msg_send_full
  <1>5. CASE UNCHANGED <<queue, blksend, state, undelivered, sent>>
    <2>1. /\ \A t \in Task : Ring(t)' = Ring(t) /\ Live(t)' = Live(t)
          /\ UNCHANGED <<slot, responsed>>
      BY <1>5, LiveSame DEF queue
    <2>2. \A s \in Server : \A k \in Index : Holds(s, k, c)' => Holds(s, k, c)
      BY <1>2, <2>1 DEF Holds, HandsSame, Task
    <2>. QED BY <1>0, <1>1, <2>1, <2>2, CallSame
  <1>. QED BY <1>3, <1>4, <1>5 DEF Dispatch

(* The steps of a task outside the core do not touch the requests. *)
LEMMA CallLocal ==
  ASSUME BaseInv, ServerInv, CallInv, NEW t \in Task, Resume(t) \/ (t \in Client /\ Use(t))
  PROVE  CallInv'
  <1>. SUFFICES ASSUME NEW c \in Client PROVE OneCall(c)' /\ Answered(c)'
    BY DEF CallInv, OneCall, Answered, Holds
  <1>0. c \in Task /\ c \notin Server /\ OneCall(c) /\ Answered(c)
    BY TaskAssumption DEF CallInv, Task
  <1>1. /\ \A u \in Task : Ring(u)' = Ring(u) /\ Live(u)' = Live(u)
        /\ UNCHANGED <<slot, responsed, callee>>
    BY LiveSame DEF Resume, Use, queue
  <1>2. HandsSame
    BY TaskAssumption DEF Resume, Use, HandsSame, BaseInv, TaskOK, Task
  <1>3. \A s \in Server : \A k \in Index : Holds(s, k, c)' => Holds(s, k, c)
    BY <1>1, <1>2 DEF Holds, HandsSame, Task
  <1>4. CASE c # t
    <2>1. pc'[c] = pc[c] /\ want'[c] = want[c] /\ copy'[c] = copy[c]
      BY <1>0, <1>4 DEF Resume, Use, BaseInv, TaskOK
    <2>. QED BY <1>0, <1>1, <1>3, <2>1, CallSame
  <1>5. CASE c = t
    <2>1. pc[c] # "recv" /\ pc'[c] \in {"ready", "recv"} /\ (pc'[c] = "recv" => want'[c] = EventCode)
      BY <1>0, <1>5 DEF Resume, Use, BaseInv, TaskOK
    <2>2. EventCode # AnySerial
      BY DEF EventCode, AnySerial
    <2>3. Ring(c)' = {} /\ \A s \in Server : \A k \in Index : ~Holds(s, k, c)'
      BY <1>0, <1>1, <1>3, <2>1 DEF OneCall
    <2>4. Answered(c)'
      BY <1>0, <1>1, <2>1, <2>2, <2>3 DEF Answered
    <2>5. OneCall(c)'
      BY <2>3 DEF OneCall
    <2>. QED BY <2>4, <2>5
  <1>. QED BY <1>4, <1>5

(* Nobody has called anybody at the start. *)
LEMMA CallInit == Init => CallInv
  <1>. SUFFICES ASSUME Init, NEW c \in Client PROVE OneCall(c) /\ Answered(c)
    BY DEF CallInv
  <1>0. c \in Task /\ c \notin Server
    BY TaskAssumption DEF Task
  <1>1. \A t \in Task : Start(t) = End(t) /\ End(t) \in Index
    BY RingType DEF Init, Start, End
  <1>2. \A t \in Task : Ring(t) = {} /\ Live(t) = {}
    BY <1>1, ArcEmpty DEF Live, Ring, Arc
  <1>3. \A s \in Server : \A k \in Index : ~Holds(s, k, c)
    BY <1>2 DEF Init, Holds, Task
  <1>4. OneCall(c)
    BY <1>0, <1>2, <1>3 DEF OneCall
  <1>. QED BY <1>0, <1>2, <1>4 DEF Init, Answered

(* Every step keeps the calls in order. *)
LEMMA CallStep ==
  ASSUME Synchronous, BaseInv, ServerInv, CallInv, NoRewind, [Next]_vars
  PROVE  CallInv'
  <1>1. ASSUME NEW c \in Client, NEW s \in Server, mq_call(c, s) PROVE CallInv'
    BY <1>1, CallCall
  <1>2. ASSUME NEW c \in Async PROVE FALSE
    BY DEF Synchronous
  <1>3. ASSUME NEW d \in Notified, msg_notify(d) PROVE CallInv'
    BY <1>3, CallNotify, TaskAssumption DEF Synchronous, Task
  <1>4. ASSUME NEW t \in Task, Step(t) PROVE CallInv'
    BY <1>4, CallServerRecv, CallClientRecv, CallLocal, CallDispatch DEF Step, Task
  <1>5. CASE UNCHANGED vars
    <2>1. \A t \in Task : Ring(t)' = Ring(t) /\ Live(t)' = Live(t)
      BY <1>5, LiveSame DEF vars
    <2>2. \A s \in Server : \A k \in Index : \A c \in Client : Holds(s, k, c)' <=> Holds(s, k, c)
      BY <1>5, <2>1 DEF vars, Holds, Task
    <2>3. \A c \in Client : OneCall(c)' /\ Answered(c)'
      <3>. TAKE c \in Client
      <3>1. OneCall(c) /\ Answered(c) /\ c \in Task
        BY DEF CallInv, Task
      <3>. QED BY <1>5, <2>1, <2>2, <3>1, CallSame DEF vars
    <2>. QED BY <2>3 DEF CallInv, OneCall, Answered, Holds
  <1>. QED BY <1>1, <1>2, <1>3, <1>4, <1>5 DEF Next

(* mq_call returns the answer of the service that was called, to this very *)
(* call, for any number of clients and services, however often the serial  *)
(* numbers wrap around and whether queues overflow or not; as long as no   *)
(* queue is rewound, and for clients that only use mq_call.                *)
THEOREM CallsGetTheirAnswers ==
  ASSUME Synchronous
  PROVE  Spec /\ []NoRewind => []AnswerMatches
  <1>1. CallInv => AnswerMatches
    BY DEF CallInv, Answered, AnswerMatches
  <1>2. Init => BaseInv /\ ServerInv /\ CallInv
    BY BaseInit, ServerInit, CallInit
  <1>3. BaseInv /\ ServerInv /\ CallInv /\ NoRewind /\ [Next]_vars => BaseInv' /\ ServerInv' /\ CallInv'
    BY BaseStep, ServerStep, CallStep
  <1>. QED BY <1>1, <1>2, <1>3, PTL DEF Spec
-----------------------------------------------------------------------------
(* The message in the hands of a task does not change. *)
Stable(t) == pc[t] = "use" => slot[t][got[t]] = copy[t]

(* A task has a message in its hands since it received it. *)
LEMMA UseStep ==
  ASSUME BaseInv, [Next]_vars, NEW t \in Task
  PROVE  \/ pc'[t] = "use" => pc[t] = "use" /\ got'[t] = got[t] /\ copy'[t] = copy[t]
         \/ \E k \in Live(t) : Received(t, k)
  <1>. DEFINE P == pc'[t] = "use" => pc[t] = "use" /\ got'[t] = got[t] /\ copy'[t] = copy[t]
  <1>1. ASSUME NEW c \in Client, NEW s \in Server, mq_call(c, s) \/ mq_send(c, s) PROVE P
    BY <1>1 DEF mq_call, mq_send, BaseInv, TaskOK, Task
  <1>2. ASSUME NEW c \in Task, mq_recv(c) \/ Resume(c) \/ Use(c) PROVE P
    BY <1>2 DEF mq_recv, Resume, Use, BaseInv, TaskOK
  <1>3. ASSUME NEW d \in Notified, msg_notify(d) PROVE P
    BY <1>3 DEF msg_notify, user
  <1>4. ASSUME NEW s \in Server, Dispatch(s) PROVE P
    BY <1>4 DEF Dispatch, BaseInv, TaskOK, Task
  <1>5. ASSUME NEW r \in Task, msg_recv(r) PROVE P \/ \E k \in Live(t) : Received(t, k)
    <2>1. CASE r # t
      BY <1>5, <2>1 DEF msg_recv, RecvAny, RecvAnswer, Received, NotReceived, user, BaseInv, TaskOK
    <2>2. CASE r = t
      BY <1>5, <2>2 DEF msg_recv, RecvAny, RecvAnswer, NotReceived, user
    <2>. QED BY <2>1, <2>2
  <1>6. CASE UNCHANGED vars
    BY <1>6 DEF vars
  <1>. QED BY <1>1, <1>2, <1>3, <1>4, <1>5, <1>6, TaskAssumption DEF Next, Step, Task

(* If the slot in the hands of t is not written to, t still has its message. *)
LEMMA StableKeeps ==
  ASSUME BaseInv, [Next]_vars, NEW t \in Task, Stable(t),
         pc[t] = "use" => slot'[t][got[t]] = slot[t][got[t]]
  PROVE  Stable(t)'
  <1>1. ASSUME NEW k \in Live(t), Received(t, k) PROVE Stable(t)'
    BY <1>1 DEF Received, Stable, BaseInv, TaskOK
  <1>2. CASE pc'[t] = "use" => pc[t] = "use" /\ got'[t] = got[t] /\ copy'[t] = copy[t]
    BY <1>2 DEF Stable
  <1>. QED BY <1>1, <1>2, UseStep

(* The one slot that a queue keeps free is the one in the service's hands. *)
LEMMA ServerSlotSame ==
  ASSUME BaseInv, ServerInv, Room, [Next]_vars, NEW s \in Server, pc[s] = "use"
  PROVE  slot'[s][got[s]] = slot[s][got[s]]
  <1>1. s \in Task /\ got[s] \in Index /\ Succ(got[s]) \in Index
    BY HandNotLive, RingType DEF Task
  <1>2. got[s] # End(s)
    <2>1. Start(s) = Succ(got[s])
      BY <1>1 DEF ServerInv, Start, Index
    <2>. QED BY <1>1, <2>1 DEF Room, Full
  <1>3. ASSUME NEW d \in Task, NEW src, NEW kind, NEW serial, Put(d, src, kind, serial)
        PROVE  slot'[s][got[s]] = slot[s][got[s]]
    <2>1. ~Rewind(d)
      BY DEF Room
    <2>2. CASE d = s
      BY <1>1, <1>2, <1>3, <2>1, <2>2, PutLive DEF BaseInv, QueueOK
    <2>3. CASE d # s
      BY <1>1, <1>3, <2>1, <2>3, PutLive DEF BaseInv, QueueOK
    <2>. QED BY <2>2, <2>3
  <1>4. ASSUME NEW t \in Task, msg_recv(t) PROVE UNCHANGED slot
    BY <1>4, RecvEffect
  <1>. QED BY <1>3, <1>4, StepCases DEF Writes, Still

(* Nobody writes to the queue of a client that uses its answer. *)
LEMMA ClientSlotSame ==
  ASSUME Synchronous, BaseInv, CallInv, Room, [Next]_vars, NEW a \in Client, pc[a] = "use"
  PROVE  slot'[a] = slot[a]
  <1>0. a \in Task /\ a \notin Server /\ \A t \in Task : ~Rewind(t) /\ ~Full(t)
    BY TaskAssumption DEF Task, Room
  <1>1. ASSUME NEW d \in Task \ {a}, NEW src, NEW kind, NEW serial, Put(d, src, kind, serial)
        PROVE  slot'[a] = slot[a]
    BY <1>0, <1>1, PutLive DEF BaseInv
  <1>2. ASSUME NEW c \in Client, NEW s \in Server, mq_call(c, s) PROVE slot'[a] = slot[a]
    BY <1>0, <1>1, <1>2 DEF mq_call, msg_send, msg_send_full, Task
  <1>3. ASSUME NEW d \in Notified, msg_notify(d) PROVE slot'[a] = slot[a]
    BY <1>0, <1>1, <1>3, TaskAssumption DEF msg_notify, Synchronous
  <1>4. ASSUME NEW s \in Server, Dispatch(s) PROVE slot'[a] = slot[a]
    <2>1. CASE slot[s][got[s]].kind = "req"
      <3>1. slot[s][got[s]].from \in Task \ {a}
        BY <1>4, <2>1, AnswerFits DEF Dispatch
      <3>. QED BY <1>1, <1>4, <3>1 DEF Dispatch, msg_send, msg_send_full, queue
    <2>2. CASE slot[s][got[s]].kind # "req"
      BY <1>4, <2>2 DEF Dispatch, queue
    <2>. QED BY <2>1, <2>2
  <1>5. ASSUME NEW t \in Task, msg_recv(t) PROVE slot'[a] = slot[a]
    BY <1>5, RecvEffect
  <1>6. ASSUME NEW t \in Task, Resume(t) \/ Use(t) PROVE slot'[a] = slot[a]
    BY <1>6 DEF Resume, Use, queue
  <1>7. CASE UNCHANGED vars
    BY <1>7 DEF vars
  <1>. QED BY <1>2, <1>3, <1>4, <1>5, <1>6, <1>7 DEF Next, Step, Synchronous

(* No service sees the message change that it handles. *)
ServicesStable == \A s \in Server : Stable(s)

(* While a service handles a message nobody writes to its slot, whatever   *)
(* arrives and whoever sends, as long as there is room.                    *)
THEOREM HandledMessageStable == Spec /\ []Room => []ServicesStable
  <1>1. Init => BaseInv /\ ServerInv /\ ServicesStable
    <2>1. Init => ServicesStable
      BY DEF Init, ServicesStable, Stable, Task
    <2>. QED BY <2>1, BaseInit, ServerInit
  <1>2. BaseInv /\ ServerInv /\ ServicesStable /\ Room /\ [Next]_vars
            => BaseInv' /\ ServerInv' /\ ServicesStable'
    <2>. SUFFICES ASSUME BaseInv, ServerInv, ServicesStable, Room, [Next]_vars
                  PROVE  BaseInv' /\ ServerInv' /\ ServicesStable'
      OBVIOUS
    <2>1. \A s \in Server : Stable(s)'
      BY ServerSlotSame, StableKeeps DEF ServicesStable, Task
    <2>. QED BY <2>1, BaseStep, ServerStep DEF ServicesStable
  <1>. QED BY <1>1, <1>2, PTL DEF Spec

(* The same for every task, when the clients only use mq_call. *)
THEOREM ReturnedMessageStable ==
  ASSUME Synchronous
  PROVE  Spec /\ []Room => []MessageStable
  <1>. DEFINE Inv == BaseInv /\ ServerInv /\ CallInv /\ MessageStable
  <1>1. Init => Inv
    <2>1. Init => MessageStable
      BY DEF Init, MessageStable
    <2>. QED BY <2>1, BaseInit, ServerInit, CallInit
  <1>2. Inv /\ Room /\ [Next]_vars => Inv'
    <2>. SUFFICES ASSUME Inv, Room, [Next]_vars PROVE Inv'
      OBVIOUS
    <2>1. BaseInv' /\ ServerInv' /\ CallInv'
      BY BaseStep, ServerStep, CallStep DEF Room, NoRewind
    <2>2. \A t \in Task : Stable(t)'
      <3>. TAKE t \in Task
      <3>1. Stable(t)
        BY DEF MessageStable, Stable
      <3>2. pc[t] = "use" => slot'[t][got[t]] = slot[t][got[t]]
        BY ServerSlotSame, ClientSlotSame DEF Task
      <3>. QED BY <3>1, <3>2, StableKeeps
    <2>. QED BY <2>1, <2>2 DEF MessageStable, Stable
  <1>3. Inv => MessageStable
    OBVIOUS
  <1>. QED BY <1>1, <1>2, <1>3, PTL DEF Spec
-----------------------------------------------------------------------------
(* The chain of the tasks that wait for room in a queue. *)

(* Only clients wait for room, and only while they are on a chain; nobody  *)
(* is on two chains, and a client that is not waiting has no chain.        *)
ChainInv ==
    /\ \A s \in Server : pc[s] # "sendfull"
    /\ \A x \in Task : blksend[x] # None =>
            blksend[x] \in Client /\ state[blksend[x]] = "blocked" /\ pc[blksend[x]] = "callfull"
    /\ \A c \in Client : blksend[c] # None => state[c] = "blocked" /\ pc[c] = "callfull"
    /\ \A x, y \in Task : blksend[x] # None /\ blksend[x] = blksend[y] => x = y
    /\ SendersChained

(* Steps that leave the chain alone and neither stop a task in a system    *)
(* call nor wake one that waits for room keep it.                          *)
LEMMA ChainSame ==
  ASSUME ChainInv, UNCHANGED blksend,
         \A s \in Server : pc'[s] # "sendfull",
         \A t \in Task : state[t] = "blocked" /\ pc[t] = "callfull" =>
                            state'[t] = "blocked" /\ pc'[t] = "callfull",
         \A t \in Task : state'[t] = "blocked" /\ pc'[t] \in {"callfull", "sendfull"} =>
                            state[t] = "blocked" /\ pc[t] \in {"callfull", "sendfull"}
  PROVE  ChainInv'
  <1>1. SendersChained'
    BY DEF ChainInv, SendersChained
  <1>. QED BY <1>1 DEF ChainInv, Task

(* A client that finds the queue full is put on the chain. *)
LEMMA ChainFull ==
  ASSUME BaseInv, ChainInv, NEW a \in Client, NEW d \in Server, msg_send_full(a, d),
         pc[a] = "ready", state[a] = "running", pc' = [pc EXCEPT ![a] = "callfull"]
  PROVE  ChainInv'
  <1>0. a \in Task /\ d \in Task /\ a # d /\ a # None /\ a \notin Server /\ d \notin Client
    BY TaskAssumption DEF Task
  <1>1. /\ blksend' = [blksend EXCEPT ![a] = blksend[d], ![d] = a]
        /\ state' = [state EXCEPT ![a] = "blocked"]
    BY DEF msg_send_full, sched_block
  <1>2. /\ blksend'[a] = blksend[d] /\ blksend'[d] = a /\ \A x \in Task \ {a, d} : blksend'[x] = blksend[x]
        /\ state'[a] = "blocked" /\ \A x \in Task \ {a} : state'[x] = state[x]
        /\ pc'[a] = "callfull" /\ \A x \in Task \ {a} : pc'[x] = pc[x]
    BY <1>0, <1>1 DEF BaseInv, TaskOK
  <1>3. blksend[a] = None /\ \A x \in Task : blksend[x] # a
    BY <1>0 DEF ChainInv
  <1>4. \A s \in Server : pc'[s] # "sendfull"
    BY <1>0, <1>2 DEF ChainInv, Task
  <1>5. \A x \in Task : blksend'[x] # None =>
            blksend'[x] \in Client /\ state'[blksend'[x]] = "blocked" /\ pc'[blksend'[x]] = "callfull"
    BY <1>0, <1>2, <1>3 DEF ChainInv, Task
  <1>6. \A c \in Client : blksend'[c] # None => state'[c] = "blocked" /\ pc'[c] = "callfull"
    BY <1>0, <1>2 DEF ChainInv, Task
  <1>7. \A x, y \in Task : blksend'[x] # None /\ blksend'[x] = blksend'[y] => x = y
    BY <1>0, <1>2, <1>3 DEF ChainInv
  <1>8. SendersChained'
    <2>. SUFFICES ASSUME NEW t \in Task, state'[t] = "blocked", pc'[t] \in {"callfull", "sendfull"}
                  PROVE  \E x \in Task \ {t} : blksend'[x] = t
      BY DEF SendersChained
    <2>1. CASE t = a
      BY <1>0, <1>2, <2>1
    <2>2. CASE t # a
      <3>1. PICK x \in Task \ {t} : blksend[x] = t
        BY <1>2, <2>2 DEF ChainInv, SendersChained
      <3>. QED BY <1>0, <1>2, <1>3, <2>2, <3>1, TaskAssumption
    <2>. QED BY <2>1, <2>2
  <1>. QED BY <1>4, <1>5, <1>6, <1>7, <1>8 DEF ChainInv

(* msg_recv wakes the first of the chain, and the others stay on it. *)
LEMMA ChainWake ==
  ASSUME BaseInv, ChainInv, NEW t \in Task, msg_recv(t)
  PROVE  ChainInv'
  <1>0. pc[t] = "recv" /\ None \notin Task
    BY TaskAssumption DEF msg_recv
  <1>1. PICK found \in BOOLEAN : WakeSender(t, found)
    BY DEF msg_recv, RecvAny, RecvAnswer, Received, NotReceived
  <1>2. pc'[t] \in {"recv", "use"} /\ \A x \in Task \ {t} : pc'[x] = pc[x]
    BY <1>0 DEF msg_recv, RecvAny, RecvAnswer, Received, NotReceived, user, BaseInv, TaskOK
  <1>. DEFINE s == blksend[t]
  <1>3. CASE s = None
    <2>1. UNCHANGED blksend /\ \A x \in Task \ {t} : state'[x] = state[x]
      BY <1>1, <1>3 DEF WakeSender, BaseInv, TaskOK
    <2>2. \A r \in Server : pc'[r] # "sendfull"
      BY <1>2 DEF ChainInv, Task
    <2>. QED BY <1>0, <1>2, <2>1, <2>2, ChainSame
  <1>4. CASE s # None
    <2>1. s \in Client /\ s \in Task /\ state[s] = "blocked" /\ pc[s] = "callfull" /\ s # t
      BY <1>0, <1>4 DEF ChainInv, Task
    <2>2. /\ blksend'[t] = blksend[s] /\ blksend'[s] = None
          /\ \A x \in Task \ {s, t} : blksend'[x] = blksend[x]
      BY <1>1, <1>4, <2>1 DEF WakeSender, BaseInv, TaskOK
    <2>3. state'[s] = "running" /\ \A x \in Task \ {s, t} : state'[x] = state[x]
      BY <1>1, <1>4, <2>1 DEF WakeSender, BaseInv, TaskOK
    <2>4. \A x \in Task : blksend[x] = s => x = t
      BY <1>4 DEF ChainInv
    <2>5. blksend[s] # s
      BY <2>1, <2>4
    <2>6. \A r \in Server : pc'[r] # "sendfull"
      BY <1>2 DEF ChainInv, Task
    <2>7. \A x \in Task : blksend'[x] # None =>
              blksend'[x] \in Client /\ state'[blksend'[x]] = "blocked" /\ pc'[blksend'[x]] = "callfull"
      <3>. SUFFICES ASSUME NEW x \in Task, blksend'[x] # None
                    PROVE  /\ blksend'[x] \in Client
                           /\ state'[blksend'[x]] = "blocked" /\ pc'[blksend'[x]] = "callfull"
        OBVIOUS
      <3>1. PICK y \in Task : blksend'[x] = blksend[y] /\ blksend[y] # s
        BY <2>1, <2>2, <2>4, <2>5
      <3>2. blksend[y] \in Client /\ state[blksend[y]] = "blocked" /\ pc[blksend[y]] = "callfull"
        BY <3>1 DEF ChainInv
      <3>3. blksend[y] \in Task \ {s, t}
        BY <1>0, <3>1, <3>2 DEF Task
      <3>. QED BY <1>2, <2>3, <3>1, <3>2, <3>3
    <2>8. \A c \in Client : blksend'[c] # None => state'[c] = "blocked" /\ pc'[c] = "callfull"
      <3>. SUFFICES ASSUME NEW c \in Client, blksend'[c] # None
                    PROVE  state'[c] = "blocked" /\ pc'[c] = "callfull"
        OBVIOUS
      <3>1. c \in Task /\ c # s
        BY <2>2 DEF Task
      <3>2. c # t
        BY <1>0, <1>4 DEF ChainInv
      <3>. QED BY <1>2, <2>2, <2>3, <3>1, <3>2 DEF ChainInv
    <2>9. \A x, y \in Task : blksend'[x] # None /\ blksend'[x] = blksend'[y] => x = y
      BY <2>1, <2>2, <2>4 DEF ChainInv
    <2>10. SendersChained'
      <3>. SUFFICES ASSUME NEW u \in Task, state'[u] = "blocked", pc'[u] \in {"callfull", "sendfull"}
                    PROVE  \E x \in Task \ {u} : blksend'[x] = u
        BY DEF SendersChained
      <3>1. u # s /\ u # t
        BY <1>2, <2>3
      <3>2. PICK x \in Task \ {u} : blksend[x] = u
        BY <1>2, <2>3, <3>1 DEF ChainInv, SendersChained
      <3>. QED BY <2>1, <2>2, <3>1, <3>2
    <2>. QED BY <2>6, <2>7, <2>8, <2>9, <2>10 DEF ChainInv
  <1>. QED BY <1>3, <1>4

(* Every step keeps the chain. *)
LEMMA ChainStep ==
  ASSUME Synchronous, BaseInv, ServerInv, CallInv, ChainInv, [Next]_vars
  PROVE  ChainInv'
  <1>0. \A t \in Task : t \in Client <=> t \notin Server
    BY TaskAssumption DEF Task
  <1>1. ASSUME NEW c \in Client, NEW s \in Server, mq_call(c, s) PROVE ChainInv'
    <2>0. c \in Task /\ s \in Task /\ c # s /\ pc[c] = "ready" /\ state[c] = "running"
      BY <1>0, <1>1 DEF mq_call, Task
    <2>1. CASE msg_send_full(c, s) /\ pc' = [pc EXCEPT ![c] = "callfull"]
      BY <2>0, <2>1, ChainFull
    <2>2. CASE Sends(c, s) /\ pc' = [pc EXCEPT ![c] = "recv"]
      <3>1. UNCHANGED blksend /\ state' = [state EXCEPT ![s] = "running"]
        BY <2>2 DEF Sends, msg_send, sched_awake
      <3>2. pc[s] \in {"recv", "use"}
        BY DEF ServerInv, ChainInv
      <3>3. \A r \in Server : pc'[r] # "sendfull"
        BY <1>0, <2>0, <2>2 DEF ChainInv, BaseInv, TaskOK, Task
      <3>. QED BY <2>0, <2>2, <3>1, <3>2, <3>3, ChainSame DEF BaseInv, TaskOK
    <2>. QED BY <1>1, <2>1, <2>2 DEF mq_call, Sends
  <1>2. ASSUME NEW d \in Notified, msg_notify(d) PROVE ChainInv'
    <2>1. d \in Server /\ d \in Task
      BY TaskAssumption DEF Synchronous, Task
    <2>2. UNCHANGED <<blksend, pc>> /\ state' = [state EXCEPT ![d] = "running"]
      BY <1>2 DEF msg_notify, sched_awake, user
    <2>3. pc[d] \in {"recv", "use"}
      BY <2>1 DEF ServerInv, ChainInv
    <2>4. \A r \in Server : pc'[r] # "sendfull"
      BY <2>2 DEF ChainInv
    <2>. QED BY <2>1, <2>2, <2>3, <2>4, ChainSame DEF BaseInv, TaskOK
  <1>3. ASSUME NEW s \in Server, Dispatch(s) PROVE ChainInv'
    <2>. DEFINE a == slot[s][got[s]].from
    <2>0. s \in Task /\ pc[s] = "use" /\ state[s] = "running"
      BY <1>3 DEF Dispatch, Task
    <2>1. CASE slot[s][got[s]].kind = "req" /\ Sends(s, a) /\ pc' = [pc EXCEPT ![s] = "recv"]
      <3>1. a \in Task /\ pc[a] = "recv"
        BY <2>0, <2>1, AnswerFits
      <3>2. UNCHANGED blksend /\ state' = [state EXCEPT ![a] = "running"]
        BY <2>1 DEF Sends, msg_send, sched_awake
      <3>3. \A r \in Server : pc'[r] # "sendfull"
        BY <2>0, <2>1 DEF ChainInv, BaseInv, TaskOK, Task
      <3>. QED BY <2>0, <2>1, <3>1, <3>2, <3>3, ChainSame DEF BaseInv, TaskOK
    <2>2. CASE slot[s][got[s]].kind = "req" /\ msg_send_full(s, a)
      BY <2>0, <2>2, AnswerFits DEF msg_send_full
    <2>3. CASE UNCHANGED <<blksend, state>> /\ pc' = [pc EXCEPT ![s] = "recv"]
      <3>1. \A r \in Server : pc'[r] # "sendfull"
        BY <2>0, <2>3 DEF ChainInv, BaseInv, TaskOK, Task
      <3>. QED BY <2>0, <2>3, <3>1, ChainSame DEF BaseInv, TaskOK
    <2>. QED BY <1>3, <2>1, <2>2, <2>3 DEF Dispatch, Sends
  <1>4. ASSUME NEW t \in Task, Resume(t) \/ (t \in Client /\ Use(t)) PROVE ChainInv'
    <2>1. UNCHANGED <<blksend, state>> /\ state[t] = "running"
      BY <1>4 DEF Resume, Use
    <2>2. \A x \in Task \ {t} : pc'[x] = pc[x]
      BY <1>4 DEF Resume, Use, BaseInv, TaskOK
    <2>3. pc'[t] # "sendfull"
      BY <1>4 DEF Resume, Use, BaseInv, TaskOK
    <2>4. \A r \in Server : pc'[r] # "sendfull"
      BY <2>2, <2>3 DEF ChainInv, Task
    <2>. QED BY <2>1, <2>2, <2>4, ChainSame
  <1>5. CASE UNCHANGED vars
    BY <1>5, ChainSame DEF vars, ChainInv
  <1>. QED BY <1>1, <1>2, <1>3, <1>4, <1>5, ChainWake DEF Next, Step, Synchronous

(* Whoever is blocked in msg_send is on the chain of somebody who will     *)
(* wake it, for any number of clients that only use mq_call, also when     *)
(* queues overflow; as long as no queue is rewound.                        *)
THEOREM BlockedSendersChained ==
  ASSUME Synchronous
  PROVE  Spec /\ []NoRewind => []SendersChained
  <1>. DEFINE Inv == BaseInv /\ ServerInv /\ CallInv /\ ChainInv
  <1>1. Init => Inv
    <2>1. ASSUME Init PROVE ChainInv
      <3>1. \A t \in Task : blksend[t] = None /\ state[t] = "running" /\ pc[t] \in {"recv", "ready"}
        BY <2>1 DEF Init
      <3>. QED BY <3>1 DEF ChainInv, SendersChained, Task
    <2>. QED BY <2>1, BaseInit, ServerInit, CallInit
  <1>2. Inv /\ NoRewind /\ [Next]_vars => Inv'
    BY BaseStep, ServerStep, CallStep, ChainStep
  <1>3. Inv => SendersChained
    BY DEF ChainInv
  <1>. QED BY <1>1, <1>2, <1>3, PTL DEF Spec
-----------------------------------------------------------------------------
(* Programs that do not let too many messages pile up never fill a queue.  *)
Bounded == MaxPending + 2 < MQ_MAX /\ 3 < MQ_MAX

PendingInv == \A s \in Server : Pending(s) <= MaxPending

(* One more message makes a queue at most one longer, and taking the one   *)
(* in slot k makes it shorter.                                             *)
LEMMA PendingArc ==
  /\ \A a, b \in Index : Dist(a, Succ(b)) <= Dist(a, b) + 1
  /\ \A a, b \in Index : \A k \in Arc(a, b) : Dist(Succ(k), b) <= Dist(a, b)
  /\ \A a \in Index : Dist(a, a) = 0
  BY QueueAssumption DEF Arc, Dist, Succ, Index

(* A write or a failed send to a service that has less than the bound. *)
LEMMA PendingGrows ==
  ASSUME BaseInv, NoRewind, NEW d \in Task, Pending(d) < MaxPending,
         (\E src, kind, serial : Put(d, src, kind, serial)) \/ (\E src \in Task : msg_send_full(src, d))
  PROVE  Pending(d)' <= MaxPending
  <1>1. Start(d) \in Index /\ End(d) \in Index /\ Succ(End(d)) \in Index /\ ~Rewind(d)
    BY QueueShape, RingType DEF BaseInv, NoRewind
  <1>2. mq_start'[d] = Start(d) /\ mq_end'[d] = Succ(End(d))
    BY <1>1 DEF Put, msg_send_full, NextEnd, BaseInv, QueueOK
  <1>3. Start(d)' = Start(d) /\ End(d)' = Succ(End(d))
    BY <1>1, <1>2 DEF Start, End, Index
  <1>4. Pending(d)' = Dist(Start(d), Succ(End(d)))
    BY <1>3 DEF Pending
  <1>5. Dist(Start(d), Succ(End(d))) \in Nat /\ Dist(Start(d), End(d)) \in Nat
    BY <1>1, RingType
  <1>. QED BY <1>1, <1>4, <1>5, PendingArc, QueueAssumption DEF Pending

(* Every other step leaves a queue as long as it is, or makes it shorter. *)
LEMMA PendingStep ==
  ASSUME Synchronous, BaseInv, ServerInv, CallInv, NoRewind, PendingInv, [Next]_vars
  PROVE  PendingInv'
  <1>. SUFFICES ASSUME NEW s \in Server PROVE Pending(s)' <= MaxPending
    BY DEF PendingInv, Pending, Dist
  <1>0. s \in Task /\ Pending(s) <= MaxPending /\ s \notin Client
    BY TaskAssumption DEF PendingInv, Task
  <1>1. ASSUME mq_start'[s] = mq_start[s], mq_end'[s] = mq_end[s] PROVE Pending(s)' <= MaxPending
    BY <1>0, <1>1 DEF Pending, Start, End
  <1>2. ASSUME NEW d \in Task, d # s,
               (\E src, kind, serial : Put(d, src, kind, serial)) \/ (\E src \in Task : msg_send_full(src, d))
        PROVE  Pending(s)' <= MaxPending
    <2>1. mq_start'[s] = mq_start[s] /\ mq_end'[s] = mq_end[s]
      BY <1>0, <1>2 DEF Put, msg_send_full, BaseInv, QueueOK
    <2>. QED BY <1>1, <2>1
  <1>3. ASSUME NEW c \in Client, NEW d \in Server, mq_call(c, d) PROVE Pending(s)' <= MaxPending
    <2>1. d \in Task /\ c \in Task /\ Pending(d) < MaxPending
      BY <1>3 DEF mq_call, Allowed, Task
    <2>2. (\E src, kind, serial : Put(d, src, kind, serial)) \/ (\E src \in Task : msg_send_full(src, d))
      BY <1>3, <2>1 DEF mq_call, msg_send
    <2>. QED BY <1>2, <2>1, <2>2, PendingGrows
  <1>4. ASSUME NEW d \in Notified, Allowed(d), msg_notify(d) PROVE Pending(s)' <= MaxPending
    <2>1. d \in Task /\ Pending(d) < MaxPending
      BY <1>4, TaskAssumption DEF Allowed
    <2>2. \E src, kind, serial : Put(d, src, kind, serial)
      BY <1>4 DEF msg_notify
    <2>. QED BY <1>2, <2>1, <2>2, PendingGrows
  <1>5. ASSUME NEW r \in Server, Dispatch(r) PROVE Pending(s)' <= MaxPending
    <2>. DEFINE a == slot[r][got[r]].from
    <2>1. CASE slot[r][got[r]].kind = "req"
      <3>1. a \in Task /\ a # s /\ r \in Task
        BY <1>0, <1>5, <2>1, AnswerFits DEF Dispatch, Task
      <3>2. \/ \E src, kind, serial : Put(a, src, kind, serial)
            \/ \E src \in Task : msg_send_full(src, a)
            \/ UNCHANGED <<mq_start, mq_end>>
        BY <1>5, <3>1 DEF Dispatch, msg_send, queue
      <3>. QED BY <1>1, <1>2, <3>1, <3>2
    <2>2. CASE slot[r][got[r]].kind # "req"
      BY <1>1, <1>5, <2>2 DEF Dispatch, queue
    <2>. QED BY <2>1, <2>2
  <1>6. ASSUME NEW t \in Task, msg_recv(t) PROVE Pending(s)' <= MaxPending
    <2>1. CASE t # s
      BY <1>0, <1>1, <1>6, <2>1, RecvEffect
    <2>2. CASE t = s
      <3>0. /\ RecvAny(s) /\ Start(s) \in Index /\ End(s) \in Index /\ Ring(s) = Arc(Start(s), End(s))
            /\ Live(s) \subseteq Ring(s) /\ Ring(s) \subseteq Index
        BY <1>0, <1>6, <2>2, QueueShape DEF msg_recv, RecvAnswer, ServerInv, BaseInv
      <3>1. ASSUME NEW k \in Live(s), mq_start' = [mq_start EXCEPT ![s] = Succ(k)], UNCHANGED mq_end
            PROVE  Pending(s)' <= MaxPending
        <4>1. k \in Index /\ Succ(k) \in Index /\ k \in Arc(Start(s), End(s))
          BY <3>0, RingType
        <4>2. Start(s)' = Succ(k) /\ End(s)' = End(s)
          BY <1>0, <3>1, <4>1 DEF Start, End, Index, BaseInv, QueueOK
        <4>3. Dist(Succ(k), End(s)) <= Pending(s)
          BY <3>0, <4>1, PendingArc DEF Pending
        <4>4. Dist(Succ(k), End(s)) \in Nat /\ Pending(s) \in Nat
          BY <3>0, <4>1, RingType DEF Pending
        <4>5. Pending(s)' = Dist(Succ(k), End(s))
          BY <4>2 DEF Pending
        <4>. QED BY <1>0, <4>3, <4>4, <4>5, QueueAssumption
      <3>2. CASE mq_start' = [mq_start EXCEPT ![s] = mq_end[s]] /\ UNCHANGED mq_end
        <4>1. mq_start'[s] = mq_end'[s] /\ mq_end'[s] \in 0..(MQ_MAX - 1)
          BY <1>0, <3>2 DEF BaseInv, QueueOK
        <4>2. Start(s)' = End(s)' /\ End(s)' \in Index
          BY <4>1, QueueAssumption DEF Start, End, Index
        <4>3. Pending(s)' = 0
          BY <4>2, PendingArc DEF Pending
        <4>. QED BY <4>3, QueueAssumption
      <3>. QED BY <3>0, <3>1, <3>2 DEF RecvAny, NotReceived
    <2>. QED BY <2>1, <2>2
  <1>7. ASSUME NEW t \in Task, Resume(t) \/ Use(t) PROVE Pending(s)' <= MaxPending
    BY <1>1, <1>7 DEF Resume, Use, queue
  <1>8. CASE UNCHANGED vars
    BY <1>1, <1>8 DEF vars
  <1>. QED BY <1>3, <1>4, <1>5, <1>6, <1>7, <1>8 DEF Next, Step, Synchronous

(* The bound leaves a free slot in every queue. *)
LEMMA RoomFromBound ==
  ASSUME Bounded, BaseInv, CallInv, NoRewind, PendingInv
  PROVE  Room
  <1>. SUFFICES ASSUME NEW t \in Task, Full(t) PROVE FALSE
    BY DEF Room, NoRewind
  <1>1. /\ Start(t) \in Index /\ End(t) \in Index /\ Ring(t) = Arc(Start(t), End(t))
        /\ Succ(End(t)) = Start(t)
    BY QueueShape DEF BaseInv, Full
  <1>2. CASE t \in Server
    <2>1. \A a, b \in Index : Succ(b) = a => Dist(a, b) = MQ_MAX - 2
      BY QueueAssumption DEF Succ, Dist, Index
    <2>2. Pending(t) = MQ_MAX - 2 /\ Pending(t) <= MaxPending
      BY <1>1, <1>2, <2>1 DEF Pending, PendingInv
    <2>. QED BY <2>2, QueueAssumption DEF Bounded
  <1>3. CASE t \in Client
    <2>1. \A a, b \in Index : Succ(b) = a => /\ a \in Arc(a, b) /\ Succ(a) \in Arc(a, b) /\ Succ(a) # a
      BY QueueAssumption DEF Succ, Dist, Index, Arc, Bounded
    <2>. QED BY <1>1, <1>3, <2>1 DEF CallInv, OneCall
  <1>. QED BY <1>2, <1>3 DEF Task

(* No queue ever fills up when programs let at most MaxPending messages    *)
(* wait, three slots fewer than a queue has, and only use mq_call: the     *)
(* condition of the theorems above is met, as long as no queue is rewound. *)
THEOREM RoomWhenBounded ==
  ASSUME Synchronous, Bounded
  PROVE  Spec /\ []NoRewind => []Room
  <1>. DEFINE Inv == BaseInv /\ ServerInv /\ CallInv /\ PendingInv
  <1>1. Init => Inv
    <2>1. ASSUME Init, NEW s \in Server PROVE Pending(s) <= MaxPending
      <3>1. Start(s) = End(s) /\ End(s) \in Index
        BY <2>1, RingType DEF Init, Start, End, Task
      <3>. QED BY <3>1, PendingArc, QueueAssumption DEF Pending
    <2>. QED BY <2>1, BaseInit, ServerInit, CallInit DEF PendingInv
  <1>2. Inv /\ NoRewind /\ [Next]_vars => Inv'
    BY BaseStep, ServerStep, CallStep, PendingStep
  <1>3. Inv /\ NoRewind => Room
    BY RoomFromBound
  <1>. QED BY <1>1, <1>2, <1>3, PTL DEF Spec
=============================================================================
