------------------------------ MODULE Mailbox ------------------------------
(***************************************************************************)
(* What a message queue of OS/Z promises to the tasks that use it: what is *)
(* sent to a task waits there until the task takes it, in the order it was *)
(* sent, or out of order when the task asks for the answer with a given    *)
(* serial.  Nothing is lost, duplicated or changed.                        *)
(***************************************************************************)
EXTENDS Integers

CONSTANTS Task,     \* the tasks, each with one mailbox
          Any         \* the request for whatever comes first

VARIABLES box,      \* the messages waiting for each task, with their number
          sent,     \* the number of the last message
          asked     \* the serial each task waits for, or Any

vars == <<box, sent, asked>>

Init == box = [t \in Task |-> {}] /\ sent = 0 /\ asked = [t \in Task |-> Any]

(* A message m, with the next number, appears in the box of t; its sender  *)
(* may go on to wait for an answer.                                        *)
Send(t) ==
    /\ sent' = sent + 1
    /\ \E m \in box'[t] : /\ m.id = sent + 1
                         /\ box' = [box EXCEPT ![t] = @ \union {m}]

(* A task changes its mind about what it waits for. *)
Ask == UNCHANGED <<box, sent>>

(* The task takes what has been waiting longest. *)
TakeFirst(t) ==
    /\ asked[t] = Any
    /\ \E m \in box[t] :
          /\ \A n \in box[t] : m.id <= n.id
          /\ box' = [box EXCEPT ![t] = @ \ {m}]
    /\ UNCHANGED <<sent, asked>>

(* The task takes the answer it waits for, the last one with that serial. *)
TakeAnswer(t) ==
    /\ \E m \in box[t] :
          /\ m.serial = asked[t]
          /\ \A n \in box[t] : n.serial = m.serial => n.id <= m.id
          /\ box' = [box EXCEPT ![t] = @ \ {m}]
    /\ UNCHANGED <<sent, asked>>

Next == Ask \/ \E t \in Task : Send(t) \/ TakeFirst(t) \/ TakeAnswer(t)

Spec == Init /\ [][Next]_vars
=============================================================================
