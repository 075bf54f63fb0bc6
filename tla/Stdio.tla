------------------------------- MODULE Stdio --------------------------------
(***************************************************************************)
(* The calls of libc that go to the file system task, src/libc/stdio.c, in *)
(* the tasks that make them, composed with that task (FsTask).             *)
(*                                                                         *)
(* A call is a record like a request of FsTask with the name of the libc   *)
(* function and with refused = TRUE when the function does not accept its  *)
(* arguments (no name, a buffer that would have to be shared).  It sends   *)
(* one or more requests and waits for each answer (mq_call).  The error of *)
(* an answer stays in the message: mq_call sets errn only when the message *)
(* could not be sent (x86_64/stdlib.S:72-84), so errn is what the last     *)
(* refused call or the last mq_send left.                                  *)
(* A member of Loads has one more field here: calls, the calls of each     *)
(* task.                                                                   *)
(***************************************************************************)
EXTENDS FsTask

VARIABLES client,  \* the call of each task
          held     \* streams a task was given and did not close: a history

svars == <<vars, client, held>>

NoCall == [fn |-> "none"]
Idle == [call |-> NoCall, round |-> 0, got |-> 0, errn |-> "none", failed |-> FALSE]
NULL == 0
Ptr == 1

\* What each function returns when errn is set.
FailValue(fn) ==
    CASE fn \in {"mknod", "chroot", "chdir", "mount", "umount", "ioctl", "fclose", "fcloseall",
                 "fseek", "fflush", "opendir", "closedir"} -> -1
      [] fn \in {"feof", "ferror"} -> 1
      [] OTHER -> 0

Fn(c) == CASE c.fn = "freopen" -> "fopen"
           [] c.fn = "closedir" -> "fclose"
           [] c.fn \in {"fgetc", "readdir"} -> "fread"
           [] c.fn \in {"fputc", "puts", "vfprintf"} -> "fwrite"
           [] OTHER -> c.fn

\* A stream of freopen and of dup2 is in to.  vfprintf writes the terminator.
Size(c) == CASE c.fn = "fgetc" -> 1
             [] c.fn = "vfprintf" -> c.n + 1
             [] OTHER -> c.n

FirstRequest(c) == [c EXCEPT !.fn = Fn(c), !.n = Size(c)]

Newline(c) == [c EXCEPT !.fn = "fwrite", !.n = 1]

----------------------------------------------------------------------------
(* What follows an answer: the next request, or the value returned.        *)

More(r) == [more |-> TRUE, req |-> r, val |-> 0]
Return(v) == [more |-> FALSE, req |-> NoMsg, val |-> v]

Value_index(c, ret) == IF c.fn = "dup" THEN ret + 1 ELSE ret

\* The functions that return a pointer copy what the answer points to; a
\* statbuf and a dirent buffer are their own.
Value(c, ret) ==
    IF c.fn \in {"lstat", "dstat", "fstat", "getcwd", "realpath"} THEN Ptr ELSE ret

Simple(c, k, ans) == Return(IF k.errn # "none" THEN FailValue(c.fn) ELSE Value(c, ans.ret))

\* The newline is written when there is no error.
Puts(c, k, ans) ==
    LET n == IF k.errn # "none" THEN 0 ELSE ans.ret
    IN  IF k.round = 1 /\ k.errn = "none" THEN More(Newline(c)) ELSE Return(k.got + n)

\* As long as a byte came and its high bit is set, the next one goes behind
\* it, up to the fifth.
Fgetc(c, k, ans, high) ==
    IF k.errn = "none" /\ ans.ret # 0 /\ high /\ k.round < 5
    THEN More(FirstRequest(c)) ELSE Return(0)

Readdir(c, k, ans) ==
    IF k.errn # "none" THEN Return(NULL)
    ELSE IF k.round = 1
    THEN IF ans.ret = 0 THEN Return(NULL) ELSE More([c EXCEPT !.fn = "readdir"])
    ELSE Return(Ptr)

\* arg3 of an answer is the serial of the request, never 0: the directory is
\* read and opened again until there is an error.
Opendir(c, k, ans) ==
    IF k.round % 2 = 1 THEN More([c EXCEPT !.fn = "fread", !.fd = ans.ret, !.n = 1])
    ELSE IF k.errn = "none" THEN More([c EXCEPT !.fn = "opendir", !.fd = k.got])
    ELSE Return(-1)

\* The size of the text is arg1 of the answer, where the error is.
Readlink(c, k, ans) ==
    Return(IF k.errn # "none" \/ ans.err = "none" THEN NULL ELSE Ptr)

Goes(c, k, ans, high) ==
    CASE c.fn = "puts" -> Puts(c, k, ans)
      [] c.fn = "fgetc" -> Fgetc(c, k, ans, high)
      [] c.fn = "readdir" -> Readdir(c, k, ans)
      [] c.fn = "opendir" -> Opendir(c, k, ans)
      [] c.fn = "readlink" -> Readlink(c, k, ans)
      [] c.fn = "vfprintf" -> Return(c.n)
      [] OTHER -> Simple(c, k, ans)

Opens == {"fopen", "freopen", "dup", "dup2", "tmpfile"}

\* The streams of a task after a call.
Gives(c, val) == IF c.fn \in Opens /\ val > 0 THEN {val} ELSE {}
Takes(c) == CASE c.fn \in {"fclose", "closedir"} -> {c.fd}
              [] c.fn \in {"freopen", "dup2"} -> {c.to}
              [] OTHER -> {}

\* Each answer that comes out of one step of the file system task.
Answer(h, t) == h.out[Least({i \in DOMAIN h.out : h.out[i].to = t})]
Answered(h) == {t \in Pid : \E i \in DOMAIN h.out : h.out[i].to = t /\ h.out[i].err # "ioctl"}

\* opendir alternates between two requests.
NextRound(k) == IF k.call.fn = "opendir" /\ k.round = 4 THEN 3 ELSE k.round + 1

Continue(k, ans, high) ==
    LET g == Goes(k.call, k, ans, high)
        bad == k.failed \/ ans.err # "none"
    IN  IF g.more
        THEN [k EXCEPT !.round = NextRound(k), !.failed = bad,
                       !.got = IF k.round = 1 THEN ans.ret ELSE @]
        ELSE [k EXCEPT !.call = NoCall, !.round = 0, !.got = 0, !.failed = bad]

\* The request a task in a call sends in this round.
Sends(k) ==
    LET c == k.call
    IN  CASE c.fn = "opendir" /\ k.round % 2 = 0 -> [c EXCEPT !.fn = "fread", !.fd = k.got, !.n = 1]
          [] c.fn = "opendir" /\ k.round > 2 -> [c EXCEPT !.fd = k.got]
          [] c.fn = "readdir" /\ k.round = 2 -> c
          [] c.fn = "puts" /\ k.round = 2 -> Newline(c)
          [] OTHER -> FirstRequest(c)

----------------------------------------------------------------------------
(* Actions *)

\* An argument that is not accepted: nothing is sent.
Refuse(t) ==
    /\ client[t].call = NoCall
    /\ \E c \in load.calls[t] :
         /\ c.refused
         /\ client' = [client EXCEPT ![t] = [@ EXCEPT !.errn = "EINVAL", !.failed = TRUE]]
    /\ UNCHANGED <<vars, held>>

Begin(t) ==
    /\ client[t].call = NoCall
    /\ \E c \in load.calls[t] :
         /\ ~c.refused
         /\ client' = [client EXCEPT ![t] = [@ EXCEPT !.call = c, !.round = 1, !.got = 0, !.failed = FALSE]]
         /\ held' = [held EXCEPT ![t] = @ \ Takes(c)]
    /\ UNCHANGED vars

\* Whoever is answered goes on.
Informed(h) ==
    \E high \in BOOLEAN :
        LET who == {q \in Answered(h) : client[q].call # NoCall}
            val(q) == Goes(client[q].call, client[q], Answer(h, q), high).val
        IN  /\ client' = [q \in Pid |-> IF q \in who THEN Continue(client[q], Answer(h, q), high)
                                        ELSE client[q]]
            /\ held' = [q \in Pid |-> IF q \in who THEN held[q] \union Gives(client[q].call, val(q))
                                      ELSE held[q]]

\* A request that belongs to a call, or one that has no function in stdio.c.
Asks(t) == IF client[t].call # NoCall THEN {Sends(client[t])} ELSE load.reqs[t]

Exchange(t) ==
    /\ s.stuck = "" /\ wait[t] = "no"
    /\ \E r \in Asks(t) : \E h \in Outcomes(t, r) : Take(t, h) /\ Informed(h)

\* External: the task that shows a terminal or drives a device answers.
Outside(t) ==
    /\ client[t].call # NoCall
    /\ \/ DriverAck(t)
       \/ ScreenAck(t)
    /\ client' = [client EXCEPT ![t] = Continue(@, [ret |-> @.call.n, err |-> "none"], FALSE)]
    /\ UNCHANGED held

\* Any mq_send that goes through, to the core or to another task.
Send(t) ==
    /\ client[t].call = NoCall /\ client[t].errn # "none"
    /\ client' = [client EXCEPT ![t].errn = "none"]
    /\ UNCHANGED <<vars, held>>

\* What FsTask does by itself, for a task that is in no call.
Core ==
    /\ \/ SYS_nomem
       \/ \E t \in Pid : client[t].call = NoCall /\ (EVT_exit(t) \/ DriverAck(t) \/ ScreenAck(t))
    /\ UNCHANGED <<client, held>>

SInit ==
    /\ Init
    /\ client = [t \in Pid |-> Idle]
    /\ held = [t \in Pid |-> {}]

SNext ==
    \/ \E t \in Pid : Refuse(t)
    \/ \E t \in Pid : Begin(t)
    \/ \E t \in Pid : Exchange(t)
    \/ \E t \in Pid : Outside(t)
    \/ \E t \in Pid : Send(t)
    \/ Core

SSpec == SInit /\ [][SNext]_svars

----------------------------------------------------------------------------
(* Properties *)

\* A stream that fopen, freopen, dup, dup2 or tmpfile returned stays open for
\* the task until it closes the stream itself, whatever the other tasks do.
StreamsOpen ==
    \A t \in Pid : \A d \in held[t] :
        client[t].call = NoCall => taskctx_validfid(s, t, d)

----------------------------------------------------------------------------
(* What the comments say and the code does not do *)

\* The caller is told of an error of the file system task ("if it is an
\* answer, we set the error code too", core/msg.c:102).
ErrorReported ==
    \A t \in Pid : client[t].call = NoCall /\ client[t].failed => client[t].errn # "none"

\* No descriptor is open that the task does not know of: an error that is
\* still in errn makes fopen return 0 for a file it opened.
NoLeak ==
    \A t \in Pid : s.ctx[t] # NoCtx /\ client[t].call = NoCall => Used(s.ctx[t]) \subseteq held[t]

\* opendir asks again only where the file system task has found a union with
\* a joker (stdio.c:479): a directory is opened by one request.
OpendirOnce ==
    \A t \in Pid : client[t].call # NoCall /\ client[t].call.fn = "opendir" => client[t].round <= 2

\* fgetc keeps to its four bytes (stdio.c:316).
FgetcInBuffer ==
    \A t \in Pid : client[t].call # NoCall /\ client[t].call.fn = "fgetc" => client[t].round <= 4
=============================================================================
