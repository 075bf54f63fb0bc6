------------------------------ MODULE FsTable ------------------------------
(***************************************************************************)
(* The tables of the file system task and the functions that work on them: *)
(* src/fs/fcb.c (file control blocks), pipe.c, taskctx.c (open files of    *)
(* each client), devfs.c and mtab.c.                                       *)
(*                                                                         *)
(* The functions call each other while one message is handled, so each is  *)
(* an operator from the state s of the task to the state it leaves; its    *)
(* result is left in s.ret and its error in s.err.  Numbers are those of   *)
(* the code: a file control block, a pipe and a device count from 0, a     *)
(* descriptor from 1.  A path is a sequence of names, a mode is a set of   *)
(* flags.                                                                  *)
(*                                                                         *)
(* The arrays fcb and pipe are cut and grown with realloc; within one      *)
(* quantum of the allocator the memory stays where it is, so a slot past   *)
(* the end keeps what it held.  That is how it is here: the arrays are     *)
(* functions and only nfcb and npipe move.                                 *)
(*                                                                         *)
(* The driver of the root file system has no write function and the read   *)
(* function is called with ver and inode in each other's place             *)
(* (taskctx.c:497, fcb.c:183, fsz/main.c:302), so no file is ever read or  *)
(* written beyond the checks and the list of a union is never built.  What *)
(* only those paths would reach is left out: the write buffers, the        *)
(* members of a union, block by block reading.                             *)
(***************************************************************************)
EXTENDS Integers, SequencesExt

CONSTANTS Pid,      \* the tasks that send requests
          Driver,   \* those of them that are device drivers
          UI,       \* the user interface task
          Hash,     \* pid & 0xFF of each pid
          Free,     \* abspath == NULL: the slot is free
          MaxFcb,   \* bound: slots of fcb
          MaxPipe   \* bound: slots of pipe

ASSUME PidAssumption ==
    /\ IsFiniteSet(Pid) /\ DOMAIN Hash = Pid
    /\ Driver \subseteq Pid /\ UI \in Pid \ Driver
ASSUME FreeAssumption == Free \notin Pid /\ Free \notin Seq(STRING)
ASSUME TableAssumption == MaxFcb \in Nat /\ MaxFcb >= 6 /\ MaxPipe \in Nat

NOFID == -1          \* -1U
ANONYMOUS == -2      \* (fid_t)-1, not equal to -1U
Nobody == Free       \* no reader: pid 0
ROOTFCB == 0
DEVFCB == 1
Amsk == {"r", "w", "a", "x"}    \* O_AMSK
DEV == <<"dev">>                \* DEVPATH

EmptyFcb == [path |-> Free, nopen |-> 0, type |-> "file", excl |-> FALSE,
             mode |-> {}, storage |-> 0]
EmptyPipe == [reader |-> Nobody, fid |-> 0, nopen |-> 0, rd |-> 0,
              direct |-> FALSE, data |-> <<>>, id |-> 0, wrote |-> 0, got |-> <<>>]
Closed == [fid |-> NOFID, mode |-> {}, offs |-> 0, obj |-> Free]
NoMsg == [fn |-> "none"]
NewCtx == [root |-> ROOTFCB, work |-> ROOTFCB, cwd |-> <<>>, open |-> <<>>,
           nfiles |-> 0, msg |-> NoMsg]
NoCtx == [NewCtx EXCEPT !.root = NOFID]     \* the task is not in the table

Fail(s, e, r) == [s EXCEPT !.err = e, !.ret = r]
Ok(s, r) == [s EXCEPT !.ret = r]
IsFcb(s, i) == i \in 0..(s.nfcb - 1)
LiveFcb(s, i) == IsFcb(s, i) /\ s.fcb[i].path # Free
IsPipe(s, i) == i \in 0..(s.npipe - 1)
Least(S) == CHOOSE i \in S : \A j \in S : i <= j

----------------------------------------------------------------------------
(* fcb.c *)

fcb_get(s, p) ==
    LET hits == {i \in 0..(s.nfcb - 1) : s.fcb[i].path = p}
    IN  IF hits = {} THEN NOFID ELSE Least(hits)

\* The index of the slot is left in ret.  Only the path and the type of the
\* slot are set: mode, nopen and the rest are what the last file left.
fcb_add(s, p, type) ==
    LET free == {i \in 0..s.nfcb : i = s.nfcb \/ s.fcb[i].path = Free}
        i == Least(free)
    IN  IF fcb_get(s, p) # NOFID THEN Ok(s, fcb_get(s, p))
        ELSE Ok([s EXCEPT !.nfcb = IF i = @ THEN @ + 1 ELSE @,
                          !.fcb[i].path = p, !.fcb[i].type = type], i)

\* The length of the table without the free slots at its end.
Shrunk_last(f, n) == Least({m \in 0..n : \A i \in m..(n - 2) : f[i].path = Free})
Shrunk(f, n) == Least({m \in 0..n : \A i \in m..(n - 1) : f[i].path = Free})

fcb_del(s, i) ==
    IF ~LiveFcb(s, i) THEN s
    ELSE IF s.fcb[i].nopen > 1 THEN [s EXCEPT !.fcb[i].nopen = @ - 1]
    ELSE LET f == [s.fcb EXCEPT ![i].nopen = 0, ![i].path = Free]
         IN  [s EXCEPT !.fcb = f, !.nfcb = Shrunk(f, @)]

\* A pass that meets a slot with nopen 0 is followed by another one, and a
\* free slot below a slot in use is met in every pass.
fcb_free_held(s) ==
    [s EXCEPT !.fcb = [i \in DOMAIN @ |-> IF @[i].nopen <= 1 THEN [@[i] EXCEPT !.path = Free] ELSE @[i]]]
fcb_free(s) ==
    LET unused == {i \in 0..(s.nfcb - 1) : s.fcb[i].nopen = 0}
        f == [i \in DOMAIN s.fcb |->
                IF i \in unused THEN [s.fcb[i] EXCEPT !.path = Free] ELSE s.fcb[i]]
        n == IF \E i \in unused : s.fcb[i].path # Free THEN Shrunk(f, s.nfcb) ELSE s.nfcb
    IN  [s EXCEPT !.fcb = f, !.nfcb = n,
                  !.stuck = IF \E i \in unused : i < n THEN "loop" ELSE @]

----------------------------------------------------------------------------
(* pipe.c.  The bytes of a pipe are numbered as they are written; wrote    *)
(* and got are histories of what went in and what was handed to readers.   *)

pipe_add(s, fid) ==
    LET i == Least({j \in 0..s.npipe : j = s.npipe \/ s.pipe[j].nopen = 0})
    IN  Ok([s EXCEPT !.npipe = IF i = @ THEN @ + 1 ELSE @,
                     !.npipes = @ + 1,
                     !.pipe[i] = [@ EXCEPT !.fid = fid, !.reader = Nobody, !.rd = 0,
                                           !.direct = FALSE, !.data = <<>>,
                                           !.id = s.npipes + 1, !.wrote = 0, !.got = <<>>]], i)

pipe_del(s, i) ==
    IF ~IsPipe(s, i) THEN s
    ELSE IF s.pipe[i].nopen > 1 THEN [s EXCEPT !.pipe[i].nopen = @ - 1]
    ELSE LET p == [s.pipe EXCEPT ![i] = [@ EXCEPT !.nopen = 0, !.data = <<>>, !.rd = 0,
                                                  !.direct = FALSE, !.reader = Nobody,
                                                  !.wrote = 0, !.got = <<>>]]
         IN  [s EXCEPT !.pipe = p,
                       !.npipe = Least({m \in 0..@ : \A j \in m..(@ - 1) : p[j].nopen = 0})]

\* The reader holds the pipe until it has been given bytes from the buffer.
\* An empty buffer delays the answer.
pipe_read_again(s, i, size, pid) ==
    IF ~IsPipe(s, i) THEN Fail(s, "EPIPE", 0)
    ELSE IF s.pipe[i].data = <<>>
    THEN Ok([s EXCEPT !.pipe[i].reader = pid, !.delay = TRUE], 0)
    ELSE LET p == s.pipe[i]
             n == IF size < Len(p.data) THEN size ELSE Len(p.data)
         IN  Ok([s EXCEPT !.pipe[i] = [p EXCEPT !.reader = Nobody, !.got = @ \o SubSeq(p.data, 1, n),
                                                !.data = IF n = Len(@) THEN <<>> ELSE @]], n)
pipe_read(s, i, size, pid) ==
    IF ~IsPipe(s, i) THEN Fail(s, "EPIPE", 0)
    ELSE IF s.pipe[i].reader \notin {Nobody, pid} THEN Fail(s, "EACCES", 0)
    ELSE LET p == s.pipe[i]
             n == IF p.rd + size < Len(p.data) THEN size ELSE Len(p.data) - p.rd
             bytes == SubSeq(p.data, p.rd + 1, p.rd + n)
             all == p.rd + n = Len(p.data)
         IN  IF p.data = <<>>
             THEN Ok([s EXCEPT !.pipe[i] = [p EXCEPT !.reader = pid, !.direct = FALSE],
                               !.delay = TRUE], 0)
             ELSE Ok([s EXCEPT !.pipe[i] =
                        [p EXCEPT !.reader = Nobody, !.direct = FALSE,
                                  !.got = @ \o bytes,
                                  !.rd = IF all THEN 0 ELSE p.rd + n,
                                  !.data = IF all THEN <<>> ELSE @]], n)

\* The answer to a reader that was waiting: neither the number of bytes nor
\* the error is where the reader looks for it.
Wake_lost(s, pid) == s
Wake(s, pid) ==
    [s EXCEPT !.out = Append(@, [to |-> pid, ret |-> 0, err |-> "none"]),
              !.ctx[pid].msg = NoMsg]

\* The task that holds the pipe counts as waiting on it when its suspended
\* request is any fread.
pipe_write(s, i, size) ==
    IF ~IsPipe(s, i) THEN Fail(s, "EPIPE", FALSE)
    ELSE LET p == s.pipe[i]
             blocked == /\ p.reader # Nobody /\ s.ctx[p.reader] # NoCtx
                        /\ s.ctx[p.reader].msg.fn = "fread"
             bytes == [k \in 1..size |-> p.wrote + k]
             stored == [s EXCEPT !.pipe[i] = [p EXCEPT !.direct = FALSE, !.data = @ \o bytes,
                                                       !.wrote = @ + size]]
         IN  IF ~blocked THEN Ok(stored, TRUE)
             ELSE IF s.ctx[p.reader].msg.n >= size /\ p.data = <<>> /\ ~p.direct
             THEN Ok(Wake([s EXCEPT !.pipe[i] = [p EXCEPT !.direct = TRUE, !.wrote = @ + size,
                                                          !.got = @ \o bytes]], p.reader), TRUE)
             ELSE Ok(Wake(pipe_read(stored, i, s.ctx[p.reader].msg.n, p.reader), p.reader), TRUE)

----------------------------------------------------------------------------
(* taskctx.c *)

\* A new context becomes the whole chain of its hash: tc is NULL after the walk.
taskctx_get_once(s, pid) ==
    IF s.ctx[pid] # NoCtx THEN s
    ELSE [s EXCEPT !.ctx[pid] = NewCtx, !.fcb[ROOTFCB].nopen = @ + 1]
taskctx_get(s, pid) ==
    IF s.ctx[pid] # NoCtx THEN s
    ELSE [s EXCEPT !.ctx = [q \in Pid |-> IF q = pid THEN NewCtx
                                          ELSE IF Hash[q] = Hash[pid] THEN NoCtx ELSE @[q]],
                   !.fcb[ROOTFCB].nopen = @ + 2]

OpenFile(s, t, d) == s.ctx[t].open[d]

taskctx_validfid(s, t, d) ==
    /\ s.ctx[t] # NoCtx
    /\ d \in 1..Len(s.ctx[t].open)
    /\ LET of == OpenFile(s, t, d)
       IN  /\ of.fid # NOFID
           /\ \/ "fifo" \in of.mode /\ IsPipe(s, of.fid) /\ s.pipe[of.fid].nopen > 0
              \/ "tty" \in of.mode
              \/ LiveFcb(s, of.fid)

\* The descriptor a new open file gets: the one asked for when it is closed,
\* the first one that is closed, or a new one.
Descriptor(s, t, want) ==
    LET open == s.ctx[t].open
    IN  IF want \in 1..Len(open) /\ open[want].fid = NOFID THEN want
        ELSE Least({d \in 1..(Len(open) + 1) : d > Len(open) \/ open[d].fid = NOFID})

OpenMode(m) ==
    LET rd == IF m \intersect {"r", "w"} = {} THEN m \union {"r"} ELSE m
    IN  IF rd \intersect {"c", "a"} # {} THEN rd \union {"w"} ELSE rd

PutFile(s, t, d, of) ==
    [s EXCEPT !.ctx[t].open = IF d > Len(@) THEN Append(@, of) ELSE [@ EXCEPT ![d] = of],
              !.ctx[t].nfiles = @ + 1, !.ret = d]

\* A descriptor for a terminal, a pipe or a file.
OpenTty(s, t, fid, mode, offs, want) ==
    PutFile(s, t, Descriptor(s, t, want), [fid |-> fid, mode |-> mode, offs |-> offs, obj |-> <<"tty">>])
OpenPipe(s, t, i, mode, offs, want) ==
    IF ~IsPipe(s, i) THEN Fail(s, "EPIPE", 0)
    ELSE [PutFile(s, t, Descriptor(s, t, want), [fid |-> i, mode |-> mode, offs |-> offs,
                                                 obj |-> <<"pipe", s.pipe[i].id>>])
            EXCEPT !.pipe[i].nopen = @ + 1]
OpenReg(s, t, fid, mode, offs, want) ==
    PutFile(s, t, Descriptor(s, t, want), [fid |-> fid, mode |-> mode, offs |-> offs, obj |-> s.fcb[fid].path])

CountOpen(o, fid, excl) ==
    IF o.ret = 0 THEN o
    ELSE [o EXCEPT !.fcb[fid].nopen = @ + 1, !.fcb[fid].excl = @ \/ excl]

\* An anonymous pipe and a duplicate of any pipe come with the index of the
\* pipe, and lines 146 to 160 and 212 take it for that of an fcb.
OpenAs(s, t, fid, mode, f, offs, want) ==
    IF s.ctx[t] = NoCtx THEN Fail(s, "ENOENT", 0)
    ELSE IF "tty" \in mode
    THEN IF "fifo" \in mode THEN OpenPipe(s, t, fid, mode, offs, want)
         ELSE OpenTty(s, t, fid, mode, offs, want)
    ELSE IF ~LiveFcb(s, fid) THEN Fail(s, "ENOENT", 0)
    ELSE IF f.excl THEN Fail(s, "EBUSY", 0)
    ELSE IF /\ mode \intersect f.mode \intersect Amsk = {}
            /\ ~(mode \intersect {"a", "c"} # {} /\ "w" \in f.mode)
    THEN Fail(s, "EACCES", 0)
    ELSE IF f.type = "pipe" /\ ~(IsPipe(s, f.storage) /\ s.pipe[f.storage].fid = fid)
    THEN Fail(s, "EPIPE", 0)
    ELSE CountOpen(IF f.type = "pipe" THEN OpenPipe(s, t, f.storage, mode \union {"fifo"}, offs, want)
                   ELSE IF "fifo" \in mode THEN OpenPipe(s, t, fid, mode, offs, want)
                   ELSE OpenReg(s, t, fid, mode, offs, want),
                   fid, "x" \in mode \union f.mode)

taskctx_open(s, t, fid, m, offs, want) == OpenAs(s, t, fid, OpenMode(m), s.fcb[fid], offs, want)

fcb_flush(s, i) ==
    IF ~IsFcb(s, i) THEN Fail(s, "EFAULT", FALSE)
    ELSE IF s.fcb[i].type # "file" THEN Fail(s, "EBADF", FALSE)
    ELSE IF "w" \notin s.fcb[i].mode THEN Fail(s, "EACCES", FALSE)
    ELSE Fail(s, "EROFS", FALSE)

\* The pipe of a descriptor that is closed: the fcb of a named pipe is
\* released with it, that of an anonymous one, whose number is not in the
\* table, is not.
ClosePipe(s, t, d) ==
    LET i == OpenFile(s, t, d).fid
        p == s.pipe[i]
        freed == pipe_del([s EXCEPT !.pipe[i].reader = IF @ = t THEN Nobody ELSE @], i)
    IN  IF p.fid = 0 THEN freed
        ELSE [freed EXCEPT !.ctx[t].open[d].fid = p.fid]

CloseReg(s, i, flush) ==
    IF ~IsFcb(s, i) THEN s
    ELSE fcb_del([(IF flush THEN fcb_flush(s, i) ELSE s) EXCEPT !.fcb[i].excl = FALSE], i)

\* The descriptor is free; free ones at the end are cut off.
DropFile(s, t, open, dontfree) ==
    LET last == Least({m \in 0..Len(open) : \A e \in (m + 1)..Len(open) : open[e].fid = NOFID})
    IN  [s EXCEPT !.ctx[t].open = IF dontfree THEN open ELSE SubSeq(open, 1, last),
                  !.ctx[t].nfiles = @ - 1, !.ret = TRUE]

CloseFile(s, t, d, mode) ==
    IF "tty" \in mode THEN s
    ELSE CloseReg(s, OpenFile(s, t, d).fid, "w" \in mode /\ "fifo" \notin mode)

taskctx_close(s, t, d, dontfree) ==
    IF ~taskctx_validfid(s, t, d) THEN Ok(s, FALSE)
    ELSE LET mode == OpenFile(s, t, d).mode
             closed == CloseFile(IF "fifo" \in mode THEN ClosePipe(s, t, d) ELSE s, t, d, mode)
         IN  DropFile(closed, t, [s.ctx[t].open EXCEPT ![d] = Closed], dontfree)

\* Every descriptor from the first: the loops of EVT_exit and SYS_fcloseall.
CloseAll(s, t) ==
    LET closed[d \in 0..Len(s.ctx[t].open)] ==
            IF d = 0 THEN s ELSE taskctx_close(closed[d - 1], t, d, FALSE)
    IN  closed[Len(s.ctx[t].open)]

FileSize == 1       \* of every file of the root file system

taskctx_seek(s, t, d, offs, whence) ==
    LET of == OpenFile(s, t, d)
        pos == CASE whence = "cur" -> of.offs + offs
                 [] whence = "end" -> FileSize + offs
                 [] OTHER -> offs
    IN  IF ~taskctx_validfid(s, t, d) THEN Fail(s, "EBADF", FALSE)
        ELSE IF {"tty", "fifo"} \intersect of.mode # {} \/ s.fcb[of.fid].type # "file"
        THEN Fail(s, "ESPIPE", FALSE)
        ELSE IF "a" \in of.mode THEN Fail(s, "EACCES", FALSE)
        ELSE IF pos < 0 THEN Fail([s EXCEPT !.ctx[t].open[d].offs = 0], "EINVAL", FALSE)
        ELSE Ok([s EXCEPT !.ctx[t].open[d].offs = pos], TRUE)

\* The driver of the file system is asked for inode 0 and answers with the
\* end of the file.  fsck.dev is 0, the storage of a directory nobody set.
taskctx_read(s, t, d, size) ==
    LET of == OpenFile(s, t, d)
        f == s.fcb[of.fid]
    IN  IF ~taskctx_validfid(s, t, d) THEN Fail(s, "EBADF", 0)
        ELSE IF "fifo" \in of.mode THEN pipe_read(s, of.fid, size, t)
        ELSE IF of.fid = DEVFCB /\ "dir" \in of.mode
        THEN Ok(s, IF of.offs < Len(s.dev) THEN 1 ELSE 0)
        ELSE IF "r" \notin f.mode THEN Fail(s, "EACCES", 0)
        ELSE IF f.type = "pipe" THEN Ok(s, 0)
        ELSE IF f.storage = 0 THEN Fail(s, "EBUSY", 0)
        ELSE IF f.type = "dev" THEN Fail(s, "EACCES", 0)
        ELSE Ok(s, 0)

\* Bytes for a terminal go to the user interface and the answer waits.
taskctx_write(s, t, d, size) ==
    LET of == OpenFile(s, t, d)
        f == s.fcb[of.fid]
    IN  IF ~taskctx_validfid(s, t, d) THEN Fail(s, "EBADF", 0)
        ELSE IF {"w", "a"} \intersect of.mode = {} THEN Fail(s, "EACCES", 0)
        ELSE IF "fifo" \in of.mode THEN Ok(pipe_write(s, of.fid, size), size)
        ELSE IF "tty" \in of.mode THEN Ok([s EXCEPT !.delay = TRUE], size)
        ELSE IF "w" \notin f.mode THEN Fail(s, "EACCES", 0)
        ELSE CASE f.type = "file" -> Fail(s, IF f.storage = 0 THEN "EBUSY" ELSE "EROFS", 0)
               [] f.type \in {"dir", "uni"} -> Fail(s, "EPERM", 0)
               [] OTHER -> Ok(s, 0)

----------------------------------------------------------------------------
(* devfs.c.  dev is a sequence, the device i of the code is dev[i + 1].    *)

\* The names of all devices are compared, that of a removed one through
\* fcb[-1U].
devfs_add(s, name, task, mode) ==
    LET path == Append(DEV, name)
        same == {i \in DOMAIN s.dev : s.dev[i].fid # NOFID /\ s.fcb[s.dev[i].fid].path = path}
        gone == {i \in DOMAIN s.dev : s.dev[i].fid = NOFID}
        a == fcb_add(s, path, "dev")
        f == a.ret
    IN  IF gone # {} /\ (same = {} \/ Least(gone) < Least(same)) THEN [s EXCEPT !.stuck = "fault"]
        ELSE IF same # {} THEN s
        ELSE [a EXCEPT !.fcb[f].nopen = @ + 1, !.fcb[f].mode = mode \intersect Amsk,
                       !.fcb[f].storage = DEVFCB,
                       !.dev = Append(@, [fid |-> f, task |-> task])]

\* The mounts of a device go, in order; the one behind a mount that goes takes
\* its place and is passed over.
Unmounted(s, fd, i) ==
    IF i <= Len(s.mtab) /\ s.mtab[i].st = fd
    THEN [fcb_del(s, s.mtab[i].mp) EXCEPT !.mtab = RemoveAt(@, i)]
    ELSE s
LetGo(s, fd) ==
    LET done[i \in 0..Len(s.mtab)] == IF i = 0 THEN s ELSE Unmounted(done[i - 1], fd, i)
    IN  done[Len(s.mtab)]

\* The slots of its files are freed whatever their counts.
Emptied(s, i) == fcb_del([s EXCEPT !.fcb[i].nopen = 0], i)
EmptySlot(s, fd, i) ==
    IF IsFcb(s, i) /\ s.fcb[i].type \in {"file", "dir", "dev"} /\ s.fcb[i].storage = fd
    THEN Emptied(s, i) ELSE s
EmptyAll(s, fd) ==
    LET done[n \in 0..s.nfcb] == IF n = 0 THEN s ELSE EmptySlot(done[n - 1], fd, n - 1)
    IN  done[s.nfcb]

\* Files and mounts of the device go, open descriptors stay.
devfs_del(s, i) ==
    LET fd == s.dev[i].fid
        dev == [s.dev EXCEPT ![i].fid = NOFID]
        n == Least({k \in 0..Len(dev) : \A e \in (k + 1)..Len(dev) : dev[e].fid = NOFID})
    IN  [Emptied(EmptyAll(LetGo(s, fd), fd), fd) EXCEPT !.dev = SubSeq(dev, 1, n)]

\* The devices of a driver that exits.  One that is already removed but not
\* the last of the list has no slot.
DropDevice(s, pid, i) ==
    IF ~(i <= Len(s.dev) /\ s.dev[i].task = pid) THEN s
    ELSE IF s.dev[i].fid = NOFID THEN [s EXCEPT !.stuck = "fault"]
    ELSE devfs_del(s, i)
DropDevices(s, pid) ==
    LET done[i \in 0..Len(s.dev)] == IF i = 0 THEN s ELSE DropDevice(done[i - 1], pid, i)
    IN  done[Len(s.dev)]

----------------------------------------------------------------------------
(* mtab.c *)

RootDevice == Append(DEV, "root")

\* The only devices with a file system are the ramdisk and the list of
\* devices itself: cache_getblock gives no block of an empty line (cache.c:84).
fsdrv_detect(s, fd) == fd = DEVFCB \/ s.fcb[fd].path = RootDevice

\* Every way out of the function returns -1.
mtab_add(s, devpath, file) ==
    LET fd == fcb_get(s, devpath)
        ff == fcb_get(s, file)
        over == {i \in DOMAIN s.mtab : s.mtab[i].mp = ff}
        ent == [mp |-> ff, st |-> fd]
        a == IF over = {}
             THEN [s EXCEPT !.mtab = Append(@, ent), !.fcb[ff].nopen = @ + 1]
             ELSE LET i == Least(over)
                  IN  [s EXCEPT !.mtab[i] = ent, !.fcb[s.mtab[i].st].nopen = @ - 1]
        b == [a EXCEPT !.fcb[ff].mode = IF ff = DEVFCB THEN {"r"} ELSE a.fcb[fd].mode,
                       !.fcb[ff].storage = IF ff = DEVFCB THEN @ ELSE fd]
    IN  IF fd = NOFID \/ (fd # DEVFCB /\ s.fcb[fd].type \notin {"dev", "file"})
        THEN Fail(s, "ENODEV", NOFID)
        ELSE IF ff = NOFID \/ s.fcb[ff].type # "dir" THEN Fail(s, "ENOTDIR", NOFID)
        ELSE IF fd = ff \/ (ff # ROOTFCB /\ s.mtab = <<>>) THEN Fail(s, "EINVAL", NOFID)
        ELSE IF ~fsdrv_detect(s, fd)
        THEN IF s.mtab = <<>> THEN [s EXCEPT !.stuck = "exit"] ELSE Fail(s, "ENOFS", NOFID)
        ELSE Ok([b EXCEPT !.fcb[fd].nopen = @ + 1], NOFID)

mtab_del(s, path) ==
    LET hit == {i \in DOMAIN s.mtab : path \in {s.fcb[s.mtab[i].st].path, s.fcb[s.mtab[i].mp].path}}
    IN  IF hit = {} THEN Ok(s, NOFID)
        ELSE Ok([s EXCEPT !.mtab = RemoveAt(@, Least(hit))], 0)
============================================================================
