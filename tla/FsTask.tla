------------------------------- MODULE FsTask -------------------------------
(***************************************************************************)
(* The file system task, src/fs/main.c: one message is taken, handled to   *)
(* its end and answered, or kept in the context of its sender when the     *)
(* answer has to wait.  lookup and canonize are those of src/fs/vfs.c.     *)
(*                                                                         *)
(* A request is a record with the fields the handlers read:                *)
(*   fn    the function asked for                                          *)
(*   path  [abs, names] of the file, or of the mount point                 *)
(*   path2 names of the device of a mount                                  *)
(*   fd, to  descriptors (to is NOFID when the caller gives none)          *)
(*   mode  a set of flags, n a number of bytes or an offset                *)
(*   whence  of a seek,  pid  a task named in the message                  *)
(* A client waits in mq_call until it is answered, so it has one request   *)
(* at a time.  The answers of terminals and devices come from other tasks  *)
(* and are actions of their own.                                           *)
(***************************************************************************)
EXTENDS FsTable, TLC

CONSTANTS Tree,     \* what locate of the root file system finds: names -> [type, to]
          Loads,    \* what the tasks do: a set of records
                    \*   boot   sequence of [t, r], requests handled before the first state
                    \*   reqs   the requests each task may send
                    \*   exits  the tasks that may exit
                    \*   low    TRUE when memory may run low
                    \*   open   bound: descriptors of a task
          MaxLinks, \* bound: links and union members followed in one lookup
          MaxBytes, \* bound: bytes written into a pipe
          MaxNopen  \* bound: references to one slot

\* What a client can send: the flags of a mode are those of libc's fopen, and
\* a number of bytes is not negative.
IsRequest(r) ==
    /\ r \in [fn : STRING, path : [abs : BOOLEAN, names : Seq(STRING)], path2 : Seq(STRING),
              fd : Nat \union {NOFID}, to : Nat \union {NOFID}, mode : SUBSET (Amsk \union {"c"}),
              n : Int, whence : STRING, pid : Pid]
    /\ r.fn \in {"fread", "fwrite", "evtty"} => r.n \in Nat

ASSUME LoadsAssumption ==
    \A l \in Loads :
        /\ l.open \in Nat
        /\ \A t \in Pid : \A r \in l.reqs[t] : IsRequest(r)
        /\ Len(l.boot) \in Nat
        /\ \A k \in 1..Len(l.boot) : l.boot[k].t \in Pid /\ IsRequest(l.boot[k].r)

VARIABLES s,    \* the tables of the task
          wait, \* whose answer each task waits for
          load  \* the member of Loads that is going on

vars == <<s, wait, load>>

\* The root file system is mounted from the ramdisk, device fcb 3.
MEMFS == "memfs"
RAMDISK == 3
Start ==
    [fcb |-> [i \in 0..MaxFcb |->
                CASE i = 0 -> [EmptyFcb EXCEPT !.path = <<>>, !.nopen = 1, !.type = "dir",
                                               !.mode = {"r", "w"}, !.storage = RAMDISK]
                  [] i = 1 -> [EmptyFcb EXCEPT !.path = DEV, !.nopen = 2, !.type = "dir", !.mode = {"r"}]
                  [] i \in 2..5 ->
                       [EmptyFcb EXCEPT !.path = Append(DEV, <<"zero", "root", "random", "null">>[i - 1]),
                                        !.nopen = IF i = RAMDISK THEN 2 ELSE 1, !.type = "dev",
                                        !.mode = <<{"r"}, {"r", "w"}, {"r"}, {"w"}>>[i - 1],
                                        !.storage = DEVFCB]
                  [] OTHER -> EmptyFcb],
     nfcb |-> 6, pipe |-> [i \in 0..MaxPipe |-> EmptyPipe], npipe |-> 0, npipes |-> 0,
     dev |-> [i \in 1..4 |-> [fid |-> i + 1, task |-> MEMFS]],
     mtab |-> <<[mp |-> ROOTFCB, st |-> RAMDISK], [mp |-> DEVFCB, st |-> DEVFCB]>>,
     ctx |-> [t \in Pid |-> NoCtx], nomem |-> FALSE,
     err |-> "none", ret |-> 0, delay |-> FALSE, out |-> <<>>, stuck |-> ""]

----------------------------------------------------------------------------
(* vfs.c *)

\* A path as a sequence of names; Free when the directory it starts from is
\* gone.
canonize(st, t, path) ==
    LET from == st.fcb[IF path.abs THEN st.ctx[t].root ELSE st.ctx[t].work].path
    IN  IF from = Free THEN Free ELSE from \o path.names

\* The mount with the longest mount point above p; the first one when none is.
MountOf(st, p) ==
    LET above == {i \in DOMAIN st.mtab : /\ st.fcb[st.mtab[i].mp].path # Free
                                         /\ IsPrefix(st.fcb[st.mtab[i].mp].path, p)}
        PathLen(i) == Len(st.fcb[st.mtab[i].mp].path)
    IN  IF above = {} THEN 1
        ELSE CHOOSE i \in above : \A j \in above : PathLen(j) < PathLen(i) \/ (PathLen(j) = PathLen(i) /\ i <= j)

\* The number of names up to the first link or union that stands in the way
\* of p, 0 when none does.  A link counts as the last name too.
Crossing(p) ==
    LET hit == {k \in 1..Len(p) : /\ SubSeq(p, 1, k) \in DOMAIN Tree
                                  /\ \/ Tree[SubSeq(p, 1, k)].type = "link"
                                     \/ Tree[SubSeq(p, 1, k)].type = "uni" /\ k < Len(p)}
    IN  IF hit = {} THEN 0 ELSE Least(hit)

\* What a walk ends with: the error and the path of the file, Free when there
\* is none; loop when it follows more links than MaxLinks.
End(e, p) == [err |-> e, path |-> p, loop |-> FALSE]
Abs(names) == [abs |-> TRUE, names |-> names]

\* Where a canonical path leads, e is the error so far.  A path met in a link
\* or in a union is made canonical twice, the second time by the lookup it is
\* handed to.  The error of a member of a union that has no such file stays
\* when a later member has it.
Walk(st, t, creat) ==
    LET walk[fuel \in 0..MaxLinks, p \in Seq(STRING), e \in STRING] ==
            LET fd == st.mtab[MountOf(st, p)].st
                k == Crossing(p)
                node == Tree[SubSeq(p, 1, k)]
                Through(u, to) ==
                    LET c == canonize(st, t, Abs(to))
                    IN  IF c = Free THEN End(IF u.err = "none" THEN "ENOENT" ELSE u.err, Free)
                        ELSE walk[fuel - 1, canonize(st, t, Abs(c \o SubSeq(p, k + 1, Len(p)))), u.err]
            IN  IF fcb_get(st, p) # NOFID THEN End(e, p)
                ELSE IF st.mtab = <<>> \/ ~IsFcb(st, fd) \/ st.fcb[fd].type \notin {"dev", "file"}
                THEN End("ENODEV", Free)
                ELSE IF ~fsdrv_detect(st, fd) THEN End("ENOFS", Free)
                ELSE IF st.delay THEN End(e, Free)
                ELSE IF fuel = 0 THEN [End("none", Free) EXCEPT !.loop = TRUE]
                ELSE IF k > 0 /\ node.type = "link" THEN Through(End(e, Free), node.to[1])
                ELSE IF k > 0 /\ creat THEN End("EISUNI", Free)
                ELSE IF k > 0
                THEN FoldLeft(LAMBDA u, to : IF u.path # Free \/ u.loop THEN u ELSE Through(u, to),
                              End(IF node.to = <<>> THEN "ENOENT" ELSE e, Free), node.to)
                ELSE IF p \notin DOMAIN Tree THEN End("ENOENT", Free)
                ELSE End(e, p)
    IN  walk

\* The slot of the file a walk has found, or a new one.
Entered(st, w) ==
    LET l == [st EXCEPT !.err = w.err, !.stuck = IF w.loop THEN "loop" ELSE @]
        fd == st.mtab[MountOf(st, w.path)].st
        a == fcb_add(l, w.path, Tree[w.path].type)
    IN  IF w.path = Free THEN Ok(l, NOFID)
        ELSE IF fcb_get(st, w.path) # NOFID THEN Ok(l, fcb_get(st, w.path))
        ELSE [a EXCEPT !.fcb[a.ret].mode = st.fcb[fd].mode, !.fcb[a.ret].storage = fd]

lookup(st, t, path, creat) ==
    LET p == canonize(st, t, path)
    IN  Entered(st, IF p = Free THEN End("ENOENT", Free) ELSE Walk(st, t, creat)[MaxLinks, p, st.err])

Found(l) == l.err = "none" /\ l.ret # NOFID

\* Handlers test the error and compare the index with -1UL, which -1U is not:
\* without an error and without a file they read fcb[-1U].
NotFound(l) == IF l.err = "none" THEN [l EXCEPT !.stuck = "fault"] ELSE l

\* fsck.dev is 0 from the start, not -1UL or -1U.
dofsck(st, fd) == Fail(st, "EPERM", FALSE)

----------------------------------------------------------------------------
(* Handlers of main.c, from the state with the context of the sender.      *)

SYS_mknod(st, t, r) ==
    IF r.path.names = <<>> THEN Fail(st, "EINVAL", NOFID)
    ELSE Ok(devfs_add(st, Last(r.path.names), t, r.mode), 0)

\* The answer comes from the driver.  The fid of a pipe is taken for that of
\* a file.
SYS_ioctl(st, t, r) ==
    IF ~taskctx_validfid(st, t, r.fd) \/ st.fcb[OpenFile(st, t, r.fd).fid].type # "dev"
    THEN Fail(st, "EBADF", NOFID)
    ELSE LET fid == OpenFile(st, t, r.fd).fid
             to == st.dev[CHOOSE i \in DOMAIN st.dev : st.dev[i].fid = fid].task
         IN  [st EXCEPT !.ctx[t].msg = NoMsg, !.out = Append(@, [to |-> to, ret |-> t, err |-> "ioctl"])]

SYS_mount(st, t, r) ==
    IF r.path.names = <<>> /\ r.path2 = <<>> THEN Fail(st, "EINVAL", NOFID)
    ELSE mtab_add(st, r.path2, r.path.names)

SYS_umount(st, t, r) == fcb_free(mtab_del(st, canonize(st, t, r.path)))

SYS_fsck(st, t, r) ==
    LET l == lookup(st, t, r.path, FALSE)
    IN  Fail(l, IF l.ret # 0 THEN "EBUSY" ELSE "ENODEV", NOFID)

\* memcmp of the paths of two slots, that of a free slot is the page at 0.
Inside(st, a, b) ==
    \/ st.fcb[a].path = Free /\ st.fcb[b].path = Free
    \/ st.fcb[a].path # Free /\ st.fcb[b].path # Free /\ IsPrefix(st.fcb[b].path, st.fcb[a].path)

\* The reference to the old directory is dropped before the new one is
\* taken, and before the paths are compared.
WorkAt(st, t, d, cwd) ==
    [fcb_del(st, st.ctx[t].work) EXCEPT !.fcb[d].nopen = @ + 1, !.ctx[t].work = d, !.ctx[t].cwd = cwd]
RootAt(st, t, d) == [fcb_del(st, st.ctx[t].root) EXCEPT !.fcb[d].nopen = @ + 1, !.ctx[t].root = d]

Chroot(st, t, d, cwd) == Ok(IF Inside(st, st.ctx[t].work, d) THEN st ELSE WorkAt(st, t, d, cwd), 0)

ChrootTo(l, t) ==
    IF ~Found(l) THEN NotFound(l)
    ELSE IF l.fcb[l.ret].type # "dir" THEN Fail(l, "ENOTDIR", NOFID)
    ELSE Chroot(RootAt(l, t, l.ret), t, l.ret, l.fcb[l.ret].path)

SYS_chroot(st, t, r) == ChrootTo(lookup(st, t, r.path, FALSE), t)

\* l is the state before the old directory was let go, st the one after.
Chdir(l, st, t) ==
    LET d == IF Inside(st, l.ret, st.ctx[t].root) THEN l.ret ELSE st.ctx[t].root
        c == IF Inside(l, l.ret, l.ctx[t].root) THEN l.ret ELSE l.ctx[t].root
    IN  Ok([st EXCEPT !.fcb[d].nopen = @ + 1, !.ctx[t].work = d, !.ctx[t].cwd = l.fcb[c].path], 0)

ChdirTo(l, t) ==
    IF ~Found(l) THEN NotFound(l)
    ELSE IF l.fcb[l.ret].type \notin {"dir", "uni"} THEN Fail(l, "ENOTDIR", NOFID)
    ELSE Chdir(l, fcb_del(l, l.ctx[t].work), t)

SYS_chdir(st, t, r) == ChdirTo(lookup(st, t, r.path, FALSE), t)

SYS_getcwd(st, t, r) == Ok(st, 0)

\* The list of a union is never built (see FsTable), so a union cannot be
\* opened.  With a descriptor in the request unionidx, which is 0, is opened
\* in its place: the root directory.
AsDir(o, t) == IF o.ret = 0 THEN o ELSE [o EXCEPT !.ctx[t].open[o.ret].mode = @ \union {"dir"}]

OpenDir(l, t, r) ==
    IF ~Found(l) THEN NotFound(l)
    ELSE IF l.fcb[l.ret].type \notin {"dir", "uni"} THEN Fail(l, "ENOTDIR", NOFID)
    ELSE IF l.fcb[l.ret].type = "uni" THEN IF l.delay THEN l ELSE Fail(l, "ENOENT", 0)
    ELSE AsDir(taskctx_open(IF r.fd # NOFID THEN taskctx_close(l, t, r.fd, TRUE) ELSE l,
                            t, l.ret, {"r"}, 0, r.fd), t)

SYS_opendir(st, t, r) ==
    IF r.fd = NOFID THEN OpenDir(lookup(st, t, r.path, FALSE), t, r)
    ELSE IF ~taskctx_validfid(st, t, r.fd) THEN Fail(st, "EBADF", NOFID)
    ELSE IF "r" \notin OpenFile(st, t, r.fd).mode \/ "r" \notin st.fcb[OpenFile(st, t, r.fd).fid].mode
    THEN Fail(st, "EACCES", NOFID)
    ELSE OpenDir(Ok(st, ROOTFCB), t, r)

\* An entry of /dev moves the position by one, one of a directory of the
\* root file system needs the block the client read, which is empty.
taskctx_readdir(st, t, d) ==
    LET of == OpenFile(st, t, d)
        here == {k \in (of.offs + 1)..Len(st.dev) : st.dev[k].fid # NOFID}
    IN  IF {"fifo", "tty"} \intersect of.mode # {} THEN Fail(st, "EPIPE", 0)
        ELSE IF of.fid # DEVFCB THEN Ok(st, 0)
        ELSE IF here = {} THEN Fail([st EXCEPT !.ctx[t].open[d].offs = Len(st.dev)], "ENOENT", 0)
        ELSE Ok([st EXCEPT !.ctx[t].open[d].offs = Least(here)], 0)

SYS_readdir(st, t, r) ==
    IF ~taskctx_validfid(st, t, r.fd) \/ st.fcb[OpenFile(st, t, r.fd).fid].type \notin {"dir", "uni"}
    THEN Fail(st, "EBADF", 0)
    ELSE taskctx_readdir(st, t, r.fd)

SYS_readlink(st, t, r) ==
    LET l == lookup(st, t, r.path, FALSE)
    IN  IF l.err = "none" THEN Fail(l, "EINVAL", 0) ELSE Ok(l, 0)

SYS_realpath(st, t, r) ==
    LET l == lookup(st, t, r.path, FALSE) IN Ok(IF Found(l) THEN l ELSE NotFound(l), 0)

SYS_dstat(st, t, r) ==
    IF IsFcb(st, r.fd) /\ st.fcb[r.fd].type = "dev"
    THEN IF LiveFcb(st, r.fd) THEN Ok(st, 0) ELSE Fail(st, "ENOENT", 0)
    ELSE Fail(st, "EINVAL", 0)

SYS_fstat(st, t, r) == IF taskctx_validfid(st, t, r.fd) THEN Ok(st, 0) ELSE Fail(st, "EBADF", 0)

SYS_lstat(st, t, r) ==
    LET l == lookup(st, t, r.path, FALSE)
    IN  IF ~Found(l) THEN Ok(NotFound(l), 0)
        ELSE IF l.fcb[l.ret].type = "pipe" /\ ~IsPipe(l, l.fcb[l.ret].storage) THEN Fail(l, "ENOENT", 0)
        ELSE Ok(l, 0)

\* The path is taken as it is; a file that has it becomes the pipe in all but
\* its type.
SYS_mkfifo(st, t, r) ==
    LET a == fcb_add(st, r.path.names, "pipe")
        b == pipe_add(a, a.ret)
    IN  Ok([b EXCEPT !.fcb[a.ret].storage = b.ret], a.ret)

SYS_pipe(st, t, r) ==
    LET a == pipe_add(st, ANONYMOUS)
        i == a.ret
        b == taskctx_open(a, t, i, {"r", "fifo"}, 0, 0)
        c == taskctx_open(b, t, i, {"w", "a", "fifo"}, 0, 0)
    IN  IF c.err = "none" THEN Ok(c, c.ret) ELSE Ok(c, NOFID)

\* The error of a descriptor that could not be flushed leaves the task without
\* its terminal.
Window == 1
GettyOn(st, pid) ==
    LET in == taskctx_open(st, pid, st.ret, {"r", "fifo", "tty"}, Window, 1)
        out == taskctx_open(in, pid, Window, {"w", "a", "tty"}, 0, 2)
    IN  IF st.err # "none" THEN st ELSE taskctx_open(out, pid, Window, {"w", "a", "tty"}, 0, 3)

SYS_getty(st, t, r) ==
    LET in == taskctx_close(taskctx_get(st, r.pid), r.pid, 1, FALSE)
        out == taskctx_close(taskctx_close(in, r.pid, 2, FALSE), r.pid, 3, FALSE)
    IN  Ok(GettyOn(pipe_add(out, ANONYMOUS), r.pid), 0)

\* openfiles[STDIN_FILENO] is the second descriptor: its fid, a window, is
\* taken for the pipe.
SYS_evtty(st, t, r) ==
    LET a == taskctx_get(st, r.pid)
        w == pipe_write(a, a.ctx[r.pid].open[2].fid, r.n)
    IN  IF ~taskctx_validfid(a, r.pid, 1) THEN Fail(a, "EBADF", 0)
        ELSE IF r.n = 0 THEN Ok(a, 0)
        ELSE IF Len(a.ctx[r.pid].open) < 2 THEN [a EXCEPT !.stuck = "fault"]
        ELSE Ok(w, IF w.ret THEN r.n ELSE 0)

SYS_tmpfile(st, t, r) ==
    LET l == lookup(st, t, [abs |-> TRUE, names |-> <<"tmp", "new">>], TRUE)
    IN  IF l.err # "none" THEN l ELSE taskctx_open(l, t, l.ret, {"r", "w"}, 0, NOFID)

OpenFound(l, t, r) ==
    IF ~Found(l) THEN NotFound(l)
    ELSE IF l.fcb[l.ret].type \in {"dir", "uni"} THEN Fail(l, "EISDIR", 0)
    ELSE taskctx_open(IF r.to # NOFID THEN taskctx_close(l, t, r.to, TRUE) ELSE l, t, l.ret, r.mode,
                      IF "a" \in r.mode THEN FileSize ELSE 0, r.to)

SYS_fopen(st, t, r) == OpenFound(lookup(st, t, r.path, "c" \in r.mode), t, r)

SYS_fclose(st, t, r) ==
    IF ~taskctx_validfid(st, t, r.fd) THEN Fail(st, "EBADF", NOFID)
    ELSE Ok(taskctx_close(st, t, r.fd, FALSE), 0)

SYS_fcloseall(st, t, r) == Ok(fcb_free(CloseAll(st, t)), 0)

SYS_fseek(st, t, r) ==
    LET a == taskctx_seek(st, t, r.fd, r.n, r.whence)
    IN  IF a.ret THEN Ok(a, 0) ELSE Fail(a, IF a.err = "none" THEN "EINVAL" ELSE a.err, NOFID)

SYS_rewind(st, t, r) ==
    IF ~taskctx_validfid(st, t, r.fd) THEN Fail(st, "EBADF", NOFID)
    ELSE Ok([st EXCEPT !.ctx[t].open[r.fd].offs = 0], 0)

SYS_ftell(st, t, r) ==
    IF ~taskctx_validfid(st, t, r.fd) THEN Fail(st, "EBADF", 0)
    ELSE Ok(st, OpenFile(st, t, r.fd).offs)

\* The size is that of the file; a device has none of the kind.
SYS_feof(st, t, r) ==
    LET of == OpenFile(st, t, r.fd)
    IN  IF ~taskctx_validfid(st, t, r.fd) THEN Fail(st, "EBADF", NOFID)
        ELSE Ok(st, IF "fifo" \in of.mode THEN 0 ELSE IF of.offs >= FileSize THEN 1 ELSE 0)

\* The last descriptor is refused.
SYS_ferror(st, t, r) ==
    LET of == OpenFile(st, t, r.fd)
    IN  IF r.fd = 0 \/ Len(st.ctx[t].open) <= r.fd THEN Fail(st, "EBADF", NOFID)
        ELSE Ok(st, IF of.fid = NOFID \/ ("fifo" \in of.mode /\ ~IsPipe(st, of.fid)) \/ ~LiveFcb(st, of.fid)
                    THEN 1 ELSE 0)

\* Only OF_MODE_EOF is above the low 16 bits, and nothing sets it.
SYS_fclrerr(st, t, r) ==
    IF ~taskctx_validfid(st, t, r.fd) THEN Fail(st, "EBADF", NOFID) ELSE Ok(st, 0)

SYS_dup(st, t, r) ==
    LET of == OpenFile(st, t, r.fd)
    IN  IF ~taskctx_validfid(st, t, r.fd) THEN Fail(st, "EBADF", NOFID)
        ELSE taskctx_open(st, t, of.fid, of.mode, of.offs, NOFID)

\* The descriptor to copy is read after the other one was closed.
Duplicate(st, t, fd, to) ==
    taskctx_open(st, t, OpenFile(st, t, fd).fid, OpenFile(st, t, fd).mode, OpenFile(st, t, fd).offs, to)

SYS_dup2(st, t, r) ==
    IF ~taskctx_validfid(st, t, r.fd) THEN Fail(st, "EBADF", NOFID)
    ELSE Duplicate(IF r.to <= Len(st.ctx[t].open) /\ OpenFile(st, t, r.to).fid # NOFID
                   THEN taskctx_close(st, t, r.to, TRUE) ELSE st, t, r.fd, r.to)

SYS_fread(st, t, r) == IF r.n = 0 THEN Ok(st, 0) ELSE taskctx_read(st, t, r.fd, r.n)

SYS_fwrite(st, t, r) ==
    LET of == OpenFile(st, t, r.fd)
    IN  IF ~taskctx_validfid(st, t, r.fd) \/ ("tty" \notin of.mode /\ st.fcb[of.fid].type \in {"dir", "uni"})
        THEN Fail(st, "EBADF", 0)
        ELSE IF r.n = 0 THEN Ok(st, 0)
        ELSE taskctx_write(st, t, r.fd, r.n)

SYS_fflush(st, t, r) ==
    LET of == OpenFile(st, t, r.fd)
    IN  IF ~taskctx_validfid(st, t, r.fd) THEN Fail(st, "EBADF", NOFID)
        ELSE IF "w" \notin of.mode THEN Fail(st, "EACCES", NOFID)
        ELSE IF "tty" \in of.mode THEN Ok(st, 0)
        ELSE Ok(fcb_flush(st, of.fid), NOFID)

Handle(st, t, r) ==
    CASE r.fn = "mknod" -> SYS_mknod(st, t, r)       [] r.fn = "ioctl" -> SYS_ioctl(st, t, r)
      [] r.fn = "mount" -> SYS_mount(st, t, r)       [] r.fn = "umount" -> SYS_umount(st, t, r)
      [] r.fn = "fsck" -> SYS_fsck(st, t, r)         [] r.fn = "chroot" -> SYS_chroot(st, t, r)
      [] r.fn = "chdir" -> SYS_chdir(st, t, r)       [] r.fn = "getcwd" -> SYS_getcwd(st, t, r)
      [] r.fn = "opendir" -> SYS_opendir(st, t, r)   [] r.fn = "readdir" -> SYS_readdir(st, t, r)
      [] r.fn = "readlink" -> SYS_readlink(st, t, r) [] r.fn = "realpath" -> SYS_realpath(st, t, r)
      [] r.fn = "dstat" -> SYS_dstat(st, t, r)       [] r.fn = "fstat" -> SYS_fstat(st, t, r)
      [] r.fn = "lstat" -> SYS_lstat(st, t, r)       [] r.fn = "mkfifo" -> SYS_mkfifo(st, t, r)
      [] r.fn = "pipe" -> SYS_pipe(st, t, r)         [] r.fn = "getty" -> SYS_getty(st, t, r)
      [] r.fn = "evtty" -> SYS_evtty(st, t, r)       [] r.fn = "tmpfile" -> SYS_tmpfile(st, t, r)
      [] r.fn = "fopen" -> SYS_fopen(st, t, r)       [] r.fn = "fclose" -> SYS_fclose(st, t, r)
      [] r.fn = "fcloseall" -> SYS_fcloseall(st, t, r) [] r.fn = "fseek" -> SYS_fseek(st, t, r)
      [] r.fn = "rewind" -> SYS_rewind(st, t, r)     [] r.fn = "ftell" -> SYS_ftell(st, t, r)
      [] r.fn = "feof" -> SYS_feof(st, t, r)         [] r.fn = "ferror" -> SYS_ferror(st, t, r)
      [] r.fn = "fclrerr" -> SYS_fclrerr(st, t, r)   [] r.fn = "dup" -> SYS_dup(st, t, r)
      [] r.fn = "dup2" -> SYS_dup2(st, t, r)         [] r.fn = "fread" -> SYS_fread(st, t, r)
      [] r.fn = "fwrite" -> SYS_fwrite(st, t, r)     [] r.fn = "fflush" -> SYS_fflush(st, t, r)
      [] OTHER -> Fail(st, "EPERM", NOFID)

----------------------------------------------------------------------------
(* The loop of main.c *)

Reply(h, t) ==
    [h EXCEPT !.out = Append(@, [to |-> t, ret |-> h.ret, err |-> h.err]),
              !.ctx = IF @[t] = NoCtx THEN @ ELSE [@ EXCEPT ![t].msg = NoMsg]]

\* The caches are dropped when memory is low.  A delayed request is kept, all
\* its effects included; pipe and ioctl have sent what there is to send.
Finish(h, t, r, low) ==
    LET l == IF low THEN [fcb_free(h) EXCEPT !.nomem = TRUE] ELSE h
    IN  IF h.stuck # "" \/ (r.fn = "ioctl" /\ h.err = "none") THEN h
        ELSE IF r.fn = "pipe" THEN Reply(h, t)
        ELSE IF l.delay THEN [l EXCEPT !.ctx = IF @[t] = NoCtx THEN @ ELSE [@ EXCEPT ![t].msg = r]]
        ELSE Reply(l, t)

\* seterr(SUCCESS), ackdelayed = nomem; nothing of the last message is left.
Taken(st) == [st EXCEPT !.err = "none", !.ret = 0, !.delay = st.nomem, !.out = <<>>]
Settled(st) == [st EXCEPT !.err = "none", !.ret = 0, !.delay = FALSE, !.out = <<>>]

Serve(st, t, r, low) == Finish(Handle(taskctx_get(Taken(st), t), t, r), t, r, low)

\* What a message leaves, within the bounds of the instance.
Bounded(h) ==
    /\ h.nfcb <= MaxFcb /\ h.npipe <= MaxPipe /\ h.npipes <= MaxPipe + 1
    /\ \A i \in DOMAIN h.fcb : h.fcb[i].nopen <= MaxNopen
    /\ \A i \in DOMAIN h.pipe : h.pipe[i].wrote <= MaxBytes
    /\ \A t \in Pid : h.ctx[t] # NoCtx => Len(h.ctx[t].open) <= load.open

Waiting(h, w) ==
    [t \in Pid |-> IF \E i \in DOMAIN h.out : h.out[i].to = t /\ h.out[i].err # "ioctl" THEN "no"
                   ELSE IF \E i \in DOMAIN h.out : h.out[i].ret = t /\ h.out[i].err = "ioctl"
                   THEN IF h.out[1].to = MEMFS THEN "never" ELSE "driver"
                   ELSE w[t]]

\* What one message may leave, and the step to it.
Outcomes(t, r) == {Serve(s, t, r, low) : low \in {FALSE, load.low}}
Take(t, h) ==
    /\ Bounded(h)
    /\ s' = Settled(h)
    /\ wait' = Waiting(h, [wait EXCEPT ![t] = "fs"])
    /\ UNCHANGED load

Request(t, r) ==
    /\ s.stuck = "" /\ wait[t] = "no"
    /\ \E h \in Outcomes(t, r) : Take(t, h)

\* A task is gone: the core says so.  The pid is the address of a page and
\* may be that of a new task next.
EVT_exit(t) ==
    /\ s.stuck = "" /\ t \in load.exits /\ wait[t] = "no"
    /\ LET a == CloseAll(taskctx_get(Taken(s), t), t) IN s' = Settled(fcb_free(DropDevices(a, t)))
    /\ UNCHANGED <<wait, load>>

SYS_nomem ==
    /\ s.stuck = "" /\ load.low /\ ~s.nomem
    /\ s' = Settled([fcb_free(Taken(s)) EXCEPT !.nomem = TRUE])
    /\ UNCHANGED <<wait, load>>

\* External: a driver answers an ioctl.  There is no task behind the devices
\* of the file system task itself.
DriverAck(t) ==
    /\ wait[t] = "driver"
    /\ s.stuck = ""
    /\ wait' = [wait EXCEPT ![t] = "no"]
    /\ UNCHANGED <<s, load>>

\* External: the user interface has shown what was written to a terminal and
\* answers the writer; the request stays in the context.
ScreenAck(t) ==
    /\ s.stuck = "" /\ wait[t] = "fs" /\ s.ctx[t] # NoCtx
    /\ s.ctx[t].msg.fn = "fwrite"
    /\ wait' = [wait EXCEPT ![t] = "no"]
    /\ UNCHANGED <<s, load>>

\* The requests handled before the first state, as far as the bounds go.
Admitted(st, h) == IF Bounded(h) THEN Settled(h) ELSE st
Boot(st, b) == Admitted(st, Serve(st, b.t, b.r, FALSE))
Booted ==
    LET after[k \in 0..Len(load.boot)] == IF k = 0 THEN Start ELSE Boot(after[k - 1], load.boot[k])
    IN  after[Len(load.boot)]

Init ==
    /\ load \in Loads
    /\ s = Booted
    /\ wait = [t \in Pid |-> "no"]

Next ==
    \/ \E t \in Pid : \E r \in load.reqs[t] : Request(t, r)
    \/ \E t \in Pid : EVT_exit(t)
    \/ SYS_nomem
    \/ \E t \in Pid : DriverAck(t)
    \/ \E t \in Pid : ScreenAck(t)

Spec == Init /\ [][Next]_vars

----------------------------------------------------------------------------
(* Properties *)

Used(c) == {d \in DOMAIN c.open : c.open[d].fid # NOFID}
Live == {t \in Pid : s.ctx[t] # NoCtx}

\* The tables hold records of their types, an index in use is within its
\* table, and no slot is counted below 0.
TypeOK ==
    /\ s.nfcb \in 0..MaxFcb /\ s.npipe \in 0..MaxPipe
    /\ s.stuck \in {"", "loop", "fault", "exit"}
    /\ \A i \in DOMAIN s.fcb :
          /\ s.fcb[i].nopen \in Nat
          /\ s.fcb[i].type \in {"file", "dir", "dev", "pipe", "uni"}
          /\ i >= s.nfcb => s.fcb[i].path = Free
    /\ \A i \in DOMAIN s.pipe : s.pipe[i].nopen \in Nat /\ s.pipe[i].rd \in 0..Len(s.pipe[i].data)
    /\ wait \in [Pid -> {"no", "fs", "driver", "never"}]

\* An open descriptor shows the file it was opened for: the slot of the file
\* table behind it (taskctx_open, fcb_del, fcb_add) was not given to another
\* path while the descriptor is open.
DescriptorKeepsFile ==
    \A t \in Live : \A d \in Used(s.ctx[t]) :
        LET of == s.ctx[t].open[d]
        IN  {"fifo", "tty"} \intersect of.mode = {} => IsFcb(s, of.fid) /\ s.fcb[of.fid].path = of.obj

\* The number of references of a file (nopen) is at least the number of
\* descriptors, directories of tasks and mounts that use its slot: fcb_del
\* frees a slot when the count reaches 0.
References(i) ==
    LET Refers(t, d) == /\ d \in Used(s.ctx[t]) /\ s.ctx[t].open[d].fid = i
                        /\ {"fifo", "tty"} \intersect s.ctx[t].open[d].mode = {}
    IN  Cardinality({x \in Live \X (1..load.open) : Refers(x[1], x[2])})
        + Cardinality({t \in Live : s.ctx[t].root = i}) + Cardinality({t \in Live : s.ctx[t].work = i})
        + Cardinality({m \in DOMAIN s.mtab : s.mtab[m].mp = i})
        + Cardinality({m \in DOMAIN s.mtab : s.mtab[m].st = i})

NopenCoversRefs == \A i \in 0..(s.nfcb - 1) : s.fcb[i].nopen >= References(i)

\* Readers of a pipe get the bytes that were written into it in order, none
\* twice and none left out, by both ways of pipe_write.
PipeInOrder ==
    \A i \in DOMAIN s.pipe : s.pipe[i].nopen > 0 =>
        LET p == s.pipe[i]
        IN  p.got \o SubSeq(p.data, p.rd + 1, Len(p.data)) = [k \in 1..p.wrote |-> k]

\* A task does not wait for bytes of a pipe that holds some.
NoSleepOnData ==
    \A t \in Live : (s.ctx[t].msg.fn = "fread" /\ s.stuck = "" /\ ~s.nomem) =>
        LET d == s.ctx[t].msg.fd
        IN  /\ taskctx_validfid(s, t, d) /\ "fifo" \in OpenFile(s, t, d).mode
            /\ s.pipe[OpenFile(s, t, d).fid].data = <<>>

\* The message loop comes back for the next message: it neither loops in
\* fcb_free nor reads past its tables.
NeverHangs == s.stuck = ""

\* The working directory is the one the task last changed to.
WorkdirKept ==
    \A t \in Live : s.fcb[s.ctx[t].work].path = s.ctx[t].cwd
=============================================================================
