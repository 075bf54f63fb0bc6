------------------------------ MODULE MCStdio -------------------------------
EXTENDS Stdio

CONSTANTS ta, tb, tu

Req(fn) == [fn |-> fn, path |-> [abs |-> TRUE, names |-> <<>>], path2 |-> <<>>, fd |-> NOFID,
            to |-> NOFID, mode |-> {}, n |-> 0, whence |-> "set", pid |-> tu]
At(p) == [abs |-> TRUE, names |-> p]
Here(p) == [abs |-> FALSE, names |-> p]
Fd(fns, ds) == {[Req(fn) EXCEPT !.fd = d, !.n = 1] : fn \in fns, d \in ds}
On(fns, ps) == {[Req(fn) EXCEPT !.path = p] : fn \in fns, p \in ps}
Open(p, m) == [Req("fopen") EXCEPT !.path = At(p), !.mode = m]
Do(t, r) == [t |-> t, r |-> r]
Load(boot, ra, rb, ru, exits, low, n) ==
    [open |-> n, boot |-> boot, reqs |-> (ta :> ra) @@ (tb :> rb) @@ (tu :> ru), exits |-> exits, low |-> low,
     calls |-> [t \in Pid |-> {}]]

MCHash == (ta :> 1) @@ (tb :> 2) @@ (tu :> 3)
SameHash == (ta :> 1) @@ (tb :> 1) @@ (tu :> 3)

\* Two files, two directories, a link, and a union whose second member has a
\* file the first one has not.
MCTree == (<<"f">> :> [type |-> "file", to |-> <<>>])
       @@ (<<"g">> :> [type |-> "file", to |-> <<>>])
       @@ (<<"d">> :> [type |-> "dir", to |-> <<>>])
       @@ (<<"d", "h">> :> [type |-> "file", to |-> <<>>])
       @@ (<<"e">> :> [type |-> "dir", to |-> <<>>])
       @@ (<<"l">> :> [type |-> "link", to |-> << <<"f">> >>])
       @@ (<<"u">> :> [type |-> "uni", to |-> << <<"e">>, <<"d">> >>])

\* Two tasks open, copy and close descriptors of the same files.
Files ==
    LET both == {Open(<<"f">>, {"r"}), Open(<<"f">>, {"r", "w", "x"}), [Req("dup2") EXCEPT !.fd = 1, !.to = 2]}
                \union Fd({"fclose"}, 1..2) \union Fd({"dup"}, {1})
        one == {Open(<<"l">>, {"w", "a"}), Open(<<"u", "h">>, {"w"}), Open(<<"d">>, {"r"}),
                [Open(<<"f">>, {"r"}) EXCEPT !.to = 1]}
               \union Fd({"fread", "fwrite", "feof", "ferror", "fseek"}, 1..2)
               \union Fd({"rewind", "fclrerr", "ftell", "fflush", "fstat"}, {1})
               \union On({"lstat", "realpath", "readlink", "fsck"}, {At(<<"f">>)})
               \union {Req("tmpfile"), Req("other")}
    IN  Load(<<>>, both \union one, both, {}, {}, FALSE, 2)

\* Directories and mounts.
Dirs ==
    LET ra == On({"opendir"}, {At(<<"d">>), At(<<"u">>)}) \union On({"chdir"}, {At(<<"d">>), At(<<>>), At(<<"g">>)})
              \union On({"chroot"}, {At(<<"e">>)}) \union {[Req("fopen") EXCEPT !.path = Here(<<"h">>), !.mode = {"r"}]}
              \union {[Req("opendir") EXCEPT !.fd = 1], Req("getcwd"), [Req("mount") EXCEPT !.path = At(<<"d">>), !.path2 = RootDevice]}
              \union Fd({"readdir", "fread", "fclose"}, {1})
        rb == On({"chdir", "opendir"}, {At(<<"d">>)}) \union Fd({"fclose"}, {1})
    IN  Load(<<>>, ra, rb, {}, {}, FALSE, 1)

\* A driver whose device is used.
Devices ==
    LET ra == On({"opendir"}, {At(<<"dev">>)}) \union Fd({"readdir", "fread", "rewind", "fclose", "dstat"}, {1})
        rb == {Open(<<"dev", "x">>, {"r"}), Open(<<"dev", "null">>, {"w", "a"})} \union Fd({"ioctl", "fclose"}, {1})
    IN  Load(<<>>, ra, rb, {[Req("mknod") EXCEPT !.path = At(<<"x">>), !.mode = {"r"}]}, {}, FALSE, 1)

\* Pipes: the file f was opened and closed before, so its slot keeps a mode;
\* pipes 0 to 2, which cannot be written (their numbers are those of "/",
\* "/dev" and a device that is not written), are in use.
PipeBoot == << Do(tu, Req("pipe")), Do(tu, Req("pipe")), Do(tu, Req("pipe")),
               Do(ta, Open(<<"f">>, {"r"})), Do(ta, [Req("fclose") EXCEPT !.fd = 1]),
               Do(ta, [Req("mkfifo") EXCEPT !.path = At(<<"p">>)]) >>

Io(fn, k) == [Req(fn) EXCEPT !.fd = 1, !.n = k]
Pipes ==
    LET both == {Io("fread", 2), Io("fread", 1), Io("fwrite", 1), [Req("fclose") EXCEPT !.fd = 1]}
    IN  Load(PipeBoot, both \union {Open(<<"p">>, {"r"})}, both \union {Open(<<"p">>, {"r", "w"}), Io("fwrite", 2)}, {}, {}, FALSE, 4)

\* A task gets a terminal and writes to it, or exits.
Terminals ==
    Load(PipeBoot, {Io("fread", 1), [Io("fwrite", 1) EXCEPT !.fd = 2]}, {},
         {[Req("getty") EXCEPT !.pid = ta], [Req("evtty") EXCEPT !.pid = ta, !.n = 1], Req("fcloseall")}, {ta}, FALSE, 4)

\* Memory runs out while pipes and files are used.
NoMemory ==
    Load(PipeBoot, {Io("fread", 1), Open(<<"p">>, {"r"}), Open(<<"f">>, {"r"})},
         {Open(<<"p">>, {"w"}), Io("fwrite", 1)}, {[Req("umount") EXCEPT !.path = At(<<"dev">>)]}, {}, TRUE, 4)

\* A driver exits and comes back.
Unplug ==
    Load(<<>>, On({"chdir"}, {At(<<"d">>)}), {Open(<<"f">>, {"r"})} \union Fd({"fclose"}, {1}),
         {[Req("mknod") EXCEPT !.path = At(<<n>>), !.mode = {"r"}] : n \in {"x", "y"}}, {tu}, FALSE, 1)

----------------------------------------------------------------------------
(* Programs that use libc *)

Call(fn) == [Req(fn) EXCEPT !.fd = NOFID] @@ [refused |-> FALSE]
Named(fn, p) == [Call(fn) EXCEPT !.path.names = p]
Opened(p, m) == [Named("fopen", p) EXCEPT !.mode = m]
Stream(fns, d) == {[Call(fn) EXCEPT !.fd = d, !.n = 1] : fn \in fns}
Program(n, boot, ca, cb) ==
    [Load(boot, {}, {}, {}, {}, FALSE, n) EXCEPT !.calls = (ta :> ca) @@ (tb :> cb) @@ (tu :> {})]

\* Streams of one file, and calls that are refused.
Streams == Program(2, <<>>, {Opened(<<"f">>, {"r"}), Opened(<<"f">>, {"r", "w", "x"}),
                  [Opened(<<"f">>, {"r"}) EXCEPT !.fn = "freopen", !.to = 1],
                  [Call("dup2") EXCEPT !.fd = 1, !.to = 2], [Call("fopen") EXCEPT !.refused = TRUE]}
                 \union Stream({"dup", "fclose"}, 1) \union Stream({"fclose"}, 2),
              {Opened(<<"f">>, {"r"})} \union Stream({"fclose"}, 1))

\* Questions about names and streams.
Questions == Program(1, <<>>, {Named("realpath", <<"f">>), Named("lstat", <<"d">>), Named("readlink", <<"f">>), Call("getcwd"),
                      Named("chdir", <<"d">>), Opened(<<"g">>, {"r"}), Opened(<<"f">>, {"r", "w"}),
                      [Named("opendir", <<"d">>) EXCEPT !.refused = TRUE]}
                     \union Stream({"fread", "feof", "ferror", "fseek", "ftell", "rewind", "fflush", "closedir"}, 1), {})

\* A pipe with a reader and a writer.
Talk == Program(4, PipeBoot, {Opened(<<"p">>, {"r"})} \union Stream({"fgetc", "fread"}, 1),
             {Opened(<<"p">>, {"r", "w"})} \union Stream({"puts", "fputc", "vfprintf", "fclose"}, 1))

Lists == Program(1, <<>>, {Named("opendir", <<"d">>)}, {})
\* Output on a terminal; a device of a driver.
Screens ==
    [Load(PipeBoot, {}, {}, {[Req("getty") EXCEPT !.pid = ta]}, {}, FALSE, 4)
        EXCEPT !.calls = Program(4, <<>>, Stream({"puts", "fputc"}, 2), {}).calls]
Drives ==
    [Load(<<>>, {}, {}, {[Req("mknod") EXCEPT !.path = At(<<"x">>), !.mode = {"r"}]}, {}, FALSE, 1)
        EXCEPT !.calls = Program(1, <<>>, {Opened(<<"dev", "x">>, {"r"})}
                                   \union Stream({"readdir", "ioctl", "fclose"}, 1), {}).calls]

MCLoads == {Files, Dirs, Devices, Pipes, Terminals, NoMemory, Unplug, Streams, Questions, Talk, Screens, Drives}

OnlyDirs == {Dirs}
OnlyUnplug == {Unplug}
Pulled == {[Devices EXCEPT !.exits = {tu}]}
OnlyLists == {Lists}
OnlyQuestions == {Questions}
OnlyTalk == {Talk}
=============================================================================
