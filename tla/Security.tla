------------------------------ MODULE Security -------------------------------
(***************************************************************************)
(* Who may send which message (src/src/core/security.c).  A task here is   *)
(* a record with the fields pid, prio, root (its owner is "root") and acl, *)
(* the sequence of its access control entries [grp, rights].  The name of  *)
(* a group is a sequence of characters: the entry is compared over the     *)
(* length of the name asked for.  services maps the name of a service to   *)
(* the pid of its task.                                                    *)
(***************************************************************************)
EXTENDS Naturals, Sequences

CONSTANT GroupName      \* the characters of the names the checks ask for

MaxName == 15

Shorter(m, n) == IF m < n THEN m ELSE n

\* task_allowed: the first entry whose name begins with the name asked for
\* decides; no right asked for means any
task_allowed(task, grp, right) ==
    LET name == GroupName[grp]
        j    == Shorter(Len(name), MaxName)
        Matches(i) == /\ Len(task.acl[i].grp) >= j
                      /\ SubSeq(task.acl[i].grp, 1, j) = SubSeq(name, 1, j)
        hits == {i \in DOMAIN task.acl : Matches(i)}
    IN \E i \in hits : /\ \A h \in hits : i <= h
                       /\ right = "any" \/ right \in task.acl[i].rights

Drivers  == {"SYS_regirq", "SYS_regtmr", "SYS_drvfind", "SYS_drvadd"}
Clock    == {"SYS_stimezone", "SYS_stime", "SYS_stimebcd"}
Optional == [UI |-> "noui", syslog |-> "nosyslog", inet |-> "noinet",
             sound |-> "nosound", init |-> "noinit"]

core_allowed(task, e) ==
    /\ e \in Drivers => task.prio = "drv"
    /\ e \in {"SYS_tskcpy", "EVT_ack"} => task.prio \in {"drv", "srv"}
    /\ e \in Clock => task.root \/ task_allowed(task, "time", "write")

fs_allowed(task, e, services) ==
    /\ e = "SYS_mountfs" => task.pid = services["FS"]
    /\ e = "SYS_getty" => task.pid = services["UI"]
    /\ e \in {"SYS_mknod", "SYS_setblock"} => task.prio \in {"drv", "srv"}
    /\ e = "SYS_chroot" => task.root \/ task_allowed(task, "chroot", "write")
    /\ e \in {"SYS_mount", "SYS_umount"} =>
            task.root \/ task_allowed(task, "storage", "write")

\* msg_allowed: a service is addressed by its number or by its pid; the first
\* one that fits decides
msg_allowed(task, dest, e, services) ==
    LET Is(srv) == dest \in {srv, services[srv]} IN
    CASE dest = "CORE" -> core_allowed(task, e)
      [] dest # "CORE" /\ Is("FS") -> fs_allowed(task, e, services)
      [] dest # "CORE" /\ ~Is("FS") ->
            \A srv \in DOMAIN Optional :
                Is(srv) => /\ ~task_allowed(task, Optional[srv], "any")
                           /\ srv = "UI" /\ e = "SYS_devprogress" =>
                                task.pid = services["FS"]
=============================================================================
