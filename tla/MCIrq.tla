------------------------------- MODULE MCIrq --------------------------------
(***************************************************************************)
(* Small instances of the boot and of the interrupts: the keyboard driver  *)
(* on the first core, drivers of other devices on the second one.          *)
(***************************************************************************)
EXTENDS Irq, TLC

CONSTANTS b, ap, kbd, disk, nodev

regirq(l) == [fn |-> "SYS_regirq", arg |-> l]
regtmr == [fn |-> "SYS_regtmr", arg |-> 0]
drvadd(d) == [fn |-> "SYS_drvadd", arg |-> d]
exit == [fn |-> "SYS_exit", arg |-> 0]

OnTwo == kbd :> b @@ disk :> ap @@ nodev :> b

(* Two drivers with lines of their own, the second asks for the line of the *)
(* clock first and is refused; the first one adds one that finds no device. *)
Separate == kbd :> <<drvadd(nodev), regirq(1), regtmr>> @@ disk :> <<regirq(8), regirq(2), regtmr>>
                @@ nodev :> <<exit>>
(* Two devices on one line. *)
Shared == kbd :> <<regirq(1)>> @@ disk :> <<regirq(1)>> @@ nodev :> <<>>
(* The first driver adds the second one. *)
Added == kbd :> <<regirq(1), drvadd(disk)>> @@ disk :> <<regirq(2)>> @@ nodev :> <<>>

Ordinary == [pid |-> "user", prio |-> "app", root |-> FALSE,
             acl |-> <<[grp |-> <<"t">>, rights |-> {"read"}]>>]
Admin == [pid |-> "admin", prio |-> "app", root |-> FALSE,
          acl |-> <<[grp |-> <<"t", "i">>, rights |-> {"write"}]>>]
NoTask == {}
Both == {Ordinary, Admin}
Names == [time |-> <<"t", "i">>]
=============================================================================
