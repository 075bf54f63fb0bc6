---------------------------- MODULE MCMsgQueue ----------------------------
(***************************************************************************)
(* Small instances of the message queues.                                  *)
(***************************************************************************)
EXTENDS MsgQueue, TLC

(* The ways to answer. *)
BySerial == [s \in Server |-> "serial"]
ByNumber == [s \in Server |-> "fresh"]
ToCore == [s \in Server |-> "core"]

Symmetry == Permutations(Client)
=============================================================================
