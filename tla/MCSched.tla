------------------------------ MODULE MCSched ------------------------------
(***************************************************************************)
(* Small instances of the scheduler.  Level 0 is not preempted; the file   *)
(* system is on level 1.                                                   *)
(***************************************************************************)
EXTENDS Sched, TLC

CONSTANTS drv, fs, srv, app

(* A driver, the file system, a second service and an application. *)
Shared == drv :> 0 @@ fs :> 1 @@ srv :> 1 @@ app :> 2
=============================================================================
