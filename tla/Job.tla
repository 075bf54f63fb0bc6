-------------------------------- MODULE Job ---------------------------------
(***************************************************************************)
(* A call of a function whose result depends on its arguments only: job is *)
(* what is asked for, a record with the name of the call and its           *)
(* arguments, out is empty before and holds the result after it.           *)
(***************************************************************************)
EXTENDS Sequences

VARIABLES job, out

NoJob == [fn |-> "none"]
Returned(fn) == out # <<>> /\ job.fn = fn
=============================================================================
