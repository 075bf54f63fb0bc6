------------------------------- MODULE Calls --------------------------------
(***************************************************************************)
(* A program that uses libc, the core at boot or one of the tools: either  *)
(* it works with the heap (Bztalloc), any number of calls one after the    *)
(* other, or it makes one of the calls whose result depends on what is     *)
(* asked for only.                                                         *)
(***************************************************************************)
EXTENDS Bztalloc, Libc, FsZ, Console, Env

CONSTANT Jobs       \* the calls looked at

callvars == <<heapvars, job, out>>

Result(j) ==
    CASE j.fn \in LibcCalls -> LibcResult(j)
      [] j.fn \in MkfsCalls -> MkfsResult(j)
      [] j.fn \in FsZCalls -> FsZResult(j)
      [] j.fn = "lang" -> LangResult(j)
      [] j.fn \in PrintfCalls -> PrintfResult(j)
      [] j.fn \in ConsoleCalls -> ConsoleResult(j)
      [] j.fn \in EnvCalls -> EnvResult(j)

Init == HeapInit /\ (job = NoJob \/ job \in Jobs) /\ out = <<>>

Call ==
    /\ job # NoJob /\ out = <<>>
    /\ out' = <<Result(job)>>
    /\ UNCHANGED <<heapvars, job>>

Heap ==
    /\ job = NoJob
    /\ HeapNext
    /\ UNCHANGED <<job, out>>

Next == Call \/ Heap

Spec == Init /\ [][Next]_callvars
=============================================================================
