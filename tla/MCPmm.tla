------------------------------- MODULE MCPmm -------------------------------
(***************************************************************************)
(* Small instances of the physical memory manager, and the properties of   *)
(* its counters: sums over finite sets, which only TLC evaluates.          *)
(***************************************************************************)
EXTENDS Pmm, TLC

(* Two areas: pages 1..5, in which the aligned slots of 2 pages are 2-3    *)
(* and 4-5, and pages 8-9, which are one slot.                             *)
TwoAreas == <<[base |-> 1, size |-> 5], [base |-> 8, size |-> 2]>>
OneArea == <<[base |-> 1, size |-> 4]>>

Idle == \A c \in CPU : pc[c] = "idle"
FreeSum == MapThenSumSet(LAMBDA i : pmm_entries[i].size, 1..Len(pmm_entries))

(* Between calls the free counter is what the table of free fragments      *)
(* holds: cutting a fragment in two (pmm_allocslot) loses no page.         *)
NoPageLost == Idle => pmm_freepages = FreeSum

(* The run-time checks of pmm_alloc and pmm_free: the counter of free      *)
(* pages never exceeds the counter of all pages, "should not happen".      *)
NeverInconsistent == lock = None => pmm_freepages <= pmm_totalpages

Symmetry == Permutations(CPU) \union Permutations(Task)
=============================================================================
