----------------------------- MODULE KVAllocators -----------------------------
(***************************************************************************)
(* Both allocators behind the one port.  `kind` is the allocator an engine *)
(* is built with; the state of the other one stays initial.                *)
(***************************************************************************)
EXTENDS PagedAllocator, ContiguousAllocator

VARIABLES kind, call

vars == <<pagedVars, regions, kind, call>>

Init == /\ PagedInit /\ ContiguousInit /\ call = None
        /\ kind \in {"paged", "contiguous"}

Held(s) == CASE kind = "paged" -> token_counts[s]
             [] kind # "paged" /\ regions[s] = None -> None
             [] OTHER -> regions[s][2]

Answered(op, s, n, ok) ==
    call' = [op |-> op, s |-> s, n |-> n, ok |-> ok] /\ UNCHANGED kind

Paged(op, s, n, ok) == kind = "paged" /\ UNCHANGED regions /\ Answered(op, s, n, ok)
Contiguous(op, s, n, ok) == kind = "contiguous" /\ UNCHANGED pagedVars /\ Answered(op, s, n, ok)

Next ==
    \/ \E s \in SequenceIds, n \in 0..MaxTokens, ok \in BOOLEAN :
         \/ PagedAllocate(s, n, ok) /\ Paged("allocate", s, n, ok)
         \/ PagedExtend(s, n, ok) /\ Paged("extend", s, n, ok)
         \/ ContiguousAllocate(s, n, ok) /\ Contiguous("allocate", s, n, ok)
         \/ ContiguousExtend(s, n, ok) /\ Contiguous("extend", s, n, ok)
    \/ \E p, c \in SequenceIds, ok \in BOOLEAN :
         \/ PagedFork(p, c) /\ ok /\ Paged("fork", c, Held(p), ok)
         \/ ContiguousFork(p, c, ok) /\ Contiguous("fork", c, Held(p), ok)
    \/ \E s \in SequenceIds :
         \/ PagedFree(s) /\ Paged("free", s, Held(s), TRUE)
         \/ ContiguousFree(s) /\ Contiguous("free", s, Held(s), TRUE)

Spec == Init /\ [][Next]_vars

(* The figures the fragmentation measures are computed from account for the  *)
(* whole pool: the slots in use and the free runs add up to it, however      *)
(* forks, moves and refused calls have left it.                              *)
SlotsAddUp ==
    /\ paged_slots_used + paged_free_runs[1] = Cardinality(Blocks) * BlockSize
    /\ contiguous_slots_used + Summed([r \in contiguous_free_runs |-> r[2]]) = TotalSlots

(* The scans over the pool are exact: a request is refused only if there is  *)
(* no run for it, and what is reported as used and free is the pool.         *)
ScansExact == FirstFit /\ SlotsAddUp

Port == INSTANCE KVCachePort WITH held <- [s \in SequenceIds |-> Held(s)]

(* Both allocators do what KVCacheAllocator says: a call answered True gives *)
(* the sequence it names the tokens asked for, a refused one, the paged      *)
(* extend that already made its copy included, takes tokens from nobody.     *)
ImplementsPort == Port!Spec
=============================================================================
