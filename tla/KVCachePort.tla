----------------------------- MODULE KVCachePort -----------------------------
(***************************************************************************)
(* What KVCacheAllocator promises its callers: how many tokens each        *)
(* sequence holds after a call, and that a call answered False changed     *)
(* that of no sequence.                                                    *)
(***************************************************************************)
EXTENDS KVSequences

VARIABLES held,      \* tokens of each sequence, None when it is unknown
          call       \* the last call and its answer

Init == held = [s \in SequenceIds |-> None] /\ call = None

Answered(op, s, n, ok) == call' = [op |-> op, s |-> s, n |-> n, ok |-> ok]

allocate(s, n, ok) == /\ held[s] = None /\ Answered("allocate", s, n, ok)
                      /\ held' = IF ok THEN [held EXCEPT ![s] = n] ELSE held

extend(s, n, ok) == /\ held[s] # None /\ Answered("extend", s, n, ok)
                    /\ held' = IF ok THEN [held EXCEPT ![s] = @ + n] ELSE held

fork(parent, child, ok) ==
    /\ held[parent] # None /\ held[child] = None
    /\ Answered("fork", child, held[parent], ok)
    /\ held' = IF ok THEN [held EXCEPT ![child] = held[parent]] ELSE held

free(s) == /\ held[s] # None /\ Answered("free", s, held[s], TRUE)
           /\ held' = [held EXCEPT ![s] = None]

Next == \/ \E s \in SequenceIds, n \in 0..MaxTokens, ok \in BOOLEAN :
              allocate(s, n, ok) \/ extend(s, n, ok)
        \/ \E p, c \in SequenceIds, ok \in BOOLEAN : fork(p, c, ok)
        \/ \E s \in SequenceIds : free(s)

Spec == Init /\ [][Next]_<<held, call>>
=============================================================================
