---------------------------- MODULE PagedAllocator ----------------------------
(***************************************************************************)
(* PagedKVAllocator: sequences hold blocks of a pool through block tables, *)
(* forks share blocks by reference count, and a shared last block is       *)
(* replaced before a sequence grows into it.                               *)
(*                                                                         *)
(* The free list is a set: any free block will do.  A reference count of 0 *)
(* is an absent entry.  Calls with an unknown or an already known sequence *)
(* raise before they change anything and are not steps.                    *)
(***************************************************************************)
EXTENDS KVSequences, SequencesExt

CONSTANTS Blocks, BlockSize

ASSUME PagedAssumption ==
    /\ BlockSize \in Nat \ {0}
    /\ IsFiniteSet(Blocks) /\ Blocks # {} /\ None \notin Seq(Blocks)

VARIABLES free_blocks, block_tables, token_counts, refcounts

pagedVars == <<free_blocks, block_tables, token_counts, refcounts>>

PagedInit ==
    /\ free_blocks = Blocks
    /\ block_tables = [s \in SequenceIds |-> None]
    /\ token_counts = [s \in SequenceIds |-> None]
    /\ refcounts = [b \in Blocks |-> 0]

_blocks_needed(n) == (n + BlockSize - 1) \div BlockSize

(* The ways to take n of the free blocks, in the order they enter a table. *)
_take(n, free) == {q \in [1..n -> free] : \A i, j \in 1..n : i # j => q[i] # q[j]}

PagedAllocate(s, n, ok) ==
    /\ block_tables[s] = None
    /\ ok = (_blocks_needed(n) <= Cardinality(free_blocks))
    /\ IF ~ok THEN UNCHANGED pagedVars
       ELSE \E q \in _take(_blocks_needed(n), free_blocks) :
          /\ block_tables' = [block_tables EXCEPT ![s] = q]
          /\ token_counts' = [token_counts EXCEPT ![s] = n]
          /\ free_blocks' = free_blocks \ Range(q)
          /\ refcounts' = [b \in Blocks |-> IF b \in Range(q) THEN 1 ELSE refcounts[b]]

(* Fault: the last block is written without being made private. *)
CopiesLast_Never(s) == FALSE

(* Growing writes into the last block unless that is full. *)
CopiesLast(s) ==
    /\ block_tables[s] # <<>>
    /\ refcounts[Last(block_tables[s])] > 1
    /\ token_counts[s] % BlockSize # 0

(* The last block of s replaced by the block of q, if there is one. *)
WithCopy(s, q) ==
    IF q = <<>> THEN block_tables[s]
    ELSE [block_tables[s] EXCEPT ![Len(block_tables[s])] = q[1]]

(* Fault: a fork sibling keeps the block, and its count is not lowered. *)
AfterCopy_NoRelease(s, q) ==
    [b \in Blocks |-> IF b \in Range(q) THEN 1 ELSE refcounts[b]]

AfterCopy(s, q) ==
    [b \in Blocks |->
       CASE b \in Range(q) -> 1
         [] q # <<>> /\ b = Last(block_tables[s]) -> refcounts[b] - 1
         [] OTHER -> refcounts[b]]

(* The private copies extend may make: one block, none if none is needed.   *)
Copies(s) == IF CopiesLast(s) THEN _take(1, free_blocks) ELSE {<<>>}

(* Blocks still missing once s has `tokens` tokens. *)
Extra(s, tokens) == LET missing == _blocks_needed(tokens) - Len(block_tables[s])
                    IN IF missing > 0 THEN missing ELSE 0

(* Fault: the tokens are counted before there is room for them. *)
Counted_Early(s, n, ok) == [token_counts EXCEPT ![s] = @ + n]

Counted(s, n, ok) == IF ok THEN [token_counts EXCEPT ![s] = @ + n] ELSE token_counts

(* extend: first the copy, for which there may be no block, then the new    *)
(* blocks, for which there may be too few: the copy then stays.             *)
PagedExtend(s, n, ok) ==
    /\ block_tables[s] # None
    /\ token_counts' = Counted(s, n, ok)
    /\ \/ /\ Copies(s) = {} /\ ~ok
          /\ UNCHANGED <<free_blocks, block_tables, refcounts>>
       \/ \E q \in Copies(s) :
            LET free  == free_blocks \ Range(q)
                refs  == AfterCopy(s, q)
                extra == Extra(s, token_counts[s] + n)
            IN /\ ok = (extra <= Cardinality(free))
               /\ \E r \in _take(IF ok THEN extra ELSE 0, free) :
                     /\ free_blocks' = free \ Range(r)
                     /\ refcounts' = [b \in Blocks |-> IF b \in Range(r) THEN 1 ELSE refs[b]]
                     /\ block_tables' = [block_tables EXCEPT ![s] = WithCopy(s, q) \o r]

PagedFork(parent, child) ==
    /\ block_tables[parent] # None /\ block_tables[child] = None
    /\ block_tables' = [block_tables EXCEPT ![child] = block_tables[parent]]
    /\ token_counts' = [token_counts EXCEPT ![child] = token_counts[parent]]
    /\ refcounts' = [b \in Blocks |-> IF b \in Range(block_tables[parent])
                                      THEN refcounts[b] + 1 ELSE refcounts[b]]
    /\ UNCHANGED free_blocks

(* free's own part of the counts of tokens. *)
Dropped(s) == [token_counts EXCEPT ![s] = None]

PagedFree(s) ==
    /\ block_tables[s] # None
    /\ LET refs == [b \in Blocks |-> IF b \in Range(block_tables[s])
                                     THEN refcounts[b] - 1 ELSE refcounts[b]]
       IN /\ refcounts' = refs
          /\ free_blocks' = free_blocks \cup
                {b \in Range(block_tables[s]) : refs[b] = 0}
    /\ block_tables' = [block_tables EXCEPT ![s] = None]
    /\ token_counts' = Dropped(s)

-----------------------------------------------------------------------------
Known == {s \in SequenceIds : block_tables[s] # None}
Holders(b) == {s \in Known : b \in Range(block_tables[s])}

paged_slots_used == Cardinality({b \in Blocks : refcounts[b] > 0}) * BlockSize
paged_free_runs == <<Cardinality(free_blocks) * BlockSize>>

(* Every table has exactly the blocks its tokens need, each once. *)
TablesFit ==
    \A s \in Known :
       /\ Len(block_tables[s]) = _blocks_needed(token_counts[s])
       /\ Cardinality(Range(block_tables[s])) = Len(block_tables[s])

(* Blocks are never leaked and never given out twice: the count of a block  *)
(* is the number of tables that hold it, the free ones are those that no    *)
(* table holds, and a table holds what its tokens need.                     *)
BlocksAccountedFor ==
    /\ TablesFit
    /\ \A b \in Blocks : /\ refcounts[b] = Cardinality(Holders(b))
                         /\ b \in free_blocks <=> Holders(b) = {}

(* Tokens of s that lie in the i-th block of its table. *)
Fill(s, i) == IF token_counts[s] >= i * BlockSize THEN BlockSize
              ELSE token_counts[s] - (i - 1) * BlockSize

(* Copy on write: two sequences that share a block agree on its place and on *)
(* how far it is filled, so that neither has written into a block the other  *)
(* reads.                                                                    *)
SharedBlocksAgree ==
    \A s, t \in Known :
       \A i \in DOMAIN block_tables[s], j \in DOMAIN block_tables[t] :
          block_tables[s][i] = block_tables[t][j] => i = j /\ Fill(s, i) = Fill(t, i)
=============================================================================
