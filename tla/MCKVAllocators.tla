--------------------------- MODULE MCKVAllocators ---------------------------
EXTENDS KVAllocators, TLC

(* Blocks are interchangeable, and so are the identifiers of sequences. *)
Symm == Permutations(SequenceIds) \cup Permutations(Blocks)
=============================================================================
