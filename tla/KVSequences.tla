----------------------------- MODULE KVSequences -----------------------------
(* What the two allocators have in common: the identifiers of sequences. *)
EXTENDS Naturals, FiniteSets

CONSTANTS SequenceIds, None,
          MaxTokens      \* bound: tokens one call asks for

ASSUME SequencesAssumption ==
    /\ IsFiniteSet(SequenceIds) /\ MaxTokens \in Nat
    /\ None \notin Nat /\ None \notin SequenceIds
=============================================================================
