------------------------------- MODULE ApiBase -------------------------------
(* Names shared by the components behind the HTTP API. *)
EXTENDS Naturals, FiniteSets

CONSTANTS Users,          \* accounts; registration gives each a tenant of its own
          None,
          MaxStarted      \* bound: requests sent

ASSUME ApiBaseAssumption == MaxStarted \in Nat /\ None \notin Users /\ None \notin Nat

(* What a request creates (token, session, job, document) has its number;   *)
(* number 0 is for what was there before.                                   *)
Ids == 0..MaxStarted
=============================================================================
