-------------------------- MODULE MCLatencyCascade --------------------------
(* LatencyCascade instantiated for TLC. *)
EXTENDS LatencyCascade, TLC

CONSTANTS q1, q2

RequestSymmetry == Permutations(Requests)
=============================================================================
