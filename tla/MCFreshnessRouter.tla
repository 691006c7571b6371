------------------------- MODULE MCFreshnessRouter -------------------------
(* FreshnessRouter instantiated for TLC. *)
EXTENDS FreshnessRouter, TLC

CONSTANTS v1, v2, v3, i1, i2, r1, r2, w1

TextSymmetry == Permutations(Texts)
=============================================================================
