-------------------------- MODULE MCMemoryLifecycle --------------------------
(* MemoryLifecycle instantiated for TLC. *)
EXTENDS MemoryLifecycle, TLC

CONSTANTS c1, c2, k1, k2, v1, v2
=============================================================================
