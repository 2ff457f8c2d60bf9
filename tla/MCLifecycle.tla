---------------------------- MODULE MCLifecycle ----------------------------
(* Small instances of the lifecycle for TLC. *)
EXTENDS Lifecycle, TLC
=============================================================================
