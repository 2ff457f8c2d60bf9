------------------------------ MODULE MCMode2 ------------------------------
(* Small instances of the Mode 2 dispatcher for TLC. *)
EXTENDS Mode2, TLC

Symmetry == Permutations(Procs)
=============================================================================
