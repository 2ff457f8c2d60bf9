------------------------------- MODULE MCDial -------------------------------
(* Small instances of a dial for TLC. *)
EXTENDS Dial, TLC
=============================================================================
