------------------------- MODULE MCShardedListener -------------------------
(* Small instances of the sharded listener for TLC. *)
EXTENDS ShardedListener, TLC

CONSTANTS p1, p2
MCHome == p1 :> 1 @@ p2 :> 1
=============================================================================
