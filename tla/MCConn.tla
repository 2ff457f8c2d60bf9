------------------------------- MODULE MCConn -------------------------------
(* Small instances of the connection for TLC. *)
EXTENDS Conn, TLC
=============================================================================
