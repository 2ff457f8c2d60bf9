---------------------------- MODULE MCPacketConn ----------------------------
(* Small instances of a packetConn for TLC. *)
EXTENDS PacketConn, TLC

CONSTANT k1

(* Two sessions of one peer address, the first with two datagrams. *)
MCKeyOf == <<k1, k1>>
MCMsgs == <<2, 1>>
=============================================================================
