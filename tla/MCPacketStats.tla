--------------------------- MODULE MCPacketStats ---------------------------
(* Instance of PacketStats for TLC. *)
EXTENDS PacketStats
=============================================================================
