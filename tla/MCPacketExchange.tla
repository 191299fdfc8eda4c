-------------------------- MODULE MCPacketExchange --------------------------
(* Instances of PacketExchange for TLC. *)
EXTENDS PacketExchange
AllClasses == DOMAIN Classes
=============================================================================
