----------------------------- MODULE LinkCodec -----------------------------
(***************************************************************************)
(* What the callbacks of the three kinds of connections do with the bytes  *)
(* of a packet: the cipher of PacketCrypt between client and server,       *)
(* nothing between servers.  Receive takes these operators as parameters.  *)
(***************************************************************************)
EXTENDS PacketCrypt

Size(p) == p[1] + 256 * p[2]

(* OnSend encodes a packet before it is written. *)
OnSend(link, p) ==
    CASE link = "client" -> encodeClientPacket(p)
      [] link = "server" -> encodeServerPacket(p)
      [] link = "isc"    -> p

(* The size in the header just read.  Between servers only its low byte is *)
(* looked at (croseisc.cpp:42): a packet of 256 bytes would not be framed. *)
Header(link, buf) ==
    CASE link = "client" -> decodeClientHeader(buf)
      [] link = "server" -> decodeServerHeader(buf)
      [] link = "isc"    -> [size |-> buf[1], buf |-> buf]

(* The packet just read.  Between servers as many bytes are copied as the  *)
(* header says, also those behind what was read.                           *)
Body(link, buf) ==
    CASE link = "client" -> decodeClientBody(buf)
      [] link = "server" -> decodeServerBody(buf)
      [] link = "isc"    -> [ok |-> TRUE, buf |-> [i \in 1..Size(buf) |-> IF i <= Len(buf) THEN buf[i] ELSE 0]]
=============================================================================
