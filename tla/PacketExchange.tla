--------------------------- MODULE PacketExchange ---------------------------
(***************************************************************************)
(* A packet from its construction to its readers.  A server or a client    *)
(* makes a packet of some class, sends the same object to one or several   *)
(* connections (CRoseServer::SendPacket calls client->send(packet) for     *)
(* each, and every send calls getPacked, which calls pack() again on the   *)
(* same buffer_), and each receiver builds a packet of its own from the    *)
(* bytes: the servers by the factory (fetchPacket), the clients, of which  *)
(* the repository has the stress bot and the node, by a switch on type().  *)
(***************************************************************************)
EXTENDS PacketLayouts

CONSTANTS
    MaxSends,    \* connections one packet is sent to
    Lens,        \* lengths of the strings of a packet
    Counts,      \* lengths of the lists
    Sent         \* the classes that are sent
ASSUME ExchangeAssumption == MaxSends \in Nat /\ Sent \subseteq DOMAIN Classes

(* The classes a receiver knows under the number of the packet. *)
Known(c) == {d \in DOMAIN Classes : /\ Classes[d].to = Classes[c].to
                                    /\ Classes[d].type = Classes[c].type
                                    /\ Classes[d].read # NoReader}

(* The classes with a 32-character password round-trip for that length only. *)
Password == {"CliLoginReq", "CliJoinServerReq"}

(* The constructor takes the fields of read as pack() wrote them: in the   *)
(* same order and with the same types, a C string as so many characters.   *)
Agree(read, pack, len) ==
    /\ Len(read) <= Len(pack)
    /\ \A k \in DOMAIN read :
         /\ read[k][1] = pack[k][1]
         /\ read[k][2] = IF pack[k][2].kind = "cstr" THEN Chars(len) ELSE pack[k][2]

(* What the classes that are sent owe to the buffer and to their readers:  *)
(* with every string and list a packet fits, its number says what it is,   *)
(* and its two layouts agree.                                              *)
ReadKinds == [kind : {"int", "string", "chars"}, w : Nat] \cup {Size}
PackKinds == [kind : {"int", "string", "cstr"}, w : Nat] \cup {Size}
LayoutsAgree ==
    /\ Lens \subseteq Nat /\ Counts \subseteq 0..255
    /\ \A c \in Sent, n \in Counts, len \in Lens :
         (c \in Lists \/ n = 0) =>
           LET pack == PackOf(c, n)
           IN  /\ pack \in Seq(STRING \X PackKinds)
               /\ HeaderSize + LengthOf(pack, len) < MaxPacketSize
               /\ Known(c) \subseteq {c}
               /\ (c \in Known(c) \ {"SrvLoginReply"} /\ (c \in Password => len = 32)) =>
                    /\ ReadOf(c, n) \in Seq(STRING \X ReadKinds)
                    /\ Len(ReadOf(c, n)) = Len(pack) /\ Agree(ReadOf(c, n), pack, len)
               /\ c \in DOMAIN SizeAt =>
                    /\ ReadOf(c, 0) \in Seq(STRING \X ReadKinds)
                    /\ Agree(ReadOf(c, 0), pack, len)
                    /\ SizeAt[c] \in DOMAIN ReadOf(c, 0) /\ ReadOf(c, 0)[SizeAt[c]][2] = Size
ASSUME LayoutsAssumption == LayoutsAgree

VARIABLES
    pkt,     \* the packet object: class, length of its list and strings, buffer_,
             \* and of a login reply whether its result_ is other than OK
    copies,  \* the copies getPacked returned, in the order of the connections
    got      \* what the last receiver read: of which copy, class, fields
exchangeVars == <<pkt, copies, got>>

NoPacket == [class |-> "none", n |-> 0, len |-> 0, refused |-> FALSE, buf |-> <<>>]
NoRead   == [from |-> 0, class |-> "none", fields |-> <<>>]

ExchangeInit == pkt = NoPacket /\ copies = <<>> /\ got = NoRead

(* The constructor of a class: CRosePacket writes the header.  The login   *)
(* server lists its servers only in a reply that refuses nothing.          *)
Make(c, n, len, refused) ==
    /\ pkt = NoPacket
    /\ refused => c = "SrvLoginReply" /\ n = 0
    /\ pkt' = [class |-> c, n |-> n, len |-> len, refused |-> refused, buf |-> WriteHeader]
    /\ UNCHANGED <<copies, got>>

(* send(packet): getPacked packs once more behind what the buffer holds    *)
(* and copies size_ bytes.                                                 *)
getPacked ==
    /\ pkt # NoPacket
    /\ Len(copies) < MaxSends
    /\ LET buf == WriteAll(pkt.buf, PackOf(pkt.class, pkt.n), pkt.n, pkt.len)
       IN  pkt' = [pkt EXCEPT !.buf = buf] /\ copies' = Append(copies, buf)
    /\ UNCHANGED got

(* The constructor from a buffer, in the receiver of copy i: fill is what  *)
(* its buffer_ holds behind the bytes it copied.                           *)
fetchPacket(i, fill) ==
    /\ i \in DOMAIN copies
    /\ \E c \in Known(pkt.class) :
         got' = [from |-> i, class |-> c, fields |-> ReadPacket(c, copies[i], fill, pkt.refused)]
    /\ UNCHANGED <<pkt, copies>>

ExchangeNext ==
    \/ \E c \in Sent, len \in Lens, n \in Counts, refused \in BOOLEAN :
         (c \in Lists \/ n = 0) /\ Make(c, n, len, refused)
    \/ getPacked
    \/ \E i \in 1..MaxSends, fill \in {NUL, Junk} : fetchPacket(i, fill)

ExchangeSpec == ExchangeInit /\ [][ExchangeNext]_exchangeVars

-----------------------------------------------------------------------------
(* What the sender put into the packet, as a reader should see it. *)
Meant ==
    [k \in DOMAIN PackOf(pkt.class, pkt.n) |->
       LET f == PackOf(pkt.class, pkt.n)[k]
       IN  <<f[1], CASE f[2].kind = "size"              -> <<Tag(k, pkt.n)>>
                     [] f[2].kind \in {"string", "cstr"} -> CharsOf(k, pkt.len)
                     [] OTHER                           -> CharsOf(k, f[2].w)>>]

(* Every receiver of a packet, not only the first one, reads the class and *)
(* the field values the sender put in: pack() and the constructor from a   *)
(* buffer agree on order, widths and list lengths, the numbers are         *)
(* unambiguous per direction, and packing again for the next connection    *)
(* leaves the first payload in place.  Passwords: when they are 32 long.   *)
(* A login reply that lists servers ends with no zero byte, so its reader  *)
(* may find more servers behind the end; one that refuses is read exactly. *)
RoundTrip ==
    (/\ got # NoRead
     /\ pkt.class \in Password => pkt.len = 32)
      => /\ got.class = pkt.class
         /\ IF pkt.class = "SrvLoginReply" /\ ~pkt.refused
              THEN IsPrefix(Meant, got.fields) ELSE got.fields = Meant

(* The first connection gets the whole payload: with the real array sizes  *)
(* and names no longer than the database allows, no class overflows        *)
(* buffer_, where writeNext would drop values without a trace.  Packing    *)
(* again never writes behind its end.                                      *)
FirstIsWhole ==
    /\ Len(pkt.buf) < MaxPacketSize
    /\ copies # <<>> => Len(copies[1]) = HeaderSize + LengthOf(PackOf(pkt.class, pkt.n), pkt.len)
=============================================================================
