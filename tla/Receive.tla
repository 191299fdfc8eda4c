------------------------------ MODULE Receive ------------------------------
(***************************************************************************)
(* The receiving half of a connection: CNetwork_Asio::recv_data            *)
(* (core/src/cnetwork_asio.cpp), which asks for exactly the bytes that     *)
(* miss, and the OnReceived callback that finds the packets in the stream  *)
(* and hands them to HandlePacket:                                         *)
(*   "client"  CRoseSocket::OnReceived, a server reading a game client;    *)
(*   "server"  CRoseSocket::OnServerReceived and the stress bot's client,  *)
(*             reading a server;                                           *)
(*   "isc"     CRoseISC::OnReceived, servers among themselves.             *)
(*                                                                         *)
(* The peer writes whole packets; TCP delivers the bytes in order; one     *)
(* byte of a body may differ from what the encoder wrote (the checksum is  *)
(* there for that); the connection may break after any byte; the server's  *)
(* process thread may time the connection out, or a write fail, between    *)
(* any two steps.  Whoever shuts the connection down calls OnDisconnected  *)
(* first and clears active_ afterwards: until then reading goes on.        *)
(***************************************************************************)
EXTENDS Integers, Sequences, FiniteSetsExt

CONSTANTS
    Links,            \* which of the three callbacks
    Packets(_),       \* the packets a peer may send on a link, as bytes
    Encoded(_, _),    \* what the peer writes for a packet
    HeaderOf(_, _),   \* the size in the six bytes just read, and these bytes unmasked
    BodyOf(_, _),     \* whether the packet just read is sound, and the packet
    Known(_),         \* the packet types HandlePacket accepts on a link
    DamageAt,         \* the bytes of a packet that may be wrong, behind the header's fields
    DamageBits,       \* the bit that is wrong
    MaxPackets        \* bound on the packets sent
ASSUME ReceiveAssumption == MaxPackets \in Nat /\ DamageAt \subseteq Nat \ 0..5 /\ DamageBits \subseteq Nat

MAX_PACKET_SIZE == 2047     \* 0x7FF
Byte == 0..255

Type(p) == p[3] + 256 * p[4]
(* What a packet says to its reader: all but the two bytes the encryption  *)
(* uses for itself.                                                        *)
Content(p) == SubSeq(p, 1, 4) \o SubSeq(p, 7, Len(p))

Flip(v, bit) == IF (v \div bit) % 2 = 0 THEN v + bit ELSE v - bit
Damage(bytes, at, bit) == [bytes EXCEPT ![at] = Flip(bytes[at], bit)]

(* What the cipher of a link does for this module, of the bytes w written  *)
(* for a packet: the header says how long the packet is (or that it is too *)
(* short to be one), and the packet is sound exactly if no byte is wrong.  *)
(* Between servers this takes packets below 256 bytes, see LinkCodec.      *)
Head6(w) == SubSeq(w, 1, 6)
Whole(l, w) == HeaderOf(l, Head6(w)).buf \o SubSeq(w, 7, Len(w))
Framed(l, w) ==
    LET h == HeaderOf(l, Head6(w))
    IN  /\ w \in Seq(Byte) /\ Len(w) >= 6
        /\ h.size \in 0..5 \cup {Len(w)} /\ h.buf \in Seq(Byte) /\ Len(h.buf) = 6
ASSUME CodecAssumption ==
    \A l \in Links : \A p \in Packets(l) :
      LET w == Encoded(l, p)
      IN  /\ Framed(l, w) /\ Len(w) = Len(p)
          /\ HeaderOf(l, Head6(w)).size >= 6 =>
               LET body == BodyOf(l, Whole(l, w))
               IN  body.ok /\ body.buf \in Seq(Byte) /\ Content(body.buf) = Content(p)
          /\ l # "isc" =>
               \A at \in DamageAt, bit \in DamageBits :
                 at <= Len(p) =>
                   LET d == Damage(w, at, bit)
                   IN  /\ Framed(l, d)
                       /\ HeaderOf(l, Head6(d)).size >= 6 => ~BodyOf(l, Whole(l, d)).ok

VARIABLES
    link,
    sent,          \* the packets the peer wrote
    damaged,       \* the number of the packet with a wrong byte, 0 for none
    wire,          \* bytes written and not read yet
    eof,           \* the peer is gone: nothing follows what wire holds
    buffer_, packet_size_,   \* the packet being read (packet_offset_ = Len(buffer_))
    reading,       \* an async_read is under way
    recv_queue_,   \* whole packets, not handled yet
    active_,
    handled,       \* the packets HandlePacket was called with
    closing,       \* who is in shutdown(), past OnDisconnected: the read handler, others
    untold,        \* the read handler is between shutdown(true) and OnDisconnected
    told,          \* OnDisconnected was called
    removed        \* CRoseServer took the inactive connection off its list
ending == <<closing, untold, told, removed>>
peer == <<link, sent, damaged, wire, eof>>
vars == <<peer, buffer_, packet_size_, reading, recv_queue_, active_, handled, ending>>

Init ==
    /\ link \in Links
    /\ sent = <<>> /\ damaged = 0 /\ wire = <<>> /\ eof = FALSE
    /\ buffer_ = <<>> /\ packet_size_ = 6 /\ reading = TRUE
    /\ recv_queue_ = <<>> /\ active_ = TRUE /\ handled = <<>>
    /\ closing = {} /\ untold = FALSE /\ told = FALSE /\ removed = FALSE

-----------------------------------------------------------------------------
(* The peer. *)
Send(p) ==
    /\ ~eof
    /\ Len(sent) < MaxPackets
    /\ sent' = Append(sent, p)
    /\ wire' = wire \o Encoded(link, p)
    /\ UNCHANGED <<link, damaged, eof, buffer_, packet_size_, reading, recv_queue_, active_,
                   handled, ending>>

(* A packet one bit of which is wrong, in the checksum or the body. *)
SendDamaged(p, at, bit) ==
    /\ ~eof
    /\ Len(sent) < MaxPackets
    /\ damaged = 0
    /\ at <= Len(p)
    /\ sent' = Append(sent, p)
    /\ damaged' = Len(sent')
    /\ wire' = wire \o Damage(Encoded(link, p), at, bit)
    /\ UNCHANGED <<link, eof, buffer_, packet_size_, reading, recv_queue_, active_, handled,
                   ending>>

(* The peer closes or the network breaks; the last bytes may be lost. *)
Break(k) ==
    /\ ~eof
    /\ k \in 0..Len(wire)
    /\ eof' = TRUE
    /\ wire' = SubSeq(wire, 1, k)
    /\ UNCHANGED <<link, sent, damaged, buffer_, packet_size_, reading, recv_queue_, active_,
                   handled, ending>>

-----------------------------------------------------------------------------
BytesToRead == packet_size_ - Len(buffer_)
Complete == reading /\ active_ /\ Len(wire) >= BytesToRead
Received == buffer_ \o SubSeq(wire, 1, BytesToRead)

Take == wire' = SubSeq(wire, BytesToRead + 1, Len(wire)) /\ UNCHANGED <<link, sent, damaged, eof>>

(* Slip: what was read stays in the buffer. *)
reset_internal_buffer_SizeOnly == UNCHANGED buffer_ /\ packet_size_' = 6
reset_internal_buffer == buffer_' = <<>> /\ packet_size_' = 6

(* CNetwork_Asio::shutdown: nothing when inactive; OnShutdown and          *)
(* OnDisconnect of these classes agree, OnDisconnected is called.  Another *)
(* thread may get as far before active_ is cleared.                        *)
shutdown(who) ==
    /\ active_
    /\ closing' = closing \cup {who}
    /\ told' = TRUE
    /\ UNCHANGED <<active_, untold, removed>>

(* Slip: a packet that is a header only waits for a body. *)
NeedsBody_Always(h) == h.size >= 6
NeedsBody(h) == h.size > 6

(* OnReceived returns false: recv_data shuts the connection down. *)
Refuse ==
    /\ reset_internal_buffer
    /\ shutdown("read")
    /\ reading' = FALSE
    /\ UNCHANGED <<recv_queue_, handled>>

(* The packet is whole: queue it; dispatch runs in the same thread, but    *)
(* the process thread may come in between.                                 *)
Queue(body) ==
    /\ recv_queue_' = Append(recv_queue_, body.buf)
    /\ reset_internal_buffer
    /\ reading' = FALSE
    /\ UNCHANGED <<active_, handled, ending>>

OnReceivedHeader ==
    /\ Complete
    /\ packet_size_ = 6
    /\ Take
    /\ LET h == HeaderOf(link, Received)
           bad == h.size < 6 \/ h.size > MAX_PACKET_SIZE
       IN  \/ bad /\ Refuse
           \/ /\ ~bad /\ NeedsBody(h)
              /\ buffer_' = h.buf /\ packet_size_' = h.size
              /\ UNCHANGED <<reading, recv_queue_, active_, handled, ending>>
           \/ ~bad /\ ~NeedsBody(h) /\ ~BodyOf(link, h.buf).ok /\ Refuse
           \/ ~bad /\ ~NeedsBody(h) /\ BodyOf(link, h.buf).ok /\ Queue(BodyOf(link, h.buf))

(* Slip: the packet is queued whatever the checksum says. *)
OnReceivedBody_Unchecked == Complete /\ packet_size_ > 6 /\ Take /\ Queue(BodyOf(link, Received))
OnReceivedBody ==
    /\ Complete
    /\ packet_size_ > 6
    /\ Take
    /\ \/ ~BodyOf(link, Received).ok /\ Refuse
       \/ BodyOf(link, Received).ok /\ Queue(BodyOf(link, Received))

(* The dispatched lambda: the oldest packet, if the connection is still    *)
(* active; a false from HandlePacket ends the connection.  Then recv_data  *)
(* asks for the next packet, if the connection is still active.            *)
HandlePacket(p) == Type(p) \in Known(link)

Dispatch ==
    /\ ~reading /\ recv_queue_ # <<>> /\ active_
    /\ LET p == Head(recv_queue_)
       IN  /\ handled' = Append(handled, p)
           /\ recv_queue_' = Tail(recv_queue_)
           /\ IF HandlePacket(p) THEN reading' = TRUE /\ UNCHANGED <<active_, ending>>
                                 ELSE shutdown("read") /\ UNCHANGED reading
    /\ UNCHANGED <<peer, buffer_, packet_size_>>

(* The read fails: at the end of the stream, or because the socket was     *)
(* shut down or closed under it.                                           *)
ReadFails ==
    /\ reading /\ ~removed
    /\ (eof /\ Len(wire) < BytesToRead) \/ ~active_ \/ closing # {}
    /\ buffer_' = buffer_ \o SubSeq(wire, 1, Min({BytesToRead, Len(wire)}))
    /\ wire' = <<>>
    /\ reading' = FALSE
    /\ UNCHANGED <<link, sent, damaged, eof, packet_size_, recv_queue_, handled>>

(* An error that the handler names: shutdown(), which calls OnDisconnected *)
(* if nobody did; the handler's own call after it tells nothing new.       *)
ReadError ==
    /\ ReadFails
    /\ IF active_ THEN shutdown("read") ELSE UNCHANGED <<active_, ending>>

(* Any other error: shutdown(true) clears active_ and calls nothing, the   *)
(* handler calls OnDisconnected after it.                                  *)
ReadAborted ==
    /\ ReadFails
    /\ active_' = FALSE
    /\ untold' = TRUE
    /\ UNCHANGED <<closing, told, removed>>

OnDisconnected ==
    /\ untold /\ ~removed
    /\ untold' = FALSE
    /\ told' = TRUE
    /\ UNCHANGED <<peer, buffer_, packet_size_, reading, recv_queue_, active_, handled, closing,
                   removed>>

(* The process thread of CRoseServer finds the connection silent, or a     *)
(* write handler finds it reset.                                           *)
Timeout ==
    /\ shutdown("other")
    /\ UNCHANGED <<peer, buffer_, packet_size_, reading, recv_queue_, handled>>

ShutdownEnds(who) ==
    /\ who \in closing
    /\ closing' = closing \ {who}
    /\ active_' = FALSE
    /\ UNCHANGED <<peer, buffer_, packet_size_, reading, recv_queue_, handled, untold, told,
                   removed>>

(* The process thread takes the inactive connection off its list and so    *)
(* frees it, whatever its read handler has still to do.                    *)
RemoveClient ==
    /\ ~active_ /\ ~removed
    /\ removed' = TRUE
    /\ UNCHANGED <<peer, buffer_, packet_size_, reading, recv_queue_, active_, handled, closing,
                   untold, told>>

Next ==
    \/ \E p \in Packets(link) : Send(p)
    \/ \E p \in Packets(link), at \in DamageAt, bit \in DamageBits : link # "isc" /\ SendDamaged(p, at, bit)
    \/ \E k \in 0..Len(wire) : Break(k)
    \/ OnReceivedHeader
    \/ OnReceivedBody
    \/ Dispatch
    \/ ReadError
    \/ ReadAborted
    \/ OnDisconnected
    \/ Timeout
    \/ \E who \in {"read", "other"} : ShutdownEnds(who)
    \/ RemoveClient

(* The callbacks of one connection run one after the other, and an I/O     *)
(* thread runs each that is ready: weak fairness of Callback, with its     *)
(* enabling condition written out.  Nobody promises a peer that speaks, or *)
(* a timeout.                                                              *)
Callback ==
    \/ OnReceivedHeader \/ OnReceivedBody \/ Dispatch
    \/ ReadError \/ ReadAborted \/ OnDisconnected
Ready ==
    /\ ~removed
    /\ \/ untold
       \/ reading /\ (Len(wire) >= BytesToRead \/ eof \/ ~active_ \/ closing # {})
       \/ ~reading /\ recv_queue_ # <<>> /\ active_
Fairness == []<>(~Ready) \/ []<><<Callback>>_vars
Spec == Init /\ [][Next]_vars /\ Fairness

-----------------------------------------------------------------------------
(* The packets found in the stream are the ones the peer wrote, byte for   *)
(* byte, in order and none twice: the size in the masked header, the six   *)
(* bytes already read and the reset after each packet stay in step over    *)
(* the whole stream.                                                       *)
FramesIntact ==
    /\ packet_size_ \in 6..MAX_PACKET_SIZE /\ Len(buffer_) <= packet_size_
    /\ Len(recv_queue_) <= 1
    /\ LET found == handled \o recv_queue_
       IN  /\ Len(found) <= Len(sent)
           /\ \A i \in DOMAIN found : Content(found[i]) = Content(sent[i])

(* A packet with a wrong byte is never handled, and nothing behind it is.  *)
DamageStops == damaged > 0 => Len(handled) < damaged

(* A packet written to a connection is handled, or the owner of the        *)
(* connection is told that it ended, unless the connection was freed while *)
(* its read handler was about to tell.                                     *)
HandledOrTold ==
    \A n \in 1..MaxPackets : Len(sent) = n ~> (Len(handled) >= n \/ told \/ removed)
=============================================================================
