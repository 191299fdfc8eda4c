---------------------------- MODULE PacketCodec ----------------------------
(***************************************************************************)
(* The buffer of CRosePacket (rosecommon/include/crosepacket.h): what      *)
(* operator<< appends, what operator>> takes, and where both stop.         *)
(*                                                                         *)
(* A byte is a tag: byte i of the k-th value that pack() wrote; the value  *)
(* itself does not matter.  NUL is the zero byte.  Two kinds of byte can   *)
(* follow the bytes a receiver copied into its own buffer_, which is never *)
(* cleared: zeros, or remains of an earlier use (Junk).                    *)
(***************************************************************************)
EXTENDS Integers, Sequences, SequencesExt, FiniteSetsExt

CONSTANT MaxPacketSize      \* MAX_PACKET_SIZE, 0x7FF
ASSUME MaxPacketSizeAssumption == MaxPacketSize \in Nat /\ MaxPacketSize > 6

Tag(k, i) == k * 4096 + i
NUL  == 0
Junk == Tag(0, 1)
HeaderSize == 6

(* How a value travels: an integer or float of w bytes, a std::string, a   *)
(* C string, a char array of w bytes, the size of a list in one byte.      *)
Kind(k, w) == [kind |-> k, w |-> w]
U8  == Kind("int", 1)
U16 == Kind("int", 2)
U32 == Kind("int", 4)
U64 == Kind("int", 8)
Str == Kind("string", 0)
CStr == Kind("cstr", 0)
Chars(w) == Kind("chars", w)
Size == Kind("size", 1)

(* The layout that lists the named fields of a class in this order. *)
Of(class, names) == [i \in DOMAIN names |-> <<names[i], class[names[i]]>>]
One(name, kind) == << <<name, kind>> >>
Repeat(n, layout) ==
    [i \in 1..(n * Len(layout)) |-> layout[((i - 1) % Len(layout)) + 1]]

-----------------------------------------------------------------------------
(* Writing.  writeNext drops a value that would touch the last byte of     *)
(* buffer_; strings go in character by character, so a string may lose its *)
(* tail and its terminator.                                                *)
(* Slip: the test is current_ + sizeof(T) > buffer_ + sizeof(buffer_).     *)
Room_ToTheEnd(buf) == MaxPacketSize - Len(buf)
Room(buf) == MaxPacketSize - 1 - Len(buf)
writeNext(buf, bytes) == buf \o (IF Len(bytes) <= Room(buf) THEN bytes ELSE <<>>)
WriteChars(buf, bytes) == buf \o SubSeq(bytes, 1, Min({Len(bytes), Room(buf)}))

(* The characters of the k-th value when strings are len long; value k of  *)
(* a packet whose list has n elements, on the wire.                        *)
CharsOf(k, len) == [i \in 1..len |-> Tag(k, i)]

Write(buf, k, kind, n, len) ==
    CASE kind.kind = "int"    -> writeNext(buf, CharsOf(k, kind.w))
      [] kind.kind = "size"   -> writeNext(buf, <<Tag(k, n % 256)>>)
      [] kind.kind = "string" -> WriteChars(buf, Append(CharsOf(k, len), NUL))
      [] kind.kind = "cstr"   -> WriteChars(buf, CharsOf(k, len))

(* One field after the other, until the buffer is full; in parts, because  *)
(* TLC limits how deep a recursion goes.                                   *)
WritePart(buf, layout, from, to, n, len) ==
    LET after[k \in (from - 1)..to] ==
          IF k = from - 1 THEN buf ELSE Write(after[k - 1], k, layout[k][2], n, len)
    IN  IF Room(buf) = 0 THEN buf ELSE after[to]

Part == 50
WriteAll(buf, layout, n, len) ==
    LET parts == Len(layout) \div Part
        after[j \in 0..parts] ==
          IF j = 0 THEN buf ELSE WritePart(after[j - 1], layout, (j - 1) * Part + 1, j * Part, n, len)
    IN  WritePart(after[parts], layout, parts * Part + 1, Len(layout), n, len)

(* The constructor's size_, type and CRC. *)
WriteHeader == [i \in 1..HeaderSize |-> Tag(0, i + 1)]

(* The bytes pack() means to add. *)
WidthOf(kind, len) ==
    CASE kind.kind = "string" -> len + 1
      [] kind.kind = "cstr"   -> len
      [] OTHER                -> kind.w
LengthOf(layout, len) ==
    Cardinality(UNION {{k} \X (1..WidthOf(layout[k][2], len)) : k \in DOMAIN layout})

-----------------------------------------------------------------------------
(* Reading.  The receiver's buffer_ holds wire, then fill.                 *)
Byte(wire, fill, p) ==
    CASE p >= MaxPacketSize -> NUL
      [] p <= Len(wire)     -> wire[p]
      [] OTHER              -> fill

Bytes(wire, fill, from, to) == [i \in 1..(to - from) |-> Byte(wire, fill, from + i)]

(* readNext: T() at the end of buffer_, without moving. *)
ReadInt(wire, fill, at, w) ==
    IF at + w >= MaxPacketSize
      THEN [at |-> at, val |-> [i \in 1..w |-> NUL]]
      ELSE [at |-> at + w, val |-> Bytes(wire, fill, at, at + w)]

(* std::string: up to the first zero byte, or to the end of buffer_. *)
ReadString(wire, fill, at) ==
    LET end == CHOOSE p \in (at + 1)..MaxPacketSize :
                 Byte(wire, fill, p) = NUL /\ \A q \in (at + 1)..(p - 1) : Byte(wire, fill, q) # NUL
    IN  [at |-> Min({end, MaxPacketSize - 1}), val |-> Bytes(wire, fill, at, end - 1)]

(* char[w]: w characters, whatever they are. *)
ReadChars(wire, fill, at, w) ==
    [at |-> Min({at + w, MaxPacketSize - 1}), val |-> Bytes(wire, fill, at, at + w)]

Read(wire, fill, at, kind) ==
    CASE kind.kind \in {"int", "size"} -> ReadInt(wire, fill, at, kind.w)
      [] kind.kind = "string"          -> ReadString(wire, fill, at)
      [] kind.kind = "chars"           -> ReadChars(wire, fill, at, kind.w)

(* Reading a layout from offset r.at on: where it ends, and the fields it  *)
(* gives with their values.                                                *)
ReadField(r, wire, fill, field) ==
    LET v == Read(wire, fill, r.at, field[2])
    IN  [at |-> v.at, got |-> Append(r.got, <<field[1], v.val>>)]

AtPayload == [at |-> HeaderSize, got |-> <<>>]
ReadAll(r, wire, fill, layout) ==
    LET after[k \in 0..Len(layout)] ==
          IF k = 0 THEN r ELSE ReadField(after[k - 1], wire, fill, layout[k])
    IN  after[Len(layout)]
=============================================================================
