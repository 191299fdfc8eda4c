---------------------------- MODULE PacketCrypt ----------------------------
(***************************************************************************)
(* PacketCodec of rosecommon (crosecrypt.h, crosecrypt.cpp): the header of *)
(* a packet is 40 bits, shuffled and masked; the body is masked; byte 5 is *)
(* a checksum over the plain header and body.                              *)
(*                                                                         *)
(* A packet is a sequence of bytes; byte i of the code is element i + 1.   *)
(* The masks come from the table m_Rt that changeSeed fills from a seed.   *)
(* Both ends fill it alike and nothing depends on what is in it, so it is  *)
(* a parameter: Rt(i, j) is the low byte of m_Rt[i][j].                    *)
(***************************************************************************)
EXTENDS Integers, Sequences, SequencesExt, FiniteSetsExt, Bitwise

CONSTANT Rt(_, _)
ASSUME RtAssumption == \A i \in 0..15, j \in 0..63 : Rt(i, j) \in 0..255

CrcTable ==
    <<0, 94, 188, 226, 97, 63, 221, 131, 194, 156, 126, 32, 163, 253, 31, 65,
      157, 195, 33, 127, 252, 162, 64, 30, 95, 1, 227, 189, 62, 96, 130, 220,
      35, 125, 159, 193, 66, 28, 254, 160, 225, 191, 93, 3, 128, 222, 60, 98,
      190, 224, 2, 92, 223, 129, 99, 61, 124, 34, 192, 158, 29, 67, 161, 255,
      70, 24, 250, 164, 39, 121, 155, 197, 132, 218, 56, 102, 229, 187, 89, 7,
      219, 133, 103, 57, 186, 228, 6, 88, 25, 71, 165, 251, 120, 38, 196, 154,
      101, 59, 217, 135, 4, 90, 184, 230, 167, 249, 27, 69, 198, 152, 122, 36,
      248, 166, 68, 26, 153, 199, 37, 123, 58, 100, 134, 216, 91, 5, 231, 185,
      140, 210, 48, 110, 237, 179, 81, 15, 78, 16, 242, 172, 47, 113, 147, 205,
      17, 79, 173, 243, 112, 46, 204, 146, 211, 141, 111, 49, 178, 236, 14, 80,
      175, 241, 19, 77, 206, 144, 114, 44, 109, 51, 209, 143, 12, 82, 176, 238,
      50, 108, 142, 208, 83, 13, 239, 177, 240, 174, 76, 18, 145, 207, 45, 115,
      202, 148, 118, 40, 171, 245, 23, 73, 8, 86, 180, 234, 105, 55, 213, 139,
      87, 9, 235, 181, 54, 104, 138, 212, 149, 203, 41, 119, 244, 170, 72, 22,
      233, 183, 85, 11, 136, 214, 52, 106, 43, 117, 151, 201, 74, 20, 246, 168,
      116, 42, 200, 150, 21, 75, 169, 247, 182, 232, 10, 84, 215, 137, 107, 53>>

(* The parts of the header: their first bit when plain, and their width.   *)
HeadDecrypted ==
    [AddBufferLen1 |-> <<0, 3>>, AddBufferLen2 |-> <<3, 3>>, AddBufferLen3 |-> <<6, 3>>,
     AddBufferLen4 |-> <<9, 2>>, Command1 |-> <<11, 3>>, Command2 |-> <<14, 3>>,
     Command3 |-> <<17, 3>>, Command4 |-> <<20, 2>>, AddTableValue1 |-> <<22, 3>>,
     AddTableValue2 |-> <<25, 3>>, AddTableValue3 |-> <<28, 3>>, AddTableValue4 |-> <<31, 2>>,
     EncryptAddValue1 |-> <<33, 2>>, EncryptAddValue2 |-> <<35, 2>>, EncryptValue1 |-> <<37, 3>>]

(* struct Head, the plain header: first bit and width of each value. *)
HeadField == [AddBufferLen |-> <<0, 11>>, Command |-> <<11, 11>>, AddTableValue |-> <<22, 11>>,
         EncryptAddValue |-> <<33, 4>>, EncryptValue |-> <<37, 3>>]

(* The order of the parts on the wire, from a server and from a client. *)
HeadCryptedServer ==
    <<"AddBufferLen2", "AddTableValue1", "Command3", "EncryptValue1", "AddBufferLen3",
      "AddTableValue3", "Command2", "AddTableValue4", "Command1", "EncryptAddValue1",
      "AddBufferLen4", "EncryptAddValue2", "AddBufferLen1", "AddTableValue2", "Command4">>
HeadCryptedClient ==
    <<"Command2", "AddTableValue2", "AddBufferLen1", "AddTableValue3", "Command1",
      "EncryptValue1", "AddBufferLen2", "EncryptAddValue2", "AddBufferLen3", "AddTableValue4",
      "Command4", "EncryptAddValue1", "Command3", "AddTableValue1", "AddBufferLen4">>

(* Forty bits are a sequence; bit b of the header is element b + 1.        *)
(* SubSeq makes TLC evaluate the sequence once.                            *)
BitOf(v, i) == (v \div 2^i) % 2
Number(bits, from, w) == MapThenSumSet(LAMBDA i : 2^i * bits[from + i + 1], 0..(w - 1))
Bits(f) == SubSeq(f, 1, 40)

FieldOf(b) == CHOOSE f \in DOMAIN HeadField : b - HeadField[f][1] \in 0..(HeadField[f][2] - 1)
HeadBits(head) ==
    Bits([i \in 1..40 |-> BitOf(head[FieldOf(i - 1)], i - 1 - HeadField[FieldOf(i - 1)][1])])
HeadOf(bits) == [f \in DOMAIN HeadField |-> Number(bits, HeadField[f][1], HeadField[f][2])]
HeadBytes(bits) == [i \in 1..5 |-> Number(bits, 8 * (i - 1), 8)]
BytesToBits(bytes) == Bits([i \in 1..40 |-> BitOf(bytes[((i - 1) \div 8) + 1], (i - 1) % 8)])

(* order[k]: where bit k on the wire is in the plain header, and back. *)
Order(crypted) ==
    FlattenSeq([i \in DOMAIN crypted |->
      [j \in 1..HeadDecrypted[crypted[i]][2] |-> HeadDecrypted[crypted[i]][1] + j]])
ServerOrder == Order(HeadCryptedServer)
ClientOrder == Order(HeadCryptedClient)
Place(order) == Bits([b \in 1..40 |-> CHOOSE k \in 1..40 : order[k] = b])

(* FlipHeadMain moves all parts but the table value, which travel masked;  *)
(* FlipHeadFinal puts the table value in clear, as the reader needs it.    *)
IsTableValue(b) == b - 1 - HeadField.AddTableValue[1] \in 0..(HeadField.AddTableValue[2] - 1)
Masked(bit, b, k, table) ==
    IF IsTableValue(b) THEN bit ELSE (bit + BitOf(Rt((k - 1) \div 8, table), (k - 1) % 8)) % 2
FlipToWire(order, plain, table) ==
    Bits([k \in 1..40 |-> Masked(plain[order[k]], order[k], k, table)])
FlipFromWire(place, wire, table) ==
    Bits([b \in 1..40 |-> Masked(wire[place[b]], b, place[b], table)])
TableValue(place, wire) ==
    Number([b \in 1..40 |-> wire[place[b]]], HeadField.AddTableValue[1], HeadField.AddTableValue[2])

BodyMask(head, i) == Rt((head.EncryptAddValue + i) % 16, (head.AddTableValue + i) % 2048)

Checksum(head, body) == FoldLeft(LAMBDA c, b : CrcTable[(b ^^ c) + 1], 0, head \o body)

-----------------------------------------------------------------------------
encode(order, packet, encryptValue) ==
    LET head == [AddTableValue |-> 256, EncryptAddValue |-> 4, EncryptValue |-> encryptValue % 8,
                 AddBufferLen |-> (packet[1] + 256 * packet[2]) % 2048,
                 Command |-> (packet[3] + 256 * packet[4]) % 2048]
        bits == HeadBits(head)
        body == SubSeq(packet, 7, head.AddBufferLen)
    IN  HeadBytes(FlipToWire(order, bits, head.AddTableValue))
          \o <<Checksum(HeadBytes(bits), body)>>
          \o [i \in DOMAIN body |-> body[i] ^^ BodyMask(head, i + 5)]

encodeServerPacket(packet) == encode(ServerOrder, packet, 256 + 4)
encodeClientPacket(packet) == encode(ClientOrder, packet, 0)

(* Unmask the header in place: the plain head and its length. *)
decodeHeader(order, buf) ==
    LET wire  == BytesToBits(buf)
        place == Place(order)
        bits  == FlipFromWire(place, wire, TableValue(place, wire))
    IN  [size |-> HeadOf(bits).AddBufferLen, buf |-> HeadBytes(bits) \o SubSeq(buf, 6, Len(buf))]

decodeServerHeader(buf) == decodeHeader(ServerOrder, buf)
decodeClientHeader(buf) == decodeHeader(ClientOrder, buf)

(* Unmask the body in place and compare the checksum; size and command go  *)
(* back to the first four bytes.                                           *)
decodeBody(buf, head, buflen) ==
    LET body == [i \in 1..(buflen - 6) |-> buf[i + 6] ^^ BodyMask(head, i + 5)]
    IN  [ok  |-> Checksum(SubSeq(buf, 1, 5), body) = buf[6],
         buf |-> <<buflen % 256, buflen \div 256, head.Command % 256, head.Command \div 256,
                   buf[5], buf[6]>> \o body]

decodeServerBody(buf) ==
    LET head == HeadOf(BytesToBits(buf))
    IN  decodeBody(buf, head, head.AddBufferLen)
decodeClientBody(buf) ==
    LET head == HeadOf(BytesToBits(buf))
    IN  decodeBody(buf, head, (head.AddBufferLen - head.EncryptValue) % 65536)
=============================================================================
