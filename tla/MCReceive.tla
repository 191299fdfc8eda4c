----------------------------- MODULE MCReceive -----------------------------
EXTENDS Receive, LinkCodec

(* A table of masks with all residues; any table would do. *)
MCRt(i, j) == (i * 89 + j * 37 + 11) % 256

(* size, type, CRC, body; the last packet claims to be shorter than a header *)
P(size, type, body) == <<size, 0, type % 256, type \div 256, 0, 0>> \o body
MCPackets(l) ==
    IF l = "isc" THEN {P(6, 770, <<>>), P(9, 769, <<0, 200, 0>>), P(4, 769, <<>>)}
    ELSE {P(6, 1792, <<>>), P(8, 2027, <<5, 0>>), P(9, 1800, <<1, 2, 255>>), P(4, 1792, <<>>)}
MCKnown(l) == IF l = "isc" THEN {769} ELSE {1792, 2027}
=============================================================================
