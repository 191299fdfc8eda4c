--------------------------- MODULE ReceiveProofs ---------------------------
(***************************************************************************)
(* Proofs about Receive, for any packets, any cipher that meets            *)
(* CodecAssumption and any number of packets: the stream of bytes is cut   *)
(* into the packets that were written, and a wrong byte stops it.          *)
(***************************************************************************)
EXTENDS Receive, SequenceTheorems, TLAPS

(* The packets found in the stream, handled or not. *)
Found == handled \o recv_queue_

Types ==
    /\ link \in Links
    /\ sent \in Seq(Packets(link)) /\ damaged \in 0..Len(sent) /\ (damaged > 0 => link # "isc")
    /\ wire \in Seq(Byte) /\ eof \in BOOLEAN
    /\ buffer_ \in Seq(Byte) /\ packet_size_ \in 6..MAX_PACKET_SIZE /\ Len(buffer_) <= packet_size_
    /\ reading \in BOOLEAN /\ active_ \in BOOLEAN
    /\ recv_queue_ \in Seq(Seq(Byte)) /\ handled \in Seq(Seq(Byte))

(* One packet at a time is between OnReceived and its dispatch, and none   *)
(* when the read handler is in shutdown().                                 *)
Ends ==
    /\ Len(recv_queue_) <= 1 /\ (reading => recv_queue_ = <<>>)
    /\ "read" \in closing => ~reading /\ recv_queue_ = <<>>

(* What was found is what was sent, up to the packet with the wrong byte. *)
Right ==
    /\ Len(Found) <= Len(sent)
    /\ \A i \in 1..Len(Found) : Content(Found[i]) = Content(sent[i])
    /\ damaged > 0 => Len(Found) < damaged

(* The bytes written for packet i. *)
Written(w, i) ==
    IF i = damaged
      THEN \E at \in DamageAt, bit \in DamageBits :
             at <= Len(sent[i]) /\ w = Damage(Encoded(link, sent[i]), at, bit)
      ELSE w = Encoded(link, sent[i])

(* ws[i] was written for packet i and starts behind cut[i] in wire: the    *)
(* packets not found yet follow one another and wire holds their bytes.    *)
Laid(ws, cut) ==
    \A i \in Len(Found) + 1 .. Len(sent) :
      /\ Written(ws[i], i)
      /\ cut[i + 1] = cut[i] + Len(ws[i]) /\ cut[i + 1] <= cut[Len(sent) + 1]
      /\ \A b \in 1..Len(ws[i]) : cut[i] + b \in 1..Len(wire) => wire[cut[i] + b] = ws[i][b]
Ending(cut) ==
    /\ Len(wire) <= cut[Len(sent) + 1]
    /\ ~eof => Len(wire) = cut[Len(sent) + 1]

(* Between packets, or with the header of the next one read. *)
Between(cut) == packet_size_ = 6 /\ buffer_ = <<>> /\ cut[Len(Found) + 1] = 0
Inside(ws, cut) ==
    LET n == Len(Found) + 1
        h == HeaderOf(link, Head6(ws[n]))
    IN  /\ n <= Len(sent) /\ reading
        /\ h.size > 6 /\ packet_size_ = h.size /\ buffer_ = h.buf
        /\ cut[n] = -6

(* Something may still be found. *)
Live == active_ /\ "read" \notin closing

InStep ==
    Live =>
      \E ws \in [1..Len(sent) -> Seq(Byte)], cut \in [1..Len(sent) + 1 -> Int] :
        /\ Laid(ws, cut) /\ Ending(cut)
        /\ Between(cut) \/ Inside(ws, cut)

IInv == Types /\ Ends /\ Right /\ InStep

-----------------------------------------------------------------------------
(* Sequences. *)
LEMMA AppendFacts ==
  ASSUME NEW S, NEW s \in Seq(S), NEW x \in S
  PROVE  /\ Append(s, x) \in Seq(S) /\ Len(Append(s, x)) = Len(s) + 1
         /\ \A i \in 1..Len(s) : Append(s, x)[i] = s[i]
         /\ Append(s, x)[Len(s) + 1] = x
OBVIOUS

LEMMA DropFirst ==
  ASSUME NEW S, NEW s \in Seq(S), NEW k \in 0..Len(s)
  PROVE  /\ SubSeq(s, k + 1, Len(s)) \in Seq(S)
         /\ Len(SubSeq(s, k + 1, Len(s))) = Len(s) - k
         /\ \A j \in 1..Len(s) - k : SubSeq(s, k + 1, Len(s))[j] = s[j + k]
OBVIOUS

LEMMA KeepFirst ==
  ASSUME NEW S, NEW s \in Seq(S), NEW k \in 0..Len(s)
  PROVE  /\ SubSeq(s, 1, k) \in Seq(S) /\ Len(SubSeq(s, 1, k)) = k
         /\ \A j \in 1..k : SubSeq(s, 1, k)[j] = s[j]
OBVIOUS

(* One packet is queued when the queue is empty. *)
LEMMA QueueOne ==
  ASSUME NEW S, NEW s \in Seq(S), NEW x \in S
  PROVE  s \o Append(<<>>, x) = Append(s, x) /\ s \o <<>> = s
<1>1. Append(<<>>, x) = <<x>>
  OBVIOUS
<1>2. s \o <<x>> = Append(s, x)
  BY AppendIsConcat
<1>3. s \o <<>> = s
  BY ConcatEmptySeq
<1> QED BY <1>1, <1>2, <1>3

LEMMA OnlyOne ==
  ASSUME NEW S, NEW s \in Seq(S), s # <<>>, Len(s) <= 1
  PROVE  Len(s) = 1 /\ s = <<Head(s)>> /\ Head(s) \in S /\ Tail(s) = <<>>
<1>1. Len(s) \in Nat /\ Len(s) # 0
  BY EmptySeq
<1>2. Len(s) = 1
  BY <1>1
<1>3. Head(s) = s[1] /\ s[1] \in S
  BY <1>2
<1>4. <<s[1]>> \in Seq(S) /\ Len(<<s[1]>>) = 1 /\ <<s[1]>>[1] = s[1]
  BY <1>3
<1>5. s = <<s[1]>>
  BY <1>2, <1>4, SeqEqual
<1>6. Tail(s) = <<>>
  <2>1. Tail(s) \in Seq(S) /\ Len(Tail(s)) = 0
    BY <1>2
  <2> QED BY <2>1, EmptySeq
<1> QED BY <1>2, <1>3, <1>5, <1>6

(* The packets found are a sequence. *)
LEMMA FoundType ==
  ASSUME Types
  PROVE  Found \in Seq(Seq(Byte)) /\ Len(Found) = Len(handled) + Len(recv_queue_)
<1>1. handled \in Seq(Seq(Byte)) /\ recv_queue_ \in Seq(Seq(Byte))
  BY DEF Types
<1> QED BY <1>1, ConcatProperties DEF Found

LEMMA FoundTypeNext ==
  ASSUME Types'
  PROVE  Found' \in Seq(Seq(Byte)) /\ Len(Found') = Len(handled') + Len(recv_queue_')
<1>1. handled' \in Seq(Seq(Byte)) /\ recv_queue_' \in Seq(Seq(Byte))
  BY DEF Types
<1> QED BY <1>1, ConcatProperties DEF Found

(* Only packets of the link are sent, and what is written for one is       *)
(* framed; it is sound exactly if no byte is wrong.                        *)
LEMMA WrittenFacts ==
  ASSUME Types, NEW i \in 1..Len(sent), NEW w, Written(w, i)
  PROVE  /\ Framed(link, w)
         /\ HeaderOf(link, Head6(w)).size >= 6 =>
              LET body == BodyOf(link, Whole(link, w))
              IN  IF i = damaged THEN ~body.ok
                  ELSE body.ok /\ body.buf \in Seq(Byte) /\ Content(body.buf) = Content(sent[i])
<1> DEFINE p == sent[i]
<1>1. link \in Links /\ p \in Packets(link) /\ damaged \in 0..Len(sent) /\ (damaged > 0 => link # "isc")
  BY DEF Types
<1> HIDE DEF p
<1>2. CASE i = damaged
  <2>1. PICK at \in DamageAt, bit \in DamageBits : at <= Len(p) /\ w = Damage(Encoded(link, p), at, bit)
    BY <1>2 DEF Written, p
  <2>2. link # "isc"
    BY <1>1, <1>2
  <2>3. Framed(link, w) /\ (HeaderOf(link, Head6(w)).size >= 6 => ~BodyOf(link, Whole(link, w)).ok)
    BY <1>1, <2>1, <2>2, CodecAssumption
  <2> QED BY <2>3, <1>2
<1>3. CASE i # damaged
  <2>1. w = Encoded(link, p)
    BY <1>3 DEF Written, p
  <2>2. /\ Framed(link, w)
        /\ HeaderOf(link, Head6(w)).size >= 6 =>
             LET body == BodyOf(link, Whole(link, w))
             IN  body.ok /\ body.buf \in Seq(Byte) /\ Content(body.buf) = Content(p)
    BY <1>1, <2>1, CodecAssumption
  <2> QED BY <2>2, <1>3 DEF p
<1> QED BY <1>2, <1>3

(* What was written for a packet stays so when more are sent. *)
LEMMA WrittenStays ==
  ASSUME NEW i \in 1..Len(sent), NEW w, Written(w, i), link' = link, sent'[i] = sent[i],
         damaged' = damaged \/ (damaged' # i /\ damaged # i)
  PROVE  Written(w, i)'
BY DEF Written

(* Reading k bytes moves the packets by k. *)
Reads(k) == k \in Nat /\ k <= Len(wire) /\ wire' = SubSeq(wire, k + 1, Len(wire)) /\ UNCHANGED <<link, sent, damaged, eof>>
IsMoved(c, cut, k) == c = [i \in 1..Len(sent) + 1 |-> cut[i] - k]
Grows == Len(Found)' >= Len(Found)
Placing == [1..Len(sent) + 1 -> Int]
Writing == [1..Len(sent) -> Seq(Byte)]

LEMMA Shifted ==
  ASSUME Types, Types', NEW ws, ws \in Writing, NEW cut, cut \in Placing, Laid(ws, cut), Ending(cut),
         NEW k, Reads(k), Grows, NEW c, IsMoved(c, cut, k)
  PROVE  Laid(ws, c)' /\ Ending(c)' /\ c \in Placing
<1>1. /\ Len(wire) \in Nat /\ Len(sent) \in Nat /\ Len(Found) \in Nat /\ Len(Found)' \in Nat
      /\ wire \in Seq(Byte) /\ wire' \in Seq(Byte)
      /\ sent' = sent /\ link' = link /\ damaged' = damaged /\ eof' = eof
      /\ k \in Nat /\ k <= Len(wire)
  <2>1. Len(Found) \in Nat /\ Len(Found)' \in Nat
    BY FoundType, FoundTypeNext
  <2> QED BY <2>1 DEF Types, Reads
<1>2. Len(wire') = Len(wire) - k /\ \A j \in 1..Len(wire) - k : wire'[j] = wire[j + k]
  BY <1>1, DropFirst DEF Reads
<1>0. c \in Placing /\ \A i \in 1..Len(sent) + 1 : c[i] = cut[i] - k /\ cut[i] \in Int
  <2>1. cut \in [1..Len(sent) + 1 -> Int]
    BY DEF Placing
  <2>2. \A i \in 1..Len(sent) + 1 : cut[i] \in Int
    BY <2>1
  <2>3. c = [i \in 1..Len(sent) + 1 |-> cut[i] - k]
    BY DEF IsMoved
  <2>4. \A i \in 1..Len(sent) + 1 : c[i] = cut[i] - k /\ cut[i] - k \in Int
    BY <2>2, <2>3, <1>1
  <2>5. c \in Placing
    BY <2>3, <2>4 DEF Placing
  <2> QED BY <2>2, <2>4, <2>5
<1>3. ASSUME NEW i \in 1..Len(sent), i > Len(Found)
      PROVE  /\ Written(ws[i], i)'
             /\ c[i + 1] = c[i] + Len(ws[i]) /\ c[i + 1] <= c[Len(sent) + 1]
             /\ \A b \in 1..Len(ws[i]) : c[i] + b \in 1..Len(wire') => wire'[c[i] + b] = ws[i][b]
  <2>1. i \in Len(Found) + 1 .. Len(sent) /\ i + 1 \in 1..Len(sent) + 1 /\ i \in 1..Len(sent) + 1
        /\ Len(sent) + 1 \in 1..Len(sent) + 1
    BY <1>1, <1>3
  <2>2. /\ Written(ws[i], i)
        /\ cut[i + 1] = cut[i] + Len(ws[i]) /\ cut[i + 1] <= cut[Len(sent) + 1]
        /\ \A b \in 1..Len(ws[i]) : cut[i] + b \in 1..Len(wire) => wire[cut[i] + b] = ws[i][b]
    BY <2>1 DEF Laid
  <2>3. ws[i] \in Seq(Byte) /\ Len(ws[i]) \in Nat
    BY <2>1 DEF Writing
  <2>4. Written(ws[i], i)'
    BY <2>1, <2>2, <1>1, WrittenStays
  <2>5. /\ c[i] = cut[i] - k /\ c[i + 1] = cut[i + 1] - k /\ c[Len(sent) + 1] = cut[Len(sent) + 1] - k
        /\ cut[i] \in Int /\ cut[i + 1] \in Int /\ cut[Len(sent) + 1] \in Int
    BY <1>0, <2>1
  <2>6. c[i + 1] = c[i] + Len(ws[i]) /\ c[i + 1] <= c[Len(sent) + 1]
    <3>1. cut[i + 1] = cut[i] + Len(ws[i]) /\ cut[i + 1] <= cut[Len(sent) + 1]
      BY <2>2
    <3>2. /\ c[i] = cut[i] - k /\ c[i + 1] = cut[i + 1] - k /\ c[Len(sent) + 1] = cut[Len(sent) + 1] - k
          /\ cut[i] \in Int /\ cut[i + 1] \in Int /\ cut[Len(sent) + 1] \in Int
          /\ k \in Nat /\ Len(ws[i]) \in Nat
      BY <2>3, <2>5, <1>1
    <3>3. c[i + 1] = c[i] + Len(ws[i])
      BY <3>1, <3>2
    <3>4. c[i + 1] <= c[Len(sent) + 1]
      BY <3>1, <3>2
    <3> QED BY <3>3, <3>4
  <2>7. \A b \in 1..Len(ws[i]) : c[i] + b \in 1..Len(wire') => wire'[c[i] + b] = ws[i][b]
    <3>1. c[i] \in Int
      BY <2>5, <1>1
    <3>2. /\ k \in Nat /\ k <= Len(wire) /\ wire \in Seq(Byte) /\ wire' \in Seq(Byte) /\ ws[i] \in Seq(Byte) /\ cut[i] \in Int
          /\ c[i] = cut[i] - k
      BY <1>1, <2>3, <2>5
    <3>3. \A b \in 1..Len(ws[i]) : cut[i] + b \in 1..Len(wire) => wire[cut[i] + b] = ws[i][b]
      BY <2>2
    <3>4. SUFFICES ASSUME NEW b \in 1..Len(ws[i]), c[i] + b \in 1..Len(wire')
                   PROVE  wire'[c[i] + b] = ws[i][b]
      OBVIOUS
    <3>5. c[i] + b \in 1..Len(wire) - k
      BY <3>4, <1>2
    <3>6. (c[i] + b) + k = cut[i] + b
      <4>1. k \in Nat /\ cut[i] \in Int /\ b \in Int /\ c[i] = cut[i] - k
        BY <3>2, <2>3
      <4> QED BY <4>1
    <3>7. cut[i] + b \in 1..Len(wire)
      <4>1. k \in Nat /\ Len(wire) \in Nat
        BY <1>1
      <4> DEFINE x == c[i] + b
      <4>2. x \in 1..Len(wire) - k
        BY <3>5
      <4> HIDE DEF x
      <4>3. x + k \in 1..Len(wire)
        BY <4>1, <4>2
      <4> QED BY <4>3, <3>6 DEF x
    <3> QED BY <3>3, <3>5, <3>6, <3>7, <1>2
  <2> QED BY <2>4, <2>6, <2>7
<1>4. Laid(ws, c)'
  <2>1. ASSUME NEW i \in Len(Found') + 1 .. Len(sent')
        PROVE  /\ Written(ws[i], i)'
               /\ c[i + 1] = c[i] + Len(ws[i]) /\ c[i + 1] <= c[Len(sent') + 1]
               /\ \A b \in 1..Len(ws[i]) : c[i] + b \in 1..Len(wire') => wire'[c[i] + b] = ws[i][b]
    <3>1. Len(sent') = Len(sent) /\ Len(sent) \in Nat /\ Len(Found) \in Nat /\ Len(Found') \in Nat
      BY <1>1
    <3>2. Len(Found') >= Len(Found)
      BY DEF Grows
    <3>3. i \in 1..Len(sent) /\ i > Len(Found)
      BY <3>1, <3>2
    <3> QED BY <3>1, <3>3, <1>3
  <2> QED BY <2>1 DEF Laid
<1>5. Ending(c)'
  <2>1. c[Len(sent) + 1] = cut[Len(sent) + 1] - k /\ cut[Len(sent) + 1] \in Int
    BY <1>0, <1>1
  <2>2. Len(wire') = Len(wire) - k /\ Len(wire) \in Nat /\ k \in Nat /\ Len(sent') = Len(sent) /\ eof' = eof
    BY <1>1, <1>2
  <2>3. Len(wire) <= cut[Len(sent) + 1] /\ (~eof => Len(wire) = cut[Len(sent) + 1])
    BY DEF Ending
  <2>4. Len(wire') <= c[Len(sent) + 1]
    BY <2>1, <2>2, <2>3
  <2>5. ~eof => Len(wire') = c[Len(sent) + 1]
    BY <2>1, <2>2, <2>3
  <2> QED BY <2>2, <2>4, <2>5 DEF Ending
<1> QED BY <1>0, <1>4, <1>5

(* The six bytes of the next header, or what follows them, are at the      *)
(* beginning of the wire.                                                  *)
LEMMA NextBytes ==
  ASSUME Types, NEW ws, ws \in Writing, NEW cut, Laid(ws, cut), NEW n \in 1..Len(sent), n = Len(Found) + 1,
         NEW from \in Nat, cut[n] \in Int, cut[n] + from = 0, NEW k \in Nat, k <= Len(wire), from + k <= Len(ws[n])
  PROVE  SubSeq(wire, 1, k) = SubSeq(ws[n], from + 1, from + k)
<1>1. /\ wire \in Seq(Byte) /\ Len(wire) \in Nat /\ ws[n] \in Seq(Byte) /\ Len(ws[n]) \in Nat
  BY DEF Types, Writing
<1>2. n \in Len(Found) + 1 .. Len(sent)
  BY FoundType DEF Types
<1>3. \A b \in 1..Len(ws[n]) : cut[n] + b \in 1..Len(wire) => wire[cut[n] + b] = ws[n][b]
  BY <1>2 DEF Laid
<1>4. ASSUME NEW j \in 1..k PROVE wire[j] = ws[n][from + j]
  <2>1. from + j \in 1..Len(ws[n]) /\ cut[n] + (from + j) = j /\ j \in 1..Len(wire)
    <3>1. j \in Nat /\ 1 <= j /\ j <= k
      OBVIOUS
    <3>2. from + j \in 1..Len(ws[n])
      BY <3>1, <1>1
    <3>3. j \in 1..Len(wire)
      BY <3>1, <1>1
    <3>4. cut[n] + (from + j) = j
      BY <3>1
    <3> QED BY <3>2, <3>3, <3>4
  <2> QED BY <2>1, <1>3
<1> DEFINE a == SubSeq(wire, 1, k)
           b == SubSeq(ws[n], from + 1, from + k)
<1>5. a \in Seq(Byte) /\ Len(a) = k /\ \A j \in 1..k : a[j] = wire[j]
  BY <1>1, KeepFirst
<1>6. b \in Seq(Byte) /\ Len(b) = k /\ \A j \in 1..k : b[j] = ws[n][from + j]
  BY <1>1
<1> HIDE DEF a, b
<1>7. a = b
  BY <1>4, <1>5, <1>6, SeqEqual
<1> QED BY <1>7 DEF a, b

-----------------------------------------------------------------------------
(* Initially nothing was sent: the reader is between packets. *)
LEMMA InitIInv == Init => IInv
<1> SUFFICES ASSUME Init PROVE IInv
  OBVIOUS
<1>1. Types
  <2>1. /\ link \in Links /\ sent = <<>> /\ damaged = 0 /\ wire = <<>> /\ eof = FALSE /\ buffer_ = <<>>
        /\ packet_size_ = 6 /\ reading = TRUE /\ recv_queue_ = <<>> /\ active_ = TRUE /\ handled = <<>>
        /\ closing = {}
    BY DEF Init
  <2>2. \A S : <<>> \in Seq(S)
    OBVIOUS
  <2>3. Len(<<>>) = 0
    OBVIOUS
  <2>4. /\ sent \in Seq(Packets(link)) /\ wire \in Seq(Byte) /\ buffer_ \in Seq(Byte)
        /\ recv_queue_ \in Seq(Seq(Byte)) /\ handled \in Seq(Seq(Byte))
    BY <2>1, <2>2, Zenon
  <2>5. damaged \in 0..Len(sent) /\ ~(damaged > 0)
    BY <2>1, <2>3
  <2>6. packet_size_ \in 6..MAX_PACKET_SIZE /\ Len(buffer_) <= packet_size_
    BY <2>1, <2>3 DEF MAX_PACKET_SIZE
  <2>7. eof \in BOOLEAN /\ reading \in BOOLEAN /\ active_ \in BOOLEAN
    BY <2>1
  <2> QED BY <2>1, <2>4, <2>5, <2>6, <2>7, Zenon DEF Types
<1>2. Found = <<>> /\ Len(Found) = 0
  <2>1. handled = <<>> /\ recv_queue_ = <<>>
    BY DEF Init
  <2>2. <<>> \o <<>> = <<>>
    BY ConcatEmptySeq
  <2> QED BY <2>1, <2>2 DEF Found
<1>3. Ends
  BY DEF Init, Ends
<1>4. Right
  BY <1>2 DEF Init, Right
<1>5. InStep
  <2>1. PICK ws : ws = [i \in 1..0 |-> <<>>]
    OBVIOUS
  <2>2. PICK cut : cut = [i \in 1..1 |-> 0]
    OBVIOUS
  <2>3. sent = <<>> /\ Len(sent) = 0 /\ wire = <<>> /\ Len(wire) = 0 /\ buffer_ = <<>> /\ packet_size_ = 6
    BY DEF Init
  <2>4. ws \in [1..Len(sent) -> Seq(Byte)] /\ cut \in [1..Len(sent) + 1 -> Int] /\ cut[1] = 0
    BY <2>1, <2>2, <2>3
  <2>5. Laid(ws, cut)
    BY <1>2, <2>3 DEF Laid
  <2>6. Ending(cut) /\ Between(cut)
    BY <1>2, <2>3, <2>4 DEF Ending, Between
  <2> QED BY <2>4, <2>5, <2>6 DEF InStep
<1> QED BY <1>1, <1>3, <1>4, <1>5 DEF IInv

(* Where a connection is inactive or its reader ends it, nothing more is   *)
(* found.                                                                  *)
LEMMA Stopped ==
  ASSUME IInv, Types', Ends', UNCHANGED <<sent, damaged>>, Found' = Found, ~Live'
  PROVE  IInv'
<1>1. Right'
  BY DEF IInv, Right
<1>2. InStep'
  BY DEF InStep
<1> QED BY <1>1, <1>2 DEF IInv

(* The same state but for variables that say nothing of the stream. *)
LEMMA NothingMoves ==
  ASSUME IInv, Types', Ends', UNCHANGED <<peer, buffer_, packet_size_>>, Live' => Live, Found' = Found,
         reading => reading'
  PROVE  IInv'
<1>0. /\ link' = link /\ sent' = sent /\ damaged' = damaged /\ wire' = wire /\ eof' = eof
      /\ buffer_' = buffer_ /\ packet_size_' = packet_size_
  BY DEF peer
<1>1. Right'
  BY <1>0 DEF IInv, Right
<1>2. ASSUME Live' PROVE InStep'
  <2>1. PICK ws \in [1..Len(sent) -> Seq(Byte)], cut \in [1..Len(sent) + 1 -> Int] :
          Laid(ws, cut) /\ Ending(cut) /\ (Between(cut) \/ Inside(ws, cut))
    BY <1>0, <1>2 DEF IInv, InStep
  <2>2. Laid(ws, cut)'
    BY <1>0, <2>1 DEF Laid, Written
  <2>3. Ending(cut)'
    BY <1>0, <2>1 DEF Ending
  <2>4. Between(cut) => Between(cut)'
    BY <1>0 DEF Between
  <2>5. Inside(ws, cut) => Inside(ws, cut)'
    BY <1>0 DEF Inside
  <2>6. ws \in [1..Len(sent') -> Seq(Byte)] /\ cut \in [1..Len(sent') + 1 -> Int]
    BY <1>0
  <2> QED BY <2>1, <2>2, <2>3, <2>4, <2>5, <2>6 DEF InStep
<1>3. InStep'
  BY <1>2 DEF InStep
<1> QED BY <1>1, <1>3 DEF IInv

(* The peer writes w for the packet p. *)
LEMMA SendStep ==
  ASSUME IInv, NEW p \in Packets(link), NEW w \in Seq(Byte), ~eof,
         NEW m \in Nat, m = Len(sent), sent' = Append(sent, p), wire' = wire \o w, Written(w, m + 1)',
         damaged' = damaged \/ (damaged = 0 /\ damaged' = m + 1 /\ link # "isc"),
         UNCHANGED <<link, eof, buffer_, packet_size_, reading, recv_queue_, active_, handled, ending>>
  PROVE  IInv'
<1>0. /\ link' = link /\ eof' = eof /\ buffer_' = buffer_ /\ packet_size_' = packet_size_ /\ reading' = reading
      /\ recv_queue_' = recv_queue_ /\ active_' = active_ /\ handled' = handled /\ closing' = closing
      /\ Found' = Found /\ Len(Found) \in Nat
  BY FoundType DEF Found, IInv, ending
<1>1. m = Len(sent)
  OBVIOUS
<1>2. /\ sent' \in Seq(Packets(link)) /\ Len(sent') = m + 1 /\ \A i \in 1..m : sent'[i] = sent[i]
  BY <1>1, AppendFacts DEF IInv, Types
<1>3. /\ wire' \in Seq(Byte) /\ Len(wire) \in Nat /\ Len(w) \in Nat /\ Len(wire') = Len(wire) + Len(w)
      /\ \A j \in 1..Len(wire) : wire'[j] = wire[j]
      /\ \A j \in 1..Len(w) : wire'[Len(wire) + j] = w[j]
  <2>1. wire \in Seq(Byte)
    BY DEF IInv, Types
  <2> QED BY <2>1
<1>4. damaged \in 0..m /\ damaged' \in 0..m + 1 /\ (damaged' > 0 => link # "isc") /\ (damaged' = damaged \/ (damaged' = m + 1 /\ damaged = 0))
  <2>1. damaged \in 0..m /\ (damaged > 0 => link # "isc")
    BY <1>1 DEF IInv, Types
  <2>2. CASE damaged' = damaged
    BY <2>1, <2>2
  <2>3. CASE damaged = 0 /\ damaged' = m + 1 /\ link # "isc"
    BY <2>3
  <2> QED BY <2>2, <2>3
<1>5. Types'
  BY <1>0, <1>1, <1>2, <1>3, <1>4 DEF IInv, Types
<1>6. Ends'
  BY <1>0 DEF IInv, Ends
<1>7. Right'
  <2>1. Len(Found) <= m /\ (\A i \in 1..Len(Found) : Content(Found[i]) = Content(sent[i])) /\ (damaged > 0 => Len(Found) < damaged)
    BY <1>1 DEF IInv, Right
  <2>2. \A i \in 1..Len(Found) : sent'[i] = sent[i]
    BY <1>0, <1>2, <2>1
  <2>3. damaged' > 0 => Len(Found) < damaged'
    BY <1>0, <1>4, <2>1
  <2>4. Len(Found) <= Len(sent')
    BY <1>0, <1>2, <2>1
  <2> QED BY <1>0, <2>1, <2>2, <2>3, <2>4 DEF Right
<1>8. ASSUME Live' PROVE InStep'
  <2>1. PICK ws \in [1..m -> Seq(Byte)], cut \in [1..m + 1 -> Int] :
          Laid(ws, cut) /\ Ending(cut) /\ (Between(cut) \/ Inside(ws, cut))
    BY <1>0, <1>1, <1>8 DEF IInv, InStep, Live
  <2>2. PICK v : v = [i \in 1..m + 1 |-> IF i = m + 1 THEN w ELSE ws[i]]
    OBVIOUS
  <2>3. PICK c : c = [i \in 1..m + 2 |-> IF i = m + 2 THEN cut[m + 1] + Len(w) ELSE cut[i]]
    OBVIOUS
  <2>4. /\ v \in [1..m + 1 -> Seq(Byte)] /\ v[m + 1] = w /\ \A i \in 1..m : v[i] = ws[i]
    BY <2>2
  <2>5. /\ c \in [1..m + 2 -> Int] /\ c[m + 2] = cut[m + 1] + Len(w) /\ \A i \in 1..m + 1 : c[i] = cut[i]
        /\ \A i \in 1..m + 1 : cut[i] \in Int
    <3>1. \A i \in 1..m + 1 : cut[i] \in Int
      BY <2>1
    <3>2. cut[m + 1] + Len(w) \in Int
      BY <3>1, <1>3
    <3> QED BY <2>3, <3>1, <3>2
  <2>6. Len(wire) = cut[m + 1]
    BY <1>1, <2>1 DEF Ending
  <2>7. ASSUME NEW i \in 1..m, i > Len(Found)
        PROVE  /\ Written(v[i], i)'
               /\ c[i + 1] = c[i] + Len(v[i]) /\ c[i + 1] <= c[m + 2]
               /\ \A b \in 1..Len(v[i]) : c[i] + b \in 1..Len(wire') => wire'[c[i] + b] = v[i][b]
    <3>1. i \in Len(Found) + 1 .. Len(sent) /\ i \in 1..m + 1 /\ i + 1 \in 1..m + 1 /\ m + 1 \in 1..m + 1
      BY <1>0, <1>1, <2>7
    <3>2. /\ Written(ws[i], i)
          /\ cut[i + 1] = cut[i] + Len(ws[i]) /\ cut[i + 1] <= cut[m + 1]
          /\ \A b \in 1..Len(ws[i]) : cut[i] + b \in 1..Len(wire) => wire[cut[i] + b] = ws[i][b]
      BY <3>1, <2>1, <1>1 DEF Laid
    <3>3. v[i] = ws[i] /\ Len(ws[i]) \in Nat
      BY <2>1, <2>4
    <3>4. c[i] = cut[i] /\ c[i + 1] = cut[i + 1] /\ cut[i] \in Int /\ cut[i + 1] \in Int /\ cut[m + 1] \in Int
      BY <2>5, <3>1
    <3>5. Written(v[i], i)'
      <4>1. damaged' = damaged \/ (damaged' # i /\ damaged # i)
        BY <1>4
      <4>2. sent'[i] = sent[i]
        BY <1>2
      <4>3. i \in 1..Len(sent) /\ link' = link
        BY <1>0, <1>1
      <4> QED BY <4>1, <4>2, <4>3, <3>2, <3>3, WrittenStays
    <3>6. c[i + 1] = c[i] + Len(v[i])
      BY <3>2, <3>3, <3>4
    <3>7. c[i + 1] <= c[m + 2]
      <4>1. cut[i + 1] <= cut[m + 1] /\ Len(w) \in Nat /\ c[m + 2] = cut[m + 1] + Len(w)
        BY <3>2, <1>3, <2>5
      <4>2. \A x, y, z \in Int : \A n \in Nat : x <= y /\ z = y + n => x <= z
        OBVIOUS
      <4>3. c[m + 2] \in Int
        BY <4>1, <3>4
      <4>4. cut[i + 1] <= c[m + 2]
        BY <4>1, <4>2, <4>3, <3>4, Zenon
      <4> QED BY <4>4, <3>4
    <3>8. ASSUME NEW b \in 1..Len(v[i]), c[i] + b \in 1..Len(wire') PROVE wire'[c[i] + b] = v[i][b]
      <4>1. cut[i] + b <= Len(wire)
        BY <3>2, <3>3, <3>4, <2>6
      <4>2. cut[i] + b \in 1..Len(wire) /\ c[i] + b = cut[i] + b
        BY <4>1, <3>8, <3>4, <1>3
      <4> QED BY <4>2, <3>2, <3>3, <1>3
    <3> QED BY <3>5, <3>6, <3>7, <3>8
  <2>8. /\ Written(v[m + 1], m + 1)'
        /\ c[(m + 1) + 1] = c[m + 1] + Len(v[m + 1]) /\ c[(m + 1) + 1] <= c[m + 2]
        /\ \A b \in 1..Len(v[m + 1]) : c[m + 1] + b \in 1..Len(wire') => wire'[c[m + 1] + b] = v[m + 1][b]
    <3>1. (m + 1) + 1 = m + 2 /\ m + 1 \in 1..m + 1 /\ c[m + 1] = Len(wire) /\ c[m + 2] = Len(wire) + Len(w)
      <4>1. (m + 1) + 1 = m + 2 /\ m + 1 \in 1..m + 1
        OBVIOUS
      <4>2. c[m + 1] = cut[m + 1] /\ c[m + 2] = cut[m + 1] + Len(w)
        BY <4>1, <2>5
      <4> QED BY <4>1, <4>2, <2>6
    <3>2. Written(w, m + 1)'
      OBVIOUS
    <3> QED BY <3>1, <3>2, <2>4, <1>3
  <2>9. Laid(v, c)'
    <3>1. (m + 1) + 1 = m + 2
      OBVIOUS
    <3>2. ASSUME NEW i \in Len(Found) + 1 .. m + 1
          PROVE  /\ Written(v[i], i)'
                 /\ c[i + 1] = c[i] + Len(v[i]) /\ c[i + 1] <= c[m + 2]
                 /\ \A b \in 1..Len(v[i]) : c[i] + b \in 1..Len(wire') => wire'[c[i] + b] = v[i][b]
      <4>1. CASE i = m + 1
        BY <4>1, <2>8
      <4>2. CASE i # m + 1
        <5>1. i \in 1..m /\ i > Len(Found)
          BY <4>2, <1>0
        <5> QED BY <5>1, <2>7
      <4> QED BY <4>1, <4>2
    <3> QED BY <3>1, <3>2, <1>0, <1>2 DEF Laid
  <2>10. Ending(c)'
    <3>1. (m + 1) + 1 = m + 2 /\ c[m + 2] = Len(wire')
      BY <2>5, <2>6, <1>3
    <3> QED BY <3>1, <1>2, <1>3 DEF Ending
  <2>11. Len(Found) + 1 \in 1..m + 1 /\ c[Len(Found) + 1] = cut[Len(Found) + 1]
    <3>1. Len(Found) <= m
      BY <1>1 DEF IInv, Right
    <3>2. Len(Found) + 1 \in 1..m + 1
      BY <3>1, <1>0
    <3> QED BY <3>2, <2>5
  <2>12. Between(cut) => Between(c)'
    BY <1>0, <2>11 DEF Between
  <2>13. ASSUME Inside(ws, cut) PROVE Inside(v, c)'
    <3>1. Len(Found) + 1 <= m
      BY <1>1, <2>13 DEF Inside
    <3>2. v[Len(Found) + 1] = ws[Len(Found) + 1]
      BY <3>1, <2>4, <1>0
    <3>3. Len(Found) + 1 <= m + 1
      BY <3>1, <1>0
    <3> QED BY <3>2, <3>3, <2>13, <2>11, <1>0, <1>2 DEF Inside
  <2>14. v \in [1..Len(sent') -> Seq(Byte)] /\ c \in [1..Len(sent') + 1 -> Int]
    <3>1. (m + 1) + 1 = m + 2
      OBVIOUS
    <3> QED BY <3>1, <1>2, <2>4, <2>5
  <2> QED BY <2>1, <2>9, <2>10, <2>12, <2>13, <2>14 DEF InStep
<1>9. InStep'
  BY <1>8 DEF InStep
<1> QED BY <1>5, <1>6, <1>7, <1>9 DEF IInv

-----------------------------------------------------------------------------
(* What a read that completes finds.  With six bytes to read, the header   *)
(* of the next packet, which is one that was sent.                         *)
LEMMA HeaderRead ==
  ASSUME IInv, Complete, packet_size_ = 6, NEW ws, ws \in Writing, NEW cut, cut \in Placing, Laid(ws, cut), Ending(cut),
         Between(cut) \/ Inside(ws, cut)
  PROVE  /\ BytesToRead = 6 /\ 6 <= Len(wire)
         /\ Len(Found) + 1 \in 1..Len(sent) /\ cut[Len(Found) + 1] = 0
         /\ Received = Head6(ws[Len(Found) + 1])
         /\ Written(ws[Len(Found) + 1], Len(Found) + 1)
<1> DEFINE n == Len(Found) + 1
<1>1. Between(cut)
  <2>1. ~Inside(ws, cut)
    <3>1. ASSUME Inside(ws, cut) PROVE FALSE
      <4>1. packet_size_ > 6
        BY <3>1 DEF Inside
      <4> QED BY <4>1
    <3> QED BY <3>1
  <2> QED BY <2>1
<1>2. buffer_ = <<>> /\ cut[n] = 0
  BY <1>1 DEF Between
<1>3. BytesToRead = 6
  <2>1. Len(<<>>) = 0
    OBVIOUS
  <2> QED BY <1>2, <2>1 DEF BytesToRead
<1>4. 6 <= Len(wire) /\ Len(wire) \in Nat /\ Len(sent) \in Nat /\ Len(Found) \in Nat
  <2>1. Len(wire) >= BytesToRead
    BY DEF Complete
  <2>2. Types
    BY DEF IInv
  <2>3. Len(wire) \in Nat /\ Len(sent) \in Nat /\ Len(Found) \in Nat
    BY <2>2, FoundType DEF Types
  <2> QED BY <2>1, <2>3, <1>3
<1>5. n \in 1..Len(sent)
  <2>1. Len(Found) <= Len(sent)
    BY DEF IInv, Right
  <2>2. ASSUME Len(Found) = Len(sent) PROVE FALSE
    <3>1. Len(wire) <= cut[Len(sent) + 1]
      BY DEF Ending
    <3>2. cut[Len(sent) + 1] = 0
      BY <2>2, <1>2
    <3> QED BY <3>1, <3>2, <1>4
  <2> QED BY <2>1, <2>2, <1>4
<1>6. Written(ws[n], n)
  <2>1. n \in Len(Found) + 1 .. Len(sent)
    BY <1>4, <1>5
  <2> QED BY <2>1 DEF Laid
<1> HIDE DEF n
<1>7. Framed(link, ws[n])
  BY <1>5, <1>6, WrittenFacts DEF IInv
<1>8. Len(ws[n]) >= 6 /\ ws[n] \in Seq(Byte) /\ Len(ws[n]) \in Nat
  BY <1>7 DEF Framed
<1>9. SubSeq(wire, 1, 6) = SubSeq(ws[n], 0 + 1, 0 + 6)
  <2>1. Types /\ n = Len(Found) + 1
    BY DEF IInv, n
  <2>2. PICK f \in Nat, k \in Nat : f = 0 /\ k = 6
    OBVIOUS
  <2>3. cut[n] \in Int /\ cut[n] + f = 0 /\ f + k <= Len(ws[n]) /\ k <= Len(wire)
    BY <1>2, <1>4, <1>8, <2>2 DEF n
  <2>4. SubSeq(wire, 1, k) = SubSeq(ws[n], f + 1, f + k)
    BY <2>1, <2>3, <1>5, NextBytes
  <2> QED BY <2>2, <2>4
<1>10. Received = Head6(ws[n])
  <2>1. SubSeq(wire, 1, 6) \in Seq(Byte)
    BY <1>4, KeepFirst DEF IInv, Types
  <2>2. <<>> \o SubSeq(wire, 1, 6) = SubSeq(wire, 1, 6)
    BY <2>1, ConcatEmptySeq
  <2>3. 0 + 1 = 1 /\ 0 + 6 = 6
    OBVIOUS
  <2> QED BY <2>2, <2>3, <1>2, <1>3, <1>9 DEF Received, Head6
<1> QED BY <1>2, <1>3, <1>4, <1>5, <1>6, <1>10 DEF n

(* With the header read, the rest of that packet. *)
LEMMA BodyRead ==
  ASSUME IInv, Complete, packet_size_ > 6, NEW ws, ws \in Writing, NEW cut, Laid(ws, cut),
         Between(cut) \/ Inside(ws, cut)
  PROVE  /\ Len(Found) + 1 \in 1..Len(sent) /\ cut[Len(Found) + 1] = -6
         /\ Written(ws[Len(Found) + 1], Len(Found) + 1)
         /\ HeaderOf(link, Head6(ws[Len(Found) + 1])).size >= 6
         /\ BytesToRead = Len(ws[Len(Found) + 1]) - 6
         /\ BytesToRead \in Nat /\ BytesToRead <= Len(wire)
         /\ Received = Whole(link, ws[Len(Found) + 1])
<1> DEFINE n == Len(Found) + 1
           h == HeaderOf(link, Head6(ws[n]))
<1>1. Inside(ws, cut)
  <2>1. packet_size_ \in Nat
    BY DEF IInv, Types
  <2>2. ~Between(cut)
    BY <2>1 DEF Between
  <2> QED BY <2>2
<1>2. n <= Len(sent) /\ h.size > 6 /\ packet_size_ = h.size /\ buffer_ = h.buf /\ cut[n] = -6
  BY <1>1 DEF Inside
<1>3. Len(sent) \in Nat /\ Len(Found) \in Nat /\ Len(wire) \in Nat /\ packet_size_ \in Nat /\ Types
  BY FoundType DEF IInv, Types
<1>4. n \in 1..Len(sent)
  BY <1>2, <1>3
<1>5. Written(ws[n], n)
  <2>1. n \in Len(Found) + 1 .. Len(sent)
    BY <1>3, <1>4
  <2> QED BY <2>1 DEF Laid
<1>6. n = Len(Found) + 1 /\ h = HeaderOf(link, Head6(ws[n]))
  OBVIOUS
<1> HIDE DEF n, h
<1>7. Framed(link, ws[n])
  BY <1>3, <1>4, <1>5, WrittenFacts
<1>8. /\ Len(ws[n]) >= 6 /\ ws[n] \in Seq(Byte) /\ Len(ws[n]) \in Nat
      /\ h.size \in 0..5 \cup {Len(ws[n])} /\ h.buf \in Seq(Byte) /\ Len(h.buf) = 6
  BY <1>6, <1>7 DEF Framed
<1>9. packet_size_ = Len(ws[n])
  BY <1>2, <1>3, <1>8
<1>10. BytesToRead = Len(ws[n]) - 6
  BY <1>2, <1>8, <1>9 DEF BytesToRead
<1>11. BytesToRead \in Nat /\ BytesToRead <= Len(wire)
  <2>1. BytesToRead \in Nat
    BY <1>8, <1>10
  <2>2. Len(wire) >= BytesToRead
    BY DEF Complete
  <2> QED BY <2>1, <2>2, <1>3
<1>12. SubSeq(wire, 1, BytesToRead) = SubSeq(ws[n], 7, Len(ws[n]))
  <2>1. PICK k \in Nat : k = BytesToRead
    BY <1>11
  <2>2. 6 + k = Len(ws[n]) /\ 6 + k <= Len(ws[n]) /\ k <= Len(wire) /\ 6 + 1 = 7 /\ 6 \in Nat
    BY <2>1, <1>8, <1>10, <1>11
  <2>3. PICK f \in Nat : f = 6
    OBVIOUS
  <2>4. cut[n] \in Int /\ cut[n] + f = 0 /\ f + k <= Len(ws[n])
    <3>1. cut[n] = -6
      BY <1>2
    <3> QED BY <3>1, <2>2, <2>3
  <2>5. SubSeq(wire, 1, k) = SubSeq(ws[n], f + 1, f + k)
    <3>1. Types /\ n = Len(Found) + 1 /\ n \in 1..Len(sent) /\ k <= Len(wire)
      BY <2>2, <1>3, <1>4, <1>6
    <3> QED BY <3>1, <2>4, NextBytes
  <2> QED BY <2>1, <2>2, <2>3, <2>5
<1>13. Received = Whole(link, ws[n])
  BY <1>2, <1>6, <1>12 DEF Received, Whole
<1>14. h.size >= 6
  BY <1>2, <1>3
<1> QED BY <1>2, <1>4, <1>5, <1>6, <1>10, <1>11, <1>13, <1>14 DEF n

(* A packet that was read whole and is sound is the next one sent. *)
LEMMA QueueStep ==
  ASSUME IInv, Complete, NEW ws, ws \in Writing, NEW cut, cut \in Placing, Laid(ws, cut), Ending(cut),
         NEW n \in 1..Len(sent), n = Len(Found) + 1, Written(ws[n], n), HeaderOf(link, Head6(ws[n])).size >= 6,
         NEW k, Reads(k), cut[n] + Len(ws[n]) = k,
         BodyOf(link, Whole(link, ws[n])).ok, Queue(BodyOf(link, Whole(link, ws[n])))
  PROVE  IInv'
<1> DEFINE body == BodyOf(link, Whole(link, ws[n]))
<1>1. n # damaged /\ body.buf \in Seq(Byte) /\ Content(body.buf) = Content(sent[n]) /\ Framed(link, ws[n])
  BY WrittenFacts DEF IInv
<1>2. /\ recv_queue_' = Append(recv_queue_, body.buf) /\ buffer_' = <<>> /\ packet_size_' = 6 /\ reading' = FALSE
      /\ active_' = active_ /\ handled' = handled /\ closing' = closing
  BY DEF Queue, reset_internal_buffer, ending
<1> HIDE DEF body
<1>3. recv_queue_ = <<>> /\ active_ /\ reading
  BY DEF IInv, Ends, Complete
<1>4. /\ link' = link /\ sent' = sent /\ damaged' = damaged /\ eof' = eof
      /\ k \in Nat /\ k <= Len(wire) /\ wire' = SubSeq(wire, k + 1, Len(wire))
  BY DEF Reads
<1>5. /\ handled \in Seq(Seq(Byte)) /\ wire \in Seq(Byte) /\ Len(sent) \in Nat /\ damaged \in 0..Len(sent)
      /\ Found = handled /\ Found' = Append(Found, body.buf)
  <2>1. handled \in Seq(Seq(Byte)) /\ wire \in Seq(Byte) /\ Len(sent) \in Nat /\ damaged \in 0..Len(sent)
    BY DEF IInv, Types
  <2>2. handled \o <<>> = handled /\ handled \o Append(<<>>, body.buf) = Append(handled, body.buf)
    BY <2>1, <1>1, QueueOne
  <2> QED BY <2>1, <2>2, <1>2, <1>3 DEF Found
<1>6. /\ Len(Found') = n /\ Found'[n] = body.buf /\ \A i \in 1..Len(Found) : Found'[i] = Found[i]
      /\ Len(Found) \in Nat
  <2>1. body.buf \in Seq(Byte) /\ Found \in Seq(Seq(Byte))
    BY <1>1, <1>5
  <2>2. /\ Len(Append(Found, body.buf)) = Len(Found) + 1 /\ Append(Found, body.buf)[Len(Found) + 1] = body.buf
        /\ \A i \in 1..Len(Found) : Append(Found, body.buf)[i] = Found[i]
    BY <2>1, AppendFacts
  <2>3. Len(Found) \in Nat
    BY <2>1
  <2> QED BY <2>2, <2>3, <1>5
<1>7. Types'
  <2>1. recv_queue_' = <<body.buf>> /\ recv_queue_' \in Seq(Seq(Byte)) /\ Len(recv_queue_') = 1
    BY <1>1, <1>2, <1>3
  <2>2. wire' \in Seq(Byte)
    BY <1>4, <1>5, DropFirst
  <2>3. buffer_' \in Seq(Byte) /\ Len(buffer_') = 0
    BY <1>2
  <2>4. packet_size_' \in 6..MAX_PACKET_SIZE /\ Len(buffer_') <= packet_size_'
    BY <1>2, <2>3 DEF MAX_PACKET_SIZE
  <2> QED BY <1>2, <1>4, <2>1, <2>2, <2>3, <2>4 DEF IInv, Types
<1>8. Ends'
  <2>1. Len(recv_queue_') = 1
    BY <1>1, <1>2, <1>3
  <2> QED BY <2>1, <1>2, <1>3 DEF IInv, Ends
<1>9. Right'
  <2>1. Len(Found') <= Len(sent')
    BY <1>4, <1>5, <1>6
  <2>2. ASSUME NEW i \in 1..Len(Found') PROVE Content(Found'[i]) = Content(sent'[i])
    <3>1. CASE i = n
      BY <3>1, <1>1, <1>4, <1>6
    <3>2. CASE i # n
      <4>1. i \in 1..Len(Found)
        BY <3>2, <1>6
      <4> QED BY <4>1, <1>4, <1>6 DEF IInv, Right
    <3> QED BY <3>1, <3>2
  <2>3. damaged' > 0 => Len(Found') < damaged'
    <3>1. damaged > 0 => Len(Found) < damaged
      BY DEF IInv, Right
    <3> QED BY <3>1, <1>1, <1>4, <1>5, <1>6
  <2> QED BY <2>1, <2>2, <2>3 DEF Right
<1>10. InStep'
  <2>1. PICK c : IsMoved(c, cut, k)
    BY DEF IsMoved
  <2>2. Grows /\ Types
    BY <1>6 DEF Grows, IInv
  <2>3. Laid(ws, c)' /\ Ending(c)' /\ c \in Placing
    BY <1>7, <2>1, <2>2, Shifted
  <2>4. Between(c)'
    <3>1. cut[n + 1] = cut[n] + Len(ws[n])
      <4>1. n \in Len(Found) + 1 .. Len(sent)
        BY <1>5, <1>6
      <4> QED BY <4>1 DEF Laid
    <3>2. n + 1 \in 1..Len(sent) + 1
      BY <1>5
    <3>3. c[n + 1] = cut[n + 1] - k
      BY <3>2, <2>1 DEF IsMoved
    <3>4. c[n + 1] = 0
      BY <3>1, <3>3, <1>4
    <3>5. Len(Found') + 1 = n + 1
      BY <1>6
    <3> QED BY <3>4, <3>5, <1>2 DEF Between
  <2>5. ws \in [1..Len(sent') -> Seq(Byte)] /\ c \in [1..Len(sent') + 1 -> Int]
    BY <2>3, <1>4 DEF Writing, Placing
  <2> QED BY <2>3, <2>4, <2>5 DEF InStep
<1> QED BY <1>7, <1>8, <1>9, <1>10 DEF IInv

-----------------------------------------------------------------------------
(* The steps.  First those of the peer. *)
LEMMA SendKeeps ==
  ASSUME IInv, NEW p \in Packets(link), Send(p)
  PROVE  IInv'
<1>1. /\ ~eof /\ sent' = Append(sent, p) /\ wire' = wire \o Encoded(link, p) /\ damaged' = damaged
      /\ UNCHANGED <<link, eof, buffer_, packet_size_, reading, recv_queue_, active_, handled, ending>>
  BY DEF Send
<1>2. PICK w : w = Encoded(link, p)
  OBVIOUS
<1>3. PICK m \in Nat : m = Len(sent)
  BY DEF IInv, Types
<1>4. link \in Links /\ sent \in Seq(Packets(link)) /\ damaged \in 0..m
  BY <1>3 DEF IInv, Types
<1>5. w \in Seq(Byte)
  <2>1. Framed(link, w)
    BY <1>2, <1>4, CodecAssumption
  <2> QED BY <2>1 DEF Framed
<1>6. Written(w, m + 1)'
  <2>1. sent'[m + 1] = p
    BY <1>1, <1>3, <1>4, AppendFacts
  <2>2. m + 1 # damaged'
    BY <1>1, <1>4
  <2> QED BY <2>1, <2>2, <1>1, <1>2 DEF Written
<1> QED BY <1>1, <1>2, <1>3, <1>5, <1>6, SendStep

LEMMA SendDamagedKeeps ==
  ASSUME IInv, NEW p \in Packets(link), NEW at \in DamageAt, NEW bit \in DamageBits, link # "isc", SendDamaged(p, at, bit)
  PROVE  IInv'
<1>1. PICK m \in Nat : m = Len(sent)
  BY DEF IInv, Types
<1>2. link \in Links /\ sent \in Seq(Packets(link))
  BY DEF IInv, Types
<1>3. sent' = Append(sent, p) /\ Len(sent') = m + 1 /\ sent'[m + 1] = p
  BY <1>1, <1>2, AppendFacts DEF SendDamaged
<1>4. /\ ~eof /\ wire' = wire \o Damage(Encoded(link, p), at, bit) /\ damaged = 0 /\ damaged' = m + 1
      /\ at <= Len(p)
      /\ UNCHANGED <<link, eof, buffer_, packet_size_, reading, recv_queue_, active_, handled, ending>>
  BY <1>3 DEF SendDamaged
<1>5. PICK w : w = Damage(Encoded(link, p), at, bit)
  OBVIOUS
<1>6. w \in Seq(Byte)
  <2>1. Framed(link, w)
    BY <1>2, <1>4, <1>5, CodecAssumption
  <2> QED BY <2>1 DEF Framed
<1>7. Written(w, m + 1)'
  BY <1>3, <1>4, <1>5 DEF Written
<1> QED BY <1>1, <1>3, <1>4, <1>5, <1>6, <1>7, SendStep

LEMMA BreakKeeps ==
  ASSUME IInv, NEW k \in 0..Len(wire), Break(k)
  PROVE  IInv'
<1>1. /\ wire' = SubSeq(wire, 1, k) /\ eof' = TRUE /\ link' = link /\ sent' = sent /\ damaged' = damaged
      /\ buffer_' = buffer_ /\ packet_size_' = packet_size_ /\ reading' = reading /\ recv_queue_' = recv_queue_
      /\ active_' = active_ /\ handled' = handled /\ closing' = closing /\ Found' = Found
  BY DEF Break, Found, ending
<1>2. /\ wire \in Seq(Byte) /\ Len(wire) \in Nat /\ k \in Nat /\ k <= Len(wire)
      /\ wire' \in Seq(Byte) /\ Len(wire') = k /\ \A j \in 1..k : wire'[j] = wire[j]
  <2>1. wire \in Seq(Byte)
    BY DEF IInv, Types
  <2> QED BY <2>1, <1>1, KeepFirst
<1>3. Types'
  BY <1>1, <1>2 DEF IInv, Types
<1>4. Ends' /\ Right'
  BY <1>1 DEF IInv, Ends, Right
<1>5. ASSUME Live' PROVE InStep'
  <2>1. PICK ws \in [1..Len(sent) -> Seq(Byte)], cut \in [1..Len(sent) + 1 -> Int] :
          Laid(ws, cut) /\ Ending(cut) /\ (Between(cut) \/ Inside(ws, cut))
    BY <1>1, <1>5 DEF IInv, InStep, Live
  <2>2. Laid(ws, cut)'
    <3>1. ASSUME NEW i \in Len(Found) + 1 .. Len(sent)
          PROVE  /\ Written(ws[i], i)'
                 /\ cut[i + 1] = cut[i] + Len(ws[i]) /\ cut[i + 1] <= cut[Len(sent) + 1]
                 /\ \A b \in 1..Len(ws[i]) : cut[i] + b \in 1..Len(wire') => wire'[cut[i] + b] = ws[i][b]
      <4>1. /\ Written(ws[i], i)
            /\ cut[i + 1] = cut[i] + Len(ws[i]) /\ cut[i + 1] <= cut[Len(sent) + 1]
            /\ \A b \in 1..Len(ws[i]) : cut[i] + b \in 1..Len(wire) => wire[cut[i] + b] = ws[i][b]
        BY <2>1 DEF Laid
      <4>2. Written(ws[i], i)'
        BY <4>1, <1>1 DEF Written
      <4>3. ASSUME NEW b \in 1..Len(ws[i]), cut[i] + b \in 1..Len(wire') PROVE wire'[cut[i] + b] = ws[i][b]
        <5>1. cut[i] + b \in 1..k /\ cut[i] + b \in 1..Len(wire)
          BY <4>3, <1>2
        <5> QED BY <5>1, <4>1, <1>2
      <4> QED BY <4>1, <4>2, <4>3
    <3> QED BY <3>1, <1>1 DEF Laid
  <2>3. Ending(cut)'
    <3>1. Len(wire) <= cut[Len(sent) + 1] /\ cut[Len(sent) + 1] \in Int
      <4>1. Len(sent) \in Nat
        BY DEF IInv, Types
      <4> QED BY <2>1, <4>1 DEF Ending
    <3>2. Len(wire') <= cut[Len(sent) + 1]
      BY <3>1, <1>2
    <3> QED BY <3>2, <1>1 DEF Ending
  <2>4. Between(cut) => Between(cut)'
    BY <1>1 DEF Between
  <2>5. Inside(ws, cut) => Inside(ws, cut)'
    BY <1>1 DEF Inside
  <2>6. ws \in [1..Len(sent') -> Seq(Byte)] /\ cut \in [1..Len(sent') + 1 -> Int]
    BY <1>1
  <2> QED BY <2>1, <2>2, <2>3, <2>4, <2>5, <2>6 DEF InStep
<1>6. InStep'
  BY <1>5 DEF InStep
<1> QED BY <1>3, <1>4, <1>6 DEF IInv

(* Then those of the reader. *)
LEMMA RefuseKeeps ==
  ASSUME IInv, Complete, Take, BytesToRead \in Nat, BytesToRead <= Len(wire), Refuse
  PROVE  IInv'
<1>1. /\ link' = link /\ sent' = sent /\ damaged' = damaged /\ eof' = eof
      /\ wire' = SubSeq(wire, BytesToRead + 1, Len(wire))
  BY DEF Take
<1>2. active_ /\ recv_queue_ = <<>>
  BY DEF Complete, IInv, Ends
<1>3. /\ buffer_' = <<>> /\ packet_size_' = 6 /\ active_' = active_ /\ "read" \in closing'
      /\ reading' = FALSE /\ recv_queue_' = recv_queue_ /\ handled' = handled
  BY DEF Refuse, reset_internal_buffer, shutdown
<1>4. ~Live'
  BY <1>3 DEF Live
<1>5. Types'
  <2>1. wire' \in Seq(Byte)
    <3>1. wire \in Seq(Byte)
      BY DEF IInv, Types
    <3> QED BY <3>1, <1>1, DropFirst
  <2>2. buffer_' \in Seq(Byte) /\ Len(buffer_') = 0
    BY <1>3
  <2>3. packet_size_' \in 6..MAX_PACKET_SIZE /\ Len(buffer_') <= packet_size_'
    BY <1>3, <2>2 DEF MAX_PACKET_SIZE
  <2>4. reading' \in BOOLEAN /\ active_' \in BOOLEAN
    <3>1. reading' = FALSE /\ active_' = TRUE
      BY <1>2, <1>3
    <3> QED BY <3>1, Zenon
  <2>5. /\ link' \in Links /\ sent' \in Seq(Packets(link')) /\ damaged' \in 0..Len(sent') /\ (damaged' > 0 => link' # "isc")
        /\ eof' \in BOOLEAN /\ recv_queue_' \in Seq(Seq(Byte)) /\ handled' \in Seq(Seq(Byte))
    <3>1. Types
      BY DEF IInv
    <3> QED BY <3>1, <1>1, <1>3, Zenon DEF Types
  <2> QED BY <2>1, <2>2, <2>3, <2>4, <2>5, Zenon DEF Types
<1>6. Ends'
  BY <1>2, <1>3 DEF IInv, Ends
<1>7. Found' = Found
  BY <1>3 DEF Found
<1> QED BY <1>1, <1>4, <1>5, <1>6, <1>7, Stopped

LEMMA HeaderKeeps ==
  ASSUME IInv, OnReceivedHeader
  PROVE  IInv'
<1>1. Complete /\ packet_size_ = 6 /\ Take /\ Types
  BY DEF OnReceivedHeader, IInv
<1>2. PICK ws \in [1..Len(sent) -> Seq(Byte)], cut \in [1..Len(sent) + 1 -> Int] :
        Laid(ws, cut) /\ Ending(cut) /\ (Between(cut) \/ Inside(ws, cut))
  <2>1. Live
    BY <1>1 DEF Complete, IInv, Ends, Live
  <2> QED BY <2>1 DEF IInv, InStep
<1>3. ws \in Writing /\ cut \in Placing
  BY DEF Writing, Placing
<1>4. PICK n : n = Len(Found) + 1
  OBVIOUS
<1>5. /\ BytesToRead = 6 /\ 6 <= Len(wire) /\ n \in 1..Len(sent) /\ cut[n] = 0
      /\ Received = Head6(ws[n]) /\ Written(ws[n], n)
  BY <1>1, <1>2, <1>3, <1>4, HeaderRead
<1>6. Framed(link, ws[n])
  BY <1>1, <1>5, WrittenFacts
<1> DEFINE h == HeaderOf(link, Received)
           bad == h.size < 6 \/ h.size > MAX_PACKET_SIZE
<1>7. h = HeaderOf(link, Head6(ws[n]))
  BY <1>5
<1>8. \/ bad /\ Refuse
      \/ /\ ~bad /\ NeedsBody(h) /\ buffer_' = h.buf /\ packet_size_' = h.size
         /\ UNCHANGED <<reading, recv_queue_, active_, handled, ending>>
      \/ ~bad /\ ~NeedsBody(h) /\ ~BodyOf(link, h.buf).ok /\ Refuse
      \/ ~bad /\ ~NeedsBody(h) /\ BodyOf(link, h.buf).ok /\ Queue(BodyOf(link, h.buf))
  BY DEF OnReceivedHeader
<1> HIDE DEF h
<1>9. /\ ws[n] \in Seq(Byte) /\ Len(ws[n]) \in Nat /\ Len(ws[n]) >= 6
      /\ h.size \in 0..5 \cup {Len(ws[n])} /\ h.buf \in Seq(Byte) /\ Len(h.buf) = 6
  BY <1>6, <1>7 DEF Framed
<1>10. Reads(6)
  BY <1>1, <1>5 DEF Take, Reads
<1>11. CASE Refuse
  <2>1. BytesToRead \in Nat /\ BytesToRead <= Len(wire)
    BY <1>5
  <2> QED BY <2>1, <1>1, <1>11, RefuseKeeps
<1>12. CASE /\ ~bad /\ NeedsBody(h) /\ buffer_' = h.buf /\ packet_size_' = h.size
            /\ UNCHANGED <<reading, recv_queue_, active_, handled, ending>>
  <2>1. /\ link' = link /\ sent' = sent /\ damaged' = damaged /\ eof' = eof /\ reading' = reading
        /\ recv_queue_' = recv_queue_ /\ active_' = active_ /\ handled' = handled /\ closing' = closing
        /\ wire' = SubSeq(wire, 6 + 1, Len(wire)) /\ Found' = Found
    BY <1>10, <1>12 DEF Reads, Found, ending
  <2>2. h.size \in Nat /\ h.size > 6 /\ h.size <= MAX_PACKET_SIZE /\ h.size = Len(ws[n])
    <3>1. h.size \in Nat
      BY <1>9
    <3>2. h.size > 6
      BY <1>12 DEF NeedsBody
    <3>3. h.size <= MAX_PACKET_SIZE
      BY <3>1, <1>12 DEF MAX_PACKET_SIZE
    <3> QED BY <3>1, <3>2, <3>3, <1>9
  <2>3. Types'
    <3>1. wire' \in Seq(Byte)
      <4>1. wire \in Seq(Byte)
        BY <1>1 DEF Types
      <4>2. 6 \in 0..Len(wire)
        BY <1>5, <4>1
      <4> QED BY <4>1, <4>2, <2>1, DropFirst
    <3>2. buffer_' \in Seq(Byte) /\ Len(buffer_') = 6
      BY <1>9, <1>12
    <3>3. packet_size_' \in 6..MAX_PACKET_SIZE /\ Len(buffer_') <= packet_size_'
      <4>1. packet_size_' = h.size
        BY <1>12
      <4>2. h.size \in 6..MAX_PACKET_SIZE
        <5>1. MAX_PACKET_SIZE \in Nat
          BY DEF MAX_PACKET_SIZE
        <5> QED BY <5>1, <2>2
      <4>3. 6 <= h.size
        BY <2>2
      <4> QED BY <4>1, <4>2, <4>3, <3>2
    <3> QED BY <3>1, <3>2, <3>3, <2>1, <1>1 DEF Types
  <2>4. Ends' /\ Right'
    BY <2>1 DEF IInv, Ends, Right
  <2>5. InStep'
    <3>1. PICK c : IsMoved(c, cut, 6)
      BY DEF IsMoved
    <3>2. PICK k : k = 6
      OBVIOUS
    <3>3. Reads(k) /\ IsMoved(c, cut, k)
      BY <1>10, <3>1, <3>2
    <3>4. Grows
      <4>1. Len(Found) \in Nat
        BY <1>1, FoundType
      <4> QED BY <4>1, <2>1 DEF Grows
    <3>5. Laid(ws, c)' /\ Ending(c)' /\ c \in Placing
      BY <1>1, <1>2, <1>3, <2>3, <3>3, <3>4, Shifted
    <3>6. Inside(ws, c)'
      <4>1. c[n] = -6
        <5>1. n \in 1..Len(sent) + 1
          BY <1>1, <1>5 DEF Types
        <5>2. c[n] = cut[n] - 6
          BY <5>1, <3>1 DEF IsMoved
        <5> QED BY <5>2, <1>5
      <4>2. n <= Len(sent') /\ reading'
        <5>1. reading
          BY <1>1 DEF Complete
        <5> QED BY <5>1, <1>5, <2>1
      <4>3. Len(Found') + 1 = n
        BY <1>4, <2>1
      <4>4. HeaderOf(link', Head6(ws[n])) = h
        BY <1>7, <2>1
      <4> QED BY <4>1, <4>2, <4>3, <4>4, <2>2, <1>12 DEF Inside
    <3>7. ws \in [1..Len(sent') -> Seq(Byte)] /\ c \in [1..Len(sent') + 1 -> Int]
      BY <1>3, <2>1, <3>5 DEF Writing, Placing
    <3> QED BY <3>5, <3>6, <3>7 DEF InStep
  <2> QED BY <2>3, <2>4, <2>5 DEF IInv
<1>13. CASE ~bad /\ ~NeedsBody(h) /\ BodyOf(link, h.buf).ok /\ Queue(BodyOf(link, h.buf))
  <2>1. h.size = 6 /\ Len(ws[n]) = 6
    <3>1. h.size \in Nat /\ ~(h.size < 6)
      BY <1>9, <1>13
    <3>2. ~(h.size > 6)
      BY <1>13 DEF NeedsBody
    <3>3. h.size = 6
      BY <3>1, <3>2
    <3>4. h.size \in 0..5 \cup {Len(ws[n])}
      BY <1>9
    <3>5. 6 \notin 0..5
      OBVIOUS
    <3> QED BY <3>3, <3>4, <3>5
  <2>2. Whole(link, ws[n]) = h.buf
    <3>1. SubSeq(ws[n], 7, Len(ws[n])) = <<>>
      BY <2>1, <1>9
    <3>2. h.buf \o <<>> = h.buf
      BY <1>9, ConcatEmptySeq
    <3> QED BY <3>1, <3>2, <1>7 DEF Whole
  <2>3. PICK k : k = 6
    OBVIOUS
  <2>4. Reads(k) /\ cut[n] + Len(ws[n]) = k
    BY <2>1, <2>3, <1>5, <1>10
  <2>5. HeaderOf(link, Head6(ws[n])).size >= 6
    BY <2>1, <1>7
  <2>6. BodyOf(link, Whole(link, ws[n])).ok /\ Queue(BodyOf(link, Whole(link, ws[n])))
    BY <2>2, <1>13
  <2> QED BY <2>4, <2>5, <2>6, <1>1, <1>2, <1>3, <1>4, <1>5, QueueStep
<1> QED BY <1>8, <1>11, <1>12, <1>13

LEMMA BodyKeeps ==
  ASSUME IInv, OnReceivedBody
  PROVE  IInv'
<1>1. Complete /\ packet_size_ > 6 /\ Take /\ Types
  BY DEF OnReceivedBody, IInv
<1>2. PICK ws \in [1..Len(sent) -> Seq(Byte)], cut \in [1..Len(sent) + 1 -> Int] :
        Laid(ws, cut) /\ Ending(cut) /\ (Between(cut) \/ Inside(ws, cut))
  <2>1. Live
    BY <1>1 DEF Complete, IInv, Ends, Live
  <2> QED BY <2>1 DEF IInv, InStep
<1>3. ws \in Writing /\ cut \in Placing
  BY DEF Writing, Placing
<1>4. PICK n : n = Len(Found) + 1
  OBVIOUS
<1>5. /\ n \in 1..Len(sent) /\ cut[n] = -6 /\ Written(ws[n], n) /\ HeaderOf(link, Head6(ws[n])).size >= 6
      /\ BytesToRead = Len(ws[n]) - 6 /\ BytesToRead \in Nat /\ BytesToRead <= Len(wire)
      /\ Received = Whole(link, ws[n])
  BY <1>1, <1>2, <1>3, <1>4, BodyRead
<1>6. \/ ~BodyOf(link, Received).ok /\ Refuse
      \/ BodyOf(link, Received).ok /\ Queue(BodyOf(link, Received))
  BY DEF OnReceivedBody
<1>7. CASE Refuse
  BY <1>1, <1>5, <1>7, RefuseKeeps
<1>8. CASE BodyOf(link, Received).ok /\ Queue(BodyOf(link, Received))
  <2>1. PICK k : k = BytesToRead
    OBVIOUS
  <2>2. Reads(k)
    BY <2>1, <1>1, <1>5 DEF Reads, Take
  <2>3. cut[n] + Len(ws[n]) = k
    <3>1. ws[n] \in Seq(Byte)
      BY <1>5
    <3>2. Len(ws[n]) \in Nat
      BY <3>1
    <3> QED BY <3>2, <2>1, <1>5
  <2>4. BodyOf(link, Whole(link, ws[n])).ok /\ Queue(BodyOf(link, Whole(link, ws[n])))
    BY <1>5, <1>8
  <2> QED BY <2>2, <2>3, <2>4, <1>1, <1>2, <1>3, <1>4, <1>5, QueueStep
<1> QED BY <1>6, <1>7, <1>8

(* The packet in the queue is the only one; it moves to the handled ones. *)
LEMMA DispatchKeeps ==
  ASSUME IInv, Dispatch
  PROVE  IInv'
<1> DEFINE p == Head(recv_queue_)
<1>1. /\ ~reading /\ recv_queue_ # <<>> /\ active_ /\ UNCHANGED <<peer, buffer_, packet_size_>>
      /\ handled' = Append(handled, p) /\ recv_queue_' = Tail(recv_queue_)
      /\ IF HandlePacket(p) THEN reading' = TRUE /\ UNCHANGED <<active_, ending>>
                            ELSE shutdown("read") /\ UNCHANGED reading
  BY DEF Dispatch
<1>2. Types /\ Ends
  BY DEF IInv
<1>3. /\ recv_queue_ \in Seq(Seq(Byte)) /\ handled \in Seq(Seq(Byte)) /\ Len(recv_queue_) <= 1 /\ "read" \notin closing
  BY <1>1, <1>2 DEF Types, Ends
<1>4. Len(recv_queue_) = 1 /\ p \in Seq(Byte) /\ recv_queue_' = <<>> /\ recv_queue_ = <<p>>
  <2>1. recv_queue_ \in Seq(Seq(Byte)) /\ recv_queue_ # <<>> /\ Len(recv_queue_) <= 1
    BY <1>1, <1>3
  <2>2. Len(recv_queue_) = 1 /\ recv_queue_ = <<p>> /\ p \in Seq(Byte) /\ Tail(recv_queue_) = <<>>
    BY <2>1, OnlyOne
  <2> QED BY <2>2, <1>1
<1> HIDE DEF p
<1>5. Found' = Found
  <2>1. handled' \in Seq(Seq(Byte)) /\ handled' \o <<>> = handled'
    BY <1>1, <1>3, <1>4, AppendFacts, ConcatEmptySeq
  <2>2. handled \o <<p>> = Append(handled, p)
    BY <1>3, <1>4, AppendIsConcat
  <2> QED BY <2>1, <2>2, <1>1, <1>4 DEF Found
<1>6. /\ link' = link /\ sent' = sent /\ damaged' = damaged /\ wire' = wire /\ eof' = eof
      /\ buffer_' = buffer_ /\ packet_size_' = packet_size_
  BY <1>1 DEF peer
<1>7. /\ handled' \in Seq(Seq(Byte)) /\ recv_queue_' \in Seq(Seq(Byte)) /\ Len(recv_queue_') = 0
  <2>1. handled' \in Seq(Seq(Byte))
    BY <1>1, <1>3, <1>4, AppendFacts
  <2> QED BY <2>1, <1>4
<1>8. CASE reading' = TRUE /\ UNCHANGED <<active_, ending>>
  <2>1. active_' = active_ /\ closing' = closing /\ reading' = TRUE
    BY <1>8 DEF ending
  <2>2. Types'
    BY <2>1, <1>2, <1>6, <1>7 DEF Types
  <2>3. Ends'
    BY <2>1, <1>3, <1>4, <1>7 DEF Ends
  <2>4. UNCHANGED <<peer, buffer_, packet_size_>> /\ (Live' => Live)
    BY <2>1, <1>1 DEF Live
  <2> QED BY <2>1, <2>2, <2>3, <2>4, <1>1, <1>5, NothingMoves
<1>9. CASE shutdown("read") /\ UNCHANGED reading
  <2>1. active_' = TRUE /\ "read" \in closing' /\ reading' = FALSE
    <3>1. reading \in BOOLEAN
      BY <1>2 DEF Types
    <3> QED BY <3>1, <1>9, <1>1 DEF shutdown
  <2>2. Types'
    <3>1. active_' \in BOOLEAN /\ reading' \in BOOLEAN
      BY <2>1
    <3> QED BY <3>1, <1>2, <1>6, <1>7 DEF Types
  <2>3. Ends'
    BY <2>1, <1>4, <1>7 DEF Ends
  <2>4. ~Live'
    BY <2>1 DEF Live
  <2> QED BY <2>2, <2>3, <2>4, <1>5, <1>6, Stopped
<1> QED BY <1>1, <1>8, <1>9

(* A failed read: nothing more is found, whichever error it was. *)
LEMMA ReadFailed ==
  ASSUME IInv, ReadFails, ~Live', active_' \in BOOLEAN
  PROVE  IInv'
<1> DEFINE k == Min({BytesToRead, Len(wire)})
<1>1. /\ reading /\ buffer_' = buffer_ \o SubSeq(wire, 1, k) /\ wire' = <<>> /\ reading' = FALSE
      /\ link' = link /\ sent' = sent /\ damaged' = damaged /\ eof' = eof /\ packet_size_' = packet_size_
      /\ recv_queue_' = recv_queue_ /\ handled' = handled
  BY DEF ReadFails
<1>2. Types /\ Ends
  BY DEF IInv
<1>3. /\ buffer_ \in Seq(Byte) /\ wire \in Seq(Byte) /\ packet_size_ \in 6..MAX_PACKET_SIZE /\ Len(buffer_) <= packet_size_
      /\ Len(buffer_) \in Nat /\ Len(wire) \in Nat /\ packet_size_ \in Nat
  BY <1>2 DEF Types
<1>4. k \in {BytesToRead, Len(wire)} /\ k <= BytesToRead /\ k <= Len(wire)
  <2>1. BytesToRead \in Int /\ Len(wire) \in Int
    BY <1>3 DEF BytesToRead
  <2>2. CASE BytesToRead <= Len(wire)
    <3>1. BytesToRead \in {BytesToRead, Len(wire)} /\ \A y \in {BytesToRead, Len(wire)} : BytesToRead <= y
      BY <2>1, <2>2
    <3>2. \A x \in {BytesToRead, Len(wire)} : (\A y \in {BytesToRead, Len(wire)} : x <= y) => x = BytesToRead
      BY <2>1, <2>2
    <3>3. k = BytesToRead
      BY <3>1, <3>2 DEF Min
    <3> QED BY <3>3, <2>1, <2>2
  <2>3. CASE ~(BytesToRead <= Len(wire))
    <3>1. Len(wire) \in {BytesToRead, Len(wire)} /\ \A y \in {BytesToRead, Len(wire)} : Len(wire) <= y
      BY <2>1, <2>3
    <3>2. \A x \in {BytesToRead, Len(wire)} : (\A y \in {BytesToRead, Len(wire)} : x <= y) => x = Len(wire)
      BY <2>1, <2>3
    <3>3. k = Len(wire)
      BY <3>1, <3>2 DEF Min
    <3> QED BY <3>3, <2>1, <2>3
  <2> QED BY <2>2, <2>3
<1> HIDE DEF k
<1>5. k \in 0..Len(wire) /\ k <= packet_size_ - Len(buffer_) /\ k \in Nat
  BY <1>3, <1>4 DEF BytesToRead
<1>6. buffer_' \in Seq(Byte) /\ Len(buffer_') = Len(buffer_) + k
  <2>1. SubSeq(wire, 1, k) \in Seq(Byte) /\ Len(SubSeq(wire, 1, k)) = k
    BY <1>3, <1>5, KeepFirst
  <2> QED BY <2>1, <1>1, <1>3, ConcatProperties
<1>7. Len(buffer_') <= packet_size_'
  BY <1>1, <1>3, <1>5, <1>6
<1>8. Types'
  <2>1. wire' \in Seq(Byte) /\ reading' \in BOOLEAN
    <3>1. wire' = <<>> /\ reading' = FALSE
      BY <1>1
    <3>2. <<>> \in Seq(Byte)
      OBVIOUS
    <3> QED BY <3>1, <3>2, Zenon
  <2> QED BY <2>1, <1>1, <1>2, <1>6, <1>7 DEF Types
<1>9. Ends'
  BY <1>1, <1>2 DEF Ends
<1>10. Found' = Found
  BY <1>1 DEF Found
<1> QED BY <1>1, <1>8, <1>9, <1>10, Stopped

LEMMA ReadErrorKeeps ==
  ASSUME IInv, ReadError
  PROVE  IInv'
<1>1. ReadFails /\ (IF active_ THEN shutdown("read") ELSE UNCHANGED <<active_, ending>>)
  BY DEF ReadError
<1>2. active_ \in BOOLEAN
  BY DEF IInv, Types
<1>3. active_' = active_ /\ (active_ => "read" \in closing')
  BY <1>1 DEF shutdown
<1>4. ~Live' /\ active_' \in BOOLEAN
  BY <1>2, <1>3 DEF Live
<1> QED BY <1>1, <1>4, ReadFailed

LEMMA ReadAbortedKeeps ==
  ASSUME IInv, ReadAborted
  PROVE  IInv'
<1>1. ReadFails /\ active_' = FALSE
  BY DEF ReadAborted
<1>2. ~Live' /\ active_' \in BOOLEAN
  BY <1>1 DEF Live
<1> QED BY <1>1, <1>2, ReadFailed

(* Steps that leave the stream and the reader alone. *)
LEMMA OthersKeep ==
  ASSUME IInv, OnDisconnected \/ Timeout \/ RemoveClient \/ \E who \in {"read", "other"} : ShutdownEnds(who)
  PROVE  IInv'
<1>1. /\ link' = link /\ sent' = sent /\ damaged' = damaged /\ wire' = wire /\ eof' = eof /\ buffer_' = buffer_
      /\ packet_size_' = packet_size_ /\ reading' = reading /\ recv_queue_' = recv_queue_ /\ handled' = handled
  BY DEF OnDisconnected, Timeout, RemoveClient, ShutdownEnds, peer
<1>2. active_' \in {active_, FALSE} /\ ("read" \in closing' => "read" \in closing)
      /\ (active_' => ("read" \in closing => "read" \in closing'))
  BY DEF OnDisconnected, Timeout, RemoveClient, ShutdownEnds, shutdown
<1>3. active_ \in BOOLEAN
  BY DEF IInv, Types
<1>4. active_' \in BOOLEAN
  BY <1>2, <1>3
<1>5. Types'
  BY <1>1, <1>4 DEF IInv, Types
<1>6. Ends'
  BY <1>1, <1>2 DEF IInv, Ends
<1>7. Found' = Found
  BY <1>1 DEF Found
<1>8. Live' => Live
  BY <1>2, <1>3 DEF Live
<1>9. UNCHANGED <<peer, buffer_, packet_size_>>
  BY <1>1 DEF peer
<1> QED BY <1>1, <1>5, <1>6, <1>7, <1>8, <1>9, NothingMoves

LEMMA StepKeeps ==
  ASSUME IInv, [Next]_vars
  PROVE  IInv'
<1>1. CASE Next
  BY <1>1, SendKeeps, SendDamagedKeeps, BreakKeeps, HeaderKeeps, BodyKeeps, DispatchKeeps, ReadErrorKeeps,
     ReadAbortedKeeps, OthersKeep DEF Next
<1>2. CASE UNCHANGED vars
  <2>1. /\ link' = link /\ sent' = sent /\ damaged' = damaged /\ wire' = wire /\ eof' = eof /\ buffer_' = buffer_
        /\ packet_size_' = packet_size_ /\ reading' = reading /\ recv_queue_' = recv_queue_ /\ active_' = active_
        /\ handled' = handled /\ closing' = closing
    BY <1>2 DEF vars, peer, ending
  <2>2. Types' /\ Ends' /\ Found' = Found
    BY <2>1 DEF IInv, Types, Ends, Found
  <2>3. UNCHANGED <<peer, buffer_, packet_size_>> /\ (Live' => Live)
    BY <2>1 DEF peer, Live
  <2> QED BY <2>1, <2>2, <2>3, NothingMoves
<1> QED BY <1>1, <1>2

-----------------------------------------------------------------------------
(* The invariant of the reader holds in every reachable state. *)
LEMMA Invariant == Spec => []IInv
BY InitIInv, StepKeeps, PTL DEF Spec

(* However the stream is delivered, broken off, timed out or damaged, the  *)
(* packets that OnReceived finds are the ones that were written, in order. *)
THEOREM StreamFramed == Spec => []FramesIntact
<1>1. IInv => FramesIntact
  <2> SUFFICES ASSUME IInv PROVE FramesIntact
    OBVIOUS
  <2>1. /\ packet_size_ \in 6..MAX_PACKET_SIZE /\ Len(buffer_) <= packet_size_
        /\ Len(recv_queue_) <= 1
    BY DEF IInv, Types, Ends
  <2>2. Found \in Seq(Seq(Byte))
    BY FoundType DEF IInv
  <2>3. DOMAIN Found = 1..Len(Found)
    BY <2>2
  <2> QED BY <2>1, <2>3 DEF IInv, Right, FramesIntact, Found
<1> QED BY <1>1, Invariant, PTL

(* The packet with a wrong byte, and what follows it, is never handled. *)
THEOREM DamageIsStopped == Spec => []DamageStops
<1>1. IInv => DamageStops
  <2> SUFFICES ASSUME IInv, damaged > 0 PROVE Len(handled) < damaged
    BY DEF DamageStops
  <2>1. Len(Found) = Len(handled) + Len(recv_queue_) /\ Len(Found) < damaged
    BY FoundType DEF IInv, Right
  <2>2. Len(handled) \in Nat /\ Len(recv_queue_) \in Nat /\ damaged \in Int
    BY DEF IInv, Types
  <2> QED BY <2>1, <2>2
<1> QED BY <1>1, Invariant, PTL
====
