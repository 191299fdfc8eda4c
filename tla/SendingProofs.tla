--------------------------- MODULE SendingProofs ---------------------------
(***************************************************************************)
(* Proofs about the way of a packet out of a server.                       *)
(*                                                                         *)
(* First its bytes (PacketExchange): for every size of buffer_ and all     *)
(* classes whose layouts agree, the first connection gets the whole        *)
(* payload, and every receiver reads back what the sender put in.  Then    *)
(* the queues (SendQueue), for any set of senders and any number of        *)
(* packets: the types, the FIFO refinement, and that the completion        *)
(* handler never meets an empty discard_queue_ nor frees a buffer whose    *)
(* write is in progress.                                                   *)
(***************************************************************************)
EXTENDS PacketExchange, SendQueue, FiniteSetTheorems, SequenceTheorems, WellFoundedInduction, TLAPS

-----------------------------------------------------------------------------
(* A set of natural numbers has a least element. *)
LEMMA Least ==
  ASSUME NEW T, T \subseteq Nat, T # {}
  PROVE  \E x \in T : \A y \in T : x <= y
<1>1. IsWellFoundedOn(OpToRel(<, Nat), Nat)
  BY NatLessThanWellFounded
<1>2. PICK x \in T : \A y \in T : ~(<<y, x>> \in OpToRel(<, Nat))
  BY <1>1, WFMin
<1>3. \A y \in T : ~(y < x)
  BY <1>2 DEF OpToRel
<1> QED
  BY <1>3

(* Induction over the fields of a layout, with the set of the numbers a    *)
(* claim holds for.                                                        *)
LEMMA UpTo ==
  ASSUME NEW L \in Nat, NEW T, 0 \in T, \A k \in 1..L : k - 1 \in T => k \in T
  PROVE  \A k \in 0..L : k \in T
<1> DEFINE bad == {k \in 0..L : k \notin T}
<1> SUFFICES ASSUME bad # {} PROVE FALSE
  OBVIOUS
<1>1. bad \subseteq Nat
  OBVIOUS
<1>2. PICK x \in bad : \A y \in bad : x <= y
  BY <1>1, Least
<1>3. x \in 1..L /\ x - 1 \in 0..L
  OBVIOUS
<1>4. x - 1 \notin bad
  BY <1>2, <1>3
<1> QED
  BY <1>3, <1>4

(* A function may be defined step by step. *)
Steps(f, L, S, s0, D) ==
  f \in [0..L -> S] /\ f[0] = s0 /\ \A k \in 1..L : f[k] = D[<<k, f[k - 1]>>]
\* There is a function whose value at k follows by D from the one at k - 1.
LEMMA Stepwise ==
  ASSUME NEW L \in Nat, NEW S, NEW s0 \in S, NEW D \in [(1..L) \X S -> S]
  PROVE  \E f : Steps(f, L, S, s0, D)
<1> DEFINE Ok(f, m) == f \in [0..m -> S] /\ f[0] = s0 /\ \A k \in 1..m : f[k] = D[<<k, f[k - 1]>>]
           T == {m \in 0..L : \E f : Ok(f, m)}
<1>1. 0 \in T
  <2> DEFINE f == [k \in 0..0 |-> s0]
  <2>1. f \in [0..0 -> S] /\ f[0] = s0 /\ 1..0 = {}
    OBVIOUS
  <2> HIDE DEF f
  <2>2. Ok(f, 0) /\ 0 \in 0..L
    BY <2>1
  <2> QED BY <2>2
<1>2. ASSUME NEW m \in 1..L, m - 1 \in T PROVE m \in T
  <2>1. PICK f : Ok(f, m - 1)
    BY <1>2
  <2> DEFINE g == [k \in 0..m |-> IF k = m THEN D[<<k, f[k - 1]>>] ELSE f[k]]
  <2>2. \A k \in 0..(m - 1) : g[k] = f[k] /\ f[k] \in S
    BY <2>1
  <2>3. g[m] = D[<<m, f[m - 1]>>] /\ m - 1 \in 0..(m - 1)
    OBVIOUS
  <2>4. g[m] \in S
    <3>1. <<m, f[m - 1]>> \in (1..L) \X S
      BY <2>2, <2>3
    <3> QED BY <2>3, <3>1
  <2>5. g \in [0..m -> S]
    <3>1. \A k \in 0..m : k = m \/ k \in 0..(m - 1)
      OBVIOUS
    <3>2. \A k \in 0..m : g[k] \in S
      BY <2>2, <2>4, <3>1
    <3> QED BY <3>2
  <2>6. g[0] = s0
    BY <2>1, <2>2
  <2>7. ASSUME NEW k \in 1..m PROVE g[k] = D[<<k, g[k - 1]>>]
    <3>1. k - 1 \in 0..(m - 1) /\ g[k - 1] = f[k - 1]
      BY <2>2
    <3>2. CASE k = m
      BY <2>3, <3>1, <3>2
    <3>3. CASE k # m
      <4>1. k \in 1..(m - 1) /\ k \in 0..(m - 1)
        BY <3>3
      <4>2. f[k] = D[<<k, f[k - 1]>>]
        BY <2>1, <4>1
      <4> QED BY <2>2, <3>1, <4>1, <4>2
    <3> QED BY <3>2, <3>3
  <2> HIDE DEF g
  <2>8. Ok(g, m)
    BY <2>5, <2>6, <2>7
  <2> QED BY <2>8
<1> HIDE DEF T
<1>3. L \in T
  BY <1>1, <1>2, UpTo
<1>4. PICK f : Ok(f, L)
  BY <1>3 DEF T
<1> QED BY <1>4 DEF Steps

-----------------------------------------------------------------------------
(* Writing one value. *)
Bufs == {b \in Seq(Nat) : Len(b) < MaxPacketSize}

(* The bytes that value k of a packet has on the wire. *)
Wired(k, kind, n, len) ==
  CASE kind.kind = "int"    -> CharsOf(k, kind.w)
    [] kind.kind = "size"   -> <<Tag(k, n % 256)>>
    [] kind.kind = "string" -> Append(CharsOf(k, len), NUL)
    [] kind.kind = "cstr"   -> CharsOf(k, len)

\* The characters of a value are bytes, and none of them is zero.
LEMMA CharsType ==
  ASSUME NEW k \in Nat, NEW w \in Nat
  PROVE  /\ CharsOf(k, w) \in Seq(Nat) /\ Len(CharsOf(k, w)) = w
         /\ \A i \in 1..w : CharsOf(k, w)[i] = Tag(k, i) /\ Tag(k, i) \in Nat \ {0}
<1>1. \A i \in 1..w : Tag(k, i) \in Nat \ {0}
  BY DEF Tag
<1> QED BY <1>1 DEF CharsOf

\* The kinds pack() writes.
LEMMA KindCases ==
  ASSUME NEW kind \in PackKinds
  PROVE  /\ kind.w \in Nat /\ kind.kind \in {"int", "size", "string", "cstr"}
         /\ kind.kind = "size" => kind.w = 1
<1>1. CASE kind \in [kind : {"int", "string", "cstr"}, w : Nat]
  BY <1>1
<1>2. CASE kind = Size
  BY <1>2 DEF Size, Kind
<1> QED BY <1>1, <1>2 DEF PackKinds

\* A value takes as many bytes as its width says.
LEMMA WiredType ==
  ASSUME NEW k \in Nat, NEW kind \in PackKinds, NEW n \in Nat, NEW len \in Nat
  PROVE  /\ Wired(k, kind, n, len) \in Seq(Nat)
         /\ Len(Wired(k, kind, n, len)) = WidthOf(kind, len)
         /\ WidthOf(kind, len) \in Nat
<1>0. kind.w \in Nat /\ kind.kind \in {"int", "size", "string", "cstr"} /\ (kind.kind = "size" => kind.w = 1)
  BY KindCases
<1>1. CASE kind.kind = "int"
  BY <1>0, <1>1, CharsType DEF Wired, WidthOf
<1>2. CASE kind.kind = "size"
  <2>1. Tag(k, n % 256) \in Nat
    BY DEF Tag
  <2>2. Wired(k, kind, n, len) = <<Tag(k, n % 256)>> /\ WidthOf(kind, len) = 1
    BY <1>0, <1>2 DEF Wired, WidthOf
  <2> QED BY <2>1, <2>2
<1>3. CASE kind.kind = "string"
  <2>1. Wired(k, kind, n, len) = Append(CharsOf(k, len), NUL) /\ WidthOf(kind, len) = len + 1
    BY <1>3 DEF Wired, WidthOf
  <2>2. NUL \in Nat
    BY DEF NUL
  <2> QED BY <2>1, <2>2, CharsType
<1>4. CASE kind.kind = "cstr"
  BY <1>4, CharsType DEF Wired, WidthOf
<1> QED BY <1>0, <1>1, <1>2, <1>3, <1>4

\* The smaller of two numbers.
LEMMA MinOfTwo ==
  ASSUME NEW a \in Int, NEW b \in Int
  PROVE  Min({a, b}) = IF a <= b THEN a ELSE b
<1> DEFINE m == IF a <= b THEN a ELSE b
<1>1. m \in {a, b} /\ \A y \in {a, b} : m <= y
  OBVIOUS
<1>2. \A x \in {a, b} : (\A y \in {a, b} : x <= y) => x = m
  OBVIOUS
<1> QED BY <1>1, <1>2 DEF Min

(* A buffer that starts with all of another one; and with what behind it. *)
Begins(b, c) == Len(b) <= Len(c) /\ \A i \in 1..Len(b) : c[i] = b[i]
Joined(b, t, c) == c = b \o t

\* What is appended leaves the beginning alone.
LEMMA ConcatBegins ==
  ASSUME NEW b \in Seq(Nat), NEW t \in Seq(Nat)
  PROVE  Begins(b, b \o t)
BY DEF Begins

(* A value that fits is written; whatever is written stays behind what was *)
(* there and below the last byte; a full buffer takes nothing.             *)
LEMMA WriteFacts ==
  ASSUME MaxPacketSize \in Nat, NEW b \in Bufs,
         NEW k \in Nat, NEW kind \in PackKinds, NEW n \in Nat, NEW len \in Nat
  PROVE  /\ Write(b, k, kind, n, len) \in Bufs
         /\ Begins(b, Write(b, k, kind, n, len))
         /\ Room(b) = 0 => Write(b, k, kind, n, len) = b
         /\ Len(b) + WidthOf(kind, len) < MaxPacketSize =>
              Joined(b, Wired(k, kind, n, len), Write(b, k, kind, n, len))
<1> DEFINE e == Wired(k, kind, n, len)
           w == WidthOf(kind, len)
           room == Room(b)
<1>0. kind.w \in Nat /\ kind.kind \in {"int", "size", "string", "cstr"} /\ (kind.kind = "size" => kind.w = 1)
  BY KindCases
<1>1. e \in Seq(Nat) /\ Len(e) = w /\ w \in Nat
  BY WiredType
<1>2. b \in Seq(Nat) /\ Len(b) \in Nat /\ room \in Nat /\ room = MaxPacketSize - 1 - Len(b)
  BY DEF Bufs, Room
<1>3. b \o <<>> = b /\ <<>> \in Seq(Nat)
  BY <1>2, ConcatEmptySeq
<1>4. CASE kind.kind \in {"int", "size"}
  <2>1. Write(b, k, kind, n, len) = writeNext(b, e)
    BY <1>4 DEF Write, Wired
  <2>2. Write(b, k, kind, n, len) = b \o (IF Len(e) <= room THEN e ELSE <<>>)
    BY <2>1 DEF writeNext
  <2> HIDE DEF e, w, room
  <2>3. CASE Len(e) <= room
    <3>1. Write(b, k, kind, n, len) = b \o e
      BY <2>2, <2>3
    <3>2. b \o e \in Seq(Nat) /\ Len(b \o e) = Len(b) + Len(e)
      BY <1>1, <1>2, ConcatProperties
    <3>3. Len(b \o e) < MaxPacketSize
      BY <1>1, <1>2, <2>3, <3>2
    <3>4. b \o e \in Bufs
      BY <3>2, <3>3 DEF Bufs
    <3>5. room = 0 => e = <<>>
      BY <1>1, <1>2, <2>3, EmptySeq
    <3>6. Begins(b, b \o e)
      BY <1>1, <1>2, ConcatBegins
    <3>7. Joined(b, e, Write(b, k, kind, n, len))
      BY <3>1 DEF Joined
    <3>8. Write(b, k, kind, n, len) \in Bufs /\ Begins(b, Write(b, k, kind, n, len))
      BY <3>1, <3>4, <3>6
    <3>9. room = 0 => Write(b, k, kind, n, len) = b
      BY <1>3, <3>1, <3>5
    <3> QED BY <3>7, <3>8, <3>9 DEF e, room
  <2>4. CASE ~(Len(e) <= room)
    <3>1. Write(b, k, kind, n, len) = b
      BY <1>3, <2>2, <2>4
    <3>2. ~(Len(b) + w < MaxPacketSize)
      BY <1>1, <1>2, <2>4
    <3>3. Begins(b, b)
      BY <1>2, <1>3, ConcatBegins
    <3> QED BY <3>1, <3>2, <3>3 DEF w
  <2> QED BY <2>3, <2>4
<1>5. CASE kind.kind \in {"string", "cstr"}
  <2>1. Write(b, k, kind, n, len) = WriteChars(b, e)
    BY <1>5 DEF Write, Wired
  <2> DEFINE m == IF Len(e) <= room THEN Len(e) ELSE room
             t == SubSeq(e, 1, m)
  <2>2. Write(b, k, kind, n, len) = b \o t
    <3>1. Min({Len(e), room}) = m
      BY <1>1, <1>2, MinOfTwo
    <3> QED BY <2>1, <3>1 DEF WriteChars
  <2> HIDE DEF e, w, room
  <2>3. m \in 0..Len(e) /\ m <= room
    BY <1>1, <1>2
  <2>4. t \in Seq(Nat) /\ Len(t) = m /\ (m = Len(e) => t = e)
    <3>1. t \in Seq(Nat) /\ Len(t) = m /\ \A j \in 1..m : t[j] = e[j]
      BY <1>1, <2>3
    <3> HIDE DEF t, m
    <3>2. m = Len(e) => t = e
      BY <1>1, <3>1, SeqEqual
    <3> QED BY <3>1, <3>2
  <2> HIDE DEF t
  <2>5. b \o t \in Seq(Nat) /\ Len(b \o t) = Len(b) + Len(t)
    BY <1>2, <2>4, ConcatProperties
  <2>6. b \o t \in Bufs
    BY <1>2, <2>3, <2>4, <2>5 DEF Bufs
  <2>7. room = 0 => t = <<>>
    BY <1>2, <2>3, <2>4, EmptySeq
  <2>8. Len(b) + w < MaxPacketSize => t = e
    BY <1>1, <1>2, <2>4
  <2>9. Begins(b, b \o t)
    BY <1>2, <2>4, ConcatBegins
  <2>10. Len(b) + w < MaxPacketSize => Joined(b, e, Write(b, k, kind, n, len))
    BY <2>2, <2>8 DEF Joined
  <2>11. Write(b, k, kind, n, len) \in Bufs /\ Begins(b, Write(b, k, kind, n, len))
    BY <2>2, <2>6, <2>9
  <2>12. room = 0 => Write(b, k, kind, n, len) = b
    BY <1>3, <2>2, <2>7
  <2> QED BY <2>10, <2>11, <2>12 DEF e, w, room
<1> QED BY <1>0, <1>4, <1>5

-----------------------------------------------------------------------------
(* Writing a layout. *)
Fields == Seq(STRING \X PackKinds)

(* W[k] is the buffer after k values. *)
Walk(W, b, layout, n, len) ==
  /\ W \in [0..Len(layout) -> Bufs] /\ W[0] = b
  /\ \A k \in 1..Len(layout) : W[k] = Write(W[k - 1], k, layout[k][2], n, len)

\* A field is a name with a kind.
LEMMA FieldType ==
  ASSUME NEW layout \in Fields, NEW k \in 1..Len(layout)
  PROVE  layout[k][1] \in STRING /\ layout[k][2] \in PackKinds /\ layout[k] = <<layout[k][1], layout[k][2]>>
<1>1. layout[k] \in STRING \X PackKinds
  BY DEF Fields
<1> QED BY <1>1

\* Every layout can be written value by value.
LEMMA WalkExists ==
  ASSUME MaxPacketSize \in Nat, NEW b \in Bufs, NEW layout \in Fields, NEW n \in Nat, NEW len \in Nat
  PROVE  \E W : Walk(W, b, layout, n, len)
<1> DEFINE L == Len(layout)
           D == [x \in (1..L) \X Bufs |-> Write(x[2], x[1], layout[x[1]][2], n, len)]
<1>1. L \in Nat
  BY DEF Fields
<1>2. ASSUME NEW x \in (1..L) \X Bufs PROVE Write(x[2], x[1], layout[x[1]][2], n, len) \in Bufs
  <2>1. x[1] \in 1..L /\ x[1] \in Nat /\ x[2] \in Bufs
    BY <1>2
  <2>2. layout[x[1]][2] \in PackKinds
    BY <2>1, FieldType
  <2> QED BY <2>1, <2>2, WriteFacts
<1>3. D \in [(1..L) \X Bufs -> Bufs]
  BY <1>2
<1>4. \A k \in 1..L, c \in Bufs : D[<<k, c>>] = Write(c, k, layout[k][2], n, len)
  OBVIOUS
<1> HIDE DEF D, L
<1>a. \E W : Steps(W, L, Bufs, b, D)
  BY <1>1, <1>3, Stepwise
<1>5. PICK W \in [0..L -> Bufs] : W[0] = b /\ \A k \in 1..L : W[k] = D[<<k, W[k - 1]>>]
  BY <1>a DEF Steps
<1>6. ASSUME NEW k \in 1..L PROVE W[k] = Write(W[k - 1], k, layout[k][2], n, len)
  <2>1. k - 1 \in 0..L
    BY <1>1
  <2>2. W[k - 1] \in Bufs
    BY <2>1, <1>5
  <2> QED BY <1>4, <1>5, <2>1, <2>2
<1> QED BY <1>5, <1>6 DEF Walk, L

(* Once the buffer is full, it stays as it is. *)
LEMMA FullStays ==
  ASSUME MaxPacketSize \in Nat, NEW b \in Bufs, NEW layout \in Fields, NEW n \in Nat, NEW len \in Nat,
         NEW W, Walk(W, b, layout, n, len), NEW a \in 0..Len(layout), Room(W[a]) = 0
  PROVE  \A k \in a..Len(layout) : W[k] = W[a]
<1> DEFINE L == Len(layout) - a
           T == {m \in 0..L : W[a + m] = W[a]}
<1>1. L \in Nat /\ Len(layout) \in Nat
  BY DEF Fields
<1>2. 0 \in T
  BY <1>1
<1>3. ASSUME NEW m \in 1..L, m - 1 \in T PROVE m \in T
  <2> DEFINE k == a + m
  <2>1. k \in 1..Len(layout) /\ k - 1 = a + (m - 1) /\ k \in Nat
    BY <1>1
  <2>2. W[k - 1] = W[a] /\ W[a] \in Bufs
    BY <1>3, <2>1 DEF Walk
  <2>3. layout[k][2] \in PackKinds
    BY <2>1, FieldType
  <2>4. W[k] = Write(W[k - 1], k, layout[k][2], n, len)
    BY <2>1 DEF Walk
  <2>5. W[k] = W[a]
    <3> DEFINE kd == layout[k][2]
               v == W[a]
    <3>1. kd \in PackKinds /\ k \in Nat /\ v \in Bufs /\ Room(v) = 0 /\ W[k] = Write(v, k, kd, n, len)
      BY <2>1, <2>2, <2>3, <2>4
    <3> HIDE DEF kd, v, k
    <3>2. Write(v, k, kd, n, len) = v
      BY <3>1, WriteFacts
    <3> QED BY <3>1, <3>2 DEF v
  <2> QED BY <2>5
<1> HIDE DEF T
<1>4. \A m \in 0..L : m \in T
  BY <1>1, <1>2, <1>3, UpTo
<1>5. ASSUME NEW k \in a..Len(layout) PROVE W[k] = W[a]
  <2>1. k - a \in 0..L /\ a + (k - a) = k
    BY <1>1
  <2> QED BY <1>4, <2>1 DEF T
<1> QED BY <1>5

\* WritePart takes the walk from the field before from to the field to.
LEMMA PartIsWalk ==
  ASSUME MaxPacketSize \in Nat, NEW b \in Bufs, NEW layout \in Fields, NEW n \in Nat, NEW len \in Nat,
         NEW W, Walk(W, b, layout, n, len),
         NEW from \in Nat \ {0}, NEW to \in 0..Len(layout), from <= to + 1
  PROVE  WritePart(W[from - 1], layout, from, to, n, len) = W[to]
<1> DEFINE a == from - 1
           G(f) == [k \in (from - 1)..to |->
                      IF k = from - 1 THEN W[from - 1] ELSE Write(f[k - 1], k, layout[k][2], n, len)]
           c == CHOOSE f : f = G(f)
<1>0. a \in 0..Len(layout) /\ Len(layout) \in Nat /\ to \in a..Len(layout) /\ a <= to
  BY DEF Fields
<1>1. WritePart(W[from - 1], layout, from, to, n, len) = IF Room(W[a]) = 0 THEN W[a] ELSE c[to]
  BY DEF WritePart
<1>2. CASE Room(W[a]) = 0
  BY <1>0, <1>1, <1>2, FullStays
<1>3. CASE Room(W[a]) # 0
  <2> DEFINE g == [k \in (from - 1)..to |-> W[k]]
  <2>1. \A k \in (from - 1)..to : k # from - 1 => k - 1 \in (from - 1)..to /\ k \in 1..Len(layout)
    BY <1>0
  <2>2. \A k \in (from - 1)..to :
          g[k] = IF k = from - 1 THEN W[from - 1] ELSE Write(g[k - 1], k, layout[k][2], n, len)
    BY <2>1 DEF Walk
  <2>3. g = G(g)
    <3> HIDE DEF g
    <3>1. g = [k \in (from - 1)..to |-> g[k]]
      BY DEF g
    <3> QED BY <2>2, <3>1
  <2>4. c = G(c)
    <3> HIDE DEF g
    <3> QED BY <2>3
  <2>5. \A k \in (from - 1)..to :
          c[k] = IF k = from - 1 THEN W[from - 1] ELSE Write(c[k - 1], k, layout[k][2], n, len)
    <3> HIDE DEF c
    <3> QED BY <2>4
  <2> HIDE DEF c
  <2> DEFINE T == {m \in 0..(to - a) : c[a + m] = W[a + m]}
  <2>6. to - a \in Nat
    BY <1>0
  <2>7. 0 \in T
    BY <1>0, <2>5, <2>6
  <2>8. ASSUME NEW m \in 1..(to - a), m - 1 \in T PROVE m \in T
    <3> DEFINE k == a + m
    <3>1. k \in (from - 1)..to /\ k # from - 1 /\ k \in 1..Len(layout) /\ k - 1 = a + (m - 1)
      BY <1>0
    <3>2. c[k - 1] = W[k - 1]
      BY <2>8, <3>1
    <3>3. W[k] = Write(W[k - 1], k, layout[k][2], n, len)
      BY <3>1 DEF Walk
    <3>4. c[k] = W[k]
      BY <2>5, <3>1, <3>2, <3>3
    <3> QED BY <3>4
  <2> HIDE DEF T
  <2>9. to - a \in T
    BY <2>6, <2>7, <2>8, UpTo
  <2>10. a + (to - a) = to
    BY <1>0
  <2> QED BY <1>1, <1>3, <2>9, <2>10 DEF T
<1> QED BY <1>2, <1>3

\* WriteAll ends where the walk ends: its parts leave nothing out.
LEMMA AllIsWalk ==
  ASSUME MaxPacketSize \in Nat, NEW b \in Bufs, NEW layout \in Fields, NEW n \in Nat, NEW len \in Nat,
         NEW W, Walk(W, b, layout, n, len)
  PROVE  WriteAll(b, layout, n, len) = W[Len(layout)]
<1> DEFINE parts == Len(layout) \div Part
           G(f) == [j \in 0..parts |->
                      IF j = 0 THEN b
                      ELSE WritePart(f[j - 1], layout, (j - 1) * Part + 1, j * Part, n, len)]
           c == CHOOSE f : f = G(f)
           g == [j \in 0..parts |-> W[j * Part]]
<1>1. WriteAll(b, layout, n, len) = WritePart(c[parts], layout, parts * Part + 1, Len(layout), n, len)
  BY DEF WriteAll
<1>0. /\ Part \in Nat /\ parts \in Nat /\ parts * Part <= Len(layout) /\ Len(layout) \in Nat
      /\ W[0] = b
      /\ \A j \in 0..parts : j * Part \in 0..Len(layout)
      /\ \A j \in 1..parts : /\ (j - 1) * Part + 1 \in Nat \ {0} /\ (j - 1) * Part + 1 <= j * Part + 1
                             /\ j * Part \in 0..Len(layout)
                             /\ (j - 1) * Part + 1 - 1 = (j - 1) * Part
  BY DEF Part, Fields, Walk
<1> HIDE DEF parts
<1>2. \A j \in 1..parts :
        WritePart(W[(j - 1) * Part], layout, (j - 1) * Part + 1, j * Part, n, len) = W[j * Part]
  <2> TAKE j \in 1..parts
  <2> DEFINE from == (j - 1) * Part + 1
             to == j * Part
  <2>1. from \in Nat \ {0} /\ to \in 0..Len(layout) /\ from <= to + 1 /\ from - 1 = (j - 1) * Part
    BY <1>0
  <2> HIDE DEF from, to
  <2>2. WritePart(W[from - 1], layout, from, to, n, len) = W[to]
    BY <2>1, PartIsWalk
  <2> QED BY <2>1, <2>2 DEF from, to
<1>3. g = G(g)
  <2>1. \A j \in 0..parts : j # 0 => j - 1 \in 0..parts /\ j \in 1..parts
    BY <1>0
  <2>2. \A j \in 0..parts : j # 0 => g[j - 1] = W[(j - 1) * Part]
    BY <2>1
  <2>3. \A j \in 0..parts :
          g[j] = IF j = 0 THEN b ELSE WritePart(g[j - 1], layout, (j - 1) * Part + 1, j * Part, n, len)
    <3> TAKE j \in 0..parts
    <3>1. g[j] = W[j * Part]
      OBVIOUS
    <3>2. CASE j = 0
      <4>1. 0 * Part = 0
        BY <1>0
      <4> QED BY <1>0, <3>1, <3>2, <4>1
    <3>3. CASE j # 0
      <4> HIDE DEF g
      <4> QED BY <1>2, <2>1, <2>2, <3>1, <3>3
    <3> QED BY <3>2, <3>3
  <2>4. g = [j \in 0..parts |-> g[j]]
    OBVIOUS
  <2> HIDE DEF g
  <2> QED BY <2>3, <2>4
<1>4. c = G(c)
  <2> HIDE DEF g
  <2> QED BY <1>3
<1>5. \A j \in 0..parts :
        c[j] = IF j = 0 THEN b ELSE WritePart(c[j - 1], layout, (j - 1) * Part + 1, j * Part, n, len)
  <2> HIDE DEF c
  <2> QED BY <1>4
<1> HIDE DEF c, g
<1> DEFINE T == {j \in 0..parts : c[j] = W[j * Part]}
<1>6. 0 \in T
  <2>1. 0 * Part = 0 /\ 0 \in 0..parts
    BY <1>0
  <2> QED BY <1>0, <1>5, <2>1
<1>7. ASSUME NEW j \in 1..parts, j - 1 \in T PROVE j \in T
  <2>1. j \in 0..parts /\ j # 0
    BY <1>0
  <2>2. c[j - 1] = W[(j - 1) * Part]
    BY <1>7
  <2>3. c[j] = W[j * Part]
    BY <1>2, <1>5, <2>1, <2>2
  <2> QED BY <2>1, <2>3
<1>8. parts \in T
  <2>1. parts \in Nat /\ parts \in 0..parts
    BY <1>0
  <2> HIDE DEF T
  <2>2. \A j \in 1..parts : j - 1 \in T => j \in T
    BY <1>7
  <2>3. \A j \in 0..parts : j \in T
    BY <1>6, <2>1, <2>2, UpTo
  <2> QED BY <2>1, <2>3
<1>9. c[parts] = W[parts * Part]
  BY <1>8
<1> DEFINE from == parts * Part + 1
<1>10. from \in Nat \ {0} /\ from <= Len(layout) + 1 /\ from - 1 = parts * Part /\ Len(layout) \in 0..Len(layout)
  BY <1>0
<1> HIDE DEF from
<1>11. WritePart(W[from - 1], layout, from, Len(layout), n, len) = W[Len(layout)]
  BY <1>10, PartIsWalk
<1> QED BY <1>1, <1>9, <1>10, <1>11 DEF from

-----------------------------------------------------------------------------
(* Where the values of a layout end in the buffer. *)
Width(layout, len, k) == WidthOf(layout[k][2], len)
Span(layout, len, k) == UNION {{j} \X (1..Width(layout, len, j)) : j \in 1..k}
Off(layout, len, k) == 6 + Cardinality(Span(layout, len, k))

\* The instance counts as the module does.
LEMMA SameCardinality ==
  ASSUME NEW S
  PROVE  Cardinality(S) = Cardinality(S)
BY DEF Cardinality, Cardinality

\* A width is a number.
LEMMA WidthType ==
  ASSUME NEW layout \in Fields, NEW len \in Nat, NEW k \in 1..Len(layout)
  PROVE  Width(layout, len, k) \in Nat
<1>1. layout[k][2] \in PackKinds /\ k \in Nat /\ 0 \in Nat
  BY FieldType
<1> QED BY <1>1, WiredType DEF Width

\* The bytes of a layout are finitely many.
LEMMA SpanFinite ==
  ASSUME NEW layout \in Fields, NEW len \in Nat, NEW k \in 0..Len(layout)
  PROVE  IsFiniteSet(Span(layout, len, k)) /\ Off(layout, len, k) \in Nat
<1> DEFINE w(j) == Width(layout, len, j)
           Stacks == {{j} \X (1..w(j)) : j \in 1..k}
<1>0. Len(layout) \in Nat /\ k \in Nat
  BY DEF Fields
<1>1. \A j \in 1..k : w(j) \in Nat
  <2>1. \A j \in 1..k : j \in 1..Len(layout)
    BY <1>0
  <2> QED BY <2>1, WidthType
<1>2. IsFiniteSet(1..k)
  BY <1>0, FS_Interval
<1>3. IsFiniteSet(Stacks)
  <2> DEFINE g == [j \in 1..k |-> {j} \X (1..w(j))]
  <2>1. g \in Surjection(1..k, Stacks)
    BY DEF Surjection
  <2> QED BY <1>2, <2>1, FS_Surjection
<1>4. \A j \in 1..k : IsFiniteSet({j} \X (1..w(j)))
  <2>1. \A j \in 1..k : IsFiniteSet({j}) /\ IsFiniteSet(1..w(j))
    BY <1>1, FS_Singleton, FS_Interval
  <2> QED BY <2>1, FS_Product
<1>5. IsFiniteSet(UNION Stacks)
  BY <1>3, <1>4, FS_UNION
<1>6. Cardinality(UNION Stacks) \in Nat
  BY <1>5, FS_CardinalityType
<1> QED BY <1>5, <1>6 DEF Span, Off

\* Each value starts where the one before it ends, the first one behind the header.
LEMMA OffSteps ==
  ASSUME NEW layout \in Fields, NEW len \in Nat
  PROVE  /\ Off(layout, len, 0) = 6
         /\ \A k \in 1..Len(layout) : Off(layout, len, k) = Off(layout, len, k - 1) + Width(layout, len, k)
         /\ Off(layout, len, Len(layout)) = 6 + LengthOf(layout, len)
<1>0. Len(layout) \in Nat /\ DOMAIN layout = 1..Len(layout)
  BY DEF Fields
<1>1. Off(layout, len, 0) = 6
  <2>1. 1..0 = {}
    OBVIOUS
  <2>2. Span(layout, len, 0) = {}
    BY <2>1 DEF Span
  <2> QED BY <2>2, FS_EmptySet DEF Off
<1>2. ASSUME NEW k \in 1..Len(layout)
      PROVE  Off(layout, len, k) = Off(layout, len, k - 1) + Width(layout, len, k)
  <2> DEFINE w == Width(layout, len, k)
             A == {k} \X (1..w)
             B == Span(layout, len, k - 1)
  <2>1. w \in Nat
    BY WidthType
  <2>2. IsFiniteSet(A) /\ Cardinality(A) = w
    <3>1. IsFiniteSet({k}) /\ Cardinality({k}) = 1
      BY FS_Singleton
    <3>2. IsFiniteSet(1..w) /\ Cardinality(1..w) = w
      BY <2>1, FS_Interval
    <3>3. IsFiniteSet(A) /\ Cardinality(A) = 1 * w
      BY <3>1, <3>2, FS_Product
    <3> QED BY <2>1, <3>3
  <2>3. IsFiniteSet(B) /\ Off(layout, len, k - 1) \in Nat
    <3>1. k - 1 \in 0..Len(layout)
      BY <1>0
    <3> QED BY <3>1, SpanFinite
  <2>4. Span(layout, len, k) = A \cup B
    <3>1. 1..k = {k} \cup 1..(k - 1)
      OBVIOUS
    <3> QED BY <3>1 DEF Span
  <2>5. A \cap B = {}
    <3>1. \A j \in 1..(k - 1) : j # k
      OBVIOUS
    <3> QED BY <3>1 DEF Span
  <2>6. Cardinality(A \cap B) = 0
    BY <2>5, FS_EmptySet
  <2>7. Cardinality(A \cup B) = Cardinality(A) + Cardinality(B) - Cardinality(A \cap B)
    BY <2>2, <2>3, FS_Union
  <2>8. Cardinality(B) \in Nat
    BY <2>3, FS_CardinalityType
  <2>9. Off(layout, len, k) = 6 + Cardinality(A \cup B) /\ Off(layout, len, k - 1) = 6 + Cardinality(B)
    BY <2>4 DEF Off
  <2> HIDE DEF A, B, w
  <2>10. Off(layout, len, k) = Off(layout, len, k - 1) + w
    BY <2>1, <2>2, <2>6, <2>7, <2>8, <2>9
  <2> QED BY <2>10 DEF w
<1>3. Off(layout, len, Len(layout)) = 6 + LengthOf(layout, len)
  <2>1. LengthOf(layout, len) = Cardinality(Span(layout, len, Len(layout)))
    BY <1>0 DEF LengthOf, Span, Width
  <2> QED BY <2>1, SameCardinality DEF Off
<1> QED BY <1>1, <1>2, <1>3

(* Offsets grow along the layout. *)
LEMMA OffGrows ==
  ASSUME NEW layout \in Fields, NEW len \in Nat
  PROVE  \A k \in 0..Len(layout) : \A j \in 0..k : Off(layout, len, j) <= Off(layout, len, k)
<1> DEFINE T == {k \in 0..Len(layout) : \A j \in 0..k : Off(layout, len, j) <= Off(layout, len, k)}
<1>0. Len(layout) \in Nat
  BY DEF Fields
<1>1. 0 \in T
  <2>1. Off(layout, len, 0) \in Nat
    BY <1>0, SpanFinite
  <2> QED BY <1>0, <2>1
<1>2. ASSUME NEW k \in 1..Len(layout), k - 1 \in T PROVE k \in T
  <2>1. Off(layout, len, k) = Off(layout, len, k - 1) + Width(layout, len, k)
    BY OffSteps
  <2>2. Width(layout, len, k) \in Nat
    BY WidthType
  <2>3. \A j \in 0..Len(layout) : Off(layout, len, j) \in Nat
    BY SpanFinite
  <2>4. ASSUME NEW j \in 0..k PROVE Off(layout, len, j) <= Off(layout, len, k)
    <3>1. j \in 0..Len(layout) /\ k \in 0..Len(layout) /\ k - 1 \in 0..Len(layout) /\ (j = k \/ j \in 0..(k - 1))
      BY <1>0
    <3>2. CASE j = k
      BY <2>3, <3>1, <3>2
    <3>3. CASE j \in 0..(k - 1)
      <4>1. Off(layout, len, j) <= Off(layout, len, k - 1)
        BY <1>2, <3>3
      <4> QED BY <2>1, <2>2, <2>3, <3>1, <4>1
    <3> QED BY <3>1, <3>2, <3>3
  <2> QED BY <1>0, <2>4
<1> HIDE DEF T
<1>3. \A k \in 0..Len(layout) : k \in T
  BY <1>0, <1>1, <1>2, UpTo
<1> QED BY <1>3 DEF T

-----------------------------------------------------------------------------
(* Packing for the first connection lays every value where the offsets     *)
(* say; packing again leaves it there.                                     *)
Lies(bs, layout, n, len, j) ==
  \A i \in 1..Width(layout, len, j) :
    bs[Off(layout, len, j - 1) + i] = Wired(j, layout[j][2], n, len)[i]
LaidTo(bs, layout, n, len, m) ==
  Off(layout, len, m) <= Len(bs) /\ \A j \in 1..m : Lies(bs, layout, n, len, j)

(* What lies in a buffer lies in every longer one. *)
LEMMA LaidStays ==
  ASSUME NEW layout \in Fields, NEW n \in Nat, NEW len \in Nat, NEW m \in 0..Len(layout),
         NEW b \in Bufs, NEW c \in Bufs, Begins(b, c), LaidTo(b, layout, n, len, m)
  PROVE  LaidTo(c, layout, n, len, m)
<1>0. Len(layout) \in Nat /\ Len(b) \in Nat /\ Len(c) \in Nat
  BY DEF Fields, Bufs
<1>1. \A k \in 0..Len(layout) : Off(layout, len, k) \in Nat
  BY SpanFinite
<1>2. Off(layout, len, m) <= Len(c)
  <2>1. Off(layout, len, m) <= Len(b) /\ Len(b) <= Len(c)
    BY DEF LaidTo, Begins
  <2> QED BY <1>0, <1>1, <2>1
<1>3. ASSUME NEW j \in 1..m PROVE Lies(c, layout, n, len, j)
  <2>1. j \in 0..m /\ j - 1 \in 0..Len(layout) /\ j \in 1..Len(layout) /\ j \in 0..Len(layout) /\ m \in 0..Len(layout)
    BY <1>0
  <2>2. Width(layout, len, j) \in Nat
    BY <2>1, WidthType
  <2>3. Off(layout, len, j) = Off(layout, len, j - 1) + Width(layout, len, j)
    BY <2>1, OffSteps
  <2>4. Off(layout, len, j) <= Off(layout, len, m)
    BY <2>1, OffGrows
  <2>5. Off(layout, len, m) <= Len(b) /\ Lies(b, layout, n, len, j) /\ \A i \in 1..Len(b) : c[i] = b[i]
    BY DEF LaidTo, Begins
  <2>6. Off(layout, len, j) \in Nat /\ Off(layout, len, j - 1) \in Nat /\ Off(layout, len, m) \in Nat
    BY <1>1, <2>1
  <2>7. ASSUME NEW i \in 1..Width(layout, len, j)
        PROVE  c[Off(layout, len, j - 1) + i] = Wired(j, layout[j][2], n, len)[i]
    <3>1. Off(layout, len, j - 1) + i \in 1..Len(b)
      BY <1>0, <2>2, <2>3, <2>4, <2>5, <2>6
    <3>2. c[Off(layout, len, j - 1) + i] = b[Off(layout, len, j - 1) + i]
      BY <2>5, <3>1
    <3> QED BY <2>5, <3>2 DEF Lies
  <2> QED BY <2>7 DEF Lies
<1> QED BY <1>2, <1>3 DEF LaidTo

\* A beginning of a beginning is a beginning.
LEMMA BeginsTransitive ==
  ASSUME NEW b \in Seq(Nat), NEW c \in Seq(Nat), NEW d \in Seq(Nat), Begins(b, c), Begins(c, d)
  PROVE  Begins(b, d)
<1>1. Len(b) \in Nat /\ Len(c) \in Nat /\ Len(d) \in Nat
  OBVIOUS
<1>2. Len(b) <= Len(c) /\ Len(c) <= Len(d)
  BY DEF Begins
<1>3. \A i \in 1..Len(b) : i \in 1..Len(c)
  BY <1>1, <1>2
<1>4. \A i \in 1..Len(b) : d[i] = b[i]
  BY <1>3 DEF Begins
<1> QED BY <1>1, <1>2, <1>4 DEF Begins

(* Whatever is packed goes behind what the buffer holds. *)
LEMMA WalkBegins ==
  ASSUME MaxPacketSize \in Nat, NEW b \in Bufs, NEW layout \in Fields, NEW n \in Nat, NEW len \in Nat,
         NEW W, Walk(W, b, layout, n, len)
  PROVE  \A k \in 0..Len(layout) : Begins(b, W[k])
<1> DEFINE T == {k \in 0..Len(layout) : Begins(b, W[k])}
<1>0. Len(layout) \in Nat /\ b \in Seq(Nat)
  BY DEF Fields, Bufs
<1>1. 0 \in T
  <2>1. Begins(b, b)
    BY <1>0 DEF Begins
  <2> QED BY <1>0, <2>1 DEF Walk
<1>2. ASSUME NEW k \in 1..Len(layout), k - 1 \in T PROVE k \in T
  <2>1. k \in 0..Len(layout) /\ k - 1 \in 0..Len(layout) /\ k \in Nat
    BY <1>0
  <2>2. W[k - 1] \in Bufs /\ W[k] \in Bufs /\ W[k] = Write(W[k - 1], k, layout[k][2], n, len)
    BY <2>1 DEF Walk
  <2>3. layout[k][2] \in PackKinds
    BY FieldType
  <2>5. W[k - 1] \in Seq(Nat) /\ W[k] \in Seq(Nat)
    BY <2>2 DEF Bufs
  <2>6. Begins(W[k - 1], W[k])
    <3> DEFINE kd == layout[k][2]
               v == W[k - 1]
    <3>1. kd \in PackKinds /\ k \in Nat /\ v \in Bufs /\ W[k] = Write(v, k, kd, n, len)
      BY <2>1, <2>2, <2>3
    <3> HIDE DEF kd, v
    <3>2. Begins(v, Write(v, k, kd, n, len))
      BY <3>1, WriteFacts
    <3>3. Begins(v, W[k])
      BY <3>1, <3>2
    <3> QED BY <3>3 DEF v
  <2>7. Begins(b, W[k - 1])
    BY <1>2
  <2>8. Begins(b, W[k])
    BY <1>0, <2>5, <2>6, <2>7, BeginsTransitive
  <2> QED BY <2>1, <2>8
<1> HIDE DEF T
<1>3. \A k \in 0..Len(layout) : k \in T
  BY <1>0, <1>1, <1>2, UpTo
<1> QED BY <1>3 DEF T

\* Packing into a fresh buffer in which the payload fits lays value after value.
LEMMA FirstPack ==
  ASSUME MaxPacketSize \in Nat, NEW b \in Bufs, NEW layout \in Fields, NEW n \in Nat, NEW len \in Nat,
         NEW W, Walk(W, b, layout, n, len), Len(b) = 6, Off(layout, len, Len(layout)) < MaxPacketSize
  PROVE  \A k \in 0..Len(layout) : Len(W[k]) = Off(layout, len, k) /\ LaidTo(W[k], layout, n, len, k)
<1> DEFINE Ok(k) == Len(W[k]) = Off(layout, len, k) /\ LaidTo(W[k], layout, n, len, k)
           T == {k \in 0..Len(layout) : Ok(k)}
<1>0. Len(layout) \in Nat
  BY DEF Fields
<1>1. 0 \in T
  <2>1. W[0] = b /\ Off(layout, len, 0) = 6 /\ 1..0 = {}
    BY OffSteps DEF Walk
  <2>2. Ok(0)
    <3>a. Len(W[0]) = 6 /\ 6 <= 6
      BY <2>1
    <3>1. Len(W[0]) = 6 /\ Off(layout, len, 0) <= Len(W[0])
      BY <2>1, <3>a, Zenon
    <3>2. \A j \in 1..0 : Lies(W[0], layout, n, len, j)
      BY <2>1
    <3> QED BY <2>1, <3>1, <3>2 DEF LaidTo
  <2> QED BY <1>0, <2>2
<1>2. ASSUME NEW k \in 1..Len(layout), k - 1 \in T PROVE k \in T
  <2> DEFINE e == Wired(k, layout[k][2], n, len)
             o == Off(layout, len, k - 1)
             w == Width(layout, len, k)
             v == W[k - 1]
  <2>1. k \in 0..Len(layout) /\ k - 1 \in 0..Len(layout) /\ k \in Nat /\ k \in 0..k /\ Len(layout) \in 0..Len(layout)
    BY <1>0
  <2>2. v \in Bufs /\ W[k] \in Bufs /\ W[k] = Write(v, k, layout[k][2], n, len)
    BY <2>1 DEF Walk
  <2>3. layout[k][2] \in PackKinds
    BY FieldType
  <2>4. e \in Seq(Nat) /\ Len(e) = w /\ w \in Nat
    <3> DEFINE kd == layout[k][2]
    <3>1. kd \in PackKinds /\ k \in Nat
      BY <2>1, <2>3
    <3> HIDE DEF kd
    <3>2. /\ Wired(k, kd, n, len) \in Seq(Nat)
          /\ Len(Wired(k, kd, n, len)) = WidthOf(kd, len) /\ WidthOf(kd, len) \in Nat
      BY <3>1, WiredType
    <3> QED BY <3>2 DEF kd, Width
  <2>5. Len(v) = o /\ LaidTo(v, layout, n, len, k - 1)
    BY <1>2
  <2>6. Off(layout, len, k) = o + w /\ o \in Nat /\ Off(layout, len, k) \in Nat
    BY <2>1, OffSteps, SpanFinite
  <2>7. Off(layout, len, k) <= Off(layout, len, Len(layout)) /\ Off(layout, len, Len(layout)) \in Nat
    BY <2>1, OffGrows, SpanFinite
  <2>8. o + w < MaxPacketSize
    BY <2>6, <2>7
  <2>9. W[k] = v \o e
    <3>1. Len(v) + WidthOf(layout[k][2], len) < MaxPacketSize
      BY <2>5, <2>8 DEF Width
    <3> HIDE DEF v
    <3> DEFINE kd == layout[k][2]
    <3>a. kd \in PackKinds /\ k \in Nat /\ v \in Bufs /\ Len(v) + WidthOf(kd, len) < MaxPacketSize
      BY <2>1, <2>2, <2>3, <3>1
    <3> HIDE DEF kd
    <3>b. Joined(v, Wired(k, kd, n, len), Write(v, k, kd, n, len))
      BY <3>a, WriteFacts
    <3>2. Write(v, k, layout[k][2], n, len) = v \o e
      BY <3>b DEF kd, e, Joined
    <3> QED BY <2>2, <3>2
  <2> HIDE DEF e
  <2>10. Len(v \o e) = o + w /\ (\A i \in 1..w : (v \o e)[o + i] = e[i]) /\ Begins(v, v \o e)
    <3>1. v \in Seq(Nat)
      BY <2>2 DEF Bufs
    <3> HIDE DEF v, o, w
    <3>2. Len(v \o e) = Len(v) + Len(e)
      BY <2>4, <3>1, ConcatProperties
    <3>3. \A i \in 1..Len(e) : (v \o e)[Len(v) + i] = e[i]
      <4>1. Len(v) \in Nat /\ Len(e) \in Nat
        BY <2>4, <3>1
      <4>2. \A i \in 1..Len(e) : Len(v) + i \in 1..(Len(v) + Len(e)) /\ ~(Len(v) + i <= Len(v)) /\ Len(v) + i - Len(v) = i
        BY <4>1
      <4> QED BY <2>4, <3>1, <4>2, ConcatProperties
    <3> QED BY <2>4, <2>5, <3>1, <3>2, <3>3, ConcatBegins
  <2>11. LaidTo(W[k], layout, n, len, k - 1)
    BY <2>1, <2>2, <2>5, <2>9, <2>10, LaidStays
  <2>12. Lies(W[k], layout, n, len, k)
    BY <2>9, <2>10 DEF Lies, e
  <2>13. \A j \in 1..k : j = k \/ j \in 1..(k - 1)
    BY <2>1
  <2>14. Ok(k)
    <3>1. Len(W[k]) = Off(layout, len, k) /\ Off(layout, len, k) <= Len(W[k])
      BY <2>6, <2>9, <2>10
    <3>2. \A j \in 1..k : Lies(W[k], layout, n, len, j)
      BY <2>11, <2>12, <2>13 DEF LaidTo
    <3> QED BY <3>1, <3>2 DEF LaidTo
  <2> QED BY <2>1, <2>14
<1> HIDE DEF T
<1>3. \A k \in 0..Len(layout) : k \in T
  BY <1>0, <1>1, <1>2, UpTo
<1> QED BY <1>3 DEF T

(* pack() in short: behind the header it lays the whole payload, and every *)
(* later call keeps what is there and stays inside buffer_.                *)
LEMMA PackFacts ==
  ASSUME MaxPacketSize \in Nat, NEW b \in Bufs, NEW layout \in Fields, NEW n \in Nat, NEW len \in Nat
  PROVE  /\ WriteAll(b, layout, n, len) \in Bufs
         /\ Begins(b, WriteAll(b, layout, n, len))
         /\ (Len(b) = 6 /\ Off(layout, len, Len(layout)) < MaxPacketSize) =>
               /\ Len(WriteAll(b, layout, n, len)) = Off(layout, len, Len(layout))
               /\ LaidTo(WriteAll(b, layout, n, len), layout, n, len, Len(layout))
<1>0. Len(layout) \in Nat /\ Len(layout) \in 0..Len(layout)
  BY DEF Fields
<1>1. PICK W : Walk(W, b, layout, n, len)
  BY WalkExists
<1>2. WriteAll(b, layout, n, len) = W[Len(layout)]
  BY <1>1, AllIsWalk
<1>3. W[Len(layout)] \in Bufs
  BY <1>0, <1>1 DEF Walk
<1>4. Begins(b, W[Len(layout)])
  BY <1>0, <1>1, WalkBegins
<1>5. (Len(b) = 6 /\ Off(layout, len, Len(layout)) < MaxPacketSize) =>
        Len(W[Len(layout)]) = Off(layout, len, Len(layout)) /\ LaidTo(W[Len(layout)], layout, n, len, Len(layout))
  BY <1>0, <1>1, FirstPack
<1> QED BY <1>2, <1>3, <1>4, <1>5

-----------------------------------------------------------------------------
(* Reading one value. *)
Ats == 0..(MaxPacketSize - 1)
Fills == {NUL, Junk}

\* The byte at p: of the copy, of what lies behind it, or zero at the end of buffer_.
LEMMA ByteFacts ==
  ASSUME MaxPacketSize \in Nat, NEW bs \in Bufs, NEW fill \in Fills, NEW p \in Nat \ {0}
  PROVE  /\ Byte(bs, fill, p) \in Nat
         /\ p >= MaxPacketSize => Byte(bs, fill, p) = 0
         /\ p <= Len(bs) => Byte(bs, fill, p) = bs[p]
<1>1. fill \in Nat
  BY DEF Fills, NUL, Junk, Tag
<1>2. bs \in Seq(Nat) /\ Len(bs) \in Nat /\ Len(bs) < MaxPacketSize
  BY DEF Bufs
<1>3. p <= Len(bs) => bs[p] \in Nat /\ ~(p >= MaxPacketSize)
  BY <1>2
<1>4. Byte(bs, fill, p) = CASE p >= MaxPacketSize -> 0 [] p <= Len(bs) -> bs[p] [] OTHER -> fill
  BY DEF Byte, NUL
<1>5. CASE p >= MaxPacketSize
  BY <1>3, <1>4, <1>5
<1>6. CASE p <= Len(bs)
  BY <1>3, <1>4, <1>6
<1>7. CASE ~(p >= MaxPacketSize) /\ ~(p <= Len(bs))
  BY <1>1, <1>4, <1>7
<1> QED BY <1>5, <1>6, <1>7

\* The bytes between two positions.
LEMMA BytesFacts ==
  ASSUME MaxPacketSize \in Nat, NEW bs \in Bufs, NEW fill \in Fills, NEW from \in Nat, NEW to \in Nat, from <= to
  PROVE  /\ Bytes(bs, fill, from, to) \in Seq(Nat) /\ Len(Bytes(bs, fill, from, to)) = to - from
         /\ \A i \in 1..(to - from) : Bytes(bs, fill, from, to)[i] = Byte(bs, fill, from + i)
<1>1. to - from \in Nat
  OBVIOUS
<1>2. \A i \in 1..(to - from) : Byte(bs, fill, from + i) \in Nat
  <2>1. \A i \in 1..(to - from) : from + i \in Nat \ {0}
    BY <1>1
  <2> QED BY <2>1, ByteFacts
<1> QED BY <1>1, <1>2 DEF Bytes

(* Where a string ends: at its first zero byte.  There is one, for the     *)
(* reader takes the end of buffer_ for a zero.                             *)
IsEnd(bs, fill, at, p) ==
  /\ p \in (at + 1)..MaxPacketSize /\ Byte(bs, fill, p) = NUL
  /\ \A q \in (at + 1)..(p - 1) : Byte(bs, fill, q) # NUL
EndOf(bs, fill, at) ==
  CHOOSE p \in (at + 1)..MaxPacketSize :
    Byte(bs, fill, p) = NUL /\ \A q \in (at + 1)..(p - 1) : Byte(bs, fill, q) # NUL

\* The end of a string exists and is unique.
LEMMA EndFacts ==
  ASSUME MaxPacketSize \in Nat, NEW bs \in Bufs, NEW fill \in Fills, NEW at \in Ats
  PROVE  /\ IsEnd(bs, fill, at, EndOf(bs, fill, at))
         /\ \A p : IsEnd(bs, fill, at, p) => p = EndOf(bs, fill, at)
<1> DEFINE Z == {p \in (at + 1)..MaxPacketSize : Byte(bs, fill, p) = NUL}
           e == EndOf(bs, fill, at)
<1>0. at \in Nat /\ at + 1 <= MaxPacketSize /\ MaxPacketSize \in Nat \ {0} /\ Z \subseteq Nat
  BY DEF Ats
<1>1. MaxPacketSize \in Z
  <2>1. Byte(bs, fill, MaxPacketSize) = 0
    BY <1>0, ByteFacts
  <2> QED BY <1>0, <2>1 DEF NUL
<1>2. PICK x \in Z : \A y \in Z : x <= y
  BY <1>0, <1>1, Least
<1>3. IsEnd(bs, fill, at, x)
  <2>1. ASSUME NEW q \in (at + 1)..(x - 1) PROVE Byte(bs, fill, q) # NUL
    <3>1. q \in (at + 1)..MaxPacketSize /\ ~(x <= q)
      BY <1>0
    <3>2. q \notin Z
      BY <1>2, <3>1
    <3> QED BY <3>1, <3>2
  <2> QED BY <2>1 DEF IsEnd
<1>4. \E p \in (at + 1)..MaxPacketSize :
        Byte(bs, fill, p) = NUL /\ \A q \in (at + 1)..(p - 1) : Byte(bs, fill, q) # NUL
  BY <1>3 DEF IsEnd
<1>5. IsEnd(bs, fill, at, e)
  BY <1>4 DEF IsEnd, EndOf
<1> HIDE DEF e
<1>6. ASSUME NEW p, IsEnd(bs, fill, at, p) PROVE p = e
  <2>1. p \in Int /\ e \in Int
    BY <1>0, <1>5, <1>6 DEF IsEnd
  <2>2. ~(p < e)
    <3>1. p < e => p \in (at + 1)..(e - 1)
      BY <1>0, <1>6, <2>1 DEF IsEnd
    <3> QED BY <1>5, <1>6, <3>1 DEF IsEnd
  <2>3. ~(e < p)
    <3>1. e < p => e \in (at + 1)..(p - 1)
      BY <1>0, <1>5, <2>1 DEF IsEnd
    <3> QED BY <1>5, <1>6, <3>1 DEF IsEnd
  <2> QED BY <2>1, <2>2, <2>3
<1> QED BY <1>5, <1>6 DEF e

\* The kinds a constructor reads.
LEMMA ReadKindCases ==
  ASSUME NEW kind \in ReadKinds
  PROVE  /\ kind.w \in Nat /\ kind.kind \in {"int", "size", "string", "chars"}
         /\ kind.kind = "size" => kind.w = 1
<1>1. CASE kind \in [kind : {"int", "string", "chars"}, w : Nat]
  BY <1>1
<1>2. CASE kind = Size
  BY <1>2 DEF Size, Kind
<1> QED BY <1>1, <1>2 DEF ReadKinds

(* A reader never leaves buffer_ and never goes back. *)
Reading(at) == [at : at..(MaxPacketSize - 1), val : Seq(Nat)]
\* So it is for every kind.
LEMMA ReadFacts ==
  ASSUME MaxPacketSize \in Nat, NEW bs \in Bufs, NEW fill \in Fills, NEW at \in Ats, NEW kind \in ReadKinds
  PROVE  Read(bs, fill, at, kind) \in Reading(at)
<1>0. /\ kind.w \in Nat /\ kind.kind \in {"int", "size", "string", "chars"}
      /\ at \in Nat /\ at + 1 <= MaxPacketSize
  BY ReadKindCases DEF Ats
<1>a. Bytes(bs, fill, at, at + kind.w) \in Seq(Nat)
  <2> DEFINE to == at + kind.w
  <2>1. to \in Nat /\ at <= to
    BY <1>0
  <2> HIDE DEF to
  <2>2. Bytes(bs, fill, at, to) \in Seq(Nat)
    BY <1>0, <2>1, BytesFacts
  <2> QED BY <2>2 DEF to
<1>1. CASE kind.kind \in {"int", "size"}
  <2>1. Read(bs, fill, at, kind) = ReadInt(bs, fill, at, kind.w)
    BY <1>1 DEF Read
  <2>2. CASE at + kind.w >= MaxPacketSize
    <3>1. [i \in 1..kind.w |-> NUL] \in Seq(Nat)
      BY <1>0 DEF NUL
    <3> QED BY <1>0, <2>1, <2>2, <3>1 DEF ReadInt, Reading
  <2>3. CASE ~(at + kind.w >= MaxPacketSize)
    <3>2. at + kind.w \in at..(MaxPacketSize - 1)
      BY <1>0, <2>3
    <3> QED BY <2>1, <2>3, <1>a, <3>2 DEF ReadInt, Reading
  <2> QED BY <2>2, <2>3
<1>2. CASE kind.kind = "string"
  <2> DEFINE e == EndOf(bs, fill, at)
  <2>1. Read(bs, fill, at, kind) =
          [at |-> Min({e, MaxPacketSize - 1}), val |-> Bytes(bs, fill, at, e - 1)]
    BY <1>2 DEF Read, ReadString, EndOf
  <2> HIDE DEF e
  <2>2. e \in (at + 1)..MaxPacketSize
    BY EndFacts DEF IsEnd, e
  <2>3. Min({e, MaxPacketSize - 1}) = IF e <= MaxPacketSize - 1 THEN e ELSE MaxPacketSize - 1
    BY <1>0, <2>2, MinOfTwo
  <2>4. Min({e, MaxPacketSize - 1}) \in at..(MaxPacketSize - 1)
    BY <1>0, <2>2, <2>3
  <2>5. Bytes(bs, fill, at, e - 1) \in Seq(Nat)
    <3>1. e - 1 \in Nat /\ at <= e - 1
      BY <1>0, <2>2
    <3> QED BY <1>0, <3>1, BytesFacts
  <2> QED BY <2>1, <2>4, <2>5 DEF Reading
<1>3. CASE kind.kind = "chars"
  <2>1. Read(bs, fill, at, kind) =
          [at |-> Min({at + kind.w, MaxPacketSize - 1}), val |-> Bytes(bs, fill, at, at + kind.w)]
    BY <1>3 DEF Read, ReadChars
  <2>2. Min({at + kind.w, MaxPacketSize - 1}) =
          IF at + kind.w <= MaxPacketSize - 1 THEN at + kind.w ELSE MaxPacketSize - 1
    BY <1>0, MinOfTwo
  <2>3. Min({at + kind.w, MaxPacketSize - 1}) \in at..(MaxPacketSize - 1)
    BY <1>0, <2>2
  <2> QED BY <1>a, <2>1, <2>3 DEF Reading
<1> QED BY <1>0, <1>1, <1>2, <1>3

-----------------------------------------------------------------------------
(* Reading back what was packed. *)
ValueOf(k, kind, n, len) ==
  CASE kind.kind = "size"               -> <<Tag(k, n)>>
    [] kind.kind \in {"string", "cstr"} -> CharsOf(k, len)
    [] OTHER                            -> CharsOf(k, kind.w)

(* The kind a constructor reads a packed value with. *)
ReaderOf(kind, len) == IF kind.kind = "cstr" THEN Chars(len) ELSE kind

(* A value that lies in the buffer is read back, and the reader stands     *)
(* behind it.                                                              *)
LEMMA ReadBack ==
  ASSUME MaxPacketSize \in Nat, NEW bs \in Bufs, NEW fill \in Fills, NEW layout \in Fields,
         NEW n \in 0..255, NEW len \in Nat, LaidTo(bs, layout, n, len, Len(layout)),
         NEW k \in 1..Len(layout)
  PROVE  /\ Off(layout, len, k - 1) \in Ats
         /\ Read(bs, fill, Off(layout, len, k - 1), ReaderOf(layout[k][2], len)) =
              [at |-> Off(layout, len, k), val |-> ValueOf(k, layout[k][2], n, len)]
<1> DEFINE o == Off(layout, len, k - 1)
           w == Width(layout, len, k)
           kind == layout[k][2]
<1>0. /\ Len(layout) \in Nat /\ k \in Nat /\ k - 1 \in 0..Len(layout) /\ k \in 0..Len(layout)
      /\ Len(layout) \in 0..Len(layout) /\ n \in Nat /\ n % 256 = n
  <2>1. Len(layout) \in Nat
    BY DEF Fields
  <2>2. n \in Nat /\ n % 256 = n
    OBVIOUS
  <2> QED BY <2>1, <2>2
<1>1. kind \in PackKinds
  BY FieldType
<1>2. /\ kind.w \in Nat /\ kind.kind \in {"int", "size", "string", "cstr"}
      /\ kind.kind = "size" => kind.w = 1
  BY <1>1, KindCases
<1>3. o \in Nat /\ w \in Nat /\ Off(layout, len, k) = o + w /\ Len(bs) \in Nat /\ Len(bs) < MaxPacketSize
  <2>1. o \in Nat
    BY <1>0, SpanFinite
  <2>2. w \in Nat
    BY <1>0, WidthType
  <2>3. Off(layout, len, k) = o + w
    BY OffSteps
  <2>4. Len(bs) \in Nat /\ Len(bs) < MaxPacketSize
    BY DEF Bufs
  <2> QED BY <2>1, <2>2, <2>3, <2>4
<1>4. o + w <= Len(bs)
  <2>1. Off(layout, len, k) <= Off(layout, len, Len(layout)) /\ Off(layout, len, Len(layout)) \in Nat
    BY <1>0, OffGrows, SpanFinite
  <2>2. Off(layout, len, Len(layout)) <= Len(bs)
    BY DEF LaidTo
  <2> QED BY <1>3, <2>1, <2>2
<1>5. \A i \in 1..w : Byte(bs, fill, o + i) = Wired(k, kind, n, len)[i]
  <2>1. Lies(bs, layout, n, len, k)
    BY DEF LaidTo
  <2>2. \A i \in 1..w : bs[o + i] = Wired(k, kind, n, len)[i]
    BY <2>1 DEF Lies
  <2> HIDE DEF o, w, kind
  <2>3. ASSUME NEW i \in 1..w PROVE Byte(bs, fill, o + i) = bs[o + i]
    <3> DEFINE p == o + i
    <3>1. p \in Nat \ {0} /\ p <= Len(bs)
      BY <1>3, <1>4
    <3> HIDE DEF p
    <3>2. Byte(bs, fill, p) = bs[p]
      BY <3>1, ByteFacts
    <3> QED BY <3>2 DEF p
  <2> QED BY <2>2, <2>3
<1>6. o \in Ats
  BY <1>3, <1>4 DEF Ats
<1>7. w = WidthOf(kind, len)
  BY DEF Width
<1> HIDE DEF o, w, kind
<1>8. \A m \in 0..w : /\ Bytes(bs, fill, o, o + m) \in Seq(Nat) /\ Len(Bytes(bs, fill, o, o + m)) = m
                      /\ \A i \in 1..m : Bytes(bs, fill, o, o + m)[i] = Wired(k, kind, n, len)[i]
  <2> TAKE m \in 0..w
  <2> DEFINE to == o + m
  <2>1. to \in Nat /\ o <= to /\ to - o = m /\ m \in Nat /\ \A i \in 1..m : i \in 1..w
    BY <1>3
  <2> HIDE DEF to
  <2>2. /\ Bytes(bs, fill, o, to) \in Seq(Nat) /\ Len(Bytes(bs, fill, o, to)) = to - o
        /\ \A i \in 1..(to - o) : Bytes(bs, fill, o, to)[i] = Byte(bs, fill, o + i)
    <3>1. o \in Nat /\ to \in Nat /\ o <= to
      BY <1>3, <2>1
    <3> QED BY <3>1, BytesFacts
  <2>3. /\ Bytes(bs, fill, o, to) \in Seq(Nat) /\ Len(Bytes(bs, fill, o, to)) = m
        /\ \A i \in 1..m : Bytes(bs, fill, o, to)[i] = Wired(k, kind, n, len)[i]
    BY <1>5, <2>1, <2>2
  <2> QED BY <2>3 DEF to
<1> DEFINE Same(v, m) == v \in Seq(Nat) /\ Len(v) = m /\ \A i \in 1..m : v[i] = Wired(k, kind, n, len)[i]
<1>9. \A u, v, m : Same(u, m) /\ Same(v, m) => u = v
  BY SeqEqual
<1>10. CASE kind.kind = "int"
  <2>1. w = kind.w /\ ValueOf(k, kind, n, len) = CharsOf(k, w) /\ Wired(k, kind, n, len) = CharsOf(k, w)
    BY <1>7, <1>10 DEF WidthOf, ValueOf, Wired
  <2>2. Bytes(bs, fill, o, o + w) = CharsOf(k, w)
    <3>1. Same(Bytes(bs, fill, o, o + w), w)
      <4>1. w \in 0..w
        BY <1>3
      <4> QED BY <1>8, <4>1
    <3>2. Same(CharsOf(k, w), w)
      BY <1>0, <1>3, <2>1, CharsType
    <3> HIDE DEF Same
    <3> QED BY <1>9, <3>1, <3>2
  <2>3. ReaderOf(kind, len) = kind
    BY <1>10 DEF ReaderOf
  <2>4. Read(bs, fill, o, kind) = ReadInt(bs, fill, o, w)
    BY <1>10, <2>1 DEF Read
  <2>5. ~(o + w >= MaxPacketSize)
    BY <1>3, <1>4
  <2>6. Read(bs, fill, o, kind) = [at |-> o + w, val |-> CharsOf(k, w)]
    BY <2>2, <2>4, <2>5 DEF ReadInt
  <2> QED BY <1>3, <1>6, <2>1, <2>3, <2>6 DEF o, kind, w
<1>11. CASE kind.kind = "size"
  <2>1. w = 1 /\ kind.w = 1 /\ ValueOf(k, kind, n, len) = <<Tag(k, n)>> /\ Wired(k, kind, n, len) = <<Tag(k, n)>>
    BY <1>0, <1>2, <1>7, <1>11 DEF WidthOf, ValueOf, Wired
  <2>2. Bytes(bs, fill, o, o + 1) = <<Tag(k, n)>>
    <3>1. Same(Bytes(bs, fill, o, o + 1), 1)
      BY <1>8, <2>1
    <3>a. Tag(k, n) \in Nat
      BY <1>0 DEF Tag
    <3>2. Same(<<Tag(k, n)>>, 1)
      <4>1. <<Tag(k, n)>> \in Seq(Nat) /\ Len(<<Tag(k, n)>>) = 1
        BY <3>a
      <4> QED BY <2>1, <4>1
    <3> HIDE DEF Same
    <3> QED BY <1>9, <3>1, <3>2
  <2>3. ReaderOf(kind, len) = kind
    BY <1>11 DEF ReaderOf
  <2>4. Read(bs, fill, o, kind) = ReadInt(bs, fill, o, 1)
    BY <1>11, <2>1 DEF Read
  <2>5. ~(o + 1 >= MaxPacketSize)
    BY <1>3, <1>4, <2>1
  <2>6. Read(bs, fill, o, kind) = [at |-> o + 1, val |-> <<Tag(k, n)>>]
    BY <2>2, <2>4, <2>5 DEF ReadInt
  <2> QED BY <1>3, <1>6, <2>1, <2>3, <2>6 DEF o, kind, w
<1>12. CASE kind.kind = "cstr"
  <2>1. w = len /\ ValueOf(k, kind, n, len) = CharsOf(k, w) /\ Wired(k, kind, n, len) = CharsOf(k, w)
    BY <1>7, <1>12 DEF WidthOf, ValueOf, Wired
  <2>2. Bytes(bs, fill, o, o + w) = CharsOf(k, w)
    <3>1. Same(Bytes(bs, fill, o, o + w), w)
      <4>1. w \in 0..w
        BY <1>3
      <4> QED BY <1>8, <4>1
    <3>2. Same(CharsOf(k, w), w)
      BY <1>0, <1>3, <2>1, CharsType
    <3> HIDE DEF Same
    <3> QED BY <1>9, <3>1, <3>2
  <2>3. ReaderOf(kind, len) = [kind |-> "chars", w |-> w]
    BY <1>12, <2>1 DEF ReaderOf, Chars, Kind
  <2>4. Read(bs, fill, o, [kind |-> "chars", w |-> w]) = ReadChars(bs, fill, o, w)
    BY DEF Read
  <2>5. Min({o + w, MaxPacketSize - 1}) = o + w
    <3>1. o + w \in Int /\ MaxPacketSize - 1 \in Int /\ o + w <= MaxPacketSize - 1
      BY <1>3, <1>4
    <3> QED BY <3>1, MinOfTwo
  <2>6. Read(bs, fill, o, ReaderOf(kind, len)) = [at |-> o + w, val |-> CharsOf(k, w)]
    BY <2>2, <2>3, <2>4, <2>5 DEF ReadChars
  <2> QED BY <1>3, <1>6, <2>1, <2>6 DEF o, kind, w
<1>13. CASE kind.kind = "string"
  <2>1. w = len + 1 /\ ValueOf(k, kind, n, len) = CharsOf(k, len)
        /\ Wired(k, kind, n, len) = Append(CharsOf(k, len), NUL)
    BY <1>7, <1>13 DEF WidthOf, ValueOf, Wired
  <2>2. /\ \A i \in 1..len : Wired(k, kind, n, len)[i] = CharsOf(k, len)[i]
        /\ Wired(k, kind, n, len)[len + 1] = NUL
    <3> DEFINE C == CharsOf(k, len)
    <3>1. C \in Seq(Nat) /\ Len(C) = len
      BY <1>0, CharsType
    <3>2. NUL \in Nat
      BY DEF NUL
    <3> HIDE DEF C
    <3>3. (\A i \in 1..len : Append(C, NUL)[i] = C[i]) /\ Append(C, NUL)[len + 1] = NUL
      BY <3>1, <3>2, AppendProperties
    <3> QED BY <2>1, <3>3 DEF C
  <2>3. IsEnd(bs, fill, o, o + w)
    <3>1. o + w \in (o + 1)..MaxPacketSize
      BY <1>3, <1>4, <2>1
    <3>2. Byte(bs, fill, o + w) = NUL
      <4>1. w \in 1..w /\ Wired(k, kind, n, len)[w] = NUL
        BY <1>3, <2>1, <2>2
      <4> QED BY <1>5, <4>1
    <3>3. ASSUME NEW q \in (o + 1)..((o + w) - 1) PROVE Byte(bs, fill, q) # NUL
      <4> DEFINE i == q - o
      <4>1. i \in 1..len /\ i \in 1..w /\ o + i = q
        BY <1>3, <2>1
      <4> HIDE DEF i
      <4>2. Byte(bs, fill, q) = CharsOf(k, len)[i]
        BY <1>5, <2>2, <4>1
      <4>a. \A j \in 1..len : CharsOf(k, len)[j] = Tag(k, j) /\ Tag(k, j) \in Nat \ {0}
        BY <1>0, CharsType
      <4>3. CharsOf(k, len)[i] # 0
        BY <4>1, <4>a
      <4> QED BY <4>2, <4>3 DEF NUL
    <3>4. \A q \in (o + 1)..((o + w) - 1) : Byte(bs, fill, q) # NUL
      BY <3>3
    <3> DEFINE p == o + w
    <3> HIDE DEF p
    <3>5. p \in (o + 1)..MaxPacketSize /\ Byte(bs, fill, p) = NUL /\ \A q \in (o + 1)..(p - 1) : Byte(bs, fill, q) # NUL
      BY <3>1, <3>2, <3>4 DEF p
    <3>6. IsEnd(bs, fill, o, p)
      BY <3>5 DEF IsEnd
    <3> QED BY <3>6 DEF p
  <2>4. EndOf(bs, fill, o) = o + w
    BY <1>6, <2>3, EndFacts
  <2>5. ReaderOf(kind, len) = kind
    BY <1>13 DEF ReaderOf
  <2>6. Read(bs, fill, o, kind) = ReadString(bs, fill, o)
    BY <1>13 DEF Read
  <2>7. ReadString(bs, fill, o) = [at |-> Min({o + w, MaxPacketSize - 1}), val |-> Bytes(bs, fill, o, (o + w) - 1)]
    <3> DEFINE e == EndOf(bs, fill, o)
    <3>1. ReadString(bs, fill, o) = [at |-> Min({e, MaxPacketSize - 1}), val |-> Bytes(bs, fill, o, e - 1)]
      BY DEF ReadString, EndOf
    <3> HIDE DEF e
    <3>2. e = o + w
      BY <2>4 DEF e
    <3> QED BY <3>1, <3>2
  <2>8. Min({o + w, MaxPacketSize - 1}) = o + w
    <3>1. o + w \in Int /\ MaxPacketSize - 1 \in Int /\ o + w <= MaxPacketSize - 1
      BY <1>3, <1>4
    <3> QED BY <3>1, MinOfTwo
  <2>9. Bytes(bs, fill, o, o + len) = CharsOf(k, len)
    <3>1. Same(Bytes(bs, fill, o, o + len), len)
      <4>1. len \in 0..w
        BY <2>1
      <4> QED BY <1>8, <4>1
    <3>2. Same(CharsOf(k, len), len)
      BY <1>0, <2>2, CharsType
    <3> HIDE DEF Same
    <3> QED BY <1>9, <3>1, <3>2
  <2>10. (o + w) - 1 = o + len
    BY <1>3, <2>1
  <2>11. Read(bs, fill, o, ReaderOf(kind, len)) = [at |-> o + w, val |-> CharsOf(k, len)]
    BY <2>5, <2>6, <2>7, <2>8, <2>9, <2>10
  <2> QED BY <1>3, <1>6, <2>1, <2>11 DEF o, kind, w
<1> QED BY <1>2, <1>10, <1>11, <1>12, <1>13

-----------------------------------------------------------------------------
(* Reading a layout.  The provers do not know that the names of the fields *)
(* of a login reply are in STRING.                                         *)
Names == STRING \cup {"result", "right", "type", "pad", "name", "id"}
Reads == [at : Ats, got : Seq(Names \X Seq(Nat))]
ReadFields == Seq(Names \X ReadKinds)

(* A reader that went on from r to s. *)
Onward(r, s) == s \in Reads /\ r.at <= s.at /\ Begins(r.got, s.got)

\* Reading a field goes onward.
LEMMA FieldRead ==
  ASSUME MaxPacketSize \in Nat, NEW bs \in Bufs, NEW fill \in Fills, NEW r \in Reads,
         NEW field \in Names \X ReadKinds
  PROVE  Onward(r, ReadField(r, bs, fill, field))
<1> DEFINE v == Read(bs, fill, r.at, field[2])
           g == <<field[1], v.val>>
<1>1. r.at \in Ats /\ r.got \in Seq(Names \X Seq(Nat)) /\ field[1] \in Names /\ field[2] \in ReadKinds
  BY DEF Reads
<1>2. v \in Reading(r.at)
  BY <1>1, ReadFacts
<1>3. ReadField(r, bs, fill, field) = [at |-> v.at, got |-> Append(r.got, g)]
  BY DEF ReadField
<1> HIDE DEF v
<1>4. v.at \in r.at..(MaxPacketSize - 1) /\ v.val \in Seq(Nat)
  BY <1>2 DEF Reading
<1>5. g \in Names \X Seq(Nat)
  BY <1>1, <1>4
<1> HIDE DEF g
<1> DEFINE h == Append(r.got, g)
<1>6. h \in Seq(Names \X Seq(Nat)) /\ Len(h) = Len(r.got) + 1 /\ (\A i \in 1..Len(r.got) : h[i] = r.got[i])
      /\ Len(r.got) \in Nat
  BY <1>1, <1>5, AppendProperties
<1> HIDE DEF h
<1>7. Begins(r.got, h)
  BY <1>6 DEF Begins
<1>8. v.at \in Ats /\ r.at <= v.at
  BY <1>1, <1>4 DEF Ats
<1>9. ReadField(r, bs, fill, field) = [at |-> v.at, got |-> h]
  BY <1>3 DEF h
<1> QED BY <1>6, <1>7, <1>8, <1>9 DEF Onward, Reads

(* R[k] is the reader after k fields. *)
ReadWalk(R, r, bs, fill, layout) ==
  /\ R \in [0..Len(layout) -> Reads] /\ R[0] = r
  /\ \A k \in 1..Len(layout) : R[k] = ReadField(R[k - 1], bs, fill, layout[k])

\* Every layout can be read field by field.
LEMMA ReadWalkExists ==
  ASSUME MaxPacketSize \in Nat, NEW bs \in Bufs, NEW fill \in Fills, NEW r \in Reads, NEW layout \in ReadFields
  PROVE  \E R : ReadWalk(R, r, bs, fill, layout)
<1> DEFINE L == Len(layout)
           D == [x \in (1..L) \X Reads |-> ReadField(x[2], bs, fill, layout[x[1]])]
<1>1. L \in Nat
  BY DEF ReadFields
<1>2. ASSUME NEW x \in (1..L) \X Reads PROVE ReadField(x[2], bs, fill, layout[x[1]]) \in Reads
  <2>1. x[1] \in 1..L /\ x[2] \in Reads
    BY <1>2
  <2>2. layout[x[1]] \in Names \X ReadKinds
    BY <2>1 DEF ReadFields
  <2> QED BY <2>1, <2>2, FieldRead DEF Onward
<1>3. D \in [(1..L) \X Reads -> Reads]
  BY <1>2
<1>4. \A k \in 1..L, c \in Reads : D[<<k, c>>] = ReadField(c, bs, fill, layout[k])
  OBVIOUS
<1> HIDE DEF D, L
<1>5. \E R : Steps(R, L, Reads, r, D)
  BY <1>1, <1>3, Stepwise
<1>6. PICK R \in [0..L -> Reads] : R[0] = r /\ \A k \in 1..L : R[k] = D[<<k, R[k - 1]>>]
  BY <1>5 DEF Steps
<1>7. ASSUME NEW k \in 1..L PROVE R[k] = ReadField(R[k - 1], bs, fill, layout[k])
  <2>1. k - 1 \in 0..L
    BY <1>1
  <2>2. R[k - 1] \in Reads
    BY <2>1, <1>6
  <2> QED BY <1>4, <1>6, <2>1, <2>2
<1> QED BY <1>6, <1>7 DEF ReadWalk, L

\* ReadAll ends where that walk ends.
LEMMA ReadAllIsWalk ==
  ASSUME NEW bs, NEW fill, NEW r, NEW layout \in ReadFields, NEW R, ReadWalk(R, r, bs, fill, layout)
  PROVE  ReadAll(r, bs, fill, layout) = R[Len(layout)]
<1> DEFINE L == Len(layout)
           G(f) == [k \in 0..L |-> IF k = 0 THEN r ELSE ReadField(f[k - 1], bs, fill, layout[k])]
           c == CHOOSE f : f = G(f)
<1>0. L \in Nat
  BY DEF ReadFields
<1>1. ReadAll(r, bs, fill, layout) = c[L]
  BY DEF ReadAll
<1>2. \A k \in 0..L : k # 0 => k - 1 \in 0..L /\ k \in 1..L
  BY <1>0
<1>3. \A k \in 0..L : R[k] = IF k = 0 THEN r ELSE ReadField(R[k - 1], bs, fill, layout[k])
  BY <1>2 DEF ReadWalk
<1>4. R = G(R)
  <2>1. R = [k \in 0..L |-> R[k]]
    BY DEF ReadWalk
  <2> QED BY <1>3, <2>1
<1>5. c = G(c)
  BY <1>4
<1>6. \A k \in 0..L : c[k] = IF k = 0 THEN r ELSE ReadField(c[k - 1], bs, fill, layout[k])
  <2> HIDE DEF c
  <2> QED BY <1>5
<1> HIDE DEF c
<1> DEFINE T == {k \in 0..L : c[k] = R[k]}
<1>7. 0 \in T
  BY <1>0, <1>3, <1>6
<1>8. ASSUME NEW k \in 1..L, k - 1 \in T PROVE k \in T
  <2>1. k \in 0..L /\ k # 0
    BY <1>0
  <2>2. c[k - 1] = R[k - 1]
    BY <1>8
  <2>3. c[k] = R[k]
    BY <1>3, <1>6, <2>1, <2>2
  <2> QED BY <2>1, <2>3
<1> HIDE DEF T
<1>9. \A k \in 0..L : k \in T
  BY <1>0, <1>7, <1>8, UpTo
<1>10. L \in T
  BY <1>0, <1>9
<1> QED BY <1>1, <1>10 DEF T

\* Going onward twice is going onward.
LEMMA OnwardTransitive ==
  ASSUME MaxPacketSize \in Nat, NEW r \in Reads, NEW s, NEW t, Onward(r, s), Onward(s, t)
  PROVE  Onward(r, t)
<1>1. s \in Reads /\ t \in Reads /\ r.at <= s.at /\ s.at <= t.at /\ Begins(r.got, s.got) /\ Begins(s.got, t.got)
  BY DEF Onward
<1>2. r.at \in Int /\ s.at \in Int /\ t.at \in Int
  BY <1>1 DEF Reads, Ats
<1> DEFINE b == r.got
           c == s.got
           d == t.got
<1>3. Len(b) \in Nat /\ Len(c) \in Nat /\ Len(d) \in Nat
  BY <1>1 DEF Reads
<1> HIDE DEF b, c, d
<1>4. Begins(b, c) /\ Begins(c, d)
  BY <1>1 DEF b, c, d
<1>5. Len(b) <= Len(c) /\ Len(c) <= Len(d)
  BY <1>4 DEF Begins
<1>6. \A i \in 1..Len(b) : i \in 1..Len(c)
  BY <1>3, <1>5
<1>7. \A i \in 1..Len(b) : d[i] = b[i]
  BY <1>4, <1>6 DEF Begins
<1>8. Begins(b, d)
  BY <1>3, <1>5, <1>7 DEF Begins
<1> QED BY <1>1, <1>2, <1>8 DEF Onward, b, d

\* Standing still is going onward.
LEMMA OnwardSame ==
  ASSUME MaxPacketSize \in Nat, NEW r \in Reads
  PROVE  Onward(r, r)
<1>1. Len(r.got) \in Nat /\ r.at \in Int
  BY DEF Reads, Ats
<1> QED BY <1>1 DEF Onward, Begins

(* Reading goes on from where it stands and keeps what it has read. *)
LEMMA WalkOnward ==
  ASSUME MaxPacketSize \in Nat, NEW bs \in Bufs, NEW fill \in Fills, NEW r \in Reads, NEW layout \in ReadFields,
         NEW R, ReadWalk(R, r, bs, fill, layout), NEW a \in 0..Len(layout)
  PROVE  \A k \in a..Len(layout) : Onward(R[a], R[k])
<1> DEFINE L == Len(layout) - a
           T == {m \in 0..L : Onward(R[a], R[a + m])}
<1>0. Len(layout) \in Nat /\ L \in Nat /\ a \in Nat
  BY DEF ReadFields
<1>a. R[a] \in Reads /\ a + 0 = a
  BY <1>0 DEF ReadWalk
<1>1. 0 \in T
  BY <1>0, <1>a, OnwardSame
<1>2. ASSUME NEW m \in 1..L, m - 1 \in T PROVE m \in T
  <2> DEFINE k == a + m
  <2>1. k \in 1..Len(layout) /\ k - 1 \in 0..Len(layout) /\ k - 1 = a + (m - 1)
    BY <1>0
  <2>2. Onward(R[a], R[k - 1])
    BY <1>2, <2>1
  <2> HIDE DEF k
  <2>3. R[k - 1] \in Reads /\ R[k] = ReadField(R[k - 1], bs, fill, layout[k])
    BY <2>1 DEF ReadWalk
  <2>4. layout[k] \in Names \X ReadKinds
    BY <2>1 DEF ReadFields
  <2>5. Onward(R[k - 1], R[k])
    <3>1. Onward(R[k - 1], ReadField(R[k - 1], bs, fill, layout[k]))
      BY <2>3, <2>4, FieldRead
    <3> QED BY <2>3, <3>1
  <2>6. Onward(R[a], R[k])
    BY <1>a, <2>2, <2>5, OnwardTransitive
  <2> QED BY <2>6 DEF k
<1> HIDE DEF T
<1>3. \A m \in 0..L : m \in T
  BY <1>0, <1>1, <1>2, UpTo
<1>4. ASSUME NEW k \in a..Len(layout) PROVE Onward(R[a], R[k])
  <2>1. k - a \in 0..L /\ a + (k - a) = k
    BY <1>0
  <2> QED BY <1>3, <2>1 DEF T
<1> QED BY <1>4

\* Reading a whole layout goes onward.
LEMMA AllOnward ==
  ASSUME MaxPacketSize \in Nat, NEW bs \in Bufs, NEW fill \in Fills, NEW r \in Reads, NEW layout \in ReadFields
  PROVE  Onward(r, ReadAll(r, bs, fill, layout))
<1>1. PICK R : ReadWalk(R, r, bs, fill, layout)
  BY ReadWalkExists
<1>2. 0 \in 0..Len(layout) /\ Len(layout) \in 0..Len(layout) /\ R[0] = r
  BY <1>1 DEF ReadFields, ReadWalk
<1>3. ReadAll(r, bs, fill, layout) = R[Len(layout)]
  BY <1>1, ReadAllIsWalk
<1>4. \A k \in 0..Len(layout) : Onward(R[0], R[k])
  BY <1>1, <1>2, WalkOnward
<1> QED BY <1>2, <1>3, <1>4

-----------------------------------------------------------------------------
(* Reading back a layout.  What the sender meant by the first m fields,    *)
(* and a reader that has just read them.                                   *)
MeantTo(layout, n, len, m) ==
  [k \in 1..m |-> <<layout[k][1], ValueOf(k, layout[k][2], n, len)>>]
AtField(layout, n, len, m) == [at |-> Off(layout, len, m), got |-> MeantTo(layout, n, len, m)]

(* The fields of read are those of layout from the one behind o on. *)
Matches(read, layout, len, o) ==
  \A i \in 1..Len(read) :
    o + i \in 1..Len(layout) /\ read[i] = <<layout[o + i][1], ReaderOf(layout[o + i][2], len)>>

\* What the sender meant is a list of fields, and the reader is inside buffer_.
LEMMA MeantType ==
  ASSUME MaxPacketSize \in Nat, NEW bs \in Bufs, NEW layout \in Fields,
         NEW n \in 0..255, NEW len \in Nat, LaidTo(bs, layout, n, len, Len(layout)),
         NEW m \in 0..Len(layout)
  PROVE  AtField(layout, n, len, m) \in Reads
<1>0. Len(layout) \in Nat /\ m \in Nat /\ Len(layout) \in 0..Len(layout) /\ n \in Nat
  BY DEF Fields
<1>1. Off(layout, len, m) \in Ats
  <2>1. Off(layout, len, m) <= Off(layout, len, Len(layout)) /\ Off(layout, len, m) \in Nat
        /\ Off(layout, len, Len(layout)) \in Nat
    BY <1>0, OffGrows, SpanFinite
  <2>2. Off(layout, len, Len(layout)) <= Len(bs) /\ Len(bs) \in Nat /\ Len(bs) < MaxPacketSize
    BY DEF LaidTo, Bufs
  <2> QED BY <2>1, <2>2 DEF Ats
<1>2. ASSUME NEW k \in 1..m PROVE <<layout[k][1], ValueOf(k, layout[k][2], n, len)>> \in Names \X Seq(Nat)
  <2> DEFINE kind == layout[k][2]
  <2>1. k \in 1..Len(layout) /\ k \in Nat
    BY <1>0
  <2>2. layout[k][1] \in Names /\ kind \in PackKinds
    BY <2>1, FieldType DEF Names
  <2> HIDE DEF kind
  <2>3. kind.w \in Nat
    BY <2>2, KindCases
  <2>4. CharsOf(k, len) \in Seq(Nat) /\ CharsOf(k, kind.w) \in Seq(Nat)
    BY <2>1, <2>3, CharsType
  <2>5. Tag(k, n) \in Nat
    BY <1>0, <2>1 DEF Tag
  <2>6. <<Tag(k, n)>> \in Seq(Nat)
    BY <2>5
  <2>7. ValueOf(k, kind, n, len) \in Seq(Nat)
    BY <2>4, <2>6 DEF ValueOf
  <2> QED BY <2>2, <2>7 DEF kind
<1>3. MeantTo(layout, n, len, m) \in Seq(Names \X Seq(Nat))
  BY <1>0, <1>2 DEF MeantTo
<1> QED BY <1>1, <1>3 DEF AtField, Reads

\* The reader gets a field as it was meant and stands behind it.
LEMMA FieldBack ==
  ASSUME MaxPacketSize \in Nat, NEW bs \in Bufs, NEW fill \in Fills, NEW layout \in Fields,
         NEW n \in 0..255, NEW len \in Nat, LaidTo(bs, layout, n, len, Len(layout)),
         NEW k \in 1..Len(layout)
  PROVE  ReadField(AtField(layout, n, len, k - 1), bs, fill, <<layout[k][1], ReaderOf(layout[k][2], len)>>)
           = AtField(layout, n, len, k)
<1> DEFINE name == layout[k][1]
           kind == ReaderOf(layout[k][2], len)
           val == ValueOf(k, layout[k][2], n, len)
           r == AtField(layout, n, len, k - 1)
           before == MeantTo(layout, n, len, k - 1)
           field == <<name, kind>>
<1>0. Len(layout) \in Nat /\ k \in Nat /\ k - 1 \in Nat /\ k - 1 \in 0..Len(layout) /\ k \in 0..Len(layout)
  BY DEF Fields
<1>1. Read(bs, fill, Off(layout, len, k - 1), kind) = [at |-> Off(layout, len, k), val |-> val]
  BY ReadBack
<1>2. r.at = Off(layout, len, k - 1) /\ r.got = before
  BY DEF AtField
<1>3. AtField(layout, n, len, k).at = Off(layout, len, k) /\ AtField(layout, n, len, k).got = MeantTo(layout, n, len, k)
      /\ AtField(layout, n, len, k) = [at |-> Off(layout, len, k), got |-> MeantTo(layout, n, len, k)]
  BY DEF AtField
<1>4. before \in Seq(Names \X Seq(Nat)) /\ MeantTo(layout, n, len, k) \in Seq(Names \X Seq(Nat))
  <2>1. r \in Reads /\ AtField(layout, n, len, k) \in Reads
    BY <1>0, MeantType
  <2> QED BY <1>2, <1>3, <2>1 DEF Reads
<1>5. Append(before, <<name, val>>) = MeantTo(layout, n, len, k)
  <2>1. /\ Len(before) = k - 1 /\ Len(MeantTo(layout, n, len, k)) = k
        /\ \A i \in 1..(k - 1) : before[i] = MeantTo(layout, n, len, k)[i]
        /\ MeantTo(layout, n, len, k)[k] = <<name, val>>
    BY <1>0 DEF MeantTo
  <2>2. <<name, val>> \in Names \X Seq(Nat)
    <3>1. k \in 1..Len(MeantTo(layout, n, len, k))
      BY <1>0, <2>1
    <3>2. MeantTo(layout, n, len, k)[k] \in Names \X Seq(Nat)
      BY <1>4, <3>1, ElementOfSeq
    <3> QED BY <2>1, <3>2
  <2> DEFINE g == <<name, val>>
             s == MeantTo(layout, n, len, k)
             u == Append(before, g)
  <2> HIDE DEF before, g, s
  <2>3. before \in Seq(Names \X Seq(Nat)) /\ s \in Seq(Names \X Seq(Nat)) /\ g \in Names \X Seq(Nat)
    BY <1>4, <2>2 DEF g, s
  <2>4. Len(before) = k - 1 /\ Len(s) = k /\ (\A i \in 1..(k - 1) : before[i] = s[i]) /\ s[k] = g
    BY <2>1 DEF g, s
  <2>5. /\ u \in Seq(Names \X Seq(Nat)) /\ Len(u) = Len(before) + 1
        /\ (\A i \in 1..Len(before) : u[i] = before[i]) /\ u[Len(before) + 1] = g
    BY <2>3, AppendProperties
  <2> HIDE DEF u
  <2>6. Len(u) = k /\ \A i \in 1..k : u[i] = s[i]
    <3>1. \A i \in 1..k : i = k \/ i \in 1..(k - 1)
      BY <1>0
    <3>2. (k - 1) + 1 = k
      BY <1>0
    <3> QED BY <2>4, <2>5, <3>1, <3>2
  <2>7. u = s
    <3> DEFINE S == Names \X Seq(Nat)
    <3>1. u \in Seq(S) /\ s \in Seq(S) /\ Len(u) = Len(s) /\ \A i \in 1..Len(u) : u[i] = s[i]
      BY <2>3, <2>4, <2>5, <2>6
    <3> HIDE DEF S
    <3> QED BY <3>1, SeqEqual
  <2> QED BY <2>7 DEF u, s, g
<1> HIDE DEF r, before, name, kind, val
<1>6. ReadField(r, bs, fill, field) =
        [at |-> Read(bs, fill, r.at, field[2]).at,
         got |-> Append(r.got, <<field[1], Read(bs, fill, r.at, field[2]).val>>)]
  BY DEF ReadField
<1>7. field[1] = name /\ field[2] = kind
  OBVIOUS
<1> HIDE DEF field
<1>8. ReadField(r, bs, fill, field) = [at |-> Off(layout, len, k), got |-> Append(before, <<name, val>>)]
  <2>1. Read(bs, fill, r.at, field[2]) = [at |-> Off(layout, len, k), val |-> val]
    BY <1>1, <1>2, <1>7
  <2>2. Read(bs, fill, r.at, field[2]).at = Off(layout, len, k) /\ Read(bs, fill, r.at, field[2]).val = val
    BY <2>1
  <2> QED BY <1>2, <1>6, <1>7, <2>2
<1>9. ReadField(r, bs, fill, field) = AtField(layout, n, len, k)
  BY <1>3, <1>5, <1>8
<1> QED BY <1>9 DEF field, name, kind, r

\* A constructor whose layout matches gets its fields as they were meant.
LEMMA AllBack ==
  ASSUME MaxPacketSize \in Nat, NEW bs \in Bufs, NEW fill \in Fills, NEW layout \in Fields,
         NEW n \in 0..255, NEW len \in Nat, LaidTo(bs, layout, n, len, Len(layout)),
         NEW read \in ReadFields, NEW o \in 0..Len(layout), Matches(read, layout, len, o)
  PROVE  ReadAll(AtField(layout, n, len, o), bs, fill, read) = AtField(layout, n, len, o + Len(read))
<1> DEFINE r == AtField(layout, n, len, o)
           L == Len(read)
<1>0. L \in Nat /\ o \in Nat /\ o + 0 = o
  BY DEF ReadFields, Fields
<1>1. r \in Reads
  BY MeantType
<1>2. PICK R : ReadWalk(R, r, bs, fill, read)
  BY <1>1, ReadWalkExists
<1>3. ReadAll(r, bs, fill, read) = R[L]
  BY <1>2, ReadAllIsWalk
<1> DEFINE T == {i \in 0..L : R[i] = AtField(layout, n, len, o + i)}
<1>4. 0 \in T
  BY <1>0, <1>2 DEF ReadWalk
<1>5. ASSUME NEW i \in 1..L, i - 1 \in T PROVE i \in T
  <2> DEFINE k == o + i
  <2>1. i \in 0..L /\ k - 1 = o + (i - 1)
    BY <1>0
  <2>2. k \in 1..Len(layout) /\ read[i] = <<layout[k][1], ReaderOf(layout[k][2], len)>>
    BY DEF Matches
  <2>3. R[i] = ReadField(R[i - 1], bs, fill, read[i])
    BY <1>2 DEF ReadWalk
  <2>4. R[i - 1] = AtField(layout, n, len, k - 1)
    BY <1>5, <2>1
  <2> HIDE DEF k
  <2>5. R[i] = AtField(layout, n, len, k)
    <3>1. ReadField(AtField(layout, n, len, k - 1), bs, fill, <<layout[k][1], ReaderOf(layout[k][2], len)>>)
            = AtField(layout, n, len, k)
      BY <2>2, FieldBack
    <3> QED BY <2>2, <2>3, <2>4, <3>1
  <2> QED BY <2>1, <2>5 DEF k
<1> HIDE DEF T
<1>6. \A i \in 0..L : i \in T
  BY <1>0, <1>4, <1>5, UpTo
<1>7. L \in T
  BY <1>0, <1>6
<1> QED BY <1>3, <1>7 DEF T

\* The payload starts where the first value does.
LEMMA PayloadIsStart ==
  ASSUME NEW layout \in Fields, NEW n, NEW len \in Nat
  PROVE  AtPayload = AtField(layout, n, len, 0)
<1>1. Off(layout, len, 0) = 6
  BY OffSteps
<1>2. MeantTo(layout, n, len, 0) = <<>>
  <2>1. 1..0 = {}
    OBVIOUS
  <2> QED BY <2>1 DEF MeantTo
<1> QED BY <1>1, <1>2 DEF AtPayload, HeaderSize, AtField

-----------------------------------------------------------------------------
(* Reading back a packet. *)
Sound(c, n, len) == c \in Sent /\ n \in Counts /\ len \in Lens /\ (c \in Lists \/ n = 0)
Readable(c, len) == c \in Known(c) /\ (c \in Password => len = 32)

(* What LayoutsAgree says of one packet. *)
LEMMA LayoutFacts ==
  ASSUME LayoutsAgree, NEW c, NEW n, NEW len, Sound(c, n, len)
  PROVE  /\ n \in 0..255 /\ len \in Nat /\ PackOf(c, n) \in Fields
         /\ Off(PackOf(c, n), len, Len(PackOf(c, n))) = 6 + LengthOf(PackOf(c, n), len)
         /\ Off(PackOf(c, n), len, Len(PackOf(c, n))) < MaxPacketSize
         /\ Known(c) \subseteq {c}
<1>1. c \in Sent /\ n \in Counts /\ len \in Lens /\ (c \in Lists \/ n = 0)
  BY DEF Sound
<1>2. n \in 0..255 /\ len \in Nat
  BY <1>1 DEF LayoutsAgree
<1>3. /\ PackOf(c, n) \in Seq(STRING \X PackKinds)
      /\ HeaderSize + LengthOf(PackOf(c, n), len) < MaxPacketSize
      /\ Known(c) \subseteq {c}
  BY <1>1, Zenon DEF LayoutsAgree
<1>4. PackOf(c, n) \in Fields
  BY <1>3 DEF Fields
<1>5. Off(PackOf(c, n), len, Len(PackOf(c, n))) = 6 + LengthOf(PackOf(c, n), len)
  BY <1>2, <1>4, OffSteps
<1>6. HeaderSize = 6
  BY DEF HeaderSize
<1> QED BY <1>2, <1>3, <1>4, <1>5, <1>6

\* The layouts LayoutsAgree speaks of are layouts to read.
LEMMA ReadFieldsOf ==
  ASSUME NEW read \in Seq(STRING \X ReadKinds)
  PROVE  read \in ReadFields
<1> DEFINE S == STRING \X ReadKinds
           T == Names \X ReadKinds
<1>1. S \subseteq T
  BY DEF Names
<1> HIDE DEF S, T
<1>2. Seq(S) \subseteq Seq(T)
  BY <1>1, SeqMonotonic
<1> QED BY <1>2 DEF S, T, ReadFields

\* Layouts that agree match from the first field on.
LEMMA AgreeMatches ==
  ASSUME NEW read \in ReadFields, NEW layout \in Fields, NEW len, Agree(read, layout, len)
  PROVE  Matches(read, layout, len, 0) /\ Len(read) <= Len(layout)
<1>0. Len(read) \in Nat /\ Len(layout) \in Nat /\ DOMAIN read = 1..Len(read)
  BY DEF ReadFields, Fields
<1>1. Len(read) <= Len(layout)
  BY DEF Agree
<1>2. ASSUME NEW i \in 1..Len(read)
      PROVE  0 + i \in 1..Len(layout) /\ read[i] = <<layout[0 + i][1], ReaderOf(layout[0 + i][2], len)>>
  <2>1. 0 + i = i /\ i \in 1..Len(layout)
    BY <1>0, <1>1
  <2>2. read[i] \in Names \X ReadKinds
    BY DEF ReadFields
  <2>3. read[i][1] = layout[i][1] /\ read[i][2] = IF layout[i][2].kind = "cstr" THEN Chars(len) ELSE layout[i][2]
    BY <1>0 DEF Agree
  <2>4. read[i] = <<read[i][1], read[i][2]>>
    BY <2>2
  <2> QED BY <2>1, <2>3, <2>4 DEF ReaderOf
<1> QED BY <1>1, <1>2 DEF Matches

(* The constructor from a buffer starts behind the header. *)
LEMMA FromPayload ==
  ASSUME MaxPacketSize \in Nat, NEW bs \in Bufs, NEW fill \in Fills, NEW layout \in Fields,
         NEW n \in 0..255, NEW len \in Nat, LaidTo(bs, layout, n, len, Len(layout)),
         NEW read \in ReadFields, Agree(read, layout, len)
  PROVE  ReadAll(AtPayload, bs, fill, read).got = MeantTo(layout, n, len, Len(read))
<1>1. Matches(read, layout, len, 0)
  BY AgreeMatches
<1>2. 0 \in 0..Len(layout) /\ Len(read) \in Nat /\ 0 + Len(read) = Len(read)
  BY DEF Fields, ReadFields
<1>3. ReadAll(AtField(layout, n, len, 0), bs, fill, read) = AtField(layout, n, len, 0 + Len(read))
  BY <1>1, <1>2, AllBack
<1>4. AtPayload = AtField(layout, n, len, 0)
  BY PayloadIsStart
<1>5. ReadAll(AtPayload, bs, fill, read) = AtField(layout, n, len, Len(read))
  BY <1>2, <1>3, <1>4
<1> QED BY <1>5 DEF AtField

\* The classes that read the length of their list first.
LEMMA SizeAtDomain == DOMAIN SizeAt = {"SrvChannelListReply", "SrvCharacterListReply"}
BY DEF SizeAt

(* Every class but the login reply gives back exactly what was meant. *)
LEMMA PacketBack ==
  ASSUME MaxPacketSize \in Nat, LayoutsAgree, NEW c, NEW n, NEW len, Sound(c, n, len), Readable(c, len),
         c # "SrvLoginReply", NEW bs \in Bufs, NEW fill \in Fills, NEW refused,
         LaidTo(bs, PackOf(c, n), n, len, Len(PackOf(c, n)))
  PROVE  ReadPacket(c, bs, fill, refused) = MeantTo(PackOf(c, n), n, len, Len(PackOf(c, n)))
<1> DEFINE pack == PackOf(c, n)
<1>1. n \in 0..255 /\ len \in Nat /\ pack \in Fields /\ n \in Nat
  <2>1. n \in 0..255 /\ len \in Nat /\ pack \in Fields
    BY LayoutFacts
  <2> QED BY <2>1
<1>2. c \in Sent /\ n \in Counts /\ len \in Lens /\ (c \in Lists \/ n = 0)
      /\ c \in Known(c) /\ (c \in Password => len = 32)
  BY DEF Sound, Readable
<1>3. /\ ReadOf(c, n) \in Seq(STRING \X ReadKinds)
      /\ Len(ReadOf(c, n)) = Len(pack) /\ Agree(ReadOf(c, n), pack, len)
  BY <1>2, Zenon DEF LayoutsAgree
<1>4. c \in DOMAIN SizeAt =>
        /\ ReadOf(c, 0) \in Seq(STRING \X ReadKinds)
        /\ Agree(ReadOf(c, 0), pack, len)
        /\ SizeAt[c] \in DOMAIN ReadOf(c, 0) /\ ReadOf(c, 0)[SizeAt[c]][2] = Size
  BY <1>2, Zenon DEF LayoutsAgree
<1>a. LaidTo(bs, pack, n, len, Len(pack))
  OBVIOUS
<1> HIDE DEF pack
<1>5. ReadAll(AtPayload, bs, fill, ReadOf(c, n)).got = MeantTo(pack, n, len, Len(pack))
  <2>1. ReadOf(c, n) \in ReadFields
    BY <1>3, ReadFieldsOf
  <2> DEFINE read == ReadOf(c, n)
  <2>2. read \in ReadFields /\ Len(read) = Len(pack) /\ Agree(read, pack, len)
    BY <1>3, <2>1
  <2> HIDE DEF read
  <2>3. ReadAll(AtPayload, bs, fill, read).got = MeantTo(pack, n, len, Len(read))
    BY <1>1, <1>a, <2>2, FromPayload, ZenonT(40)
  <2> QED BY <2>2, <2>3 DEF read
<1>6. CASE c \in DOMAIN SizeAt
  <2> DEFINE read == ReadOf(c, 0)
             s == SizeAt[c]
             first == ReadAll(AtPayload, bs, fill, read).got
  <2>1. ReadPacket(c, bs, fill, refused) = ReadAll(AtPayload, bs, fill, ReadOf(c, first[s][2][1] % 4096)).got
    BY <1>6 DEF ReadPacket
  <2>2. read \in ReadFields /\ Agree(read, pack, len) /\ s \in DOMAIN read /\ read[s][2] = Size
    BY <1>4, <1>6, ReadFieldsOf
  <2> HIDE DEF read, s
  <2>3. first = MeantTo(pack, n, len, Len(read))
    BY <1>1, <1>a, <2>2, FromPayload
  <2> HIDE DEF first
  <2>4. Len(read) \in Nat /\ s \in 1..Len(read) /\ s \in Nat
    BY <2>2 DEF ReadFields
  <2>5. s \in 1..Len(pack) /\ read[s][2] = ReaderOf(pack[s][2], len)
    <3>1. Matches(read, pack, len, 0)
      BY <1>1, <2>2, AgreeMatches
    <3>2. 0 + s = s
      BY <2>4
    <3> QED BY <2>4, <3>1, <3>2 DEF Matches
  <2>6. pack[s][2].kind = "size"
    <3>1. Size.kind = "size" /\ Chars(len).kind = "chars" /\ "size" # "chars"
      BY DEF Size, Chars, Kind
    <3> QED BY <2>2, <2>5, <3>1 DEF ReaderOf
  <2>7. ValueOf(s, pack[s][2], n, len) = <<Tag(s, n)>>
    BY <2>6 DEF ValueOf
  <2>8. first[s] = <<pack[s][1], <<Tag(s, n)>>>>
    BY <2>3, <2>4, <2>7 DEF MeantTo
  <2>9. first[s][2][1] = Tag(s, n)
    BY <2>8
  <2>10. Tag(s, n) % 4096 = n
    BY <1>1, <2>4 DEF Tag
  <2> QED BY <1>5, <2>1, <2>9, <2>10 DEF pack
<1>7. CASE c \notin DOMAIN SizeAt
  <2>1. c # "SrvChannelListReply" /\ c # "SrvCharacterListReply"
    BY <1>7, SizeAtDomain
  <2>2. ReadOf(c, n) = ReadOf(c, 0)
    BY <2>1 DEF ReadOf
  <2>3. ReadPacket(c, bs, fill, refused) = ReadAll(AtPayload, bs, fill, ReadOf(c, 0)).got
    BY <1>7 DEF ReadPacket
  <2> QED BY <1>5, <2>2, <2>3 DEF pack
<1> QED BY <1>6, <1>7

-----------------------------------------------------------------------------
(* Reading back a login reply: server after server. *)
LEMMA LoginLayouts ==
  /\ LoginResult = << <<"result", U8>>, <<"right", U16>>, <<"type", U16>> >>
  /\ OneServer = << <<"pad", U8>>, <<"name", Str>>, <<"id", U32>> >>
<1>1. DOMAIN <<"result", "right", "type">> = 1..3 /\ DOMAIN <<"pad", "name", "id">> = 1..3
  OBVIOUS
<1>2. \A i \in 1..3 : i = 1 \/ i = 2 \/ i = 3
  OBVIOUS
<1>3. SrvLoginReply["result"] = U8 /\ SrvLoginReply["right"] = U16 /\ SrvLoginReply["type"] = U16
  BY DEF SrvLoginReply
<1>4. ServerInfo["pad"] = U8 /\ ServerInfo["name"] = Str /\ ServerInfo["id"] = U32
  BY DEF ServerInfo
<1>5. LoginResult = [i \in 1..3 |-> <<<<"result", "right", "type">>[i], SrvLoginReply[<<"result", "right", "type">>[i]]>>]
  BY <1>1 DEF LoginResult, Of
<1>6. OneServer = [i \in 1..3 |-> <<<<"pad", "name", "id">>[i], ServerInfo[<<"pad", "name", "id">>[i]]>>]
  BY <1>1 DEF OneServer, Of
<1>7. LoginResult = << <<"result", U8>>, <<"right", U16>>, <<"type", U16>> >>
  BY <1>2, <1>3, <1>5
<1>8. OneServer = << <<"pad", U8>>, <<"name", Str>>, <<"id", U32>> >>
  BY <1>2, <1>4, <1>6
<1> QED BY <1>7, <1>8

\* The kinds in a login reply.
LEMMA LoginKinds ==
  /\ U8 \in ReadKinds /\ U16 \in ReadKinds /\ U32 \in ReadKinds /\ Str \in ReadKinds
  /\ U8.kind = "int" /\ U16.kind = "int" /\ U32.kind = "int" /\ Str.kind = "string" /\ U8.w = 1
BY DEF U8, U16, U32, Str, Kind, ReadKinds

\* Three elements are a sequence.
LEMMA Triple ==
  ASSUME NEW S, NEW x \in S, NEW y \in S, NEW z \in S
  PROVE  <<x, y, z>> \in Seq(S) /\ Len(<<x, y, z>>) = 3
OBVIOUS

\* They are layouts of three fields, and a constructor reads them as pack() writes them.
LEMMA LoginTypes ==
  /\ LoginResult \in ReadFields /\ Len(LoginResult) = 3
  /\ OneServer \in ReadFields /\ Len(OneServer) = 3
  /\ OneServer[1] = <<"pad", U8>>
  /\ \A k \in 1..3 : \A len : /\ LoginResult[k] = <<LoginResult[k][1], ReaderOf(LoginResult[k][2], len)>>
                          /\ OneServer[k] = <<OneServer[k][1], ReaderOf(OneServer[k][2], len)>>
<1> DEFINE S == Names \X ReadKinds
<1>0. /\ <<"result", U8>> \in S /\ <<"right", U16>> \in S /\ <<"type", U16>> \in S
      /\ <<"pad", U8>> \in S /\ <<"name", Str>> \in S /\ <<"id", U32>> \in S
  <2>1. U8 \in ReadKinds /\ U16 \in ReadKinds /\ U32 \in ReadKinds /\ Str \in ReadKinds
    BY LoginKinds
  <2>2. \A name \in Names, kind \in ReadKinds : <<name, kind>> \in S
    OBVIOUS
  <2>3. {"result", "right", "type", "pad", "name", "id"} \subseteq Names
    BY DEF Names
  <2> HIDE DEF S
  <2> QED BY <2>1, <2>2, <2>3
<1>1. LoginResult \in ReadFields /\ Len(LoginResult) = 3
  <2> HIDE DEF S
  <2>1. LoginResult \in Seq(S) /\ Len(LoginResult) = 3
    BY <1>0, LoginLayouts, Triple
  <2> QED BY <2>1 DEF ReadFields, S
<1>2. OneServer \in ReadFields /\ Len(OneServer) = 3 /\ OneServer[1] = <<"pad", U8>>
  <2>a. OneServer[1] = <<"pad", U8>>
    BY LoginLayouts
  <2> HIDE DEF S
  <2>1. OneServer \in Seq(S) /\ Len(OneServer) = 3
    BY <1>0, LoginLayouts, Triple
  <2> QED BY <2>1, <2>a DEF ReadFields, S
<1>3. ASSUME NEW k \in 1..3, NEW len
      PROVE  /\ LoginResult[k] = <<LoginResult[k][1], ReaderOf(LoginResult[k][2], len)>>
             /\ OneServer[k] = <<OneServer[k][1], ReaderOf(OneServer[k][2], len)>>
  <2>1. k = 1 \/ k = 2 \/ k = 3
    OBVIOUS
  <2>2. /\ LoginResult[1] = <<"result", U8>> /\ LoginResult[2] = <<"right", U16>> /\ LoginResult[3] = <<"type", U16>>
        /\ OneServer[1] = <<"pad", U8>> /\ OneServer[2] = <<"name", Str>> /\ OneServer[3] = <<"id", U32>>
    BY LoginLayouts
  <2>3. \A kind \in {U8, U16, U32, Str} : ReaderOf(kind, len) = kind
    BY LoginKinds DEF ReaderOf
  <2> QED BY <2>1, <2>2, <2>3
<1> QED BY <1>1, <1>2, <1>3

(* The layout of the reply, field by field. *)
LEMMA LoginPack ==
  ASSUME NEW n \in Nat
  PROVE  /\ PackOf("SrvLoginReply", n) = LoginResult \o Repeat(n, OneServer)
         /\ Len(PackOf("SrvLoginReply", n)) = 3 + n * 3
         /\ \A k \in 1..3 : PackOf("SrvLoginReply", n)[k] = LoginResult[k]
         /\ \A j \in 0..(n - 1), k \in 1..3 : PackOf("SrvLoginReply", n)[(3 + j * 3) + k] = OneServer[k]
<1> DEFINE pack == PackOf("SrvLoginReply", n)
           A == LoginResult
           B == OneServer
           C == Repeat(n, B)
           S == Names \X ReadKinds
<1>1. pack = A \o C
  BY DEF PackOf, SrvLoginReplyPack
<1>2. A \in Seq(S) /\ Len(A) = 3 /\ B \in Seq(S) /\ Len(B) = 3
  BY LoginTypes DEF ReadFields
<1>3. C = [i \in 1..(n * 3) |-> B[((i - 1) % 3) + 1]]
  BY <1>2 DEF Repeat
<1> HIDE DEF A, B, C, S, pack
<1>4. n * 3 \in Nat
  OBVIOUS
<1>5. \A i \in 1..(n * 3) : ((i - 1) % 3) + 1 \in 1..3
  BY <1>4
<1>6. \A i \in 1..(n * 3) : B[((i - 1) % 3) + 1] \in S
  <2>1. \A k \in 1..Len(B) : B[k] \in S
    BY <1>2, ElementOfSeq
  <2>2. \A k \in 1..3 : B[k] \in S
    BY <1>2, <2>1
  <2> QED BY <1>5, <2>2
<1>7. C \in Seq(S) /\ Len(C) = n * 3
  BY <1>3, <1>4, <1>6
<1> DEFINE D == A \o C
<1>a. /\ Len(D) = Len(A) + Len(C)
      /\ \A i \in 1..(Len(A) + Len(C)) : D[i] = IF i <= Len(A) THEN A[i] ELSE C[i - Len(A)]
  BY <1>2, <1>7, ConcatProperties
<1> HIDE DEF D
<1>8. Len(D) = 3 + n * 3
  BY <1>2, <1>7, <1>a
<1>9. \A k \in 1..3 : D[k] = A[k]
  <2>1. \A k \in 1..3 : k \in 1..(3 + n * 3) /\ k <= 3
    BY <1>4
  <2> QED BY <1>2, <1>7, <1>a, <2>1
<1>10. ASSUME NEW j \in 0..(n - 1), NEW k \in 1..3 PROVE D[(3 + j * 3) + k] = B[k]
  <2> DEFINE i == j * 3 + k
  <2>1. i \in 1..(n * 3) /\ (i - 1) % 3 = k - 1 /\ (3 + j * 3) + k = 3 + i
    OBVIOUS
  <2>2. C[i] = B[k]
    <3>1. ((i - 1) % 3) + 1 = k
      BY <2>1
    <3> HIDE DEF i
    <3> QED BY <1>3, <2>1, <3>1
  <2> HIDE DEF i
  <2>3. 3 + i \in 1..(3 + n * 3) /\ ~(3 + i <= 3) /\ (3 + i) - 3 = i
    BY <1>4, <2>1
  <2>4. D[3 + i] = C[i]
    BY <1>2, <1>7, <1>a, <2>3
  <2> QED BY <2>1, <2>2, <2>4
<1> QED BY <1>1, <1>8, <1>9, <1>10 DEF pack, A, B, C, D

(* R[j] is the reader after j servers. *)
Rounds(R, r, bs, fill) ==
  /\ R \in [0..MaxPacketSize -> Reads] /\ R[0] = r
  /\ \A j \in 1..MaxPacketSize : R[j] = ReadAll(R[j - 1], bs, fill, OneServer)
More(R, bs, fill, j) == Byte(bs, fill, R[j].at + 1) # NUL
Stop(R, bs, fill) ==
  CHOOSE j \in 0..MaxPacketSize : ~More(R, bs, fill, j) /\ \A i \in 0..(j - 1) : More(R, bs, fill, i)

\* The servers can be read one by one.
LEMMA RoundsExist ==
  ASSUME MaxPacketSize \in Nat, NEW bs \in Bufs, NEW fill \in Fills, NEW r \in Reads
  PROVE  \E R : Rounds(R, r, bs, fill)
<1> DEFINE L == MaxPacketSize
           D == [x \in (1..L) \X Reads |-> ReadAll(x[2], bs, fill, OneServer)]
<1>1. ASSUME NEW x \in (1..L) \X Reads PROVE ReadAll(x[2], bs, fill, OneServer) \in Reads
  <2>1. x[2] \in Reads /\ OneServer \in ReadFields
    BY <1>1, LoginTypes
  <2> QED BY <2>1, AllOnward DEF Onward
<1>2. D \in [(1..L) \X Reads -> Reads]
  BY <1>1
<1>3. \A k \in 1..L, c \in Reads : D[<<k, c>>] = ReadAll(c, bs, fill, OneServer)
  OBVIOUS
<1> HIDE DEF D
<1>4. \E R : Steps(R, L, Reads, r, D)
  BY <1>2, Stepwise
<1>5. PICK R \in [0..L -> Reads] : R[0] = r /\ \A k \in 1..L : R[k] = D[<<k, R[k - 1]>>]
  BY <1>4 DEF Steps
<1>6. ASSUME NEW k \in 1..L PROVE R[k] = ReadAll(R[k - 1], bs, fill, OneServer)
  <2>1. k - 1 \in 0..L
    OBVIOUS
  <2>2. R[k - 1] \in Reads
    BY <2>1, <1>5
  <2> QED BY <1>3, <1>5, <2>1, <2>2
<1> QED BY <1>5, <1>6 DEF Rounds

\* Servers ends at the round it stops at.
LEMMA ServersIsRounds ==
  ASSUME MaxPacketSize \in Nat, NEW bs, NEW fill, NEW r, NEW R, Rounds(R, r, bs, fill)
  PROVE  Servers(r, bs, fill) = R[Stop(R, bs, fill)]
<1> DEFINE L == MaxPacketSize
           G(f) == [j \in 0..L |-> IF j = 0 THEN r ELSE ReadAll(f[j - 1], bs, fill, OneServer)]
           c == CHOOSE f : f = G(f)
<1>1. Servers(r, bs, fill) = c[Stop(c, bs, fill)]
  BY DEF Servers, Stop, More
<1>2. \A j \in 0..L : j # 0 => j - 1 \in 0..L /\ j \in 1..L
  OBVIOUS
<1>3. \A j \in 0..L : R[j] = IF j = 0 THEN r ELSE ReadAll(R[j - 1], bs, fill, OneServer)
  BY <1>2 DEF Rounds
<1>4. R = [j \in 0..L |-> R[j]]
  BY DEF Rounds
<1>5. R = G(R)
  BY <1>3, <1>4
<1>6. c = G(c)
  BY <1>5
<1>7. /\ \A j \in 0..L : c[j] = IF j = 0 THEN r ELSE ReadAll(c[j - 1], bs, fill, OneServer)
      /\ c = [j \in 0..L |-> c[j]]
  <2> HIDE DEF c
  <2> QED BY <1>6
<1> HIDE DEF c
<1> DEFINE T == {j \in 0..L : c[j] = R[j]}
<1>8. 0 \in T
  <2>1. 0 \in 0..L
    OBVIOUS
  <2>2. c[0] = r
    BY <1>7, <2>1
  <2>3. R[0] = r
    BY <1>3, <2>1
  <2> QED BY <2>1, <2>2, <2>3
<1>9. ASSUME NEW j \in 1..L, j - 1 \in T PROVE j \in T
  <2>1. j \in 0..L /\ j # 0
    OBVIOUS
  <2>2. c[j - 1] = R[j - 1]
    BY <1>9
  <2>3. c[j] = R[j]
    BY <1>3, <1>7, <2>1, <2>2
  <2> QED BY <2>1, <2>3
<1> HIDE DEF T
<1>10. \A j \in 0..L : j \in T
  BY <1>8, <1>9, UpTo
<1>11. \A j \in 0..L : c[j] = R[j]
  BY <1>10 DEF T
<1>12. c = R
  BY <1>4, <1>7, <1>11
<1> QED BY <1>1, <1>12

\* Every further server takes the reader onward.
LEMMA RoundsOnward ==
  ASSUME MaxPacketSize \in Nat, NEW bs \in Bufs, NEW fill \in Fills, NEW r \in Reads,
         NEW R, Rounds(R, r, bs, fill), NEW a \in 0..MaxPacketSize
  PROVE  \A j \in a..MaxPacketSize : Onward(R[a], R[j])
<1> DEFINE L == MaxPacketSize - a
           T == {m \in 0..L : Onward(R[a], R[a + m])}
<1>0. L \in Nat /\ a \in Nat /\ a + 0 = a
  OBVIOUS
<1>a. R[a] \in Reads
  BY DEF Rounds
<1>1. 0 \in T
  BY <1>0, <1>a, OnwardSame
<1>2. ASSUME NEW m \in 1..L, m - 1 \in T PROVE m \in T
  <2> DEFINE k == a + m
  <2>1. k \in 1..MaxPacketSize /\ k - 1 \in 0..MaxPacketSize /\ k - 1 = a + (m - 1)
    BY <1>0
  <2>2. Onward(R[a], R[k - 1])
    BY <1>2, <2>1
  <2> HIDE DEF k
  <2>3. R[k - 1] \in Reads /\ R[k] = ReadAll(R[k - 1], bs, fill, OneServer)
    BY <2>1 DEF Rounds
  <2>4. Onward(R[k - 1], R[k])
    <3>1. OneServer \in ReadFields
      BY LoginTypes
    <3>2. Onward(R[k - 1], ReadAll(R[k - 1], bs, fill, OneServer))
      BY <2>3, <3>1, AllOnward
    <3> QED BY <2>3, <3>2
  <2>5. Onward(R[a], R[k])
    BY <1>a, <2>2, <2>4, OnwardTransitive
  <2> QED BY <2>5 DEF k
<1> HIDE DEF T
<1>3. \A m \in 0..L : m \in T
  BY <1>0, <1>1, <1>2, UpTo
<1>4. ASSUME NEW j \in a..MaxPacketSize PROVE Onward(R[a], R[j])
  <2>1. j - a \in 0..L /\ a + (j - a) = j
    BY <1>0
  <2> QED BY <1>3, <2>1 DEF T
<1> QED BY <1>4

(* A round that finds a byte in front of it moves on. *)
LEMMA RoundMoves ==
  ASSUME MaxPacketSize \in Nat, NEW bs \in Bufs, NEW fill \in Fills, NEW s \in Reads,
         Byte(bs, fill, s.at + 1) # NUL
  PROVE  ReadAll(s, bs, fill, OneServer).at >= s.at + 1
<1>0. s.at \in Nat /\ s.at + 1 \in Nat \ {0}
  BY DEF Reads, Ats
<1>1. OneServer \in ReadFields /\ Len(OneServer) = 3 /\ OneServer[1] = <<"pad", U8>>
  BY LoginTypes
<1>2. PICK R : ReadWalk(R, s, bs, fill, OneServer)
  BY <1>1, ReadWalkExists
<1>3. ReadAll(s, bs, fill, OneServer) = R[3]
  <2> DEFINE layout == OneServer
  <2>1. layout \in ReadFields /\ ReadWalk(R, s, bs, fill, layout)
    BY <1>1, <1>2
  <2>2. Len(layout) = 3
    BY <1>1
  <2> HIDE DEF layout
  <2>3. ReadAll(s, bs, fill, layout) = R[Len(layout)]
    BY <2>1, ReadAllIsWalk
  <2> QED BY <2>2, <2>3 DEF layout
<1>4. R[1] = ReadField(s, bs, fill, <<"pad", U8>>) /\ R[1] \in Reads /\ R[3] \in Reads
  <2>1. 1 \in 1..3 /\ 1 - 1 = 0 /\ 1 \in 0..3 /\ 3 \in 0..3
    OBVIOUS
  <2> QED BY <1>1, <1>2, <2>1 DEF ReadWalk
<1>5. ~(s.at + 1 >= MaxPacketSize)
  BY <1>0, ByteFacts DEF NUL
<1>6. Read(bs, fill, s.at, U8).at = s.at + 1
  <2>1. Read(bs, fill, s.at, U8) = ReadInt(bs, fill, s.at, 1)
    BY LoginKinds DEF Read
  <2> QED BY <1>5, <2>1 DEF ReadInt
<1>7. R[1].at = s.at + 1
  BY <1>4, <1>6 DEF ReadField
<1>8. Onward(R[1], R[3])
  <2>1. 1 \in 0..Len(OneServer) /\ 3 \in 1..Len(OneServer)
    BY <1>1
  <2>2. \A k \in 1..Len(OneServer) : Onward(R[1], R[k])
    BY <1>1, <1>2, <2>1, WalkOnward
  <2> QED BY <2>1, <2>2
<1>9. R[1].at <= R[3].at /\ R[3].at \in Nat
  BY <1>4, <1>8 DEF Onward, Reads, Ats
<1> QED BY <1>0, <1>3, <1>7, <1>9

(* The reader stops in the end: every server takes it on. *)
LEMMA StopFacts ==
  ASSUME MaxPacketSize \in Nat, NEW bs \in Bufs, NEW fill \in Fills, NEW r \in Reads,
         NEW R, Rounds(R, r, bs, fill)
  PROVE  Stop(R, bs, fill) \in 0..MaxPacketSize /\ ~More(R, bs, fill, Stop(R, bs, fill))
<1> DEFINE L == MaxPacketSize
           Z == {j \in 0..L : ~More(R, bs, fill, j)}
<1>1. Z # {}
  <2> SUFFICES ASSUME \A j \in 0..L : More(R, bs, fill, j) PROVE FALSE
    OBVIOUS
  <2> DEFINE T == {j \in 0..L : R[j].at >= j}
  <2>1. \A j \in 0..L : R[j] \in Reads /\ R[j].at \in Nat /\ R[j].at < L
    <3>1. \A j \in 0..L : R[j] \in Reads
      BY DEF Rounds
    <3>2. \A s \in Reads : s.at \in Nat /\ s.at < L
      BY DEF Reads, Ats
    <3> QED BY <3>1, <3>2
  <2>2. 0 \in T
    BY <2>1
  <2>3. ASSUME NEW j \in 1..L, j - 1 \in T PROVE j \in T
    <3>1. j \in 0..L /\ j - 1 \in 0..L
      OBVIOUS
    <3>2. R[j] = ReadAll(R[j - 1], bs, fill, OneServer)
      BY DEF Rounds
    <3>3. Byte(bs, fill, R[j - 1].at + 1) # NUL
      BY <3>1 DEF More
    <3>4. ReadAll(R[j - 1], bs, fill, OneServer).at >= R[j - 1].at + 1
      BY <2>1, <3>1, <3>3, RoundMoves
    <3>5. R[j].at >= R[j - 1].at + 1 /\ R[j - 1].at >= j - 1
      BY <2>3, <3>2, <3>4
    <3>6. R[j].at >= j
      BY <2>1, <3>1, <3>5
    <3> QED BY <3>1, <3>6
  <2> HIDE DEF T
  <2>4. \A j \in 0..L : j \in T
    BY <2>2, <2>3, UpTo
  <2>5. L \in 0..L /\ R[L].at >= L
    BY <2>4 DEF T
  <2> QED BY <2>1, <2>5
<1>2. Z \subseteq Nat
  OBVIOUS
<1>3. PICK x \in Z : \A y \in Z : x <= y
  BY <1>1, <1>2, Least
<1>4. x \in 0..L /\ ~More(R, bs, fill, x)
  OBVIOUS
<1>5. ASSUME NEW i \in 0..(x - 1) PROVE More(R, bs, fill, i)
  <2>1. i \in 0..L /\ ~(x <= i)
    BY <1>4
  <2>2. i \notin Z
    BY <1>3, <2>1
  <2> QED BY <2>1, <2>2
<1>6. \E j \in 0..MaxPacketSize : ~More(R, bs, fill, j) /\ \A i \in 0..(j - 1) : More(R, bs, fill, i)
  BY <1>4, <1>5
<1> QED BY <1>6 DEF Stop

\* A reader of a login reply gets all its servers, perhaps followed by others.
LEMMA LoginBack ==
  ASSUME MaxPacketSize \in Nat, NEW n \in 0..255, NEW len \in Nat, NEW bs \in Bufs, NEW fill \in Fills,
         PackOf("SrvLoginReply", n) \in Fields,
         LaidTo(bs, PackOf("SrvLoginReply", n), n, len, Len(PackOf("SrvLoginReply", n)))
  PROVE  /\ Begins(MeantTo(PackOf("SrvLoginReply", n), n, len, Len(PackOf("SrvLoginReply", n))),
                   ReadPacket("SrvLoginReply", bs, fill, FALSE))
         /\ ReadPacket("SrvLoginReply", bs, fill, FALSE) \in Seq(Names \X Seq(Nat))
<1> DEFINE pack == PackOf("SrvLoginReply", n)
           A == LoginResult
           B == OneServer
           r == AtField(pack, n, len, 3)
<1>0. n \in Nat
  OBVIOUS
<1>1. /\ Len(pack) = 3 + n * 3
      /\ \A k \in 1..3 : pack[k] = A[k]
      /\ \A j \in 0..(n - 1), k \in 1..3 : pack[(3 + j * 3) + k] = B[k]
  BY <1>0, LoginPack
<1>2. pack \in Fields /\ LaidTo(bs, pack, n, len, Len(pack))
  OBVIOUS
<1>3. /\ A \in ReadFields /\ Len(A) = 3 /\ B \in ReadFields /\ Len(B) = 3 /\ B[1] = <<"pad", U8>>
      /\ \A k \in 1..3 : A[k] = <<A[k][1], ReaderOf(A[k][2], len)>> /\ B[k] = <<B[k][1], ReaderOf(B[k][2], len)>>
  BY LoginTypes
<1> HIDE DEF pack, A, B
<1>4. Matches(A, pack, len, 0)
  <2>1. ASSUME NEW i \in 1..3 PROVE 0 + i \in 1..Len(pack) /\ A[i] = <<pack[0 + i][1], ReaderOf(pack[0 + i][2], len)>>
    <3>1. 0 + i = i /\ i \in 1..Len(pack)
      BY <1>1
    <3> QED BY <1>1, <1>3, <3>1
  <2> QED BY <1>3, <2>1 DEF Matches
<1>5. \A j \in 0..(n - 1) : Matches(B, pack, len, 3 + j * 3)
  <2> TAKE j \in 0..(n - 1)
  <2>1. ASSUME NEW i \in 1..3
        PROVE  (3 + j * 3) + i \in 1..Len(pack)
               /\ B[i] = <<pack[(3 + j * 3) + i][1], ReaderOf(pack[(3 + j * 3) + i][2], len)>>
    <3>1. (3 + j * 3) + i \in 1..Len(pack)
      BY <1>1
    <3>2. pack[(3 + j * 3) + i] = B[i]
      BY <1>1
    <3> QED BY <1>3, <3>1, <3>2
  <2> QED BY <1>3, <2>1 DEF Matches
<1>6. ReadAll(AtPayload, bs, fill, A) = r
  <2>1. AtPayload = AtField(pack, n, len, 0)
    BY <1>2, PayloadIsStart
  <2>2. 0 \in 0..Len(pack) /\ 0 + Len(A) = 3
    BY <1>1, <1>3
  <2>3. ReadAll(AtField(pack, n, len, 0), bs, fill, A) = AtField(pack, n, len, 0 + Len(A))
    <3> DEFINE o == 0
    <3>1. o \in 0..Len(pack) /\ Matches(A, pack, len, o)
      BY <1>4, <2>2
    <3> HIDE DEF o
    <3>2. ReadAll(AtField(pack, n, len, o), bs, fill, A) = AtField(pack, n, len, o + Len(A))
      BY <1>2, <1>3, <3>1, AllBack, ZenonT(40)
    <3> QED BY <3>2 DEF o
  <2> QED BY <2>1, <2>2, <2>3
<1>7. ReadPacket("SrvLoginReply", bs, fill, FALSE) = Servers(r, bs, fill).got
  <2>1. "SrvLoginReply" \notin DOMAIN SizeAt
    BY SizeAtDomain
  <2>2. ReadPacket("SrvLoginReply", bs, fill, FALSE) = SrvLoginReplyRead(bs, fill, FALSE).got
    BY <2>1 DEF ReadPacket
  <2> QED BY <1>6, <2>2 DEF SrvLoginReplyRead, A
<1>8. r \in Reads
  <2>1. 3 \in 0..Len(pack)
    BY <1>1
  <2> QED BY <1>2, <2>1, MeantType
<1> HIDE DEF r
<1>9. PICK R : Rounds(R, r, bs, fill)
  BY <1>8, RoundsExist
<1>10. Servers(r, bs, fill) = R[Stop(R, bs, fill)]
  BY <1>9, ServersIsRounds
(* As long as servers are left, the next byte is a pad, and a round reads one. *)
<1>11. ASSUME NEW j \in 0..(n - 1) PROVE Byte(bs, fill, AtField(pack, n, len, 3 + j * 3).at + 1) # NUL
  <2> DEFINE k == (3 + j * 3) + 1
             o == Off(pack, len, k - 1)
  <2>1. k \in 1..Len(pack) /\ k - 1 = 3 + j * 3 /\ k - 1 \in 0..Len(pack) /\ k \in 0..Len(pack) /\ k \in Nat
        /\ Len(pack) \in 0..Len(pack)
    BY <1>1
  <2>2. pack[k] = <<"pad", U8>>
    BY <1>1, <1>3
  <2>3. AtField(pack, n, len, 3 + j * 3).at = o
    BY <2>1 DEF AtField
  <2> HIDE DEF k
  <2>4. Width(pack, len, k) = 1 /\ Wired(k, pack[k][2], n, len) = CharsOf(k, 1)
    BY <2>2, LoginKinds DEF Width, WidthOf, Wired
  <2>5. Off(pack, len, k) = o + 1
    BY <1>2, <2>1, <2>4, OffSteps
  <2>6. o \in Nat /\ Off(pack, len, k) <= Off(pack, len, Len(pack)) /\ Off(pack, len, Len(pack)) \in Nat
    BY <1>2, <2>1, OffGrows, SpanFinite
  <2>7. Off(pack, len, Len(pack)) <= Len(bs) /\ Lies(bs, pack, n, len, k)
    BY <1>2, <2>1 DEF LaidTo
  <2>8. bs[o + 1] = CharsOf(k, 1)[1]
    <3>1. 1 \in 1..1
      OBVIOUS
    <3> QED BY <2>4, <2>7, <3>1 DEF Lies
  <2> HIDE DEF o
  <2>9. o + 1 <= Len(bs) /\ o + 1 \in Nat \ {0}
    <3>1. Len(bs) \in Nat
      BY DEF Bufs
    <3> QED BY <2>5, <2>6, <2>7, <3>1
  <2>10. Byte(bs, fill, o + 1) = bs[o + 1]
    BY <2>9, ByteFacts
  <2>11. CharsOf(k, 1)[1] # 0
    <3>1. \A i \in 1..1 : CharsOf(k, 1)[i] = Tag(k, i) /\ Tag(k, i) \in Nat \ {0}
      BY <2>1, CharsType
    <3>2. 1 \in 1..1
      OBVIOUS
    <3> QED BY <3>1, <3>2
  <2> QED BY <2>3, <2>8, <2>10, <2>11 DEF NUL
<1> DEFINE L == IF n <= MaxPacketSize THEN n ELSE MaxPacketSize
           T == {j \in 0..L : R[j] = AtField(pack, n, len, 3 + j * 3)}
<1>12. L \in Nat /\ L <= n /\ L <= MaxPacketSize
  OBVIOUS
<1> HIDE DEF L
<1>13. \A j \in 0..L : R[j] = AtField(pack, n, len, 3 + j * 3)
  <2>1. 0 \in T
    <3>1. 3 + 0 * 3 = 3 /\ 0 \in 0..L
      BY <1>12
    <3> QED BY <1>9, <3>1 DEF Rounds, r
  <2>2. ASSUME NEW j \in 1..L, j - 1 \in T PROVE j \in T
    <3> DEFINE o == 3 + (j - 1) * 3
    <3>1. j \in 0..L /\ j \in 1..MaxPacketSize /\ j - 1 \in 0..(n - 1) /\ o + 3 = 3 + j * 3 /\ o \in 0..Len(pack)
      BY <1>1, <1>12
    <3>2. R[j] = ReadAll(R[j - 1], bs, fill, B)
      BY <1>9, <3>1 DEF Rounds, B
    <3>3. R[j - 1] = AtField(pack, n, len, o)
      BY <2>2
    <3>4. Matches(B, pack, len, o)
      BY <1>5, <3>1
    <3> HIDE DEF o
    <3>5. ReadAll(AtField(pack, n, len, o), bs, fill, B) = AtField(pack, n, len, o + Len(B))
      BY <1>2, <1>3, <3>1, <3>4, AllBack, ZenonT(40)
    <3>6. R[j] = AtField(pack, n, len, 3 + j * 3)
      BY <1>3, <3>1, <3>2, <3>3, <3>5
    <3> QED BY <3>1, <3>6
  <2> HIDE DEF T
  <2>3. \A j \in 0..L : j \in T
    BY <1>12, <2>1, <2>2, UpTo
  <2> QED BY <2>3 DEF T
<1> DEFINE s == Stop(R, bs, fill)
<1>14. s \in 0..MaxPacketSize /\ ~More(R, bs, fill, s)
  BY <1>8, <1>9, StopFacts
<1> HIDE DEF s
<1>15. n <= s
  <2> SUFFICES ASSUME s < n PROVE FALSE
    BY <1>14
  <2>1. s \in 0..L /\ s \in 0..(n - 1)
    BY <1>14 DEF L
  <2>2. Byte(bs, fill, R[s].at + 1) # NUL
    BY <1>11, <1>13, <2>1
  <2> QED BY <1>14, <2>2 DEF More
<1>16. R[n] = AtField(pack, n, len, Len(pack))
  <2>1. L = n /\ n \in 0..L
    BY <1>14, <1>15 DEF L
  <2> QED BY <1>1, <1>13, <2>1
<1>17. Onward(R[n], R[s])
  <2>1. n \in 0..MaxPacketSize /\ s \in n..MaxPacketSize
    BY <1>14, <1>15
  <2>2. \A j \in n..MaxPacketSize : Onward(R[n], R[j])
    BY <1>8, <1>9, <2>1, RoundsOnward
  <2> QED BY <2>1, <2>2
<1>18. Begins(MeantTo(pack, n, len, Len(pack)), R[s].got)
  <2>1. R[n].got = MeantTo(pack, n, len, Len(pack))
    BY <1>16 DEF AtField
  <2> QED BY <1>17, <2>1 DEF Onward
<1>19. R[s].got \in Seq(Names \X Seq(Nat))
  BY <1>17 DEF Onward, Reads
<1> QED BY <1>7, <1>10, <1>18, <1>19 DEF pack, s

\* A reader of a refusal gets its three fields, and looks for no server behind them.
LEMMA RefusalBack ==
  ASSUME MaxPacketSize \in Nat, NEW len \in Nat, NEW bs \in Bufs, NEW fill \in Fills,
         PackOf("SrvLoginReply", 0) \in Fields,
         LaidTo(bs, PackOf("SrvLoginReply", 0), 0, len, Len(PackOf("SrvLoginReply", 0)))
  PROVE  ReadPacket("SrvLoginReply", bs, fill, TRUE)
           = MeantTo(PackOf("SrvLoginReply", 0), 0, len, Len(PackOf("SrvLoginReply", 0)))
<1> DEFINE n == 0
           pack == PackOf("SrvLoginReply", n)
           A == LoginResult
<1>1. Len(pack) = 3 /\ \A k \in 1..3 : pack[k] = A[k]
  <2>1. n \in Nat /\ 3 + n * 3 = 3
    OBVIOUS
  <2> HIDE DEF n, A
  <2> QED BY <2>1, LoginPack DEF A
<1>2. pack \in Fields /\ LaidTo(bs, pack, n, len, Len(pack)) /\ n \in 0..255
  OBVIOUS
<1>3. A \in ReadFields /\ Len(A) = 3 /\ \A k \in 1..3 : A[k] = <<A[k][1], ReaderOf(A[k][2], len)>>
  BY LoginTypes
<1> HIDE DEF n, pack, A
<1>4. Agree(A, pack, len)
  <2>1. DOMAIN A = 1..3
    BY <1>3 DEF ReadFields
  <2>2. ASSUME NEW k \in 1..3 PROVE A[k][1] = pack[k][1] /\ A[k][2] = ReaderOf(pack[k][2], len)
    <3>1. A[k] = <<A[k][1], ReaderOf(A[k][2], len)>> /\ pack[k] = A[k]
      BY <1>1, <1>3
    <3>2. A[k][2] = ReaderOf(A[k][2], len)
      BY <3>1
    <3> QED BY <3>1, <3>2
  <2> QED BY <1>1, <1>3, <2>1, <2>2 DEF Agree, ReaderOf
<1>5. ReadAll(AtPayload, bs, fill, A).got = MeantTo(pack, n, len, Len(A))
  BY <1>2, <1>3, <1>4, FromPayload, ZenonT(40)
<1>6. ReadPacket("SrvLoginReply", bs, fill, TRUE) = ReadAll(AtPayload, bs, fill, A).got
  <2>1. "SrvLoginReply" \notin DOMAIN SizeAt
    BY SizeAtDomain
  <2>2. ReadPacket("SrvLoginReply", bs, fill, TRUE) = SrvLoginReplyRead(bs, fill, TRUE).got
    BY <2>1 DEF ReadPacket
  <2> QED BY <2>2 DEF SrvLoginReplyRead, A
<1>7. Len(A) = Len(pack)
  BY <1>1, <1>3
<1> QED BY <1>5, <1>6, <1>7 DEF n, pack

-----------------------------------------------------------------------------
(* The exchange. *)
Made == [class : Sent, n : Counts, len : Lens, refused : BOOLEAN, buf : Bufs]
Whole(bs, p) == LaidTo(bs, PackOf(p.class, p.n), p.n, p.len, Len(PackOf(p.class, p.n)))
SizeOf(p) == Off(PackOf(p.class, p.n), p.len, Len(PackOf(p.class, p.n)))

Exchanged ==
  /\ pkt \in Made /\ Sound(pkt.class, pkt.n, pkt.len) /\ 6 <= Len(pkt.buf)
  /\ pkt.refused => pkt.class = "SrvLoginReply" /\ pkt.n = 0
  /\ copies \in Seq(Bufs)
  /\ copies = <<>> => Len(pkt.buf) = 6
  /\ copies # <<>> => Whole(pkt.buf, pkt) /\ Len(copies[1]) = SizeOf(pkt)
  /\ \A i \in 1..Len(copies) : Whole(copies[i], pkt)
  /\ RoundTrip
ExchangeInv ==
  \/ pkt = NoPacket /\ copies = <<>> /\ got = NoRead
  \/ Exchanged

\* Meant is what the sender meant by all fields of the layout.
LEMMA MeantIs ==
  ASSUME PackOf(pkt.class, pkt.n) \in Fields
  PROVE  Meant = MeantTo(PackOf(pkt.class, pkt.n), pkt.n, pkt.len, Len(PackOf(pkt.class, pkt.n)))
<1> DEFINE pack == PackOf(pkt.class, pkt.n)
<1>1. DOMAIN pack = 1..Len(pack)
  BY DEF Fields
<1>2. Meant = [k \in DOMAIN pack |-> <<pack[k][1], ValueOf(k, pack[k][2], pkt.n, pkt.len)>>]
  BY DEF Meant, ValueOf
<1> HIDE DEF pack
<1>3. Meant = [k \in 1..Len(pack) |-> <<pack[k][1], ValueOf(k, pack[k][2], pkt.n, pkt.len)>>]
  BY <1>1, <1>2
<1> QED BY <1>3 DEF MeantTo, pack

\* A beginning is a prefix.
LEMMA BeginsIsPrefix ==
  ASSUME NEW S, NEW s \in Seq(S), NEW t \in Seq(S), Begins(s, t)
  PROVE  IsPrefix(s, t)
<1>1. Len(s) \in Nat /\ Len(t) \in Nat /\ Len(s) <= Len(t) /\ \A i \in 1..Len(s) : t[i] = s[i]
  BY DEF Begins
<1>2. SubSeq(s, 1, Len(s)) = SubSeq(t, 1, Len(s))
  <2>1. SubSeq(s, 1, Len(s)) = [i \in 1..Len(s) |-> s[i]]
    BY <1>1
  <2>2. SubSeq(t, 1, Len(s)) = [i \in 1..Len(s) |-> t[i]]
    BY <1>1
  <2> QED BY <1>1, <2>1, <2>2
<1> QED BY <1>1, <1>2 DEF IsPrefix

\* Before the packet is made.
LEMMA ExchangeStarts == ExchangeInit => ExchangeInv
BY DEF ExchangeInit, ExchangeInv

\* The constructor: a header, and no copy yet.
LEMMA ExchangeMake ==
  ASSUME MaxPacketSize \in Nat, MaxPacketSize > 6, LayoutsAgree, ExchangeInv,
         NEW c \in Sent, NEW len \in Lens, NEW n \in Counts, NEW refused \in BOOLEAN,
         c \in Lists \/ n = 0, Make(c, n, len, refused)
  PROVE  ExchangeInv'
<1>1. WriteHeader \in Bufs /\ Len(WriteHeader) = 6
  <2>1. WriteHeader = [i \in 1..6 |-> i + 1]
    BY DEF WriteHeader, HeaderSize, Tag
  <2>2. [i \in 1..6 |-> i + 1] \in Seq(Nat) /\ Len([i \in 1..6 |-> i + 1]) = 6
    OBVIOUS
  <2> QED BY <2>1, <2>2 DEF Bufs
<1>2. pkt = NoPacket /\ (refused => c = "SrvLoginReply" /\ n = 0)
      /\ pkt' = [class |-> c, n |-> n, len |-> len, refused |-> refused, buf |-> WriteHeader]
      /\ copies' = copies /\ got' = got
  BY DEF Make
<1>3. copies = <<>> /\ got = NoRead
  <2>1. ASSUME Exchanged PROVE FALSE
    <3>1. NoPacket.buf = <<>> /\ 6 <= Len(pkt.buf)
      BY <2>1 DEF NoPacket, Exchanged
    <3>2. 6 <= 0
      BY <1>2, <3>1
    <3> QED BY <3>2
  <2> QED BY <2>1 DEF ExchangeInv
<1>4. pkt' \in Made /\ Sound(pkt'.class, pkt'.n, pkt'.len) /\ pkt'.buf = WriteHeader
      /\ (pkt'.refused => pkt'.class = "SrvLoginReply" /\ pkt'.n = 0)
  BY <1>1, <1>2 DEF Made, Sound
<1>5. copies' \in Seq(Bufs) /\ copies' = <<>> /\ 1..Len(copies') = {}
  BY <1>2, <1>3
<1>6. RoundTrip'
  BY <1>2, <1>3 DEF RoundTrip
<1>7. Exchanged'
  <2>1. (Sound(pkt.class, pkt.n, pkt.len))' /\ (6 <= Len(pkt.buf))' /\ (Len(pkt.buf) = 6)'
    <3>1. Len(pkt'.buf) = 6 /\ 6 <= 6
      BY <1>1, <1>4
    <3>2. 6 <= Len(pkt'.buf)
      BY <3>1
    <3> QED BY <1>4, <3>1, <3>2 DEF Sound
  <2>2. (\A i \in 1..Len(copies) : Whole(copies[i], pkt))'
    BY <1>5
  <2> QED BY <1>4, <1>5, <1>6, <2>1, <2>2 DEF Exchanged
<1> QED BY <1>7 DEF ExchangeInv

\* getPacked: the first call lays the payload, a later one keeps it.
LEMMA ExchangePack ==
  ASSUME MaxPacketSize \in Nat, LayoutsAgree, ExchangeInv, getPacked
  PROVE  ExchangeInv'
<1> DEFINE c == pkt.class
           n == pkt.n
           len == pkt.len
           pack == PackOf(c, n)
           buf == WriteAll(pkt.buf, pack, n, len)
<1>1. pkt # NoPacket /\ pkt' = [pkt EXCEPT !.buf = buf] /\ copies' = Append(copies, buf) /\ got' = got
  BY DEF getPacked
<1>2. Exchanged
  BY <1>1 DEF ExchangeInv
<1>3. pkt \in Made /\ Sound(c, n, len) /\ 6 <= Len(pkt.buf) /\ copies \in Seq(Bufs) /\ pkt.buf \in Bufs
      /\ (pkt.refused => pkt.class = "SrvLoginReply" /\ pkt.n = 0)
      /\ (copies = <<>> => Len(pkt.buf) = 6)
      /\ (copies # <<>> => Whole(pkt.buf, pkt) /\ Len(copies[1]) = SizeOf(pkt))
      /\ (\A i \in 1..Len(copies) : Whole(copies[i], pkt))
      /\ RoundTrip
  BY <1>2 DEF Exchanged, Made
<1>4. n \in 0..255 /\ n \in Nat /\ len \in Nat /\ pack \in Fields /\ Off(pack, len, Len(pack)) < MaxPacketSize
  <2>1. Sound(c, n, len)
    BY <1>3
  <2> HIDE DEF c, n, len
  <2>2. n \in 0..255 /\ len \in Nat /\ PackOf(c, n) \in Fields
        /\ Off(PackOf(c, n), len, Len(PackOf(c, n))) < MaxPacketSize
    BY <2>1, LayoutFacts
  <2> QED BY <2>2
<1>5. /\ buf \in Bufs /\ Begins(pkt.buf, buf)
      /\ (Len(pkt.buf) = 6 /\ Off(pack, len, Len(pack)) < MaxPacketSize) =>
           Len(buf) = Off(pack, len, Len(pack)) /\ LaidTo(buf, pack, n, len, Len(pack))
  <2> DEFINE b == pkt.buf
  <2>1. b \in Bufs
    BY <1>3
  <2> HIDE DEF b, n, len, pack
  <2>2. /\ WriteAll(b, pack, n, len) \in Bufs
        /\ Begins(b, WriteAll(b, pack, n, len))
        /\ (Len(b) = 6 /\ Off(pack, len, Len(pack)) < MaxPacketSize) =>
               /\ Len(WriteAll(b, pack, n, len)) = Off(pack, len, Len(pack))
               /\ LaidTo(WriteAll(b, pack, n, len), pack, n, len, Len(pack))
    BY <1>4, <2>1, PackFacts
  <2> QED BY <2>2 DEF b
<1> HIDE DEF buf
<1>6. pkt' \in Made /\ pkt'.class = c /\ pkt'.n = n /\ pkt'.len = len /\ pkt'.buf = buf
      /\ pkt'.refused = pkt.refused
  BY <1>1, <1>3, <1>5 DEF Made
<1>7. (\A bs : Whole(bs, pkt)' <=> LaidTo(bs, pack, n, len, Len(pack)))
      /\ (\A bs : Whole(bs, pkt) <=> LaidTo(bs, pack, n, len, Len(pack)))
      /\ SizeOf(pkt)' = Off(pack, len, Len(pack)) /\ SizeOf(pkt) = Off(pack, len, Len(pack))
  BY <1>6 DEF Whole, SizeOf
<1>8. LaidTo(buf, pack, n, len, Len(pack))
  <2>1. CASE copies = <<>>
    BY <1>3, <1>4, <1>5, <2>1
  <2>2. CASE copies # <<>>
    <3>1. LaidTo(pkt.buf, pack, n, len, Len(pack)) /\ pkt.buf \in Bufs /\ buf \in Bufs /\ Begins(pkt.buf, buf)
      BY <1>3, <1>5, <1>7, <2>2
    <3>2. Len(pack) \in 0..Len(pack)
      BY <1>4 DEF Fields
    <3> HIDE DEF pack, n, len
    <3> QED BY <1>4, <3>1, <3>2, LaidStays
  <2> QED BY <2>1, <2>2
<1>9. 6 <= Len(buf)
  <2>1. Len(pkt.buf) <= Len(buf) /\ Len(pkt.buf) \in Nat /\ Len(buf) \in Nat
    BY <1>3, <1>5 DEF Begins, Bufs
  <2> QED BY <1>3, <2>1
<1>10. /\ copies' \in Seq(Bufs) /\ copies' # <<>> /\ Len(copies') = Len(copies) + 1 /\ Len(copies) \in Nat
       /\ \A i \in 1..Len(copies) : copies'[i] = copies[i]
       /\ copies'[Len(copies) + 1] = buf
  BY <1>1, <1>3, <1>5, AppendProperties
<1>11. Len(copies'[1]) = Off(pack, len, Len(pack))
  <2>1. CASE copies = <<>>
    <3>1. Len(copies) + 1 = 1
      BY <2>1
    <3>2. copies'[1] = buf
      BY <1>10, <3>1
    <3> QED BY <1>3, <1>4, <1>5, <2>1, <3>2
  <2>2. CASE copies # <<>>
    <3>1. 1 \in 1..Len(copies)
      BY <1>3, <1>10, <2>2, EmptySeq
    <3> QED BY <1>3, <1>7, <1>10, <2>2, <3>1
  <2> QED BY <2>1, <2>2
<1>12. \A i \in 1..Len(copies') : LaidTo(copies'[i], pack, n, len, Len(pack))
  <2>1. \A i \in 1..Len(copies') : i = Len(copies) + 1 \/ i \in 1..Len(copies)
    BY <1>10
  <2>2. \A i \in 1..Len(copies) : LaidTo(copies[i], pack, n, len, Len(pack))
    BY <1>3, <1>7
  <2> QED BY <1>8, <1>10, <2>1, <2>2
<1>13. RoundTrip'
  <2>1. Meant' = Meant
    BY <1>6 DEF Meant
  <2> QED BY <1>1, <1>3, <1>6, <2>1 DEF RoundTrip
<1>14. Exchanged'
  <2>1. Sound(c, n, len)' /\ (6 <= Len(pkt.buf))' /\ Whole(pkt.buf, pkt)'
    BY <1>3, <1>6, <1>7, <1>8, <1>9 DEF Sound
  <2>2. \A i \in 1..Len(copies') : Whole(copies[i], pkt)'
    BY <1>6, <1>12 DEF Whole
  <2>3. Len(copies'[1]) = SizeOf(pkt)'
    BY <1>7, <1>11
  <2>4. Sound(pkt.class, pkt.n, pkt.len)'
    BY <1>3, <1>6 DEF Sound
  <2>5. (pkt.refused => pkt.class = "SrvLoginReply" /\ pkt.n = 0)'
    BY <1>3, <1>6
  <2> QED BY <1>6, <1>10, <1>13, <2>1, <2>2, <2>3, <2>4, <2>5 DEF Exchanged
<1> QED BY <1>14 DEF ExchangeInv

\* A receiver reads what was meant from any of the copies.
LEMMA ExchangeFetch ==
  ASSUME MaxPacketSize \in Nat, LayoutsAgree, ExchangeInv, NEW i \in 1..MaxSends,
         NEW fill \in {NUL, Junk}, fetchPacket(i, fill)
  PROVE  ExchangeInv'
<1> DEFINE n == pkt.n
           len == pkt.len
           pack == PackOf(pkt.class, n)
           refused == pkt.refused
<1>1. i \in DOMAIN copies /\ pkt' = pkt /\ copies' = copies
  BY DEF fetchPacket
<1>2. PICK c \in Known(pkt.class) :
        got' = [from |-> i, class |-> c, fields |-> ReadPacket(c, copies[i], fill, refused)]
  BY DEF fetchPacket
<1>3. Exchanged
  <2>1. copies # <<>>
    BY <1>1
  <2> QED BY <2>1 DEF ExchangeInv
<1>4. Sound(pkt.class, n, len) /\ copies \in Seq(Bufs) /\ (\A j \in 1..Len(copies) : Whole(copies[j], pkt))
      /\ refused \in BOOLEAN /\ (refused => pkt.class = "SrvLoginReply" /\ n = 0)
  BY <1>3 DEF Exchanged, Made
<1>5. n \in 0..255 /\ len \in Nat /\ pack \in Fields /\ Known(pkt.class) \subseteq {pkt.class}
  BY <1>4, LayoutFacts
<1>6. c = pkt.class
  BY <1>5
<1>7. fill \in Fills /\ copies[i] \in Bufs /\ LaidTo(copies[i], pack, n, len, Len(pack))
  <2>1. i \in 1..Len(copies)
    BY <1>1, <1>4
  <2> QED BY <1>4, <2>1 DEF Fills, Whole
<1>8. Meant = MeantTo(pack, n, len, Len(pack))
  BY <1>5, MeantIs
<1>9. ASSUME c \in Password => len = 32
      PROVE  IF c = "SrvLoginReply" /\ ~refused
               THEN IsPrefix(Meant, ReadPacket(c, copies[i], fill, refused))
               ELSE ReadPacket(c, copies[i], fill, refused) = Meant
  <2> DEFINE bs == copies[i]
  <2>0. bs \in Bufs /\ LaidTo(bs, pack, n, len, Len(pack))
    BY <1>7
  <2> HIDE DEF bs, n, len, refused
  <2>1. CASE c # "SrvLoginReply"
    <3>1. Readable(c, len)
      BY <1>2, <1>6, <1>9 DEF Readable
    <3>2. pack = PackOf(c, n) /\ Sound(c, n, len)
      BY <1>4, <1>6
    <3> HIDE DEF pack
    <3>3. LaidTo(bs, PackOf(c, n), n, len, Len(PackOf(c, n)))
      BY <2>0, <3>2
    <3>4. ReadPacket(c, bs, fill, refused) = MeantTo(PackOf(c, n), n, len, Len(PackOf(c, n)))
      BY <1>7, <2>0, <2>1, <3>1, <3>2, <3>3, PacketBack
    <3> QED BY <1>8, <2>1, <3>2, <3>4 DEF bs
  <2>2. CASE c = "SrvLoginReply" /\ ~refused
    <3>1. pack = PackOf("SrvLoginReply", n)
      BY <1>6, <2>2
    <3>2. PackOf("SrvLoginReply", n) \in Fields
          /\ LaidTo(bs, PackOf("SrvLoginReply", n), n, len, Len(PackOf("SrvLoginReply", n)))
      BY <1>5, <2>0, <3>1
    <3>3. /\ Begins(MeantTo(PackOf("SrvLoginReply", n), n, len, Len(PackOf("SrvLoginReply", n))),
                    ReadPacket("SrvLoginReply", bs, fill, FALSE))
          /\ ReadPacket("SrvLoginReply", bs, fill, FALSE) \in Seq(Names \X Seq(Nat))
      BY <1>5, <1>7, <2>0, <3>2, LoginBack
    <3> HIDE DEF pack
    <3>4. Begins(Meant, ReadPacket("SrvLoginReply", bs, fill, FALSE))
      BY <1>8, <3>1, <3>3
    <3>5. Meant \in Seq(Names \X Seq(Nat))
      <4>1. Len(pack) \in 0..Len(pack)
        BY <1>5 DEF Fields
      <4>2. AtField(pack, n, len, Len(pack)) \in Reads
        BY <1>5, <2>0, <4>1, MeantType
      <4> QED BY <1>8, <4>2 DEF AtField, Reads
    <3> DEFINE S == Names \X Seq(Nat)
    <3>6. Meant \in Seq(S) /\ ReadPacket("SrvLoginReply", bs, fill, FALSE) \in Seq(S)
      BY <3>3, <3>5
    <3> HIDE DEF S
    <3>7. IsPrefix(Meant, ReadPacket("SrvLoginReply", bs, fill, FALSE))
      BY <3>4, <3>6, BeginsIsPrefix
    <3>8. refused = FALSE
      BY <1>4, <2>2
    <3> QED BY <2>2, <3>7, <3>8 DEF bs
  <2>3. CASE c = "SrvLoginReply" /\ refused
    <3>1. n = 0 /\ refused = TRUE /\ pack = PackOf("SrvLoginReply", 0)
      BY <1>4, <1>6, <2>3
    <3>2. PackOf("SrvLoginReply", 0) \in Fields
          /\ LaidTo(bs, PackOf("SrvLoginReply", 0), 0, len, Len(PackOf("SrvLoginReply", 0)))
      BY <1>5, <2>0, <3>1
    <3>3. ReadPacket("SrvLoginReply", bs, fill, TRUE)
            = MeantTo(PackOf("SrvLoginReply", 0), 0, len, Len(PackOf("SrvLoginReply", 0)))
      BY <1>5, <1>7, <2>0, <3>2, RefusalBack
    <3> QED BY <1>8, <2>3, <3>1, <3>3 DEF bs
  <2> QED BY <2>1, <2>2, <2>3
<1>10. RoundTrip'
  <2>1. Meant' = Meant
    BY <1>1 DEF Meant
  <2>2. got'.class = c /\ got'.fields = ReadPacket(c, copies[i], fill, refused)
    BY <1>2
  <2> QED BY <1>1, <1>6, <1>9, <2>1, <2>2 DEF RoundTrip
<1>11. Exchanged'
  <2>1. \A bs : Whole(bs, pkt)' <=> Whole(bs, pkt)
    BY <1>1 DEF Whole
  <2>2. SizeOf(pkt)' = SizeOf(pkt) /\ (Sound(pkt.class, pkt.n, pkt.len)' <=> Sound(pkt.class, pkt.n, pkt.len))
    BY <1>1 DEF SizeOf, Sound
  <2>3. (\A j \in 1..Len(copies) : Whole(copies[j], pkt))'
    BY <1>1, <1>4 DEF Whole
  <2> QED BY <1>1, <1>3, <1>10, <2>1, <2>2, <2>3 DEF Exchanged, Made, Whole
<1> QED BY <1>11 DEF ExchangeInv

\* The inductive invariant: once a copy was taken, the whole payload lies behind the
\* header in the buffer and in every copy.
LEMMA ExchangeInvariant ==
  ASSUME MaxPacketSize \in Nat, MaxPacketSize > 6, LayoutsAgree
  PROVE  ExchangeSpec => []ExchangeInv
<1>1. ExchangeInv /\ [ExchangeNext]_exchangeVars => ExchangeInv'
  <2> SUFFICES ASSUME ExchangeInv, [ExchangeNext]_exchangeVars PROVE ExchangeInv'
    OBVIOUS
  <2>1. ASSUME NEW c \in Sent, NEW len \in Lens, NEW n \in Counts, NEW refused \in BOOLEAN,
               (c \in Lists \/ n = 0) /\ Make(c, n, len, refused)
        PROVE  ExchangeInv'
    BY <2>1, ExchangeMake
  <2>2. ASSUME getPacked PROVE ExchangeInv'
    BY <2>2, ExchangePack
  <2>3. ASSUME NEW i \in 1..MaxSends, NEW fill \in {NUL, Junk}, fetchPacket(i, fill) PROVE ExchangeInv'
    BY <2>3, ExchangeFetch
  <2>4. ASSUME UNCHANGED exchangeVars PROVE ExchangeInv'
    BY <2>4 DEF exchangeVars, ExchangeInv, Exchanged, Whole, SizeOf, Sound, RoundTrip, Meant
  <2> QED BY <2>1, <2>2, <2>3, <2>4 DEF ExchangeNext
<1> QED BY <1>1, ExchangeStarts, PTL DEF ExchangeSpec

\* For every packet buffer and every choice of classes, string lengths and list lengths for
\* which the layouts agree: each receiver, of whichever copy, reads the class and the field
\* values the sender put in (CRosePacket's operator<< and operator>>, getPacked for each
\* connection, fetchPacket).
THEOREM PacketRoundTrip == ExchangeSpec => []RoundTrip
<1>1. ExchangeInv => RoundTrip
  BY DEF ExchangeInv, Exchanged, RoundTrip
<1>2. ExchangeSpec => []ExchangeInv
  BY MaxPacketSizeAssumption, LayoutsAssumption, ExchangeInvariant
<1> QED BY <1>1, <1>2, PTL

\* Under the same conditions the first connection gets the whole payload, and packing again
\* for further connections never writes behind the end of buffer_ (writeNext).
THEOREM PacketFirstIsWhole == ExchangeSpec => []FirstIsWhole
<1>1. ASSUME ExchangeInv PROVE FirstIsWhole
  <2>1. CASE pkt = NoPacket /\ copies = <<>>
    <3>1. NoPacket.buf = <<>>
      BY DEF NoPacket
    <3>2. Len(pkt.buf) < MaxPacketSize
      BY <2>1, <3>1, MaxPacketSizeAssumption
    <3> QED BY <2>1, <3>2 DEF FirstIsWhole
  <2>2. CASE Exchanged
    <3>1. pkt.buf \in Bufs /\ Sound(pkt.class, pkt.n, pkt.len) /\ (copies # <<>> => Len(copies[1]) = SizeOf(pkt))
      BY <2>2 DEF Exchanged, Made
    <3>2. SizeOf(pkt) = 6 + LengthOf(PackOf(pkt.class, pkt.n), pkt.len)
      BY <3>1, MaxPacketSizeAssumption, LayoutsAssumption, LayoutFacts DEF SizeOf
    <3> QED BY <3>1, <3>2, MaxPacketSizeAssumption DEF FirstIsWhole, Bufs, HeaderSize
  <2> QED BY <1>1, <2>1, <2>2 DEF ExchangeInv
<1>2. ExchangeSpec => []ExchangeInv
  BY MaxPacketSizeAssumption, LayoutsAssumption, ExchangeInvariant
<1> QED BY <1>1, <1>2, PTL

-----------------------------------------------------------------------------
(* The queues. *)
USE MaxSendAssumption, InOrderAssumption

\* Removing an element of a sequence of packets: its type and its elements.
LEMMA RemoveAtFacts ==
  ASSUME NEW s \in Seq(Packets), NEW i \in 1 .. Len(s)
  PROVE  /\ RemoveAt(s, i) \in Seq(Packets)
         /\ Len(RemoveAt(s, i)) = Len(s) - 1
         /\ \A j \in 1 .. Len(s) - 1 :
              RemoveAt(s, i)[j] = IF j < i THEN s[j] ELSE s[j + 1]
<1> DEFINE a == SubSeq(s, 1, i - 1)
           b == SubSeq(s, i + 1, Len(s))
<1>1. a \in Seq(Packets) /\ Len(a) = i - 1 /\ \A j \in 1 .. i - 1 : a[j] = s[j]
  OBVIOUS
<1>2. /\ b \in Seq(Packets)
      /\ Len(b) = Len(s) - i
      /\ \A j \in 1 .. Len(s) - i : b[j] = s[j + i]
  OBVIOUS
<1>3. RemoveAt(s, i) = a \o b
  BY DEF RemoveAt
<1> HIDE DEF a, b
<1>4. /\ a \o b \in Seq(Packets)
      /\ Len(a \o b) = Len(s) - 1
      /\ \A j \in 1 .. Len(s) - 1 : (a \o b)[j] = IF j < i THEN a[j] ELSE b[j - i + 1]
  <2>1. /\ a \o b \in Seq(Packets)
        /\ Len(a \o b) = Len(a) + Len(b)
        /\ \A j \in 1 .. Len(a) + Len(b) :
             (a \o b)[j] = IF j <= Len(a) THEN a[j] ELSE b[j - Len(a)]
    BY <1>1, <1>2, ConcatProperties
  <2>2. \A j \in 1 .. Len(s) - 1 : (j <= i - 1 <=> j < i) /\ j - (i - 1) = j - i + 1
    OBVIOUS
  <2> QED BY <1>1, <1>2, <2>1, <2>2
<1>5. ASSUME NEW j \in 1 .. Len(s) - 1, j >= i PROVE b[j - i + 1] = s[j + 1]
  <2>1. j - i + 1 \in 1 .. Len(s) - i /\ (j - i + 1) + i = j + 1
    BY <1>5
  <2> QED BY <2>1, <1>2
<1>6. ASSUME NEW j \in 1 .. Len(s) - 1
      PROVE  (a \o b)[j] = IF j < i THEN s[j] ELSE s[j + 1]
  <2>1. (a \o b)[j] = IF j < i THEN a[j] ELSE b[j - i + 1]
    BY <1>4
  <2>2. CASE j < i
    <3>1. j \in 1 .. i - 1
      BY <2>2
    <3>2. a[j] = s[j]
      BY <1>1, <3>1
    <3> QED BY <2>1, <2>2, <3>2
  <2>3. CASE ~(j < i)
    <3>1. j >= i
      BY <2>3
    <3>2. b[j - i + 1] = s[j + 1]
      BY <1>5, <3>1
    <3> QED BY <2>1, <2>3, <3>2
  <2> QED BY <2>2, <2>3
<1> QED BY <1>3, <1>4, <1>6

\* Removing the oldest one.
LEMMA RemoveOldest ==
  ASSUME NEW s \in Seq(Packets), 1 \in 1 .. Len(s)
  PROVE  /\ Len(RemoveAt(s, 1)) = Len(s) - 1
         /\ \A j \in 1 .. Len(s) - 1 : RemoveAt(s, 1)[j] = s[j + 1]
<1>1. \A j \in 1 .. Len(s) - 1 : ~(j < 1)
  OBVIOUS
<1>2. /\ Len(RemoveAt(s, 1)) = Len(s) - 1
      /\ \A j \in 1 .. Len(s) - 1 :
           RemoveAt(s, 1)[j] = IF j < 1 THEN s[j] ELSE s[j + 1]
  BY RemoveAtFacts
<1> QED BY <1>1, <1>2, Zenon

\* The packets are finitely many, so handlers can be counted.
LEMMA PoppingFinite == IsFiniteSet(Packets) /\ IsFiniteSet(Popping)
<1>1. IsFiniteSet(1 .. MaxSend)
  BY FS_Interval
<1>2. IsFiniteSet(Packets)
  BY <1>1, SendersAssumption, FS_Product DEF Packets
<1> QED BY <1>2, FS_Subset DEF Popping

\* A handler about to free a buffer finds one.
LEMMA PopsSomething ==
  ASSUME TypeOK, DiscardCoversWrites, NEW p \in Packets, pc[p] = "pop"
  PROVE  discard_queue # <<>>
<1>1. p \in Popping
  BY DEF Popping
<1>2. Cardinality(Popping) \in Nat /\ Cardinality(Popping) # 0
  BY <1>1, PoppingFinite, FS_CardinalityType, FS_EmptySet
<1>3. Len(flying) \in Nat
  BY DEF TypeOK
<1> QED BY <1>2, <1>3 DEF DiscardCoversWrites

\* Every step of the threads, the writes and shutdown keeps the types.
LEMMA TypeStep ==
  ASSUME TypeOK, DiscardCoversWrites, [Next]_vars
  PROVE  TypeOK'
<1> USE DEF TypeOK
<1>1. ASSUME NEW t \in Senders, send_data(t) PROVE TypeOK'
  <2>1. <<t, count[t] + 1>> \in Packets
    BY <1>1 DEF send_data, Packets
  <2> QED BY <1>1, <2>1 DEF send_data, Runners
<1>2. ASSUME NEW r \in Runners, CheckDiscard(r) PROVE TypeOK'
  <2>1. (discard_queue = <<>>) \in BOOLEAN
    OBVIOUS
  <2>2. discard_empty' \in [Runners -> BOOLEAN]
    BY <1>2, <2>1, Zenon DEF CheckDiscard
  <2> QED BY <1>2, <2>2 DEF CheckDiscard
<1>3. ASSUME NEW r \in Runners, Transmit(r) PROVE TypeOK'
  <2>1. CASE send_queue # <<>> /\ discard_empty[r]
    <3>1. Head(send_queue) \in Packets /\ Tail(send_queue) \in Seq(Packets)
      BY <2>1
    <3>2. /\ send_queue' \in Seq(Packets)
          /\ discard_queue' \in Seq(Packets)
          /\ flying' \in Seq(Packets)
          /\ wire' \in Seq(Packets)
      <4>1. /\ send_queue' = Tail(send_queue)
            /\ discard_queue' = Append(discard_queue, Head(send_queue))
            /\ flying' = Append(flying, Head(send_queue))
            /\ wire' = Append(wire, Head(send_queue))
        BY <1>3, <2>1 DEF Transmit, StartWrite
      <4> QED BY <3>1, <4>1
    <3> QED BY <1>3, <3>2 DEF Transmit
  <2>2. CASE ~(send_queue # <<>> /\ discard_empty[r])
    BY <1>3, <2>2 DEF Transmit
  <2> QED BY <2>1, <2>2
<1>4. ASSUME NEW p \in Packets, NEW reset \in BOOLEAN, WriteDone(p, reset) PROVE TypeOK'
  <2>1. PICK i \in 1 .. Len(flying) : flying' = RemoveAt(flying, i)
    BY <1>4 DEF WriteDone
  <2>2. flying' \in Seq(Packets)
    BY <2>1, RemoveAtFacts
  <2>3. active' \in BOOLEAN
    BY <1>4, Zenon DEF WriteDone
  <2> QED BY <1>4, <2>2, <2>3 DEF WriteDone
<1>5. ASSUME NEW p \in Packets, FreeBuffer(p) PROVE TypeOK'
  <2>0. discard_queue # <<>>
    BY <1>5, PopsSomething DEF FreeBuffer
  <2>1. Tail(discard_queue) \in Seq(Packets)
    BY <2>0
  <2> QED BY <1>5, <2>1 DEF FreeBuffer
<1>6. CASE shutdown
  BY <1>6 DEF shutdown
<1>7. CASE UNCHANGED vars
  BY <1>7 DEF vars
<1> QED BY <1>1, <1>2, <1>3, <1>4, <1>5, <1>6, <1>7 DEF Next

\* Every step keeps each packet in one place.
LEMMA OnceStep ==
  ASSUME TypeOK, TypeOK', DiscardCoversWrites, OnceInv, [Next]_vars
  PROVE  OnceInv'
<1>1. ASSUME NEW t \in Senders, send_data(t) PROVE OnceInv'
  <2> DEFINE q == <<t, count[t] + 1>>
  <2>1. q \in Packets /\ q[1] = t /\ q[2] = count[t] + 1 /\ q # t
    BY <1>1, DistinctAssumption DEF send_data, Packets, TypeOK
  <2>2. pc[q] = "idle"
    BY <2>1 DEF OnceInv, TypeOK
  <2>3. /\ \A i \in 1 .. Len(send_queue) : send_queue[i] \in Packets /\ send_queue[i] # q
        /\ \A i \in 1 .. Len(flying) : flying[i] \in Packets /\ flying[i] # q
    <3>1. count[t] \in Int
      BY DEF TypeOK
    <3>2. /\ \A i \in 1 .. Len(send_queue) : send_queue[i] \in Packets
          /\ \A i \in 1 .. Len(flying) : flying[i] \in Packets
      BY DEF TypeOK
    <3>3. ASSUME NEW p, p[2] <= count[p[1]] PROVE p # q
      <4>1. p = q => p[1] = t /\ p[2] = count[t] + 1
        BY <2>1
      <4> QED BY <3>1, <3>3, <4>1
    <3>4. ASSUME NEW i \in 1 .. Len(send_queue) PROVE send_queue[i] # q
      BY <3>3, <3>4 DEF OnceInv
    <3>5. ASSUME NEW i \in 1 .. Len(flying) PROVE flying[i] # q
      BY <3>3, <3>5 DEF OnceInv
    <3> QED BY <3>2, <3>4, <3>5
  <2>4. \A p \in Packets : p # t
    BY DistinctAssumption DEF Packets
  <2>5. /\ Len(send_queue') = Len(send_queue) + 1
        /\ send_queue'[Len(send_queue) + 1] = q
        /\ \A i \in 1 .. Len(send_queue) : send_queue'[i] = send_queue[i]
        /\ flying' = flying
        /\ count' = [count EXCEPT ![t] = count[t] + 1]
        /\ \A p \in Packets : pc'[p] = pc[p]
    BY <1>1, <2>4 DEF send_data, TypeOK, Runners
  <2> HIDE DEF q
  <2>6. \A u \in Senders : count'[u] >= count[u] /\ count[u] \in Int /\ count'[u] \in Int
    BY <1>1, <2>5 DEF TypeOK
  <2>7. count'[t] = count[t] + 1
    BY <2>5 DEF TypeOK
  <2>8. \A p \in Packets : p[1] \in Senders /\ p[2] \in Int
    BY DEF Packets
  <2>9. Len(send_queue) \in Nat /\ Len(flying) \in Nat
    BY DEF TypeOK
  <2>a. \A i \in 1 .. Len(send_queue)' : \/ i \in 1 .. Len(send_queue) /\ send_queue'[i] = send_queue[i]
                                         \/ i = Len(send_queue) + 1 /\ send_queue'[i] = q
    BY <2>5, <2>9
  <2>b. \A i \in 1 .. Len(send_queue)' : /\ send_queue'[i][2] <= count'[send_queue'[i][1]]
                                         /\ pc'[send_queue'[i]] = "idle"
    <3> SUFFICES ASSUME NEW i \in 1 .. Len(send_queue)'
                 PROVE  send_queue'[i][2] <= count'[send_queue'[i][1]] /\ pc'[send_queue'[i]] = "idle"
      OBVIOUS
    <3>1. CASE i \in 1 .. Len(send_queue) /\ send_queue'[i] = send_queue[i]
      <4>1. /\ send_queue[i] \in Packets
            /\ send_queue[i][2] <= count[send_queue[i][1]]
            /\ pc[send_queue[i]] = "idle"
        BY <3>1, <2>3 DEF OnceInv
      <4>2. send_queue[i][1] \in Senders /\ send_queue[i][2] \in Int
        BY <4>1, <2>8
      <4> QED BY <3>1, <4>1, <4>2, <2>5, <2>6
    <3>2. CASE i = Len(send_queue) + 1 /\ send_queue'[i] = q
      <4>1. count[t] \in Int
        BY <2>6
      <4> QED BY <3>2, <4>1, <2>1, <2>2, <2>5, <2>7
    <3> QED BY <3>1, <3>2, <2>a
  <2>c. \A i \in 1 .. Len(flying)' : flying'[i][2] <= count'[flying'[i][1]] /\ pc'[flying'[i]] = "idle"
    BY <2>3, <2>5, <2>6, <2>8 DEF OnceInv
  <2>d. \A i, j \in 1 .. Len(send_queue)' : send_queue'[i] = send_queue'[j] => i = j
    BY <2>3, <2>a DEF OnceInv
  <2>e. \A i \in 1 .. Len(send_queue)', j \in 1 .. Len(flying)' : send_queue'[i] # flying'[j]
    BY <2>3, <2>5, <2>a DEF OnceInv
  <2>f. \A p \in Packets : p[2] > count'[p[1]] => pc'[p] = "idle"
    BY <2>5, <2>6, <2>8 DEF OnceInv
  <2> QED BY <2>5, <2>b, <2>c, <2>d, <2>e, <2>f DEF OnceInv
<1>2. ASSUME NEW r \in Runners, CheckDiscard(r) PROVE OnceInv'
  <2>1. \A p \in Packets : pc[p] = "idle" => pc'[p] = "idle"
    BY <1>2 DEF CheckDiscard, TypeOK, Runners
  <2>2. send_queue' = send_queue /\ flying' = flying /\ count' = count
    BY <1>2 DEF CheckDiscard
  <2>3. /\ \A i \in 1 .. Len(send_queue) : send_queue[i] \in Packets
        /\ \A i \in 1 .. Len(flying) : flying[i] \in Packets
    BY DEF TypeOK
  <2> QED BY <2>1, <2>2, <2>3 DEF OnceInv
<1>3. ASSUME NEW r \in Runners, Transmit(r) PROVE OnceInv'
  <2>1. \A p \in Packets : pc[p] = "idle" => pc'[p] = "idle"
    BY <1>3 DEF Transmit, TypeOK, Runners
  <2>2. CASE send_queue # <<>> /\ discard_empty[r]
    <3> DEFINE q == Head(send_queue)
    <3>0. /\ send_queue' = Tail(send_queue)
          /\ flying' = Append(flying, q)
          /\ send_queue \in Seq(Packets) /\ send_queue # <<>>
          /\ flying \in Seq(Packets)
      BY <1>3, <2>2 DEF Transmit, StartWrite, TypeOK
    <3>1. /\ Len(send_queue) \in Nat \ {0}
          /\ q = send_queue[1]
          /\ Len(send_queue') = Len(send_queue) - 1
          /\ \A i \in 1 .. Len(send_queue) - 1 : send_queue'[i] = send_queue[i + 1]
      BY <3>0, HeadTailProperties
    <3>2. /\ Len(flying) \in Nat
          /\ Len(flying') = Len(flying) + 1
          /\ \A i \in 1 .. Len(flying) : flying'[i] = flying[i]
          /\ flying'[Len(flying) + 1] = q
      BY <3>0
    <3>3. count' = count
      BY <1>3 DEF Transmit
    <3>4. /\ \A i \in 1 .. Len(send_queue) : send_queue[i] \in Packets
          /\ \A i \in 1 .. Len(flying) : flying[i] \in Packets
      BY DEF TypeOK
    <3>5. \A i \in 1 .. Len(send_queue)' : /\ i + 1 \in 1 .. Len(send_queue)
                                           /\ send_queue'[i] = send_queue[i + 1]
                                           /\ i + 1 # 1
      BY <3>1
    <3>6. \A i \in 1 .. Len(flying)' : \/ i \in 1 .. Len(flying) /\ flying'[i] = flying[i]
                                       \/ i = Len(flying) + 1 /\ flying'[i] = send_queue[1]
      BY <3>1, <3>2
    <3>7. 1 \in 1 .. Len(send_queue)
      BY <3>1
    <3> HIDE DEF q
    <3>8. \A i \in 1 .. Len(send_queue)' : /\ send_queue'[i][2] <= count'[send_queue'[i][1]]
                                           /\ pc'[send_queue'[i]] = "idle"
      BY <2>1, <3>3, <3>4, <3>5 DEF OnceInv
    <3>9. \A i \in 1 .. Len(flying)' : flying'[i][2] <= count'[flying'[i][1]] /\ pc'[flying'[i]] = "idle"
      BY <2>1, <3>3, <3>4, <3>6, <3>7 DEF OnceInv
    <3>a. \A i, j \in 1 .. Len(send_queue)' : send_queue'[i] = send_queue'[j] => i = j
      <4> SUFFICES ASSUME NEW i \in 1 .. Len(send_queue)', NEW j \in 1 .. Len(send_queue)',
                          send_queue'[i] = send_queue'[j]
                   PROVE  i = j
        OBVIOUS
      <4>1. i + 1 = j + 1
        BY <3>5 DEF OnceInv
      <4> QED BY <4>1, <3>1
    <3>b. \A i, j \in 1 .. Len(flying)' : flying'[i] = flying'[j] => i = j
      BY <3>6, <3>7 DEF OnceInv
    <3>c. \A i \in 1 .. Len(send_queue)', j \in 1 .. Len(flying)' : send_queue'[i] # flying'[j]
      BY <3>5, <3>6, <3>7 DEF OnceInv
    <3>d. \A p \in Packets : p[2] > count'[p[1]] => pc'[p] = "idle"
      BY <2>1, <3>3 DEF OnceInv
    <3> QED BY <3>8, <3>9, <3>a, <3>b, <3>c, <3>d DEF OnceInv
  <2>3. CASE ~(send_queue # <<>> /\ discard_empty[r])
    BY <1>3, <2>1, <2>3 DEF Transmit, OnceInv, TypeOK
  <2> QED BY <2>2, <2>3
<1>4. ASSUME NEW p \in Packets, NEW reset \in BOOLEAN, WriteDone(p, reset) PROVE OnceInv'
  <2>1. PICK k \in 1 .. Len(flying) : flying[k] = p /\ flying' = RemoveAt(flying, k)
    BY <1>4 DEF WriteDone
  <2>2. /\ Len(flying') = Len(flying) - 1
        /\ \A j \in 1 .. Len(flying) - 1 : flying'[j] = IF j < k THEN flying[j] ELSE flying[j + 1]
    BY <2>1, RemoveAtFacts DEF TypeOK
  <2>3. send_queue' = send_queue /\ count' = count
    BY <1>4 DEF WriteDone
  <2>4. \A q \in Packets : q # p => pc'[q] = pc[q]
    BY <1>4 DEF WriteDone, TypeOK, Runners
  <2>5. Len(flying) \in Nat /\ \A i \in 1 .. Len(flying) : flying[i] \in Packets
    BY DEF TypeOK
  <2>6. \A i \in 1 .. Len(send_queue) : send_queue[i] \in Packets
    BY DEF TypeOK
  <2>7. \A j \in 1 .. Len(flying)' :
          \E i \in 1 .. Len(flying) : /\ flying'[j] = flying[i]
                                      /\ i # k
                                      /\ i = IF j < k THEN j ELSE j + 1
    BY <2>2, <2>5
  <2>8. \A i \in 1 .. Len(flying) : i # k => flying[i] # p
    BY <2>1 DEF OnceInv
  <2>9. \A i, j \in 1 .. Len(flying)' : flying'[i] = flying'[j] => i = j
    <3> SUFFICES ASSUME NEW i \in 1 .. Len(flying)', NEW j \in 1 .. Len(flying)',
                        flying'[i] = flying'[j]
                 PROVE  i = j
      OBVIOUS
    <3>1. (IF i < k THEN i ELSE i + 1) = (IF j < k THEN j ELSE j + 1)
      BY <2>7 DEF OnceInv
    <3> QED BY <3>1, <2>2, <2>5
  <2>a. p[2] <= count[p[1]] /\ p[1] \in Senders /\ p[2] \in Int /\ count[p[1]] \in Int
    <3>1. p[1] \in Senders /\ p[2] \in Int /\ count[p[1]] \in Int
      BY DEF Packets, TypeOK
    <3> QED BY <2>1, <3>1 DEF OnceInv
  <2>b. \A q \in Packets : q[2] > count'[q[1]] => pc'[q] = "idle"
    BY <2>3, <2>4, <2>a DEF OnceInv
  <2>c. \A i \in 1 .. Len(flying)' : flying'[i][2] <= count'[flying'[i][1]] /\ pc'[flying'[i]] = "idle"
    BY <2>3, <2>4, <2>5, <2>7, <2>8 DEF OnceInv
  <2>d. \A i \in 1 .. Len(send_queue) : send_queue[i] # p
    BY <2>1 DEF OnceInv
  <2>e. \A i \in 1 .. Len(send_queue)' : /\ send_queue'[i][2] <= count'[send_queue'[i][1]]
                                         /\ pc'[send_queue'[i]] = "idle"
    BY <2>3, <2>4, <2>6, <2>d DEF OnceInv
  <2>f. /\ \A i, j \in 1 .. Len(send_queue)' : send_queue'[i] = send_queue'[j] => i = j
        /\ \A i \in 1 .. Len(send_queue)', j \in 1 .. Len(flying)' : send_queue'[i] # flying'[j]
    BY <2>3, <2>7 DEF OnceInv
  <2> QED BY <2>9, <2>b, <2>c, <2>e, <2>f DEF OnceInv
<1>5. ASSUME NEW p \in Packets, FreeBuffer(p) PROVE OnceInv'
  <2>1. pc[p] = "pop" /\ \A q \in Packets : q # p => pc'[q] = pc[q]
    BY <1>5 DEF FreeBuffer, TypeOK, Runners
  <2>2. \A q \in Packets : pc[q] = "idle" => pc'[q] = "idle"
    BY <2>1
  <2> QED BY <1>5, <2>2 DEF FreeBuffer, OnceInv, TypeOK
<1>6. CASE shutdown
  BY <1>6 DEF shutdown, OnceInv
<1>7. CASE UNCHANGED vars
  BY <1>7 DEF vars, OnceInv
<1> QED BY <1>1, <1>2, <1>3, <1>4, <1>5, <1>6, <1>7 DEF Next

\* Every step keeps one buffer per write in progress and per handler that is
\* about to free one.
LEMMA CoverStep ==
  ASSUME TypeOK, TypeOK', DiscardCoversWrites, OnceInv, [Next]_vars
  PROVE  DiscardCoversWrites'
<1>1. Popping' = {p \in Packets : pc'[p] = "pop"}
  BY DEF Popping
<1>2. ASSUME Popping' = Popping, UNCHANGED <<discard_queue, flying>> PROVE DiscardCoversWrites'
  BY <1>2 DEF DiscardCoversWrites
<1>3. ASSUME NEW t \in Senders, send_data(t) PROVE DiscardCoversWrites'
  <2>1. \A p \in Packets : pc'[p] = pc[p]
    BY <1>3, DistinctAssumption DEF send_data, TypeOK, Runners, Packets
  <2> QED BY <1>2, <1>3, <2>1 DEF send_data, Popping
<1>4. ASSUME NEW r \in Runners, CheckDiscard(r) PROVE DiscardCoversWrites'
  <2>1. \A p \in Packets : pc'[p] = "pop" <=> pc[p] = "pop"
    BY <1>4 DEF CheckDiscard, TypeOK, Runners
  <2> QED BY <1>2, <1>4, <2>1 DEF CheckDiscard, Popping
<1>5. ASSUME NEW r \in Runners, Transmit(r) PROVE DiscardCoversWrites'
  <2>1. \A p \in Packets : pc'[p] = "pop" <=> pc[p] = "pop"
    BY <1>5 DEF Transmit, TypeOK, Runners
  <2>2. Popping' = Popping
    BY <2>1 DEF Popping
  <2>3. CASE send_queue # <<>> /\ discard_empty[r]
    <3>1. /\ discard_queue' = Append(discard_queue, Head(send_queue))
          /\ flying' = Append(flying, Head(send_queue))
          /\ discard_queue \in Seq(Packets) /\ flying \in Seq(Packets)
      BY <1>5, <2>3 DEF Transmit, StartWrite, TypeOK
    <3>2. /\ Len(discard_queue') = Len(discard_queue) + 1
          /\ Len(flying') = Len(flying) + 1
          /\ Len(flying) \in Nat
      BY <3>1
    <3>3. Cardinality(Popping) \in Nat
      BY PoppingFinite, FS_CardinalityType
    <3> QED BY <2>2, <3>2, <3>3 DEF DiscardCoversWrites
  <2>4. CASE ~(send_queue # <<>> /\ discard_empty[r])
    BY <1>2, <1>5, <2>2, <2>4 DEF Transmit
  <2> QED BY <2>3, <2>4
<1>6. ASSUME NEW p \in Packets, NEW reset \in BOOLEAN, WriteDone(p, reset)
      PROVE  DiscardCoversWrites'
  <2>1. PICK k \in 1 .. Len(flying) : flying[k] = p /\ flying' = RemoveAt(flying, k)
    BY <1>6 DEF WriteDone
  <2>2. Len(flying') = Len(flying) - 1 /\ Len(flying) \in Nat
    BY <2>1, RemoveAtFacts DEF TypeOK
  <2>3. pc[p] = "idle"
    BY <2>1 DEF OnceInv
  <2>4. /\ pc'[p] = "pop" /\ \A q \in Packets : q # p => pc'[q] = pc[q]
        /\ discard_queue' = discard_queue
    BY <1>6 DEF WriteDone, TypeOK, Runners
  <2>5. p \notin Popping /\ Popping' = Popping \cup {p}
    BY <2>3, <2>4 DEF Popping
  <2>6. Cardinality(Popping') = Cardinality(Popping) + 1 /\ Cardinality(Popping) \in Nat
    BY <2>5, PoppingFinite, FS_AddElement, FS_CardinalityType
  <2> QED BY <2>2, <2>4, <2>6 DEF DiscardCoversWrites
<1>7. ASSUME NEW p \in Packets, FreeBuffer(p) PROVE DiscardCoversWrites'
  <2>1. discard_queue \in Seq(Packets) /\ discard_queue # <<>>
    BY <1>7, PopsSomething DEF FreeBuffer, TypeOK
  <2>2. Len(discard_queue') = Len(discard_queue) - 1 /\ flying' = flying
    BY <1>7, <2>1, HeadTailProperties DEF FreeBuffer
  <2>3. pc[p] = "pop" /\ pc'[p] # "pop" /\ \A q \in Packets : q # p => pc'[q] = pc[q]
    BY <1>7 DEF FreeBuffer, TypeOK, Runners
  <2>4. p \in Popping /\ Popping' = Popping \ {p}
    BY <2>3 DEF Popping
  <2>5. Cardinality(Popping') = Cardinality(Popping) - 1
    BY <2>4, PoppingFinite, FS_RemoveElement
  <2>6. Cardinality(Popping) \in Nat /\ Len(flying) \in Nat
    BY PoppingFinite, FS_CardinalityType DEF TypeOK
  <2> QED BY <2>2, <2>5, <2>6 DEF DiscardCoversWrites
<1>8. CASE shutdown
  BY <1>2, <1>8 DEF shutdown, Popping
<1>9. CASE UNCHANGED vars
  BY <1>2, <1>9 DEF vars, Popping
<1> QED BY <1>3, <1>4, <1>5, <1>6, <1>7, <1>8, <1>9 DEF Next

\* Every step keeps the writes in progress at the end of discard_queue_, in
\* the same order, when the socket completes them in order.
LEMMA AliveStep ==
  ASSUME TypeOK, TypeOK', AliveInv, DiscardCoversWrites', OnceInv', [Next]_vars
  PROVE  AliveInv'
<1>0. /\ discard_queue \in Seq(Packets) /\ flying \in Seq(Packets)
      /\ Len(discard_queue) \in Nat /\ Len(flying) \in Nat
      /\ Len(flying) <= Len(discard_queue)
  BY PoppingFinite, FS_CardinalityType DEF AliveInv, DiscardCoversWrites, TypeOK
<1>1. SUFFICES ASSUME InOrder, NEW i \in 1 .. Len(flying)'
               PROVE  flying'[i] = discard_queue'[Len(discard_queue)' - Len(flying)' + i]
  BY DEF AliveInv
<1>2. \A j \in 1 .. Len(flying) : flying[j] = discard_queue[Len(discard_queue) - Len(flying) + j]
  BY <1>1 DEF AliveInv
<1> DEFINE Goal == flying'[i] = discard_queue'[Len(discard_queue)' - Len(flying)' + i]
<1>3. CASE UNCHANGED <<discard_queue, flying>>
  BY <1>2, <1>3
<1>4. ASSUME NEW r \in Runners, Transmit(r), send_queue # <<>>, discard_empty[r] PROVE Goal
  <2>1. /\ discard_queue' = Append(discard_queue, Head(send_queue))
        /\ flying' = Append(flying, Head(send_queue))
    BY <1>4 DEF Transmit, StartWrite
  <2>2. /\ Len(discard_queue') = Len(discard_queue) + 1
        /\ \A j \in 1 .. Len(discard_queue) : discard_queue'[j] = discard_queue[j]
        /\ discard_queue'[Len(discard_queue) + 1] = Head(send_queue)
    BY <1>0, <2>1
  <2>3. /\ Len(flying') = Len(flying) + 1
        /\ \A j \in 1 .. Len(flying) : flying'[j] = flying[j]
        /\ flying'[Len(flying) + 1] = Head(send_queue)
    BY <1>0, <2>1
  <2>4. CASE i \in 1 .. Len(flying)
    <3>1. /\ Len(discard_queue) - Len(flying) + i \in 1 .. Len(discard_queue)
          /\ Len(discard_queue)' - Len(flying)' + i = Len(discard_queue) - Len(flying) + i
      BY <1>0, <2>2, <2>3, <2>4
    <3> QED BY <1>2, <2>2, <2>3, <2>4, <3>1
  <2>5. CASE i = Len(flying) + 1
    BY <1>0, <2>2, <2>3, <2>5
  <2> QED BY <1>0, <1>1, <2>3, <2>4, <2>5
<1>5. ASSUME NEW p \in Packets, NEW reset \in BOOLEAN, WriteDone(p, reset) PROVE Goal
  <2>0. PICK k \in 1 .. Len(flying) : InOrder => k = 1 /\ flying' = RemoveAt(flying, k)
    BY <1>5 DEF WriteDone
  <2>1. flying' = RemoveAt(flying, 1) /\ 1 \in 1 .. Len(flying) /\ discard_queue' = discard_queue
    BY <1>1, <1>5, <2>0 DEF WriteDone
  <2>2. /\ Len(flying') = Len(flying) - 1
        /\ \A j \in 1 .. Len(flying) - 1 : flying'[j] = flying[j + 1]
    <3>1. flying \in Seq(Packets) /\ 1 \in 1 .. Len(flying)
      BY <1>0, <2>1, Zenon
    <3>2. /\ Len(RemoveAt(flying, 1)) = Len(flying) - 1
          /\ \A j \in 1 .. Len(flying) - 1 : RemoveAt(flying, 1)[j] = flying[j + 1]
      BY <3>1, RemoveOldest, Zenon
    <3> QED BY <2>1, <3>2, Zenon
  <2>3. /\ i + 1 \in 1 .. Len(flying)
        /\ Len(discard_queue)' - Len(flying)' + i = Len(discard_queue) - Len(flying) + (i + 1)
    <3>1. i \in 1 .. Len(flying) - 1
      BY <1>1, <2>2
    <3>2. Len(discard_queue)' = Len(discard_queue)
      BY <2>1
    <3> QED BY <1>0, <2>2, <3>1, <3>2
  <2> QED BY <1>1, <1>2, <2>1, <2>2, <2>3
<1>6. ASSUME NEW p \in Packets, FreeBuffer(p) PROVE Goal
  <2>1. discard_queue # <<>>
    BY <1>6, PopsSomething DEF FreeBuffer, AliveInv
  <2>2. /\ Len(discard_queue') = Len(discard_queue) - 1
        /\ \A j \in 1 .. Len(discard_queue) - 1 : discard_queue'[j] = discard_queue[j + 1]
        /\ flying' = flying
    BY <1>0, <1>6, <2>1, HeadTailProperties DEF FreeBuffer
  <2>3. Len(flying) <= Len(discard_queue) - 1
    <3>1. Len(discard_queue') = Len(flying') + Cardinality(Popping')
      BY DEF DiscardCoversWrites
    <3>2. Cardinality(Popping') \in Nat
      <4>1. IsFiniteSet(Popping')
        BY PoppingFinite, FS_Subset DEF Popping
      <4> QED BY <4>1, FS_CardinalityType
    <3> QED BY <1>0, <2>2, <3>1, <3>2
  <2>4. /\ i \in 1 .. Len(flying)
        /\ Len(discard_queue)' - Len(flying)' + i \in 1 .. Len(discard_queue) - 1
        /\ Len(discard_queue)' - Len(flying)' + i + 1 = Len(discard_queue) - Len(flying) + i
    BY <1>0, <1>1, <2>2, <2>3
  <2> QED BY <1>2, <2>2, <2>4
<1>7. CASE \E t \in Senders : send_data(t)
  BY <1>3, <1>7 DEF send_data
<1>8. ASSUME NEW r \in Runners, CheckDiscard(r) PROVE Goal
  BY <1>3, <1>8 DEF CheckDiscard
<1>9. ASSUME NEW r \in Runners, Transmit(r), ~(send_queue # <<>> /\ discard_empty[r]) PROVE Goal
  BY <1>3, <1>9 DEF Transmit
<1>a. CASE shutdown \/ UNCHANGED vars
  BY <1>3, <1>a DEF shutdown, vars
<1> QED BY <1>4, <1>5, <1>6, <1>7, <1>8, <1>9, <1>a DEF Next

\* The conjunction that every step preserves.
Inv == TypeOK /\ AliveInv

\* Inv holds in the empty queues of a new connection.
LEMMA InvInit == Init => Inv
<1> SUFFICES ASSUME Init PROVE Inv
  OBVIOUS
<1>1. TypeOK
  BY DEF Init, TypeOK
<1>2. Popping = {}
  BY DEF Init, Popping, Runners
<1>3. DiscardCoversWrites
  BY <1>2, FS_EmptySet DEF Init, DiscardCoversWrites
<1>4. OnceInv
  BY DEF Init, OnceInv, Runners, Packets
<1> QED BY <1>1, <1>3, <1>4 DEF Inv, AliveInv, Init

\* Every step preserves Inv.
LEMMA InvStep == Inv /\ [Next]_vars => Inv'
  BY TypeStep, OnceStep, CoverStep, AliveStep DEF Inv, AliveInv

\* Inv holds in every state.
LEMMA Invariant == Spec => []Inv
  BY InvInit, InvStep, PTL DEF Spec

(***************************************************************************)
(* The queues, the threads' places and the counters keep their types.      *)
(* This needs the counting argument below: without it a handler could call *)
(* pop() on an empty discard_queue_.                                       *)
(***************************************************************************)
THEOREM TypeCorrect == Spec => []TypeOK
<1>1. Inv => TypeOK
  BY DEF Inv
<1> QED BY <1>1, Invariant, PTL

(***************************************************************************)
(* However many threads send and in whichever order writes complete, the   *)
(* completion handler's front() and pop() never meet an empty queue.       *)
(***************************************************************************)
THEOREM DiscardNeverEmpty == Spec => []DiscardCoversWrites
<1>1. Inv => DiscardCoversWrites
  BY DEF Inv, AliveInv
<1> QED BY <1>1, Invariant, PTL

(***************************************************************************)
(* When the socket completes overlapping writes in order, no buffer is     *)
(* freed while its write is in progress.                                   *)
(***************************************************************************)
THEOREM NoEarlyFree == Spec => []BuffersAlive
<1>1. Inv => BuffersAlive
  <2> SUFFICES ASSUME Inv, InOrder, NEW i \in 1 .. Len(flying)
               PROVE  \E j \in 1 .. Len(discard_queue) : discard_queue[j] = flying[i]
    BY DEF BuffersAlive
  <2>1. Len(discard_queue) - Len(flying) + i \in 1 .. Len(discard_queue)
    BY PoppingFinite, FS_CardinalityType DEF Inv, AliveInv, DiscardCoversWrites, TypeOK
  <2>2. flying[i] = discard_queue[Len(discard_queue) - Len(flying) + i]
    BY DEF Inv, AliveInv
  <2> QED BY <2>1, <2>2
<1> QED BY <1>1, Invariant, PTL

(***************************************************************************)
(* send_data and ProcessSend implement a FIFO channel: packets reach the   *)
(* socket once each and in the order in which send_data queued them.       *)
(***************************************************************************)
THEOREM FifoRefinement == Spec => ImplementsFifo
<1>1. Init => Channel!Init
  BY DEF Init, Channel!Init
<1>2. Inv /\ [Next]_vars => [Channel!Next]_(Channel!vars)
  <2> SUFFICES ASSUME Inv, [Next]_vars PROVE [Channel!Next]_(Channel!vars)
    OBVIOUS
  <2> DEFINE Same == UNCHANGED <<send_queue, wire>>
  <2>1. ASSUME NEW t \in Senders, send_data(t) PROVE Channel!Next
    <3>1. <<t, count[t] + 1>> \in Packets
      BY <2>1 DEF send_data, Packets, Inv, TypeOK
    <3> QED BY <2>1, <3>1 DEF send_data, Channel!Next, Channel!Accept
  <2>2. ASSUME NEW r \in Runners, Transmit(r) PROVE Channel!Next \/ Same
    BY <2>2 DEF Transmit, StartWrite, Channel!Next, Channel!Transmit
  <2>3. ASSUME NEW r \in Runners, CheckDiscard(r) PROVE Same
    BY <2>3 DEF CheckDiscard
  <2>4. ASSUME NEW p \in Packets, NEW reset \in BOOLEAN, WriteDone(p, reset) PROVE Same
    BY <2>4 DEF WriteDone
  <2>5. ASSUME NEW p \in Packets, FreeBuffer(p) PROVE Same
    BY <2>5 DEF FreeBuffer
  <2>6. CASE shutdown \/ UNCHANGED vars
    BY <2>6 DEF shutdown, vars, Channel!vars
  <2> QED BY <2>1, <2>2, <2>3, <2>4, <2>5, <2>6 DEF Next, Channel!vars
<1> QED BY <1>1, <1>2, Invariant, PTL DEF Spec, ImplementsFifo, Channel!Spec
=============================================================================
