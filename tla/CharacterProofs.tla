-------------------------- MODULE CharacterProofs --------------------------
(***************************************************************************)
(* Proofs about Character.                                                 *)
(***************************************************************************)
EXTENDS Character, FiniteSetTheorems, SequenceTheorems, WellFoundedInduction, TLAPS

-----------------------------------------------------------------------------
(* Least and greatest elements, by which the search for a free slot and    *)
(* the order of the statements are defined.                                *)

(* A set of natural numbers has a least element. *)
LEMMA Least ==
    ASSUME NEW T, T \subseteq Nat, T # {}
    PROVE  \E x \in T : \A y \in T : x <= y
<1>1. IsWellFoundedOn(OpToRel(<, Nat), Nat)
  BY NatLessThanWellFounded
<1>2. PICK x \in T : \A y \in T : ~(<<y, x>> \in OpToRel(<, Nat))
  BY <1>1, WFMin
<1>3. \A y \in T : ~(y < x)
  BY <1>2 DEF OpToRel
<1> QED
  BY <1>3

LEMMA MinIn ==
    ASSUME NEW T, T \subseteq Nat, T # {}
    PROVE  Min(T) \in T
  BY Least DEF Min

(* The first statement of a vector is one of it. *)
LEMMA FirstIn ==
    ASSUME NEW T, T \subseteq Nat \X Slots, T # {}
    PROVE  First(T) \in T
<1> DEFINE U == {p[1] : p \in T}
<1>1. U \subseteq Nat /\ U # {}
  OBVIOUS
<1>2. PICK x \in U : \A y \in U : x <= y
  BY <1>1, Least
<1>3. PICK p \in T : \A q \in T : p[1] <= q[1]
  BY <1>2
<1> QED
  BY <1>3 DEF First

(* A finite set of natural numbers has a greatest element. *)
LEMMA Greatest ==
    ASSUME NEW T, T \subseteq Nat, T # {}, IsFiniteSet(T)
    PROVE  \E x \in T : \A y \in T : y <= x
<1> DEFINE Bad == {R \in SUBSET T : R # {} /\ ~\E x \in R : \A y \in R : y <= x}
           Sizes == {Cardinality(R) : R \in Bad}
<1>1. ASSUME Bad # {} PROVE FALSE
  <2>1. \A R \in SUBSET T : IsFiniteSet(R) /\ Cardinality(R) \in Nat
    BY FS_Subset, FS_CardinalityType
  <2>2. Sizes \subseteq Nat /\ Sizes # {}
    BY <1>1, <2>1
  <2>3. PICK n \in Sizes : \A m \in Sizes : n <= m
    BY <2>2, Least
  <2>4. PICK R \in Bad : n = Cardinality(R)
    OBVIOUS
  <2>5. PICK x \in R : TRUE
    OBVIOUS
  <2> DEFINE Q == R \ {x}
  <2>6. Q \in SUBSET T /\ Cardinality(Q) = Cardinality(R) - 1
    BY <2>1, FS_RemoveElement
  <2>7. Q \notin Bad
    <3>1. Cardinality(R) \in Nat
      BY <2>1
    <3>2. ~(Cardinality(R) <= Cardinality(Q))
      BY <2>6, <3>1
    <3> QED
      BY <2>3, <2>4, <3>2
  <2>8. CASE Q = {}
    <3>1. \A y \in R : y <= x
      BY <2>8
    <3> QED
      BY <3>1
  <2>9. CASE Q # {}
    <3>1. PICK m \in Q : \A y \in Q : y <= m
      BY <2>6, <2>7, <2>9
    <3>2. \A y \in R : y <= (IF m <= x THEN x ELSE m)
      BY <3>1
    <3> QED
      BY <3>2
  <2> QED
    BY <2>8, <2>9
<1>2. T \notin Bad
  BY <1>1
<1> QED
  BY <1>2

LEMMA MaxIn ==
    ASSUME NEW T, T \subseteq Nat, T # {}, IsFiniteSet(T)
    PROVE  Max(T) \in T /\ \A y \in T : y <= Max(T)
  BY Greatest DEF Max

-----------------------------------------------------------------------------
(* Counting pieces. *)

LEMMA PiecesFinite ==
    ASSUME NEW S, IsFiniteSet(S), NEW f, \A x \in S : f[x] \in Nat
    PROVE  IsFiniteSet(Pieces(f, S)) /\ Cardinality(Pieces(f, S)) \in Nat
<1> DEFINE Stacks == {{x} \X (1 .. f[x]) : x \in S}
<1>1. IsFiniteSet(Stacks)
  <2> DEFINE g == [x \in S |-> {x} \X (1 .. f[x])]
  <2>1. g \in Surjection(S, Stacks)
    BY DEF Surjection
  <2> QED
    BY <2>1, FS_Surjection
<1>2. \A x \in S : IsFiniteSet({x} \X (1 .. f[x]))
  <2>1. \A x \in S : IsFiniteSet({x}) /\ IsFiniteSet(1 .. f[x])
    BY FS_Singleton, FS_Interval
  <2> QED
    BY <2>1, FS_Product
<1>3. IsFiniteSet(UNION Stacks)
  BY <1>1, <1>2, FS_UNION
<1> QED
  BY <1>3, FS_CardinalityType DEF Pieces

(* One stack and the others. *)
LEMMA PiecesSplit ==
    ASSUME NEW S, IsFiniteSet(S), NEW f, \A x \in S : f[x] \in Nat, NEW a \in S
    PROVE  Cardinality(Pieces(f, S)) = f[a] + Cardinality(Pieces(f, S \ {a}))
<1> DEFINE A == {a} \X (1 .. f[a])
           B == Pieces(f, S \ {a})
<1>1. IsFiniteSet(A) /\ Cardinality(A) = f[a]
  <2>1. IsFiniteSet({a}) /\ Cardinality({a}) = 1
    BY FS_Singleton
  <2>2. IsFiniteSet(1 .. f[a]) /\ Cardinality(1 .. f[a]) = f[a]
    BY FS_Interval
  <2>3. IsFiniteSet(A) /\ Cardinality(A) = 1 * f[a]
    BY <2>1, <2>2, FS_Product
  <2> QED
    BY <2>3
<1>2. IsFiniteSet(B) /\ Cardinality(B) \in Nat
  <2>1. IsFiniteSet(S \ {a})
    BY FS_RemoveElement
  <2> QED
    BY <2>1, PiecesFinite
<1>3. Pieces(f, S) = A \cup B
  BY DEF Pieces
<1>4. A \cap B = {}
  BY DEF Pieces
<1>5. Cardinality(A \cap B) = 0
  BY <1>4, FS_EmptySet
<1>6. Cardinality(A \cup B) = Cardinality(A) + Cardinality(B) - Cardinality(A \cap B)
  BY <1>1, <1>2, FS_Union
<1> HIDE DEF A, B
<1> QED
  BY <1>1, <1>2, <1>3, <1>5, <1>6 DEF B

(* Renaming the stacks. *)
LEMMA PiecesRenamed ==
    ASSUME NEW S, IsFiniteSet(S), NEW T, NEW f, NEW g,
           \A x \in S : f[x] \in Nat, NEW b \in Bijection(S, T), \A x \in S : g[b[x]] = f[x]
    PROVE  Cardinality(Pieces(g, T)) = Cardinality(Pieces(f, S))
<1> DEFINE A == Pieces(f, S)
           B == Pieces(g, T)
           h == [p \in A |-> <<b[p[1]], p[2]>>]
<1>0. b \in [S -> T] /\ (\A x, y \in S : b[x] = b[y] => x = y) /\ (\A t \in T : \E x \in S : b[x] = t)
  BY DEF Bijection, Injection, Surjection, IsInjective
<1>a. \A p : p \in A <=> \E x \in S : p \in {x} \X (1 .. f[x])
  BY DEF Pieces
<1>b. \A p : p \in B <=> \E x \in T : p \in {x} \X (1 .. g[x])
  BY DEF Pieces
<1>1. \A p \in A : p = <<p[1], p[2]>> /\ p[1] \in S /\ p[2] \in 1 .. f[p[1]]
  BY <1>a
<1>2. \A x \in S : \A n \in 1 .. f[x] : <<x, n>> \in A
  BY <1>a
<1>3. \A p \in B : p = <<p[1], p[2]>> /\ p[1] \in T /\ p[2] \in 1 .. g[p[1]]
  BY <1>b
<1>4. \A x \in T : \A n \in 1 .. g[x] : <<x, n>> \in B
  BY <1>b
<1> HIDE DEF A, B
<1>5. \A p \in A : h[p] \in B
  BY <1>0, <1>1, <1>4
<1>6. \A p, q \in A : h[p] = h[q] => p = q
  <2> SUFFICES ASSUME NEW p \in A, NEW q \in A, h[p] = h[q] PROVE p = q
    OBVIOUS
  <2>1. b[p[1]] = b[q[1]] /\ p[2] = q[2]
    OBVIOUS
  <2>2. p[1] = q[1]
    BY <1>0, <1>1, <2>1
  <2> QED
    BY <1>1, <2>1, <2>2
<1>7. \A q \in B : \E p \in A : h[p] = q
  <2> SUFFICES ASSUME NEW q \in B PROVE \E p \in A : h[p] = q
    OBVIOUS
  <2>1. PICK x \in S : b[x] = q[1]
    BY <1>0, <1>3
  <2>2. <<x, q[2]>> \in A
    BY <1>2, <1>3, <2>1
  <2>3. h[<<x, q[2]>>] = <<q[1], q[2]>>
    BY <2>1, <2>2
  <2> QED
    BY <1>3, <2>2, <2>3
<1>8. h \in Bijection(A, B)
  <2>1. h \in [A -> B]
    BY <1>5
  <2> HIDE DEF h
  <2> QED
    BY <1>6, <1>7, <2>1 DEF Bijection, Injection, Surjection, IsInjective
<1>9. IsFiniteSet(A)
  BY PiecesFinite DEF A
<1>10. Cardinality(B) = Cardinality(A)
  <2>1. ExistsBijection(A, B)
    BY <1>8 DEF ExistsBijection
  <2> QED
    BY <1>9, <2>1, FS_Bijection
<1> QED
  BY <1>10 DEF A, B

(* What a slot contributes, and all but some slots. *)
Share(item, k) == IF item.what = k THEN item.count ELSE 0
Rest(items, D, k) ==
    Cardinality(Pieces([s \in Slots |-> items[s].count], {s \in Slots \ D : items[s].what = k}))

LEMMA SlotsFinite == IsFiniteSet(Slots) /\ \A S \in SUBSET Slots : IsFiniteSet(S)
<1>1. MaxItems - 1 \in Int
  BY CharacterAssumption
<1>2. IsFiniteSet(Slots)
  BY <1>1, FS_Interval DEF Slots
<1> QED
  BY <1>2, FS_Subset

LEMMA RestSplit ==
    ASSUME NEW items \in [Slots -> Items], NEW D, NEW k, NEW a \in Slots, a \notin D
    PROVE  /\ Rest(items, D, k) = Share(items[a], k) + Rest(items, D \cup {a}, k)
           /\ Rest(items, D \cup {a}, k) \in Nat
<1> DEFINE f == [s \in Slots |-> items[s].count]
           S == {s \in Slots \ D : items[s].what = k}
           T == {s \in Slots \ (D \cup {a}) : items[s].what = k}
<1>1. IsFiniteSet(S) /\ IsFiniteSet(T)
  BY SlotsFinite
<1>2. \A s \in Slots : f[s] = items[s].count /\ f[s] \in Nat
  BY DEF Items
<1> HIDE DEF f
<1>3. Cardinality(Pieces(f, T)) \in Nat
  BY <1>1, <1>2, PiecesFinite
<1>r. Rest(items, D, k) = Cardinality(Pieces(f, S)) /\ Rest(items, D \cup {a}, k) = Cardinality(Pieces(f, T))
  BY DEF Rest, f
<1>4. CASE items[a].what = k
  <2>1. a \in S /\ T = S \ {a}
    BY <1>4
  <2>2. \A s \in S : f[s] \in Nat
    BY <1>2
  <2>3. Cardinality(Pieces(f, S)) = f[a] + Cardinality(Pieces(f, T))
    BY <1>1, <2>1, <2>2, PiecesSplit
  <2> HIDE DEF S, T
  <2> QED
    BY <1>2, <1>3, <1>4, <1>r, <2>3 DEF Share
<1>5. CASE items[a].what # k
  <2>1. T = S
    BY <1>5
  <2> HIDE DEF S, T
  <2> QED
    BY <1>3, <1>5, <1>r, <2>1 DEF Share
<1> QED
  BY <1>4, <1>5

LEMMA RestSame ==
    ASSUME NEW items \in [Slots -> Items], NEW other \in [Slots -> Items], NEW D, NEW k,
           \A s \in Slots \ D : other[s] = items[s]
    PROVE  Rest(other, D, k) = Rest(items, D, k)
<1> DEFINE f == [s \in Slots |-> items[s].count]
           g == [s \in Slots |-> other[s].count]
           S == {s \in Slots \ D : items[s].what = k}
<1>1. {s \in Slots \ D : other[s].what = k} = S
  OBVIOUS
<1>2. \A s \in S : g[s] = f[s]
  OBVIOUS
<1> HIDE DEF f, g, S
<1>3. Pieces(g, S) = Pieces(f, S)
  BY <1>2 DEF Pieces
<1> QED
  BY <1>1, <1>3 DEF Rest, f, g, S

LEMMA OwnedRest ==
    ASSUME NEW items \in [Slots -> Items], NEW k
    PROVE  Owned(items, k) = Rest(items, {}, k) /\ Owned(items, k) \in Nat
<1>1. Slots \ {} = Slots
  OBVIOUS
<1>2. Owned(items, k) = Rest(items, {}, k)
  BY <1>1 DEF Owned, Rest
<1> DEFINE f == [s \in Slots |-> items[s].count]
           S == {s \in Slots : items[s].what = k}
<1>3. IsFiniteSet(S) /\ \A s \in S : f[s] \in Nat
  BY SlotsFinite DEF Items
<1>4. Cardinality(Pieces(f, S)) \in Nat
  BY <1>3, PiecesFinite
<1> QED
  BY <1>2, <1>4 DEF Owned

(* One slot changes: the total changes with what it contributes. *)
LEMMA OwnedChange ==
    ASSUME NEW items \in [Slots -> Items], NEW other \in [Slots -> Items], NEW k, NEW a \in Slots,
           \A s \in Slots \ {a} : other[s] = items[s]
    PROVE  Owned(other, k) + Share(items[a], k) = Owned(items, k) + Share(other[a], k)
<1>1. \A i \in {items, other} : /\ Owned(i, k) = Share(i[a], k) + Rest(i, {a}, k)
                                /\ Rest(i, {a}, k) \in Nat
  <2> SUFFICES ASSUME NEW i \in {items, other}
               PROVE  Owned(i, k) = Share(i[a], k) + Rest(i, {a}, k) /\ Rest(i, {a}, k) \in Nat
    OBVIOUS
  <2>1. i \in [Slots -> Items] /\ {} \cup {a} = {a}
    OBVIOUS
  <2>2. Rest(i, {}, k) = Share(i[a], k) + Rest(i, {} \cup {a}, k) /\ Rest(i, {} \cup {a}, k) \in Nat
    BY <2>1, RestSplit
  <2> QED
    BY <2>1, <2>2, OwnedRest
<1>2. Rest(other, {a}, k) = Rest(items, {a}, k)
  BY RestSame
<1>3. Share(items[a], k) \in Nat /\ Share(other[a], k) \in Nat
  BY DEF Share, Items
<1> QED
  BY <1>1, <1>2, <1>3

(* Two slots are exchanged: the total stays. *)
LEMMA OwnedSwap ==
    ASSUME NEW items \in [Slots -> Items], NEW other \in [Slots -> Items], NEW k,
           NEW a \in Slots, NEW b \in Slots, other[a] = items[b], other[b] = items[a],
           \A s \in Slots \ {a, b} : other[s] = items[s]
    PROVE  Owned(other, k) = Owned(items, k)
<1>1. CASE a = b
  <2>1. other = items
    BY <1>1
  <2> QED
    BY <2>1
<1>2. CASE a # b
  <2>1. \A i \in {items, other} : /\ Owned(i, k) = Share(i[a], k) + (Share(i[b], k) + Rest(i, {a, b}, k))
                                  /\ Rest(i, {a, b}, k) \in Nat
    <3> SUFFICES ASSUME NEW i \in {items, other}
                 PROVE  /\ Owned(i, k) = Share(i[a], k) + (Share(i[b], k) + Rest(i, {a, b}, k))
                        /\ Rest(i, {a, b}, k) \in Nat
      OBVIOUS
    <3>1. i \in [Slots -> Items] /\ {} \cup {a} = {a} /\ {a} \cup {b} = {a, b}
      OBVIOUS
    <3>2. Rest(i, {}, k) = Share(i[a], k) + Rest(i, {} \cup {a}, k)
      BY <3>1, RestSplit
    <3>3. Rest(i, {a}, k) = Share(i[b], k) + Rest(i, {a} \cup {b}, k) /\ Rest(i, {a} \cup {b}, k) \in Nat
      BY <1>2, <3>1, RestSplit
    <3> QED
      BY <3>1, <3>2, <3>3, OwnedRest
  <2>2. Rest(other, {a, b}, k) = Rest(items, {a, b}, k)
    BY RestSame
  <2>3. Share(items[a], k) \in Nat /\ Share(items[b], k) \in Nat
    BY DEF Share, Items
  <2> QED
    BY <2>1, <2>2, <2>3
<1> QED
  BY <1>1, <1>2

(* With one row for a slot, the rows and the slots of a kind correspond:   *)
(* as much is in the table as the entity holds.                            *)
Table == [slot : Slots, what : Kinds, amount : Nat]
LEMMA AmountOwned ==
    ASSUME NEW rs, IsFiniteSet(DOMAIN rs), \A i \in DOMAIN rs : rs[i] \in Table,
           \A i, j \in DOMAIN rs : rs[i].slot = rs[j].slot => i = j,
           NEW items \in [Slots -> Items], NEW k,
           \A i \in DOMAIN rs : rs[i].what = k =>
              items[rs[i].slot].what = k /\ items[rs[i].slot].count = rs[i].amount,
           \A s \in Slots : items[s].what = k => \E i \in DOMAIN rs : rs[i].slot = s /\ rs[i].what = k
    PROVE  Amount(rs, k) = Owned(items, k)
<1> DEFINE S == {i \in DOMAIN rs : rs[i].what = k}
           T == {s \in Slots : items[s].what = k}
           f == [i \in DOMAIN rs |-> rs[i].amount]
           g == [s \in Slots |-> items[s].count]
           b == [i \in S |-> rs[i].slot]
<1>1. IsFiniteSet(S)
  <2>1. S \in SUBSET DOMAIN rs
    OBVIOUS
  <2> QED
    BY <2>1, FS_Subset
<1>2. \A i \in S : f[i] \in Nat /\ b[i] \in T /\ g[b[i]] = f[i]
  BY DEF Table
<1>3. \A i, j \in S : b[i] = b[j] => i = j
  OBVIOUS
<1>4. \A t \in T : \E i \in S : b[i] = t
  OBVIOUS
<1>5. b \in Bijection(S, T)
  <2>1. b \in [S -> T]
    BY <1>2
  <2> HIDE DEF b, S, T
  <2> QED
    BY <1>3, <1>4, <2>1 DEF Bijection, Injection, Surjection, IsInjective
<1> HIDE DEF S, T, f, g, b
<1>6. Cardinality(Pieces(g, T)) = Cardinality(Pieces(f, S))
  BY <1>1, <1>2, <1>5, PiecesRenamed
<1> QED
  BY <1>6 DEF Amount, Owned, S, T, f, g

-----------------------------------------------------------------------------
(* The inductive invariant. *)

(* No entity is saved while a newer one lives, and none is changed after   *)
(* the save of a change of servers.                                        *)
Quiet == disturbed \cap {"overtaken", "late"} = {}
N == Len(ents)

(* The order of a save, and when there is one. *)
PlanOrder(ent) ==
    /\ ent.plan.attributes => ent.plan.select
    /\ ent.plan.select => ent.plan.toDelete = {} /\ ent.plan.toUpdate = {} /\ ent.plan.toInsert = {}
    /\ ent.state \in {"loading", "in"} => ent.plan = NoPlan

(* What a save writes is what the entity holds, and it holds nothing that  *)
(* cannot be built.                                                        *)
PlanHolds(ent) ==
    /\ \A p \in ent.plan.toDelete : ~Holds(ent.items[p[2]])
    /\ \A p \in ent.plan.toUpdate : Holds(ent.items[p[2]])
    /\ \A s \in ent.plan.toInsert : Holds(ent.items[s])
Built(ent) == \A s \in Slots : ent.items[s].what \notin Broken
NotYet(ent) == ent.state = "loading" => ent.items = [s \in Slots |-> Empty] /\ ent.todo = <<>>
Fixed(ent) == \A c \in Columns \ Written : ent.attr[c] = row[c]

EntityOK(ent) == PlanOrder(ent) /\ PlanHolds(ent) /\ Built(ent) /\ NotYet(ent) /\ Fixed(ent)
EntitiesOK == \A e \in DOMAIN ents : EntityOK(ents[e])

(* Only the latest entity is played, and only its save is under way. *)
Past == \A e \in 1 .. N - 1 : ents[e].state \in {"leaving", "switching", "gone"}
Frozen == Quiet => \A e \in 1 .. N - 1 : ents[e].state # "leaving" /\ ents[e].plan = NoPlan

OneRow == Quiet => \A i, j \in DOMAIN rows : rows[i].slot = rows[j].slot => i = j

(* The rows differ from the entity exactly in what its save has still to do. *)
Matches(r, item) == r.what = item.what /\ r.amount = item.count
RowDone(ent, i, r) ==
    IF Holds(ent.items[r.slot]) THEN Matches(r, ent.items[r.slot]) \/ <<i, r.slot>> \in ent.plan.toUpdate
                                ELSE <<i, r.slot>> \in ent.plan.toDelete
Exact(ent, rs) ==
    /\ \A i \in DOMAIN rs : RowDone(ent, i, rs[i])
    /\ \A s \in Slots : Holds(ent.items[s]) =>
         (s \in ent.plan.toInsert <=> \A i \in DOMAIN rs : rs[i].slot # s)

Saved(ent) == disturbed = {} /\ ent.state \in {"gone", "switching"} /\ ent.plan = NoPlan
SaveExact ==
    (Quiet /\ ents # <<>>) =>
      /\ (ents[N].plan # NoPlan /\ ~ents[N].plan.select) \/ Saved(ents[N]) => Exact(ents[N], rows)
      /\ (ents[N].plan # NoPlan /\ ~ents[N].plan.attributes) \/ Saved(ents[N]) => Stored(ents[N].attr) = row

(* Between the two reads of a load nothing is written. *)
Loading ==
    (Quiet /\ ents # <<>> /\ ents[N].state = "loading") =>
      /\ ents[N].attr = Loaded(row)
      /\ (disturbed = {} /\ N > 1) => Exact(ents[N - 1], rows) /\ Stored(ents[N - 1].attr) = row

InDatabase == \A k \in Kinds \ Broken : Amount(rows, k) + ground[k] = made[k]
WithPlayer == \A k \in Kinds \ Broken : Owned(ents[N].items, k) + ground[k] = made[k]
Counted ==
    disturbed = {} =>
      /\ ents = <<>> \/ ents[N].state = "loading" => InDatabase
      /\ ents # <<>> /\ ents[N].state # "loading" => WithPlayer

IInv ==
    /\ TypeOK /\ EntitiesOK /\ Past /\ Frozen /\ OneRow /\ SaveExact /\ Loading /\ Counted /\ UntouchedSafe

-----------------------------------------------------------------------------
(* What the steps do. *)

(* A step of the entity e, which becomes ent. *)
Step(e, ent) ==
    /\ e \in DOMAIN ents /\ ent \in Entities
    /\ ents' = [ents EXCEPT ![e] = ent]

LEMMA Lengths ==
    ASSUME TypeOK
    PROVE  /\ N \in Nat /\ DOMAIN ents = 1 .. N
           /\ \A e \in DOMAIN ents : ents[e] \in Entities
           /\ ents # <<>> => N \in DOMAIN ents /\ Last(ents) = ents[N]
           /\ ents = <<>> => N = 0
<1>1. ents \in Seq(Entities)
  BY DEF TypeOK
<1>2. N \in Nat /\ DOMAIN ents = 1 .. N /\ ents \in [1 .. N -> Entities]
  BY <1>1, LenProperties DEF N
<1>3. ents # <<>> => N \in Nat \ {0}
  BY <1>1, EmptySeq DEF N
<1>4. ents = <<>> => N = 0
  BY EmptySeq DEF N
<1> QED
  BY <1>2, <1>3, <1>4 DEF Last, N

LEMMA StepEnts ==
    ASSUME TypeOK, NEW e, NEW ent, Step(e, ent)
    PROVE  /\ ents' \in Seq(Entities) /\ N' = N /\ DOMAIN ents' = DOMAIN ents
           /\ ents # <<>> /\ ents' # <<>> /\ Last(ents') = ents'[N]
           /\ ents'[e] = ent
           /\ \A d \in DOMAIN ents : ents'[d] = IF d = e THEN ent ELSE ents[d]
<1>1. ents \in Seq(Entities) /\ e \in 1 .. Len(ents) /\ ent \in Entities /\ ents' = [ents EXCEPT ![e] = ent]
      /\ DOMAIN ents = 1 .. Len(ents)
  BY Lengths DEF TypeOK, Step, N
<1>2. /\ ents' \in Seq(Entities) /\ Len(ents') = Len(ents)
      /\ \A j \in 1 .. Len(ents) : ents'[j] = IF j = e THEN ent ELSE ents[j]
  BY <1>1, ExceptSeq
<1>3. DOMAIN ents' = 1 .. Len(ents)
  BY <1>2, LenProperties
<1>4. ents # <<>> /\ ents' # <<>>
  BY <1>1, <1>2, EmptySeq
<1> QED
  BY <1>1, <1>2, <1>3, <1>4 DEF N, Last

(* The entities a step leaves alone keep what EntityOK says, as long as    *)
(* the columns that are not written stay.                                  *)
LEMMA StepEntities ==
    ASSUME TypeOK, EntitiesOK, NEW e, NEW ent, Step(e, ent),
           \A c \in Columns \ Written : row'[c] = row[c],
           PlanOrder(ent), PlanHolds(ent), Built(ent), NotYet(ent),
           \A c \in Columns \ Written : ent.attr[c] = row[c]
    PROVE  EntitiesOK'
<1>1. DOMAIN ents' = DOMAIN ents /\ \A d \in DOMAIN ents : ents'[d] = IF d = e THEN ent ELSE ents[d]
  BY StepEnts
<1>2. \A d \in DOMAIN ents : EntityOK(ents[d])
  BY DEF EntitiesOK
<1> SUFFICES ASSUME NEW d \in DOMAIN ents' PROVE EntityOK(ents[d])'
  BY DEF EntitiesOK
<1>3. CASE d = e
  <2>1. ents'[d] = ent
    BY <1>1, <1>3
  <2> QED
    BY <2>1 DEF EntityOK, Fixed, PlanOrder, PlanHolds, Built, NotYet
<1>4. CASE d # e
  <2>1. ents'[d] = ents[d] /\ d \in DOMAIN ents
    BY <1>1, <1>4
  <2>2. EntityOK(ents[d])
    BY <1>2, <2>1
  <2> QED
    BY <2>1, <2>2 DEF EntityOK, Fixed, PlanOrder, PlanHolds, Built, NotYet
<1> QED
  BY <1>3, <1>4

-----------------------------------------------------------------------------
(* Playing: the packets, sent, handled and thrown away.                    *)

(* What playing may make of an entity, and what it never makes: items.     *)
Play(old, ent) ==
    /\ old.state \in {"in", "leaving", "switching"} /\ old.plan = NoPlan
    /\ \/ ent.plan = NoPlan /\ ent.state = old.state
       \/ ent.plan = Save /\ ent.state \in {"leaving", "switching"}
    /\ \A c \in Columns \ Written : ent.attr[c] = old.attr[c]
    /\ Built(ent)
    /\ \A s \in Slots : s \in ent.touched \/ (s \notin old.touched /\ ent.items[s] = old.items[s])
    /\ ent.items[0] # old.items[0] => \A s \in Bag : Holds(old.items[s])
Balance(old, ent) ==
    \A k \in Kinds \ Broken :
      Owned(ent.items, k) + ground'[k] + made[k] = Owned(old.items, k) + ground[k] + made'[k]
PlayStep(e, ent) ==
    /\ Step(e, ent) /\ Play(ents[e], ent) /\ Balance(ents[e], ent)
    /\ row' = row /\ rows' = rows /\ sent' \in Nat /\ crashes' = crashes
    /\ ground' \in [Kinds -> Nat] /\ made' \in [Kinds -> Nat]
    /\ disturbed \subseteq disturbed' /\ disturbed' \subseteq disturbed \cup {"late"}
    /\ ents[e].state = "switching" => "late" \in disturbed'

LEMMA PlansDiffer == NoPlan # Save /\ NoPlan \in Plans /\ Save \in Plans
  BY DEF NoPlan, Save, Plan, Plans

(* Only the latest entity is played. *)
LEMMA PlayLast ==
    ASSUME IInv, NEW e, NEW ent, PlayStep(e, ent), Quiet'
    PROVE  e = N /\ Quiet /\ ents[e].state # "switching"
<1>1. Quiet /\ "late" \notin disturbed'
  BY DEF PlayStep, Quiet
<1>2. ents[e].state \in {"in", "leaving"} /\ e \in DOMAIN ents
  BY <1>1 DEF PlayStep, Play, Step
<1>3. e \in 1 .. N /\ N \in Nat
  BY <1>2, Lengths DEF IInv
<1>4. CASE e # N
  <2>1. e \in 1 .. N - 1
    BY <1>3, <1>4
  <2> QED
    BY <1>1, <1>2, <2>1 DEF IInv, Past, Frozen
<1> QED
  BY <1>1, <1>2, <1>4

LEMMA PlayInv ==
    ASSUME IInv, NEW e, NEW ent, PlayStep(e, ent)
    PROVE  IInv'
<1> DEFINE old == ents[e]
<1>0. TypeOK /\ EntitiesOK /\ Step(e, ent) /\ Play(ents[e], ent) /\ e \in DOMAIN ents
  BY DEF IInv, PlayStep, Step
<1>1. /\ ents' \in Seq(Entities) /\ N' = N /\ DOMAIN ents' = DOMAIN ents /\ N \in Nat /\ DOMAIN ents = 1 .. N
      /\ ents # <<>> /\ ents' # <<>> /\ Last(ents') = ents'[N] /\ Last(ents) = ents[N]
      /\ ents'[e] = ent
      /\ \A d \in DOMAIN ents : ents'[d] = IF d = e THEN ent ELSE ents[d]
  BY <1>0, StepEnts, Lengths
<1>2. /\ row' = row /\ rows' = rows /\ disturbed \subseteq disturbed'
      /\ disturbed' \subseteq disturbed \cup {"late"}
  BY DEF PlayStep
<1>q. Quiet' => e = N /\ Quiet /\ ents[e].state # "switching"
  BY PlayLast
<1>3. TypeOK'
  BY <1>0, <1>1, <1>2 DEF TypeOK, PlayStep, N
<1>4. EntitiesOK'
  <2>1. EntityOK(ents[e])
    BY <1>0 DEF EntitiesOK
  <2>2. PlanOrder(ent) /\ PlanHolds(ent)
    BY <1>0 DEF Play, PlanOrder, PlanHolds, NoPlan, Save, Plan
  <2>3. Built(ent) /\ NotYet(ent)
    BY <1>0 DEF Play, NotYet
  <2>4. \A c \in Columns \ Written : ent.attr[c] = row[c]
    BY <1>0, <2>1 DEF Play, EntityOK, Fixed
  <2> QED
    BY <1>0, <1>2, <2>2, <2>3, <2>4, StepEntities
<1>5. Past'
  <2>1. ents[e].state \in {"leaving", "switching", "gone"} => ent.state \in {"leaving", "switching", "gone"}
    BY <1>0 DEF Play
  <2> QED
    BY <1>1, <2>1 DEF IInv, Past
<1>6. Frozen'
  BY <1>1, <1>q DEF IInv, Frozen
<1>7. OneRow'
  BY <1>2, <1>q DEF IInv, OneRow
<1>8. SaveExact'
  <2> SUFFICES ASSUME Quiet'
               PROVE  /\ ~(ents'[N].plan # NoPlan /\ ~ents'[N].plan.select)
                      /\ ~(ents'[N].plan # NoPlan /\ ~ents'[N].plan.attributes)
                      /\ ~Saved(ents[N])'
    BY <1>1 DEF SaveExact
  <2>1. ents'[N] = ent /\ ent.plan \in {NoPlan, Save} /\ "late" \notin disturbed'
    BY <1>0, <1>1, <1>q DEF Play, Quiet
  <2>2. ent.plan = NoPlan => ent.state \notin {"gone", "switching"}
    BY <1>0, <1>q, PlansDiffer DEF Play
  <2> QED
    BY <1>1, <2>1, <2>2 DEF Save, Plan, Saved
<1>9. Loading'
  <2>1. Quiet' => ents'[N].state # "loading"
    BY <1>0, <1>1, <1>q DEF Play
  <2> QED
    BY <1>1, <2>1 DEF Loading
<1>10. Counted'
  <2> SUFFICES ASSUME disturbed' = {} PROVE ents'[N].state # "loading" /\ WithPlayer'
    BY <1>1 DEF Counted
  <2>1. disturbed = {} /\ e = N /\ ents'[N] = ent
    BY <1>1, <1>2, <1>q DEF Quiet
  <2>2. old.state # "loading" /\ ent.state # "loading"
    BY <1>0 DEF Play
  <2>3. WithPlayer
    BY <1>1, <2>1, <2>2 DEF IInv, Counted
  <2> SUFFICES ASSUME NEW k \in Kinds \ Broken PROVE Owned(ent.items, k) + ground'[k] = made'[k]
    BY <1>1, <2>1, <2>2 DEF WithPlayer
  <2>4. Owned(ents[e].items, k) + ground[k] = made[k]
    BY <2>1, <2>3 DEF WithPlayer
  <2>5. Owned(ent.items, k) + ground'[k] + made[k] = Owned(ents[e].items, k) + ground[k] + made'[k]
    BY DEF PlayStep, Balance
  <2>6. Owned(ent.items, k) \in Nat
    <3>1. ent.items \in [Slots -> Items]
      BY <1>0 DEF Step, Entities
    <3> QED
      BY <3>1, OwnedRest
  <2>7. {ground[k], ground'[k], made[k], made'[k]} \subseteq Nat
    BY <1>0, <1>3 DEF TypeOK
  <2>8. Owned(ents[e].items, k) \in Nat
    <3>1. ents[e].items \in [Slots -> Items]
      BY <1>0, Lengths DEF Entities
    <3> QED
      BY <3>1, OwnedRest
  <2> QED
    BY <2>4, <2>5, <2>6, <2>7, <2>8
<1>11. UntouchedSafe'
  <2> SUFFICES ASSUME Quiet', NEW s \in Slots \ ent.touched, Holds(ent.items[s]), e = N, Quiet
               PROVE  \E i \in DOMAIN rows : rows[i] = [slot |-> s, what |-> ent.items[s].what, amount |-> ent.items[s].count]
    BY <1>1, <1>2, <1>q DEF UntouchedSafe, Quiet
  <2>1. s \notin ents[N].touched /\ ent.items[s] = ents[N].items[s]
    BY <1>0 DEF Play
  <2> QED
    BY <1>1, <2>1 DEF IInv, UntouchedSafe, Quiet
<1> QED
  BY <1>3, <1>4, <1>5, <1>6, <1>7, <1>8, <1>9, <1>10, <1>11 DEF IInv

(* The entity that Handled makes of what the handler left. *)
After(e, ent) ==
    [ent EXCEPT !.todo = Tail(ents[e].todo),
                !.touched = ents[e].touched \cup {s \in Slots : ent.items[s] # ents[e].items[s]}]

(* What a handler may leave, in its own words. *)
Left(old, ent) ==
    /\ \/ ent.plan = NoPlan /\ ent.state = old.state
       \/ ent.plan = Save /\ ent.state \in {"leaving", "switching"}
    /\ \A c \in Columns \ Written : ent.attr[c] = old.attr[c]
    /\ Built(ent)
    /\ ent.items[0] # old.items[0] => \A s \in Bag : Holds(old.items[s])

LEMMA HandledPlays ==
    ASSUME IInv, NEW e \in DOMAIN ents, NEW op, Handles(e, op),
           NEW ent \in Entities, Handled(e, ent), Left(ents[e], ent), Balance(ents[e], ent),
           row' = row, rows' = rows, sent' = sent, crashes' = crashes,
           ground' \in [Kinds -> Nat], made' \in [Kinds -> Nat]
    PROVE  PlayStep(e, After(e, ent))
<1>1. ents[e] \in Entities /\ TypeOK
  BY Lengths DEF IInv
<1>2. ents[e].todo \in Seq(Packets) /\ ents[e].todo # <<>> /\ ents[e].touched \subseteq Slots
  BY <1>1 DEF Entities, Handles
<1>3. Tail(ents[e].todo) \in Seq(Packets)
  BY <1>2, HeadTailProperties
<1> DEFINE new == After(e, ent)
<1>4. /\ new \in Entities
      /\ new.state = ent.state /\ new.plan = ent.plan /\ new.items = ent.items /\ new.attr = ent.attr
      /\ new.touched = ents[e].touched \cup {s \in Slots : ent.items[s] # ents[e].items[s]}
  BY <1>2, <1>3 DEF After, Entities
<1>5. ents' = [ents EXCEPT ![e] = new]
  BY DEF Handled, After
<1>6. disturbed' = disturbed \cup (IF ents[e].state = "switching" THEN {"late"} ELSE {})
  BY DEF Handled
<1> HIDE DEF new
<1>7. Step(e, new)
  BY <1>4, <1>5 DEF Step
<1>8. Play(ents[e], new)
  BY <1>4 DEF Play, Left, Handles, Built
<1>9. Balance(ents[e], new)
  BY <1>4 DEF Balance
<1>10. sent' \in Nat
  BY <1>1 DEF TypeOK
<1>11. PlayStep(e, new)
  BY <1>6, <1>7, <1>8, <1>9, <1>10 DEF PlayStep
<1> QED
  BY <1>11 DEF new

(* A packet handled: where it is, and what it is. *)
LEMMA HandlesPacket ==
    ASSUME IInv, NEW e \in DOMAIN ents, NEW op, Handles(e, op)
    PROVE  /\ ents[e] \in Entities /\ ents[e].plan = NoPlan /\ ents[e].items \in [Slots -> Items]
           /\ Head(ents[e].todo) \in Packets /\ Head(ents[e].todo).op = op
           /\ Built(ents[e])
           /\ ground \in [Kinds -> Nat] /\ made \in [Kinds -> Nat]
<1>1. ents[e] \in Entities /\ TypeOK /\ EntityOK(ents[e])
  BY Lengths DEF IInv, EntitiesOK
<1>2. ents[e].todo \in Seq(Packets) /\ ents[e].todo # <<>>
  BY <1>1 DEF Entities, Handles
<1>3. Head(ents[e].todo) \in Packets
  BY <1>2, HeadTailProperties
<1> QED
  BY <1>1, <1>3 DEF Entities, Handles, EntityOK, TypeOK

LEMMA BalanceSame ==
    ASSUME NEW old, NEW ent, ent.items = old.items, ground' = ground, made' = made,
           old.items \in [Slots -> Items], ground \in [Kinds -> Nat], made \in [Kinds -> Nat]
    PROVE  Balance(old, ent)
  BY OwnedRest DEF Balance

LEMMA ChangeMapReqPlays ==
    ASSUME IInv, NEW e \in DOMAIN ents, ProcessChangeMapReq(e)
    PROVE  \E ent : PlayStep(e, ent)
<1>1. Handles(e, "enter")
  BY DEF ProcessChangeMapReq
<1>2. /\ ents[e] \in Entities /\ ents[e].plan = NoPlan /\ ents[e].items \in [Slots -> Items] /\ Built(ents[e])
      /\ ground \in [Kinds -> Nat] /\ made \in [Kinds -> Nat]
  BY <1>1, HandlesPacket
<1> DEFINE ent == [ents[e] EXCEPT !.onMap = TRUE]
<1>3. /\ Handled(e, ent)
      /\ row' = row /\ rows' = rows /\ sent' = sent /\ crashes' = crashes /\ ground' = ground /\ made' = made
  BY DEF ProcessChangeMapReq
<1>4. /\ ent \in Entities /\ ent.items = ents[e].items /\ ent.plan = NoPlan
      /\ ent.state = ents[e].state /\ ent.attr = ents[e].attr
  BY <1>2 DEF Entities
<1> HIDE DEF ent
<1>5. Left(ents[e], ent)
  BY <1>2, <1>4 DEF Left, Built
<1>6. Balance(ents[e], ent)
  BY <1>2, <1>3, <1>4, BalanceSame
<1>7. PlayStep(e, After(e, ent))
  BY <1>1, <1>2, <1>3, <1>4, <1>5, <1>6, HandledPlays
<1> QED
  BY <1>7

(* The place is among the columns that are written. *)
LEMMA DisplacedAttr ==
    ASSUME NEW attr \in [Columns -> Nat]
    PROVE  /\ Displaced(attr) \in [Columns -> Nat]
           /\ \A c \in Columns \ Written : Displaced(attr)[c] = attr[c]
           /\ \A m \in Nat : /\ [Displaced(attr) EXCEPT !["map"] = m] \in [Columns -> Nat]
                             /\ \A c \in Columns \ Written : [Displaced(attr) EXCEPT !["map"] = m][c] = attr[c]
<1>1. {"x", "y", "map"} \subseteq Columns /\ {"x", "y", "map"} \subseteq Written
  BY DEF Columns, Written, PositionRow, PositionUpdate
<1>2. /\ Displaced(attr) \in [Columns -> Nat]
      /\ \A c \in Columns \ {"x", "y"} : Displaced(attr)[c] = attr[c]
  BY <1>1 DEF Displaced
<1> QED
  BY <1>1, <1>2

LEMMA MovePlays ==
    ASSUME IInv, NEW e \in DOMAIN ents, Move(e)
    PROVE  \E ent : PlayStep(e, ent)
<1>1. Handles(e, "move")
  BY DEF Move
<1>2. /\ ents[e] \in Entities /\ ents[e].plan = NoPlan /\ ents[e].items \in [Slots -> Items] /\ Built(ents[e])
      /\ ground \in [Kinds -> Nat] /\ made \in [Kinds -> Nat]
  BY <1>1, HandlesPacket
<1> DEFINE there == Displaced(ents[e].attr)
           ent == [ents[e] EXCEPT !.attr = there]
<1>3. /\ Handled(e, ent)
      /\ row' = row /\ rows' = rows /\ sent' = sent /\ crashes' = crashes /\ ground' = ground /\ made' = made
  BY DEF Move
<1>a. ents[e].attr \in [Columns -> Nat]
  BY <1>2 DEF Entities
<1>b. there \in [Columns -> Nat] /\ \A c \in Columns \ Written : there[c] = ents[e].attr[c]
  BY <1>a, DisplacedAttr
<1> HIDE DEF there
<1>4. /\ ent \in Entities /\ ent.items = ents[e].items /\ ent.plan = NoPlan
      /\ ent.state = ents[e].state /\ ent.attr = there
  BY <1>2, <1>b DEF Entities
<1> HIDE DEF ent
<1>5. Left(ents[e], ent)
  BY <1>2, <1>4, <1>b DEF Left, Built
<1>6. Balance(ents[e], ent)
  BY <1>2, <1>3, <1>4, BalanceSame
<1>7. PlayStep(e, After(e, ent))
  BY <1>1, <1>2, <1>3, <1>4, <1>5, <1>6, HandledPlays
<1> QED
  BY <1>7

LEMMA TeleportPlays ==
    ASSUME IInv, NEW e \in DOMAIN ents, Teleport(e)
    PROVE  \E ent : PlayStep(e, ent)
<1>1. Handles(e, "tp")
  BY DEF Teleport
<1>2. /\ ents[e] \in Entities /\ ents[e].plan = NoPlan /\ ents[e].items \in [Slots -> Items] /\ Built(ents[e])
      /\ ground \in [Kinds -> Nat] /\ made \in [Kinds -> Nat]
      /\ Head(ents[e].todo) \in Packets /\ Head(ents[e].todo).op = "tp"
  BY <1>1, HandlesPacket
<1> DEFINE m == Head(ents[e].todo).map
           there == [Displaced(ents[e].attr) EXCEPT !["map"] = m]
           within == [ents[e] EXCEPT !.attr = there]
           off == [ents[e] EXCEPT !.attr = there, !.plan = Save,
                                  !.state = IF ents[e].state = "leaving" THEN "leaving" ELSE "switching"]
           ent == IF ents[e].attr["map"] = m THEN within ELSE off
<1>3. /\ Handled(e, ent)
      /\ row' = row /\ rows' = rows /\ sent' = sent /\ crashes' = crashes /\ ground' = ground /\ made' = made
  BY DEF Teleport
<1>a. ents[e].attr \in [Columns -> Nat] /\ m \in Nat
  BY <1>2 DEF Entities, Packets
<1>b. there \in [Columns -> Nat] /\ \A c \in Columns \ Written : there[c] = ents[e].attr[c]
  BY <1>a, DisplacedAttr
<1> HIDE DEF there, m
<1>4. /\ within \in Entities /\ within.items = ents[e].items /\ within.plan = NoPlan
      /\ within.state = ents[e].state /\ within.attr = there
  BY <1>2, <1>b DEF Entities
<1>5. /\ off \in Entities /\ off.items = ents[e].items /\ off.plan = Save
      /\ off.state \in {"leaving", "switching"} /\ off.attr = there
  BY <1>2, <1>b, PlansDiffer DEF Entities
<1> HIDE DEF within, off
<1>6. /\ ent \in Entities /\ ent.items = ents[e].items /\ ent.attr = there
      /\ \/ ent.plan = NoPlan /\ ent.state = ents[e].state
         \/ ent.plan = Save /\ ent.state \in {"leaving", "switching"}
  BY <1>4, <1>5
<1> HIDE DEF ent
<1>7. Left(ents[e], ent)
  BY <1>2, <1>6, <1>b DEF Left, Built
<1>8. Balance(ents[e], ent)
  BY <1>2, <1>3, <1>6, BalanceSame
<1>9. PlayStep(e, After(e, ent))
  BY <1>1, <1>2, <1>3, <1>6, <1>7, <1>8, HandledPlays
<1> QED
  BY <1>9

(* The inventory operations. *)
LEMMA FindNextEmptySlot ==
    ASSUME NEW items
    PROVE  LET r == findNextEmptySlot(items)
           IN  \/ r \in Bag /\ ~Holds(items[r])
               \/ r = 0 /\ \A s \in Bag : Holds(items[s])
<1> DEFINE free == {s \in Bag : ~Holds(items[s])}
<1>1. free # {} => Min(free) \in free
  <2>1. free \subseteq Nat
    BY CharacterAssumption DEF Bag
  <2> QED
    BY <2>1, MinIn
<1>2. findNextEmptySlot(items) = IF free = {} THEN 0 ELSE Min(free)
  BY DEF findNextEmptySlot
<1> QED
  BY <1>1, <1>2

LEMMA SlotsBag == /\ 0 \in Slots /\ Bag \subseteq Slots /\ 0 \notin Bag /\ (1 .. MaxEquip - 1) \subseteq Slots
                  /\ Slots \subseteq Nat /\ \A s \in Slots : s < MaxItems
                  /\ \A s \in Nat : s < MaxItems => s \in Slots
  BY CharacterAssumption DEF Slots, Bag

LEMMA SwapItems ==
    ASSUME NEW items \in [Slots -> Items], NEW a \in 1 .. MaxEquip - 1, NEW b \in Slots
    PROVE  LET r == swapItems(items, a, b)
           IN  /\ r \in [Slots -> Items]
               /\ \A s \in Slots : \E t \in Slots : r[s] = items[t]
               /\ \A k : Owned(r, k) = Owned(items, k)
               /\ r[0] # items[0] => \A s \in Bag : Holds(items[s])
<1> DEFINE y == IF b = 0 THEN findNextEmptySlot(items) ELSE b
           r == [items EXCEPT ![a] = items[y], ![y] = items[a]]
<1>1. a \in Slots /\ a # 0
  BY SlotsBag
<1>2. y \in Slots /\ (y = 0 => \A s \in Bag : Holds(items[s]))
  BY SlotsBag, FindNextEmptySlot
<1>3. swapItems(items, a, b) = IF a >= MaxItems \/ b >= MaxItems \/ a = b THEN items ELSE r
  BY <1>1 DEF swapItems
<1> HIDE DEF y
<1>4. /\ r \in [Slots -> Items] /\ r[a] = items[y] /\ r[y] = items[a]
      /\ \A s \in Slots \ {a, y} : r[s] = items[s]
  BY <1>1, <1>2
<1> HIDE DEF r
<1>5. \A s \in Slots : \E t \in Slots : r[s] = items[t]
  BY <1>1, <1>2, <1>4
<1>6. \A k : Owned(r, k) = Owned(items, k)
  BY <1>1, <1>2, <1>4, OwnedSwap
<1>7. r[0] # items[0] => \A s \in Bag : Holds(items[s])
  BY <1>1, <1>2, <1>4, SlotsBag
<1>8. CASE swapItems(items, a, b) = r
  BY <1>4, <1>5, <1>6, <1>7, <1>8
<1>9. CASE swapItems(items, a, b) = items
  BY <1>9
<1> QED
  BY <1>3, <1>8, <1>9

LEMMA EquipPlays ==
    ASSUME IInv, NEW e \in DOMAIN ents, NEW may \in BOOLEAN, ProcessEquip(e, may)
    PROVE  \E ent : PlayStep(e, ent)
<1>1. Handles(e, "equip")
  BY DEF ProcessEquip
<1>2. /\ ents[e] \in Entities /\ ents[e].plan = NoPlan /\ ents[e].items \in [Slots -> Items] /\ Built(ents[e])
      /\ ground \in [Kinds -> Nat] /\ made \in [Kinds -> Nat]
      /\ Head(ents[e].todo) \in Packets /\ Head(ents[e].todo).op = "equip"
  BY <1>1, HandlesPacket
<1> DEFINE p == Head(ents[e].todo)
           items == ents[e].items
           allowed == /\ 1 <= p.to /\ p.to < MaxEquip
                      /\ may \/ ~(Holds(items[p.to]) \/ Holds(items[p.from]))
           swapped == swapItems(items, p.to, p.from)
           with == [ents[e] EXCEPT !.items = swapped]
           ent == IF allowed THEN with ELSE ents[e]
<1>3. /\ Handled(e, ent)
      /\ row' = row /\ rows' = rows /\ sent' = sent /\ crashes' = crashes /\ ground' = ground /\ made' = made
  BY DEF ProcessEquip
<1>4. p.to \in 0 .. MaxEquip /\ p.from \in Slots
  BY <1>2 DEF Packets
<1>5. CASE allowed
  <2>1. p.to \in 1 .. MaxEquip - 1
    BY <1>4, <1>5, CharacterAssumption
  <2>2. /\ swapped \in [Slots -> Items]
        /\ \A s \in Slots : \E t \in Slots : swapped[s] = items[t]
        /\ \A k : Owned(swapped, k) = Owned(items, k)
        /\ swapped[0] # items[0] => \A s \in Bag : Holds(items[s])
    BY <1>2, <1>4, <2>1, SwapItems
  <2>3. Handled(e, with)
    BY <1>3, <1>5
  <2> HIDE DEF swapped, allowed, p
  <2>4. /\ with \in Entities /\ with.items = swapped /\ with.plan = NoPlan
        /\ with.state = ents[e].state /\ with.attr = ents[e].attr
    BY <1>2, <2>2 DEF Entities
  <2> HIDE DEF with
  <2>5. Built(with)
    BY <1>2, <2>2, <2>4 DEF Built
  <2>6. Left(ents[e], with)
    BY <2>2, <2>4, <2>5 DEF Left
  <2>7. Balance(ents[e], with)
    <3>1. \A k : Owned(with.items, k) = Owned(ents[e].items, k)
      BY <2>2, <2>4
    <3>2. \A k : Owned(ents[e].items, k) \in Nat
      BY <1>2, OwnedRest
    <3> QED
      BY <1>2, <1>3, <3>1, <3>2 DEF Balance
  <2>8. PlayStep(e, After(e, with))
    BY <1>1, <1>2, <1>3, <2>3, <2>4, <2>6, <2>7, HandledPlays
  <2> QED
    BY <2>8
<1>6. CASE ~allowed
  <2>1. Handled(e, ents[e])
    BY <1>3, <1>6
  <2>2. Left(ents[e], ents[e])
    BY <1>2 DEF Left
  <2>3. Balance(ents[e], ents[e])
    BY <1>2, <1>3, BalanceSame
  <2>4. PlayStep(e, After(e, ents[e]))
    BY <1>1, <1>2, <1>3, <2>1, <2>2, <2>3, HandledPlays
  <2> QED
    BY <2>4
<1> QED
  BY <1>5, <1>6

LEMMA DropPlays ==
    ASSUME IInv, NEW e \in DOMAIN ents, DropItem(e)
    PROVE  \E ent : PlayStep(e, ent)
<1>1. Handles(e, "drop")
  BY DEF DropItem
<1>2. /\ ents[e] \in Entities /\ ents[e].plan = NoPlan /\ ents[e].items \in [Slots -> Items] /\ Built(ents[e])
      /\ ground \in [Kinds -> Nat] /\ made \in [Kinds -> Nat]
      /\ Head(ents[e].todo) \in Packets /\ Head(ents[e].todo).op = "drop"
  BY <1>1, HandlesPacket
<1> DEFINE p == Head(ents[e].todo)
           item == ents[e].items[p.slot]
           count == IF item.count < p.quantity THEN item.count ELSE p.quantity
           left == IF count < item.count THEN [what |-> item.what, count |-> item.count - count] ELSE Empty
           items == [ents[e].items EXCEPT ![p.slot] = left]
           ent == [ents[e] EXCEPT !.items = items]
<1>3. row' = row /\ rows' = rows /\ sent' = sent /\ crashes' = crashes /\ made' = made
  BY DEF DropItem
<1>4. p.slot \in 0 .. MaxItems /\ p.quantity \in 0 .. 2
  BY <1>2 DEF Packets
<1>5. CASE p.slot = 0 \/ p.slot >= MaxItems
  <2>1. Handled(e, ents[e]) /\ ground' = ground
    BY <1>5 DEF DropItem
  <2>2. Left(ents[e], ents[e])
    BY <1>2 DEF Left
  <2>3. Balance(ents[e], ents[e])
    BY <1>2, <1>3, <2>1, BalanceSame
  <2>4. PlayStep(e, After(e, ents[e]))
    BY <1>1, <1>2, <1>3, <2>1, <2>2, <2>3, HandledPlays
  <2> QED
    BY <2>4
<1>6. CASE ~(p.slot = 0 \/ p.slot >= MaxItems)
  <2>1. /\ Handled(e, ent)
        /\ ground' = IF Holds(item) THEN [ground EXCEPT ![item.what] = ground[item.what] + count] ELSE ground
    BY <1>6 DEF DropItem
  <2>2. p.slot \in Slots /\ p.slot # 0
    BY <1>4, <1>6, SlotsBag, CharacterAssumption
  <2> HIDE DEF p
  <2>3. item \in Items
    BY <1>2, <2>2
  <2> DEFINE a == p.slot
  <2>4. count \in Nat /\ count <= item.count /\ item.count \in Nat /\ item.what \in Kinds \cup {NoItem}
    BY <1>4, <2>3 DEF Items
  <2> HIDE DEF item, count
  <2>5. /\ left \in Items /\ left.what \in {item.what, NoItem}
        /\ \A k \in Kinds : Share(left, k) + (IF item.what = k THEN count ELSE 0) = Share(item, k)
        /\ \A k \in Kinds : Share(left, k) \in Nat /\ Share(item, k) \in Nat
    BY <2>4, CharacterAssumption DEF Items, Empty, Share
  <2> HIDE DEF left
  <2>6. /\ items \in [Slots -> Items] /\ items[a] = left /\ \A s \in Slots \ {a} : items[s] = ents[e].items[s]
    BY <1>2, <2>2, <2>5
  <2> HIDE DEF items
  <2>7. /\ ent \in Entities /\ ent.items = items /\ ent.plan = NoPlan
        /\ ent.state = ents[e].state /\ ent.attr = ents[e].attr
    BY <1>2, <2>6 DEF Entities
  <2> HIDE DEF ent
  <2>8. Built(ent)
    <3>1. NoItem \notin Broken /\ item.what \notin Broken
      BY <1>2, <2>2, CharacterAssumption DEF Built, item
    <3> QED
      BY <1>2, <2>5, <2>6, <2>7, <3>1 DEF Built
  <2>9. ents[e].items[0] = ent.items[0]
    BY <2>2, <2>6, <2>7, SlotsBag
  <2>10. Left(ents[e], ent)
    BY <2>7, <2>8, <2>9 DEF Left
  <2>11. \A k \in Kinds : /\ ground'[k] = ground[k] + (IF item.what = k THEN count ELSE 0)
                          /\ ground'[k] \in Nat
    BY <1>2, <2>1, <2>4, CharacterAssumption DEF Holds
  <2>12. ground' \in [Kinds -> Nat]
    BY <1>2, <2>1, <2>4 DEF Holds
  <2>13. Balance(ents[e], ent)
    <3> SUFFICES ASSUME NEW k \in Kinds \ Broken
                 PROVE  Owned(items, k) + ground'[k] + made[k] = Owned(ents[e].items, k) + ground[k] + made'[k]
      BY <2>7 DEF Balance
    <3>1. Owned(items, k) + Share(ents[e].items[a], k) = Owned(ents[e].items, k) + Share(items[a], k)
      BY <1>2, <2>2, <2>6, OwnedChange
    <3>2. Owned(items, k) \in Nat /\ Owned(ents[e].items, k) \in Nat /\ ground[k] \in Nat /\ made[k] \in Nat
      BY <1>2, <2>6, OwnedRest
    <3>3. Share(item, k) = Share(left, k) + (IF item.what = k THEN count ELSE 0)
          /\ Share(left, k) \in Nat /\ Share(item, k) \in Nat
      BY <2>5
    <3>4. ents[e].items[a] = item /\ items[a] = left
      BY <2>6 DEF item
    <3> QED
      BY <1>3, <2>4, <2>11, <3>1, <3>2, <3>3, <3>4
  <2>14. made' \in [Kinds -> Nat]
    BY <1>2, <1>3
  <2>15. PlayStep(e, After(e, ent))
    BY <1>1, <1>3, <2>1, <2>7, <2>10, <2>12, <2>13, <2>14, HandledPlays
  <2> QED
    BY <2>15
<1> QED
  BY <1>5, <1>6

LEMMA AddItemPlays ==
    ASSUME IInv, NEW e \in DOMAIN ents, AddItem(e)
    PROVE  \E ent : PlayStep(e, ent)
<1>1. Handles(e, "item")
  BY DEF AddItem
<1>2. /\ ents[e] \in Entities /\ ents[e].plan = NoPlan /\ ents[e].items \in [Slots -> Items] /\ Built(ents[e])
      /\ ground \in [Kinds -> Nat] /\ made \in [Kinds -> Nat]
      /\ Head(ents[e].todo) \in Packets /\ Head(ents[e].todo).op = "item"
  BY <1>1, HandlesPacket
<1> DEFINE k == Head(ents[e].todo).kind
           a == findNextEmptySlot(ents[e].items)
           new == [what |-> k, count |-> 1]
           items == [ents[e].items EXCEPT ![a] = new]
           ent == [ents[e] EXCEPT !.items = items]
<1>3. row' = row /\ rows' = rows /\ sent' = sent /\ crashes' = crashes /\ ground' = ground
  BY DEF AddItem
<1>4. k \in Kinds
  BY <1>2 DEF Packets
<1>5. CASE k \in Broken \/ a = 0
  <2>1. Handled(e, ents[e]) /\ made' = made
    BY <1>5 DEF AddItem
  <2>2. Left(ents[e], ents[e])
    BY <1>2 DEF Left
  <2>3. Balance(ents[e], ents[e])
    BY <1>2, <1>3, <2>1, BalanceSame
  <2>4. PlayStep(e, After(e, ents[e]))
    BY <1>1, <1>2, <1>3, <2>1, <2>2, <2>3, HandledPlays
  <2> QED
    BY <2>4
<1>6. CASE ~(k \in Broken \/ a = 0)
  <2>1. Handled(e, ent) /\ made' = [made EXCEPT ![k] = made[k] + 1]
    BY <1>6 DEF AddItem
  <2>2. a \in Slots /\ a # 0 /\ ~Holds(ents[e].items[a])
    BY <1>6, FindNextEmptySlot, SlotsBag
  <2> HIDE DEF a, k
  <2>3. new \in Items /\ new.what = k /\ new.count = 1
    BY <1>4 DEF Items
  <2> HIDE DEF new
  <2>4. /\ items \in [Slots -> Items] /\ items[a] = new /\ \A s \in Slots \ {a} : items[s] = ents[e].items[s]
    BY <1>2, <2>2, <2>3
  <2> HIDE DEF items
  <2>5. /\ ent \in Entities /\ ent.items = items /\ ent.plan = NoPlan
        /\ ent.state = ents[e].state /\ ent.attr = ents[e].attr
    BY <1>2, <2>4 DEF Entities
  <2> HIDE DEF ent
  <2>6. Built(ent)
    BY <1>2, <1>6, <2>3, <2>4, <2>5 DEF Built
  <2>7. ents[e].items[0] = ent.items[0]
    BY <2>2, <2>4, <2>5, SlotsBag
  <2>8. Left(ents[e], ent)
    BY <2>5, <2>6, <2>7 DEF Left
  <2>9. /\ made' \in [Kinds -> Nat]
        /\ \A j \in Kinds : made'[j] = made[j] + (IF j = k THEN 1 ELSE 0)
    BY <1>2, <1>4, <2>1
  <2>10. Balance(ents[e], ent)
    <3> SUFFICES ASSUME NEW j \in Kinds \ Broken
                 PROVE  Owned(items, j) + ground'[j] + made[j] = Owned(ents[e].items, j) + ground[j] + made'[j]
      BY <2>5 DEF Balance
    <3>1. Owned(items, j) + Share(ents[e].items[a], j) = Owned(ents[e].items, j) + Share(items[a], j)
      BY <1>2, <2>2, <2>4, OwnedChange
    <3>2. Owned(items, j) \in Nat /\ Owned(ents[e].items, j) \in Nat /\ ground[j] \in Nat /\ made[j] \in Nat
      BY <1>2, <2>4, OwnedRest
    <3>3. Share(ents[e].items[a], j) = 0
      BY <2>2, CharacterAssumption DEF Holds, Share
    <3>4. Share(items[a], j) = IF j = k THEN 1 ELSE 0
      BY <2>3, <2>4 DEF Share
    <3> QED
      BY <1>3, <2>9, <3>1, <3>2, <3>3, <3>4
  <2>11. ground' \in [Kinds -> Nat]
    BY <1>2, <1>3
  <2>12. PlayStep(e, After(e, ent))
    BY <1>1, <1>3, <2>1, <2>5, <2>8, <2>9, <2>10, <2>11, HandledPlays
  <2> QED
    BY <2>12
<1> QED
  BY <1>5, <1>6

(* Packets that are sent, and packets of a leaver that go to nobody. *)
LEMMA QueueingPlays ==
    ASSUME IInv, NEW e \in DOMAIN ents, (\E p \in Packets : Send(e, p)) \/ Discard(e)
    PROVE  \E ent : PlayStep(e, ent)
<1>1. ents[e] \in Entities /\ TypeOK /\ EntityOK(ents[e])
  BY Lengths DEF IInv, EntitiesOK
<1>2. ents[e].todo \in Seq(Packets) /\ ents[e].items \in [Slots -> Items]
  BY <1>1 DEF Entities
<1>3. ground \in [Kinds -> Nat] /\ made \in [Kinds -> Nat] /\ sent \in Nat
  BY <1>1 DEF TypeOK
<1>4. ASSUME NEW todo \in Seq(Packets), ents' = [ents EXCEPT ![e] = [ents[e] EXCEPT !.todo = todo]],
             ents[e].state \in {"in", "leaving"}, ents[e].plan = NoPlan, sent' \in Nat,
             UNCHANGED <<row, rows, ground, made, crashes, disturbed>>
      PROVE  \E ent : PlayStep(e, ent)
  <2> DEFINE ent == [ents[e] EXCEPT !.todo = todo]
  <2>1. /\ ent \in Entities /\ ent.items = ents[e].items /\ ent.plan = ents[e].plan
        /\ ent.state = ents[e].state /\ ent.attr = ents[e].attr /\ ent.touched = ents[e].touched
    BY <1>1 DEF Entities
  <2>2. Step(e, ent)
    BY <1>4, <2>1 DEF Step
  <2> HIDE DEF ent
  <2>3. Play(ents[e], ent)
    BY <1>1, <1>4, <2>1 DEF Play, EntityOK, Built
  <2>4. Balance(ents[e], ent)
    BY <1>2, <1>3, <1>4, <2>1, BalanceSame
  <2>5. PlayStep(e, ent)
    BY <1>3, <1>4, <2>2, <2>3, <2>4 DEF PlayStep
  <2> QED
    BY <2>5
<1>5. CASE \E p \in Packets : Send(e, p)
  <2>1. PICK p \in Packets : Send(e, p)
    BY <1>5
  <2>2. Append(ents[e].todo, p) \in Seq(Packets)
    BY <1>2
  <2>3. ents[e].state = "in" /\ ents[e].plan = NoPlan /\ sent' \in Nat
    BY <1>1, <1>3, <2>1 DEF Send, EntityOK, PlanOrder
  <2> QED
    BY <1>4, <2>1, <2>2, <2>3 DEF Send
<1>6. CASE Discard(e)
  <2>1. ents[e].todo # <<>> /\ ents[e].state = "leaving" /\ ents[e].plan = NoPlan
    BY <1>6 DEF Discard
  <2>2. Tail(ents[e].todo) \in Seq(Packets)
    BY <1>2, <2>1, HeadTailProperties
  <2>3. sent' \in Nat
    BY <1>3, <1>6 DEF Discard
  <2> QED
    BY <1>4, <1>6, <2>1, <2>2, <2>3 DEF Discard
<1> QED
  BY <1>5, <1>6

-----------------------------------------------------------------------------
(* Leaving, destroying, crashing: what the player holds stays as it is.    *)
LeaveStep(e, ent) ==
    /\ Step(e, ent)
    /\ ent.items = ents[e].items /\ ent.attr = ents[e].attr /\ ent.touched = ents[e].touched
    /\ ent.state \in {"leaving", "gone"} /\ ent.plan \in {NoPlan, Save}
    /\ row' = row /\ rows' = rows /\ ground' = ground /\ made' = made /\ sent' = sent /\ crashes' \in Nat
    /\ disturbed \subseteq disturbed' /\ disturbed' \subseteq disturbed \cup {"early", "crash"}
    /\ ent.state = "gone" /\ ent.plan = NoPlan => disturbed' # {}
    /\ \/ Quiet => e = N /\ (disturbed' = {} => ents[e].state # "loading")
       \/ disturbed' # {} /\ ent.state = "gone" /\ ent.plan = NoPlan

LEMMA LeaveInv ==
    ASSUME IInv, NEW e, NEW ent, LeaveStep(e, ent)
    PROVE  IInv'
<1>0. TypeOK /\ EntitiesOK /\ Step(e, ent) /\ e \in DOMAIN ents
  BY DEF IInv, LeaveStep, Step
<1>1. /\ ents' \in Seq(Entities) /\ N' = N /\ DOMAIN ents' = DOMAIN ents /\ N \in Nat /\ DOMAIN ents = 1 .. N
      /\ ents # <<>> /\ ents' # <<>> /\ Last(ents') = ents'[N] /\ Last(ents) = ents[N]
      /\ ents'[e] = ent
      /\ \A d \in DOMAIN ents : ents'[d] = IF d = e THEN ent ELSE ents[d]
  BY <1>0, StepEnts, Lengths
<1>2. /\ row' = row /\ rows' = rows /\ ground' = ground /\ made' = made
      /\ disturbed \subseteq disturbed' /\ disturbed' \subseteq disturbed \cup {"early", "crash"}
      /\ ent.items = ents[e].items /\ ent.attr = ents[e].attr /\ ent.touched = ents[e].touched
      /\ ent.state \in {"leaving", "gone"} /\ ent.plan \in {NoPlan, Save}
      /\ ent.state = "gone" /\ ent.plan = NoPlan => disturbed' # {}
  BY DEF LeaveStep
<1>q. Quiet' <=> Quiet
  BY <1>2 DEF Quiet
<1>c. \/ Quiet => e = N /\ (disturbed' = {} => ents[e].state # "loading")
      \/ disturbed' # {} /\ ent.state = "gone" /\ ent.plan = NoPlan
  BY DEF LeaveStep
<1>i. N \in DOMAIN ents /\ ents'[N].items = ents[N].items /\ ents'[N].touched = ents[N].touched
      /\ ents'[N].attr = ents[N].attr
  BY <1>0, <1>1, <1>2
<1>3. TypeOK'
  <2>1. crashes' \in Nat /\ sent' = sent
    BY DEF LeaveStep
  <2> QED
    BY <1>0, <1>1, <1>2, <2>1 DEF TypeOK, N
<1>4. EntitiesOK'
  <2>1. EntityOK(ents[e])
    BY <1>0 DEF EntitiesOK
  <2>2. PlanOrder(ent) /\ PlanHolds(ent)
    BY <1>2 DEF PlanOrder, PlanHolds, NoPlan, Save, Plan
  <2>3. Built(ent) /\ NotYet(ent)
    BY <1>2, <2>1 DEF EntityOK, Built, NotYet
  <2>4. \A c \in Columns \ Written : ent.attr[c] = row[c]
    BY <1>2, <2>1 DEF EntityOK, Fixed
  <2> QED
    BY <1>0, <1>2, <2>2, <2>3, <2>4, StepEntities
<1>5. Past'
  BY <1>1, <1>2 DEF IInv, Past
<1>6. Frozen'
  BY <1>1, <1>q, <1>c DEF IInv, Frozen
<1>7. OneRow'
  BY <1>2, <1>q DEF IInv, OneRow
<1>8. ASSUME e = N PROVE SaveExact' /\ Loading' /\ Counted'
  <2>1. ents'[N] = ent
    BY <1>1, <1>8
  <2>2. SaveExact'
    <3>1. ~(ents'[N].plan # NoPlan /\ ~ents'[N].plan.select) /\ ~(ents'[N].plan # NoPlan /\ ~ents'[N].plan.attributes)
      BY <1>2, <2>1 DEF Save, Plan
    <3>2. ~Saved(ents[N])'
      BY <1>1, <1>2, <2>1 DEF Saved
    <3> QED
      BY <1>1, <3>1, <3>2 DEF SaveExact
  <2>3. Loading'
    BY <1>1, <1>2, <2>1 DEF Loading
  <2>4. Counted'
    <3> SUFFICES ASSUME disturbed' = {} PROVE ents'[N].state # "loading" /\ WithPlayer'
      BY <1>1 DEF Counted
    <3>1. disturbed = {} /\ Quiet
      BY <1>2 DEF Quiet
    <3>2. ents[N].state # "loading"
      BY <1>8, <1>c, <3>1
    <3>3. WithPlayer
      BY <1>1, <3>1, <3>2 DEF IInv, Counted
    <3>4. WithPlayer'
      BY <1>1, <1>2, <1>i, <3>3 DEF WithPlayer
    <3> QED
      BY <1>2, <2>1, <3>4
  <2> QED
    BY <2>2, <2>3, <2>4
<1>9. ASSUME e # N PROVE SaveExact' /\ Loading' /\ Counted'
  <2>1. ents'[N] = ents[N]
    BY <1>1, <1>9, <1>i
  <2>2. Quiet' => disturbed' # {}
    BY <1>9, <1>c, <1>q
  <2>3. SaveExact'
    <3> SUFFICES ASSUME Quiet'
                 PROVE  /\ (ents[N].plan # NoPlan /\ ~ents[N].plan.select) => Exact(ents[N], rows)
                        /\ (ents[N].plan # NoPlan /\ ~ents[N].plan.attributes) => Stored(ents[N].attr) = row
      BY <1>1, <1>2, <2>1, <2>2 DEF SaveExact, Saved
    <3> QED
      BY <1>1, <1>q DEF IInv, SaveExact
  <2>4. Loading'
    <3> SUFFICES ASSUME Quiet', ents[N].state = "loading" PROVE ents[N].attr = Loaded(row)
      BY <1>1, <1>2, <2>1, <2>2 DEF Loading
    <3> QED
      BY <1>1, <1>q DEF IInv, Loading
  <2>5. Counted'
    BY <2>2 DEF Counted, Quiet
  <2> QED
    BY <2>3, <2>4, <2>5
<1>10. UntouchedSafe'
  <2> SUFFICES ASSUME Quiet, NEW s \in Slots \ ents[N].touched, Holds(ents[N].items[s])
               PROVE  \E i \in DOMAIN rows : rows[i] = [slot |-> s, what |-> ents[N].items[s].what, amount |-> ents[N].items[s].count]
    BY <1>1, <1>2, <1>i, <1>q DEF UntouchedSafe, Quiet
  <2> QED
    BY <1>1 DEF IInv, UntouchedSafe, Quiet
<1> QED
  BY <1>3, <1>4, <1>5, <1>6, <1>7, <1>8, <1>9, <1>10 DEF IInv

LEMMA LeavingLeaves ==
    ASSUME IInv, NEW e \in DOMAIN ents, OnDisconnected(e) \/ Destroy(e) \/ Crash(e)
    PROVE  \E ent : LeaveStep(e, ent)
<1>1. ents[e] \in Entities /\ TypeOK /\ EntityOK(ents[e]) /\ e \in 1 .. N /\ N \in Nat
  BY Lengths DEF IInv, EntitiesOK
<1>2. /\ disturbed \subseteq {"overtaken", "late", "early", "crash"} /\ crashes \in Nat
  BY <1>1 DEF TypeOK
<1>3. CASE OnDisconnected(e)
  <2> DEFINE ent == [ents[e] EXCEPT !.state = IF ents[e].onMap THEN "leaving" ELSE "gone"]
  <2>1. /\ ents[e].state = "in" /\ ents' = [ents EXCEPT ![e] = ent]
        /\ disturbed' = disturbed \cup (IF ents[e].onMap THEN {} ELSE {"early"})
        /\ UNCHANGED <<row, rows, ground, made, sent, crashes>>
    BY <1>3 DEF OnDisconnected
  <2>2. ents[e].plan = NoPlan
    BY <1>1, <2>1 DEF EntityOK, PlanOrder
  <2>3. /\ ent \in Entities /\ ent.items = ents[e].items /\ ent.plan = NoPlan
        /\ ent.state = (IF ents[e].onMap THEN "leaving" ELSE "gone")
        /\ ent.attr = ents[e].attr /\ ent.touched = ents[e].touched
    BY <1>1, <2>2 DEF Entities
  <2>4. Step(e, ent)
    BY <2>1, <2>3 DEF Step
  <2> HIDE DEF ent
  <2>5. e = N
    BY <1>1, <2>1 DEF IInv, Past
  <2>6. LeaveStep(e, ent)
    BY <1>2, <2>1, <2>3, <2>4, <2>5 DEF LeaveStep
  <2> QED
    BY <2>6
<1>4. CASE Destroy(e)
  <2> DEFINE ent == [ents[e] EXCEPT !.state = "gone", !.plan = Save]
  <2>1. /\ ents[e].state = "leaving" /\ ents' = [ents EXCEPT ![e] = ent]
        /\ UNCHANGED <<row, rows, ground, made, sent, crashes, disturbed>>
    BY <1>4 DEF Destroy
  <2>2. /\ ent \in Entities /\ ent.items = ents[e].items /\ ent.plan = Save /\ ent.state = "gone"
        /\ ent.attr = ents[e].attr /\ ent.touched = ents[e].touched
    BY <1>1, PlansDiffer DEF Entities
  <2>3. Step(e, ent)
    BY <2>1, <2>2 DEF Step
  <2> HIDE DEF ent
  <2>4. Quiet => e = N
    BY <1>1, <2>1 DEF IInv, Frozen
  <2>5. LeaveStep(e, ent)
    BY <1>2, <2>1, <2>2, <2>3, <2>4, PlansDiffer DEF LeaveStep
  <2> QED
    BY <2>5
<1>5. CASE Crash(e)
  <2> DEFINE ent == [ents[e] EXCEPT !.state = "gone", !.todo = <<>>, !.plan = NoPlan]
  <2>1. /\ ents' = [ents EXCEPT ![e] = ent] /\ crashes' = crashes + 1
        /\ disturbed' = disturbed \cup {"crash"}
        /\ UNCHANGED <<row, rows, ground, made, sent>>
    BY <1>5 DEF Crash
  <2>e. <<>> \in Seq(Packets)
    BY EmptySeq
  <2>2. /\ ent \in Entities /\ ent.items = ents[e].items /\ ent.plan = NoPlan /\ ent.state = "gone"
        /\ ent.attr = ents[e].attr /\ ent.touched = ents[e].touched
    BY <1>1, <2>e, PlansDiffer DEF Entities
  <2>3. Step(e, ent)
    BY <2>1, <2>2 DEF Step
  <2> HIDE DEF ent
  <2>4. LeaveStep(e, ent)
    BY <1>2, <2>1, <2>2, <2>3 DEF LeaveStep
  <2> QED
    BY <2>4
<1> QED
  BY <1>3, <1>4, <1>5

-----------------------------------------------------------------------------
(* Saving. *)

(* A row for every slot of items that had one is still there. *)
Keeps(items, rs, new) ==
    \A s \in Slots :
      LET r == [slot |-> s, what |-> items[s].what, amount |-> items[s].count]
      IN  (Holds(items[s]) /\ \E i \in DOMAIN rs : rs[i] = r) => \E i \in DOMAIN new : new[i] = r
Unique(rs) == \A i, j \in DOMAIN rs : rs[i].slot = rs[j].slot => i = j
IsTable(rs) == DOMAIN rs \subseteq Nat /\ IsFiniteSet(DOMAIN rs) /\ \A i \in DOMAIN rs : rs[i] \in Table

SaveStep(e, ent) ==
    /\ Step(e, ent) /\ ents[e].plan # NoPlan
    /\ ent.items = ents[e].items /\ ent.attr = ents[e].attr /\ ent.state = ents[e].state
    /\ ent.touched = IF ent.plan = NoPlan THEN {} ELSE ents[e].touched
    /\ PlanOrder(ent) /\ PlanHolds(ent)
    /\ row' \in [Columns -> Nat] /\ (\A c \in Columns \ Written : row'[c] = row[c])
    /\ IsTable(rows')
    /\ UNCHANGED <<ground, made, sent, crashes, disturbed>>
    /\ Quiet =>
         /\ Unique(rows') /\ Keeps(ent.items, rows, rows')
         /\ ~ent.plan.select => Exact(ent, rows')
         /\ ~ent.plan.attributes => Stored(ent.attr) = row'

LEMMA SaveInv ==
    ASSUME IInv, NEW e, NEW ent, SaveStep(e, ent)
    PROVE  IInv'
<1>0. TypeOK /\ EntitiesOK /\ Step(e, ent) /\ e \in DOMAIN ents
  BY DEF IInv, SaveStep, Step
<1>1. /\ ents' \in Seq(Entities) /\ N' = N /\ DOMAIN ents' = DOMAIN ents /\ N \in Nat /\ DOMAIN ents = 1 .. N
      /\ ents # <<>> /\ ents' # <<>> /\ Last(ents') = ents'[N] /\ Last(ents) = ents[N]
      /\ ents'[e] = ent
      /\ \A d \in DOMAIN ents : ents'[d] = IF d = e THEN ent ELSE ents[d]
  BY <1>0, StepEnts, Lengths
<1>2. /\ ents[e].plan # NoPlan
      /\ ent.items = ents[e].items /\ ent.attr = ents[e].attr /\ ent.state = ents[e].state
      /\ ent.touched = (IF ent.plan = NoPlan THEN {} ELSE ents[e].touched)
      /\ ground' = ground /\ made' = made /\ sent' = sent /\ crashes' = crashes /\ disturbed' = disturbed
  BY DEF SaveStep
<1>q. Quiet' <=> Quiet
  BY <1>2 DEF Quiet
<1>s. EntityOK(ents[e]) /\ ents[e].state \in {"leaving", "switching", "gone"}
  <2>1. EntityOK(ents[e]) /\ ents[e] \in Entities
    BY <1>0, Lengths DEF EntitiesOK
  <2> QED
    BY <1>2, <2>1 DEF EntityOK, PlanOrder, Entities
<1>n. Quiet => e = N /\ ents'[N] = ent
  <2>1. Quiet => e \notin 1 .. N - 1
    BY <1>2 DEF IInv, Frozen
  <2> QED
    BY <1>0, <1>1, <2>1
<1>w. Quiet => /\ Unique(rows') /\ Keeps(ent.items, rows, rows')
               /\ ~ent.plan.select => Exact(ent, rows')
               /\ ~ent.plan.attributes => Stored(ent.attr) = row'
  BY DEF SaveStep
<1>3. TypeOK'
  <2>1. row' \in [Columns -> Nat] /\ IsTable(rows')
    BY DEF SaveStep
  <2> QED
    BY <1>0, <1>1, <1>2, <2>1 DEF TypeOK, N, IsTable, Table
<1>4. EntitiesOK'
  <2>1. Built(ent) /\ NotYet(ent)
    BY <1>2, <1>s DEF EntityOK, Built, NotYet
  <2>2. \A c \in Columns \ Written : ent.attr[c] = row[c]
    BY <1>2, <1>s DEF EntityOK, Fixed
  <2>3. PlanOrder(ent) /\ PlanHolds(ent) /\ \A c \in Columns \ Written : row'[c] = row[c]
    BY DEF SaveStep
  <2> QED
    BY <1>0, <2>1, <2>2, <2>3, StepEntities
<1>5. Past'
  BY <1>1, <1>2 DEF IInv, Past
<1>6. Frozen'
  BY <1>1, <1>n, <1>q DEF IInv, Frozen
<1>7. OneRow'
  BY <1>q, <1>w DEF OneRow, Unique
<1>8. SaveExact'
  <2> SUFFICES ASSUME Quiet
               PROVE  /\ (ent.plan # NoPlan /\ ~ent.plan.select) \/ ent.plan = NoPlan => Exact(ent, rows')
                      /\ (ent.plan # NoPlan /\ ~ent.plan.attributes) \/ ent.plan = NoPlan => Stored(ent.attr) = row'
    BY <1>1, <1>n, <1>q DEF SaveExact, Saved
  <2> QED
    BY <1>w DEF NoPlan, Plan
<1>9. Loading'
  BY <1>1, <1>2, <1>n, <1>q, <1>s DEF Loading
<1>10. Counted'
  <2> SUFFICES ASSUME disturbed = {} PROVE ents'[N].state # "loading" /\ WithPlayer'
    BY <1>1, <1>2 DEF Counted
  <2>1. Quiet /\ e = N /\ ents'[N] = ent
    BY <1>n DEF Quiet
  <2>2. WithPlayer
    BY <1>1, <1>s, <2>1 DEF IInv, Counted
  <2> QED
    BY <1>1, <1>2, <1>s, <2>1, <2>2 DEF WithPlayer
<1>11. UntouchedSafe'
  <2> SUFFICES ASSUME Quiet, NEW s \in Slots \ ent.touched, Holds(ent.items[s]), e = N
               PROVE  \E i \in DOMAIN rows' : rows'[i] = [slot |-> s, what |-> ent.items[s].what, amount |-> ent.items[s].count]
    BY <1>1, <1>n, <1>q DEF UntouchedSafe, Quiet
  <2>1. CASE ent.plan = NoPlan
    <3>1. Exact(ent, rows') /\ ent.plan.toInsert = {} /\ ent.plan.toUpdate = {}
      BY <1>w, <2>1 DEF NoPlan, Plan
    <3>2. PICK i \in DOMAIN rows' : rows'[i].slot = s
      BY <3>1 DEF Exact
    <3>3. Matches(rows'[i], ent.items[s])
      BY <3>1, <3>2 DEF Exact, RowDone
    <3>4. rows'[i] \in Table
      BY DEF SaveStep, IsTable
    <3> QED
      BY <3>2, <3>3, <3>4 DEF Matches, Table
  <2>2. CASE ent.plan # NoPlan
    <3>1. s \in Slots \ ents[N].touched /\ Holds(ents[N].items[s]) /\ ent.items = ents[N].items
      BY <1>2, <2>2
    <3>2. \E i \in DOMAIN rows : rows[i] = [slot |-> s, what |-> ent.items[s].what, amount |-> ent.items[s].count]
      BY <1>1, <3>1 DEF IInv, UntouchedSafe, Quiet
    <3> QED
      BY <1>w, <3>2 DEF Keeps
  <2> QED
    BY <2>1, <2>2
<1> QED
  BY <1>3, <1>4, <1>5, <1>6, <1>7, <1>8, <1>9, <1>10, <1>11 DEF IInv

(* Proceed, and what is known of the entity whose save goes on. *)
Going(e, plan) ==
    [ents[e] EXCEPT !.plan = plan, !.touched = IF plan = NoPlan THEN {} ELSE ents[e].touched]

LEMMA ProceedStep ==
    ASSUME IInv, NEW e \in DOMAIN ents, NEW plan \in Plans, Proceed(e, plan), ents[e].plan # NoPlan
    PROVE  LET ent == Going(e, plan)
           IN  /\ Step(e, ent) /\ ent.plan = plan
               /\ ent.items = ents[e].items /\ ent.attr = ents[e].attr /\ ent.state = ents[e].state
               /\ ent.touched = IF ent.plan = NoPlan THEN {} ELSE ents[e].touched
               /\ ents[e].state \notin {"loading", "in"}
<1>1. ents[e] \in Entities /\ EntityOK(ents[e])
  BY Lengths DEF IInv, EntitiesOK
<1> DEFINE ent == Going(e, plan)
<1>2. /\ ent \in Entities /\ ent.plan = plan
      /\ ent.items = ents[e].items /\ ent.attr = ents[e].attr /\ ent.state = ents[e].state
      /\ ent.touched = IF plan = NoPlan THEN {} ELSE ents[e].touched
  BY <1>1 DEF Entities, Going
<1>3. ents' = [ents EXCEPT ![e] = ent]
  BY DEF Proceed, Going
<1>4. ents[e].state \notin {"loading", "in"}
  BY <1>1 DEF EntityOK, PlanOrder
<1> HIDE DEF ent
<1>5. Step(e, ent)
  BY <1>2, <1>3 DEF Step
<1> QED
  BY <1>2, <1>4, <1>5 DEF ent

(* The plan of a save, and what is under way. *)
LEMMA SavingFacts ==
    ASSUME IInv, NEW e \in DOMAIN ents, ents[e].plan # NoPlan
    PROVE  /\ ents[e] \in Entities /\ ents[e].plan \in Plans /\ EntityOK(ents[e])
           /\ ents[e].items \in [Slots -> Items] /\ ents[e].attr \in [Columns -> Nat]
           /\ IsTable(rows) /\ row \in [Columns -> Nat]
           /\ Quiet => /\ Unique(rows)
                       /\ ~ents[e].plan.select => Exact(ents[e], rows)
                       /\ ~ents[e].plan.attributes => Stored(ents[e].attr) = row
<1>1. ents[e] \in Entities /\ EntityOK(ents[e]) /\ TypeOK
  BY Lengths DEF IInv, EntitiesOK
<1>2. IsTable(rows) /\ row \in [Columns -> Nat]
  BY <1>1 DEF TypeOK, IsTable, Table
<1>3. Quiet => e = N /\ ents # <<>>
  <2>1. DOMAIN ents = 1 .. N /\ N \in Nat /\ (ents = <<>> => N = 0)
    BY <1>1, Lengths
  <2> QED
    BY <2>1 DEF IInv, Frozen
<1>4. Quiet => Unique(rows)
  BY DEF IInv, OneRow, Unique
<1>5. Quiet => (~ents[e].plan.select => Exact(ents[e], rows))
  BY <1>3 DEF IInv, SaveExact
<1>6. Quiet => (~ents[e].plan.attributes => Stored(ents[e].attr) = row)
  BY <1>3 DEF IInv, SaveExact
<1> QED
  BY <1>1, <1>2, <1>4, <1>5, <1>6 DEF Entities

(* Saving and loading leave all but the place as it is, and that but for   *)
(* half of what the columns count.                                         *)
LEMMA Rounding ==
    ASSUME NEW attr \in [Columns -> Nat]
    PROVE  /\ Stored(attr) \in [Columns -> Nat] /\ Loaded(attr) \in [Columns -> Nat]
           /\ \A c \in Columns \ Written : Stored(attr)[c] = attr[c] /\ Loaded(attr)[c] = attr[c]
           /\ \A c \in Columns \ Coordinates : Loaded(Stored(attr))[c] = attr[c]
           /\ \A c \in Coordinates : Loaded(Stored(attr))[c] - attr[c] \in -2 .. 2
<1>1. Coordinates \subseteq Columns /\ Coordinates \subseteq Written
  BY DEF Coordinates, Columns, Written, PositionRow, PositionUpdate
<1>2. \A n \in Nat : (n + 2) \div 4 \in Nat /\ 4 * n \in Nat /\ 4 * ((n + 2) \div 4) - n \in -2 .. 2
  OBVIOUS
<1>3. \A c \in Columns : /\ attr[c] \in Nat
                         /\ Stored(attr)[c] = IF c \in Coordinates THEN (attr[c] + 2) \div 4 ELSE attr[c]
                         /\ Loaded(attr)[c] = IF c \in Coordinates THEN 4 * attr[c] ELSE attr[c]
  BY DEF Stored, Loaded
<1>4. Stored(attr) \in [Columns -> Nat] /\ Loaded(attr) \in [Columns -> Nat]
  BY <1>2, <1>3 DEF Stored, Loaded
<1>5. \A c \in Columns :
        Loaded(Stored(attr))[c] = IF c \in Coordinates THEN 4 * Stored(attr)[c] ELSE Stored(attr)[c]
  BY DEF Loaded
<1> QED
  BY <1>1, <1>2, <1>3, <1>4, <1>5

LEMMA AttributesSave ==
    ASSUME IInv, NEW e \in DOMAIN ents, SaveAttributes(e)
    PROVE  \E ent : SaveStep(e, ent)
<1> DEFINE plan == [ents[e].plan EXCEPT !.attributes = FALSE]
<1>1. /\ ents[e].plan.attributes /\ Proceed(e, plan)
      /\ row' = [c \in Columns |-> IF c \in Written THEN Stored(ents[e].attr)[c] ELSE row[c]]
      /\ rows' = rows /\ UNCHANGED <<ground, made, sent, crashes, disturbed>>
  BY DEF SaveAttributes
<1>2. ents[e].plan # NoPlan
  BY <1>1 DEF NoPlan, Plan
<1>3. /\ ents[e] \in Entities /\ ents[e].plan \in Plans /\ EntityOK(ents[e])
      /\ ents[e].attr \in [Columns -> Nat] /\ IsTable(rows) /\ row \in [Columns -> Nat]
      /\ Quiet => Unique(rows)
  BY <1>2, SavingFacts
<1>4. /\ plan \in Plans /\ plan.select /\ ~plan.attributes
      /\ plan.toDelete = {} /\ plan.toUpdate = {} /\ plan.toInsert = {}
  BY <1>1, <1>3 DEF Plans, EntityOK, PlanOrder
<1> HIDE DEF plan
<1> DEFINE ent == Going(e, plan)
<1>5. /\ Step(e, ent) /\ ent.plan = plan
      /\ ent.items = ents[e].items /\ ent.attr = ents[e].attr /\ ent.state = ents[e].state
      /\ ent.touched = IF ent.plan = NoPlan THEN {} ELSE ents[e].touched
      /\ ents[e].state \notin {"loading", "in"}
  BY <1>1, <1>2, <1>4, ProceedStep
<1> HIDE DEF ent
<1>6. PlanOrder(ent) /\ PlanHolds(ent)
  BY <1>4, <1>5 DEF PlanOrder, PlanHolds
<1>a. /\ Stored(ents[e].attr) \in [Columns -> Nat]
      /\ \A c \in Columns \ Written : Stored(ents[e].attr)[c] = row[c]
  BY <1>3, Rounding DEF EntityOK, Fixed
<1>7. /\ row' \in [Columns -> Nat] /\ \A c \in Columns \ Written : row'[c] = row[c]
  BY <1>1, <1>3, <1>a
<1>8. Stored(ent.attr) = row'
  BY <1>1, <1>5, <1>a
<1>9. Keeps(ent.items, rows, rows')
  BY <1>1 DEF Keeps
<1>10. SaveStep(e, ent)
  BY <1>1, <1>2, <1>3, <1>4, <1>5, <1>6, <1>7, <1>8, <1>9 DEF SaveStep
<1> QED
  BY <1>10

LEMMA SelectSaves ==
    ASSUME IInv, NEW e \in DOMAIN ents, SaveSelect(e)
    PROVE  \E ent : SaveStep(e, ent)
<1> DEFINE plan == SavePlan(ents[e].items, rows)
           items == ents[e].items
<1>1. /\ ents[e].plan.select /\ ~ents[e].plan.attributes /\ Proceed(e, plan)
      /\ rows' = rows /\ row' = row /\ UNCHANGED <<ground, made, sent, crashes, disturbed>>
  BY DEF SaveSelect
<1>2. ents[e].plan # NoPlan
  BY <1>1 DEF NoPlan, Plan
<1>3. /\ ents[e] \in Entities /\ EntityOK(ents[e]) /\ items \in [Slots -> Items]
      /\ ents[e].attr \in [Columns -> Nat] /\ IsTable(rows) /\ row \in [Columns -> Nat]
      /\ Quiet => Unique(rows) /\ Stored(ents[e].attr) = row
  BY <1>1, <1>2, SavingFacts
<1> DEFINE gone == {i \in DOMAIN rows : rows[i].slot >= MaxItems \/ ~Holds(items[rows[i].slot])}
           changed == {i \in DOMAIN rows \ gone : differs(items[rows[i].slot], rows[i])}
           fresh == {s \in Slots : Holds(items[s]) /\ \A i \in DOMAIN rows : rows[i].slot # s}
<1>4. plan = Plan(FALSE, FALSE, SlotsOf(rows, gone), SlotsOf(rows, changed), fresh)
  BY DEF SavePlan
<1>5. \A i \in DOMAIN rows : i \in Nat /\ rows[i].slot \in Slots /\ ~(rows[i].slot >= MaxItems)
  <2>1. \A i \in DOMAIN rows : i \in Nat /\ rows[i].slot \in Slots
    BY <1>3 DEF IsTable, Table
  <2>2. MaxItems \in Nat /\ \A s \in Slots : s \in Nat /\ s < MaxItems
    BY SlotsBag, CharacterAssumption
  <2>3. \A s \in Slots : ~(s >= MaxItems)
    BY <2>2
  <2> QED
    BY <2>1, <2>3
<1>6. \A p : p \in SlotsOf(rows, gone) <=> \E i \in gone : p = <<i, rows[i].slot>>
  BY DEF SlotsOf
<1>7. \A p : p \in SlotsOf(rows, changed) <=> \E i \in changed : p = <<i, rows[i].slot>>
  BY DEF SlotsOf
<1>8. \A i \in DOMAIN rows : /\ i \in gone <=> ~Holds(items[rows[i].slot])
                             /\ i \in changed <=> /\ Holds(items[rows[i].slot])
                                                  /\ differs(items[rows[i].slot], rows[i])
  BY <1>5
<1>g. gone \subseteq DOMAIN rows /\ changed \subseteq DOMAIN rows
  OBVIOUS
<1>9. /\ ~plan.attributes /\ ~plan.select /\ plan.toDelete = SlotsOf(rows, gone)
      /\ plan.toUpdate = SlotsOf(rows, changed) /\ plan.toInsert = fresh
  BY <1>4 DEF Plan
<1> HIDE DEF gone, changed
<1>10. SlotsOf(rows, gone) \subseteq Nat \X Slots /\ SlotsOf(rows, changed) \subseteq Nat \X Slots
  BY <1>5, <1>6, <1>7, <1>g
<1>11. plan \in Plans
  BY <1>4, <1>10 DEF Plans, Plan
<1> HIDE DEF plan
<1> DEFINE ent == Going(e, plan)
<1>12. /\ Step(e, ent) /\ ent.plan = plan
       /\ ent.items = ents[e].items /\ ent.attr = ents[e].attr /\ ent.state = ents[e].state
       /\ ent.touched = IF ent.plan = NoPlan THEN {} ELSE ents[e].touched
       /\ ents[e].state \notin {"loading", "in"}
  BY <1>1, <1>2, <1>11, ProceedStep
<1> HIDE DEF ent
<1>13. PlanOrder(ent)
  BY <1>9, <1>12 DEF PlanOrder
<1>14. PlanHolds(ent)
  <2>1. \A p \in plan.toDelete : ~Holds(items[p[2]])
    BY <1>6, <1>8, <1>9, <1>g
  <2>2. \A p \in plan.toUpdate : Holds(items[p[2]])
    BY <1>7, <1>8, <1>9, <1>g
  <2>3. \A s \in plan.toInsert : Holds(items[s])
    BY <1>9
  <2> QED
    BY <1>12, <2>1, <2>2, <2>3 DEF PlanHolds
<1>15. Exact(ent, rows)
  <2>1. ASSUME NEW i \in DOMAIN rows PROVE RowDone(ent, i, rows[i])
    <3>1. ~Holds(items[rows[i].slot]) => <<i, rows[i].slot>> \in plan.toDelete
      BY <1>6, <1>8, <1>9
    <3>2. Holds(items[rows[i].slot]) /\ differs(items[rows[i].slot], rows[i]) => <<i, rows[i].slot>> \in plan.toUpdate
      BY <1>7, <1>8, <1>9
    <3>3. ~differs(items[rows[i].slot], rows[i]) => Matches(rows[i], items[rows[i].slot])
      BY DEF differs, Matches
    <3> QED
      BY <1>12, <3>1, <3>2, <3>3 DEF RowDone
  <2>2. ASSUME NEW s \in Slots, Holds(items[s])
        PROVE  s \in plan.toInsert <=> \A i \in DOMAIN rows : rows[i].slot # s
    BY <1>9, <2>2
  <2> QED
    BY <1>12, <2>1, <2>2 DEF Exact
<1>16. Keeps(ent.items, rows, rows')
  BY <1>1 DEF Keeps
<1>17. \A c \in Columns \ Written : row'[c] = row[c]
  BY <1>1
<1>18. SaveStep(e, ent)
  BY <1>1, <1>2, <1>3, <1>12, <1>13, <1>14, <1>15, <1>16, <1>17 DEF SaveStep
<1> QED
  BY <1>18

(* One statement of the vectors or of the inserts: what is left to do is   *)
(* exactly what the statement did not do.                                  *)
LEMMA DeleteSaves ==
    ASSUME IInv, NEW e \in DOMAIN ents, SaveDelete(e)
    PROVE  \E ent : SaveStep(e, ent)
<1> DEFINE old == ents[e].plan
           p == First(old.toDelete)
           keep == {j \in DOMAIN rows : rows[j].slot # p[2]}
           plan == [old EXCEPT !.toDelete = old.toDelete \ {p}]
           items == ents[e].items
<1>1. /\ old.toDelete # {} /\ Proceed(e, plan) /\ rows' = Restrict(rows, keep)
      /\ row' = row /\ UNCHANGED <<ground, made, sent, crashes, disturbed>>
  BY DEF SaveDelete
<1>2. ents[e].plan # NoPlan
  BY <1>1 DEF NoPlan, Plan
<1>3. /\ ents[e] \in Entities /\ old \in Plans /\ EntityOK(ents[e]) /\ items \in [Slots -> Items]
      /\ IsTable(rows) /\ row \in [Columns -> Nat]
      /\ Quiet => /\ Unique(rows)
                  /\ ~old.select => Exact(ents[e], rows)
                  /\ ~old.attributes => Stored(ents[e].attr) = row
  BY <1>2, SavingFacts
<1>4. old.toDelete \subseteq Nat \X Slots
  BY <1>3 DEF Plans
<1>5. p \in old.toDelete /\ p[2] \in Slots /\ ~Holds(items[p[2]])
  <2>1. p \in old.toDelete
    BY <1>1, <1>4, FirstIn
  <2>2. p[2] \in Slots
    BY <1>4, <2>1
  <2> QED
    BY <1>3, <2>1, <2>2 DEF EntityOK, PlanHolds
<1>6. ~old.select /\ ~old.attributes
  BY <1>1, <1>3 DEF EntityOK, PlanOrder
<1> HIDE DEF p
<1>7. /\ plan \in Plans /\ plan.toDelete = old.toDelete \ {p} /\ plan.toUpdate = old.toUpdate
      /\ plan.toInsert = old.toInsert /\ ~plan.select /\ ~plan.attributes
  BY <1>3, <1>6 DEF Plans
<1> HIDE DEF plan
<1> DEFINE ent == Going(e, plan)
<1>8. /\ Step(e, ent) /\ ent.plan = plan
      /\ ent.items = ents[e].items /\ ent.attr = ents[e].attr /\ ent.state = ents[e].state
      /\ ent.touched = IF ent.plan = NoPlan THEN {} ELSE ents[e].touched
      /\ ents[e].state \notin {"loading", "in"}
  BY <1>1, <1>2, <1>7, ProceedStep
<1> HIDE DEF ent
<1>9. DOMAIN rows' = keep /\ \A i \in keep : rows'[i] = rows[i]
  BY <1>1 DEF Restrict
<1>10. keep \subseteq DOMAIN rows /\ \A i \in DOMAIN rows : i \in keep <=> rows[i].slot # p[2]
  OBVIOUS
<1> HIDE DEF keep
<1>11. IsTable(rows')
  <2>1. keep \in SUBSET DOMAIN rows /\ IsFiniteSet(DOMAIN rows)
    BY <1>3, <1>10 DEF IsTable
  <2>2. IsFiniteSet(keep)
    BY <2>1, FS_Subset
  <2> QED
    BY <1>3, <1>9, <1>10, <2>2 DEF IsTable
<1>12. PlanOrder(ent) /\ PlanHolds(ent)
  BY <1>3, <1>7, <1>8 DEF PlanOrder, PlanHolds, EntityOK
<1>13. Unique(rows) => Unique(rows')
  BY <1>9, <1>10 DEF Unique
<1>14. Keeps(ent.items, rows, rows')
  BY <1>5, <1>8, <1>9, <1>10 DEF Keeps
<1>15. ASSUME Exact(ents[e], rows) PROVE Exact(ent, rows')
  <2>1. ASSUME NEW i \in DOMAIN rows' PROVE RowDone(ent, i, rows'[i])
    <3>1. i \in DOMAIN rows /\ rows'[i] = rows[i] /\ rows[i].slot # p[2]
      BY <1>9, <1>10
    <3>2. RowDone(ents[e], i, rows[i])
      BY <1>15, <3>1 DEF Exact
    <3>3. <<i, rows[i].slot>> # p
      BY <3>1
    <3> QED
      BY <1>7, <1>8, <3>1, <3>2, <3>3 DEF RowDone
  <2>2. ASSUME NEW s \in Slots, Holds(items[s])
        PROVE  s \in plan.toInsert <=> \A i \in DOMAIN rows' : rows'[i].slot # s
    <3>1. s # p[2]
      BY <1>5, <2>2
    <3>2. s \in old.toInsert <=> \A i \in DOMAIN rows : rows[i].slot # s
      BY <1>15, <2>2 DEF Exact
    <3> QED
      BY <1>7, <1>9, <1>10, <3>1, <3>2
  <2> QED
    BY <1>8, <2>1, <2>2 DEF Exact
<1>16. \A c \in Columns \ Written : row'[c] = row[c]
  BY <1>1
<1>17. SaveStep(e, ent)
  BY <1>1, <1>2, <1>3, <1>6, <1>8, <1>11, <1>12, <1>13, <1>14, <1>15, <1>16 DEF SaveStep
<1> QED
  BY <1>17

(* The row written for a slot that is held. *)
LEMMA RowOfTable ==
    ASSUME NEW e, ents[e].items \in [Slots -> Items], NEW s \in Slots, Holds(ents[e].items[s])
    PROVE  /\ RowOf(e, s) \in Table /\ RowOf(e, s).slot = s /\ Matches(RowOf(e, s), ents[e].items[s])
           /\ RowOf(e, s) = [slot |-> s, what |-> ents[e].items[s].what, amount |-> ents[e].items[s].count]
<1>1. ents[e].items[s].what \in Kinds /\ ents[e].items[s].count \in Nat
  BY DEF Items, Holds
<1> QED
  BY <1>1 DEF RowOf, Table, Matches

LEMMA UpdateSaves ==
    ASSUME IInv, NEW e \in DOMAIN ents, SaveUpdate(e)
    PROVE  \E ent : SaveStep(e, ent)
<1> DEFINE old == ents[e].plan
           p == First(old.toUpdate)
           plan == [old EXCEPT !.toUpdate = old.toUpdate \ {p}]
           items == ents[e].items
           new == RowOf(e, p[2])
<1>1. /\ old.toUpdate # {} /\ Proceed(e, plan)
      /\ rows' = [j \in DOMAIN rows |-> IF rows[j].slot = p[2] THEN new ELSE rows[j]]
      /\ row' = row /\ UNCHANGED <<ground, made, sent, crashes, disturbed>>
  BY DEF SaveUpdate
<1>2. ents[e].plan # NoPlan
  BY <1>1 DEF NoPlan, Plan
<1>3. /\ ents[e] \in Entities /\ old \in Plans /\ EntityOK(ents[e]) /\ items \in [Slots -> Items]
      /\ IsTable(rows) /\ row \in [Columns -> Nat]
      /\ Quiet => /\ Unique(rows)
                  /\ ~old.select => Exact(ents[e], rows)
                  /\ ~old.attributes => Stored(ents[e].attr) = row
  BY <1>2, SavingFacts
<1>4. old.toUpdate \subseteq Nat \X Slots
  BY <1>3 DEF Plans
<1>5. p \in old.toUpdate /\ p[2] \in Slots /\ Holds(items[p[2]])
  <2>1. p \in old.toUpdate
    BY <1>1, <1>4, FirstIn
  <2>2. p[2] \in Slots
    BY <1>4, <2>1
  <2> QED
    BY <1>3, <2>1, <2>2 DEF EntityOK, PlanHolds
<1>6. ~old.select /\ ~old.attributes
  BY <1>1, <1>3 DEF EntityOK, PlanOrder
<1> HIDE DEF p
<1>n. /\ new \in Table /\ new.slot = p[2] /\ Matches(new, items[p[2]])
      /\ new = [slot |-> p[2], what |-> items[p[2]].what, amount |-> items[p[2]].count]
  BY <1>3, <1>5, RowOfTable
<1> HIDE DEF new
<1>7. /\ plan \in Plans /\ plan.toUpdate = old.toUpdate \ {p} /\ plan.toDelete = old.toDelete
      /\ plan.toInsert = old.toInsert /\ ~plan.select /\ ~plan.attributes
  BY <1>3, <1>6 DEF Plans
<1> HIDE DEF plan
<1> DEFINE ent == Going(e, plan)
<1>8. /\ Step(e, ent) /\ ent.plan = plan
      /\ ent.items = ents[e].items /\ ent.attr = ents[e].attr /\ ent.state = ents[e].state
      /\ ent.touched = IF ent.plan = NoPlan THEN {} ELSE ents[e].touched
      /\ ents[e].state \notin {"loading", "in"}
  BY <1>1, <1>2, <1>7, ProceedStep
<1> HIDE DEF ent
<1>9. /\ DOMAIN rows' = DOMAIN rows
      /\ \A i \in DOMAIN rows : rows'[i] = IF rows[i].slot = p[2] THEN new ELSE rows[i]
      /\ \A i \in DOMAIN rows : rows'[i].slot = rows[i].slot
  BY <1>1, <1>n
<1>11. IsTable(rows')
  BY <1>3, <1>9, <1>n DEF IsTable
<1>12. PlanOrder(ent) /\ PlanHolds(ent)
  BY <1>3, <1>7, <1>8 DEF PlanOrder, PlanHolds, EntityOK
<1>13. Unique(rows) => Unique(rows')
  BY <1>9 DEF Unique
<1>14. Keeps(ent.items, rows, rows')
  <2> SUFFICES ASSUME NEW s \in Slots, NEW i \in DOMAIN rows,
                      rows[i] = [slot |-> s, what |-> items[s].what, amount |-> items[s].count]
               PROVE  rows'[i] = [slot |-> s, what |-> items[s].what, amount |-> items[s].count]
    BY <1>8, <1>9 DEF Keeps
  <2>1. rows[i].slot = s
    OBVIOUS
  <2> QED
    BY <1>9, <1>n, <2>1
<1>15. ASSUME Exact(ents[e], rows) PROVE Exact(ent, rows')
  <2>1. ASSUME NEW i \in DOMAIN rows' PROVE RowDone(ent, i, rows'[i])
    <3>0. i \in DOMAIN rows
      BY <1>9
    <3>1. CASE rows[i].slot = p[2]
      <4>1. rows'[i] = new
        BY <1>9, <3>0, <3>1
      <4> QED
        BY <1>5, <1>8, <1>n, <4>1 DEF RowDone
    <3>2. CASE rows[i].slot # p[2]
      <4>1. rows'[i] = rows[i] /\ <<i, rows[i].slot>> # p
        BY <1>9, <3>0, <3>2
      <4>2. RowDone(ents[e], i, rows[i])
        BY <1>15, <3>0 DEF Exact
      <4> QED
        BY <1>7, <1>8, <4>1, <4>2 DEF RowDone
    <3> QED
      BY <3>1, <3>2
  <2>2. ASSUME NEW s \in Slots, Holds(items[s])
        PROVE  s \in plan.toInsert <=> \A i \in DOMAIN rows' : rows'[i].slot # s
    <3>1. s \in old.toInsert <=> \A i \in DOMAIN rows : rows[i].slot # s
      BY <1>15, <2>2 DEF Exact
    <3> QED
      BY <1>7, <1>9, <3>1
  <2> QED
    BY <1>8, <2>1, <2>2 DEF Exact
<1>16. \A c \in Columns \ Written : row'[c] = row[c]
  BY <1>1
<1>17. SaveStep(e, ent)
  BY <1>1, <1>2, <1>3, <1>6, <1>8, <1>11, <1>12, <1>13, <1>14, <1>15, <1>16 DEF SaveStep
<1> QED
  BY <1>17

LEMMA InsertSaves ==
    ASSUME IInv, NEW e \in DOMAIN ents, SaveInsert(e)
    PROVE  \E ent : SaveStep(e, ent)
<1> DEFINE old == ents[e].plan
           t == Min(old.toInsert)
           uid == 1 + Max({0} \cup DOMAIN rows)
           plan == [old EXCEPT !.toInsert = old.toInsert \ {t}]
           items == ents[e].items
           new == RowOf(e, t)
<1>1. /\ old.toInsert # {} /\ Proceed(e, plan)
      /\ rows' = [j \in DOMAIN rows \cup {uid} |-> IF j = uid THEN new ELSE rows[j]]
      /\ row' = row /\ UNCHANGED <<ground, made, sent, crashes, disturbed>>
  BY DEF SaveInsert
<1>2. ents[e].plan # NoPlan
  BY <1>1 DEF NoPlan, Plan
<1>3. /\ ents[e] \in Entities /\ old \in Plans /\ EntityOK(ents[e]) /\ items \in [Slots -> Items]
      /\ IsTable(rows) /\ row \in [Columns -> Nat]
      /\ Quiet => /\ Unique(rows)
                  /\ ~old.select => Exact(ents[e], rows)
                  /\ ~old.attributes => Stored(ents[e].attr) = row
  BY <1>2, SavingFacts
<1>4. old.toInsert \subseteq Slots
  BY <1>3 DEF Plans
<1>5. t \in old.toInsert /\ t \in Slots /\ Holds(items[t])
  <2>1. t \in old.toInsert
    BY <1>1, <1>4, MinIn, SlotsBag
  <2> QED
    BY <1>3, <1>4, <2>1 DEF EntityOK, PlanHolds
<1>6. ~old.select /\ ~old.attributes
  BY <1>1, <1>3 DEF EntityOK, PlanOrder
<1> HIDE DEF t
<1>n. /\ new \in Table /\ new.slot = t /\ Matches(new, items[t])
  BY <1>3, <1>5, RowOfTable
<1> HIDE DEF new
<1>u. uid \in Nat /\ uid \notin DOMAIN rows
  <2> DEFINE U == {0} \cup DOMAIN rows
  <2>1. U \subseteq Nat /\ U # {} /\ IsFiniteSet(DOMAIN rows)
    BY <1>3 DEF IsTable
  <2>2. IsFiniteSet(U)
    <3>1. U = DOMAIN rows \cup {0}
      OBVIOUS
    <3> QED
      BY <2>1, <3>1, FS_AddElement
  <2>3. Max(U) \in U /\ \A y \in U : y <= Max(U)
    BY <2>1, <2>2, MaxIn
  <2> QED
    BY <2>1, <2>3
<1> HIDE DEF uid
<1>7. /\ plan \in Plans /\ plan.toUpdate = old.toUpdate /\ plan.toDelete = old.toDelete
      /\ plan.toInsert = old.toInsert \ {t} /\ ~plan.select /\ ~plan.attributes
  BY <1>3, <1>6 DEF Plans
<1> HIDE DEF plan
<1> DEFINE ent == Going(e, plan)
<1>8. /\ Step(e, ent) /\ ent.plan = plan
      /\ ent.items = ents[e].items /\ ent.attr = ents[e].attr /\ ent.state = ents[e].state
      /\ ent.touched = IF ent.plan = NoPlan THEN {} ELSE ents[e].touched
      /\ ents[e].state \notin {"loading", "in"}
  BY <1>1, <1>2, <1>7, ProceedStep
<1> HIDE DEF ent
<1>9. /\ DOMAIN rows' = DOMAIN rows \cup {uid}
      /\ rows'[uid] = new /\ \A i \in DOMAIN rows : rows'[i] = rows[i]
  BY <1>1, <1>u
<1>11. IsTable(rows')
  <2>1. IsFiniteSet(DOMAIN rows \cup {uid})
    BY <1>3, FS_AddElement DEF IsTable
  <2> QED
    BY <1>3, <1>9, <1>n, <1>u, <2>1 DEF IsTable
<1>12. PlanOrder(ent) /\ PlanHolds(ent)
  BY <1>3, <1>7, <1>8 DEF PlanOrder, PlanHolds, EntityOK
<1>14. Keeps(ent.items, rows, rows')
  BY <1>9 DEF Keeps
<1>15. ASSUME Exact(ents[e], rows) PROVE Exact(ent, rows') /\ (Unique(rows) => Unique(rows'))
  <2>0. \A i \in DOMAIN rows : rows[i].slot # t
    BY <1>5, <1>15 DEF Exact
  <2>1. ASSUME NEW i \in DOMAIN rows' PROVE RowDone(ent, i, rows'[i])
    <3>1. CASE i = uid
      <4>1. rows'[i] = new
        BY <1>9, <3>1
      <4> QED
        BY <1>5, <1>8, <1>n, <4>1 DEF RowDone
    <3>2. CASE i # uid
      <4>1. i \in DOMAIN rows /\ rows'[i] = rows[i]
        BY <1>9, <3>2
      <4>2. RowDone(ents[e], i, rows[i])
        BY <1>15, <4>1 DEF Exact
      <4> QED
        BY <1>7, <1>8, <4>1, <4>2 DEF RowDone
    <3> QED
      BY <3>1, <3>2
  <2>2. ASSUME NEW s \in Slots, Holds(items[s])
        PROVE  s \in plan.toInsert <=> \A i \in DOMAIN rows' : rows'[i].slot # s
    <3>1. s \in old.toInsert <=> \A i \in DOMAIN rows : rows[i].slot # s
      BY <1>15, <2>2 DEF Exact
    <3> QED
      BY <1>7, <1>9, <1>n, <3>1
  <2>3. Unique(rows) => Unique(rows')
    BY <1>9, <1>n, <2>0 DEF Unique
  <2> QED
    BY <1>8, <2>1, <2>2, <2>3 DEF Exact
<1>16. \A c \in Columns \ Written : row'[c] = row[c]
  BY <1>1
<1>17. SaveStep(e, ent)
  BY <1>1, <1>2, <1>3, <1>6, <1>8, <1>11, <1>12, <1>14, <1>15, <1>16 DEF SaveStep
<1> QED
  BY <1>17

-----------------------------------------------------------------------------
(* Loading. *)

(* A finished save leaves as much in the table as the entity holds. *)
LEMMA SavedAmount ==
    ASSUME NEW rs, IsTable(rs), Unique(rs), NEW ent \in Entities, ent.plan = NoPlan, Exact(ent, rs), NEW k \in Kinds
    PROVE  Amount(rs, k) = Owned(ent.items, k)
<1>1. ent.items \in [Slots -> Items] /\ ent.plan.toDelete = {} /\ ent.plan.toUpdate = {} /\ ent.plan.toInsert = {}
  BY DEF Entities, NoPlan, Plan
<1>2. \A i \in DOMAIN rs : Matches(rs[i], ent.items[rs[i].slot])
  BY <1>1 DEF Exact, RowDone
<1>3. \A s \in Slots : Holds(ent.items[s]) => \E i \in DOMAIN rs : rs[i].slot = s
  BY <1>1 DEF Exact
<1>4. k # NoItem
  BY CharacterAssumption
<1>5. \A i \in DOMAIN rs : rs[i].what = k =>
         ent.items[rs[i].slot].what = k /\ ent.items[rs[i].slot].count = rs[i].amount
  BY <1>2 DEF Matches
<1>6. \A s \in Slots : ent.items[s].what = k => \E i \in DOMAIN rs : rs[i].slot = s /\ rs[i].what = k
  BY <1>2, <1>3, <1>4 DEF Matches, Holds
<1> QED
  BY <1>1, <1>5, <1>6, AmountOwned DEF IsTable, Unique

(* What is loaded can be built. *)
LEMMA LoadedItems ==
    ASSUME NEW rs, IsTable(rs)
    PROVE  /\ loadFromResult(rs) \in [Slots -> Items]
           /\ \A s \in Slots : loadFromResult(rs)[s].what \notin Broken
<1> SUFFICES ASSUME NEW s \in Slots
             PROVE  loadFromResult(rs)[s] \in Items /\ loadFromResult(rs)[s].what \notin Broken
  BY DEF loadFromResult
<1> DEFINE at == {i \in DOMAIN rs : rs[i].slot = s}
           built == {i \in at : rs[i].what \notin Broken}
<1>1. at \subseteq Nat /\ built \subseteq Nat /\ IsFiniteSet(at) /\ IsFiniteSet(built)
  <2>1. at \in SUBSET DOMAIN rs /\ built \in SUBSET DOMAIN rs /\ IsFiniteSet(DOMAIN rs) /\ DOMAIN rs \subseteq Nat
    BY DEF IsTable
  <2>2. IsFiniteSet(at) /\ IsFiniteSet(built)
    BY <2>1, FS_Subset
  <2> QED
    BY <2>1, <2>2
<1>2. (at # {} => Max(at) \in at) /\ (built # {} => Max(built) \in built)
  BY <1>1, MaxIn
<1>3. loadFromResult(rs)[s] = [what |-> IF built = {} THEN NoItem ELSE rs[Max(built)].what,
                               count |-> IF at = {} THEN 0 ELSE rs[Max(at)].amount]
  BY DEF loadFromResult, loadFromRow
<1>4. NoItem \notin Broken
  BY CharacterAssumption
<1>5. built # {} => rs[Max(built)].what \in Kinds /\ rs[Max(built)].what \notin Broken
  BY <1>2 DEF IsTable, Table
<1>6. at # {} => rs[Max(at)].amount \in Nat
  BY <1>2 DEF IsTable, Table
<1> HIDE DEF at, built
<1> QED
  BY <1>3, <1>4, <1>5, <1>6 DEF Items

(* With one row for a slot, what is loaded is what the rows say. *)
LEMMA LoadedRows ==
    ASSUME NEW rs, IsTable(rs), Unique(rs)
    PROVE  /\ \A i \in DOMAIN rs : rs[i].what \notin Broken =>
                loadFromResult(rs)[rs[i].slot] = [what |-> rs[i].what, count |-> rs[i].amount]
           /\ \A s \in Slots : Holds(loadFromResult(rs)[s]) =>
                \E i \in DOMAIN rs :
                  rs[i] = [slot |-> s, what |-> loadFromResult(rs)[s].what, amount |-> loadFromResult(rs)[s].count]
<1>m. \A i \in DOMAIN rs : Max({i}) = i
  <2> SUFFICES ASSUME NEW i \in DOMAIN rs PROVE Max({i}) = i
    OBVIOUS
  <2>1. i \in Nat
    BY DEF IsTable
  <2>2. IsFiniteSet({i}) /\ {i} \subseteq Nat /\ {i} # {}
    BY <2>1, FS_Singleton
  <2>3. Max({i}) \in {i}
    BY <2>2, MaxIn
  <2> QED
    BY <2>3
<1>1. ASSUME NEW i \in DOMAIN rs
      PROVE  loadFromResult(rs)[rs[i].slot] =
               [what |-> IF rs[i].what \in Broken THEN NoItem ELSE rs[i].what, count |-> rs[i].amount]
  <2> DEFINE s == rs[i].slot
             at == {j \in DOMAIN rs : rs[j].slot = s}
             built == {j \in at : rs[j].what \notin Broken}
  <2>1. s \in Slots
    BY DEF IsTable, Table
  <2>2. at = {i} /\ built = IF rs[i].what \in Broken THEN {} ELSE {i}
    BY DEF Unique
  <2>3. loadFromResult(rs)[s] = [what |-> IF built = {} THEN NoItem ELSE rs[Max(built)].what,
                                 count |-> IF at = {} THEN 0 ELSE rs[Max(at)].amount]
    BY <2>1 DEF loadFromResult, loadFromRow
  <2> HIDE DEF at, built
  <2> QED
    BY <1>m, <2>2, <2>3
<1>2. ASSUME NEW s \in Slots, Holds(loadFromResult(rs)[s])
      PROVE  \E i \in DOMAIN rs :
               rs[i] = [slot |-> s, what |-> loadFromResult(rs)[s].what, amount |-> loadFromResult(rs)[s].count]
  <2>1. PICK i \in DOMAIN rs : rs[i].slot = s
    <3> DEFINE at == {j \in DOMAIN rs : rs[j].slot = s}
               built == {j \in at : rs[j].what \notin Broken}
    <3>1. loadFromResult(rs)[s] = [what |-> IF built = {} THEN NoItem ELSE rs[Max(built)].what,
                                   count |-> IF at = {} THEN 0 ELSE rs[Max(at)].amount]
      BY DEF loadFromResult, loadFromRow
    <3>2. built # {}
      BY <1>2, <3>1 DEF Holds
    <3> QED
      BY <3>2
  <2>2. loadFromResult(rs)[s] = [what |-> IF rs[i].what \in Broken THEN NoItem ELSE rs[i].what, count |-> rs[i].amount]
    BY <1>1, <2>1
  <2>3. rs[i].what \notin Broken
    BY <1>2, <2>2 DEF Holds
  <2>4. rs[i] \in Table
    BY DEF IsTable
  <2>5. rs[i] = [slot |-> s, what |-> rs[i].what, amount |-> rs[i].amount]
    BY <2>1, <2>4 DEF Table
  <2> QED
    BY <2>2, <2>3, <2>5
<1> QED
  BY <1>1, <1>2

LEMMA LoadedAmount ==
    ASSUME NEW rs, IsTable(rs), Unique(rs), NEW k \in Kinds \ Broken
    PROVE  Amount(rs, k) = Owned(loadFromResult(rs), k)
<1> DEFINE items == loadFromResult(rs)
<1>1. items \in [Slots -> Items]
  BY LoadedItems
<1>2. /\ \A i \in DOMAIN rs : rs[i].what \notin Broken => items[rs[i].slot] = [what |-> rs[i].what, count |-> rs[i].amount]
      /\ \A s \in Slots : Holds(items[s]) =>
           \E i \in DOMAIN rs : rs[i] = [slot |-> s, what |-> items[s].what, amount |-> items[s].count]
  BY LoadedRows
<1> HIDE DEF items
<1>3. k # NoItem
  BY CharacterAssumption
<1>4. \A i \in DOMAIN rs : rs[i].what = k => items[rs[i].slot].what = k /\ items[rs[i].slot].count = rs[i].amount
  <2> SUFFICES ASSUME NEW i \in DOMAIN rs, rs[i].what = k
               PROVE  items[rs[i].slot].what = k /\ items[rs[i].slot].count = rs[i].amount
    OBVIOUS
  <2>1. items[rs[i].slot] = [what |-> rs[i].what, count |-> rs[i].amount]
    BY <1>2
  <2> QED
    BY <2>1
<1>5. \A s \in Slots : items[s].what = k => \E i \in DOMAIN rs : rs[i].slot = s /\ rs[i].what = k
  <2> SUFFICES ASSUME NEW s \in Slots, items[s].what = k PROVE \E i \in DOMAIN rs : rs[i].slot = s /\ rs[i].what = k
    OBVIOUS
  <2>1. Holds(items[s])
    BY <1>3 DEF Holds
  <2> QED
    BY <1>2, <2>1
<1>6. Amount(rs, k) = Owned(items, k)
  BY <1>1, <1>4, <1>5, AmountOwned DEF IsTable, Unique
<1> QED
  BY <1>6 DEF items

LEMMA LoadCharacterInv ==
    ASSUME IInv, LoadCharacter
    PROVE  IInv'
<1> DEFINE new == [state |-> "loading", items |-> [s \in Slots |-> Empty], attr |-> Loaded(row),
                   onMap |-> FALSE, todo |-> <<>>, plan |-> NoPlan, touched |-> {}]
<1>0. TypeOK /\ EntitiesOK
  BY DEF IInv
<1>1. /\ Len(ents) < MaxLoads
      /\ ents # <<>> => Last(ents).state \in {"leaving", "switching", "gone"}
      /\ ents' = Append(ents, new)
      /\ disturbed' = disturbed \cup (IF Overtaking THEN {"overtaken"} ELSE {})
      /\ row' = row /\ rows' = rows /\ ground' = ground /\ made' = made /\ sent' = sent /\ crashes' = crashes
  BY DEF LoadCharacter
<1>2. /\ N \in Nat /\ DOMAIN ents = 1 .. N /\ ents \in Seq(Entities) /\ N = Len(ents)
      /\ ents # <<>> => N \in DOMAIN ents /\ Last(ents) = ents[N]
      /\ ents = <<>> => N = 0
      /\ \A e \in DOMAIN ents : ents[e] \in Entities
  BY <1>0, Lengths DEF TypeOK, N
<1>e. <<>> \in Seq(Packets)
  BY EmptySeq
<1>r. Loaded(row) \in [Columns -> Nat] /\ \A c \in Columns \ Written : Loaded(row)[c] = row[c]
  BY <1>0, Rounding DEF TypeOK
<1>3. /\ new \in Entities /\ new.state = "loading" /\ new.items = [s \in Slots |-> Empty] /\ new.attr = Loaded(row)
      /\ new.todo = <<>> /\ new.plan = NoPlan
  BY <1>0, <1>e, <1>r, PlansDiffer DEF Entities, TypeOK, Items, Empty
<1> HIDE DEF new
<1>4. /\ ents' \in Seq(Entities) /\ Len(ents') = N + 1 /\ ents'[N + 1] = new
      /\ \A d \in 1 .. N : ents'[d] = ents[d]
  BY <1>1, <1>2, <1>3
<1>5. DOMAIN ents' = 1 .. N + 1 /\ N' = N + 1 /\ ents' # <<>> /\ Last(ents') = new
  <2>1. DOMAIN ents' = 1 .. N + 1
    BY <1>4, LenProperties
  <2>2. ents' # <<>>
    BY <1>2, <1>4, EmptySeq
  <2> QED
    BY <1>4, <2>1, <2>2 DEF N, Last
<1>q. Quiet' => Quiet /\ ~Overtaking
  BY <1>1 DEF Quiet
<1>u. ASSUME ~Overtaking, NEW d \in 1 .. N PROVE ents[d].state # "leaving" /\ ents[d].plan = NoPlan
  BY <1>2, <1>u DEF Overtaking, Unsaved
<1>p. ents # <<>> => ents[N].state \in {"leaving", "switching", "gone"}
  BY <1>1, <1>2
<1>6. TypeOK'
  <2>1. N + 1 <= MaxLoads
    BY <1>1, <1>2, CharacterAssumption
  <2> QED
    BY <1>0, <1>1, <1>4, <2>1 DEF TypeOK
<1>7. EntitiesOK'
  <2> SUFFICES ASSUME NEW d \in 1 .. N + 1 PROVE EntityOK(ents[d])'
    BY <1>5 DEF EntitiesOK
  <2>1. CASE d = N + 1
    <3>1. ents'[d] = new
      BY <1>4, <2>1
    <3>2. NoItem \notin Broken
      BY CharacterAssumption
    <3> QED
      BY <1>1, <1>3, <1>r, <3>1, <3>2
      DEF EntityOK, PlanOrder, PlanHolds, Built, NotYet, Fixed, NoPlan, Plan, Empty
  <2>2. CASE d # N + 1
    <3>1. d \in 1 .. N /\ ents'[d] = ents[d]
      BY <1>2, <1>4, <2>2
    <3>2. EntityOK(ents[d])
      BY <1>0, <1>2, <3>1 DEF EntitiesOK
    <3> QED
      BY <1>1, <3>1, <3>2 DEF EntityOK, PlanOrder, PlanHolds, Built, NotYet, Fixed
  <2> QED
    BY <2>1, <2>2
<1>8. Past'
  <2> SUFFICES ASSUME NEW d \in 1 .. N PROVE ents'[d].state \in {"leaving", "switching", "gone"}
    BY <1>2, <1>5 DEF Past
  <2>1. ents # <<>>
    BY <1>2
  <2>2. CASE d = N
    BY <1>4, <1>p, <2>1, <2>2
  <2>3. CASE d # N
    <3>0. N \in Nat
      BY <1>2
    <3>1. d \in 1 .. N - 1
      BY <2>3, <3>0
    <3>2. ents[d].state \in {"leaving", "switching", "gone"}
      BY <3>1 DEF IInv, Past
    <3> QED
      BY <1>4, <3>2
  <2> QED
    BY <2>2, <2>3
<1>9. Frozen'
  <2> SUFFICES ASSUME Quiet', NEW d \in 1 .. N PROVE ents'[d].state # "leaving" /\ ents'[d].plan = NoPlan
    BY <1>2, <1>5 DEF Frozen
  <2> QED
    BY <1>4, <1>q, <1>u
<1>10. OneRow'
  BY <1>1, <1>q DEF IInv, OneRow
<1>11. SaveExact'
  BY <1>3, <1>4, <1>5 DEF SaveExact, Saved
<1>s. ASSUME disturbed' = {}, ents # <<>>
      PROVE  Exact(ents[N], rows) /\ Stored(ents[N].attr) = row /\ ents[N].plan = NoPlan /\ ents[N] \in Entities
             /\ ents[N].state # "loading" /\ Quiet /\ disturbed = {}
  <2>1. disturbed = {} /\ Quiet /\ ~Overtaking
    BY <1>1, <1>s DEF Quiet
  <2>2. N \in 1 .. N
    BY <1>2, <1>s
  <2>3. ents[N].plan = NoPlan /\ ents[N].state \in {"switching", "gone"}
    BY <1>p, <1>s, <1>u, <2>1, <2>2
  <2>4. Saved(ents[N])
    BY <2>1, <2>3 DEF Saved
  <2> QED
    BY <1>2, <1>s, <2>1, <2>2, <2>3, <2>4 DEF IInv, SaveExact
<1>12. Loading'
  <2>1. ASSUME disturbed' = {}, N + 1 > 1 PROVE Exact(ents[N], rows) /\ Stored(ents[N].attr) = row
    BY <1>2, <1>s, <2>1
  <2>2. N' - 1 = N /\ (N + 1 > 1 => ents'[N] = ents[N])
    BY <1>2, <1>4, <1>5
  <2> QED
    BY <1>1, <1>3, <1>4, <1>5, <2>1, <2>2 DEF Loading
<1>13. Counted'
  <2> SUFFICES ASSUME disturbed' = {} PROVE InDatabase
    BY <1>1, <1>3, <1>4, <1>5 DEF Counted, InDatabase
  <2>1. disturbed = {}
    BY <1>1
  <2>2. CASE ents = <<>>
    BY <2>1, <2>2 DEF IInv, Counted
  <2>3. CASE ents # <<>>
    <3>1. WithPlayer
      BY <1>s, <2>1, <2>3 DEF IInv, Counted
    <3>2. IsTable(rows) /\ Unique(rows)
      BY <1>0, <1>s, <2>3 DEF TypeOK, IsTable, Table, IInv, OneRow, Unique
    <3>3. \A k \in Kinds : Amount(rows, k) = Owned(ents[N].items, k)
      BY <1>s, <2>3, <3>2, SavedAmount
    <3> QED
      BY <3>1, <3>3 DEF WithPlayer, InDatabase
  <2> QED
    BY <2>2, <2>3
<1>14. UntouchedSafe'
  <2>1. \A s \in Slots : ~Holds(new.items[s])
    BY <1>3 DEF Empty, Holds
  <2> QED
    BY <1>5, <2>1 DEF UntouchedSafe
<1> QED
  BY <1>6, <1>7, <1>8, <1>9, <1>10, <1>11, <1>12, <1>13, <1>14 DEF IInv

LEMMA LoadInventoryInv ==
    ASSUME IInv, NEW e \in DOMAIN ents, LoadInventory(e)
    PROVE  IInv' /\ e = N /\ ents'[e].items = loadFromResult(rows) /\ ents'[e].attr = ents[e].attr
<1> DEFINE items == loadFromResult(rows)
           ent == [ents[e] EXCEPT !.state = "in", !.items = items]
<1>0. TypeOK /\ EntitiesOK /\ ents[e] \in Entities /\ EntityOK(ents[e]) /\ DOMAIN ents = 1 .. N /\ N \in Nat
      /\ IsTable(rows) /\ (Quiet => Unique(rows))
  BY Lengths DEF IInv, EntitiesOK, TypeOK, IsTable, Table, OneRow, Unique
<1>1. /\ ents[e].state = "loading" /\ ents' = [ents EXCEPT ![e] = ent]
      /\ UNCHANGED <<row, rows, ground, made, sent, crashes, disturbed>>
  BY DEF LoadInventory
<1>2. items \in [Slots -> Items] /\ \A s \in Slots : items[s].what \notin Broken
  BY <1>0, LoadedItems
<1> HIDE DEF items
<1>3. /\ ent \in Entities /\ ent.state = "in" /\ ent.items = items /\ ent.attr = ents[e].attr
      /\ ent.plan = ents[e].plan
  BY <1>0, <1>2 DEF Entities
<1> HIDE DEF ent
<1>4. Step(e, ent)
  BY <1>1, <1>3 DEF Step
<1>5. /\ ents' \in Seq(Entities) /\ N' = N /\ DOMAIN ents' = DOMAIN ents
      /\ ents # <<>> /\ ents' # <<>> /\ Last(ents') = ents'[N] /\ Last(ents) = ents[N]
      /\ ents'[e] = ent
      /\ \A d \in DOMAIN ents : ents'[d] = IF d = e THEN ent ELSE ents[d]
  BY <1>0, <1>4, StepEnts, Lengths
<1>n. e = N
  BY <1>0, <1>1 DEF IInv, Past
<1>q. Quiet' <=> Quiet
  BY <1>1 DEF Quiet
<1>p. ent.plan = NoPlan
  BY <1>0, <1>1, <1>3 DEF EntityOK, PlanOrder
<1>6. TypeOK'
  BY <1>0, <1>1, <1>5 DEF TypeOK, N
<1>7. EntitiesOK'
  <2>1. PlanOrder(ent) /\ PlanHolds(ent)
    BY <1>p DEF PlanOrder, PlanHolds, NoPlan, Plan
  <2>2. Built(ent) /\ NotYet(ent)
    BY <1>2, <1>3 DEF Built, NotYet
  <2>3. \A c \in Columns \ Written : ent.attr[c] = row[c]
    BY <1>0, <1>3 DEF EntityOK, Fixed
  <2>4. \A c \in Columns \ Written : row'[c] = row[c]
    BY <1>1
  <2> QED
    BY <1>0, <1>4, <2>1, <2>2, <2>3, <2>4, StepEntities
<1>8. Past'
  BY <1>0, <1>5, <1>n DEF IInv, Past
<1>9. Frozen'
  BY <1>0, <1>5, <1>n, <1>q DEF IInv, Frozen
<1>10. OneRow'
  BY <1>1, <1>q DEF IInv, OneRow
<1>11. SaveExact' /\ Loading'
  BY <1>3, <1>5, <1>n, <1>p DEF SaveExact, Saved, Loading
<1>12. Counted'
  <2> SUFFICES ASSUME disturbed = {} PROVE WithPlayer'
    BY <1>1, <1>3, <1>5, <1>n DEF Counted
  <2>1. Quiet /\ InDatabase
    BY <1>1, <1>n DEF Quiet, IInv, Counted
  <2>2. \A k \in Kinds \ Broken : Amount(rows, k) = Owned(items, k)
    BY <1>0, <2>1, LoadedAmount DEF items
  <2>3. ents'[N].items = items
    BY <1>3, <1>5, <1>n
  <2> QED
    BY <1>1, <1>5, <2>1, <2>2, <2>3 DEF WithPlayer, InDatabase
<1>13. UntouchedSafe'
  <2> SUFFICES ASSUME Quiet, NEW s \in Slots, Holds(items[s])
               PROVE  \E i \in DOMAIN rows : rows[i] = [slot |-> s, what |-> items[s].what, amount |-> items[s].count]
    BY <1>1, <1>3, <1>5, <1>n, <1>q DEF UntouchedSafe, Quiet
  <2> QED
    BY <1>0, LoadedRows DEF items
<1>14. IInv'
  BY <1>6, <1>7, <1>8, <1>9, <1>10, <1>11, <1>12, <1>13 DEF IInv
<1> QED
  BY <1>3, <1>5, <1>14, <1>n DEF items

-----------------------------------------------------------------------------
(* The theorems. *)

LEMMA InitInv == Init => IInv
<1> SUFFICES ASSUME Init PROVE IInv
  OBVIOUS
<1>1. ents = <<>> /\ Len(ents) = 0 /\ DOMAIN ents = {} /\ ents \in Seq(Entities)
  BY EmptySeq DEF Init
<1>2. IsTable(rows) /\ Unique(rows)
  BY StartAssumption DEF Init, IsTable, Table, Unique
<1>3. \A k \in Kinds : Amount(rows, k) \in Nat
  <2> SUFFICES ASSUME NEW k \in Kinds PROVE Amount(rows, k) \in Nat
    OBVIOUS
  <2> DEFINE f == [i \in DOMAIN rows |-> rows[i].amount]
             S == {i \in DOMAIN rows : rows[i].what = k}
  <2>1. S \in SUBSET DOMAIN rows /\ IsFiniteSet(DOMAIN rows) /\ \A i \in S : f[i] \in Nat
    BY <1>2 DEF IsTable, Table
  <2>2. IsFiniteSet(S)
    BY <2>1, FS_Subset
  <2>3. Cardinality(Pieces(f, S)) \in Nat
    BY <2>1, <2>2, PiecesFinite
  <2> QED
    BY <2>3 DEF Amount
<1>4. TypeOK
  <2>1. 0 <= MaxLoads
    BY CharacterAssumption
  <2> QED
    BY <1>1, <1>2, <1>3, <2>1 DEF Init, TypeOK, IsTable, Table
<1>5. EntitiesOK /\ Past /\ Frozen
  BY <1>1 DEF EntitiesOK, Past, Frozen, N
<1>6. OneRow
  BY <1>2 DEF OneRow, Unique
<1>7. SaveExact /\ Loading /\ UntouchedSafe
  BY <1>1 DEF SaveExact, Loading, UntouchedSafe
<1>8. Counted
  <2>1. \A k \in Kinds : ground[k] = 0 /\ made[k] = Amount(rows, k)
    BY DEF Init
  <2>2. InDatabase
    BY <1>3, <2>1 DEF InDatabase
  <2> QED
    BY <1>1, <2>2 DEF Counted
<1> QED
  BY <1>4, <1>5, <1>6, <1>7, <1>8 DEF IInv

(* Every step is one of five kinds. *)
LEMMA StepKinds ==
    ASSUME IInv, Next
    PROVE  \/ LoadCharacter
           \/ \E e \in DOMAIN ents : \/ LoadInventory(e)
                                     \/ \E ent : PlayStep(e, ent)
                                     \/ \E ent : LeaveStep(e, ent)
                                     \/ \E ent : SaveStep(e, ent)
<1>1. CASE LoadCharacter
  BY <1>1
<1>2. ASSUME NEW e \in DOMAIN ents,
             \/ LoadInventory(e)
             \/ \E p \in Packets : Send(e, p)
             \/ Discard(e) \/ ProcessChangeMapReq(e) \/ Move(e) \/ Teleport(e) \/ DropItem(e) \/ AddItem(e)
             \/ \E may \in BOOLEAN : ProcessEquip(e, may)
             \/ OnDisconnected(e) \/ Destroy(e)
             \/ SaveAttributes(e) \/ SaveSelect(e)
             \/ SaveDelete(e) \/ SaveUpdate(e) \/ SaveInsert(e)
             \/ Crash(e)
      PROVE  \/ LoadInventory(e)
             \/ \E ent : PlayStep(e, ent)
             \/ \E ent : LeaveStep(e, ent)
             \/ \E ent : SaveStep(e, ent)
  <2>1. CASE LoadInventory(e)
    BY <2>1
  <2>2. CASE (\E p \in Packets : Send(e, p)) \/ Discard(e)
    BY <2>2, QueueingPlays
  <2>3. CASE ProcessChangeMapReq(e)
    BY <2>3, ChangeMapReqPlays
  <2>4. CASE Move(e)
    BY <2>4, MovePlays
  <2>5. CASE Teleport(e)
    BY <2>5, TeleportPlays
  <2>6. CASE DropItem(e)
    BY <2>6, DropPlays
  <2>7. CASE AddItem(e)
    BY <2>7, AddItemPlays
  <2>8. CASE \E may \in BOOLEAN : ProcessEquip(e, may)
    BY <2>8, EquipPlays
  <2>9. CASE OnDisconnected(e) \/ Destroy(e) \/ Crash(e)
    BY <2>9, LeavingLeaves
  <2>10. CASE SaveAttributes(e)
    BY <2>10, AttributesSave
  <2>11. CASE SaveSelect(e)
    BY <2>11, SelectSaves
  <2>12. CASE SaveDelete(e)
    BY <2>12, DeleteSaves
  <2>13. CASE SaveUpdate(e)
    BY <2>13, UpdateSaves
  <2>14. CASE SaveInsert(e)
    BY <2>14, InsertSaves
  <2> QED
    BY <1>2, <2>1, <2>2, <2>3, <2>4, <2>5, <2>6, <2>7, <2>8, <2>9, <2>10, <2>11, <2>12, <2>13, <2>14
<1> QED
  BY <1>1, <1>2 DEF Next

LEMMA NextInv ==
    ASSUME IInv, [Next]_vars
    PROVE  IInv'
<1>1. CASE Next
  <2>1. CASE LoadCharacter
    BY <2>1, LoadCharacterInv
  <2>2. ASSUME NEW e \in DOMAIN ents,
               \/ LoadInventory(e)
               \/ \E ent : PlayStep(e, ent)
               \/ \E ent : LeaveStep(e, ent)
               \/ \E ent : SaveStep(e, ent)
        PROVE  IInv'
    BY <2>2, LoadInventoryInv, PlayInv, LeaveInv, SaveInv
  <2> QED
    BY <1>1, <2>1, <2>2, StepKinds
<1>2. CASE UNCHANGED vars
  BY <1>2 DEF vars, IInv, TypeOK, EntitiesOK, EntityOK, PlanOrder, PlanHolds, Built, NotYet, Fixed, Past, Frozen,
              Quiet, N, OneRow, SaveExact, Saved, Exact, RowDone, Loading, Counted, InDatabase, WithPlayer,
              UntouchedSafe
<1> QED
  BY <1>1, <1>2

LEMMA Invariance == Spec => []IInv
<1>1. Init => IInv
  BY InitInv
<1>2. IInv /\ [Next]_vars => IInv'
  BY NextInv
<1> QED
  BY <1>1, <1>2, PTL DEF Spec

(* The rows, the entities and the plans of their saves are well formed, at *)
(* every load, packet, statement and crash; in particular a save never     *)
(* writes a row for an empty slot.                                         *)
THEOREM TypeCorrect == Spec => []TypeOK
<1>1. IInv => TypeOK
  BY DEF IInv
<1> QED
  BY <1>1, Invariance, PTL

(* Nothing is lost or copied by playing, saving and loading, unless one of *)
(* the four disturbances happened: of every kind that can be built, what   *)
(* the latest entity holds and what lies on the ground is what was made,   *)
(* and once the save has ended (saveCharacter, statement by statement) so  *)
(* is what the inventory table holds.                                      *)
THEOREM ItemsConserved == Spec => []NothingLost
<1>1. IInv => NothingLost
  <2> SUFFICES ASSUME IInv, disturbed = {}, ents # <<>>, NEW k \in Kinds \ Broken
               PROVE  /\ ents[N].state # "loading" => Owned(ents[N].items, k) + ground[k] = made[k]
                      /\ (ents[N].state \in {"gone", "switching", "loading"} /\ ents[N].plan = NoPlan) =>
                           Amount(rows, k) + ground[k] = made[k]
    <3>1. IInv /\ ents # <<>> => Last(ents) = ents[N]
      BY Lengths DEF IInv
    <3> QED
      BY <3>1 DEF NothingLost
  <2>1. TypeOK /\ Quiet /\ N \in DOMAIN ents /\ ents[N] \in Entities
    BY Lengths DEF IInv, Quiet
  <2>2. ents[N].state # "loading" => Owned(ents[N].items, k) + ground[k] = made[k]
    BY DEF IInv, Counted, WithPlayer
  <2>3. ents[N].state = "loading" => Amount(rows, k) + ground[k] = made[k]
    BY DEF IInv, Counted, InDatabase
  <2>4. ASSUME ents[N].state \in {"gone", "switching"}, ents[N].plan = NoPlan
        PROVE  Amount(rows, k) = Owned(ents[N].items, k)
    <3>1. IsTable(rows) /\ Unique(rows)
      BY <2>1 DEF TypeOK, IsTable, Table, IInv, OneRow, Unique
    <3>2. Exact(ents[N], rows)
      BY <2>1, <2>4 DEF IInv, SaveExact, Saved
    <3> QED
      BY <2>1, <2>4, <3>1, <3>2, SavedAmount
  <2> QED
    BY <2>2, <2>3, <2>4
<1> QED
  BY <1>1, Invariance, PTL

(* A crash, even between two statements of a save, costs at most what was  *)
(* touched since the character was loaded or last saved.                   *)
THEOREM UntouchedIsSafe == Spec => []UntouchedSafe
<1>1. IInv => UntouchedSafe
  BY DEF IInv
<1> QED
  BY <1>1, Invariance, PTL

(* A player who returns undisturbed finds every item in its slot, and the  *)
(* character where it was left, but for the rounding of its place          *)
(* (EntitySystem::saveCharacter, Position::commitToUpdate).                *)
THEOREM ReturnIsSame == Spec => SameOnReturn
<1> DEFINE A == \A e \in 2 .. Len(ents) :
                  (LoadInventory(e) /\ disturbed = {}) =>
                    LET old == ents[e - 1]
                        new == ents'[e]
                    IN  /\ \A c \in Columns \ Coordinates : new.attr[c] = old.attr[c]
                        /\ \A c \in Coordinates : new.attr[c] - old.attr[c] \in -2 .. 2
                        /\ \A s \in Slots : Holds(old.items[s]) => new.items[s] = old.items[s]
<1>1. IInv /\ [Next]_vars => [A]_vars
  <2> SUFFICES ASSUME IInv, NEW e \in 2 .. Len(ents), LoadInventory(e), disturbed = {}
               PROVE  /\ \A c \in Columns \ Coordinates : ents'[e].attr[c] = ents[e - 1].attr[c]
                      /\ \A c \in Coordinates : ents'[e].attr[c] - ents[e - 1].attr[c] \in -2 .. 2
                      /\ \A s \in Slots : Holds(ents[e - 1].items[s]) => ents'[e].items[s] = ents[e - 1].items[s]
    OBVIOUS
  <2>0. TypeOK /\ N \in Nat /\ DOMAIN ents = 1 .. N /\ N = Len(ents) /\ Quiet /\ ents # <<>>
    <3>1. TypeOK /\ Quiet
      BY DEF IInv, Quiet
    <3>2. N \in Nat /\ DOMAIN ents = 1 .. N /\ N = Len(ents) /\ (ents = <<>> => N = 0)
      BY <3>1, Lengths DEF N
    <3> QED
      BY <3>1, <3>2
  <2>1. e \in DOMAIN ents
    BY <2>0
  <2>2. e = N /\ ents'[e].items = loadFromResult(rows) /\ ents'[e].attr = ents[e].attr
    BY <2>1, LoadInventoryInv
  <2>3. ents[N].state = "loading" /\ N > 1
    BY <2>0, <2>2 DEF LoadInventory
  <2>4. ents[N].attr = Loaded(row) /\ Exact(ents[N - 1], rows) /\ Stored(ents[N - 1].attr) = row
    BY <2>0, <2>3 DEF IInv, Loading
  <2>5. N - 1 \in 1 .. N - 1 /\ N - 1 \in DOMAIN ents
    BY <2>0, <2>3
  <2>6. ents[N - 1].plan = NoPlan /\ ents[N - 1] \in Entities /\ Built(ents[N - 1])
    <3>1. ents[N - 1].plan = NoPlan
      BY <2>0, <2>5 DEF IInv, Frozen
    <3>2. ents[N - 1] \in Entities
      BY <2>0, <2>5, Lengths
    <3>3. EntityOK(ents[N - 1])
      BY <2>5 DEF IInv, EntitiesOK
    <3> QED
      BY <3>1, <3>2, <3>3 DEF EntityOK
  <2>7. ASSUME NEW s \in Slots, Holds(ents[N - 1].items[s])
        PROVE  loadFromResult(rows)[s] = ents[N - 1].items[s]
    <3>1. IsTable(rows) /\ Unique(rows)
      BY <2>0 DEF TypeOK, IsTable, Table, IInv, OneRow, Unique
    <3>2. ents[N - 1].plan.toInsert = {} /\ ents[N - 1].plan.toUpdate = {}
      BY <2>6 DEF NoPlan, Plan
    <3>3. PICK i \in DOMAIN rows : rows[i].slot = s
      BY <2>4, <2>7, <3>2 DEF Exact
    <3>4. Matches(rows[i], ents[N - 1].items[s])
      BY <2>4, <2>7, <3>2, <3>3 DEF Exact, RowDone
    <3>5. rows[i].what \notin Broken
      BY <2>6, <3>4 DEF Built, Matches
    <3>6. loadFromResult(rows)[s] = [what |-> rows[i].what, count |-> rows[i].amount]
      BY <3>1, <3>3, <3>5, LoadedRows
    <3>7. ents[N - 1].items[s] \in Items
      BY <2>6 DEF Entities
    <3>8. ents[N - 1].items[s] = [what |-> rows[i].what, count |-> rows[i].amount]
      BY <3>4, <3>7 DEF Matches, Items
    <3> QED
      BY <3>6, <3>8
  <2>8. ents'[e].attr = Loaded(Stored(ents[N - 1].attr)) /\ ents[N - 1].attr \in [Columns -> Nat]
    BY <2>2, <2>4, <2>6 DEF Entities
  <2>9. /\ \A c \in Columns \ Coordinates : ents'[e].attr[c] = ents[N - 1].attr[c]
        /\ \A c \in Coordinates : ents'[e].attr[c] - ents[N - 1].attr[c] \in -2 .. 2
    BY <2>8, Rounding
  <2> QED
    BY <2>2, <2>7, <2>9
<1> QED
  BY <1>1, Invariance, PTL DEF Spec, SameOnReturn

(* An item gets into or out of slot 0 only while the bag is full: in all   *)
(* other cases findNextEmptySlot finds a slot of the bag.                  *)
THEOREM HiddenMeansFull == Spec => HiddenOnlyWhenFull
<1> DEFINE A == \A e \in DOMAIN ents :
                  (ents[e].state # "loading" /\ ents'[e].items[0] # ents[e].items[0]) =>
                    \A s \in Bag : Holds(ents[e].items[s])
<1>1. IInv /\ [Next]_vars => [A]_vars
  <2> SUFFICES ASSUME IInv, Next, NEW d \in DOMAIN ents, ents[d].state # "loading",
                      ents'[d].items[0] # ents[d].items[0]
               PROVE  \A s \in Bag : Holds(ents[d].items[s])
    OBVIOUS
  <2>0. TypeOK
    BY DEF IInv
  <2>1. ASSUME LoadCharacter PROVE ents'[d] = ents[d]
    <3>1. PICK new : ents' = Append(ents, new)
      BY <2>1 DEF LoadCharacter
    <3>2. ents \in Seq(Entities) /\ d \in 1 .. Len(ents)
      BY <2>0, Lengths DEF TypeOK, N
    <3> QED
      BY <3>1, <3>2
  <2>2. ASSUME NEW e \in DOMAIN ents, NEW ent, Step(e, ent)
        PROVE  ents'[d] = IF d = e THEN ent ELSE ents[d]
    BY <2>0, <2>2, StepEnts
  <2>3. ASSUME NEW e \in DOMAIN ents, LoadInventory(e) PROVE d # e /\ ents'[d] = ents[d]
    <3>1. ents[e].state = "loading" /\ ents' = [ents EXCEPT ![e] = [ents[e] EXCEPT !.state = "in", !.items = loadFromResult(rows)]]
      BY <2>3 DEF LoadInventory
    <3> QED
      BY <3>1
  <2>4. ASSUME NEW e \in DOMAIN ents, NEW ent, PlayStep(e, ent)
        PROVE  \A s \in Bag : Holds(ents[d].items[s])
    <3>1. d = e /\ ents'[d] = ent
      BY <2>2, <2>4 DEF PlayStep
    <3> QED
      BY <2>4, <3>1 DEF PlayStep, Play
  <2>5. ASSUME NEW e \in DOMAIN ents, NEW ent, LeaveStep(e, ent) \/ SaveStep(e, ent)
        PROVE  FALSE
    <3>1. Step(e, ent) /\ ent.items = ents[e].items
      BY <2>5 DEF LeaveStep, SaveStep
    <3> QED
      BY <2>2, <3>1
  <2> QED
    BY <2>1, <2>3, <2>4, <2>5, StepKinds
<1> QED
  BY <1>1, Invariance, PTL DEF Spec, HiddenOnlyWhenFull
=============================================================================
