---------------------------- MODULE PartyProofs ----------------------------
(***************************************************************************)
(* Proofs about Party for any set of characters and of parties: components *)
(* and member lists agree, and a party is led by one of its members,       *)
(* although the callback of a removed component removes another one.       *)
(***************************************************************************)
EXTENDS Party, SequenceTheorems, TLAPS

USE NoCharAssumption, NoPartyAssumption

\* Nobody is twice in a list.
Once(s) == \A i, j \in 1 .. Len(s) : s[i] = s[j] => i = j

\* d is in a list.
Listed(s, d) == \E i \in 1 .. Len(s) : s[i] = d

\* In a list without repetition find and erase take out the one place.
LEMMA WithoutIsRemoveAt ==
  ASSUME NEW s \in Seq(Chars), NEW i \in 1 .. Len(s), Once(s)
  PROVE  Without(s, s[i]) = SubSeq(s, 1, i - 1) \o SubSeq(s, i + 1, Len(s))
<1> DEFINE I == {k \in 1 .. Len(s) : s[k] = s[i]}
<1>1. I = {i}
  BY DEF Once
<1>2. Min(I) = i
  BY <1>1 DEF Min
<1>3. SelectInSeq(s, LAMBDA v : v = s[i]) = i
  BY <1>1, <1>2 DEF SelectInSeq
<1>4. \E k \in 1 .. Len(s) : s[k] = s[i]
  OBVIOUS
<1> QED BY <1>3, <1>4 DEF Without, RemoveFirst, RemoveAt

\* What is left of a list, place by place.
LEMMA WithoutPlaces ==
  ASSUME NEW s \in Seq(Chars), NEW i \in 1 .. Len(s), Once(s)
  PROVE  /\ Without(s, s[i]) \in Seq(Chars)
         /\ Len(Without(s, s[i])) = Len(s) - 1
         /\ \A j \in 1 .. Len(s) - 1 :
              Without(s, s[i])[j] = IF j < i THEN s[j] ELSE s[j + 1]
<1> DEFINE a == SubSeq(s, 1, i - 1)
           b == SubSeq(s, i + 1, Len(s))
<1>1. a \in Seq(Chars) /\ Len(a) = i - 1 /\ \A j \in 1 .. i - 1 : a[j] = s[j]
  OBVIOUS
<1>2. /\ b \in Seq(Chars)
      /\ Len(b) = Len(s) - i
      /\ \A j \in 1 .. Len(s) - i : b[j] = s[j + i]
  OBVIOUS
<1>3. Without(s, s[i]) = a \o b
  BY WithoutIsRemoveAt
<1> HIDE DEF a, b
<1>4. /\ a \o b \in Seq(Chars)
      /\ Len(a \o b) = Len(a) + Len(b)
      /\ \A j \in 1 .. Len(a) + Len(b) :
           (a \o b)[j] = IF j <= Len(a) THEN a[j] ELSE b[j - Len(a)]
  BY <1>1, <1>2, ConcatProperties
<1>5. Len(a) + Len(b) = Len(s) - 1
  BY <1>1, <1>2
<1>6. ASSUME NEW j \in 1 .. Len(s) - 1
      PROVE  (a \o b)[j] = IF j < i THEN s[j] ELSE s[j + 1]
  <2>1. (a \o b)[j] = IF j <= Len(a) THEN a[j] ELSE b[j - Len(a)]
    BY <1>4, <1>5
  <2>2. CASE j < i
    <3>1. j \in 1 .. i - 1 /\ j <= Len(a)
      BY <2>2, <1>1
    <3> QED BY <3>1, <2>1, <2>2, <1>1
  <2>3. CASE ~(j < i)
    <3>1. /\ j - Len(a) \in 1 .. Len(s) - i
          /\ (j - Len(a)) + i = j + 1
          /\ ~(j <= Len(a))
      BY <2>3, <1>1
    <3> QED BY <3>1, <2>1, <2>3, <1>2
  <2> QED BY <2>2, <2>3
<1> QED BY <1>3, <1>4, <1>5, <1>6

(***************************************************************************)
(* removeMember: who was found is gone, everybody else is still there, and *)
(* once.                                                                   *)
(***************************************************************************)
LEMMA WithoutFacts ==
  ASSUME NEW s \in Seq(Chars), NEW c \in Chars, Listed(s, c), Once(s)
  PROVE  /\ Without(s, c) \in Seq(Chars)
         /\ Len(Without(s, c)) = Len(s) - 1
         /\ \A d \in Chars : Listed(Without(s, c), d) <=> Listed(s, d) /\ d # c
         /\ Once(Without(s, c))
<1> DEFINE r == Without(s, c)
<1>1. PICK i \in 1 .. Len(s) : s[i] = c
  BY DEF Listed
<1>2. /\ r \in Seq(Chars)
      /\ Len(r) = Len(s) - 1
      /\ \A j \in 1 .. Len(s) - 1 : r[j] = IF j < i THEN s[j] ELSE s[j + 1]
  BY <1>1, WithoutPlaces
<1> HIDE DEF r
<1>3. ASSUME NEW d \in Chars, Listed(r, d)
      PROVE  Listed(s, d) /\ d # c
  <2>1. PICK j \in 1 .. Len(s) - 1 : r[j] = d
    BY <1>2, <1>3 DEF Listed
  <2>2. CASE j < i
    <3>1. j \in 1 .. Len(s) /\ j # i
      BY <2>2
    <3>2. s[j] = d
      BY <1>2, <2>1, <2>2
    <3> QED BY <3>1, <3>2, <1>1 DEF Listed, Once
  <2>3. CASE ~(j < i)
    <3>1. j + 1 \in 1 .. Len(s) /\ j + 1 # i
      BY <2>3
    <3>2. s[j + 1] = d
      BY <1>2, <2>1, <2>3
    <3> QED BY <3>1, <3>2, <1>1 DEF Listed, Once
  <2> QED BY <2>2, <2>3
<1>4. ASSUME NEW d \in Chars, Listed(s, d), d # c
      PROVE  Listed(r, d)
  <2>1. PICK k \in 1 .. Len(s) : s[k] = d
    BY <1>4 DEF Listed
  <2>2. CASE k < i
    <3>1. k \in 1 .. Len(s) - 1
      BY <2>2
    <3>2. r[k] = d
      BY <3>1, <1>2, <2>1, <2>2
    <3> QED BY <3>1, <3>2, <1>2 DEF Listed
  <2>3. CASE ~(k < i)
    <3>1. k # i
      BY <1>1, <1>4, <2>1
    <3>2. k - 1 \in 1 .. Len(s) - 1 /\ ~(k - 1 < i) /\ (k - 1) + 1 = k
      BY <3>1, <2>3
    <3>3. r[k - 1] = d
      BY <3>2, <1>2, <2>1
    <3> QED BY <3>2, <3>3, <1>2 DEF Listed
  <2> QED BY <2>2, <2>3
<1>5. Once(r)
  <2> SUFFICES ASSUME NEW j \in 1 .. Len(s) - 1, NEW k \in 1 .. Len(s) - 1, r[j] = r[k]
               PROVE  j = k
    BY <1>2 DEF Once
  <2> DEFINE at(x) == IF x < i THEN x ELSE x + 1
  <2>1. at(j) \in 1 .. Len(s) /\ at(k) \in 1 .. Len(s)
    OBVIOUS
  <2>2. s[at(j)] = s[at(k)]
    BY <1>2
  <2>3. at(j) = at(k)
    BY <2>1, <2>2 DEF Once
  <2> QED BY <2>3
<1> QED BY <1>2, <1>3, <1>4, <1>5 DEF r

-----------------------------------------------------------------------------
\* The three invariants together are inductive.
PartyInv == TypeOK /\ MembersLinked /\ LedByMember

\* Member lists and components agree, without the part about the map.
Agree(ms, cs) ==
  /\ \A p \in Parties, d \in Chars : Listed(ms[p], d) <=> cs[d].party = p
  /\ \A p \in Parties : Once(ms[p])
  /\ \A d \in Chars : cs[d].party # NoParty => cs[d].has

\* Parties have two members or more, one of whom leads.
Led(ms, ls) ==
  \A p \in Parties : ms[p] # <<>> => Len(ms[p]) >= 2 /\ Listed(ms[p], ls[p])

\* The types of a party's state.
Types(ms, ls, cs) ==
  /\ cs \in [Chars -> Component]
  /\ ms \in [Parties -> Seq(Chars)]
  /\ ls \in [Parties -> Chars \cup {NoChar}]

LEMMA InvParts ==
  ASSUME PartyInv
  PROVE  /\ Agree(members_, comp) /\ Led(members_, leader_) /\ Types(members_, leader_, comp)
         /\ on_map \subseteq Chars /\ socket \subseteq on_map
         /\ \A d \in Chars : comp[d].has => d \in on_map
BY DEF PartyInv, TypeOK, MembersLinked, LedByMember, Agree, Led, Types, isMember, InParty, Listed, Once

LEMMA PartsInv ==
  ASSUME Agree(members_', comp'), Led(members_', leader_'), Types(members_', leader_', comp'),
         on_map' \subseteq Chars, socket' \subseteq on_map',
         \A d \in Chars : comp'[d].has => d \in on_map'
  PROVE  PartyInv'
BY DEF PartyInv, TypeOK, MembersLinked, LedByMember, Agree, Led, Types, isMember, InParty, Listed, Once

\* The three values a component takes.
LEMMA ComponentValues ==
  /\ NoComp \in Component /\ NoComp.party = NoParty /\ ~NoComp.has
  /\ Requesting \in Component /\ Requesting.party = NoParty /\ Requesting.has
  /\ \A p \in Parties : MemberOf(p) \in Component /\ MemberOf(p).party = p /\ MemberOf(p).has
BY DEF NoComp, Requesting, MemberOf, Component

(***************************************************************************)
(* The removal callback, the callback it triggers included, keeps          *)
(* everything, and takes c's component away.                               *)
(***************************************************************************)
LEMMA RemovalKeeps ==
  ASSUME Agree(members_, comp), Led(members_, leader_), Types(members_, leader_, comp),
         NEW c \in Chars, NEW others \in [Chars -> Component],
         \A d \in Chars : others[d].party = comp[d].party /\ others[d].has = comp[d].has,
         RemoveParty(c, others)
  PROVE  /\ Agree(members_', comp') /\ Led(members_', leader_')
         /\ Types(members_', leader_', comp')
         /\ \A d \in Chars : comp'[d].has => comp[d].has /\ d # c
<1> DEFINE p == comp[c].party
           ms == members_[p]
           rest == Without(ms, c)
<1>a. /\ NoComp \in Component
      /\ NoComp.party = NoParty
      /\ ~NoComp.has
  BY ComponentValues
<1>1. CASE ~(InParty(c) /\ isMember(p, c))
  <2>1. /\ comp' = [others EXCEPT ![c] = NoComp]
        /\ members_' = members_
        /\ leader_' = leader_
    BY <1>1 DEF RemoveParty
  <2>2. comp[c].party = NoParty
    BY <1>1 DEF InParty, isMember, Agree, Listed, Types, Component
  <2>3. /\ comp' \in [Chars -> Component]
        /\ \A d \in Chars : comp'[d].party = comp[d].party
        /\ \A d \in Chars : comp'[d].has => comp[d].has /\ d # c
        /\ \A d \in Chars : d # c => comp'[d].has = comp[d].has
        /\ comp'[c].party = NoParty
    BY <2>1, <2>2, <1>a
  <2>4. Agree(members_', comp')
    BY <2>1, <2>3 DEF Agree
  <2> QED BY <2>1, <2>3, <2>4 DEF Led, Types
<1>2. CASE InParty(c) /\ isMember(p, c)
  <2>1. p \in Parties /\ ms \in Seq(Chars) /\ Listed(ms, c) /\ Once(ms)
    BY <1>2 DEF InParty, isMember, Listed, Types, Component, Agree
  <2>2. /\ rest \in Seq(Chars)
        /\ Len(rest) = Len(ms) - 1
        /\ \A d \in Chars : Listed(rest, d) <=> Listed(ms, d) /\ d # c
        /\ Once(rest)
    BY <2>1, WithoutFacts
  <2>3. ms # <<>> /\ Len(ms) >= 2 /\ Listed(ms, leader_[p])
    BY <2>1 DEF Led, Listed
  <2>4. CASE Len(rest) = 1
    <3> DEFINE o == rest[1]
    <3>1. /\ comp' = [others EXCEPT ![c] = NoComp, ![o] = NoComp]
          /\ members_' = [members_ EXCEPT ![p] = <<>>]
          /\ leader_' = [leader_ EXCEPT ![p] = NoChar]
      BY <1>2, <2>4 DEF RemoveParty
    <3>2. o \in Chars /\ \A d \in Chars : Listed(rest, d) <=> d = o
      BY <2>2, <2>4 DEF Listed
    <3>3. \A d \in Chars : comp[d].party = p <=> d = c \/ d = o
      BY <2>1, <2>2, <3>2 DEF Agree
    <3> HIDE DEF o, rest, ms
    <3>4. /\ comp' \in [Chars -> Component]
          /\ \A d \in Chars : comp'[d].has => comp[d].has /\ d # c
          /\ \A d \in Chars : d # c /\ d # o => /\ comp'[d].party = comp[d].party
                                                /\ comp'[d].has = comp[d].has
          /\ comp'[c] = NoComp /\ comp'[o] = NoComp
      BY <3>1, <3>2, <1>a
    <3>5. /\ members_' \in [Parties -> Seq(Chars)]
          /\ members_'[p] = <<>>
          /\ \A q \in Parties : q # p => members_'[q] = members_[q]
      BY <3>1, <2>1 DEF Types
    <3>6. /\ leader_' \in [Parties -> Chars \cup {NoChar}]
          /\ \A q \in Parties : q # p => leader_'[q] = leader_[q]
      BY <3>1, <2>1 DEF Types
    <3>7. ~(\E d \in Chars : Listed(<<>>, d)) /\ Once(<<>>)
      BY DEF Listed, Once
    <3>8. Agree(members_', comp')
      <4>1. ASSUME NEW q \in Parties, NEW d \in Chars
            PROVE  Listed(members_'[q], d) <=> comp'[d].party = q
        <5>1. CASE q = p
          BY <5>1, <3>3, <3>4, <3>5, <3>7, <1>a
        <5>2. CASE q # p
          BY <5>2, <3>3, <3>4, <3>5, <1>a DEF Agree
        <5> QED BY <5>1, <5>2
      <4>2. \A q \in Parties : Once(members_'[q])
        BY <3>5, <3>7 DEF Agree
      <4>3. \A d \in Chars : comp'[d].party # NoParty => comp'[d].has
        BY <3>4, <1>a DEF Agree
      <4> QED BY <4>1, <4>2, <4>3 DEF Agree
    <3>9. Led(members_', leader_')
      BY <3>5, <3>6 DEF Led
    <3> QED BY <3>4, <3>5, <3>6, <3>8, <3>9 DEF Types
  <2>5. CASE Len(rest) # 1
    <3> DEFINE l == NewLeader(p, c, rest)
    <3>1. /\ comp' = [others EXCEPT ![c] = NoComp]
          /\ members_' = [members_ EXCEPT ![p] = rest]
          /\ leader_' = [leader_ EXCEPT ![p] = l]
      BY <1>2, <2>5 DEF RemoveParty
    <3>2. Len(rest) >= 2 /\ rest # <<>>
      <4> HIDE DEF rest, ms
      <4>1. Len(rest) >= 2
        BY <2>1, <2>2, <2>3, <2>5
      <4> QED BY <4>1
    <3>3. l \in Chars /\ Listed(rest, l)
      <4>1. CASE leader_[p] # c
        <5>1. leader_[p] \in Chars
          BY <2>1, <2>3 DEF Listed
        <5> QED BY <4>1, <5>1, <2>2, <2>3 DEF NewLeader
      <4>2. CASE leader_[p] = c
        <5>1. l = rest[1]
          BY <4>2, <3>2 DEF NewLeader
        <5>2. rest[1] \in Chars /\ 1 \in 1 .. Len(rest)
          BY <2>2, <3>2
        <5> QED BY <5>1, <5>2 DEF Listed
      <4> QED BY <4>1, <4>2
    <3>4. /\ comp' \in [Chars -> Component]
          /\ \A d \in Chars : comp'[d].has => comp[d].has /\ d # c
          /\ \A d \in Chars : d # c => /\ comp'[d].party = comp[d].party
                                       /\ comp'[d].has = comp[d].has
          /\ comp'[c] = NoComp
      BY <3>1, <1>a
    <3> HIDE DEF rest, ms, l
    <3>5. /\ members_' \in [Parties -> Seq(Chars)]
          /\ members_'[p] = rest
          /\ \A q \in Parties : q # p => members_'[q] = members_[q]
      BY <3>1, <2>1, <2>2 DEF Types
    <3>6. /\ leader_' \in [Parties -> Chars \cup {NoChar}]
          /\ leader_'[p] = l
          /\ \A q \in Parties : q # p => leader_'[q] = leader_[q]
      BY <3>1, <3>3, <2>1 DEF Types
    <3>7. Agree(members_', comp')
      <4>1. ASSUME NEW q \in Parties, NEW d \in Chars
            PROVE  Listed(members_'[q], d) <=> comp'[d].party = q
        <5>1. CASE q = p
          <6>1. Listed(rest, d) <=> comp[d].party = p /\ d # c
            BY <2>1, <2>2 DEF Agree, ms
          <6> QED BY <5>1, <6>1, <3>4, <3>5, <1>a
        <5>2. CASE q # p
          BY <5>2, <3>4, <3>5, <1>a DEF Agree
        <5> QED BY <5>1, <5>2
      <4>2. \A q \in Parties : Once(members_'[q])
        BY <3>5, <2>2 DEF Agree
      <4>3. \A d \in Chars : comp'[d].party # NoParty => comp'[d].has
        BY <3>4, <1>a DEF Agree
      <4> QED BY <4>1, <4>2, <4>3 DEF Agree
    <3>8. Led(members_', leader_')
      BY <3>2, <3>3, <3>5, <3>6 DEF Led
    <3> QED BY <3>4, <3>5, <3>6, <3>7, <3>8 DEF Types
  <2> QED BY <2>4, <2>5
<1> QED BY <1>1, <1>2

\* A step that only edits the request flag of one component, or the map.
LEMMA FlagKeeps ==
  ASSUME PartyInv, NEW c \in Chars, NEW b \in BOOLEAN,
         comp' = [comp EXCEPT ![c] = [comp[c] EXCEPT !.isRequested = b]],
         UNCHANGED <<on_map, socket, members_, leader_>>
  PROVE  PartyInv'
<1> DEFINE n == [comp[c] EXCEPT !.isRequested = b]
<1>0. Agree(members_, comp) /\ Led(members_, leader_) /\ Types(members_, leader_, comp)
  BY InvParts
<1>1. n \in Component /\ n.party = comp[c].party /\ n.has = comp[c].has
  BY <1>0 DEF Types, Component
<1> HIDE DEF n
<1>2. comp' = [comp EXCEPT ![c] = n]
  BY DEF n
<1>3. /\ comp' \in [Chars -> Component]
      /\ \A d \in Chars : comp'[d].party = comp[d].party /\ comp'[d].has = comp[d].has
  BY <1>0, <1>1, <1>2 DEF Types
<1>4. Agree(members_', comp')
  BY <1>0, <1>3 DEF Agree
<1> QED BY <1>0, <1>3, <1>4, InvParts, PartsInv DEF Led, Types

LEMMA MakeKeeps ==
  ASSUME PartyInv, NEW c \in Chars, NEW o \in Chars, Make(c, o)
  PROVE  PartyInv'
<1>0. Agree(members_, comp) /\ Led(members_, leader_) /\ Types(members_, leader_, comp)
  BY InvParts
<1>1. Requesting \in Component /\ Requesting.party = NoParty /\ Requesting.has
  BY ComponentValues
<1>2. /\ comp' = [comp EXCEPT ![c] = Requesting]
      /\ UNCHANGED <<on_map, socket, members_, leader_>>
      /\ comp[c].party = NoParty /\ c \in on_map
  BY DEF Make, InParty, Request, Reachable
<1>3. /\ comp' \in [Chars -> Component]
      /\ \A d \in Chars : comp'[d].party = comp[d].party
      /\ \A d \in Chars : d # c => comp'[d].has = comp[d].has
      /\ comp'[c].has
  BY <1>0, <1>1, <1>2 DEF Types
<1>4. Agree(members_', comp')
  BY <1>0, <1>2, <1>3 DEF Agree
<1> QED BY <1>0, <1>2, <1>3, <1>4, InvParts, PartsInv DEF Led, Types

LEMMA ChangeOwnerKeeps ==
  ASSUME PartyInv, NEW c \in Chars, NEW o \in Chars, ChangeOwner(c, o)
  PROVE  PartyInv'
<1> DEFINE p == comp[c].party
<1>0. Agree(members_, comp) /\ Led(members_, leader_) /\ Types(members_, leader_, comp)
  BY InvParts
<1>1. p \in Parties
  BY <1>0 DEF ChangeOwner, InParty, Types, Component
<1>2. /\ Listed(members_[p], o)
      /\ leader_' = [leader_ EXCEPT ![p] = o]
      /\ UNCHANGED <<on_map, socket, comp, members_>>
  BY DEF ChangeOwner, isMember, Listed
<1> HIDE DEF p
<1>3. /\ leader_' \in [Parties -> Chars \cup {NoChar}]
      /\ leader_'[p] = o
      /\ \A q \in Parties : q # p => leader_'[q] = leader_[q]
  BY <1>0, <1>1, <1>2 DEF Types
<1>4. Led(members_', leader_')
  BY <1>0, <1>2, <1>3 DEF Led
<1> QED BY <1>0, <1>2, <1>3, <1>4, InvParts, PartsInv DEF Types

\* LEFT, KICK and the destruction of an entity.
LEMMA RemoveKeeps ==
  ASSUME PartyInv, NEW c \in Chars, RemoveParty(c, comp),
         on_map \ {c} \subseteq on_map', on_map' \subseteq Chars, socket' \subseteq on_map'
  PROVE  PartyInv'
<1>0. /\ Agree(members_, comp) /\ Led(members_, leader_) /\ Types(members_, leader_, comp)
      /\ on_map \subseteq Chars /\ socket \subseteq on_map
      /\ \A d \in Chars : comp[d].has => d \in on_map
  BY InvParts
<1>1. comp \in [Chars -> Component]
  BY <1>0 DEF Types
<1>2. /\ Agree(members_', comp') /\ Led(members_', leader_')
      /\ Types(members_', leader_', comp')
      /\ \A d \in Chars : comp'[d].has => comp[d].has /\ d # c
  BY <1>0, <1>1, RemovalKeeps
<1>3. /\ on_map' \subseteq Chars /\ socket' \subseteq on_map'
      /\ \A d \in Chars : comp'[d].has => d \in on_map'
  BY <1>0, <1>2
<1> QED BY <1>2, <1>3, PartsInv

LEMMA RejectKeeps ==
  ASSUME PartyInv, NEW c \in Chars, NEW o \in Chars, Reject(c, o)
  PROVE  PartyInv'
<1> DEFINE n == [comp[o] EXCEPT !.isRequested = FALSE]
           answered == [comp EXCEPT ![o] = n]
<1>0. /\ Agree(members_, comp) /\ Led(members_, leader_) /\ Types(members_, leader_, comp)
      /\ on_map \subseteq Chars /\ socket \subseteq on_map
      /\ \A d \in Chars : comp[d].has => d \in on_map
  BY InvParts
<1>1. UNCHANGED <<on_map, socket>>
  BY DEF Reject
<1>2. CASE InParty(o)
  <2>1. comp' = answered /\ UNCHANGED <<members_, leader_>>
    BY <1>2 DEF Reject
  <2> QED BY <2>1, <1>1, FlagKeeps
<1>3. CASE ~InParty(o)
  <2>1. RemoveParty(o, answered)
    BY <1>3 DEF Reject
  <2>2. n \in Component /\ n.party = comp[o].party /\ n.has = comp[o].has
    BY <1>0 DEF Types, Component
  <2> HIDE DEF n
  <2>3. /\ answered \in [Chars -> Component]
        /\ \A d \in Chars : answered[d].party = comp[d].party /\ answered[d].has = comp[d].has
    BY <2>2, <1>0 DEF Types
  <2> HIDE DEF answered
  <2>4. /\ Agree(members_', comp') /\ Led(members_', leader_')
        /\ Types(members_', leader_', comp')
        /\ \A d \in Chars : comp'[d].has => comp[d].has /\ d # o
    BY <1>0, <2>1, <2>3, RemovalKeeps
  <2> QED BY <1>0, <1>1, <2>4, PartsInv
<1> QED BY <1>2, <1>3

\* Somebody without a component joins the party of o.
LEMMA AcceptJoins ==
  ASSUME PartyInv, NEW c \in Chars, NEW o \in Chars, Reply(c, o), ~Busy(c), InParty(o),
         comp' = [comp EXCEPT ![o] = MemberOf(comp[o].party), ![c] = MemberOf(comp[o].party)],
         members_' = [members_ EXCEPT ![comp[o].party] = addMember(comp[o].party, c)],
         UNCHANGED <<on_map, socket, leader_>>
  PROVE  PartyInv'
<1> DEFINE p == comp[o].party
           ms == members_[p]
<1>0. /\ Agree(members_, comp) /\ Led(members_, leader_) /\ Types(members_, leader_, comp)
      /\ on_map \subseteq Chars /\ socket \subseteq on_map
      /\ \A d \in Chars : comp[d].has => d \in on_map
  BY InvParts
<1>1. p \in Parties /\ ms \in Seq(Chars)
  BY <1>0 DEF InParty, Types, Component
<1>2. /\ comp[c].party = NoParty /\ c # o
      /\ c \in on_map /\ o \in on_map
  BY <1>0 DEF Busy, Reply, Request, Reachable, Agree
<1>3. ~Listed(ms, c)
  BY <1>0, <1>1, <1>2 DEF Agree
<1>4. addMember(p, c) = Append(ms, c)
  BY <1>3 DEF addMember, isMember, Listed
<1>5. MemberOf(p) \in Component /\ MemberOf(p).party = p /\ MemberOf(p).has
  BY <1>1, ComponentValues
<1> DEFINE new == Append(ms, c)
<1>6. /\ comp' = [comp EXCEPT ![o] = MemberOf(p), ![c] = MemberOf(p)]
      /\ members_' = [members_ EXCEPT ![p] = new]
  BY <1>4
<1>7. /\ new \in Seq(Chars) /\ Len(new) = Len(ms) + 1 /\ new[Len(ms) + 1] = c
      /\ \A i \in 1 .. Len(ms) : new[i] = ms[i]
  BY <1>1
<1>p. comp[o].party = p
  OBVIOUS
<1> HIDE DEF p, ms, new
<1>8. \A d \in Chars : Listed(new, d) <=> Listed(ms, d) \/ d = c
  <2>1. \A i \in 1 .. Len(ms) : i \in 1 .. Len(new)
    BY <1>1, <1>7
  <2>2. Len(ms) + 1 \in 1 .. Len(new)
    BY <1>1, <1>7
  <2>3. \A i \in 1 .. Len(new) : i \in 1 .. Len(ms) \/ i = Len(ms) + 1
    BY <1>1, <1>7
  <2> QED BY <1>7, <2>1, <2>2, <2>3 DEF Listed
<1>9. Once(new)
  <2>1. \A i \in 1 .. Len(new) : i \in 1 .. Len(ms) \/ i = Len(ms) + 1
    BY <1>1, <1>7
  <2>2. Once(ms)
    BY <1>0, <1>1 DEF Agree, ms
  <2> QED BY <1>3, <1>7, <2>1, <2>2 DEF Once, Listed
<1>10. /\ comp' \in [Chars -> Component]
       /\ \A d \in Chars : d # c => comp'[d].party = comp[d].party
       /\ \A d \in Chars : d # c => comp'[d].has = comp[d].has \/ d = o
       /\ comp'[c].party = p /\ comp'[c].has /\ comp'[o].has
  <2>1. comp' \in [Chars -> Component] /\ comp'[c] = MemberOf(p) /\ comp'[o] = MemberOf(p)
    BY <1>0, <1>2, <1>5, <1>6 DEF Types
  <2>2. \A d \in Chars : d # c /\ d # o => comp'[d] = comp[d]
    BY <1>0, <1>6 DEF Types
  <2> QED BY <2>1, <2>2, <1>5, <1>p
<1>11. /\ members_' \in [Parties -> Seq(Chars)]
       /\ members_'[p] = new
       /\ \A q \in Parties : q # p => members_'[q] = members_[q]
  <2>1. members_ \in [Parties -> Seq(Chars)]
    BY <1>0 DEF Types
  <2>2. new \in Seq(Chars) /\ p \in Parties
    BY <1>1, <1>7
  <2>3. members_' = [members_ EXCEPT ![p] = new]
    BY <1>6
  <2> QED BY <2>1, <2>2, <2>3, Zenon
<1>12. Agree(members_', comp')
  <2>1. ASSUME NEW q \in Parties, NEW d \in Chars
        PROVE  Listed(members_'[q], d) <=> comp'[d].party = q
    <3>1. CASE q = p
      <4>1. Listed(ms, d) <=> comp[d].party = p
        BY <1>0, <1>1 DEF Agree, ms
      <4> QED BY <3>1, <4>1, <1>8, <1>10, <1>11
    <3>2. CASE q # p
      <4>1. Listed(members_[q], d) <=> comp[d].party = q
        BY <1>0 DEF Agree
      <4> QED BY <3>2, <4>1, <1>2, <1>10, <1>11
    <3> QED BY <3>1, <3>2
  <2>2. \A q \in Parties : Once(members_'[q])
    BY <1>0, <1>9, <1>11 DEF Agree
  <2>3. \A d \in Chars : comp'[d].party # NoParty => comp'[d].has
    BY <1>0, <1>10 DEF Agree
  <2> QED BY <2>1, <2>2, <2>3 DEF Agree
<1>13. Led(members_', leader_')
  <2>1. ms # <<>> /\ Len(ms) >= 2 /\ Listed(ms, leader_[p])
    <3>1. Listed(ms, o)
      BY <1>0, <1>1, <1>p DEF Agree, ms
    <3> QED BY <1>0, <1>1, <3>1 DEF Led, ms, Listed
  <2>2. Listed(new, leader_[p])
    <3>1. leader_[p] \in Chars
      BY <1>1, <2>1 DEF Listed
    <3> QED BY <2>1, <3>1, <1>8
  <2>3. Len(new) >= 2
    BY <1>1, <1>7, <2>1
  <2> QED BY <1>0, <1>11, <2>2, <2>3 DEF Led
<1>14. \A d \in Chars : comp'[d].has => d \in on_map'
  BY <1>0, <1>2, <1>10
<1> QED BY <1>0, <1>10, <1>11, <1>12, <1>13, <1>14, PartsInv DEF Types

\* Two characters without a party make one that nobody refers to theirs.
LEMMA AcceptFounds ==
  ASSUME PartyInv, NEW c \in Chars, NEW o \in Chars, Reply(c, o), ~Busy(c), ~InParty(o),
         NEW p \in Parties, \A d \in Chars : comp[d].party # p,
         comp' = [comp EXCEPT ![o] = MemberOf(p), ![c] = MemberOf(p)],
         members_' = [members_ EXCEPT ![p] = <<o, c>>],
         leader_' = [leader_ EXCEPT ![p] = o],
         UNCHANGED <<on_map, socket>>
  PROVE  PartyInv'
<1> DEFINE new == <<o, c>>
<1>0. /\ Agree(members_, comp) /\ Led(members_, leader_) /\ Types(members_, leader_, comp)
      /\ on_map \subseteq Chars /\ socket \subseteq on_map
      /\ \A d \in Chars : comp[d].has => d \in on_map
  BY InvParts
<1>1. /\ comp[c].party = NoParty /\ comp[o].party = NoParty /\ c # o
      /\ c \in on_map /\ o \in on_map
  BY <1>0 DEF Busy, InParty, Reply, Request, Reachable, Agree
<1>2. MemberOf(p) \in Component /\ MemberOf(p).party = p /\ MemberOf(p).has
  BY ComponentValues
<1>3. /\ new \in Seq(Chars) /\ Len(new) = 2 /\ new[1] = o /\ new[2] = c
  OBVIOUS
<1>4. members_' = [members_ EXCEPT ![p] = new]
  OBVIOUS
<1> HIDE DEF new
<1>5. \A d \in Chars : Listed(new, d) <=> d = o \/ d = c
  BY <1>3 DEF Listed
<1>6. Once(new)
  BY <1>1, <1>3 DEF Once
<1>7. /\ comp' \in [Chars -> Component]
      /\ comp'[c] = MemberOf(p) /\ comp'[o] = MemberOf(p)
      /\ \A d \in Chars : d # c /\ d # o => comp'[d] = comp[d]
  BY <1>0, <1>2 DEF Types
<1>8. /\ members_' \in [Parties -> Seq(Chars)]
      /\ members_'[p] = new
      /\ \A q \in Parties : q # p => members_'[q] = members_[q]
  <2>1. members_ \in [Parties -> Seq(Chars)] /\ new \in Seq(Chars)
    BY <1>0, <1>3 DEF Types
  <2> QED BY <2>1, <1>4, Zenon
<1>9. /\ leader_' \in [Parties -> Chars \cup {NoChar}]
      /\ leader_'[p] = o
      /\ \A q \in Parties : q # p => leader_'[q] = leader_[q]
  BY <1>0 DEF Types
<1>10. Agree(members_', comp')
  <2>1. ASSUME NEW q \in Parties, NEW d \in Chars
        PROVE  Listed(members_'[q], d) <=> comp'[d].party = q
    <3>1. CASE q = p
      <4>1. comp'[d].party = p <=> d = o \/ d = c
        BY <1>2, <1>7
      <4> QED BY <3>1, <4>1, <1>5, <1>8
    <3>2. CASE q # p
      <4>1. Listed(members_[q], d) <=> comp[d].party = q
        BY <1>0 DEF Agree
      <4>2. comp[d].party = q <=> comp'[d].party = q
        BY <3>2, <1>1, <1>2, <1>7
      <4> QED BY <3>2, <4>1, <4>2, <1>8
    <3> QED BY <3>1, <3>2
  <2>2. \A q \in Parties : Once(members_'[q])
    BY <1>0, <1>6, <1>8 DEF Agree
  <2>3. \A d \in Chars : comp'[d].party # NoParty => comp'[d].has
    BY <1>0, <1>2, <1>7 DEF Agree
  <2> QED BY <2>1, <2>2, <2>3 DEF Agree
<1>11. Led(members_', leader_')
  BY <1>0, <1>3, <1>5, <1>8, <1>9 DEF Led
<1>12. \A d \in Chars : comp'[d].has => d \in on_map'
  BY <1>0, <1>1, <1>7
<1> QED BY <1>0, <1>7, <1>8, <1>9, <1>10, <1>11, <1>12, PartsInv DEF Types

LEMMA AcceptKeeps ==
  ASSUME PartyInv, NEW c \in Chars, NEW o \in Chars, Accept(c, o)
  PROVE  PartyInv'
<1>1. CASE Busy(c)
  <2>1. /\ comp' = [comp EXCEPT ![o] = [comp[o] EXCEPT !.isRequested = FALSE]]
        /\ UNCHANGED <<on_map, socket, members_, leader_>>
    BY <1>1 DEF Accept
  <2> QED BY <2>1, FlagKeeps
<1>2. CASE ~Busy(c) /\ InParty(o)
  <2>1. /\ Reply(c, o)
        /\ comp' = [comp EXCEPT ![o] = MemberOf(comp[o].party), ![c] = MemberOf(comp[o].party)]
        /\ members_' = [members_ EXCEPT ![comp[o].party] = addMember(comp[o].party, c)]
        /\ UNCHANGED <<on_map, socket, leader_>>
    BY <1>2 DEF Accept
  <2> QED BY <1>2, <2>1, AcceptJoins
<1>3. CASE ~Busy(c) /\ ~InParty(o)
  <2>1. /\ Reply(c, o)
        /\ UNCHANGED <<on_map, socket>>
        /\ \E p \in Parties :
             /\ \A d \in Chars : comp[d].party # p
             /\ comp' = [comp EXCEPT ![o] = MemberOf(p), ![c] = MemberOf(p)]
             /\ members_' = [members_ EXCEPT ![p] = <<o, c>>]
             /\ leader_' = [leader_ EXCEPT ![p] = o]
    BY <1>3 DEF Accept
  <2> QED BY <1>3, <2>1, AcceptFounds
<1> QED BY <1>1, <1>2, <1>3

LEMMA UpdateKeeps ==
  ASSUME PartyInv, update
  PROVE  PartyInv'
<1> DEFINE idle == {c \in Chars : comp[c].has /\ ~InParty(c) /\ ~comp[c].isRequested}
<1>0. /\ Agree(members_, comp) /\ Led(members_, leader_) /\ Types(members_, leader_, comp)
      /\ on_map \subseteq Chars /\ socket \subseteq on_map
      /\ \A d \in Chars : comp[d].has => d \in on_map
  BY InvParts
<1>1. /\ comp' = [c \in Chars |-> IF c \in idle THEN NoComp ELSE comp[c]]
      /\ UNCHANGED <<on_map, socket, members_, leader_>>
  BY DEF update
<1>2. \A d \in idle : comp[d].party = NoParty
  BY DEF InParty
<1> HIDE DEF idle
<1>3. NoComp \in Component /\ NoComp.party = NoParty /\ ~NoComp.has
  BY ComponentValues
<1>4. /\ comp' \in [Chars -> Component]
      /\ \A d \in Chars : comp'[d].party = comp[d].party
      /\ \A d \in Chars : comp'[d] = comp[d] \/ comp'[d] = NoComp
  BY <1>0, <1>1, <1>2, <1>3 DEF Types
<1>5. Agree(members_', comp')
  BY <1>0, <1>1, <1>3, <1>4 DEF Agree
<1>6. \A d \in Chars : comp'[d].has => d \in on_map'
  BY <1>0, <1>1, <1>3, <1>4
<1> QED BY <1>0, <1>1, <1>4, <1>5, <1>6, PartsInv DEF Led, Types

\* A step that leaves the parties alone and only adds to the map.
LEMMA MapKeeps ==
  ASSUME PartyInv, UNCHANGED <<comp, members_, leader_>>,
         on_map \subseteq on_map', on_map' \subseteq Chars, socket' \subseteq on_map'
  PROVE  PartyInv'
<1>1. \A d \in Chars : comp'[d].has => d \in on_map'
  BY InvParts
<1> QED BY <1>1, InvParts, PartsInv

LEMMA InitHolds == Init => PartyInv
<1> SUFFICES ASSUME Init PROVE PartyInv
  OBVIOUS
<1>1. NoComp \in Component /\ NoComp.party = NoParty /\ ~NoComp.has
  BY ComponentValues
<1>2. TypeOK
  BY <1>1 DEF Init, TypeOK
<1>3. MembersLinked
  BY <1>1 DEF Init, MembersLinked, isMember, InParty
<1>4. LedByMember
  BY DEF Init, LedByMember
<1> QED BY <1>2, <1>3, <1>4 DEF PartyInv

LEMMA StepKeeps == PartyInv /\ [Next]_vars => PartyInv'
<1> SUFFICES ASSUME PartyInv, [Next]_vars PROVE PartyInv'
  OBVIOUS
<1>0. on_map \subseteq Chars /\ socket \subseteq on_map
  BY InvParts
<1>1. ASSUME NEW c \in Chars, NEW o \in Chars, PacketStep(c, o)
      PROVE  PartyInv'
  <2>1. CASE Make(c, o)
    BY <2>1, MakeKeeps
  <2>2. CASE Join(c, o)
    BY <2>2, FlagKeeps DEF Join
  <2>3. CASE Left(c, o)
    <3>1. RemoveParty(c, comp) /\ UNCHANGED <<on_map, socket>>
      BY <2>3 DEF Left
    <3>2. on_map \ {c} \subseteq on_map' /\ on_map' \subseteq Chars /\ socket' \subseteq on_map'
      BY <1>0, <3>1
    <3> QED BY <3>1, <3>2, RemoveKeeps
  <2>4. CASE ChangeOwner(c, o)
    BY <2>4, ChangeOwnerKeeps
  <2>5. CASE Kick(c, o)
    <3>1. RemoveParty(o, comp) /\ UNCHANGED <<on_map, socket>>
      BY <2>5 DEF Kick
    <3>2. on_map \ {o} \subseteq on_map' /\ on_map' \subseteq Chars /\ socket' \subseteq on_map'
      BY <1>0, <3>1
    <3> QED BY <3>1, <3>2, RemoveKeeps
  <2>6. CASE Reject(c, o)
    BY <2>6, RejectKeeps
  <2>7. CASE Accept(c, o)
    BY <2>7, AcceptKeeps
  <2> QED BY <1>1, <2>1, <2>2, <2>3, <2>4, <2>5, <2>6, <2>7 DEF PacketStep
<1>2. ASSUME NEW c \in Chars, Enter(c)
      PROVE  PartyInv'
  BY <1>0, <1>2, MapKeeps DEF Enter
<1>3. ASSUME NEW c \in Chars, Disconnect(c)
      PROVE  PartyInv'
  BY <1>0, <1>3, MapKeeps DEF Disconnect
<1>4. ASSUME NEW c \in Chars, Destroy(c)
      PROVE  PartyInv'
  <2>1. on_map' = on_map \ {c} /\ socket' = socket \ {c}
    BY <1>4 DEF Destroy
  <2>2. CASE comp[c].has
    <3>1. RemoveParty(c, comp)
      BY <1>4, <2>2 DEF Destroy
    <3>2. on_map \ {c} \subseteq on_map' /\ on_map' \subseteq Chars /\ socket' \subseteq on_map'
      BY <1>0, <2>1
    <3> QED BY <3>1, <3>2, RemoveKeeps
  <2>3. CASE ~comp[c].has
    <3>1. UNCHANGED <<comp, members_, leader_>>
      BY <1>4, <2>3 DEF Destroy
    <3>2. on_map' \subseteq Chars /\ socket' \subseteq on_map'
      BY <1>0, <2>1
    <3>3. \A d \in Chars : comp'[d].has => d \in on_map'
      BY <2>1, <2>3, <3>1, InvParts
    <3> QED BY <3>1, <3>2, <3>3, InvParts, PartsInv
  <2> QED BY <2>2, <2>3
<1>5. CASE update
  BY <1>5, UpdateKeeps
<1>6. CASE UNCHANGED vars
  BY <1>0, <1>6, MapKeeps DEF vars
<1> QED BY <1>1, <1>2, <1>3, <1>4, <1>5, <1>6 DEF Next

LEMMA InvHolds == Spec => []PartyInv
BY InitHolds, StepKeeps, PTL DEF Spec

(***************************************************************************)
(* Components, member lists and leaders hold values of their types,        *)
(* whatever removeMember finds and whatever the callbacks do.              *)
(***************************************************************************)
THEOREM TypeCorrect == Spec => []TypeOK
BY InvHolds, PTL DEF PartyInv

(***************************************************************************)
(* Member lists and components always agree: KICK never dereferences the   *)
(* component of somebody who has none.                                     *)
(***************************************************************************)
THEOREM ListsAgree == Spec => []MembersLinked
BY InvHolds, PTL DEF PartyInv

(***************************************************************************)
(* Nobody is alone in a party, and one of its members leads it: the read   *)
(* of members_[0] in removeMember meets an empty list only when the party  *)
(* dissolves.                                                              *)
(***************************************************************************)
THEOREM AlwaysLed == Spec => []LedByMember
BY InvHolds, PTL DEF PartyInv

-----------------------------------------------------------------------------
\* A step that moves the leadership of a party that goes on.
Moves(p) == members_[p] # <<>> /\ members_'[p] # <<>> /\ leader_'[p] # leader_[p]

\* The leader is taken out and followed by the member who joined before all others.
TakenOut(p) ==
  /\ members_'[p] = Without(members_[p], leader_[p]) /\ leader_'[p] = members_'[p][1]
  /\ members_'[p] # members_[p]

\* The leader's own packet, or one that takes the leader out.
PassStep(p, c) ==
  Moves(p) => \/ /\ c = leader_[p] /\ members_'[p] = members_[p]
                 /\ isMember(p, leader_'[p])
              \/ TakenOut(p)

\* What Seniority says of a step and a party.
OrderStep(p) ==
  members_'[p] # members_[p] =>
    \/ members_[p] = <<>> /\ Len(members_'[p]) = 2
    \/ members_'[p] = <<>> /\ Len(members_[p]) = 2
    \/ Front(members_'[p]) = members_[p]
    \/ \E c \in Chars : members_'[p] = Without(members_[p], c)

\* The removal callback: the leader's role goes to the most senior member.
LEMMA RemovalSteps ==
  ASSUME PartyInv, NEW c \in Chars, NEW others \in [Chars -> Component],
         RemoveParty(c, others), NEW q \in Parties
  PROVE  (Moves(q) => TakenOut(q)) /\ OrderStep(q)
<1> DEFINE p == comp[c].party
           ms == members_[p]
           rest == Without(ms, c)
<1>0. Agree(members_, comp) /\ Led(members_, leader_) /\ Types(members_, leader_, comp)
  BY InvParts
<1>1. CASE ~(InParty(c) /\ isMember(p, c))
  BY <1>1 DEF RemoveParty, Moves, OrderStep
<1>2. CASE InParty(c) /\ isMember(p, c)
  <2>1. p \in Parties /\ ms \in Seq(Chars) /\ Listed(ms, c) /\ Once(ms)
    BY <1>0, <1>2 DEF InParty, isMember, Listed, Types, Component, Agree
  <2>2. rest \in Seq(Chars) /\ Len(rest) = Len(ms) - 1
    BY <2>1, WithoutFacts
  <2>3. CASE Len(rest) = 1
    <3>1. /\ members_' = [members_ EXCEPT ![p] = <<>>]
          /\ leader_' = [leader_ EXCEPT ![p] = NoChar]
      BY <1>2, <2>3 DEF RemoveParty
    <3>2. Len(ms) = 2
      <4>1. ASSUME NEW m \in Nat, NEW n, n = m - 1, n = 1 PROVE m = 2
        BY <4>1
      <4>2. Len(ms) \in Nat
        BY <2>1
      <4> QED BY <4>1, <4>2, <2>2, <2>3
    <3> HIDE DEF rest
    <3>3. CASE q = p
      <4>1. members_'[q] = <<>> /\ Len(members_[q]) = 2
        BY <3>1, <3>2, <3>3, <2>1, <1>0 DEF Types
      <4> QED BY <4>1 DEF Moves, OrderStep
    <3>4. CASE q # p
      <4>1. members_'[q] = members_[q] /\ leader_'[q] = leader_[q]
        BY <3>1, <3>4, <2>1, <1>0 DEF Types
      <4> QED BY <4>1 DEF Moves, OrderStep
    <3> QED BY <3>3, <3>4
  <2>4. CASE Len(rest) # 1
    <3>1. /\ members_' = [members_ EXCEPT ![p] = rest]
          /\ leader_' = [leader_ EXCEPT ![p] = NewLeader(p, c, rest)]
          /\ comp' = [others EXCEPT ![c] = NoComp]
      BY <1>2, <2>4 DEF RemoveParty
    <3>2. CASE q = p
      <4>1. /\ members_'[q] = rest
            /\ leader_'[q] = NewLeader(p, c, rest)
        BY <3>1, <3>2, <2>1, <1>0 DEF Types
      <4>2. rest # ms
        BY <2>1, <2>2
      <4>3. OrderStep(q)
        BY <4>1, <3>2 DEF OrderStep
      <4>4. Moves(q) => TakenOut(q)
        <5>1. SUFFICES ASSUME Moves(q) PROVE TakenOut(q)
          OBVIOUS
        <5> HIDE DEF rest
        <5>2. leader_[p] = c /\ rest # <<>>
          BY <5>1, <4>1, <3>2 DEF Moves, NewLeader
        <5>3. NewLeader(p, c, rest) = rest[1]
          BY <5>2 DEF NewLeader
        <5> QED BY <5>2, <5>3, <4>1, <4>2, <3>2 DEF TakenOut, rest
      <4> QED BY <4>3, <4>4
    <3>3. CASE q # p
      <4>1. members_'[q] = members_[q] /\ leader_'[q] = leader_[q]
        BY <3>1, <3>3, <2>1, <1>0 DEF Types
      <4> QED BY <4>1 DEF Moves, OrderStep
    <3> QED BY <3>2, <3>3
  <2> QED BY <2>3, <2>4
<1> QED BY <1>1, <1>2

\* All but the newcomer is the list it joined.
LEMMA FrontOfAppend ==
  ASSUME NEW s \in Seq(Chars), NEW c \in Chars
  PROVE  Front(Append(s, c)) = s
<1> DEFINE t == Append(s, c)
           u == SubSeq(t, 1, Len(s))
<1>1. t \in Seq(Chars) /\ Len(t) = Len(s) + 1 /\ \A i \in 1 .. Len(s) : t[i] = s[i]
  OBVIOUS
<1>2. Front(t) = u
  BY <1>1 DEF Front
<1> HIDE DEF t
<1>3. u \in Seq(Chars) /\ Len(u) = Len(s) /\ \A i \in 1 .. Len(s) : u[i] = t[i]
  BY <1>1
<1> HIDE DEF u
<1>4. u = s
  BY <1>1, <1>3, SeqEqual
<1> QED BY <1>2, <1>4 DEF t

\* A newcomer comes last, and a new party takes the place of none.
LEMMA AcceptSteps ==
  ASSUME PartyInv, NEW c \in Chars, NEW o \in Chars, Accept(c, o), NEW q \in Parties
  PROVE  ~Moves(q) /\ OrderStep(q)
<1>0. Agree(members_, comp) /\ Led(members_, leader_) /\ Types(members_, leader_, comp)
  BY InvParts
<1>1. CASE Busy(c)
  BY <1>1 DEF Accept, Moves, OrderStep
<1>2. CASE ~Busy(c) /\ InParty(o)
  <2> DEFINE p == comp[o].party
             ms == members_[p]
  <2>1. p \in Parties /\ ms \in Seq(Chars)
    BY <1>0, <1>2 DEF InParty, Types, Component
  <2>2. members_' = [members_ EXCEPT ![p] = addMember(p, c)] /\ leader_' = leader_
    BY <1>2 DEF Accept
  <2>3. addMember(p, c) = ms \/ Front(addMember(p, c)) = ms
    BY <2>1, FrontOfAppend DEF addMember
  <2>4. members_'[q] = members_[q] \/ Front(members_'[q]) = members_[q]
    BY <2>1, <2>2, <2>3, <1>0 DEF Types
  <2> QED BY <2>2, <2>4 DEF Moves, OrderStep
<1>3. CASE ~Busy(c) /\ ~InParty(o)
  <2>1. PICK p \in Parties :
          /\ \A d \in Chars : comp[d].party # p
          /\ members_' = [members_ EXCEPT ![p] = <<o, c>>]
          /\ leader_' = [leader_ EXCEPT ![p] = o]
    BY <1>3 DEF Accept
  <2>2. members_[p] = <<>>
    <3>1. \A d \in Chars : ~Listed(members_[p], d)
      BY <2>1, <1>0 DEF Agree
    <3>2. members_[p] \in Seq(Chars)
      BY <1>0 DEF Types
    <3> QED BY <3>1, <3>2 DEF Listed
  <2>3. CASE q = p
    <3>1. members_'[q] = <<o, c>> /\ members_[q] = <<>>
      BY <2>1, <2>2, <2>3, <1>0 DEF Types
    <3>2. Len(<<o, c>>) = 2
      OBVIOUS
    <3> QED BY <3>1, <3>2 DEF Moves, OrderStep
  <2>4. CASE q # p
    <3>1. members_'[q] = members_[q] /\ leader_'[q] = leader_[q]
      BY <2>1, <2>4, <1>0 DEF Types
    <3> QED BY <3>1 DEF Moves, OrderStep
  <2> QED BY <2>3, <2>4
<1> QED BY <1>1, <1>2, <1>3

\* A packet: who may have sent it if it moves a leadership.
LEMMA PacketSteps ==
  ASSUME PartyInv, NEW c \in Chars, NEW o \in Chars, PacketStep(c, o), NEW q \in Parties
  PROVE  PassStep(q, c) /\ OrderStep(q)
<1>0. comp \in [Chars -> Component] /\ leader_ \in [Parties -> Chars \cup {NoChar}]
  BY DEF PartyInv, TypeOK
<1>1. CASE UNCHANGED <<members_, leader_>>
  BY <1>1 DEF PassStep, Moves, OrderStep
<1>2. CASE Make(c, o) \/ Join(c, o)
  BY <1>1, <1>2 DEF Make, Join
<1>3. CASE Left(c, o)
  BY <1>0, <1>3, RemovalSteps DEF Left, PassStep
<1>4. CASE ChangeOwner(c, o)
  <2>1. /\ leader_[comp[c].party] = c /\ isMember(comp[c].party, o)
        /\ leader_' = [leader_ EXCEPT ![comp[c].party] = o]
        /\ members_' = members_
    BY <1>4 DEF ChangeOwner
  <2>2. leader_'[q] # leader_[q] => q = comp[c].party /\ leader_'[q] = o
    BY <1>0, <2>1
  <2> QED BY <2>1, <2>2 DEF PassStep, Moves, OrderStep
<1>5. CASE Kick(c, o)
  BY <1>0, <1>5, RemovalSteps DEF Kick, PassStep
<1>6. CASE Reject(c, o)
  <2> DEFINE n == [comp[o] EXCEPT !.isRequested = FALSE]
             answered == [comp EXCEPT ![o] = n]
  <2>1. n \in Component
    BY <1>0 DEF Component
  <2>2. answered \in [Chars -> Component]
    BY <1>0, <2>1
  <2>3. UNCHANGED <<members_, leader_>> \/ RemoveParty(o, answered)
    BY <1>6 DEF Reject
  <2> HIDE DEF answered
  <2> QED BY <1>1, <2>2, <2>3, RemovalSteps DEF PassStep
<1>7. CASE Accept(c, o)
  BY <1>7, AcceptSteps DEF PassStep
<1> QED BY <1>2, <1>3, <1>4, <1>5, <1>6, <1>7 DEF PacketStep

\* The steps that handle no packet move no leadership but by taking the leader out.
LEMMA OtherSteps ==
  ASSUME PartyInv, [Next]_vars, \A c, o \in Chars : ~PacketStep(c, o), NEW q \in Parties
  PROVE  (Moves(q) => TakenOut(q)) /\ OrderStep(q)
<1>0. comp \in [Chars -> Component]
  BY DEF PartyInv, TypeOK
<1>1. CASE UNCHANGED <<members_, leader_>>
  BY <1>1 DEF Moves, OrderStep
<1>2. ASSUME NEW c \in Chars, Enter(c) \/ Disconnect(c)
      PROVE  (Moves(q) => TakenOut(q)) /\ OrderStep(q)
  BY <1>1, <1>2 DEF Enter, Disconnect
<1>3. ASSUME NEW c \in Chars, Destroy(c)
      PROVE  (Moves(q) => TakenOut(q)) /\ OrderStep(q)
  <2>1. UNCHANGED <<members_, leader_>> \/ RemoveParty(c, comp)
    BY <1>3 DEF Destroy
  <2> QED BY <2>1, <1>0, <1>1, RemovalSteps
<1>4. CASE update
  BY <1>1, <1>4 DEF update
<1>5. CASE UNCHANGED vars
  BY <1>1, <1>5 DEF vars
<1> QED BY <1>2, <1>3, <1>4, <1>5 DEF Next

LEMMA OrderOfSteps ==
  ASSUME PartyInv, [Next]_vars, NEW q \in Parties
  PROVE  OrderStep(q)
BY PacketSteps, OtherSteps

\* Only the leader's own packet has the effect of its CHANGE_OWNER.
LEMMA LeaderSteps ==
  ASSUME PartyInv, [Next]_vars, NEW q \in Parties
  PROVE  HandsOn(q)
<1>1. CASE TakenOut(q)
  BY <1>1 DEF TakenOut, HandsOn
<1>2. CASE ~Moves(q)
  BY <1>2 DEF Moves, HandsOn
<1>3. CASE Moves(q) /\ ~TakenOut(q)
  <2>1. PICK c \in Chars, o \in Chars : PacketStep(c, o)
    BY <1>3, OtherSteps
  <2>2. members_'[q] = members_[q] /\ isMember(q, leader_'[q]) /\ c = leader_[q]
    BY <1>3, <2>1, PacketSteps DEF PassStep
  <2>3. \A b \in Senders : b = leader_[q]
    <3>1. ASSUME NEW b \in Chars, NEW d \in Chars, PacketStep(b, d) PROVE b = leader_[q]
      <4>1. PassStep(q, b)
        BY <3>1, PacketSteps
      <4> QED BY <1>3, <4>1 DEF PassStep
    <3> QED BY <3>1 DEF Senders
  <2>4. c \in Senders
    BY <2>1 DEF Senders
  <2> QED BY <2>2, <2>3, <2>4 DEF HandsOn
<1> QED BY <1>1, <1>2, <1>3

\* The removal callback puts nobody into a party.
LEMMA RemovalDraws ==
  ASSUME NEW c \in Chars, NEW others \in [Chars -> Component], RemoveParty(c, others), NEW d \in Chars
  PROVE  comp'[d] = NoComp \/ comp'[d] = others[d]
<1> DEFINE first == Without(members_[comp[c].party], c)[1]
<1>1. comp' = [others EXCEPT ![c] = NoComp] \/ comp' = [others EXCEPT ![c] = NoComp, ![first] = NoComp]
  BY DEF RemoveParty
<1> HIDE DEF first
<1> QED BY <1>1

\* Who gets into a party by a packet sent it, or has a request open.
LEMMA PacketDraws ==
  ASSUME PartyInv, NEW c \in Chars, NEW o \in Chars, PacketStep(c, o), NEW d \in Chars,
         ~InParty(d), comp'[d].party # NoParty
  PROVE  d = c \/ comp[d].isRequested
<1>0. comp \in [Chars -> Component] /\ comp[d].party = NoParty
  BY DEF PartyInv, TypeOK, InParty
<1>1. CASE Make(c, o)
  BY <1>0, <1>1, ComponentValues DEF Make
<1>2. CASE Join(c, o)
  <2>1. comp' = [comp EXCEPT ![c] = [comp[c] EXCEPT !.isRequested = TRUE]]
    BY <1>2 DEF Join
  <2> QED BY <1>0, <2>1
<1>3. CASE Left(c, o)
  BY <1>0, <1>3, RemovalDraws, ComponentValues DEF Left
<1>4. CASE ChangeOwner(c, o)
  BY <1>0, <1>4 DEF ChangeOwner
<1>5. CASE Kick(c, o)
  BY <1>0, <1>5, RemovalDraws, ComponentValues DEF Kick
<1>6. CASE Reject(c, o)
  <2> DEFINE n == [comp[o] EXCEPT !.isRequested = FALSE]
             answered == [comp EXCEPT ![o] = n]
  <2>1. n \in Component /\ n.party = comp[o].party
    BY <1>0 DEF Component
  <2>2. answered \in [Chars -> Component] /\ answered[d].party = NoParty
    BY <1>0, <2>1
  <2>3. comp' = answered \/ RemoveParty(o, answered)
    BY <1>6 DEF Reject
  <2> HIDE DEF answered
  <2> QED BY <2>2, <2>3, RemovalDraws, ComponentValues
<1>7. CASE Accept(c, o)
  <2>1. comp[o].isRequested
    BY <1>7 DEF Accept, Reply
  <2>2. d # c /\ d # o => comp'[d] = comp[d]
    BY <1>0, <1>7 DEF Accept
  <2> QED BY <1>0, <2>1, <2>2
<1> QED BY <1>1, <1>2, <1>3, <1>4, <1>5, <1>6, <1>7 DEF PacketStep

\* The steps that handle no packet put nobody into a party.
LEMMA OtherDraws ==
  ASSUME PartyInv, [Next]_vars, \A c, o \in Chars : ~PacketStep(c, o), NEW d \in Chars, ~InParty(d)
  PROVE  comp'[d].party = NoParty
<1>0. comp \in [Chars -> Component] /\ comp[d].party = NoParty
  BY DEF PartyInv, TypeOK, InParty
<1>1. CASE UNCHANGED comp
  BY <1>0, <1>1
<1>2. ASSUME NEW c \in Chars, Enter(c) \/ Disconnect(c) PROVE comp'[d].party = NoParty
  BY <1>1, <1>2 DEF Enter, Disconnect
<1>3. ASSUME NEW c \in Chars, Destroy(c) PROVE comp'[d].party = NoParty
  <2>1. UNCHANGED comp \/ RemoveParty(c, comp)
    BY <1>3 DEF Destroy
  <2> QED BY <2>1, <1>0, <1>1, RemovalDraws, ComponentValues
<1>4. CASE update
  BY <1>0, <1>4, ComponentValues DEF update
<1>5. CASE UNCHANGED vars
  BY <1>1, <1>5 DEF vars
<1> QED BY <1>2, <1>3, <1>4, <1>5 DEF Next

\* Nobody gets into a party by the packet of another, unless it has a request open.
LEMMA ConsentSteps ==
  ASSUME PartyInv, [Next]_vars, NEW d \in Chars
  PROVE  Consents(d)
<1>1. SUFFICES ASSUME ~InParty(d), comp'[d].party # NoParty, ~comp[d].isRequested
               PROVE  Senders = {d}
  BY DEF Consents
<1>2. \A b \in Senders : b = d
  BY <1>1, PacketDraws DEF Senders
<1>3. PICK c \in Chars, o \in Chars : PacketStep(c, o)
  BY <1>1, OtherDraws
<1>4. c \in Senders
  BY <1>3 DEF Senders
<1> QED BY <1>2, <1>4

(***************************************************************************)
(* For any characters and parties: only a CHANGE_OWNER of the leader's own *)
(* moves the leadership, a leader is otherwise followed by the member who  *)
(* joined before all others when it is taken out, and who gets into a      *)
(* party sent the answer or has a request open (PartySystem::              *)
(* processPartyReq, processPartyReply, PartyBase::removeMember).           *)
(***************************************************************************)
THEOREM ConsentNeeded == Spec => OwnConsent
<1>1. PartyInv /\ [Next]_vars => /\ \A p \in Parties : HandsOn(p)
                                /\ \A c \in Chars : Consents(c)
  BY LeaderSteps, ConsentSteps
<1> QED BY <1>1, InvHolds, PTL DEF Spec, OwnConsent

(***************************************************************************)
(* No step reorders a member list: one joins at the end or one leaves, and *)
(* a party that would fall to one member is dissolved.                     *)
(***************************************************************************)
THEOREM OrderKept == Spec => Seniority
<1>1. PartyInv /\ [Next]_vars => \A p \in Parties : OrderStep(p)
  BY OrderOfSteps
<1> QED BY <1>1, InvHolds, PTL DEF Spec, Seniority, OrderStep
=============================================================================
