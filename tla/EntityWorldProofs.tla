------------------------- MODULE EntityWorldProofs -------------------------
(***************************************************************************)
(* Proofs about EntityWorld for any number of clients, characters,         *)
(* entities and ids: ids are unique and the two indexes right, whichever   *)
(* threads join, drop, switch and leave in whichever order.                *)
(***************************************************************************)
EXTENDS EntityWorld, TLAPS

USE IdSpaceAssumption, NoneAssumption

\* A handler in progress has what it works on.
ClientInv ==
  \A c \in Clients : /\ clients[c].doing = "join" => clients[c].char \in Chars
                     /\ clients[c].doing \in Types => clients[c].entity \in Entities

\* A live entity is a character's.
LiveChars == \A e \in Entities : Live(e) => ents[e].char \in Chars

\* Until the counter wraps, no id from it upwards was ever handed out.
BelowMax ==
  wrapped \/ /\ \A e \in Entities : Live(e) => ents[e].id < max_id
             /\ \A i \in free_ids \cup taken : i < max_id

\* Two entities of one character at a time are recorded.
TwiceRecorded ==
  \A e, f \in Entities :
    Live(e) /\ Live(f) /\ e # f /\ ents[e].char = ents[f].char => ents[e].char \in overlap

\* What the ids and the indexes need.
CoreInv == LiveChars /\ BelowMax /\ TwiceRecorded /\ UniqueIds /\ IndexesExact

WorldInv == TypeOK /\ ClientInv /\ CoreInv

\* The step leaves who lives, as whom and under which id.
SameBeings ==
  \A e \in Entities : /\ ents'[e].st = ents[e].st
                      /\ ents'[e].id = ents[e].id
                      /\ ents'[e].char = ents[e].char
                      /\ ents'[e].threw = ents[e].threw

-----------------------------------------------------------------------------
\* Ids and indexes stay right in a step that does not touch them.
LEMMA CoreFrame ==
  ASSUME CoreInv, SameBeings,
         UNCHANGED <<nameToEntity, idToEntity, free_ids, max_id, taken, wrapped>>,
         overlap \subseteq overlap'
  PROVE  CoreInv'
<1>1. \A e : Live(e)' <=> Live(e)
  BY DEF Live, SameBeings
<1>2. LiveChars'
  BY <1>1 DEF CoreInv, LiveChars, SameBeings
<1>3. BelowMax'
  BY <1>1 DEF CoreInv, BelowMax, SameBeings
<1>4. TwiceRecorded'
  BY <1>1 DEF CoreInv, TwiceRecorded, SameBeings
<1>5. UniqueIds'
  BY <1>1 DEF CoreInv, UniqueIds, SameBeings
<1>6. IndexesLive'
  <2>1. \A e : Live(e) => e \in Entities
    BY DEF Live
  <2> QED BY <1>1, <2>1 DEF CoreInv, IndexesExact, IndexesLive, SameBeings
<1>7. IndexesComplete'
  BY <1>1 DEF CoreInv, IndexesExact, IndexesComplete, SameBeings
<1> QED BY <1>2, <1>3, <1>4, <1>5, <1>6, <1>7 DEF CoreInv, IndexesExact

\* A number below IdSpace is its own remainder.
LEMMA SmallRemainder ==
  ASSUME NEW x \in Nat, x < IdSpace
  PROVE  x % IdSpace = x
OBVIOUS

(***************************************************************************)
(* get_free_id hands out an id that nothing on the map has, unless the     *)
(* counter has wrapped.                                                    *)
(***************************************************************************)
LEMMA FreshId ==
  ASSUME TypeOK, CoreInv, NEW id \in Id, TakeId(id)
  PROVE  /\ wrapped => wrapped'
         /\ ~wrapped' =>
              /\ \A e \in Entities : Live(e) => ents[e].id # id /\ ents[e].id < max_id'
              /\ id \notin taken /\ id \notin free_ids'
              /\ free_ids' \subseteq free_ids
              /\ id < max_id' /\ \A i \in free_ids \cup taken : i < max_id'
         /\ free_ids' \subseteq Id /\ max_id' \in Id /\ wrapped' \in BOOLEAN
<1>0. /\ free_ids \subseteq Id /\ taken \subseteq Id /\ max_id \in Id /\ wrapped \in BOOLEAN
      /\ ~wrapped => /\ \A e \in Entities : Live(e) => ents[e].id < max_id
                     /\ \A i \in free_ids \cup taken : i < max_id
                     /\ \A e \in Entities : Live(e) => ents[e].id \notin free_ids \cup taken
                     /\ free_ids \cap taken = {}
  BY DEF TypeOK, CoreInv, BelowMax, UniqueIds
<1>1. CASE free_ids # {}
  <2>1. /\ id \in free_ids /\ free_ids' = free_ids \ {id}
        /\ max_id' = max_id /\ wrapped' = wrapped
    BY <1>1 DEF TakeId
  <2> QED BY <1>0, <2>1
<1>2. CASE free_ids = {}
  <2>1. /\ id = max_id /\ free_ids' = free_ids
        /\ max_id' = (max_id + 1) % IdSpace
        /\ wrapped' = (wrapped \/ max_id + 1 = IdSpace)
    BY <1>2 DEF TakeId
  <2>2. max_id \in Nat /\ max_id < IdSpace /\ max_id + 1 \in Nat
    BY <1>0 DEF Id
  <2>3. CASE max_id + 1 = IdSpace
    <3>1. wrapped'
      BY <2>1, <2>3
    <3>2. max_id' \in Id
      BY <2>1, <2>2, <2>3 DEF Id
    <3> QED BY <1>0, <2>1, <3>1, <3>2
  <2>4. CASE max_id + 1 # IdSpace
    <3>1. max_id + 1 < IdSpace
      BY <2>2, <2>4
    <3>2. max_id' = max_id + 1
      BY <2>1, <2>2, <3>1, SmallRemainder
    <3>3. max_id' \in Id
      BY <2>2, <3>1, <3>2 DEF Id
    <3>4. wrapped' = wrapped
      BY <1>0, <2>1, <2>4
    <3>5. \A i \in Id : i < max_id => i < max_id' /\ i # id
      BY <2>1, <2>2, <3>2 DEF Id
    <3>6. \A e \in Entities : ents[e].id \in Id
      BY DEF TypeOK, EntityState
    <3>7. id < max_id'
      BY <2>1, <2>2, <3>2
    <3> QED BY <1>0, <2>1, <3>3, <3>4, <3>5, <3>6, <3>7
  <2> QED BY <2>3, <2>4
<1> QED BY <1>1, <1>2

\* An NPC or a dropped item takes an id.
LEMMA CoreTake ==
  ASSUME TypeOK, CoreInv, SameBeings, NEW id \in Id, TakeId(id), taken' = taken \cup {id},
         UNCHANGED <<nameToEntity, idToEntity, overlap>>
  PROVE  CoreInv'
<1>0. /\ wrapped => wrapped'
      /\ ~wrapped' =>
           /\ \A e \in Entities : Live(e) => ents[e].id # id /\ ents[e].id < max_id'
           /\ id \notin taken /\ id \notin free_ids'
           /\ free_ids' \subseteq free_ids
           /\ id < max_id' /\ \A i \in free_ids \cup taken : i < max_id'
  BY FreshId
<1>1. \A e : Live(e)' <=> Live(e)
  BY DEF Live, SameBeings
<1>2. LiveChars'
  BY <1>1 DEF CoreInv, LiveChars, SameBeings
<1>3. BelowMax'
  BY <1>0, <1>1 DEF BelowMax, SameBeings
<1>4. TwiceRecorded'
  BY <1>1 DEF CoreInv, TwiceRecorded, SameBeings
<1>5. UniqueIds'
  <2> SUFFICES ASSUME ~wrapped' PROVE UniqueIds'
    BY DEF UniqueIds
  <2>1. /\ \A e, f \in Entities : Live(e) /\ Live(f) /\ ents[e].id = ents[f].id => e = f
        /\ \A e \in Entities : Live(e) => ents[e].id \notin free_ids \cup taken
        /\ free_ids \cap taken = {}
    BY <1>0 DEF CoreInv, UniqueIds
  <2> QED BY <1>0, <1>1, <2>1 DEF UniqueIds, SameBeings
<1>6. IndexesLive'
  <2>1. \A e : Live(e) => e \in Entities
    BY DEF Live
  <2> QED BY <1>0, <1>1, <2>1 DEF CoreInv, IndexesExact, IndexesLive, SameBeings
<1>7. IndexesComplete'
  BY <1>0, <1>1 DEF CoreInv, IndexesExact, IndexesComplete, SameBeings
<1> QED BY <1>2, <1>3, <1>4, <1>5, <1>6, <1>7 DEF CoreInv, IndexesExact

\* The new entity is registered, or an exception came first.
Registered(c, e, id, threw) ==
  \/ registerEntity(e, clients[c].char, id)
  \/ threw = "load" /\ UNCHANGED <<nameToEntity, idToEntity>>

(***************************************************************************)
(* A character is loaded: its id is fresh, so the index by id loses        *)
(* nobody; the index by name may, and then overlap says so.                *)
(***************************************************************************)
LEMMA CoreLoad ==
  ASSUME TypeOK, ClientInv, CoreInv, NEW c \in Clients, NEW e \in Entities, NEW id \in Id,
         NEW client, NEW threw, create(c, e, id, client, threw), Registered(c, e, id, threw)
  PROVE  CoreInv'
<1> DEFINE n == clients[c].char
<1>0. /\ wrapped => wrapped'
      /\ ~wrapped' =>
           /\ \A f \in Entities : Live(f) => ents[f].id # id /\ ents[f].id < max_id'
           /\ id \notin taken /\ id \notin free_ids'
           /\ free_ids' \subseteq free_ids
           /\ id < max_id' /\ \A i \in free_ids \cup taken : i < max_id'
  BY FreshId DEF create
<1>1. n \in Chars /\ ents[e].st = "none" /\ taken' = taken
  BY DEF create, ClientInv
<1>2. /\ ents'[e].st = "live" /\ ents'[e].id = id /\ ents'[e].char = n /\ ents'[e].threw = threw
      /\ \A f \in Entities : f # e => ents'[f] = ents[f]
  BY DEF create, TypeOK
<1>3. \/ /\ nameToEntity' = IF id = 0 THEN nameToEntity ELSE [nameToEntity EXCEPT ![n] = e]
         /\ idToEntity' = IF id = 0 THEN idToEntity ELSE [idToEntity EXCEPT ![id] = e]
      \/ threw = "load" /\ nameToEntity' = nameToEntity /\ idToEntity' = idToEntity
  BY DEF Registered, registerEntity
<1>4. /\ overlap \subseteq overlap'
      /\ (\E f \in Entities : Live(f) /\ ents[f].char = n) => n \in overlap'
  BY <1>1 DEF create
<1> HIDE DEF n
<1>5. /\ Live(e)' /\ ~Live(e)
      /\ \A f : f # e => (Live(f)' <=> Live(f))
      /\ \A f : Live(f) => f \in Entities /\ f # e
  BY <1>1, <1>2 DEF Live
<1>6. LiveChars'
  BY <1>1, <1>2, <1>5 DEF CoreInv, LiveChars
<1>7. BelowMax'
  BY <1>0, <1>1, <1>2, <1>5 DEF BelowMax
<1>8. TwiceRecorded'
  <2> SUFFICES ASSUME NEW f \in Entities, NEW g \in Entities, Live(f)', Live(g)', f # g,
                      ents'[f].char = ents'[g].char
               PROVE  ents'[f].char \in overlap'
    BY DEF TwiceRecorded
  <2>1. CASE f # e /\ g # e
    BY <2>1, <1>2, <1>4, <1>5 DEF CoreInv, TwiceRecorded
  <2>2. CASE f = e \/ g = e
    <3>1. \E h \in Entities : Live(h) /\ ents[h].char = n
      BY <2>2, <1>2, <1>5
    <3> QED BY <3>1, <2>2, <1>2, <1>4
  <2> QED BY <2>1, <2>2
<1>9. UniqueIds'
  <2> SUFFICES ASSUME ~wrapped' PROVE UniqueIds'
    BY DEF UniqueIds
  <2>1. /\ \A f, g \in Entities : Live(f) /\ Live(g) /\ ents[f].id = ents[g].id => f = g
        /\ \A f \in Entities : Live(f) => ents[f].id \notin free_ids \cup taken
        /\ free_ids \cap taken = {}
    BY <1>0 DEF CoreInv, UniqueIds
  <2>2. \A f, g \in Entities : Live(f)' /\ Live(g)' /\ ents'[f].id = ents'[g].id => f = g
    BY <1>0, <1>2, <1>5, <2>1
  <2>3. \A f \in Entities : Live(f)' => ents'[f].id \notin free_ids' \cup taken'
    BY <1>0, <1>1, <1>2, <1>5, <2>1
  <2>4. free_ids' \cap taken' = {}
    BY <1>0, <1>1, <2>1
  <2> QED BY <2>2, <2>3, <2>4 DEF UniqueIds
<1>10. IndexesLive'
  <2>0. nameToEntity \in [Chars -> EntityOrNone] /\ idToEntity \in [Id -> EntityOrNone]
    BY DEF TypeOK
  <2>1. ASSUME NEW m \in Chars, nameToEntity'[m] # NoEntity
        PROVE  Live(nameToEntity[m])' /\ ents'[nameToEntity'[m]].char = m
    <3>1. CASE nameToEntity'[m] = nameToEntity[m]
      BY <2>1, <3>1, <1>2, <1>5 DEF CoreInv, IndexesExact, IndexesLive
    <3>2. CASE nameToEntity'[m] # nameToEntity[m]
      <4>1. m = n /\ nameToEntity'[m] = e
        BY <3>2, <1>3, <2>0
      <4> QED BY <4>1, <1>2, <1>5
    <3> QED BY <3>1, <3>2
  <2>2. ASSUME ~wrapped', NEW i \in Id, idToEntity'[i] # NoEntity
        PROVE  Live(idToEntity[i])' /\ ents'[idToEntity'[i]].id = i
    <3>1. CASE idToEntity'[i] = idToEntity[i]
      BY <2>2, <3>1, <1>0, <1>2, <1>5 DEF CoreInv, IndexesExact, IndexesLive
    <3>2. CASE idToEntity'[i] # idToEntity[i]
      <4>1. i = id /\ idToEntity'[i] = e
        BY <3>2, <1>3, <2>0
      <4> QED BY <4>1, <1>2, <1>5
    <3> QED BY <3>1, <3>2
  <2> QED BY <2>1, <2>2 DEF IndexesLive
<1>11. IndexesComplete'
  <2>0. nameToEntity \in [Chars -> EntityOrNone] /\ idToEntity \in [Id -> EntityOrNone]
    BY DEF TypeOK
  <2> SUFFICES ASSUME NEW f \in Entities, Live(f)', ents'[f].id # 0, ents'[f].threw # "load"
               PROVE  /\ wrapped' \/ idToEntity'[ents'[f].id] = f
                      /\ ents'[f].char \in overlap' \/ nameToEntity'[ents'[f].char] = f
    BY DEF IndexesComplete
  <2>1. CASE f = e
    BY <2>0, <2>1, <1>1, <1>2, <1>3
  <2>2. CASE f # e
    <3>1. /\ Live(f) /\ ents'[f] = ents[f]
          /\ wrapped \/ idToEntity[ents[f].id] = f
          /\ ents[f].char \in overlap \/ nameToEntity[ents[f].char] = f
      BY <2>2, <1>2, <1>5 DEF CoreInv, IndexesExact, IndexesComplete
    <3>2. wrapped' \/ idToEntity'[ents[f].id] = f
      <4>1. wrapped' \/ ents[f].id # id
        BY <1>0, <3>1
      <4>2. ents[f].id \in Id
        BY DEF TypeOK, EntityState
      <4> QED BY <4>1, <4>2, <3>1, <1>0, <1>3, <2>0
    <3>3. ents[f].char \in overlap' \/ nameToEntity'[ents[f].char] = f
      <4>1. ents[f].char \in Chars
        BY <3>1 DEF CoreInv, LiveChars
      <4>2. CASE ents[f].char = n
        BY <4>2, <3>1, <1>4
      <4>3. CASE ents[f].char # n
        BY <4>1, <4>3, <3>1, <1>3, <1>4, <2>0
      <4> QED BY <4>2, <4>3
    <3> QED BY <3>1, <3>2, <3>3
  <2> QED BY <2>1, <2>2
<1> QED BY <1>6, <1>7, <1>8, <1>9, <1>10, <1>11 DEF CoreInv, IndexesExact

(***************************************************************************)
(* A character is deleted: its id is free again, and the indexes lose it   *)
(* and nobody else whose loss is not recorded.                             *)
(***************************************************************************)
LEMMA CoreDelete ==
  ASSUME TypeOK, CoreInv, DeleteNext
  PROVE  CoreInv'
<1>1. CASE ~Live(Doomed)
  <2>1. UNCHANGED <<ents, nameToEntity, idToEntity, free_ids, max_id, taken, wrapped, overlap>>
    BY <1>1 DEF DeleteNext
  <2> QED BY <2>1, CoreFrame DEF SameBeings
<1>2. CASE Live(Doomed)
  <2> SUFFICES ASSUME NEW e \in Entities, NEW id \in Id, NEW n \in Chars,
                      Doomed = e, ents[e].id = id, ents[e].char = n
               PROVE  CoreInv'
    BY <1>2 DEF Live, TypeOK, EntityState, CoreInv, LiveChars
  <2> DEFINE gone == [ents[e] EXCEPT !.st = "dead", !.dirty = (ents[e].dirty /\ ~Head(deletes)[2])]
  <2>1. /\ ents' = [ents EXCEPT ![e] = gone]
        /\ nameToEntity' = [nameToEntity EXCEPT ![n] = NoEntity]
        /\ idToEntity' = [idToEntity EXCEPT ![id] = NoEntity]
        /\ free_ids' = free_ids \cup {id}
        /\ UNCHANGED <<max_id, taken, wrapped, overlap>>
    BY <1>2 DEF DeleteNext, Unregister
  <2>2. ents[e] \in EntityState
    BY DEF TypeOK
  <2>3. gone.st = "dead"
    BY <2>2 DEF EntityState
  <2> HIDE DEF gone
  <2>4. ents'[e].st = "dead" /\ \A f \in Entities : f # e => ents'[f] = ents[f]
    BY <2>1, <2>2, <2>3 DEF TypeOK
  <2>5. /\ ~Live(e)'
        /\ \A f : f # e => (Live(f)' <=> Live(f))
        /\ \A f : Live(f) => f \in Entities
    BY <2>4 DEF Live
  <2>a. Live(e) /\ ents[e].id = id /\ ents[e].char = n
    BY <1>2
  <2>b. nameToEntity \in [Chars -> EntityOrNone] /\ idToEntity \in [Id -> EntityOrNone]
    BY DEF TypeOK
  <2>7. LiveChars'
    BY <2>4, <2>5 DEF CoreInv, LiveChars
  <2>8. BelowMax'
    <3> SUFFICES ASSUME ~wrapped' PROVE BelowMax'
      BY DEF BelowMax
    <3>1. /\ \A f \in Entities : Live(f) => ents[f].id < max_id
          /\ \A i \in free_ids \cup taken : i < max_id
      BY <2>1 DEF CoreInv, BelowMax
    <3>2. id < max_id
      BY <2>a, <2>2, <3>1
    <3> QED BY <3>1, <3>2, <2>1, <2>4, <2>5 DEF BelowMax
  <2>9. TwiceRecorded'
    BY <2>1, <2>4, <2>5 DEF CoreInv, TwiceRecorded
  <2>10. UniqueIds'
    <3> SUFFICES ASSUME ~wrapped' PROVE UniqueIds'
      BY DEF UniqueIds
    <3>1. /\ \A f, g \in Entities : Live(f) /\ Live(g) /\ ents[f].id = ents[g].id => f = g
          /\ \A f \in Entities : Live(f) => ents[f].id \notin free_ids \cup taken
          /\ free_ids \cap taken = {}
      BY <2>1 DEF CoreInv, UniqueIds
    <3>2. \A f, g \in Entities : Live(f)' /\ Live(g)' /\ ents'[f].id = ents'[g].id => f = g
      BY <2>4, <2>5, <3>1
    <3>3. \A f \in Entities : Live(f)' => ents'[f].id \notin free_ids' \cup taken'
      BY <2>1, <2>2, <2>a, <2>4, <2>5, <3>1
    <3>4. free_ids' \cap taken' = {}
      BY <2>1, <2>2, <2>a, <3>1
    <3> QED BY <3>2, <3>3, <3>4 DEF UniqueIds
  <2>11. IndexesLive'
    <3>1. ASSUME NEW m \in Chars, nameToEntity'[m] # NoEntity
          PROVE  Live(nameToEntity[m])' /\ ents'[nameToEntity'[m]].char = m
      <4>1. m # n /\ nameToEntity'[m] = nameToEntity[m]
        BY <3>1, <2>1, <2>b
      <4>2. Live(nameToEntity[m]) /\ ents[nameToEntity[m]].char = m
        BY <3>1, <4>1 DEF CoreInv, IndexesExact, IndexesLive
      <4>3. nameToEntity[m] # e
        BY <4>1, <4>2, <2>a
      <4> QED BY <4>1, <4>2, <4>3, <2>4, <2>5
    <3>2. ASSUME ~wrapped', NEW i \in Id, idToEntity'[i] # NoEntity
          PROVE  Live(idToEntity[i])' /\ ents'[idToEntity'[i]].id = i
      <4>1. i # id /\ idToEntity'[i] = idToEntity[i]
        BY <3>2, <2>1, <2>2, <2>b
      <4>2. Live(idToEntity[i]) /\ ents[idToEntity[i]].id = i
        BY <3>2, <4>1, <2>1 DEF CoreInv, IndexesExact, IndexesLive
      <4>3. idToEntity[i] # e
        BY <4>1, <4>2, <2>a
      <4> QED BY <4>1, <4>2, <4>3, <2>4, <2>5
    <3> QED BY <3>1, <3>2 DEF IndexesLive
  <2>12. IndexesComplete'
    <3> SUFFICES ASSUME NEW f \in Entities, Live(f)', ents'[f].id # 0, ents'[f].threw # "load"
                 PROVE  /\ wrapped' \/ idToEntity'[ents'[f].id] = f
                        /\ ents'[f].char \in overlap' \/ nameToEntity'[ents'[f].char] = f
      BY DEF IndexesComplete
    <3>1. f # e /\ Live(f) /\ ents'[f] = ents[f]
      BY <2>4, <2>5
    <3>2. /\ wrapped \/ idToEntity[ents[f].id] = f
          /\ ents[f].char \in overlap \/ nameToEntity[ents[f].char] = f
      BY <3>1 DEF CoreInv, IndexesExact, IndexesComplete
    <3>3. wrapped \/ ents[f].id # id
      BY <3>1, <2>2, <2>a DEF CoreInv, UniqueIds
    <3>4. ents[f].char \in overlap \/ ents[f].char # n
      BY <3>1, <2>2, <2>a DEF CoreInv, TwiceRecorded
    <3>5. ents[f].id \in Id /\ ents[f].char \in Chars
      BY <3>1 DEF TypeOK, EntityState, CoreInv, LiveChars
    <3>6. wrapped' \/ idToEntity'[ents[f].id] = f
      BY <3>2, <3>3, <3>5, <2>1, <2>b
    <3>7. ents[f].char \in overlap' \/ nameToEntity'[ents[f].char] = f
      BY <3>2, <3>4, <3>5, <2>1, <2>b
    <3> QED BY <3>1, <3>6, <3>7
  <2> QED BY <2>7, <2>8, <2>9, <2>10, <2>11, <2>12 DEF CoreInv, IndexesExact
<1> QED BY <1>1, <1>2

-----------------------------------------------------------------------------
\* A step that changes one client to a state in which its handler can go on.
LEMMA OneClient ==
  ASSUME TypeOK, ClientInv, NEW c \in Clients, NEW r \in ClientState,
         clients' = [clients EXCEPT ![c] = r],
         r.doing = "join" => r.char \in Chars,
         r.doing \in Types => r.entity \in Entities
  PROVE  clients' \in [Clients -> ClientState] /\ ClientInv'
<1>1. clients \in [Clients -> ClientState]
  BY DEF TypeOK
<1>2. clients' \in [Clients -> ClientState]
  BY <1>1
<1>3. \A d \in Clients : clients'[d] = IF d = c THEN r ELSE clients[d]
  BY <1>1
<1> QED BY <1>2, <1>3 DEF ClientInv

\* A step that changes flags of one entity.
LEMMA OneEntity ==
  ASSUME TypeOK, NEW e \in Entities, NEW r \in EntityState,
         ents' = [ents EXCEPT ![e] = r],
         r.st = ents[e].st, r.id = ents[e].id, r.char = ents[e].char, r.threw = ents[e].threw
  PROVE  ents' \in [Entities -> EntityState] /\ SameBeings
<1>1. ents \in [Entities -> EntityState]
  BY DEF TypeOK
<1>2. ents' \in [Entities -> EntityState]
  BY <1>1
<1>3. \A f \in Entities : ents'[f] = IF f = e THEN r ELSE ents[f]
  BY <1>1
<1> QED BY <1>2, <1>3 DEF SameBeings

-----------------------------------------------------------------------------
(* The steps of a client. *)

LEMMA AcceptedKeeps ==
  ASSUME WorldInv, NEW c \in Clients, OnAccepted(c)
  PROVE  WorldInv'
<1> DEFINE r == [NoConnection EXCEPT !.sock = "open"]
<1>1. r \in ClientState /\ r.doing = "no"
  BY DEF NoConnection, ClientState, EntityOrNone
<1>2. clients' = [clients EXCEPT ![c] = r]
  BY DEF OnAccepted
<1> HIDE DEF r
<1>3. clients' \in [Clients -> ClientState] /\ ClientInv'
  BY <1>1, <1>2, OneClient DEF WorldInv, Types
<1>4. TypeOK'
  BY <1>3 DEF WorldInv, TypeOK, OnAccepted
<1>5. CoreInv'
  BY CoreFrame DEF WorldInv, OnAccepted, SameBeings
<1> QED BY <1>3, <1>4, <1>5 DEF WorldInv

LEMMA JoinKeeps ==
  ASSUME WorldInv, NEW c \in Clients, NEW n \in Chars, JoinServerReply(c, n)
  PROVE  WorldInv'
<1> DEFINE r == [clients[c] EXCEPT !.state = "LOGGEDIN", !.doing = "join", !.char = n]
<1>0. clients[c] \in ClientState
  BY DEF WorldInv, TypeOK
<1>1. r \in ClientState /\ r.doing = "join" /\ r.char = n
  BY <1>0 DEF ClientState
<1>2. clients' = [clients EXCEPT ![c] = r]
  BY DEF JoinServerReply
<1> HIDE DEF r
<1>3. clients' \in [Clients -> ClientState] /\ ClientInv'
  BY <1>1, <1>2, OneClient DEF WorldInv, Types
<1>4. overlap \subseteq overlap' /\ overlap' \subseteq Chars
  BY DEF JoinServerReply, WorldInv, TypeOK
<1>5. TypeOK'
  BY <1>3, <1>4 DEF WorldInv, TypeOK, JoinServerReply
<1>6. CoreInv'
  BY <1>4, CoreFrame DEF WorldInv, JoinServerReply, SameBeings
<1> QED BY <1>3, <1>5, <1>6 DEF WorldInv

\* What a handler of c leaves behind is r, or nothing of a client that was freed.
LEMMA AfterType ==
  ASSUME NEW c \in Clients, NEW r \in ClientState
  PROVE  /\ After(c, r) \in ClientState
         /\ After(c, r) = r \/ (clients[c].sock = "freed" /\ After(c, r) = NoConnection)
         /\ NoConnection.doing = "no"
BY DEF After, NoConnection, ClientState, EntityOrNone

\* A step that leaves an entity for a character of c, and r of the client.
LEMMA CreateKeeps ==
  ASSUME WorldInv, NEW c \in Clients, NEW e \in Entities, NEW id \in Id,
         NEW client \in Clients \cup {NoClient}, NEW threw \in {"no", "load", "join"},
         create(c, e, id, client, threw), Registered(c, e, id, threw),
         NEW r \in ClientState, r.doing = "no", clients' = [clients EXCEPT ![c] = r],
         skipped' \subseteq Entities
  PROVE  WorldInv'
<1> DEFINE b == [st |-> "live", char |-> clients[c].char, id |-> id, isOnMap |-> FALSE,
                 client |-> client, dirty |-> FALSE, moved |-> FALSE, threw |-> threw]
<1>0. clients[c] \in ClientState /\ clients[c].char \in Chars
  BY DEF WorldInv, TypeOK, ClientInv, create
<1>2. b \in EntityState
  BY <1>0 DEF EntityState
<1>3. ents' = [ents EXCEPT ![e] = b]
  BY DEF create
<1> HIDE DEF b
<1>4. clients' \in [Clients -> ClientState] /\ ClientInv'
  BY OneClient DEF WorldInv, Types
<1>5. ents' \in [Entities -> EntityState]
  BY <1>2, <1>3 DEF WorldInv, TypeOK
<1>6. nameToEntity' \in [Chars -> EntityOrNone] /\ idToEntity' \in [Id -> EntityOrNone]
  <2>1. /\ nameToEntity \in [Chars -> EntityOrNone] /\ idToEntity \in [Id -> EntityOrNone]
        /\ e \in EntityOrNone
    BY DEF WorldInv, TypeOK, EntityOrNone
  <2> QED BY <2>1, <1>0 DEF Registered, registerEntity
<1>7. free_ids' \subseteq Id /\ max_id' \in Id /\ wrapped' \in BOOLEAN
  BY FreshId DEF WorldInv, create
<1>8. overlap' \subseteq Chars
  BY DEF create, WorldInv, TypeOK
<1>9. TypeOK'
  BY <1>4, <1>5, <1>6, <1>7, <1>8 DEF WorldInv, TypeOK, create
<1>10. CoreInv'
  BY CoreLoad DEF WorldInv
<1> QED BY <1>4, <1>9, <1>10 DEF WorldInv

LEMMA LoadKeeps ==
  ASSUME WorldInv, NEW c \in Clients, NEW e \in Entities, NEW id \in Id,
         loadCharacter(c, e, id)
  PROVE  WorldInv'
<1> DEFINE r == [clients[c] EXCEPT !.entity = e, !.doing = "no"]
<1>0. clients[c] \in ClientState
  BY DEF WorldInv, TypeOK
<1>1. r \in ClientState /\ r.doing = "no"
  BY <1>0 DEF ClientState, EntityOrNone
<1>2. /\ clients' = [clients EXCEPT ![c] = r] /\ create(c, e, id, c, "no")
      /\ Registered(c, e, id, "no") /\ skipped' \subseteq Entities
  BY DEF loadCharacter, Registered, WorldInv, TypeOK
<1> HIDE DEF r
<1> QED BY <1>1, <1>2, CreateKeeps

LEMMA JoinThrowsKeeps ==
  ASSUME WorldInv, NEW c \in Clients, NEW e \in Entities, NEW id \in Id,
         JoinThrows(c, e, id)
  PROVE  WorldInv'
<1> DEFINE r == [clients[c] EXCEPT !.entity = e, !.doing = "no"]
           s == After(c, r)
<1>0. clients[c] \in ClientState
  BY DEF WorldInv, TypeOK
<1>1. r \in ClientState /\ r.doing = "no"
  BY <1>0 DEF ClientState, EntityOrNone
<1>2. clients' = [clients EXCEPT ![c] = s]
  BY DEF JoinThrows
<1>3. /\ create(c, e, id, NoClient, "join") /\ Registered(c, e, id, "join")
      /\ skipped' \subseteq Entities
  BY DEF JoinThrows, Registered, WorldInv, TypeOK
<1> HIDE DEF r
<1>4. s \in ClientState /\ s.doing = "no"
  BY <1>1, AfterType
<1> HIDE DEF s
<1> QED BY <1>2, <1>3, <1>4, CreateKeeps

LEMMA LoadThrowsKeeps ==
  ASSUME WorldInv, NEW c \in Clients, NEW e \in Entities, NEW id \in Id,
         loadCharacterThrows(c, e, id)
  PROVE  WorldInv'
<1> DEFINE r == [clients[c] EXCEPT !.doing = "no"]
           s == After(c, r)
<1>0. clients[c] \in ClientState
  BY DEF WorldInv, TypeOK
<1>1. r \in ClientState /\ r.doing = "no"
  BY <1>0 DEF ClientState
<1>2. clients' = [clients EXCEPT ![c] = s]
  BY DEF loadCharacterThrows
<1>3. /\ create(c, e, id, NoClient, "load") /\ Registered(c, e, id, "load")
      /\ skipped' \subseteq Entities
  BY DEF loadCharacterThrows, Registered, WorldInv, TypeOK
<1> HIDE DEF r
<1>4. s \in ClientState /\ s.doing = "no"
  BY <1>1, AfterType
<1> HIDE DEF s
<1> QED BY <1>2, <1>3, <1>4, CreateKeeps

LEMMA LoadFailsKeeps ==
  ASSUME WorldInv, NEW c \in Clients, loadCharacterFails(c)
  PROVE  WorldInv'
<1> DEFINE r == [clients[c] EXCEPT !.doing = "no"]
           s == After(c, r)
<1>0. clients[c] \in ClientState
  BY DEF WorldInv, TypeOK
<1>1. r \in ClientState /\ r.doing = "no"
  BY <1>0 DEF ClientState
<1>2. clients' = [clients EXCEPT ![c] = s]
  BY DEF loadCharacterFails
<1> HIDE DEF r
<1>b. s \in ClientState /\ s.doing = "no"
  BY <1>1, AfterType
<1> HIDE DEF s
<1>3. clients' \in [Clients -> ClientState] /\ ClientInv'
  BY <1>2, <1>b, OneClient DEF WorldInv, Types
<1>4. TypeOK'
  BY <1>3 DEF WorldInv, TypeOK, loadCharacterFails
<1>5. CoreInv'
  BY CoreFrame DEF WorldInv, loadCharacterFails, SameBeings
<1> QED BY <1>3, <1>4, <1>5 DEF WorldInv

LEMMA PacketKeeps ==
  ASSUME WorldInv, NEW c \in Clients, NEW t \in Types, HandlePacket(c, t)
  PROVE  WorldInv'
<1> DEFINE r == [clients[c] EXCEPT !.doing = t]
<1>0. clients[c] \in ClientState /\ clients[c].entity \in Entities
  BY DEF WorldInv, TypeOK, HandlePacket, Live
<1>1. r \in ClientState /\ r.doing = t /\ r.entity \in Entities
  BY <1>0 DEF ClientState
<1>2. clients' = [clients EXCEPT ![c] = r]
  BY DEF HandlePacket
<1>a. t # "join"
  BY DEF Types
<1> HIDE DEF r
<1>3. clients' \in [Clients -> ClientState] /\ ClientInv'
  BY <1>1, <1>2, <1>a, OneClient DEF WorldInv
<1>4. TypeOK'
  BY <1>3 DEF WorldInv, TypeOK, HandlePacket
<1>5. CoreInv'
  BY CoreFrame DEF WorldInv, HandlePacket, SameBeings
<1> QED BY <1>3, <1>4, <1>5 DEF WorldInv

LEMMA DispatchKeeps ==
  ASSUME WorldInv, NEW c \in Clients, dispatch(c)
  PROVE  WorldInv'
<1> DEFINE r == [clients[c] EXCEPT !.doing = "no"]
           s == After(c, r)
<1>0. clients[c] \in ClientState /\ clients[c].entity \in Entities /\ clients[c].doing \in Types
  BY DEF WorldInv, TypeOK, ClientInv, dispatch
<1>1. r \in ClientState /\ r.doing = "no"
  BY <1>0 DEF ClientState
<1>2. clients' = [clients EXCEPT ![c] = s]
  BY DEF dispatch
<1> HIDE DEF r
<1>b. s \in ClientState /\ s.doing = "no"
  BY <1>1, AfterType
<1> HIDE DEF s
<1>3. clients' \in [Clients -> ClientState] /\ ClientInv'
  BY <1>2, <1>b, OneClient DEF WorldInv, Types
<1>4. toDispatch' \in Seq(Entities \X Types)
  <2>1. toDispatch \in Seq(Entities \X Types)
    BY DEF WorldInv, TypeOK
  <2>2. <<clients[c].entity, clients[c].doing>> \in Entities \X Types
    BY <1>0
  <2>3. toDispatch' = Append(toDispatch, <<clients[c].entity, clients[c].doing>>)
    BY DEF dispatch
  <2> QED BY <2>1, <2>2, <2>3
<1>5. TypeOK'
  BY <1>3, <1>4 DEF WorldInv, TypeOK, dispatch
<1>6. CoreInv'
  BY CoreFrame DEF WorldInv, dispatch, SameBeings
<1> QED BY <1>3, <1>5, <1>6 DEF WorldInv

LEMMA DisconnectedKeeps ==
  ASSUME WorldInv, NEW c \in Clients, OnDisconnected(c)
  PROVE  WorldInv'
<1> DEFINE going == [clients[c] EXCEPT !.leaving = SaveFlag(c)]
           gone == [clients[c] EXCEPT !.state = "DEFAULT", !.sock = NextSock(clients[c].sock)]
<1>0. clients[c] \in ClientState
  BY DEF WorldInv, TypeOK
<1>1. /\ SaveFlag(c) \in {"save", "nosave"}
      /\ NextSock(clients[c].sock) \in {"closing", "closed"}
  BY DEF SaveFlag, NextSock
<1>2. /\ going \in ClientState /\ gone \in ClientState
      /\ going.doing = clients[c].doing /\ gone.doing = clients[c].doing
      /\ going.char = clients[c].char /\ gone.char = clients[c].char
      /\ going.entity = clients[c].entity /\ gone.entity = clients[c].entity
  BY <1>0, <1>1 DEF ClientState
<1>3. clients' = [clients EXCEPT ![c] = going] \/ clients' = [clients EXCEPT ![c] = gone]
  BY DEF OnDisconnected
<1>4. /\ clients[c].doing = "join" => clients[c].char \in Chars
      /\ clients[c].doing \in Types => clients[c].entity \in Entities
  BY DEF WorldInv, ClientInv
<1> HIDE DEF going, gone
<1>5. clients' \in [Clients -> ClientState] /\ ClientInv'
  <2>1. CASE clients' = [clients EXCEPT ![c] = going]
    BY <2>1, <1>2, <1>4, OneClient DEF WorldInv
  <2>2. CASE clients' = [clients EXCEPT ![c] = gone]
    BY <2>2, <1>2, <1>4, OneClient DEF WorldInv
  <2> QED BY <1>3, <2>1, <2>2
<1>6. TypeOK'
  BY <1>5 DEF WorldInv, TypeOK, OnDisconnected
<1>7. CoreInv'
  BY CoreFrame DEF WorldInv, OnDisconnected, SameBeings
<1> QED BY <1>5, <1>6, <1>7 DEF WorldInv

LEMMA DestroyKeeps ==
  ASSUME WorldInv, NEW c \in Clients, destroy(c)
  PROVE  WorldInv'
<1> DEFINE r == [clients[c] EXCEPT !.leaving = "no", !.state = "DEFAULT",
                                   !.sock = NextSock(clients[c].sock)]
           s == After(c, r)
<1>0. clients[c] \in ClientState
  BY DEF WorldInv, TypeOK
<1>1. NextSock(clients[c].sock) \in {"closing", "closed"}
  BY DEF NextSock
<1>2. /\ r \in ClientState /\ r.doing = clients[c].doing
      /\ r.char = clients[c].char /\ r.entity = clients[c].entity
  BY <1>0, <1>1 DEF ClientState
<1>3. clients' = [clients EXCEPT ![c] = s]
  BY DEF destroy
<1>4. /\ clients[c].doing = "join" => clients[c].char \in Chars
      /\ clients[c].doing \in Types => clients[c].entity \in Entities
  BY DEF WorldInv, ClientInv
<1> HIDE DEF r
<1>b. s \in ClientState /\ (s = r \/ s = NoConnection) /\ NoConnection.doing = "no"
  BY <1>2, AfterType
<1>c. /\ s \in ClientState
      /\ s.doing = "join" => s.char \in Chars
      /\ s.doing \in Types => s.entity \in Entities
  BY <1>2, <1>4, <1>b DEF Types
<1> HIDE DEF s
<1>5. clients' \in [Clients -> ClientState] /\ ClientInv'
  BY <1>3, <1>c, OneClient DEF WorldInv
<1>6. ents' \in [Entities -> EntityState] /\ SameBeings /\ deletes' \in Seq(Entities \X BOOLEAN)
  <2>0. ents \in [Entities -> EntityState] /\ deletes \in Seq(Entities \X BOOLEAN)
    BY DEF WorldInv, TypeOK
  <2>1. CASE Live(clients[c].entity) /\ ents[clients[c].entity].isOnMap
    <3> SUFFICES ASSUME NEW e \in Entities, e = clients[c].entity
                 PROVE  /\ ents' \in [Entities -> EntityState] /\ SameBeings
                        /\ deletes' \in Seq(Entities \X BOOLEAN)
      BY <2>1 DEF Live
    <3> DEFINE off == [ents[e] EXCEPT !.isOnMap = FALSE]
    <3>1. /\ ents' = [ents EXCEPT ![e] = off]
          /\ deletes' = Append(deletes, <<e, clients[c].leaving = "save">>)
      BY <2>1 DEF destroy
    <3>2. ents[e] \in EntityState
      BY <2>0
    <3>3. /\ off \in EntityState /\ off.st = ents[e].st /\ off.id = ents[e].id
          /\ off.char = ents[e].char /\ off.threw = ents[e].threw
      BY <3>2 DEF EntityState
    <3> HIDE DEF off
    <3>4. ents' \in [Entities -> EntityState] /\ SameBeings
      BY <3>1, <3>3, OneEntity DEF WorldInv
    <3>5. <<e, clients[c].leaving = "save">> \in Entities \X BOOLEAN
      OBVIOUS
    <3> QED BY <2>0, <3>1, <3>4, <3>5
  <2>2. CASE ~(Live(clients[c].entity) /\ ents[clients[c].entity].isOnMap)
    BY <2>0, <2>2 DEF destroy, SameBeings
  <2> QED BY <2>1, <2>2
<1>7. skipped' \subseteq Entities
  BY DEF destroy, WorldInv, TypeOK
<1>8. TypeOK'
  BY <1>5, <1>6, <1>7 DEF WorldInv, TypeOK, destroy
<1>9. CoreInv'
  BY <1>6, CoreFrame DEF WorldInv, destroy
<1> QED BY <1>5, <1>8, <1>9 DEF WorldInv

\* A freed client keeps what its handlers work on.
LEMMA FreedType ==
  ASSUME TypeOK, NEW c \in Clients
  PROVE  /\ Freed(c) \in ClientState /\ Freed(c).sock = "freed"
         /\ Freed(c).doing = clients[c].doing /\ Freed(c).state = clients[c].state
         /\ Freed(c).char = clients[c].char /\ Freed(c).entity = clients[c].entity
         /\ Freed(c).leaving = clients[c].leaving \/ Freed(c).leaving = SaveFlag(c)
<1> DEFINE l == IF Untold(c) THEN SaveFlag(c) ELSE clients[c].leaving
<1>1. clients[c] \in ClientState
  BY DEF TypeOK
<1>2. Freed(c) = [clients[c] EXCEPT !.sock = "freed", !.leaving = l]
  BY <1>1 DEF Freed, ClientState
<1>3. SaveFlag(c) \in {"save", "nosave"}
  BY DEF SaveFlag
<1>4. l \in {"no", "save", "nosave"} /\ (l = clients[c].leaving \/ l = SaveFlag(c))
  BY <1>1, <1>3 DEF ClientState
<1> HIDE DEF l
<1> QED BY <1>1, <1>2, <1>4 DEF ClientState

LEMMA RemoveKeeps ==
  ASSUME WorldInv, NEW c \in Clients, RemoveClient(c)
  PROVE  WorldInv'
<1> DEFINE s == IF Freed(c).doing # "no" \/ Freed(c).leaving # "no"
                THEN Freed(c) ELSE NoConnection
<1>1. NoConnection \in ClientState /\ NoConnection.doing = "no"
  BY DEF NoConnection, ClientState, EntityOrNone
<1>a. /\ Freed(c) \in ClientState /\ Freed(c).doing = clients[c].doing
      /\ Freed(c).char = clients[c].char /\ Freed(c).entity = clients[c].entity
  BY FreedType DEF WorldInv
<1>b. /\ s \in ClientState
      /\ s.doing = "join" => s.char \in Chars
      /\ s.doing \in Types => s.entity \in Entities
  BY <1>1, <1>a DEF WorldInv, ClientInv, Types
<1>c. clients' = [clients EXCEPT ![c] = s]
  BY DEF RemoveClient
<1> HIDE DEF s
<1>2. clients' \in [Clients -> ClientState] /\ ClientInv'
  BY <1>b, <1>c, OneClient DEF WorldInv
<1>3. ents' \in [Entities -> EntityState] /\ SameBeings
  <2>0. ents \in [Entities -> EntityState]
    BY DEF WorldInv, TypeOK
  <2>1. ASSUME NEW e \in Entities
        PROVE  /\ [ents[e] EXCEPT !.client = NoClient] \in EntityState
               /\ [ents[e] EXCEPT !.client = NoClient].st = ents[e].st
               /\ [ents[e] EXCEPT !.client = NoClient].id = ents[e].id
               /\ [ents[e] EXCEPT !.client = NoClient].char = ents[e].char
               /\ [ents[e] EXCEPT !.client = NoClient].threw = ents[e].threw
    <3>1. ents[e] \in EntityState
      BY <2>0
    <3> QED BY <3>1 DEF EntityState
  <2>2. ents' = [e \in Entities |->
                   IF ents[e].client = c THEN [ents[e] EXCEPT !.client = NoClient] ELSE ents[e]]
    BY DEF RemoveClient
  <2>3. \A e \in Entities :
          ents'[e] = IF ents[e].client = c THEN [ents[e] EXCEPT !.client = NoClient] ELSE ents[e]
    BY <2>2
  <2>4. \A e \in Entities : ents'[e] \in EntityState
    BY <2>0, <2>1, <2>3
  <2>5. SameBeings
    BY <2>1, <2>3 DEF SameBeings
  <2> QED BY <2>2, <2>4, <2>5
<1>4. TypeOK'
  BY <1>2, <1>3 DEF WorldInv, TypeOK, RemoveClient
<1>5. CoreInv'
  BY <1>3, CoreFrame DEF WorldInv, RemoveClient
<1> QED BY <1>2, <1>4, <1>5 DEF WorldInv

LEMMA ReadAbortedKeeps ==
  ASSUME WorldInv, NEW c \in Clients, ReadAborted(c)
  PROVE  WorldInv'
<1> DEFINE r == [clients[c] EXCEPT !.sock = "aborted"]
<1>0. clients[c] \in ClientState
  BY DEF WorldInv, TypeOK
<1>1. r \in ClientState /\ r.doing = "no"
  BY <1>0 DEF ClientState, ReadAborted
<1>2. clients' = [clients EXCEPT ![c] = r]
  BY DEF ReadAborted
<1> HIDE DEF r
<1>3. clients' \in [Clients -> ClientState] /\ ClientInv'
  BY <1>1, <1>2, OneClient DEF WorldInv, Types
<1>4. TypeOK'
  BY <1>3 DEF WorldInv, TypeOK, ReadAborted
<1>5. CoreInv'
  BY CoreFrame DEF WorldInv, ReadAborted, SameBeings
<1> QED BY <1>3, <1>4, <1>5 DEF WorldInv

LEMMA HandlerDiesKeeps ==
  ASSUME WorldInv, NEW c \in Clients, HandlerDies(c)
  PROVE  WorldInv'
<1>1. NoConnection \in ClientState /\ NoConnection.doing = "no"
  BY DEF NoConnection, ClientState, EntityOrNone
<1>2. clients' = [clients EXCEPT ![c] = NoConnection] /\ skipped' \subseteq Entities
  BY DEF HandlerDies, WorldInv, TypeOK
<1>3. clients' \in [Clients -> ClientState] /\ ClientInv'
  BY <1>1, <1>2, OneClient DEF WorldInv, Types
<1>4. TypeOK'
  BY <1>2, <1>3 DEF WorldInv, TypeOK, HandlerDies
<1>5. CoreInv'
  BY CoreFrame DEF WorldInv, HandlerDies, SameBeings
<1> QED BY <1>3, <1>4, <1>5 DEF WorldInv

-----------------------------------------------------------------------------
(* The steps of the update thread. *)

LEMMA UpdateKeeps ==
  ASSUME WorldInv, UpdateBegins \/ UpdateEnds
  PROVE  WorldInv'
<1>1. /\ updating' \in BOOLEAN
      /\ UNCHANGED <<ents, clients, nameToEntity, idToEntity, free_ids, max_id, taken,
                     toDispatch, deletes, npcs, handlers, wrapped, overlap, skipped>>
  BY DEF UpdateBegins, UpdateEnds
<1>2. TypeOK' /\ ClientInv'
  BY <1>1 DEF WorldInv, TypeOK, ClientInv
<1>3. CoreInv'
  BY <1>1, CoreFrame DEF WorldInv, SameBeings
<1> QED BY <1>2, <1>3 DEF WorldInv

LEMMA NpcKeeps ==
  ASSUME WorldInv, NEW id \in Id, CreateNpc(id)
  PROVE  WorldInv'
<1>1. free_ids' \subseteq Id /\ max_id' \in Id /\ wrapped' \in BOOLEAN
  BY FreshId DEF WorldInv, CreateNpc
<1>2. npcs' \in 0 .. MaxNpcs
  BY BoundsAssumption DEF CreateNpc, WorldInv, TypeOK
<1>3. TypeOK' /\ ClientInv'
  BY <1>1, <1>2 DEF WorldInv, TypeOK, ClientInv, CreateNpc
<1>4. CoreInv'
  BY CoreTake DEF WorldInv, CreateNpc, SameBeings
<1> QED BY <1>3, <1>4 DEF WorldInv

\* What the head and the rest of toDispatch_ are.
LEMMA PacketType ==
  ASSUME WorldInv, DispatchNext
  PROVE  /\ Packet[1] \in Entities /\ Packet[2] \in Types
         /\ toDispatch' \in Seq(Entities \X Types)
<1>1. toDispatch \in Seq(Entities \X Types) /\ toDispatch # <<>>
  BY DEF WorldInv, TypeOK, DispatchNext
<1>2. Head(toDispatch) \in Entities \X Types /\ Tail(toDispatch) \in Seq(Entities \X Types)
  BY <1>1
<1> QED BY <1>2 DEF Packet, DispatchNext

LEMMA UnservedKeeps ==
  ASSUME WorldInv, DispatchNobody \/ DispatchRefused
  PROVE  WorldInv'
<1>1. DispatchNext
  BY DEF DispatchNobody, DispatchRefused
<1>2. /\ handlers' \subseteq handlers
      /\ UNCHANGED <<ents, clients, nameToEntity, idToEntity, free_ids, max_id, taken,
                     deletes, npcs, updating, wrapped, overlap, skipped>>
  BY DEF DispatchNobody, DispatchRefused
<1>3. TypeOK' /\ ClientInv'
  BY <1>1, <1>2, PacketType DEF WorldInv, TypeOK, ClientInv
<1>4. CoreInv'
  BY <1>2, CoreFrame DEF WorldInv, SameBeings
<1> QED BY <1>3, <1>4 DEF WorldInv

LEMMA ChangeMapKeeps ==
  ASSUME WorldInv, processChangeMapReq
  PROVE  WorldInv'
<1>1. toDispatch' \in Seq(Entities \X Types)
  BY PacketType DEF processChangeMapReq
<1>2. ents' \in [Entities -> EntityState] /\ SameBeings
  <2> SUFFICES ASSUME NEW e \in Entities, e = Packet[1]
               PROVE  ents' \in [Entities -> EntityState] /\ SameBeings
    BY PacketType DEF processChangeMapReq
  <2> DEFINE r == [ents[e] EXCEPT !.isOnMap = TRUE]
  <2>1. ents' = [ents EXCEPT ![e] = r] /\ ents[e] \in EntityState
    BY DEF processChangeMapReq, WorldInv, TypeOK
  <2>2. /\ r \in EntityState /\ r.st = ents[e].st /\ r.id = ents[e].id
        /\ r.char = ents[e].char /\ r.threw = ents[e].threw
    BY <2>1 DEF EntityState
  <2> HIDE DEF r
  <2> QED BY <2>1, <2>2, OneEntity DEF WorldInv
<1>3. TypeOK' /\ ClientInv'
  BY <1>1, <1>2 DEF WorldInv, TypeOK, ClientInv, processChangeMapReq
<1>4. CoreInv'
  BY <1>2, CoreFrame DEF WorldInv, processChangeMapReq
<1> QED BY <1>3, <1>4 DEF WorldInv

LEMMA DropKeeps ==
  ASSUME WorldInv, NEW id \in Id, dropItem(id)
  PROVE  WorldInv'
<1>1. toDispatch' \in Seq(Entities \X Types)
  BY PacketType DEF dropItem
<1>2. ents' \in [Entities -> EntityState] /\ SameBeings
  <2> SUFFICES ASSUME NEW e \in Entities, e = Packet[1]
               PROVE  ents' \in [Entities -> EntityState] /\ SameBeings
    BY PacketType DEF dropItem
  <2> DEFINE r == [ents[e] EXCEPT !.dirty = TRUE]
  <2>1. ents' = [ents EXCEPT ![e] = r] /\ ents[e] \in EntityState
    BY DEF dropItem, WorldInv, TypeOK
  <2>2. /\ r \in EntityState /\ r.st = ents[e].st /\ r.id = ents[e].id
        /\ r.char = ents[e].char /\ r.threw = ents[e].threw
    BY <2>1 DEF EntityState
  <2> HIDE DEF r
  <2> QED BY <2>1, <2>2, OneEntity DEF WorldInv
<1>3. free_ids' \subseteq Id /\ max_id' \in Id /\ wrapped' \in BOOLEAN
  BY FreshId DEF WorldInv, dropItem
<1>4. TypeOK' /\ ClientInv'
  BY <1>1, <1>2, <1>3 DEF WorldInv, TypeOK, ClientInv, dropItem
<1>5. CoreInv'
  BY <1>2, CoreTake DEF WorldInv, dropItem
<1> QED BY <1>4, <1>5 DEF WorldInv

LEMMA TeleportKeeps ==
  ASSUME WorldInv, teleport
  PROVE  WorldInv'
<1>1. toDispatch' \in Seq(Entities \X Types)
  BY PacketType DEF teleport
<1> SUFFICES ASSUME NEW e \in Entities, e = Packet[1],
                    NEW c \in Clients, c = ents[e].client
             PROVE  WorldInv'
  <2>1. Packet[1] \in Entities
    BY PacketType DEF teleport
  <2>2. ents[Packet[1]].client \in Clients
    BY <2>1 DEF teleport, Served, WorldInv, TypeOK, EntityState
  <2> QED BY <2>1, <2>2
<1> DEFINE r == [ents[e] EXCEPT !.dirty = FALSE, !.moved = TRUE]
           s == [clients[c] EXCEPT !.state = "SWITCHING"]
<1>2. /\ ents' = [ents EXCEPT ![e] = r] /\ ents[e] \in EntityState
      /\ clients' = [clients EXCEPT ![c] = s] /\ clients[c] \in ClientState
  BY DEF teleport, WorldInv, TypeOK
<1>3. /\ r \in EntityState /\ r.st = ents[e].st /\ r.id = ents[e].id
      /\ r.char = ents[e].char /\ r.threw = ents[e].threw
  BY <1>2 DEF EntityState
<1>4. /\ s \in ClientState /\ s.doing = clients[c].doing
      /\ s.char = clients[c].char /\ s.entity = clients[c].entity
  BY <1>2 DEF ClientState
<1> HIDE DEF r, s
<1>5. ents' \in [Entities -> EntityState] /\ SameBeings
  BY <1>2, <1>3, OneEntity DEF WorldInv
<1>6. /\ clients[c].doing = "join" => clients[c].char \in Chars
      /\ clients[c].doing \in Types => clients[c].entity \in Entities
  BY DEF WorldInv, ClientInv
<1>7. clients' \in [Clients -> ClientState] /\ ClientInv'
  BY <1>2, <1>4, <1>6, OneClient DEF WorldInv
<1>8. TypeOK'
  BY <1>1, <1>5, <1>7 DEF WorldInv, TypeOK, teleport
<1>9. CoreInv'
  BY <1>5, CoreFrame DEF WorldInv, teleport
<1> QED BY <1>7, <1>8, <1>9 DEF WorldInv

LEMMA DeleteKeeps ==
  ASSUME WorldInv, DeleteNext
  PROVE  WorldInv'
<1>1. deletes \in Seq(Entities \X BOOLEAN) /\ deletes # <<>> /\ deletes' = Tail(deletes)
  BY DEF WorldInv, TypeOK, DeleteNext, Deletes
<1>2. Head(deletes) \in Entities \X BOOLEAN /\ deletes' \in Seq(Entities \X BOOLEAN)
  BY <1>1
<1>3. /\ ents' \in [Entities -> EntityState]
      /\ nameToEntity' \in [Chars -> EntityOrNone] /\ idToEntity' \in [Id -> EntityOrNone]
      /\ free_ids' \subseteq Id
  <2>0. /\ ents \in [Entities -> EntityState]
        /\ nameToEntity \in [Chars -> EntityOrNone] /\ idToEntity \in [Id -> EntityOrNone]
        /\ free_ids \subseteq Id /\ NoEntity \in EntityOrNone
    BY DEF WorldInv, TypeOK, EntityOrNone
  <2>1. CASE ~Live(Doomed)
    BY <2>0, <2>1 DEF DeleteNext
  <2>2. CASE Live(Doomed)
    <3> DEFINE gone == [ents[Doomed] EXCEPT !.st = "dead",
                          !.dirty = (ents[Doomed].dirty /\ ~Head(deletes)[2])]
    <3>1. Doomed \in Entities /\ ents[Doomed] \in EntityState
      BY <1>2, <2>0 DEF Doomed
    <3>2. gone \in EntityState /\ ents[Doomed].id \in Id
      BY <3>1 DEF EntityState
    <3>3. /\ ents' = [ents EXCEPT ![Doomed] = gone]
          /\ nameToEntity' = [nameToEntity EXCEPT ![ents[Doomed].char] = NoEntity]
          /\ idToEntity' = [idToEntity EXCEPT ![ents[Doomed].id] = NoEntity]
          /\ free_ids' = free_ids \cup {ents[Doomed].id}
      BY <2>2 DEF DeleteNext, Unregister
    <3> HIDE DEF gone
    <3> QED BY <2>0, <3>2, <3>3
  <2> QED BY <2>1, <2>2
<1>4. TypeOK' /\ ClientInv'
  BY <1>2, <1>3 DEF WorldInv, TypeOK, ClientInv, DeleteNext
<1>5. CoreInv'
  BY CoreDelete DEF WorldInv
<1> QED BY <1>4, <1>5 DEF WorldInv

-----------------------------------------------------------------------------
LEMMA InitWorld == Init => WorldInv
<1> SUFFICES ASSUME Init PROVE WorldInv
  OBVIOUS
<1>1. Unborn \in EntityState /\ NoConnection \in ClientState /\ 0 \in Id
  BY DEF Unborn, NoConnection, EntityState, ClientState, EntityOrNone, Id
<1>2. TypeOK
  BY <1>1, BoundsAssumption DEF Init, TypeOK, EntityOrNone
<1>3. ClientInv
  BY DEF Init, ClientInv, NoConnection, Types
<1>4. \A e : ~Live(e)
  BY DEF Init, Live, Unborn
<1>5. CoreInv
  BY <1>4 DEF Init, CoreInv, LiveChars, BelowMax, TwiceRecorded, UniqueIds, IndexesExact,
              IndexesLive, IndexesComplete
<1> QED BY <1>2, <1>3, <1>5 DEF WorldInv

LEMMA StepKeeps == WorldInv /\ [Next]_vars => WorldInv'
<1> SUFFICES ASSUME WorldInv, [Next]_vars PROVE WorldInv'
  OBVIOUS
<1>1. CASE UNCHANGED vars
  <2>1. TypeOK' /\ ClientInv'
    BY <1>1 DEF WorldInv, TypeOK, ClientInv, vars
  <2>2. CoreInv'
    BY <1>1, CoreFrame DEF WorldInv, SameBeings, vars
  <2> QED BY <2>1, <2>2 DEF WorldInv
<1>2. CASE update
  BY <1>2, UpdateKeeps, NpcKeeps, DropKeeps, UnservedKeeps, ChangeMapKeeps, TeleportKeeps,
     DeleteKeeps DEF update
<1>3. ASSUME NEW c \in Clients, ClientStep(c) PROVE WorldInv'
  BY <1>3, SentAssumption, AcceptedKeeps, JoinKeeps, LoadKeeps, JoinThrowsKeeps,
     LoadThrowsKeeps, LoadFailsKeeps, PacketKeeps, DispatchKeeps, ReadAbortedKeeps,
     DisconnectedKeeps, DestroyKeeps, RemoveKeeps, HandlerDiesKeeps DEF ClientStep
<1> QED BY <1>1, <1>2, <1>3 DEF Next

LEMMA WorldCorrect == Spec => []WorldInv
BY InitWorld, StepKeeps, PTL DEF Spec

\* Entities, clients, indexes and queues keep their types.
THEOREM TypeCorrect == Spec => []TypeOK
<1>1. WorldInv => TypeOK
  BY DEF WorldInv
<1> QED BY <1>1, WorldCorrect, PTL

(***************************************************************************)
(* IdManager's ids: until the 16-bit counter wraps, no two things on the   *)
(* map share one, whatever clients join, drop and leave in whatever order. *)
(***************************************************************************)
THEOREM IdsUnique == Spec => []UniqueIds
<1>1. WorldInv => UniqueIds
  BY DEF WorldInv, CoreInv
<1> QED BY <1>1, WorldCorrect, PTL

(***************************************************************************)
(* registerEntity and unregisterEntity keep the two indexes of             *)
(* EntitySystem in step with the entities that live.                       *)
(***************************************************************************)
THEOREM IndexesRight == Spec => []IndexesExact
<1>1. WorldInv => IndexesExact
  BY DEF WorldInv, CoreInv
<1> QED BY <1>1, WorldCorrect, PTL

-----------------------------------------------------------------------------
(* Unsaved changes. *)

(***************************************************************************)
(* A client r gets its entity once, and leaves without saving it only      *)
(* after teleport saved it; es are the entities.                           *)
(***************************************************************************)
Conn(r, es) ==
  /\ r.sock = "none" => r.entity = NoEntity /\ r.doing = "no"
  /\ r.sock = "open" /\ r.state = "DEFAULT" => r.entity = NoEntity
  /\ r.doing = "join" => r.entity = NoEntity /\ (r.sock = "open" => r.state # "DEFAULT")
  /\ r.state = "SWITCHING" \/ r.leaving = "nosave" => r.entity \in Entities /\ es[r.entity].moved

ConnInv == \A c \in Clients : Conn(clients[c], ents)

\* An entity's client has that entity and was not freed; an unborn entity was not saved.
OwnInv ==
  \A e \in Entities : /\ \A c \in Clients : ents[e].client = c =>
                            clients[c].entity = e /\ clients[c].sock # "freed"
                      /\ ents[e].moved => ents[e].st # "none"

\* What is to be deleted without saving was saved by teleport.
DeletesInv == \A i \in 1 .. Len(deletes) : deletes[i][2] \/ ents[deletes[i][1]].moved

SwitchInv == ConnInv /\ OwnInv /\ DeletesInv

\* No entity forgets that it was saved for another map server.
MovedStays == \A e \in Entities : ents[e].moved => ents'[e].moved

LEMMA DeletesFrame ==
  ASSUME WorldInv, DeletesInv, MovedStays, deletes' = deletes
  PROVE  DeletesInv'
<1>1. deletes \in Seq(Entities \X BOOLEAN)
  BY DEF WorldInv, TypeOK
<1>2. \A i \in 1 .. Len(deletes) : deletes[i][1] \in Entities
  BY <1>1
<1> QED BY <1>2 DEF DeletesInv, MovedStays

LEMMA ConnFrame ==
  ASSUME WorldInv, ConnInv, MovedStays, NEW c \in Clients, NEW r \in ClientState,
         clients' = [clients EXCEPT ![c] = r], Conn(r, ents')
  PROVE  ConnInv'
<1>1. \A d \in Clients : clients'[d] = IF d = c THEN r ELSE clients[d]
  BY DEF WorldInv, TypeOK
<1>2. \A d \in Clients : Conn(clients[d], ents')
  BY DEF ConnInv, Conn, MovedStays
<1> QED BY <1>1, <1>2 DEF ConnInv

\* A step of one client that neither gets nor loses its entity.
LEMMA ClientOnly ==
  ASSUME WorldInv, SwitchInv, NEW c \in Clients, NEW r \in ClientState,
         clients' = [clients EXCEPT ![c] = r], r.entity = clients[c].entity, Conn(r, ents),
         r.sock = "freed" => clients[c].sock = "freed",
         ents' = ents, deletes' = deletes
  PROVE  SwitchInv'
<1>1. MovedStays /\ Conn(r, ents')
  BY DEF MovedStays
<1>2. ConnInv' /\ DeletesInv'
  BY <1>1, ConnFrame, DeletesFrame DEF SwitchInv
<1>3. \A d \in Clients : /\ clients'[d].entity = clients[d].entity
                         /\ clients'[d].sock = "freed" => clients[d].sock = "freed"
  <2>1. \A d \in Clients : clients'[d] = IF d = c THEN r ELSE clients[d]
    BY DEF WorldInv, TypeOK
  <2> QED BY <2>1
<1>4. OwnInv'
  BY <1>3 DEF SwitchInv, OwnInv
<1> QED BY <1>2, <1>4 DEF SwitchInv

\* A freed client is forgotten: no entity has it.
LEMMA ForgetSwitch ==
  ASSUME WorldInv, SwitchInv, NEW c \in Clients, clients[c].sock = "freed",
         clients' = [clients EXCEPT ![c] = NoConnection], ents' = ents, deletes' = deletes
  PROVE  SwitchInv'
<1>1. MovedStays /\ NoConnection \in ClientState /\ Conn(NoConnection, ents')
  BY DEF MovedStays, NoConnection, ClientState, EntityOrNone, Conn
<1>2. ConnInv' /\ DeletesInv'
  BY <1>1, ConnFrame, DeletesFrame DEF SwitchInv
<1>3. \A d \in Clients : d # c => clients'[d] = clients[d]
  BY DEF WorldInv, TypeOK
<1>4. \A e \in Entities : ents[e].client # c
  BY DEF SwitchInv, OwnInv
<1>5. OwnInv'
  BY <1>3, <1>4 DEF SwitchInv, OwnInv
<1> QED BY <1>2, <1>5 DEF SwitchInv

\* The end of a handler, of a client that is there or was freed.
LEMMA AfterSwitch ==
  ASSUME WorldInv, SwitchInv, NEW c \in Clients, NEW r \in ClientState,
         clients' = [clients EXCEPT ![c] = After(c, r)], r.entity = clients[c].entity,
         Conn(r, ents), r.sock = "freed" => clients[c].sock = "freed",
         ents' = ents, deletes' = deletes
  PROVE  SwitchInv'
<1>1. CASE After(c, r) = r
  BY <1>1, ClientOnly
<1>2. CASE clients[c].sock = "freed" /\ After(c, r) = NoConnection
  BY <1>2, ForgetSwitch
<1> QED BY <1>1, <1>2, AfterType

\* A step of the update thread that leaves the clients alone.
LEMMA EntitiesOnly ==
  ASSUME WorldInv, SwitchInv, clients' = clients, deletes' = deletes,
         \A e \in Entities : /\ ents'[e].client = ents[e].client
                             /\ ents'[e].moved = ents[e].moved
                             /\ ents'[e].st = ents[e].st
  PROVE  SwitchInv'
<1>1. MovedStays
  BY DEF MovedStays
<1>2. ConnInv'
  BY <1>1 DEF SwitchInv, ConnInv, Conn, MovedStays
<1>3. OwnInv'
  BY DEF SwitchInv, OwnInv
<1> QED BY <1>1, <1>2, <1>3, DeletesFrame DEF SwitchInv

LEMMA ClientOnlySteps ==
  ASSUME WorldInv, SwitchInv, NEW c \in Clients,
         \/ OnAccepted(c)
         \/ \E n \in Chars : JoinServerReply(c, n)
         \/ loadCharacterFails(c)
         \/ \E t \in Sent : HandlePacket(c, t)
         \/ dispatch(c)
         \/ ReadAborted(c)
         \/ OnDisconnected(c)
  PROVE  SwitchInv'
<1>0. clients[c] \in ClientState /\ Conn(clients[c], ents)
  BY DEF WorldInv, TypeOK, SwitchInv, ConnInv
<1>1. CASE OnAccepted(c)
  <2> DEFINE r == [NoConnection EXCEPT !.sock = "open"]
  <2>1. /\ r \in ClientState /\ r.entity = NoEntity /\ r.doing = "no"
        /\ r.state = "DEFAULT" /\ r.leaving = "no" /\ r.sock = "open"
    BY DEF NoConnection, ClientState, EntityOrNone
  <2>2. clients' = [clients EXCEPT ![c] = r] /\ ents' = ents /\ deletes' = deletes
    BY <1>1 DEF OnAccepted
  <2>3. clients[c].entity = NoEntity
    BY <1>0, <1>1 DEF OnAccepted, Conn
  <2> HIDE DEF r
  <2>4. Conn(r, ents)
    BY <2>1 DEF Conn
  <2> QED BY <2>1, <2>2, <2>3, <2>4, ClientOnly
<1>2. ASSUME NEW n \in Chars, JoinServerReply(c, n) PROVE SwitchInv'
  <2> DEFINE r == [clients[c] EXCEPT !.state = "LOGGEDIN", !.doing = "join", !.char = n]
  <2>1. /\ r \in ClientState /\ r.entity = clients[c].entity /\ r.doing = "join"
        /\ r.state = "LOGGEDIN" /\ r.leaving = clients[c].leaving /\ r.sock = clients[c].sock
    BY <1>0 DEF ClientState
  <2>2. clients' = [clients EXCEPT ![c] = r] /\ ents' = ents /\ deletes' = deletes
    BY <1>2 DEF JoinServerReply
  <2>3. clients[c].entity = NoEntity /\ clients[c].sock = "open"
    BY <1>0, <1>2 DEF JoinServerReply, Conn
  <2> HIDE DEF r
  <2>4. Conn(r, ents)
    BY <1>0, <2>1, <2>3 DEF Conn
  <2> QED BY <2>1, <2>2, <2>4, ClientOnly
<1>3. CASE loadCharacterFails(c) \/ dispatch(c)
  <2> DEFINE r == [clients[c] EXCEPT !.doing = "no"]
  <2>1. /\ r \in ClientState /\ r.entity = clients[c].entity /\ r.doing = "no"
        /\ r.state = clients[c].state /\ r.leaving = clients[c].leaving
        /\ r.sock = clients[c].sock
    BY <1>0 DEF ClientState
  <2>2. clients' = [clients EXCEPT ![c] = After(c, r)] /\ ents' = ents /\ deletes' = deletes
    BY <1>3 DEF loadCharacterFails, dispatch
  <2> HIDE DEF r
  <2>4. Conn(r, ents)
    BY <1>0, <2>1 DEF Conn
  <2> QED BY <2>1, <2>2, <2>4, AfterSwitch
<1>4. ASSUME NEW t \in Sent, HandlePacket(c, t) PROVE SwitchInv'
  <2> DEFINE r == [clients[c] EXCEPT !.doing = t]
  <2>0. t \in Types /\ t # "join"
    BY SentAssumption DEF Types
  <2>1. /\ r \in ClientState /\ r.entity = clients[c].entity /\ r.doing = t
        /\ r.state = clients[c].state /\ r.leaving = clients[c].leaving
        /\ r.sock = clients[c].sock
    BY <1>0, <2>0 DEF ClientState
  <2>2. clients' = [clients EXCEPT ![c] = r] /\ ents' = ents /\ deletes' = deletes
    BY <1>4 DEF HandlePacket
  <2>3. clients[c].sock = "open"
    BY <1>4 DEF HandlePacket
  <2> HIDE DEF r
  <2>4. Conn(r, ents)
    BY <1>0, <2>0, <2>1, <2>3 DEF Conn
  <2> QED BY <2>1, <2>2, <2>4, ClientOnly
<1>a. CASE ReadAborted(c)
  <2> DEFINE r == [clients[c] EXCEPT !.sock = "aborted"]
  <2>1. /\ r \in ClientState /\ r.entity = clients[c].entity /\ r.doing = clients[c].doing
        /\ r.state = clients[c].state /\ r.leaving = clients[c].leaving
        /\ r.sock = "aborted"
    BY <1>0 DEF ClientState
  <2>2. clients' = [clients EXCEPT ![c] = r] /\ ents' = ents /\ deletes' = deletes
    BY <1>a DEF ReadAborted
  <2> HIDE DEF r
  <2>4. Conn(r, ents)
    BY <1>0, <2>1 DEF Conn
  <2> QED BY <2>1, <2>2, <2>4, ClientOnly
<1>5. CASE OnDisconnected(c)
  <2> DEFINE going == [clients[c] EXCEPT !.leaving = SaveFlag(c)]
             gone == [clients[c] EXCEPT !.state = "DEFAULT", !.sock = NextSock(clients[c].sock)]
  <2>1. /\ SaveFlag(c) \in {"save", "nosave"}
        /\ SaveFlag(c) = "nosave" => clients[c].state = "SWITCHING"
        /\ NextSock(clients[c].sock) \in {"closing", "closed"}
    BY DEF SaveFlag, NextSock
  <2>2. /\ going \in ClientState /\ going.entity = clients[c].entity
        /\ going.doing = clients[c].doing /\ going.state = clients[c].state
        /\ going.leaving = SaveFlag(c) /\ going.sock = clients[c].sock
    BY <1>0, <2>1 DEF ClientState
  <2>3. /\ gone \in ClientState /\ gone.entity = clients[c].entity
        /\ gone.doing = clients[c].doing /\ gone.state = "DEFAULT"
        /\ gone.leaving = clients[c].leaving /\ gone.sock \in {"closing", "closed"}
    BY <1>0, <2>1 DEF ClientState
  <2>4. /\ clients' = [clients EXCEPT ![c] = going] \/ clients' = [clients EXCEPT ![c] = gone]
        /\ ents' = ents /\ deletes' = deletes
    BY <1>5 DEF OnDisconnected
  <2> HIDE DEF going, gone
  <2>5. Conn(going, ents) /\ Conn(gone, ents)
    BY <1>0, <2>1, <2>2, <2>3 DEF Conn
  <2>6. CASE clients' = [clients EXCEPT ![c] = going]
    BY <2>2, <2>4, <2>5, <2>6, ClientOnly
  <2>7. CASE clients' = [clients EXCEPT ![c] = gone]
    BY <2>3, <2>4, <2>5, <2>7, ClientOnly
  <2> QED BY <2>4, <2>6, <2>7
<1> QED BY <1>1, <1>2, <1>3, <1>4, <1>a, <1>5

\* The new entity takes the place of one that was never used; the client may have it.
LEMMA CreateSwitch ==
  ASSUME WorldInv, SwitchInv, NEW c \in Clients, NEW e \in Entities, NEW id \in Id,
         NEW client \in {c, NoClient}, NEW threw, create(c, e, id, client, threw),
         NEW r \in ClientState, clients' = [clients EXCEPT ![c] = r],
         r.doing = "no", r.state # "SWITCHING", r.leaving # "nosave",
         r.sock = "none" => r.entity = NoEntity,
         r.sock = "open" => r.state # "DEFAULT",
         client = c => r.entity = e /\ r.sock # "freed"
  PROVE  SwitchInv'
<1>0. /\ clients \in [Clients -> ClientState] /\ clients[c] \in ClientState
      /\ ents \in [Entities -> EntityState]
      /\ Conn(clients[c], ents) /\ clients[c].doing = "join" /\ deletes' = deletes
  BY DEF WorldInv, TypeOK, SwitchInv, ConnInv, create
<1>1. clients[c].entity = NoEntity
  BY <1>0 DEF Conn
<1>4. /\ ents'[e].client = client /\ ~ents'[e].moved /\ ents'[e].st = "live"
      /\ \A f \in Entities : f # e => ents'[f] = ents[f]
  BY <1>0 DEF create
<1>5. ~ents[e].moved
  BY DEF create, SwitchInv, OwnInv
<1>6. MovedStays
  BY <1>4, <1>5 DEF MovedStays
<1>7. Conn(r, ents')
  BY DEF Conn, Types
<1>8. ConnInv' /\ DeletesInv'
  BY <1>0, <1>6, <1>7, ConnFrame, DeletesFrame DEF SwitchInv
<1>9. OwnInv'
  <2>1. \A d \in Clients : clients'[d] = IF d = c THEN r ELSE clients[d]
    BY <1>0
  <2>2. ASSUME NEW f \in Entities
        PROVE  /\ \A d \in Clients : ents'[f].client = d =>
                    clients'[d].entity = f /\ clients'[d].sock # "freed"
               /\ ents'[f].moved => ents'[f].st # "none"
    <3>1. CASE f = e
      BY <3>1, <1>4, <2>1
    <3>2. CASE f # e
      <4>1. /\ ents'[f] = ents[f]
            /\ ents[f].moved => ents[f].st # "none"
            /\ \A d \in Clients : ents[f].client = d =>
                 clients[d].entity = f /\ clients[d].sock # "freed"
        BY <3>2, <1>4 DEF SwitchInv, OwnInv
      <4>2. ents[f].client # c
        BY <4>1, <1>1
      <4> QED BY <4>1, <4>2, <2>1
    <3> QED BY <3>1, <3>2
  <2> QED BY <2>2 DEF OwnInv
<1> QED BY <1>8, <1>9 DEF SwitchInv

\* What a client that is joining has; its handler leaves r or After(c, r).
LEMMA JoiningConn ==
  ASSUME WorldInv, SwitchInv, NEW c \in Clients, clients[c].doing = "join",
         NEW r \in ClientState, r.doing = "no", r.state = clients[c].state,
         r.leaving = clients[c].leaving, r.sock = clients[c].sock
  PROVE  /\ r.state # "SWITCHING" /\ r.leaving # "nosave" /\ r.sock # "none"
         /\ r.sock = "open" => r.state # "DEFAULT"
         /\ clients[c].entity = NoEntity
         /\ After(c, r) \in ClientState /\ After(c, r).doing = "no"
         /\ After(c, r).state # "SWITCHING" /\ After(c, r).leaving # "nosave"
         /\ After(c, r).sock = "none" => After(c, r).entity = NoEntity
         /\ After(c, r).sock = "open" => After(c, r).state # "DEFAULT"
         /\ After(c, r).entity \in {r.entity, NoEntity}
<1>1. Conn(clients[c], ents)
  BY DEF SwitchInv, ConnInv
<1>2. /\ r.state # "SWITCHING" /\ r.leaving # "nosave" /\ r.sock # "none"
      /\ r.sock = "open" => r.state # "DEFAULT"
      /\ clients[c].entity = NoEntity
  BY <1>1 DEF Conn
<1>3. /\ NoConnection.state = "DEFAULT" /\ NoConnection.leaving = "no"
      /\ NoConnection.sock = "none" /\ NoConnection.entity = NoEntity
      /\ NoConnection.doing = "no"
  BY DEF NoConnection
<1> QED BY <1>2, <1>3, AfterType

LEMMA LoadSwitch ==
  ASSUME WorldInv, SwitchInv, NEW c \in Clients, NEW e \in Entities, NEW id \in Id,
         loadCharacter(c, e, id)
  PROVE  SwitchInv'
<1> DEFINE r == [clients[c] EXCEPT !.entity = e, !.doing = "no"]
<1>0. clients[c] \in ClientState /\ clients[c].doing = "join"
  BY DEF WorldInv, TypeOK, loadCharacter, create
<1>1. /\ r \in ClientState /\ r.entity = e /\ r.doing = "no"
      /\ r.sock = clients[c].sock /\ r.state = clients[c].state
      /\ r.leaving = clients[c].leaving
  BY <1>0 DEF ClientState, EntityOrNone
<1>2. /\ clients' = [clients EXCEPT ![c] = r] /\ create(c, e, id, c, "no")
      /\ clients[c].sock # "freed"
  BY DEF loadCharacter
<1> HIDE DEF r
<1>3. /\ r.state # "SWITCHING" /\ r.leaving # "nosave" /\ r.sock # "none"
      /\ r.sock = "open" => r.state # "DEFAULT"
  BY <1>0, <1>1, JoiningConn
<1> QED BY <1>1, <1>2, <1>3, CreateSwitch

LEMMA JoinThrowsSwitch ==
  ASSUME WorldInv, SwitchInv, NEW c \in Clients, NEW e \in Entities, NEW id \in Id,
         JoinThrows(c, e, id)
  PROVE  SwitchInv'
<1> DEFINE r == [clients[c] EXCEPT !.entity = e, !.doing = "no"]
           s == After(c, r)
<1>0. clients[c] \in ClientState /\ clients[c].doing = "join" /\ NoClient # c
  BY DEF WorldInv, TypeOK, JoinThrows, create
<1>1. /\ r \in ClientState /\ r.entity = e /\ r.doing = "no"
      /\ r.sock = clients[c].sock /\ r.state = clients[c].state
      /\ r.leaving = clients[c].leaving
  BY <1>0 DEF ClientState, EntityOrNone
<1>2. clients' = [clients EXCEPT ![c] = s] /\ create(c, e, id, NoClient, "join")
  BY DEF JoinThrows
<1> HIDE DEF r
<1>3. /\ s \in ClientState /\ s.doing = "no" /\ s.state # "SWITCHING" /\ s.leaving # "nosave"
      /\ s.sock = "none" => s.entity = NoEntity
      /\ s.sock = "open" => s.state # "DEFAULT"
  BY <1>0, <1>1, JoiningConn
<1> HIDE DEF s
<1> QED BY <1>0, <1>2, <1>3, CreateSwitch

LEMMA LoadThrowsSwitch ==
  ASSUME WorldInv, SwitchInv, NEW c \in Clients, NEW e \in Entities, NEW id \in Id,
         loadCharacterThrows(c, e, id)
  PROVE  SwitchInv'
<1> DEFINE r == [clients[c] EXCEPT !.doing = "no"]
           s == After(c, r)
<1>0. clients[c] \in ClientState /\ clients[c].doing = "join" /\ NoClient # c
  BY DEF WorldInv, TypeOK, loadCharacterThrows, create
<1>1. /\ r \in ClientState /\ r.doing = "no"
      /\ r.sock = clients[c].sock /\ r.state = clients[c].state
      /\ r.leaving = clients[c].leaving
  BY <1>0 DEF ClientState, EntityOrNone
<1>2. clients' = [clients EXCEPT ![c] = s] /\ create(c, e, id, NoClient, "load")
  BY DEF loadCharacterThrows
<1> HIDE DEF r
<1>3. /\ s \in ClientState /\ s.doing = "no" /\ s.state # "SWITCHING" /\ s.leaving # "nosave"
      /\ s.sock = "none" => s.entity = NoEntity
      /\ s.sock = "open" => s.state # "DEFAULT"
  BY <1>0, <1>1, JoiningConn
<1> HIDE DEF s
<1> QED BY <1>0, <1>2, <1>3, CreateSwitch

\* The delete command carries the save argument.
LEMMA DestroySwitch ==
  ASSUME WorldInv, SwitchInv, NEW c \in Clients, destroy(c)
  PROVE  SwitchInv'
<1> DEFINE r == [clients[c] EXCEPT !.leaving = "no", !.state = "DEFAULT",
                                   !.sock = NextSock(clients[c].sock)]
           s == After(c, r)
<1>0. /\ clients \in [Clients -> ClientState] /\ clients[c] \in ClientState
      /\ ents \in [Entities -> EntityState] /\ deletes \in Seq(Entities \X BOOLEAN)
      /\ Conn(clients[c], ents)
  BY DEF WorldInv, TypeOK, SwitchInv, ConnInv
<1>1. NextSock(clients[c].sock) \in {"closing", "closed"}
  BY DEF NextSock
<1>2. /\ r \in ClientState /\ r.entity = clients[c].entity /\ r.doing = clients[c].doing
      /\ r.sock \in {"closing", "closed"} /\ r.state = "DEFAULT" /\ r.leaving = "no"
  BY <1>0, <1>1 DEF ClientState
<1>3. clients' = [clients EXCEPT ![c] = s]
  BY DEF destroy
<1> HIDE DEF r
<1>4. Conn(r, ents) /\ Conn(r, ents')
  BY <1>0, <1>2 DEF Conn
<1>a. /\ s \in ClientState
      /\ s = r \/ (clients[c].sock = "freed" /\ s = NoConnection)
      /\ Conn(NoConnection, ents')
  BY <1>2, AfterType DEF NoConnection, Conn
<1>b. Conn(s, ents')
  BY <1>4, <1>a
<1>5. CASE ~(Live(clients[c].entity) /\ ents[clients[c].entity].isOnMap)
  <2>1. ents' = ents /\ deletes' = deletes
    BY <1>5 DEF destroy
  <2> QED BY <2>1, <1>2, <1>3, <1>4, AfterSwitch
<1>6. CASE Live(clients[c].entity) /\ ents[clients[c].entity].isOnMap
  <2> SUFFICES ASSUME NEW e \in Entities, e = clients[c].entity PROVE SwitchInv'
    BY <1>6 DEF Live
  <2> DEFINE off == [ents[e] EXCEPT !.isOnMap = FALSE]
             save == clients[c].leaving = "save"
  <2>1. /\ ents' = [ents EXCEPT ![e] = off] /\ ents[e] \in EntityState
        /\ deletes' = Append(deletes, <<e, save>>)
    BY <1>0, <1>6 DEF destroy
  <2>2. off.client = ents[e].client /\ off.moved = ents[e].moved /\ off.st = ents[e].st
    BY <2>1 DEF EntityState
  <2>3. ~save => ents[e].moved
    BY <1>0 DEF destroy, Conn, ClientState
  <2> HIDE DEF off, save, s
  <2>4. \A f \in Entities : /\ ents'[f].client = ents[f].client
                            /\ ents'[f].moved = ents[f].moved /\ ents'[f].st = ents[f].st
    BY <1>0, <2>1, <2>2
  <2>5. MovedStays
    BY <2>4 DEF MovedStays
  <2>6. ConnInv'
    BY <2>5, <1>3, <1>a, <1>b, ConnFrame DEF SwitchInv
  <2>7. OwnInv'
    <3>1. \A d \in Clients : \/ clients[d].sock = "freed"
                             \/ /\ clients'[d].entity = clients[d].entity
                                /\ clients'[d].sock = "freed" => clients[d].sock = "freed"
      BY <1>0, <1>2, <1>3, <1>a
    <3> QED BY <3>1, <2>4 DEF SwitchInv, OwnInv
  <2>8. DeletesInv'
    <3> DEFINE x == <<e, save>>
    <3>0. x[1] = e /\ x[2] = save
      OBVIOUS
    <3> HIDE DEF x
    <3>1. Len(deletes') = Len(deletes) + 1 /\ Len(deletes) \in Nat
      BY <1>0, <2>1
    <3>2. \A i \in 1 .. Len(deletes) : deletes'[i] = deletes[i] /\ deletes[i][1] \in Entities
      BY <1>0, <2>1
    <3>3. deletes'[Len(deletes) + 1] = x
      BY <1>0, <2>1 DEF x
    <3>4. ASSUME NEW i \in 1 .. Len(deletes') PROVE deletes'[i][2] \/ ents'[deletes'[i][1]].moved
      <4>1. CASE i \in 1 .. Len(deletes)
        BY <4>1, <3>2, <2>4 DEF SwitchInv, DeletesInv
      <4>2. CASE i = Len(deletes) + 1
        BY <4>2, <3>0, <3>3, <2>3, <2>4
      <4> QED BY <3>1, <4>1, <4>2
    <3> QED BY <3>4 DEF DeletesInv
  <2> QED BY <2>6, <2>7, <2>8 DEF SwitchInv
<1> QED BY <1>5, <1>6

LEMMA RemoveSwitch ==
  ASSUME WorldInv, SwitchInv, NEW c \in Clients, RemoveClient(c)
  PROVE  SwitchInv'
<1> DEFINE s == IF Freed(c).doing # "no" \/ Freed(c).leaving # "no"
                THEN Freed(c) ELSE NoConnection
<1>0. clients \in [Clients -> ClientState] /\ ents \in [Entities -> EntityState]
  BY DEF WorldInv, TypeOK
<1>1. NoConnection \in ClientState /\ Conn(NoConnection, ents')
  BY DEF NoConnection, ClientState, EntityOrNone, Conn
<1>2. clients' = [clients EXCEPT ![c] = s] /\ deletes' = deletes
  BY DEF RemoveClient
<1>3. ASSUME NEW e \in Entities
      PROVE  /\ ents'[e].moved = ents[e].moved /\ ents'[e].st = ents[e].st
             /\ ents'[e].client # c
             /\ ents'[e].client # NoClient => ents'[e].client = ents[e].client
  <2>1. ents[e] \in EntityState
    BY <1>0
  <2>2. /\ [ents[e] EXCEPT !.client = NoClient].moved = ents[e].moved
        /\ [ents[e] EXCEPT !.client = NoClient].st = ents[e].st
        /\ [ents[e] EXCEPT !.client = NoClient].client = NoClient
    BY <2>1 DEF EntityState
  <2>3. ents'[e] = IF ents[e].client = c THEN [ents[e] EXCEPT !.client = NoClient] ELSE ents[e]
    BY DEF RemoveClient
  <2> QED BY <2>2, <2>3
<1>4. MovedStays
  BY <1>3 DEF MovedStays
<1>a. Freed(c) \in ClientState /\ Conn(Freed(c), ents')
  <2>1. Conn(clients[c], ents')
    BY <1>4 DEF SwitchInv, ConnInv, Conn, MovedStays
  <2>2. SaveFlag(c) = "nosave" => clients[c].state = "SWITCHING"
    BY DEF SaveFlag
  <2> QED BY <2>1, <2>2, FreedType DEF WorldInv, Conn
<1>b. s \in ClientState /\ Conn(s, ents')
  BY <1>1, <1>a
<1> HIDE DEF s
<1>5. ConnInv' /\ DeletesInv'
  BY <1>b, <1>2, <1>4, ConnFrame, DeletesFrame DEF SwitchInv
<1>6. OwnInv'
  <2>1. \A d \in Clients : d # c => clients'[d] = clients[d]
    BY <1>0, <1>2
  <2> QED BY <1>3, <2>1 DEF SwitchInv, OwnInv
<1> QED BY <1>5, <1>6 DEF SwitchInv

LEMMA TeleportSwitch ==
  ASSUME WorldInv, SwitchInv, teleport
  PROVE  SwitchInv'
<1> SUFFICES ASSUME NEW e \in Entities, e = Packet[1], Served,
                    NEW c \in Clients, c = ents[e].client
             PROVE  SwitchInv'
  <2>1. Packet[1] \in Entities /\ Served
    BY PacketType DEF teleport
  <2>2. ents[Packet[1]].client \in Clients
    BY <2>1 DEF Served, WorldInv, TypeOK, EntityState
  <2> QED BY <2>1, <2>2
<1> DEFINE r == [ents[e] EXCEPT !.dirty = FALSE, !.moved = TRUE]
           s == [clients[c] EXCEPT !.state = "SWITCHING"]
<1>0. clients \in [Clients -> ClientState] /\ ents \in [Entities -> EntityState]
  BY DEF WorldInv, TypeOK
<1>1. /\ ents' = [ents EXCEPT ![e] = r] /\ ents[e] \in EntityState
      /\ clients' = [clients EXCEPT ![c] = s] /\ clients[c] \in ClientState
      /\ deletes' = deletes
  BY <1>0 DEF teleport
<1>2. r.moved /\ r.st = ents[e].st /\ r.client = ents[e].client
  BY <1>1 DEF EntityState
<1>3. /\ s \in ClientState /\ s.doing = clients[c].doing /\ s.sock = clients[c].sock
      /\ s.state = "SWITCHING" /\ s.entity = clients[c].entity
  BY <1>1 DEF ClientState
<1> HIDE DEF r, s
<1>4. ents[e].st = "live" /\ clients[c].entity = e
  BY DEF Served, Live, SwitchInv, OwnInv
<1>5. \A f \in Entities : ents'[f] = IF f = e THEN r ELSE ents[f]
  BY <1>0, <1>1
<1>6. MovedStays
  BY <1>2, <1>5 DEF MovedStays
<1>7. Conn(s, ents')
  <2>1. Conn(clients[c], ents)
    BY DEF SwitchInv, ConnInv
  <2> QED BY <2>1, <1>2, <1>3, <1>4, <1>5 DEF Conn
<1>8. ConnInv' /\ DeletesInv'
  BY <1>1, <1>3, <1>6, <1>7, ConnFrame, DeletesFrame DEF SwitchInv
<1>9. OwnInv'
  <2>1. \A d \in Clients : /\ clients'[d].entity = clients[d].entity
                           /\ clients'[d].sock = clients[d].sock
    BY <1>0, <1>1, <1>3
  <2>2. \A f \in Entities : ents'[f].client = ents[f].client
    BY <1>2, <1>5
  <2>3. \A f \in Entities : ents'[f].moved => ents'[f].st # "none"
    BY <1>2, <1>4, <1>5 DEF SwitchInv, OwnInv
  <2> QED BY <2>1, <2>2, <2>3 DEF SwitchInv, OwnInv
<1> QED BY <1>8, <1>9 DEF SwitchInv

\* The steps of the update thread that change flags, or nothing, of the entities.
LEMMA FlagSteps ==
  ASSUME WorldInv, SwitchInv,
         \/ UpdateBegins \/ UpdateEnds \/ DispatchNobody \/ DispatchRefused
         \/ processChangeMapReq
         \/ \E id \in Id : CreateNpc(id) \/ dropItem(id)
  PROVE  SwitchInv'
<1>0. ents \in [Entities -> EntityState]
  BY DEF WorldInv, TypeOK
<1>1. clients' = clients /\ deletes' = deletes
  BY DEF UpdateBegins, UpdateEnds, DispatchNobody, DispatchRefused, processChangeMapReq,
         CreateNpc, dropItem
<1>2. CASE ents' = ents
  BY <1>1, <1>2, EntitiesOnly
<1>3. CASE processChangeMapReq \/ \E id \in Id : dropItem(id)
  <2> SUFFICES ASSUME NEW e \in Entities, e = Packet[1] PROVE SwitchInv'
    BY <1>3, PacketType DEF processChangeMapReq, dropItem
  <2> DEFINE r == [ents[e] EXCEPT !.isOnMap = TRUE]
             s == [ents[e] EXCEPT !.dirty = TRUE]
  <2>1. ents' = [ents EXCEPT ![e] = r] \/ ents' = [ents EXCEPT ![e] = s]
    BY <1>3 DEF processChangeMapReq, dropItem
  <2>2. ents[e] \in EntityState
    BY <1>0
  <2>3. /\ r.client = ents[e].client /\ r.moved = ents[e].moved /\ r.st = ents[e].st
        /\ s.client = ents[e].client /\ s.moved = ents[e].moved /\ s.st = ents[e].st
    BY <2>2 DEF EntityState
  <2> HIDE DEF r, s
  <2>4. \A f \in Entities : /\ ents'[f].client = ents[f].client
                            /\ ents'[f].moved = ents[f].moved /\ ents'[f].st = ents[f].st
    BY <1>0, <2>1, <2>3
  <2> QED BY <1>1, <2>4, EntitiesOnly
<1>4. ents' = ents \/ processChangeMapReq \/ \E id \in Id : dropItem(id)
  BY DEF UpdateBegins, UpdateEnds, DispatchNobody, DispatchRefused, CreateNpc
<1> QED BY <1>2, <1>3, <1>4

\* What a delete command does to its entity and to the others.
LEMMA DeleteEffect ==
  ASSUME WorldInv, DeleteNext
  PROVE  \A e \in Entities :
           /\ ents'[e].client = ents[e].client
           /\ ents'[e].moved = ents[e].moved /\ ents'[e].threw = ents[e].threw
           /\ ents[e].st # "none" => ents'[e].st # "none"
           /\ ents'[e].st # ents[e].st => e = Doomed /\ (Head(deletes)[2] => ~ents'[e].dirty)
<1>0. ents \in [Entities -> EntityState]
  BY DEF WorldInv, TypeOK
<1>1. CASE ~Live(Doomed)
  BY <1>1 DEF DeleteNext
<1>2. CASE Live(Doomed)
  <2> SUFFICES ASSUME NEW d \in Entities, d = Doomed,
                      NEW saved, saved = Head(deletes)[2]
               PROVE  \A e \in Entities :
                        /\ ents'[e].client = ents[e].client
                        /\ ents'[e].moved = ents[e].moved /\ ents'[e].threw = ents[e].threw
                        /\ ents[e].st # "none" => ents'[e].st # "none"
                        /\ ents'[e].st # ents[e].st => e = d /\ (saved => ~ents'[e].dirty)
    BY <1>2 DEF Live
  <2> DEFINE gone == [ents[d] EXCEPT !.st = "dead", !.dirty = (ents[d].dirty /\ ~saved)]
  <2>1. ents' = [ents EXCEPT ![d] = gone] /\ ents[d] \in EntityState
    BY <1>0, <1>2 DEF DeleteNext
  <2>2. /\ gone.client = ents[d].client /\ gone.moved = ents[d].moved
        /\ gone.threw = ents[d].threw
        /\ gone.st = "dead" /\ (saved => ~gone.dirty)
    BY <2>1 DEF EntityState
  <2> HIDE DEF gone
  <2>3. \A e \in Entities : ents'[e] = IF e = d THEN gone ELSE ents[e]
    BY <1>0, <2>1
  <2> QED BY <2>2, <2>3
<1> QED BY <1>1, <1>2

LEMMA DeleteSwitch ==
  ASSUME WorldInv, SwitchInv, DeleteNext
  PROVE  SwitchInv'
<1>0. deletes \in Seq(Entities \X BOOLEAN) /\ deletes # <<>> /\ deletes' = Tail(deletes)
  BY DEF WorldInv, TypeOK, DeleteNext, Deletes
<1>1. \A e \in Entities : /\ ents'[e].client = ents[e].client
                          /\ ents'[e].moved = ents[e].moved
                          /\ ents[e].st # "none" => ents'[e].st # "none"
  BY DeleteEffect
<1>2. clients' = clients
  BY DEF DeleteNext
<1>3. ConnInv'
  BY <1>1, <1>2 DEF SwitchInv, ConnInv, Conn
<1>4. OwnInv'
  BY <1>1, <1>2 DEF SwitchInv, OwnInv
<1>5. DeletesInv'
  <2>1. Len(deletes') = Len(deletes) - 1 /\ Len(deletes) \in Nat /\ Len(deletes) # 0
    BY <1>0
  <2>2. \A i \in 1 .. Len(deletes') : deletes'[i] = deletes[i + 1] /\ i + 1 \in 1 .. Len(deletes)
    BY <1>0, <2>1
  <2>3. \A i \in 1 .. Len(deletes) : deletes[i][1] \in Entities
    BY <1>0
  <2> QED BY <2>2, <2>3, <1>1 DEF SwitchInv, DeletesInv
<1> QED BY <1>3, <1>4, <1>5 DEF SwitchInv

LEMMA SwitchStep == WorldInv /\ SwitchInv /\ [Next]_vars => SwitchInv'
<1> SUFFICES ASSUME WorldInv, SwitchInv, [Next]_vars PROVE SwitchInv'
  OBVIOUS
<1>1. CASE UNCHANGED vars
  BY <1>1, EntitiesOnly DEF vars
<1>2. CASE update
  BY <1>2, FlagSteps, TeleportSwitch, DeleteSwitch DEF update
<1>3. ASSUME NEW c \in Clients, ClientStep(c) PROVE SwitchInv'
  <2>1. CASE HandlerDies(c)
    BY <2>1, ForgetSwitch DEF HandlerDies
  <2> QED BY <1>3, <2>1, ClientOnlySteps, LoadSwitch, JoinThrowsSwitch, LoadThrowsSwitch,
             DestroySwitch, RemoveSwitch DEF ClientStep
<1> QED BY <1>1, <1>2, <1>3 DEF Next

\* Only a delete command ends the life of an entity.
LEMMA OthersLive ==
  ASSUME WorldInv, Next, ~DeleteNext, NEW e \in Entities, ents[e].st = "live"
  PROVE  ents'[e].st = "live"
<1>0. ents \in [Entities -> EntityState]
  BY DEF WorldInv, TypeOK
<1>1. ASSUME NEW x \in Entities, NEW r, ents' = [ents EXCEPT ![x] = r], r.st = ents[x].st
      PROVE  ents'[e].st = "live"
  BY <1>0, <1>1
<1>2. ASSUME NEW x \in Entities
      PROVE  /\ [ents[x] EXCEPT !.isOnMap = TRUE].st = ents[x].st
             /\ [ents[x] EXCEPT !.isOnMap = FALSE].st = ents[x].st
             /\ [ents[x] EXCEPT !.dirty = TRUE].st = ents[x].st
             /\ [ents[x] EXCEPT !.dirty = FALSE, !.moved = TRUE].st = ents[x].st
             /\ [ents[x] EXCEPT !.client = NoClient].st = ents[x].st
  <2>1. ents[x] \in EntityState
    BY <1>0
  <2> QED BY <2>1 DEF EntityState
<1>3. CASE update
  <2>1. CASE processChangeMapReq
    BY <2>1, <1>1, <1>2, PacketType DEF processChangeMapReq
  <2>2. CASE teleport
    BY <2>2, <1>1, <1>2, PacketType DEF teleport
  <2>3. ASSUME NEW id \in Id, dropItem(id) PROVE ents'[e].st = "live"
    BY <2>3, <1>1, <1>2, PacketType DEF dropItem
  <2>4. CASE UpdateBegins \/ UpdateEnds \/ DispatchNobody \/ DispatchRefused
    BY <2>4 DEF UpdateBegins, UpdateEnds, DispatchNobody, DispatchRefused
  <2>5. ASSUME NEW id \in Id, CreateNpc(id) PROVE ents'[e].st = "live"
    BY <2>5 DEF CreateNpc
  <2> QED BY <1>3, <2>1, <2>2, <2>3, <2>4, <2>5 DEF update
<1>4. ASSUME NEW c \in Clients, ClientStep(c) PROVE ents'[e].st = "live"
  <2>1. ASSUME NEW x \in Entities, NEW id \in Id, NEW client, NEW threw,
               create(c, x, id, client, threw)
        PROVE  ents'[e].st = "live"
    BY <2>1, <1>0 DEF create
  <2>2. CASE destroy(c)
    BY <2>2, <1>1, <1>2 DEF destroy, Live
  <2>3. CASE RemoveClient(c)
    BY <2>3, <1>2 DEF RemoveClient
  <2>4. ASSUME ents' = ents PROVE ents'[e].st = "live"
    BY <2>4
  <2>5. ASSUME NEW x \in Entities, NEW id \in Id,
               loadCharacter(c, x, id) \/ JoinThrows(c, x, id) \/ loadCharacterThrows(c, x, id)
        PROVE  ents'[e].st = "live"
    BY <2>1, <2>5 DEF loadCharacter, JoinThrows, loadCharacterThrows
  <2> QED BY <1>4, <2>2, <2>3, <2>4, <2>5 DEF ClientStep, OnAccepted, JoinServerReply,
             loadCharacterFails, HandlePacket, dispatch, ReadAborted, OnDisconnected,
             HandlerDies
<1> QED BY <1>3, <1>4 DEF Next

LEMMA SwitchCorrect == Spec => []SwitchInv
<1>1. Init => SwitchInv
  <2> SUFFICES ASSUME Init PROVE SwitchInv
    OBVIOUS
  <2>1. ConnInv
    BY DEF Init, ConnInv, Conn, NoConnection
  <2>2. OwnInv
    BY DEF Init, OwnInv, Unborn
  <2>3. DeletesInv
    BY DEF Init, DeletesInv
  <2> QED BY <2>1, <2>2, <2>3 DEF SwitchInv
<1> QED BY <1>1, WorldCorrect, SwitchStep, PTL DEF Spec

(***************************************************************************)
(* OnDisconnected saves every client but a SWITCHING one, destroy passes   *)
(* that on with the delete command, and only teleport makes a client       *)
(* SWITCHING: so what is destroyed unsaved was saved by teleport.          *)
(***************************************************************************)
THEOREM SavedWhenLeaving == Spec => SavedOnLeave
<1> DEFINE Saved == \A e \in Entities : Live(e) /\ ents'[e].st = "dead" =>
                      ~ents'[e].dirty \/ ents[e].moved
<1>1. WorldInv /\ SwitchInv /\ [Next]_vars => [Saved]_vars
  <2> SUFFICES ASSUME WorldInv, SwitchInv, Next, NEW e \in Entities,
                      ents[e].st = "live", ents'[e].st = "dead"
               PROVE  ~ents'[e].dirty \/ ents[e].moved
    BY DEF Live
  <2>1. CASE DeleteNext
    <3>1. e = Doomed /\ (Head(deletes)[2] => ~ents'[e].dirty)
      BY <2>1, DeleteEffect
    <3>2. /\ deletes \in Seq(Entities \X BOOLEAN) /\ deletes # <<>>
          /\ Len(deletes) \in Nat /\ Len(deletes) # 0 /\ Head(deletes) = deletes[1]
      BY <2>1 DEF WorldInv, TypeOK, DeleteNext, Deletes
    <3>3. Head(deletes)[2] \/ ents[Head(deletes)[1]].moved
      BY <3>2 DEF SwitchInv, DeletesInv
    <3> QED BY <3>1, <3>3 DEF Doomed
  <2>2. CASE ~DeleteNext
    BY <2>2, OthersLive
  <2> QED BY <2>1, <2>2
<1> QED BY <1>1, WorldCorrect, SwitchCorrect, PTL DEF Spec, SavedOnLeave

-----------------------------------------------------------------------------
(* Lost handlers. *)

(***************************************************************************)
(* A client's entity was loaded, is nobody else's, and knows its client    *)
(* while that is open, unless its join threw.                              *)
(***************************************************************************)
BackInv ==
  \A c \in Clients, e \in Entities : clients[c].entity = e =>
    /\ ents[e].st # "none"
    /\ clients[c].sock = "open" => ents[e].client = c \/ ents[e].threw = "join"
    /\ \A d \in Clients : clients[d].entity = e => d = c

\* The client of an entity that was deleted or will be is no longer open.
GoneInv ==
  \A c \in Clients : clients[c].sock = "open" =>
    /\ \A e \in Entities : clients[c].entity = e => ents[e].st # "dead"
    /\ \A i \in 1 .. Len(deletes) : deletes[i][1] # clients[c].entity

\* Only entities that were loaded are to be deleted.
LoadedInv == \A i \in 1 .. Len(deletes) : ents[deletes[i][1]].st # "none"

LeaverInv == BackInv /\ GoneInv /\ LoadedInv

\* A step that opens no client with an entity and changes no entity's client or life.
LEMMA LeaverFrame ==
  ASSUME WorldInv, LeaverInv, deletes' = deletes,
         \A e \in Entities : /\ ents'[e].client = ents[e].client /\ ents'[e].st = ents[e].st
                             /\ ents'[e].threw = ents[e].threw,
         \A c \in Clients : /\ clients'[c].entity = clients[c].entity
                            /\ clients'[c].sock = "open" =>
                                 clients[c].sock = "open" \/ clients[c].entity = NoEntity
  PROVE  LeaverInv'
<1>1. \A i \in 1 .. Len(deletes) : deletes[i][1] \in Entities
  <2>1. deletes \in Seq(Entities \X BOOLEAN)
    BY DEF WorldInv, TypeOK
  <2> QED BY <2>1
<1>2. BackInv'
  BY DEF LeaverInv, BackInv
<1>3. GoneInv'
  BY <1>1 DEF LeaverInv, GoneInv
<1>4. LoadedInv'
  BY <1>1 DEF LeaverInv, LoadedInv
<1> QED BY <1>2, <1>3, <1>4 DEF LeaverInv

\* The same of a step that changes one client, or no client.
LEMMA LeaverClient ==
  ASSUME WorldInv, LeaverInv, NEW c \in Clients, NEW r \in ClientState,
         clients' = [clients EXCEPT ![c] = r], r.entity = clients[c].entity,
         r.sock = "open" => clients[c].sock = "open" \/ clients[c].entity = NoEntity,
         ents' = ents, deletes' = deletes
  PROVE  LeaverInv'
<1>1. \A d \in Clients : clients'[d] = IF d = c THEN r ELSE clients[d]
  BY DEF WorldInv, TypeOK
<1>2. \A d \in Clients : /\ clients'[d].entity = clients[d].entity
                         /\ clients'[d].sock = "open" =>
                              clients[d].sock = "open" \/ clients[d].entity = NoEntity
  BY <1>1
<1> QED BY <1>2, LeaverFrame

\* The same of a step after which c is not open, and may have lost its entity.
LEMMA LeaverDrop ==
  ASSUME WorldInv, LeaverInv, NEW c \in Clients, NEW r \in ClientState,
         clients' = [clients EXCEPT ![c] = r], r.entity \in {clients[c].entity, NoEntity},
         r.sock # "open", deletes' = deletes,
         \A e \in Entities : /\ ents'[e].st = ents[e].st /\ ents'[e].threw = ents[e].threw
                             /\ ents[e].client # c => ents'[e].client = ents[e].client
  PROVE  LeaverInv'
<1>1. \A d \in Clients : clients'[d] = IF d = c THEN r ELSE clients[d]
  BY DEF WorldInv, TypeOK
<1>2. \A i \in 1 .. Len(deletes) : deletes[i][1] \in Entities
  <2>1. deletes \in Seq(Entities \X BOOLEAN)
    BY DEF WorldInv, TypeOK
  <2> QED BY <2>1
<1>3. BackInv'
  <2> SUFFICES ASSUME NEW d \in Clients, NEW e \in Entities, clients'[d].entity = e
               PROVE  /\ ents'[e].st # "none"
                      /\ clients'[d].sock = "open" => ents'[e].client = d \/ ents'[e].threw = "join"
                      /\ \A f \in Clients : clients'[f].entity = e => f = d
    BY DEF BackInv
  <2>1. \A f \in Clients : clients'[f].entity = e => clients[f].entity = e
    BY <1>1
  <2>2. /\ ents[e].st # "none"
        /\ clients[d].sock = "open" => ents[e].client = d \/ ents[e].threw = "join"
        /\ \A f \in Clients : clients[f].entity = e => f = d
    BY <2>1 DEF LeaverInv, BackInv
  <2>3. clients'[d].sock = "open" => d # c /\ clients[d].sock = "open"
    BY <1>1
  <2> QED BY <2>1, <2>2, <2>3
<1>4. GoneInv'
  BY <1>1, <1>2 DEF LeaverInv, GoneInv
<1>5. LoadedInv'
  BY <1>2 DEF LeaverInv, LoadedInv
<1> QED BY <1>3, <1>4, <1>5 DEF LeaverInv

LEMMA LeaverClientSteps ==
  ASSUME WorldInv, SwitchInv, LeaverInv, NEW c \in Clients,
         \/ OnAccepted(c)
         \/ \E n \in Chars : JoinServerReply(c, n)
         \/ loadCharacterFails(c)
         \/ \E t \in Sent : HandlePacket(c, t)
         \/ dispatch(c)
         \/ ReadAborted(c)
         \/ OnDisconnected(c)
         \/ HandlerDies(c)
  PROVE  LeaverInv'
<1>0. clients \in [Clients -> ClientState] /\ clients[c] \in ClientState
  BY DEF WorldInv, TypeOK
<1>1. ents' = ents /\ deletes' = deletes
  BY DEF OnAccepted, JoinServerReply, loadCharacterFails, HandlePacket, dispatch, ReadAborted,
         OnDisconnected, HandlerDies
<1>a. /\ NoConnection \in ClientState /\ NoConnection.entity = NoEntity
      /\ NoConnection.sock = "none"
  BY DEF NoConnection, ClientState, EntityOrNone
<1>2. CASE OnAccepted(c)
  <2> DEFINE r == [NoConnection EXCEPT !.sock = "open"]
  <2>1. r \in ClientState /\ r.entity = NoEntity
    BY DEF NoConnection, ClientState, EntityOrNone
  <2>2. clients' = [clients EXCEPT ![c] = r]
    BY <1>2 DEF OnAccepted
  <2>3. clients[c].entity = NoEntity
    BY <1>2 DEF OnAccepted, SwitchInv, ConnInv, Conn
  <2> HIDE DEF r
  <2> QED BY <1>1, <2>1, <2>2, <2>3, LeaverClient
<1>3. ASSUME NEW n \in Chars, JoinServerReply(c, n) PROVE LeaverInv'
  <2> DEFINE r == [clients[c] EXCEPT !.state = "LOGGEDIN", !.doing = "join", !.char = n]
  <2>1. r \in ClientState /\ r.entity = clients[c].entity /\ r.sock = clients[c].sock
    BY <1>0 DEF ClientState
  <2>2. clients' = [clients EXCEPT ![c] = r]
    BY <1>3 DEF JoinServerReply
  <2> HIDE DEF r
  <2> QED BY <1>1, <2>1, <2>2, LeaverClient
<1>4. CASE loadCharacterFails(c) \/ dispatch(c)
  <2> DEFINE r == [clients[c] EXCEPT !.doing = "no"]
  <2>1. r \in ClientState /\ r.entity = clients[c].entity /\ r.sock = clients[c].sock
    BY <1>0 DEF ClientState
  <2>2. clients' = [clients EXCEPT ![c] = After(c, r)]
    BY <1>4 DEF loadCharacterFails, dispatch
  <2> HIDE DEF r
  <2>3. CASE After(c, r) = r
    BY <1>1, <2>1, <2>2, <2>3, LeaverClient
  <2>4. CASE After(c, r) = NoConnection
    BY <1>1, <1>a, <2>2, <2>4, LeaverDrop
  <2> QED BY <2>1, <2>3, <2>4, AfterType
<1>5. ASSUME NEW t \in Sent, HandlePacket(c, t) PROVE LeaverInv'
  <2> DEFINE r == [clients[c] EXCEPT !.doing = t]
  <2>1. t \in Types
    BY SentAssumption
  <2>2. r \in ClientState /\ r.entity = clients[c].entity /\ r.sock = clients[c].sock
    BY <1>0, <2>1 DEF ClientState
  <2>3. clients' = [clients EXCEPT ![c] = r]
    BY <1>5 DEF HandlePacket
  <2> HIDE DEF r
  <2> QED BY <1>1, <2>2, <2>3, LeaverClient
<1>b. CASE ReadAborted(c)
  <2> DEFINE r == [clients[c] EXCEPT !.sock = "aborted"]
  <2>1. r \in ClientState /\ r.entity = clients[c].entity /\ r.sock # "open"
    BY <1>0 DEF ClientState
  <2>2. clients' = [clients EXCEPT ![c] = r]
    BY <1>b DEF ReadAborted
  <2> HIDE DEF r
  <2> QED BY <1>1, <2>1, <2>2, LeaverClient
<1>c. CASE HandlerDies(c)
  <2>1. clients' = [clients EXCEPT ![c] = NoConnection]
    BY <1>c DEF HandlerDies
  <2> QED BY <1>1, <1>a, <2>1, LeaverDrop
<1>6. CASE OnDisconnected(c)
  <2> DEFINE going == [clients[c] EXCEPT !.leaving = SaveFlag(c)]
             gone == [clients[c] EXCEPT !.state = "DEFAULT", !.sock = NextSock(clients[c].sock)]
  <2>1. SaveFlag(c) \in {"save", "nosave"} /\ NextSock(clients[c].sock) \in {"closing", "closed"}
    BY DEF SaveFlag, NextSock
  <2>2. /\ going \in ClientState /\ going.entity = clients[c].entity
        /\ going.sock = clients[c].sock
        /\ gone \in ClientState /\ gone.entity = clients[c].entity /\ gone.sock # "open"
    BY <1>0, <2>1 DEF ClientState
  <2>3. clients' = [clients EXCEPT ![c] = going] \/ clients' = [clients EXCEPT ![c] = gone]
    BY <1>6 DEF OnDisconnected
  <2> HIDE DEF going, gone
  <2>4. CASE clients' = [clients EXCEPT ![c] = going]
    BY <1>1, <2>2, <2>4, LeaverClient
  <2>5. CASE clients' = [clients EXCEPT ![c] = gone]
    BY <1>1, <2>2, <2>5, LeaverClient
  <2> QED BY <2>3, <2>4, <2>5
<1> QED BY <1>2, <1>3, <1>4, <1>5, <1>6, <1>b, <1>c

\* The new entity is to nobody but the client that may get it.
LEMMA CreateLeaver ==
  ASSUME WorldInv, SwitchInv, LeaverInv, NEW c \in Clients, NEW e \in Entities, NEW id \in Id,
         NEW client, NEW threw, create(c, e, id, client, threw), clients[c].entity = NoEntity,
         NEW r \in ClientState, clients' = [clients EXCEPT ![c] = r],
         r.entity \in {e, NoEntity},
         r.entity = e /\ r.sock = "open" => client = c \/ threw = "join"
  PROVE  LeaverInv'
<1>0. /\ clients \in [Clients -> ClientState] /\ clients[c] \in ClientState
      /\ ents \in [Entities -> EntityState] /\ deletes \in Seq(Entities \X BOOLEAN)
  BY DEF WorldInv, TypeOK
<1>2. deletes' = deletes /\ ents[e].st = "none"
  BY DEF create
<1>3. \A d \in Clients : clients'[d] = IF d = c THEN r ELSE clients[d]
  BY <1>0
<1>4. /\ ents'[e].client = client /\ ents'[e].st = "live" /\ ents'[e].threw = threw
      /\ \A f \in Entities : f # e => ents'[f] = ents[f]
  BY <1>0 DEF create
<1>5. \A d \in Clients : clients[d].entity # e
  BY <1>2 DEF LeaverInv, BackInv
<1>6. \A i \in 1 .. Len(deletes) : deletes[i][1] \in Entities
  BY <1>0
<1>7. \A i \in 1 .. Len(deletes) : deletes[i][1] # e /\ deletes[i][1] # NoEntity
  BY <1>2, <1>6 DEF LeaverInv, LoadedInv
<1>8. BackInv'
  <2> SUFFICES ASSUME NEW d \in Clients, NEW f \in Entities, clients'[d].entity = f
               PROVE  /\ ents'[f].st # "none"
                      /\ clients'[d].sock = "open" => ents'[f].client = d \/ ents'[f].threw = "join"
                      /\ \A g \in Clients : clients'[g].entity = f => g = d
    BY DEF BackInv
  <2>1. CASE d = c
    <3>1. f = e
      BY <2>1, <1>3
    <3> QED BY <2>1, <3>1, <1>3, <1>4, <1>5
  <2>2. CASE d # c
    <3>1. clients[d].entity = f /\ f # e /\ clients'[d] = clients[d] /\ ents'[f] = ents[f]
      BY <2>2, <1>3, <1>4, <1>5
    <3>2. /\ ents[f].st # "none"
          /\ clients[d].sock = "open" => ents[f].client = d \/ ents[f].threw = "join"
          /\ \A g \in Clients : clients[g].entity = f => g = d
      BY <3>1 DEF LeaverInv, BackInv
    <3> QED BY <3>1, <3>2, <1>3
  <2> QED BY <2>1, <2>2
<1>9. GoneInv'
  <2> SUFFICES ASSUME NEW d \in Clients, clients'[d].sock = "open"
               PROVE  /\ \A f \in Entities : clients'[d].entity = f => ents'[f].st # "dead"
                      /\ \A i \in 1 .. Len(deletes) : deletes[i][1] # clients'[d].entity
    BY <1>2 DEF GoneInv
  <2>1. CASE d = c
    BY <2>1, <1>3, <1>4, <1>7
  <2>2. CASE d # c
    BY <2>2, <1>3, <1>4, <1>5 DEF LeaverInv, GoneInv
  <2> QED BY <2>1, <2>2
<1>10. LoadedInv'
  BY <1>2, <1>4, <1>6, <1>7 DEF LeaverInv, LoadedInv
<1> QED BY <1>8, <1>9, <1>10 DEF LeaverInv

LEMMA LoadLeaver ==
  ASSUME WorldInv, SwitchInv, LeaverInv, NEW c \in Clients, NEW e \in Entities, NEW id \in Id,
         loadCharacter(c, e, id)
  PROVE  LeaverInv'
<1> DEFINE r == [clients[c] EXCEPT !.entity = e, !.doing = "no"]
<1>0. clients[c] \in ClientState /\ clients[c].doing = "join"
  BY DEF WorldInv, TypeOK, loadCharacter, create
<1>1. /\ r \in ClientState /\ r.entity = e /\ r.doing = "no"
      /\ r.sock = clients[c].sock /\ r.state = clients[c].state
      /\ r.leaving = clients[c].leaving
  BY <1>0 DEF ClientState, EntityOrNone
<1>2. clients' = [clients EXCEPT ![c] = r] /\ create(c, e, id, c, "no")
  BY DEF loadCharacter
<1> HIDE DEF r
<1>3. clients[c].entity = NoEntity
  BY <1>0, <1>1, JoiningConn
<1> QED BY <1>1, <1>2, <1>3, CreateLeaver

LEMMA JoinThrowsLeaver ==
  ASSUME WorldInv, SwitchInv, LeaverInv, NEW c \in Clients, NEW e \in Entities, NEW id \in Id,
         JoinThrows(c, e, id)
  PROVE  LeaverInv'
<1> DEFINE r == [clients[c] EXCEPT !.entity = e, !.doing = "no"]
           s == After(c, r)
<1>0. clients[c] \in ClientState /\ clients[c].doing = "join"
  BY DEF WorldInv, TypeOK, JoinThrows, create
<1>1. /\ r \in ClientState /\ r.entity = e /\ r.doing = "no"
      /\ r.sock = clients[c].sock /\ r.state = clients[c].state
      /\ r.leaving = clients[c].leaving
  BY <1>0 DEF ClientState, EntityOrNone
<1>2. clients' = [clients EXCEPT ![c] = s] /\ create(c, e, id, NoClient, "join")
  BY DEF JoinThrows
<1> HIDE DEF r
<1>3. s \in ClientState /\ s.entity \in {e, NoEntity} /\ clients[c].entity = NoEntity
  BY <1>0, <1>1, JoiningConn
<1> HIDE DEF s
<1> QED BY <1>2, <1>3, CreateLeaver

LEMMA LoadThrowsLeaver ==
  ASSUME WorldInv, SwitchInv, LeaverInv, NEW c \in Clients, NEW e \in Entities, NEW id \in Id,
         loadCharacterThrows(c, e, id)
  PROVE  LeaverInv'
<1> DEFINE r == [clients[c] EXCEPT !.doing = "no"]
           s == After(c, r)
<1>0. clients[c] \in ClientState /\ clients[c].doing = "join"
  BY DEF WorldInv, TypeOK, loadCharacterThrows, create
<1>1. /\ r \in ClientState /\ r.entity = clients[c].entity /\ r.doing = "no"
      /\ r.sock = clients[c].sock /\ r.state = clients[c].state
      /\ r.leaving = clients[c].leaving
  BY <1>0 DEF ClientState
<1>2. clients' = [clients EXCEPT ![c] = s] /\ create(c, e, id, NoClient, "load")
  BY DEF loadCharacterThrows
<1> HIDE DEF r
<1>3. s \in ClientState /\ s.entity = NoEntity /\ clients[c].entity = NoEntity
  BY <1>0, <1>1, JoiningConn
<1> HIDE DEF s
<1> QED BY <1>2, <1>3, CreateLeaver

\* The client whose entity is to be deleted is closing.
LEMMA DestroyLeaver ==
  ASSUME WorldInv, SwitchInv, LeaverInv, NEW c \in Clients, destroy(c)
  PROVE  LeaverInv'
<1> DEFINE r == [clients[c] EXCEPT !.leaving = "no", !.state = "DEFAULT",
                                   !.sock = NextSock(clients[c].sock)]
           s == After(c, r)
<1>0. /\ clients \in [Clients -> ClientState] /\ clients[c] \in ClientState
      /\ ents \in [Entities -> EntityState] /\ deletes \in Seq(Entities \X BOOLEAN)
  BY DEF WorldInv, TypeOK
<1>1. NextSock(clients[c].sock) \in {"closing", "closed"}
  BY DEF NextSock
<1>2. r \in ClientState /\ r.entity = clients[c].entity /\ r.sock # "open"
  BY <1>0, <1>1 DEF ClientState
<1>3. clients' = [clients EXCEPT ![c] = s]
  BY DEF destroy
<1> HIDE DEF r
<1>a. s \in ClientState /\ s.entity \in {clients[c].entity, NoEntity} /\ s.sock # "open"
  BY <1>2, AfterType DEF NoConnection
<1> HIDE DEF s
<1>4. CASE ~(Live(clients[c].entity) /\ ents[clients[c].entity].isOnMap)
  <2>1. ents' = ents /\ deletes' = deletes
    BY <1>4 DEF destroy
  <2> QED BY <2>1, <1>3, <1>a, LeaverDrop
<1>5. CASE Live(clients[c].entity) /\ ents[clients[c].entity].isOnMap
  <2> SUFFICES ASSUME NEW e \in Entities, e = clients[c].entity, ents[e].st = "live" PROVE LeaverInv'
    BY <1>5 DEF Live
  <2> DEFINE off == [ents[e] EXCEPT !.isOnMap = FALSE]
             save == clients[c].leaving = "save"
  <2>1. /\ ents' = [ents EXCEPT ![e] = off] /\ ents[e] \in EntityState
        /\ deletes' = Append(deletes, <<e, save>>)
    BY <1>0, <1>5 DEF destroy
  <2>2. off.client = ents[e].client /\ off.st = ents[e].st /\ off.threw = ents[e].threw
    BY <2>1 DEF EntityState
  <2> HIDE DEF off, save
  <2>3. \A f \in Entities : /\ ents'[f].client = ents[f].client /\ ents'[f].st = ents[f].st
                            /\ ents'[f].threw = ents[f].threw
    BY <1>0, <2>1, <2>2
  <2>4. \A d \in Clients : clients'[d] = IF d = c THEN s ELSE clients[d]
    BY <1>0, <1>3
  <2>5. \A d \in Clients : clients[d].entity = e => d = c
    BY DEF LeaverInv, BackInv
  <2>6. BackInv'
    <3>1. \A d \in Clients, f \in Entities : clients'[d].entity = f =>
            /\ clients[d].entity = f
            /\ clients'[d].sock = "open" => clients[d].sock = "open"
      BY <1>a, <2>4
    <3> QED BY <3>1, <2>3 DEF LeaverInv, BackInv
  <2> DEFINE x == <<e, save>>
  <2>7. x[1] = e
    OBVIOUS
  <2>8. x \in Entities \X BOOLEAN
    BY DEF save
  <2>9. deletes' = Append(deletes, x)
    BY <2>1
  <2> HIDE DEF x
  <2>10. /\ Len(deletes') = Len(deletes) + 1 /\ Len(deletes) \in Nat
         /\ \A i \in 1 .. Len(deletes) : deletes'[i] = deletes[i] /\ deletes[i][1] \in Entities
         /\ deletes'[Len(deletes) + 1] = x
    BY <1>0, <2>8, <2>9
  <2>11. \A i \in 1 .. Len(deletes') : i \in 1 .. Len(deletes) \/ i = Len(deletes) + 1
    BY <2>10
  <2>12. GoneInv'
    <3> SUFFICES ASSUME NEW d \in Clients, clients'[d].sock = "open"
                 PROVE  /\ \A f \in Entities : clients'[d].entity = f => ents'[f].st # "dead"
                        /\ \A i \in 1 .. Len(deletes') : deletes'[i][1] # clients'[d].entity
      BY DEF GoneInv
    <3>1. d # c /\ clients'[d] = clients[d]
      BY <1>a, <2>4
    <3>2. clients[d].entity # e
      BY <3>1, <2>5
    <3>3. \A f \in Entities : clients'[d].entity = f => ents'[f].st # "dead"
      BY <3>1, <2>3 DEF LeaverInv, GoneInv
    <3>4. ASSUME NEW i \in 1 .. Len(deletes') PROVE deletes'[i][1] # clients'[d].entity
      <4>1. CASE i \in 1 .. Len(deletes)
        BY <4>1, <3>1, <2>10 DEF LeaverInv, GoneInv
      <4>2. CASE i = Len(deletes) + 1
        BY <4>2, <3>1, <3>2, <2>7, <2>10
      <4> QED BY <4>1, <4>2, <2>11
    <3> QED BY <3>3, <3>4
  <2>13. LoadedInv'
    <3>1. ASSUME NEW i \in 1 .. Len(deletes') PROVE ents'[deletes'[i][1]].st # "none"
      <4>1. CASE i \in 1 .. Len(deletes)
        BY <4>1, <2>3, <2>10 DEF LeaverInv, LoadedInv
      <4>2. CASE i = Len(deletes) + 1
        BY <4>2, <2>3, <2>7, <2>10
      <4> QED BY <4>1, <4>2, <2>11
    <3> QED BY <3>1 DEF LoadedInv
  <2> QED BY <2>6, <2>12, <2>13 DEF LeaverInv
<1> QED BY <1>4, <1>5

LEMMA RemoveLeaver ==
  ASSUME WorldInv, SwitchInv, LeaverInv, NEW c \in Clients, RemoveClient(c)
  PROVE  LeaverInv'
<1> DEFINE s == IF Freed(c).doing # "no" \/ Freed(c).leaving # "no"
                THEN Freed(c) ELSE NoConnection
<1>0. ents \in [Entities -> EntityState]
  BY DEF WorldInv, TypeOK
<1>1. s \in ClientState /\ s.entity \in {clients[c].entity, NoEntity} /\ s.sock # "open"
  BY FreedType DEF WorldInv, NoConnection, ClientState, EntityOrNone
<1>2. clients' = [clients EXCEPT ![c] = s] /\ deletes' = deletes
  BY DEF RemoveClient
<1> HIDE DEF s
<1>3. ASSUME NEW e \in Entities
      PROVE  /\ ents'[e].st = ents[e].st /\ ents'[e].threw = ents[e].threw
             /\ ents[e].client # c => ents'[e].client = ents[e].client
  <2>1. ents[e] \in EntityState
    BY <1>0
  <2>2. /\ [ents[e] EXCEPT !.client = NoClient].st = ents[e].st
        /\ [ents[e] EXCEPT !.client = NoClient].threw = ents[e].threw
    BY <2>1 DEF EntityState
  <2>3. ents'[e] = IF ents[e].client = c THEN [ents[e] EXCEPT !.client = NoClient] ELSE ents[e]
    BY DEF RemoveClient
  <2> QED BY <2>2, <2>3
<1> QED BY <1>1, <1>2, <1>3, LeaverDrop

LEMMA TeleportLeaver ==
  ASSUME WorldInv, LeaverInv, teleport
  PROVE  LeaverInv'
<1> SUFFICES ASSUME NEW e \in Entities, e = Packet[1],
                    NEW c \in Clients, c = ents[e].client
             PROVE  LeaverInv'
  <2>1. Packet[1] \in Entities /\ Served
    BY PacketType DEF teleport
  <2>2. ents[Packet[1]].client \in Clients
    BY <2>1 DEF Served, WorldInv, TypeOK, EntityState
  <2> QED BY <2>1, <2>2
<1> DEFINE r == [ents[e] EXCEPT !.dirty = FALSE, !.moved = TRUE]
           s == [clients[c] EXCEPT !.state = "SWITCHING"]
<1>0. clients \in [Clients -> ClientState] /\ ents \in [Entities -> EntityState]
  BY DEF WorldInv, TypeOK
<1>1. /\ ents' = [ents EXCEPT ![e] = r] /\ ents[e] \in EntityState
      /\ clients' = [clients EXCEPT ![c] = s] /\ clients[c] \in ClientState
      /\ deletes' = deletes
  BY <1>0 DEF teleport
<1>2. r.st = ents[e].st /\ r.client = ents[e].client /\ r.threw = ents[e].threw
  BY <1>1 DEF EntityState
<1>3. s.sock = clients[c].sock /\ s.entity = clients[c].entity
  BY <1>1 DEF ClientState
<1> HIDE DEF r, s
<1>4. \A f \in Entities : /\ ents'[f].client = ents[f].client /\ ents'[f].st = ents[f].st
                          /\ ents'[f].threw = ents[f].threw
  BY <1>0, <1>1, <1>2
<1>5. \A d \in Clients : clients'[d].entity = clients[d].entity /\ clients'[d].sock = clients[d].sock
  BY <1>0, <1>1, <1>3
<1> QED BY <1>1, <1>4, <1>5, LeaverFrame

LEMMA FlagLeaver ==
  ASSUME WorldInv, LeaverInv,
         \/ UpdateBegins \/ UpdateEnds \/ DispatchNobody \/ DispatchRefused
         \/ processChangeMapReq
         \/ \E id \in Id : CreateNpc(id) \/ dropItem(id)
  PROVE  LeaverInv'
<1>0. ents \in [Entities -> EntityState]
  BY DEF WorldInv, TypeOK
<1>1. clients' = clients /\ deletes' = deletes
  BY DEF UpdateBegins, UpdateEnds, DispatchNobody, DispatchRefused, processChangeMapReq,
         CreateNpc, dropItem
<1>2. CASE ents' = ents
  BY <1>1, <1>2, LeaverFrame
<1>3. CASE processChangeMapReq \/ \E id \in Id : dropItem(id)
  <2> SUFFICES ASSUME NEW e \in Entities, e = Packet[1] PROVE LeaverInv'
    BY <1>3, PacketType DEF processChangeMapReq, dropItem
  <2> DEFINE r == [ents[e] EXCEPT !.isOnMap = TRUE]
             s == [ents[e] EXCEPT !.dirty = TRUE]
  <2>1. ents' = [ents EXCEPT ![e] = r] \/ ents' = [ents EXCEPT ![e] = s]
    BY <1>3 DEF processChangeMapReq, dropItem
  <2>2. ents[e] \in EntityState
    BY <1>0
  <2>3. /\ r.client = ents[e].client /\ r.st = ents[e].st /\ r.threw = ents[e].threw
        /\ s.client = ents[e].client /\ s.st = ents[e].st /\ s.threw = ents[e].threw
    BY <2>2 DEF EntityState
  <2> HIDE DEF r, s
  <2>4. \A f \in Entities : /\ ents'[f].client = ents[f].client /\ ents'[f].st = ents[f].st
                            /\ ents'[f].threw = ents[f].threw
    BY <1>0, <2>1, <2>3
  <2> QED BY <1>1, <2>4, LeaverFrame
<1>4. ents' = ents \/ processChangeMapReq \/ \E id \in Id : dropItem(id)
  BY DEF UpdateBegins, UpdateEnds, DispatchNobody, DispatchRefused, CreateNpc
<1> QED BY <1>2, <1>3, <1>4

LEMMA DeleteLeaver ==
  ASSUME WorldInv, LeaverInv, DeleteNext
  PROVE  LeaverInv'
<1>0. deletes \in Seq(Entities \X BOOLEAN) /\ deletes # <<>> /\ deletes' = Tail(deletes)
  BY DEF WorldInv, TypeOK, DeleteNext, Deletes
<1>1. \A e \in Entities : /\ ents'[e].client = ents[e].client
                          /\ ents'[e].threw = ents[e].threw
                          /\ ents[e].st # "none" => ents'[e].st # "none"
                          /\ ents'[e].st # ents[e].st => e = Doomed
  BY DeleteEffect
<1>2. clients' = clients
  BY DEF DeleteNext
<1>3. Len(deletes) \in Nat /\ Len(deletes) # 0 /\ Len(deletes') = Len(deletes) - 1
  BY <1>0
<1>4. Doomed = deletes[1][1] /\ 1 \in 1 .. Len(deletes)
  BY <1>0, <1>3 DEF Doomed
<1>5. \A i \in 1 .. Len(deletes') : deletes'[i] = deletes[i + 1] /\ i + 1 \in 1 .. Len(deletes)
  BY <1>0, <1>3
<1>6. \A i \in 1 .. Len(deletes) : deletes[i][1] \in Entities
  BY <1>0
<1>7. BackInv'
  BY <1>1, <1>2 DEF LeaverInv, BackInv
<1>8. GoneInv'
  <2> SUFFICES ASSUME NEW c \in Clients, clients[c].sock = "open"
               PROVE  /\ \A e \in Entities : clients[c].entity = e => ents'[e].st # "dead"
                      /\ \A i \in 1 .. Len(deletes') : deletes'[i][1] # clients[c].entity
    BY <1>2 DEF GoneInv
  <2>1. /\ \A e \in Entities : clients[c].entity = e => ents[e].st # "dead"
        /\ \A i \in 1 .. Len(deletes) : deletes[i][1] # clients[c].entity
    BY DEF LeaverInv, GoneInv
  <2>2. clients[c].entity # Doomed
    BY <1>4, <2>1
  <2> QED BY <1>1, <1>5, <2>1, <2>2
<1>9. LoadedInv'
  BY <1>1, <1>5, <1>6 DEF LeaverInv, LoadedInv
<1> QED BY <1>7, <1>8, <1>9 DEF LeaverInv

LEMMA LeaverStep == WorldInv /\ SwitchInv /\ LeaverInv /\ [Next]_vars => LeaverInv'
<1> SUFFICES ASSUME WorldInv, SwitchInv, LeaverInv, [Next]_vars PROVE LeaverInv'
  OBVIOUS
<1>1. CASE UNCHANGED vars
  BY <1>1, LeaverFrame DEF vars
<1>2. CASE update
  BY <1>2, FlagLeaver, TeleportLeaver, DeleteLeaver DEF update
<1>3. ASSUME NEW c \in Clients, ClientStep(c) PROVE LeaverInv'
  BY <1>3, LeaverClientSteps, LoadLeaver, JoinThrowsLeaver, LoadThrowsLeaver,
     DestroyLeaver, RemoveLeaver DEF ClientStep
<1> QED BY <1>1, <1>2, <1>3 DEF Next

LEMMA LeaverCorrect == Spec => []LeaverInv
<1>1. Init => LeaverInv
  <2> SUFFICES ASSUME Init PROVE LeaverInv
    OBVIOUS
  <2>1. BackInv
    BY DEF Init, BackInv, NoConnection
  <2>2. GoneInv /\ LoadedInv
    BY DEF Init, GoneInv, LoadedInv, NoConnection
  <2> QED BY <2>1, <2>2 DEF LeaverInv
<1> QED BY <1>1, WorldCorrect, SwitchCorrect, LeaverStep, PTL DEF Spec

(***************************************************************************)
(* SystemManager::dispatch unregisters a handler that returns false; it    *)
(* does so only for a packet whose client is leaving or has left, or whose *)
(* join threw.                                                             *)
(***************************************************************************)
THEOREM HandlersKept == Spec => HandlerLostToLeaver
<1> DEFINE Kept == handlers' # handlers =>
                     \A c \in Clients : clients[c].entity = Packet[1] =>
                       clients[c].sock # "open" \/ ents[Packet[1]].threw = "join"
<1>1. WorldInv /\ LeaverInv /\ [Next]_vars => [Kept]_vars
  <2> SUFFICES ASSUME WorldInv, LeaverInv, Next, handlers' # handlers,
                      NEW c \in Clients, clients[c].entity = Packet[1], clients[c].sock = "open",
                      ents[Packet[1]].threw # "join"
               PROVE  FALSE
    OBVIOUS
  <2>1. DispatchRefused
    <3>1. ASSUME NEW d \in Clients PROVE ~ClientStep(d)
      BY DEF ClientStep, create, OnAccepted, JoinServerReply, loadCharacter, JoinThrows,
             loadCharacterThrows, loadCharacterFails, HandlePacket, dispatch, ReadAborted,
             OnDisconnected, destroy, RemoveClient, HandlerDies
    <3> QED BY <3>1 DEF Next, update, UpdateBegins, CreateNpc, dropItem, DispatchNobody,
               processChangeMapReq, teleport, DeleteNext, UpdateEnds
  <2>2. Packet[1] \in Entities /\ ~Served
    BY <2>1, PacketType DEF DispatchRefused
  <2>3. ents[Packet[1]].client = c /\ ents[Packet[1]].st # "none" /\ ents[Packet[1]].st # "dead"
    BY <2>2 DEF LeaverInv, BackInv, GoneInv
  <2>4. ents[Packet[1]].st \in {"none", "live", "dead"}
    BY <2>2 DEF WorldInv, TypeOK, EntityState
  <2> QED BY <2>2, <2>3, <2>4 DEF Served, Live
<1> QED BY <1>1, WorldCorrect, LeaverCorrect, PTL DEF Spec, HandlerLostToLeaver
=============================================================================
