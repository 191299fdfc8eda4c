----------------------------- MODULE Character -----------------------------
(***************************************************************************)
(* One character between the database and the map servers: it is loaded    *)
(* (EntitySystem::loadCharacter), its player moves, equips and drops what  *)
(* it owns, changes the map server or leaves, and it is saved              *)
(* (EntitySystem::saveCharacter), one SQL statement after the other and    *)
(* without a transaction, while the player may already load it again       *)
(* somewhere else and servers may crash.                                   *)
(*                                                                         *)
(* ents are the entities made of the character, one for each load; each    *)
(* lives on a map server whose update thread handles its packets in order. *)
(* An item is what it is (type, id, refinement, gems) and how many of it;  *)
(* NoItem is the id 0 of an empty slot.  The inventory table is a function *)
(* of uid, its AUTO_INCREMENT key, in whose order rows are read; nothing   *)
(* in the schema keeps two rows from having the same slot.                 *)
(***************************************************************************)
EXTENDS Integers, Sequences, SequencesExt, FiniteSets, FiniteSetsExt, Functions

CONSTANTS
    Kinds,             \* what an item can be
    Stackable,         \* the kinds of the types 10 to 13
    Broken,            \* the kinds whose script does not load
    MaxEquip,          \* MAX_EQUIP_ITEMS: slots 1 .. MaxEquip - 1 are worn
    MaxItems,          \* maxItems: the bag is MaxEquip .. MaxItems - 1
    StartRows,         \* the inventories a character may start with
    MaxPackets,        \* bound on the packets sent
    MaxQueue,          \* bound on the packets under way
    MaxLoads,          \* bound on the entities made
    MaxCrashes         \* bound on the crashes
NoItem == "none"
ASSUME CharacterAssumption ==
    /\ NoItem \notin Kinds /\ Stackable \subseteq Kinds /\ Broken \subseteq Kinds
    /\ {MaxEquip, MaxItems, MaxPackets, MaxQueue, MaxLoads, MaxCrashes} \subseteq Nat
    /\ 1 < MaxEquip /\ MaxEquip < MaxItems

Slots == 0 .. MaxItems - 1
(* A character starts with at most one row for a slot. *)
ASSUME StartAssumption ==
    \A rs \in StartRows :
      /\ DOMAIN rs \subseteq Nat /\ IsFiniteSet(DOMAIN rs)
      /\ \A i \in DOMAIN rs : rs[i] \in [slot : Slots, what : Kinds, amount : Nat]
      /\ \A i, j \in DOMAIN rs : rs[i].slot = rs[j].slot => i = j
Bag == MaxEquip .. MaxItems - 1
Empty == [what |-> NoItem, count |-> 0]
Holds(item) == item.what # NoItem

(* The columns of the characters table that each component reads, and the  *)
(* ones it writes back.                                                    *)
PositionRow == {"x", "y", "map", "reviveMap"}
PositionUpdate == {"x", "y", "map", "reviveMap"}
BasicInfoRow == {"name", "level", "exp"}
BasicInfoUpdate == {"level", "exp"}
StatsRow == {"maxHp", "maxMp", "str", "dex", "int", "con", "charm", "sense"}
StatsUpdate == {"maxHp", "maxMp", "str", "dex", "int", "con", "charm", "sense"}
AdvancedInfoRow == {"zuly", "currentHp", "currentMp"}
AdvancedInfoUpdate == {"zuly", "currentHp", "currentMp"}
CharacterGraphicsRow == {"face", "hair", "race"}
CharacterInfoRow ==
    {"job", "stone", "statPoints", "skillPoints", "penaltyExp", "factionid", "factionRank", "fame",
     "factionFame1", "factionFame2", "factionPoints1", "factionPoints2", "factionPoints3",
     "clanid", "clanContribution", "clanRank", "pkFlag", "stamina"}
CharacterInfoUpdate == CharacterInfoRow \ {"stone", "clanRank"}

Columns == PositionRow \cup BasicInfoRow \cup StatsRow \cup AdvancedInfoRow
             \cup CharacterGraphicsRow \cup CharacterInfoRow
(* Slip: saveCharacter leaves the position out. *)
Written_NoPosition == BasicInfoUpdate \cup StatsUpdate \cup AdvancedInfoUpdate \cup CharacterInfoUpdate
Written == PositionUpdate \cup BasicInfoUpdate \cup StatsUpdate \cup AdvancedInfoUpdate \cup CharacterInfoUpdate

(* The place of an entity is a pair of floats, the columns x and y hold    *)
(* whole numbers (bigint): an entity counts in quarters of what they count *)
(* and is rounded when it is saved.                                        *)
Coordinates == {"x", "y"}
Stored(attr) == [c \in Columns |-> IF c \in Coordinates THEN (attr[c] + 2) \div 4 ELSE attr[c]]
Loaded(r) == [c \in Columns |-> IF c \in Coordinates THEN 4 * r[c] ELSE r[c]]

VARIABLES
    row,        \* the character's row of the characters table
    rows,       \* its rows of the inventory table: slot, what, amount
    ents,       \* the entities, the latest last
    ground,     \* how many of each kind were dropped
    made,       \* how many of each kind there should be
    sent,       \* packets sent so far
    crashes,
    disturbed   \* what happened that may cost or copy items
vars == <<row, rows, ents, ground, made, sent, crashes, disturbed>>

(* How many of a kind the rows and the slots hold: the pieces of a stack   *)
(* are numbered, and counted.                                              *)
Pieces(count, S) == UNION {{x} \X (1 .. count[x]) : x \in S}
Amount(rs, k) ==
    Cardinality(Pieces([i \in DOMAIN rs |-> rs[i].amount], {i \in DOMAIN rs : rs[i].what = k}))
Owned(items, k) ==
    Cardinality(Pieces([s \in Slots |-> items[s].count], {s \in Slots : items[s].what = k}))

Init ==
    /\ row = [c \in Columns |-> 0]
    /\ rows \in StartRows
    /\ ents = <<>>
    /\ ground = [k \in Kinds |-> 0]
    /\ made = [k \in Kinds |-> Amount(rows, k)]
    /\ sent = 0 /\ crashes = 0 /\ disturbed = {}

-----------------------------------------------------------------------------
(* Loading.  Item::loadFromRow builds the item from its definition; when   *)
(* the script does not load, the slot keeps what it held and takes the     *)
(* amount all the same.  Of several rows for one slot (at), read in order, *)
(* the last counts.                                                        *)
loadFromRow(rs, at) ==
    LET built == {i \in at : rs[i].what \notin Broken}
    IN  [what |-> IF built = {} THEN NoItem ELSE rs[Max(built)].what,
         count |-> IF at = {} THEN 0 ELSE rs[Max(at)].amount]

loadFromResult(rs) == [s \in Slots |-> loadFromRow(rs, {i \in DOMAIN rs : rs[i].slot = s})]

(* A save: the statements that are still to run.  The vectors toDelete and *)
(* toUpdate hold slots in the order of the rows: each with its row's uid.  *)
Plan(attributes, select, toDelete, toUpdate, toInsert) ==
    [attributes |-> attributes, select |-> select,
     toDelete |-> toDelete, toUpdate |-> toUpdate, toInsert |-> toInsert]
NoPlan == Plan(FALSE, FALSE, {}, {}, {})
Save == Plan(TRUE, TRUE, {}, {}, {})

(* An entity whose save has not ended. *)
Unsaved(e) == e.state = "leaving" \/ e.plan # NoPlan
Overtaking == \E i \in DOMAIN ents : Unsaved(ents[i])

(* The row of the characters table is read first, then the inventory. *)
LoadCharacter ==
    /\ Len(ents) < MaxLoads
    /\ ents # <<>> => Last(ents).state \in {"leaving", "switching", "gone"}
    /\ ents' = Append(ents, [state |-> "loading", items |-> [s \in Slots |-> Empty], attr |-> Loaded(row),
                             onMap |-> FALSE, todo |-> <<>>, plan |-> NoPlan, touched |-> {}])
    /\ disturbed' = disturbed \cup (IF Overtaking THEN {"overtaken"} ELSE {})
    /\ UNCHANGED <<row, rows, ground, made, sent, crashes>>

LoadInventory(e) ==
    /\ ents[e].state = "loading"
    /\ ents' = [ents EXCEPT ![e] = [ents[e] EXCEPT !.state = "in", !.items = loadFromResult(rows)]]
    /\ UNCHANGED <<row, rows, ground, made, sent, crashes, disturbed>>

-----------------------------------------------------------------------------
(* The client sends a packet (dispatch) while it is logged in.  The slot   *)
(* to equip from is one of the inventory: for 140 to 255 processEquip      *)
(* reads past the end of items_, which is left out.                        *)
Packets ==
    [op : {"enter"}] \cup [op : {"move"}] \cup [op : {"tp"}, map : {0, 1}]
      \cup [op : {"equip"}, to : 0 .. MaxEquip, from : Slots]
      \cup [op : {"drop"}, slot : 0 .. MaxItems, quantity : 0..2]
      \cup [op : {"item"}, kind : Kinds]

Send(e, p) ==
    /\ ents[e].state = "in"
    /\ sent < MaxPackets /\ Len(ents[e].todo) < MaxQueue
    /\ p.op = "enter" <=> ~ents[e].onMap /\ ents[e].todo = <<>>   \* the client asks for the map first, once
    /\ sent' = IF p.op = "enter" THEN sent ELSE sent + 1
    /\ ents' = [ents EXCEPT ![e] = [ents[e] EXCEPT !.todo = Append(ents[e].todo, p)]]
    /\ UNCHANGED <<row, rows, ground, made, crashes, disturbed>>

(* The update thread handles the next packet; it is busy while it saves. *)
Handles(e, op) ==
    /\ ents[e].state \in {"in", "leaving", "switching"}
    /\ ents[e].plan = NoPlan
    /\ ents[e].todo # <<>> /\ Head(ents[e].todo).op = op

(* The entity after the packet, and the slots that it touched; a packet    *)
(* handled after the save of a change of servers is late.                  *)
Handled(e, ent) ==
    /\ LET changed == {s \in Slots : ent.items[s] # ents[e].items[s]}
       IN  ents' = [ents EXCEPT ![e] = [ent EXCEPT !.todo = Tail(ents[e].todo),
                                                   !.touched = ents[e].touched \cup changed]]
    /\ disturbed' = disturbed \cup (IF ents[e].state = "switching" THEN {"late"} ELSE {})

ProcessChangeMapReq(e) ==
    /\ Handles(e, "enter")
    /\ Handled(e, [ents[e] EXCEPT !.onMap = TRUE])
    /\ UNCHANGED <<row, rows, ground, made, sent, crashes>>

Displaced(attr) == [attr EXCEPT !["x"] = attr["x"] + 1, !["y"] = attr["y"] + 1]
Move(e) ==
    /\ Handles(e, "move")
    /\ Handled(e, [ents[e] EXCEPT !.attr = Displaced(ents[e].attr)])
    /\ UNCHANGED <<row, rows, ground, made, sent, crashes>>

(* Within the map only the place changes.  To another one, the client is   *)
(* told where to go before the character is saved.                         *)
Teleport(e) ==
    /\ Handles(e, "tp")
    /\ LET m == Head(ents[e].todo).map
           there == [Displaced(ents[e].attr) EXCEPT !["map"] = m]
       IN  Handled(e, IF ents[e].attr["map"] = m
                        THEN [ents[e] EXCEPT !.attr = there]
                        ELSE [ents[e] EXCEPT !.attr = there, !.plan = Save,
                                             !.state = IF ents[e].state = "leaving" THEN "leaving" ELSE "switching"])
    /\ UNCHANGED <<row, rows, ground, made, sent, crashes>>

(* The client of a leaving player is gone: its packets go to nobody.  (The *)
(* handler is lost with them, which EntityWorld models.)                   *)
Discard(e) ==
    /\ ents[e].state = "leaving" /\ ents[e].plan = NoPlan /\ ents[e].todo # <<>>
    /\ ents' = [ents EXCEPT ![e] = [ents[e] EXCEPT !.todo = Tail(ents[e].todo)]]
    /\ UNCHANGED <<row, rows, ground, made, sent, crashes, disturbed>>

-----------------------------------------------------------------------------
(* The inventory. *)
(* Slip: the search ends one slot early. *)
findNextEmptySlot_Short(items) ==
    LET free == {s \in Bag \ {MaxItems - 1} : ~Holds(items[s])} IN IF free = {} THEN 0 ELSE Min(free)
findNextEmptySlot(items) ==
    LET free == {s \in Bag : ~Holds(items[s])} IN IF free = {} THEN 0 ELSE Min(free)

(* Slip: the first item is copied over the second. *)
swapItems_Copies(items, a, b) ==
    LET x == IF a = 0 THEN findNextEmptySlot(items) ELSE a
        y == IF b = 0 THEN findNextEmptySlot(items) ELSE b
    IN  IF a >= MaxItems \/ b >= MaxItems \/ a = b THEN items
        ELSE [items EXCEPT ![x] = items[y]]
swapItems(items, a, b) ==
    LET x == IF a = 0 THEN findNextEmptySlot(items) ELSE a
        y == IF b = 0 THEN findNextEmptySlot(items) ELSE b
    IN  IF a >= MaxItems \/ b >= MaxItems \/ a = b THEN items
        ELSE [items EXCEPT ![x] = items[y], ![y] = items[x]]

(* may: what the scripts of the items answer to onUnequip and onEquip. *)
ProcessEquip(e, may) ==
    /\ Handles(e, "equip")
    /\ LET p == Head(ents[e].todo)
           items == ents[e].items
           allowed == /\ 1 <= p.to /\ p.to < MaxEquip
                      /\ may \/ ~(Holds(items[p.to]) \/ Holds(items[p.from]))
       IN  Handled(e, IF allowed THEN [ents[e] EXCEPT !.items = swapItems(items, p.to, p.from)]
                                 ELSE ents[e])
    /\ UNCHANGED <<row, rows, ground, made, sent, crashes>>

(* Of a stack some are dropped, or all. *)
DropItem(e) ==
    /\ Handles(e, "drop")
    /\ LET p == Head(ents[e].todo)
           item == ents[e].items[p.slot]
           count == IF item.count < p.quantity THEN item.count ELSE p.quantity
           left == IF count < item.count THEN [what |-> item.what, count |-> item.count - count] ELSE Empty
       IN  IF p.slot = 0 \/ p.slot >= MaxItems
             THEN Handled(e, ents[e]) /\ UNCHANGED ground
             ELSE /\ Handled(e, [ents[e] EXCEPT !.items = [ents[e].items EXCEPT ![p.slot] = left]])
                  /\ ground' = IF Holds(item) THEN [ground EXCEPT ![item.what] = ground[item.what] + count] ELSE ground
    /\ UNCHANGED <<row, rows, made, sent, crashes>>

(* The command /item: buildItem, then addItem. *)
AddItem(e) ==
    /\ Handles(e, "item")
    /\ LET k == Head(ents[e].todo).kind
           slot == findNextEmptySlot(ents[e].items)
       IN  IF k \in Broken \/ slot = 0
             THEN Handled(e, ents[e]) /\ UNCHANGED made
             ELSE /\ Handled(e, [ents[e] EXCEPT !.items = [ents[e].items EXCEPT ![slot] = [what |-> k, count |-> 1]]])
                  /\ made' = [made EXCEPT ![k] = made[k] + 1]
    /\ UNCHANGED <<row, rows, ground, sent, crashes>>

-----------------------------------------------------------------------------
(* OnDisconnected: an entity on the map is to be destroyed and saved; one  *)
(* that did not ask for the map yet is left as it is.                      *)
OnDisconnected(e) ==
    /\ ents[e].state = "in"
    /\ ents' = [ents EXCEPT ![e] = [ents[e] EXCEPT !.state = IF ents[e].onMap THEN "leaving" ELSE "gone"]]
    /\ disturbed' = disturbed \cup (IF ents[e].onMap THEN {} ELSE {"early"})
    /\ UNCHANGED <<row, rows, ground, made, sent, crashes>>

(* The delete command, after all its packets: save, then destroy. *)
Destroy(e) ==
    /\ ents[e].state = "leaving" /\ ents[e].todo = <<>> /\ ents[e].plan = NoPlan
    /\ ents' = [ents EXCEPT ![e] = [ents[e] EXCEPT !.state = "gone", !.plan = Save]]
    /\ UNCHANGED <<row, rows, ground, made, sent, crashes, disturbed>>

(* What saveCharacter does to the inventory table, from its rows when it   *)
(* looked: delete, then update, then insert.                               *)
differs(item, r) == item.what # r.what \/ item.count # r.amount \/ item.what \in Stackable

SlotsOf(rs, uids) == {<<i, rs[i].slot>> : i \in uids}

(* Slip: the slots without an item are inserted too. *)
SavePlan_Empties(items, rs) ==
    LET gone == {i \in DOMAIN rs : rs[i].slot >= MaxItems \/ ~Holds(items[rs[i].slot])}
        changed == {i \in DOMAIN rs \ gone : differs(items[rs[i].slot], rs[i])}
    IN  Plan(FALSE, FALSE, SlotsOf(rs, gone), SlotsOf(rs, changed),
             {s \in Slots : \A i \in DOMAIN rs : rs[i].slot # s})
(* Slip: every row is deleted first and then inserted again. *)
SavePlan_Rewrite(items, rs) ==
    Plan(FALSE, FALSE, SlotsOf(rs, DOMAIN rs), {}, {s \in Slots : Holds(items[s])})
SavePlan(items, rs) ==
    LET gone == {i \in DOMAIN rs : rs[i].slot >= MaxItems \/ ~Holds(items[rs[i].slot])}
        changed == {i \in DOMAIN rs \ gone : differs(items[rs[i].slot], rs[i])}
    IN  Plan(FALSE, FALSE, SlotsOf(rs, gone), SlotsOf(rs, changed),
             {s \in Slots : Holds(items[s]) /\ \A i \in DOMAIN rs : rs[i].slot # s})

RowOf(e, s) == [slot |-> s, what |-> ents[e].items[s].what, amount |-> ents[e].items[s].count]

(* The save goes on to what plan says; once it is done, everything the     *)
(* player touched is saved.                                                *)
Proceed(e, plan) ==
    ents' = [ents EXCEPT ![e] = [ents[e] EXCEPT !.plan = plan,
                                                !.touched = IF plan = NoPlan THEN {} ELSE ents[e].touched]]

SaveAttributes(e) ==
    /\ ents[e].plan.attributes
    /\ row' = [c \in Columns |-> IF c \in Written THEN Stored(ents[e].attr)[c] ELSE row[c]]
    /\ Proceed(e, [ents[e].plan EXCEPT !.attributes = FALSE])
    /\ UNCHANGED <<rows, ground, made, sent, crashes, disturbed>>

SaveSelect(e) ==
    /\ ~ents[e].plan.attributes /\ ents[e].plan.select
    /\ Proceed(e, SavePlan(ents[e].items, rows))
    /\ UNCHANGED <<row, rows, ground, made, sent, crashes, disturbed>>

(* The statements on the inventory table: those of toDelete, toUpdate and  *)
(* toInsert, each in its order.                                            *)
First(vector) == CHOOSE p \in vector : \A q \in vector : p[1] <= q[1]

SaveDelete(e) ==
    LET plan == ents[e].plan
        p == First(plan.toDelete)
    IN  /\ plan.toDelete # {}
        /\ rows' = Restrict(rows, {j \in DOMAIN rows : rows[j].slot # p[2]})
        /\ Proceed(e, [plan EXCEPT !.toDelete = plan.toDelete \ {p}])
        /\ UNCHANGED <<row, ground, made, sent, crashes, disturbed>>

SaveUpdate(e) ==
    LET plan == ents[e].plan
        p == First(plan.toUpdate)
    IN  /\ plan.toDelete = {} /\ plan.toUpdate # {}
        /\ rows' = [j \in DOMAIN rows |-> IF rows[j].slot = p[2] THEN RowOf(e, p[2]) ELSE rows[j]]
        /\ Proceed(e, [plan EXCEPT !.toUpdate = plan.toUpdate \ {p}])
        /\ UNCHANGED <<row, ground, made, sent, crashes, disturbed>>

SaveInsert(e) ==
    LET plan == ents[e].plan
        s == Min(plan.toInsert)
        uid == 1 + Max({0} \cup DOMAIN rows)
    IN  /\ plan.toDelete = {} /\ plan.toUpdate = {} /\ plan.toInsert # {}
        /\ rows' = [j \in DOMAIN rows \cup {uid} |-> IF j = uid THEN RowOf(e, s) ELSE rows[j]]
        /\ Proceed(e, [plan EXCEPT !.toInsert = plan.toInsert \ {s}])
        /\ UNCHANGED <<row, ground, made, sent, crashes, disturbed>>

(* The map server of an entity ends. *)
Crash(e) ==
    /\ crashes < MaxCrashes
    /\ ents[e].state # "gone" \/ ents[e].plan # NoPlan
    /\ crashes' = crashes + 1
    /\ ents' = [ents EXCEPT ![e] = [ents[e] EXCEPT !.state = "gone", !.todo = <<>>, !.plan = NoPlan]]
    /\ disturbed' = disturbed \cup {"crash"}
    /\ UNCHANGED <<row, rows, ground, made, sent>>

Next ==
    \/ LoadCharacter
    \/ \E e \in DOMAIN ents :
         \/ LoadInventory(e)
         \/ \E p \in Packets : Send(e, p)
         \/ Discard(e) \/ ProcessChangeMapReq(e) \/ Move(e) \/ Teleport(e) \/ DropItem(e) \/ AddItem(e)
         \/ \E may \in BOOLEAN : ProcessEquip(e, may)
         \/ OnDisconnected(e) \/ Destroy(e)
         \/ SaveAttributes(e) \/ SaveSelect(e)
         \/ SaveDelete(e) \/ SaveUpdate(e) \/ SaveInsert(e)
         \/ Crash(e)

Spec == Init /\ [][Next]_vars

-----------------------------------------------------------------------------
Items == [what : Kinds \cup {NoItem}, count : Nat]
Plans == [attributes : BOOLEAN, select : BOOLEAN, toDelete : SUBSET (Nat \X Slots),
          toUpdate : SUBSET (Nat \X Slots), toInsert : SUBSET Slots]
Entities == [state : {"loading", "in", "leaving", "switching", "gone"}, items : [Slots -> Items],
             attr : [Columns -> Nat], onMap : BOOLEAN, todo : Seq(Packets), plan : Plans, touched : SUBSET Slots]
TypeOK ==
    /\ row \in [Columns -> Nat]
    /\ DOMAIN rows \subseteq Nat /\ IsFiniteSet(DOMAIN rows)
    /\ \A i \in DOMAIN rows : rows[i] \in [slot : Slots, what : Kinds, amount : Nat]
    /\ ents \in Seq(Entities) /\ Len(ents) <= MaxLoads
    /\ ground \in [Kinds -> Nat] /\ made \in [Kinds -> Nat]
    /\ sent \in Nat /\ crashes \in Nat
    /\ disturbed \subseteq {"overtaken", "late", "early", "crash"}

(* Items are neither lost nor copied by equipping, dropping, saving and    *)
(* loading: of every kind whose script loads there are, on the ground and  *)
(* with the character, as many as were made; once its save has ended, also *)
(* on the ground and in the database.  What may break it is in disturbed:  *)
(* a crash, a load that overtakes the save (entitysystem.cpp:80,           *)
(* movementsystem.cpp:144), a packet handled after the save of a change of *)
(* servers, a player who leaves before asking for the map.                 *)
NothingLost ==
    (disturbed = {} /\ ents # <<>>) =>
      LET e == Last(ents)
      IN  \A k \in Kinds \ Broken :
            /\ e.state # "loading" => Owned(e.items, k) + ground[k] = made[k]
            /\ (e.state \in {"gone", "switching", "loading"} /\ e.plan = NoPlan) =>
                 Amount(rows, k) + ground[k] = made[k]

(* A player who returns finds the character as it was left: every item in  *)
(* its slot, and the same place but for the rounding, which moves it by    *)
(* half of what the columns x and y count at most.                         *)
SameOnReturn ==
    [][\A e \in 2 .. Len(ents) :
         (LoadInventory(e) /\ disturbed = {}) =>
           LET old == ents[e - 1]
               new == ents'[e]
           IN  /\ \A c \in Columns \ Coordinates : new.attr[c] = old.attr[c]
               /\ \A c \in Coordinates : new.attr[c] - old.attr[c] \in -2 .. 2
               /\ \A s \in Slots : Holds(old.items[s]) => new.items[s] = old.items[s]]_vars

(* A crash, in the middle of a save too, costs at most what the player     *)
(* touched since the character was loaded or last saved: any other item is *)
(* in the database throughout.  Only an older entity that is saved late    *)
(* can break it.                                                           *)
UntouchedSafe ==
    (ents # <<>> /\ disturbed \cap {"overtaken", "late"} = {}) =>
      LET e == Last(ents)
      IN  \A s \in Slots \ e.touched :
            Holds(e.items[s]) =>
              \E i \in DOMAIN rows : rows[i] = [slot |-> s, what |-> e.items[s].what, amount |-> e.items[s].count]

(* An item gets into slot 0, from where it can be neither dropped nor, in  *)
(* general, equipped, only when the bag is full (findNextEmptySlot answers *)
(* 0, which swapItems takes for a slot).                                   *)
HiddenOnlyWhenFull ==
    [][\A e \in DOMAIN ents :
         (ents[e].state # "loading" /\ ents'[e].items[0] # ents[e].items[0]) =>
           \A s \in Bag : Holds(ents[e].items[s])]_vars
=============================================================================
