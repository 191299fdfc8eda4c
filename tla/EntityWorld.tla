---------------------------- MODULE EntityWorld ----------------------------
(***************************************************************************)
(* The entities of one map server: EntitySystem, SystemManager, IdManager  *)
(* and the part of CMapClient that creates, feeds and destroys them.       *)
(*                                                                         *)
(* Three kinds of thread meet here.  Network threads run a client's        *)
(* handlers (JoinServerReply, HandlePacket) and may run OnDisconnected;    *)
(* the server's process thread runs OnDisconnected of a client that timed  *)
(* out and later drops the client object; the update thread holds access_  *)
(* for a whole EntitySystem::update.  A handler that takes access_ is      *)
(* split there, because what it checked before may have changed.           *)
(*                                                                         *)
(* Entity handles carry a version, so a destroyed one is never valid       *)
(* again: Entities are used once.  A client slot is reused.                *)
(*                                                                         *)
(* Nothing but client_list_ keeps a client alive.  A handler that still    *)
(* runs for a client that was freed goes on or dies: both are modelled.    *)
(***************************************************************************)
EXTENDS Integers, Sequences, FiniteSets

CONSTANTS
  Clients,    \* CMapClient objects
  Chars,      \* characters, by name
  Entities,   \* bound: entity handles
  NoEntity,   \* the invalid Entity
  NoClient,   \* an expired SocketConnector
  NoChar,     \* no character
  IdSpace,    \* number of uint16_t values
  MaxNpcs,    \* NPCs the start-up script creates
  Sent,       \* packet types the clients send
  MaxThrows,  \* bound: entities an exception leaves half-made
  MaxQueue    \* bound: length of toDispatch_ when a packet is accepted

ASSUME IdSpaceAssumption == IdSpace \in Nat \ {0}
ASSUME BoundsAssumption == MaxNpcs \in Nat /\ MaxQueue \in Nat /\ MaxThrows \in Nat
ASSUME NoneAssumption ==
  NoEntity \notin Entities /\ NoClient \notin Clients /\ NoChar \notin Chars

Types == {"CHANGE_MAP_REQ", "DROP_ITEM", "NORMAL_CHAT"}
ASSUME SentAssumption == Sent \subseteq Types

VARIABLES
  ents,          \* entities and their components
  clients,       \* CMapClient objects
  nameToEntity,
  idToEntity,
  free_ids,      \* IdManager::_free_ids
  max_id,        \* IdManager::_max_id
  taken,         \* ids of NPCs and dropped items, never released
  toDispatch,    \* queue of <<entity, packet type>>
  deletes,       \* delete_commands_: queue of <<entity, save>>
  npcs,          \* create_commands_ left from the start-up script
  handlers,      \* packet types that still have a handler in dispatch_
  updating,      \* the update thread holds access_
  wrapped,       \* history: _max_id went through zero
  overlap,       \* history: characters loaded while an entity of theirs lived
  skipped        \* history: entities whose client left without destroying them

vars == <<ents, clients, nameToEntity, idToEntity, free_ids, max_id, taken, toDispatch,
          deletes, npcs, handlers, updating, wrapped, overlap, skipped>>

Id == 0 .. IdSpace - 1
EntityOrNone == Entities \cup {NoEntity}

(***************************************************************************)
(* An entity: dirty means that it differs from the database, moved that    *)
(* teleport saved it for another map server, threw where an exception of   *)
(* the database ended its load or its join.                                *)
(***************************************************************************)
EntityState == [st : {"none", "live", "dead"}, char : Chars \cup {NoChar}, id : Id,
                isOnMap : BOOLEAN, client : Clients \cup {NoClient},
                dirty : BOOLEAN, moved : BOOLEAN, threw : {"no", "load", "join"}]
Unborn == [st |-> "none", char |-> NoChar, id |-> 0, isOnMap |-> FALSE,
           client |-> NoClient, dirty |-> FALSE, moved |-> FALSE, threw |-> "no"]

(***************************************************************************)
(* A client: doing is the handler in progress ("join" or the packet type), *)
(* leaving the save argument of an OnDisconnected in progress.  The socket *)
(* is "aborted" after shutdown(true), which does not call OnDisconnected,  *)
(* and "freed" when the object is gone and a handler is still running.     *)
(***************************************************************************)
ClientState == [sock : {"none", "open", "aborted", "closing", "closed", "freed"},
                state : {"DEFAULT", "LOGGEDIN", "SWITCHING"},
                entity : EntityOrNone, char : Chars \cup {NoChar},
                doing : {"no", "join"} \cup Types,
                leaving : {"no", "save", "nosave"}]
NoConnection == [sock |-> "none", state |-> "DEFAULT", entity |-> NoEntity,
                 char |-> NoChar, doing |-> "no", leaving |-> "no"]

Init ==
  /\ ents = [e \in Entities |-> Unborn]
  /\ clients = [c \in Clients |-> NoConnection]
  /\ nameToEntity = [n \in Chars |-> NoEntity]
  /\ idToEntity = [i \in Id |-> NoEntity]
  /\ free_ids = {} /\ max_id = 0 /\ taken = {}
  /\ toDispatch = <<>> /\ deletes = <<>> /\ npcs = MaxNpcs
  /\ handlers = Types
  /\ updating = FALSE
  /\ wrapped = FALSE /\ overlap = {} /\ skipped = {}

Live(e) == e \in Entities /\ ents[e].st = "live"

\* Slip: a released id stays in the free set when it is handed out.
TakeIdKept(id) ==
  /\ IF free_ids # {} THEN id \in free_ids ELSE id = max_id
  /\ max_id' = IF free_ids = {} THEN (max_id + 1) % IdSpace ELSE max_id
  /\ UNCHANGED <<free_ids, wrapped>>

\* Slip: the counter does not wrap.
TakeIdUnbounded(id) ==
  /\ IF free_ids # {} THEN id \in free_ids ELSE id = max_id
  /\ max_id' = IF free_ids = {} THEN max_id + 1 ELSE max_id
  /\ free_ids' = free_ids \ {id}
  /\ UNCHANGED wrapped

\* IdManager::get_free_id
TakeId(id) ==
  \/ /\ free_ids # {}
     /\ id \in free_ids
     /\ free_ids' = free_ids \ {id}
     /\ UNCHANGED <<max_id, wrapped>>
  \/ /\ free_ids = {}
     /\ id = max_id
     /\ max_id' = (max_id + 1) % IdSpace
     /\ wrapped' = (wrapped \/ max_id + 1 = IdSpace)
     /\ UNCHANGED free_ids

-----------------------------------------------------------------------------
(* Network threads *)

OnAccepted(c) ==
  /\ clients[c].sock = "none"
  /\ clients' = [clients EXCEPT ![c] = [NoConnection EXCEPT !.sock = "open"]]
  /\ UNCHANGED <<ents, nameToEntity, idToEntity, free_ids, max_id, taken, toDispatch,
                 deletes, npcs, handlers, updating, wrapped, overlap, skipped>>

\* JoinServerReply up to loadCharacter's SELECT: the state changes first.
JoinServerReply(c, n) ==
  /\ clients[c].sock = "open"
  /\ clients[c].state = "DEFAULT"
  /\ clients[c].doing = "no"
  /\ clients' = [clients EXCEPT ![c] =
       [clients[c] EXCEPT !.state = "LOGGEDIN", !.doing = "join", !.char = n]]
  /\ overlap' = overlap \cup {m \in Chars : m = n /\ \E e \in Entities : Live(e) /\ ents[e].char = n}
  /\ UNCHANGED <<ents, nameToEntity, idToEntity, free_ids, max_id, taken, toDispatch,
                 deletes, npcs, handlers, updating, wrapped, skipped>>

\* Slip: the entity is registered under its name only.
registerEntityName(e, n, id) ==
  /\ nameToEntity' = [nameToEntity EXCEPT ![n] = e]
  /\ UNCHANGED idToEntity

\* registerEntity refuses an entity whose id is 0.
registerEntity(e, n, id) ==
  /\ nameToEntity' = IF id = 0 THEN nameToEntity ELSE [nameToEntity EXCEPT ![n] = e]
  /\ idToEntity' = IF id = 0 THEN idToEntity ELSE [idToEntity EXCEPT ![id] = e]

\* A handler of c ends and leaves r; nothing is left of a freed client.
After(c, r) == IF clients[c].sock = "freed" THEN NoConnection ELSE r

\* An entity for the character of c, with the next id.
create(c, e, id, client, threw) ==
  /\ clients[c].doing = "join"
  /\ ~updating
  /\ ents[e].st = "none"
  /\ threw # "no" => Cardinality({f \in Entities : ents[f].threw # "no"}) < MaxThrows
  /\ TakeId(id)
  /\ ents' = [ents EXCEPT ![e] =
       [st |-> "live", char |-> clients[c].char, id |-> id, isOnMap |-> FALSE,
        client |-> client, dirty |-> FALSE, moved |-> FALSE, threw |-> threw]]
  /\ overlap' = overlap \cup {m \in Chars : m = clients[c].char /\
                                \E f \in Entities : Live(f) /\ ents[f].char = m}
  /\ UNCHANGED <<taken, toDispatch, deletes, npcs, handlers, updating>>

(***************************************************************************)
(* loadCharacter, under access_, and what JoinServerReply does with its    *)
(* result.  The client may have left meanwhile.                            *)
(***************************************************************************)
loadCharacter(c, e, id) ==
  /\ clients[c].sock # "freed"
  /\ create(c, e, id, c, "no")
  /\ registerEntity(e, clients[c].char, id)
  /\ clients' = [clients EXCEPT ![c] = [clients[c] EXCEPT !.entity = e, !.doing = "no"]]
  /\ skipped' = skipped \cup (IF clients[c].sock = "open" THEN {} ELSE {e})

(***************************************************************************)
(* The UPDATE of the session that follows throws, or the client was freed  *)
(* and shared_from_this does: the entity has no SocketConnector.           *)
(***************************************************************************)
JoinThrows(c, e, id) ==
  /\ create(c, e, id, NoClient, "join")
  /\ registerEntity(e, clients[c].char, id)
  /\ clients' = [clients EXCEPT ![c] =
       After(c, [clients[c] EXCEPT !.entity = e, !.doing = "no"])]
  /\ UNCHANGED skipped

(***************************************************************************)
(* A SELECT of skills, items or wishes throws: the entity has its id, is   *)
(* not registered and nobody knows it.                                     *)
(***************************************************************************)
loadCharacterThrows(c, e, id) ==
  /\ create(c, e, id, NoClient, "load")
  /\ clients' = [clients EXCEPT ![c] = After(c, [clients[c] EXCEPT !.doing = "no"])]
  /\ UNCHANGED <<nameToEntity, idToEntity, skipped>>

\* No such character, or the first SELECT throws: the client stays LOGGEDIN.
loadCharacterFails(c) ==
  /\ clients[c].doing = "join"
  /\ ~updating
  /\ clients' = [clients EXCEPT ![c] = After(c, [clients[c] EXCEPT !.doing = "no"])]
  /\ UNCHANGED <<ents, nameToEntity, idToEntity, free_ids, max_id, taken, toDispatch,
                 deletes, npcs, handlers, updating, wrapped, overlap, skipped>>

\* HandlePacket and the part of dispatch before access_ is taken.
HandlePacket(c, t) ==
  /\ clients[c].sock = "open"
  /\ clients[c].state = "LOGGEDIN"
  /\ clients[c].doing = "no"
  /\ Live(clients[c].entity)
  /\ t \in handlers
  /\ Len(toDispatch) < MaxQueue
  /\ clients' = [clients EXCEPT ![c] = [clients[c] EXCEPT !.doing = t]]
  /\ UNCHANGED <<ents, nameToEntity, idToEntity, free_ids, max_id, taken, toDispatch,
                 deletes, npcs, handlers, updating, wrapped, overlap, skipped>>

dispatch(c) ==
  /\ clients[c].doing \in Types
  /\ ~updating
  /\ toDispatch' = Append(toDispatch, <<clients[c].entity, clients[c].doing>>)
  /\ clients' = [clients EXCEPT ![c] = After(c, [clients[c] EXCEPT !.doing = "no"])]
  /\ UNCHANGED <<ents, nameToEntity, idToEntity, free_ids, max_id, taken,
                 deletes, npcs, handlers, updating, wrapped, overlap, skipped>>

-----------------------------------------------------------------------------
(* Leaving *)

NextSock(sock) == IF sock = "open" THEN "closing" ELSE "closed"

(***************************************************************************)
(* The read fails with an error of the default branch: shutdown(true)      *)
(* clears active_ without OnDisconnected, which recv_data calls next.      *)
(***************************************************************************)
ReadAborted(c) ==
  /\ clients[c].sock = "open"
  /\ clients[c].doing = "no"
  /\ clients' = [clients EXCEPT ![c] = [clients[c] EXCEPT !.sock = "aborted"]]
  /\ UNCHANGED <<ents, nameToEntity, idToEntity, free_ids, max_id, taken, toDispatch,
                 deletes, npcs, handlers, updating, wrapped, overlap, skipped>>

\* Slip: the test for SWITCHING is inverted.
SaveFlagInverted(c) == IF clients[c].state = "SWITCHING" THEN "save" ELSE "nosave"

SaveFlag(c) == IF clients[c].state = "SWITCHING" THEN "nosave" ELSE "save"

(***************************************************************************)
(* OnDisconnected, from shutdown() of the network or the process thread    *)
(* and once more from the read handler, until EntitySystem::destroy takes  *)
(* access_.  It ends here for a client that never joined and for one whose *)
(* entity is not there yet or not any more.                                *)
(***************************************************************************)
OnDisconnected(c) ==
  LET e == clients[c].entity
  IN /\ clients[c].sock \in {"open", "aborted", "closing"}
     /\ clients[c].leaving = "no"
     /\ clients' = [clients EXCEPT ![c] =
          IF clients[c].state # "DEFAULT" /\ Live(e)
          THEN [clients[c] EXCEPT !.leaving = SaveFlag(c)]
          ELSE [clients[c] EXCEPT !.state = "DEFAULT", !.sock = NextSock(clients[c].sock)]]
     /\ UNCHANGED <<ents, nameToEntity, idToEntity, free_ids, max_id, taken, toDispatch,
                    deletes, npcs, handlers, updating, wrapped, overlap, skipped>>

\* Slip: a client that switches servers keeps its entity here.
destroyUnlessSwitching(c) ==
  LET e == clients[c].entity
  IN /\ clients[c].leaving # "no"
     /\ ~updating
     /\ \/ /\ clients[c].leaving = "save"
           /\ ents' = [ents EXCEPT ![e] = [ents[e] EXCEPT !.isOnMap = FALSE]]
           /\ deletes' = Append(deletes, <<e, TRUE>>)
        \/ /\ clients[c].leaving = "nosave"
           /\ UNCHANGED <<ents, deletes>>
     /\ clients' = [clients EXCEPT ![c] =
          After(c, [clients[c] EXCEPT !.leaving = "no", !.state = "DEFAULT",
                                      !.sock = NextSock(clients[c].sock)])]
     /\ UNCHANGED <<nameToEntity, idToEntity, free_ids, max_id, taken, toDispatch,
                    npcs, handlers, updating, wrapped, overlap, skipped>>

(***************************************************************************)
(* EntitySystem::destroy under access_ and the rest of OnDisconnected.  An *)
(* entity that is not on the map is left alone.                            *)
(***************************************************************************)
destroy(c) ==
  LET e == clients[c].entity
  IN /\ clients[c].leaving # "no"
     /\ ~updating
     /\ \/ /\ Live(e) /\ ents[e].isOnMap
           /\ ents' = [ents EXCEPT ![e] = [ents[e] EXCEPT !.isOnMap = FALSE]]
           /\ deletes' = Append(deletes, <<e, clients[c].leaving = "save">>)
           /\ UNCHANGED skipped
        \/ /\ ~(Live(e) /\ ents[e].isOnMap)
           /\ skipped' = skipped \cup {f \in Entities : f = e /\ Live(f)}
           /\ UNCHANGED <<ents, deletes>>
     /\ clients' = [clients EXCEPT ![c] =
          After(c, [clients[c] EXCEPT !.leaving = "no", !.state = "DEFAULT",
                                      !.sock = NextSock(clients[c].sock)])]
     /\ UNCHANGED <<nameToEntity, idToEntity, free_ids, max_id, taken, toDispatch,
                    npcs, handlers, updating, wrapped, overlap>>

\* recv_data is about to call OnDisconnected, and that will destroy.
Untold(c) ==
  /\ clients[c].sock = "aborted"
  /\ clients[c].leaving = "no"
  /\ clients[c].state # "DEFAULT"
  /\ Live(clients[c].entity)

Freed(c) ==
  [clients[c] EXCEPT !.sock = "freed", !.leaving = IF Untold(c) THEN SaveFlag(c) ELSE @]

(***************************************************************************)
(* The process thread drops an inactive client from client_list_, which    *)
(* frees it, and the SocketConnector of its entity expires.  It asks for   *)
(* nothing else, so handlers may be left with a freed object.              *)
(***************************************************************************)
RemoveClient(c) ==
  /\ clients[c].sock \in {"aborted", "closing", "closed"}
  /\ clients' = [clients EXCEPT ![c] =
       IF Freed(c).doing # "no" \/ Freed(c).leaving # "no" THEN Freed(c) ELSE NoConnection]
  /\ ents' = [e \in Entities |->
                IF ents[e].client = c THEN [ents[e] EXCEPT !.client = NoClient] ELSE ents[e]]
  /\ UNCHANGED <<nameToEntity, idToEntity, free_ids, max_id, taken, toDispatch,
                 deletes, npcs, handlers, updating, wrapped, overlap, skipped>>

\* A handler dies of the freed object; its thread is lost, the server goes on.
HandlerDies(c) ==
  /\ clients[c].sock = "freed"
  /\ clients' = [clients EXCEPT ![c] = NoConnection]
  /\ skipped' = skipped \cup {f \in Entities : f = clients[c].entity /\ Live(f)}
  /\ UNCHANGED <<ents, nameToEntity, idToEntity, free_ids, max_id, taken, toDispatch,
                 deletes, npcs, handlers, updating, wrapped, overlap>>

-----------------------------------------------------------------------------
(* The update thread *)

UpdateBegins ==
  /\ ~updating
  /\ npcs > 0 \/ toDispatch # <<>> \/ deletes # <<>>
  /\ updating' = TRUE
  /\ UNCHANGED <<ents, clients, nameToEntity, idToEntity, free_ids, max_id, taken,
                 toDispatch, deletes, npcs, handlers, wrapped, overlap, skipped>>

\* A command of create_npc or create_warpgate; neither is registered.
CreateNpc(id) ==
  /\ updating
  /\ npcs > 0
  /\ TakeId(id)
  /\ taken' = taken \cup {id}
  /\ npcs' = npcs - 1
  /\ UNCHANGED <<ents, clients, nameToEntity, idToEntity, toDispatch, deletes,
                 handlers, updating, overlap, skipped>>

\* The packet at the head of toDispatch_, and whether its handler can run.
Packet == Head(toDispatch)

\* Slip: only characters on the map are served.
ServedOnMap == Live(Packet[1]) /\ ents[Packet[1]].isOnMap

Served == Live(Packet[1]) /\ ents[Packet[1]].client # NoClient

DispatchNext == updating /\ npcs = 0 /\ toDispatch # <<>> /\ toDispatch' = Tail(toDispatch)

\* SystemManager::dispatch with no handler left for the packet.
DispatchNobody ==
  /\ DispatchNext
  /\ Packet[2] \notin handlers
  /\ UNCHANGED <<ents, clients, nameToEntity, idToEntity, free_ids, max_id, taken,
                 deletes, npcs, handlers, updating, wrapped, overlap, skipped>>

(***************************************************************************)
(* The handler cannot serve the packet, because the entity or the client   *)
(* is gone: it returns false and is unregistered, for everybody.           *)
(***************************************************************************)
DispatchRefused ==
  /\ DispatchNext
  /\ Packet[2] \in handlers
  /\ ~Served
  /\ handlers' = handlers \ {Packet[2]}
  /\ UNCHANGED <<ents, clients, nameToEntity, idToEntity, free_ids, max_id, taken,
                 deletes, npcs, updating, wrapped, overlap, skipped>>

processChangeMapReq ==
  /\ DispatchNext
  /\ Packet[2] \in handlers
  /\ Packet[2] = "CHANGE_MAP_REQ"
  /\ Served
  /\ ents' = [ents EXCEPT ![Packet[1]] = [ents[Packet[1]] EXCEPT !.isOnMap = TRUE]]
  /\ UNCHANGED <<clients, nameToEntity, idToEntity, free_ids, max_id, taken,
                 deletes, npcs, handlers, updating, wrapped, overlap, skipped>>

\* dropItem: the character changes, and the item on the ground gets an id.
dropItem(id) ==
  /\ DispatchNext
  /\ Packet[2] \in handlers
  /\ Packet[2] = "DROP_ITEM"
  /\ Served
  /\ ents' = [ents EXCEPT ![Packet[1]] = [ents[Packet[1]] EXCEPT !.dirty = TRUE]]
  /\ TakeId(id)
  /\ taken' = taken \cup {id}
  /\ UNCHANGED <<clients, nameToEntity, idToEntity, deletes, npcs, handlers,
                 updating, overlap, skipped>>

(***************************************************************************)
(* A chat message that is the command /tp to another map: the client       *)
(* becomes SWITCHING and the character is saved for the next map server.   *)
(***************************************************************************)
teleport ==
  LET c == ents[Packet[1]].client
  IN /\ DispatchNext
     /\ Packet[2] \in handlers
     /\ Packet[2] = "NORMAL_CHAT"
     /\ Served
     /\ clients' = [clients EXCEPT ![c] = [clients[c] EXCEPT !.state = "SWITCHING"]]
     /\ ents' = [ents EXCEPT ![Packet[1]] =
                   [ents[Packet[1]] EXCEPT !.dirty = FALSE, !.moved = TRUE]]
     /\ UNCHANGED <<nameToEntity, idToEntity, free_ids, max_id, taken,
                    deletes, npcs, handlers, updating, wrapped, overlap, skipped>>

\* The command at the head of delete_commands_, and its entity.
Deletes == updating /\ npcs = 0 /\ toDispatch = <<>> /\ deletes # <<>>
Doomed == Head(deletes)[1]

Unregister(e) ==
  /\ nameToEntity' = [nameToEntity EXCEPT ![ents[e].char] = NoEntity]
  /\ idToEntity' = [idToEntity EXCEPT ![ents[e].id] = NoEntity]

\* A delete command: the character is saved, unregistered and destroyed.
DeleteNext ==
  /\ Deletes
  /\ deletes' = Tail(deletes)
  /\ IF Live(Doomed)
     THEN /\ ents' = [ents EXCEPT ![Doomed] = [ents[Doomed] EXCEPT !.st = "dead",
                         !.dirty = (ents[Doomed].dirty /\ ~Head(deletes)[2])]]
          /\ Unregister(Doomed)
          /\ free_ids' = free_ids \cup {ents[Doomed].id}
     ELSE UNCHANGED <<ents, nameToEntity, idToEntity, free_ids>>
  /\ UNCHANGED <<clients, max_id, taken, toDispatch, npcs, handlers, updating,
                 wrapped, overlap, skipped>>

UpdateEnds ==
  /\ updating
  /\ npcs = 0 /\ toDispatch = <<>> /\ deletes = <<>>
  /\ updating' = FALSE
  /\ UNCHANGED <<ents, clients, nameToEntity, idToEntity, free_ids, max_id, taken,
                 toDispatch, deletes, npcs, handlers, wrapped, overlap, skipped>>

-----------------------------------------------------------------------------
ClientStep(c) ==
  \/ OnAccepted(c)
  \/ \E n \in Chars : JoinServerReply(c, n)
  \/ \E e \in Entities, id \in Id :
       loadCharacter(c, e, id) \/ JoinThrows(c, e, id) \/ loadCharacterThrows(c, e, id)
  \/ loadCharacterFails(c)
  \/ \E t \in Sent : HandlePacket(c, t)
  \/ dispatch(c)
  \/ ReadAborted(c)
  \/ OnDisconnected(c)
  \/ destroy(c)
  \/ RemoveClient(c)
  \/ HandlerDies(c)

update ==
  \/ UpdateBegins
  \/ \E id \in Id : CreateNpc(id) \/ dropItem(id)
  \/ DispatchNobody \/ DispatchRefused
  \/ processChangeMapReq \/ teleport
  \/ DeleteNext
  \/ UpdateEnds

Next == update \/ \E c \in Clients : ClientStep(c)

(***************************************************************************)
(* Fairness: the update thread runs every 100 ms and sleeps without        *)
(* access_, so a thread that waits for it in destroy or dispatch gets it.  *)
(* recv_data calls OnDisconnected right after shutdown(true).  Nothing     *)
(* obliges a client to join, send or leave.                                *)
(***************************************************************************)
Fairness ==
  /\ WF_vars(update)
  /\ \A c \in Clients : /\ SF_vars(destroy(c)) /\ SF_vars(dispatch(c))
                        /\ WF_vars(clients[c].sock = "aborted" /\ OnDisconnected(c))

Spec == Init /\ [][Next]_vars
FairSpec == Spec /\ Fairness

-----------------------------------------------------------------------------
(* Properties *)

\* Entities, clients, indexes and queues hold values of their types.
TypeOK ==
  /\ ents \in [Entities -> EntityState]
  /\ clients \in [Clients -> ClientState]
  /\ nameToEntity \in [Chars -> EntityOrNone]
  /\ idToEntity \in [Id -> EntityOrNone]
  /\ free_ids \subseteq Id
  /\ max_id \in Id
  /\ taken \subseteq Id
  /\ toDispatch \in Seq(Entities \X Types)
  /\ deletes \in Seq(Entities \X BOOLEAN)
  /\ npcs \in 0 .. MaxNpcs
  /\ handlers \subseteq Types
  /\ updating \in BOOLEAN
  /\ wrapped \in BOOLEAN
  /\ overlap \subseteq Chars
  /\ skipped \subseteq Entities

(***************************************************************************)
(* Until the 16-bit counter wraps, an id belongs to one thing on the map:  *)
(* two characters, or a character and an NPC or item, never share one, and *)
(* the free set holds no id that is in use.  Joining, dropping items and   *)
(* leaving run on different threads; a double release or a release of a    *)
(* live id would break it.                                                 *)
(***************************************************************************)
UniqueIds ==
  \/ wrapped
  \/ /\ \A e, f \in Entities : Live(e) /\ Live(f) /\ ents[e].id = ents[f].id => e = f
     /\ \A e \in Entities : Live(e) => ents[e].id \notin free_ids \cup taken
     /\ free_ids \cap taken = {}

(* Looking a character up never yields a destroyed entity. *)
IndexesLive ==
  /\ \A n \in Chars : nameToEntity[n] # NoEntity =>
       Live(nameToEntity[n]) /\ ents[nameToEntity[n]].char = n
  /\ wrapped \/ \A i \in Id : idToEntity[i] # NoEntity =>
                  Live(idToEntity[i]) /\ ents[idToEntity[i]].id = i

(* Every character with a non-zero id whose load came to its end is found. *)
IndexesComplete ==
  \A e \in Entities : Live(e) /\ ents[e].id # 0 /\ ents[e].threw # "load" =>
    /\ wrapped \/ idToEntity[ents[e].id] = e
    /\ ents[e].char \in overlap \/ nameToEntity[ents[e].char] = e

(***************************************************************************)
(* The two indexes are right, whatever the order in which clients of the   *)
(* same character come and go: they point at live entities and at all of   *)
(* them, by id until the counter wraps, and by name unless the character   *)
(* was ever loaded twice at once (then the delete command of the older     *)
(* entity erases the name of the newer one, entitysystem.cpp:91).  Only an *)
(* entity whose load an exception cut short is in none, and stays so.      *)
(***************************************************************************)
IndexesExact == IndexesLive /\ IndexesComplete

(***************************************************************************)
(* A character is not destroyed with unsaved changes, unless it made them  *)
(* after teleport saved it for another map server: the packets queued      *)
(* behind the one that switched it still run, and OnDisconnected does not  *)
(* save a SWITCHING client.                                                *)
(***************************************************************************)
SavedOnLeave ==
  [][\A e \in Entities : Live(e) /\ ents'[e].st = "dead" =>
        ~ents'[e].dirty \/ ents[e].moved]_vars

(***************************************************************************)
(* A handler is lost only to a packet whose own client went away while the *)
(* packet was queued, or whose join threw before its entity got a          *)
(* SocketConnector; never to any other client that is still here.          *)
(***************************************************************************)
HandlerLostToLeaver ==
  [][handlers' # handlers =>
        \A c \in Clients : clients[c].entity = Packet[1] =>
          clients[c].sock # "open" \/ ents[Packet[1]].threw = "join"]_vars

\* The client of e is gone or going.
Deserted(e) ==
  LET c == ents[e].client
  IN c # NoClient => clients[c].sock # "open" \/ clients[c].leaving # "no"

(***************************************************************************)
(* A character that is on the map and whose client is gone leaves the map, *)
(* unless destroy passed it over: because it had not entered the map when  *)
(* its client left, or was loaded after that, or because the thread that   *)
(* was to call it died of a client freed under it.                         *)
(***************************************************************************)
LeaverRemoved ==
  \A e \in Entities :
    (Live(e) /\ ents[e].isOnMap /\ Deserted(e)) ~> (~Live(e) \/ e \in skipped)
=============================================================================
