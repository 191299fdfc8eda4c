# osIROSE-new in TLA+

osIROSE-new is a server for the game ROSE Online: a login server, a character
server and map servers that share a MySQL database, talk to the game client and
to each other over TCP, and keep the game's world in an entity-component system.
This directory models the parts of it where processes, threads, callbacks and
messages meet, checks them with TLC on small instances and proves the most
important results with TLAPS for every instance.

Paths below are relative to the repository; `map/src/cmapclient.cpp` stands for
`src/src/map/src/cmapclient.cpp`, and so on.

## 1. Inventory

| Component | State | Operations | Correct when |
|---|---|---|---|
| Login server (`login/`) | per connection: login state, user, session id; the list of char servers | UserLogin, ChannelList, ServerSelect, OnDisconnected; main loop: deleteStaleSessions | nobody plays an account twice, and an account nobody plays can log in again |
| Char server (`char/`) | per connection: state, user, session, character list | JoinServerReply, AliveReply, character list/create/delete/select, OnDisconnected | a client is who the login server said |
| Map server clients (`map/src/cmapclient.cpp`) | per connection: state, user, session, entity | JoinServerReply, AliveReply, LogoutReply, HandlePacket, switch_server, OnDisconnected | as above; a leaving client's character is saved and removed |
| Database (`Database/osirose.sql`) | `accounts.online`, `sessions`, characters, items | SQL statements of the above | the two tables agree |
| Network layer (`core/src/cnetwork_asio.cpp`) | send and discard queue, their mutexes, active flag, receive buffer | send_data, ProcessSend and its completion handler, recv_data, shutdown, dispatch thread | packets leave once, in order, from memory that is alive |
| Receiving and framing (`core/src/cnetwork_asio.cpp`, `rosecommon/src/crosesocket.cpp`, `croseisc.cpp`) | receive buffer, bytes expected, receive queue, active flag | recv_data, OnReceived (client, server, inter-server), dispatch, shutdown | every byte ends up in exactly one packet; a packet is handled or the owner is told |
| Server base (`rosecommon/src/croseserver.cpp`) | client lists and mutexes, process thread | OnAccepted, time-outs, removal, SendPacket | idle clients go; no thread waits forever |
| Inter-server registry (`*isc.cpp`) | registered servers, channel lists, both ends of each link | ServerRegister, ServerShutdown, OnConnected, OnShutdown with its reconnect, time-outs | the login server's list is that of the servers that are up |
| Entity system (`map/src/entitysystem.cpp`, `id_manager.cpp`, `systemmanager.h`) | entities, two indexes, free ids, packet queue, create/delete commands, handler table | loadCharacter, registerEntity, dispatch, destroy, update, saveCharacter | ids are unique, indexes right, nothing is leaked or lost |
| Parties (`map/src/systems/partysystem.cpp`, `rosecommon/include/partybase.h`) | Party components, member lists, leaders | make, join, leave, kick, change owner, accept, reject, removal callback, update | components and member lists agree, a party has a leader |
| Inventory (`map/src/systems/inventorysystem.cpp`, `rosecommon/include/item.h`) | items by slot, their rows in the database | equip, drop, add, swap; load and save | items are neither lost nor copied |
| Movement, chat, GM commands, Lua (`map/src/systems`, `map/src/gm_commands.cpp`) | positions and the grid | move, stop, teleport; commands | a teleported character arrives as it left |
| Packet classes (`rosecommon/include/packets`, `rosecommon/src/packets`, `crosepacket.h`) | cursor in a buffer | pack, the constructors from a buffer | reader and writer agree, for every receiver |
| Packet encryption (`rosecommon/src/crosecrypt.cpp`) | key table | encode and decode of headers and bodies, checksum | one undoes the other, damage is noticed |
| Pools, node proxy, bot, configuration, logging | | | |

How they interact. The servers never call each other for a client: a player moves
from one to the next by reconnecting, and the only thing handed over is the row
in `sessions`. Inside a server, client handlers run on network threads; a
*process thread* times idle clients out and removes inactive ones from the list;
on a map server an *update thread* holds `access_` for a whole
`EntitySystem::update`, in which queued packets, systems and delete commands run.
`shutdown()` of a socket calls `OnDisconnected` on whatever thread called it and clears
`active_` only afterwards, so another thread may call it meanwhile; `recv_data`'s handler
may call it again. After an error it does not name, that handler calls `shutdown(true)`,
which calls nothing, and then `OnDisconnected`.

What is hard to test, and therefore what the properties are about (the list with
lines is `hazards` in `PROJECT.json`): check-then-act on the database without a
transaction; `OnDisconnected` from several threads at once; a handler that is still
running when its connection is timed out or freed; ids reused and wrapping; ProcessSend
acting on what it read under another mutex; wake-ups that depend on the completion
handler; component-removal callbacks that run inside themselves; handlers
unregistered because a packet outlived its client; a lock order that differs
between threads; a packet cut into pieces, damaged, or packed again for each
receiver; servers that crash, vanish and return while they register with each
other; a character loaded while another server is still saving it, or saved halfway
when the server dies.

## 2. Modules

| Module | Models |
|---|---|
| `Session` | online bit and sessions, through the login, char and map server |
| `SendQueue`, `FifoChannel` | the sending half of `CNetwork_Asio`, and the channel it implements |
| `PacketCrypt`, `LinkCodec`, `Receive` | the encryption, what each kind of connection does with it, and the receiving half of a connection from bytes to `HandlePacket` |
| `PacketCodec`, `PacketLayouts`, `PacketExchange` | the packet buffer, the fields of every packet class, and a packet from its sender to its receivers |
| `IscRegistry` | how the login server comes to know the other servers |
| `EntityWorld` | entities, ids, indexes, dispatch and destruction on a map server |
| `Character` | one character between the database and the map servers: loading, inventory, changing servers, saving |
| `Party` | parties |
| `ServerLocks` | the threads of a map server and the mutexes of its client list and its entities |
| `SessionProofs`, `SendingProofs`, `ServerLocksProofs`, `PartyProofs`, `EntityWorldProofs`, `IscRegistryProofs`, `CharacterProofs`, `ReceiveProofs` | theorems |
| `MC*` | symmetry sets, packets and inventories for TLC |

How the modules divide the system. `Session` has the servers' clients and the two
tables that hand a player from one server to the next; `EntityWorld` what a client
does inside a map server, with a character's data reduced to saved or not;
`Character` that data, with the statements of load and save. A change of map servers
is therefore an action in three modules, each with the part it changes. `Receive`
and `SendQueue` are the two halves of one `CNetwork_Asio`; `PacketExchange` is what
travels between them. `IscRegistry` has its links lose what is written to a dead
connection, which is what the two halves allow.

Operators whose comment starts with "Slip:" are plausible mistakes. No
specification uses them; each takes the place of the definition after it to show
that a property notices (`mutants` in `PROJECT.json`).

### Session

*State.* `online` and `sessions` are the database; a row records its user and
whether five minutes have passed since its `time` (`stale`). `login`, `char` and
`map` are the connection objects of the three servers: socket, login state, user
id, session id. A slot is reused for the next connection. `clock` is
`time(nullptr)`, which is where session ids come from. `pending` is what `UserLogin`
carries from its SELECTs to its UPDATE, `stmt` the SQL statement at which each call of
`OnDisconnected` stands; `sweep` tells whether `deleteStaleSessions` is between its two
statements. `issued` and `lost` are history.

*Actions.* One per handler, and one per statement where a handler uses the database more
than once: `UserLogin`, `deleteStaleSessions`, and `OnDisconnected` of the login and the
char server, whose statements each may throw. A socket is `open`, `dropped` (after
`shutdown(true)`), `closing` or `closed`; until the process thread takes it off the list,
what had arrived is still handled and each thread of `Calls` (the read handler, a write
handler, the process thread) may be inside a call of `OnDisconnected`, several at the same
time. Each server may crash and restart at any time, between two statements too. `connid`
in a map connection is the number of the connection, because `CMapClient` passes `get_id()`
where it means the account in `updateSession` and `OnDisconnected`; that number
may be any account's id or nobody's.

*Left out.* Passwords (a client that names a session knows its user's password),
replies, character lists, the throttle of `updateSession` (an alive packet either
refreshes or is like no packet).

*Properties.* `NoOrphanOnline`: an account that is marked online has an owner that
will clear the bit: an open login connection, a call of `OnDisconnected` that is about to,
or a session row. There are exactly six windows in which the code loses that owner, and
each records the account in `lost`: `UserLogin` completing on a connection that has already
been closed; two users sharing a session id because they logged in within the same second;
a row turning stale between the sweep's two statements; a crash of the login server, or of
the char server between its DELETE and its UPDATE; a statement of `OnDisconnected` that
throws; and a connection removed between `shutdown(true)` and `OnDisconnected`. Both tests
of `UserLogin` passed by two connections at once are not among them: the bit and the row
that result have their owners.
`EvictedByOwnerOnly`: a fresh session goes only through a char connection of its
own user. `JoinedAsIssued`: the pair (session, user) a client is admitted with was
issued by `UserLogin`. `AbandonedAccountFreed` (liveness): an account nobody is
connected as can log in again. `LeavingClearsOwnBit` does not hold: see section 4.

### SendQueue

*State.* The two queues, the writes in progress (`flying`), `active_`, where each
thread is in its code, ProcessSend's local `discard_empty`, and what has been
handed to the socket (`wire`, history). The threads are the senders and one
completion handler per packet.

*Actions.* `send_data`, the two halves of `ProcessSend` (`CheckDiscard` under
`discard_mutex_`, `Transmit` under `send_mutex_`), the end of a write (success,
reset or another error), `FreeBuffer` and `shutdown`. Because the halves take
different mutexes, several threads can pass the test and overlapping writes do
happen in the model. `InOrder` says whether the socket completes overlapping
writes in order; asio promises nothing of the kind, so only what needs it assumes
it.

*Properties.* `DiscardCoversWrites`: the completion handler never pops an empty
queue. `BuffersAlive` (for `InOrder`): no buffer is freed under its write.
`ImplementsFifo`: `FifoChannel`'s specification, with `queue <- send_queue`: no
packet is lost, duplicated or overtaken before the socket. `EveryPacketLeaves`
(liveness): no lost wake-up. `shutdown` leaves both queues as they are (against the
comment in `core/include/inetwork.h:84`); the properties hold all the same.

### PacketCrypt, LinkCodec and Receive

*State.* The bytes on the wire, the packet being read (`buffer_`, `packet_size_`;
`packet_offset_` is the length of `buffer_`), whether an `async_read` is under way,
`recv_queue_`, `active_`; how the connection ends: who is in `shutdown()` past
`OnDisconnected` (`closing`), whether the read handler is between `shutdown(true)` and
`OnDisconnected` (`untold`), whether anybody called it (`told`), whether the process thread
took the connection off its list (`removed`). `link` says
which of the callbacks reads: a server reading a game client, the bot or the node
reading a server, or servers among themselves. `sent`, `damaged` and `handled` are
history.

*Actions.* The peer sends a packet, encoded as `OnSend` does, perhaps with one wrong
bit; the connection breaks after any byte; `OnReceivedHeader` and `OnReceivedBody`
are the completion of a read with `OnReceived` and what follows it; `Dispatch` is
the posted lambda that calls `HandlePacket`; `ReadError` and `ReadAborted` are the two
ways a read fails, through `shutdown()` or through `shutdown(true)` and an `OnDisconnected`
that follows; `Timeout` by the process thread between any two of them. `ShutdownEnds`
clears `active_` after `OnDisconnected`, and until then reading goes on, so the owner may be
told more than twice; `RemoveClient` frees an inactive connection whatever its handler does.

*PacketCrypt* is `CRoseCrypt` on sequences of bytes: the bit fields of the header
masked with a table, the checksum over the body, the body masked with the table from
an offset the header carries. The table is a parameter; the run uses one of its own,
with all residues. *LinkCodec* says what the callbacks of the three kinds of links do
with it: `OnSend` when a packet is written, `Header` and `Body` when one is read.

`Receive` takes these three as parameters (`Encoded`, `HeaderOf`, `BodyOf`) and
`CodecAssumption` says what it needs of them: the header gives back the length of the
packet or a length below a header's, decoding what was encoded gives the packet, and
a packet with one wrong bit is refused. `Receive.cfg` binds the parameters to
`LinkCodec`, so the run uses the real cipher, and TLC evaluates the assumption for
every packet, position and bit of the run. Between servers it holds for packets below
256 bytes: `croseisc.cpp:42` looks at the low byte of the size.

*Properties.* `FramesIntact`: the packets found are those the peer wrote, byte for
byte, in order, also in front of a damaged one. `DamageStops`: a packet with a wrong byte is never handled, nor
anything after it. `HandledOrTold` (liveness): a packet is handled or the owner of
the connection is told that it ended, unless the connection was freed while its read
handler was about to tell.

### PacketCodec, PacketLayouts, PacketExchange

`PacketCodec` is the buffer of `CRosePacket`: fixed-width values that are dropped
when they no longer fit, strings with a terminator or of fixed width, arrays. A value
is a sequence of tagged bytes, so that a value read from the wrong place differs from
the one written. `PacketLayouts` lists, for each class, the fields `pack` writes and
those the constructor reads, in the order of the code, and its number and direction.
`PacketExchange` makes a packet, packs it for one connection after the other and lets
each receiver build a packet from its copy.

`operator<<` and `operator>>` over a layout are recursive functions, which the prover
can work with; `WriteAll` goes through a layout in parts of 50 fields, because TLC
limits the depth of a recursion, and stops at a full buffer. `LayoutsAgree` says what
the classes owe to the buffer and to their readers: every packet fits (lists have at
most 255 elements, as their size travels in one byte), no two classes
of one direction that are read share a number, and the fields the constructor reads are
those `pack` writes, in the same order and types. It speaks of the tables alone, and
TLC evaluates it for all classes (`LayoutsAssumption`) in the run `packets_roundtrip`.

*Properties.* `RoundTrip`: every receiver reads the class and the values that were
put in, although `send` packs the same object again for each connection and so
appends to its buffer. `FirstIsWhole`: no class overflows the buffer. Both hold with
the exceptions they name: the two classes with a password of fixed length, and the
`SrvLoginReply` of an accepted login, whose reader may find more servers behind the end
than there are (it stops at a zero byte, and the writer adds none). That of a refused login
is read exactly: the reader returns after three fields, and
`login/src/cloginclient.cpp:52` lists no servers then. The comment in
`crosepacket.h:47` promises that a `std::string` is always terminated; one that
met the end of the buffer would lose its tail and its terminator, which
`FirstIsWhole` excludes for the payload of the first connection.

### IscRegistry

*State.* The processes that run; every connection made, as a record of both ends
(the server's entry in its `isc_list_` with id, type, the set of its channels' ids,
whose order only the display shows, and whether its read `failed`; the client's end)
and the messages under way; of each client the connection it uses, whether it is
active, whether it is being read, and whether it is a renewed one; whether the char
server's link to the login server is in its own list; `server_count_`; and `stuck`:
the char server's process thread waits for the list mutex it holds.

*Actions.* Starting a process with its `connect` and `OnConnected`; crashes, silent
ones (the machine vanishes) included; the handlers of both servers, one action each,
`OnShutdown` with the reconnect it tries once; the process threads' sweeps and
time-outs. `ReadError` and `ClientReadError` are the default branch of `recv_data` at either
end: `shutdown(true)` calls no `OnShutdown`, so nobody reconnects, and a char server that
loses a map server this way tells the login server nothing.

*Properties.* `NoGhostChannel`: the login server offers no channel whose map server
is gone, unless the message that removes it is under way, or the read of its link failed
in the default branch: that channel stays. `ChannelsMatch`
(liveness): finally every map server with a live link is a channel, provided that the
char server's link to the login server is its first one (a renewed link starts with
an empty list) and its process thread is not stuck. `CharListed` (liveness): a char
server whose link is alive, renewed or not, is offered.

### EntityWorld

*State.* Entities (used once: entityx handles carry a version), clients, the two
indexes, the id manager, the packet queue, the delete commands, and `handlers`,
the packet types that still have an entry in `dispatch_`. An entity's data is
abstracted to `dirty`: it differs from the database. `updating` is true while the
update thread holds `access_`. A client's socket is open, `aborted` (after `shutdown(true)`),
closing, closed, or `freed`, when only a handler still runs on its memory. `threw` marks an
entity whose load or join an exception cut short. `wrapped`, `overlap` and `skipped` are
history.

*Actions.* Network threads: `OnAccepted`, `JoinServerReply` up to `loadCharacter`
and `loadCharacter` under `access_`; `HandlePacket` and `dispatch`, split at the
lock. `loadCharacterThrows` and `JoinThrows` are the database exceptions after
`get_free_id`: a live entity remains, with its id and without its index entries, or
without its client. Leaving: `ReadAborted`, `OnDisconnected` and `destroy`, the last two split
at the lock; `RemoveClient` by the process thread, for any inactive client, even one whose
`OnDisconnected` has yet to start: nothing keeps it alive, and its entity's weak_ptr expires.
A handler of a freed client goes on or dies (`HandlerDies`). Update thread: start-up commands, the packets with their
handlers, the delete commands. The three packet types stand for the three effects
a handler has on this state: putting the entity on the map, changing the
character (and taking an id), and switching to another server.

*Properties.* `UniqueIds`, `IndexesExact`: ids and indexes,
until the 16-bit counter wraps, and for characters that were never loaded twice at
a time; an entity whose load threw is in no index and stays so. `HandlerLostToLeaver`: a
handler is unregistered only because of a packet whose client is gone, or whose join threw
before the entity had a client. `SavedOnLeave`: changes are saved before the entity goes,
except changes made after a teleport saved it. `LeaverRemoved` (liveness): the
entity of a client that is gone is removed, except where `skipped` records that
`destroy` found it not on the map yet, that the client left while it was being
loaded, or that the handler died of its freed client.

*Left out.* The second index entry of warp gates and NPCs, which are created at start-up
and only destroyed by `/load_npc`; a database exception in `OnDisconnected`, which
`Session` and `ServerLocks` have.

### Character

*State.* The character's row; its inventory rows, a function of their uid (nothing in
the schema keeps two rows from having one slot); `ents`, the entities made of the
character, one for each load, with items by slot, the attributes, the packets not
handled yet and, while it is being saved, the plan: the statements still to run. What
lies on the ground and what was ever made, by kind. History: `touched`, the slots of
an entity that changed since it was loaded or last completely saved, and `disturbed`,
the things after which items may be lost or copied, which are exactly `overtaken` (a
load that starts before the save of the previous entity ended), `late` (a packet
handled after the save of a change of servers), `early` (a client that leaves before
it asked for the map, so that nobody saves it) and `crash`.

*Actions.* Loading in two reads; the packets that change the character, on the update
thread in order (moving, teleport, equip, drop, `/item`); leaving; the save, one step
for each SQL statement: the attributes, the SELECT that compares slots with rows
(`SavePlan`), then each DELETE, UPDATE and INSERT of the vectors `toDelete`,
`toUpdate` and `toInsert`; a crash between any two statements. An item is its kind
and its count; one kind is stackable (and is written at every save), one has a script
that does not load. A position is a float and its columns are integers: `attr` counts the
coordinates in quarters of a column's unit, `Stored` rounds them to a unit when they are
saved and `Loaded` gives the rounded place back.

*Properties.* `NothingLost`: of every kind there are, on the ground and with the
character, and after the save in the database, as many as were made.
`SameOnReturn`: a player who returns finds every item in its slot, and the same
place but for at most half a unit, and everything else as it was. `UntouchedSafe`: whatever statement a crash hits, an item that was not touched
is in the database; only an older entity that is saved late (`overtaken`, `late`) can
break it. `HiddenOnlyWhenFull`: an item gets into slot 0, where the player
cannot reach it, only when the bag is full.

*Left out.* Slots a client has no business to name: `processEquip` cuts the slot
to equip from to a byte and reads `items_` behind its end for 140 to 255. Skills, wishes and the hotbar, which are loaded and never saved; money
(a column like others); what equipping does to the stats.

### Party

*State.* Who is on the map, whose client object exists, each character's Party
component, and member list and leader of each `PartyBase`.

*Actions.* One per branch of `processPartyReq` and `processPartyReply`, with the
removal callback (and the callback it triggers for the last member) as part of the
action that removes a component; `update`; entering, losing the client, being
destroyed. All of them run on the update thread, so each is one step.

*Properties.* `MembersLinked`: components and member lists agree, and nobody who
left the map is a member. `LedByMember`: a party has two members or more and one of
them leads it. `OwnConsent`: no packet but the leader's own hands the leadership on, no step
takes it from a leader who stays, and nobody gets into a party who neither answers nor has
a request open. `Seniority`: the order of members is kept.

### ServerLocks

*State.* The holder of `client_list_mutex_` and of `access_`, where each thread is
and which client it works on, the clients the process thread has yet to visit, and
of each client: on the list, `active_`, silent for two minutes, joined (LOGGEDIN), its
entity (on the map, dying until the next delete commands, none), a read pending, and what
`discard_queue_` holds (nothing, a write under way, or one whose handler was lost).

*Actions.* The process thread's loop, which locks the list, drops inactive clients
(`RemoveInactive`, and `FreeClient` for the destructor that waits until `discard_queue_` is
empty), shuts silent ones down (`Visit`, and `ProcessDestroy` where `OnDisconnected` waits
for `access_`), unlocks and sleeps. The update thread: `update` under `access_`,
from which a handler or a delete command may answer one client (`getClient` keeps it alive
until `DropClient`), call `SendPacket` (waiting for the
list mutex) or `/load_npc` (waiting for `access_`, which it holds). Network
threads: accepting, the read handler with its four ends, and the write handler,
which may run beside it and waits for `access_` in `OnDisconnected` before it pops its
packet. A client lives while it is listed, `getClient` returned it or `JoinServerReply` has
its `shared_from_this`; its entity has a weak_ptr only. The thread that gives up the last
one destroys it, under whatever it holds. A handler of a freed client goes on or dies, and an
exception of the database ends a network thread (`LeaveThrows`). A critical section that takes
no second mutex is one step.

*Properties.* `ThreeDeadlocks`: a set of threads that wait for one another always
contains the process thread timing a client out while the update thread sends to
everybody, or the update thread inside `/load_npc`, or a thread that destroys a client whose
write nobody outside the set can end (the process thread holds the list mutex then, and the
write handler may wait for `access_` of an update that waits for the list); nothing that
accepting, reading or disconnecting does can close a cycle of its own. `RemovedAfterLeaving`:
the process thread takes a client whose entity is on the map off its list only between
`shutdown(true)` and the `OnDisconnected` that follows it. `PacketDispatched` and
`TimedOutGoes` (liveness): outside these deadlocks (`Stuck`) packets reach the queue and
silent clients go, unless the process thread ended because the server was not active 50 ms
after it was constructed (`StartsLate`).

*Left out.* The destructor of the server; the list of servers, which is in
`IscRegistry`; the part of `JoinServerReply` before LOGGEDIN is one step
with the reading of the packet; an exception on the process or the update thread, which
ends the program.

## 3. Runs

All passing runs finish within about two and a half minutes; between them every
action and disjunct fires.

| Run | Instance | Checks |
|---|---|---|
| `session_race` | 2 users, 1 login, 1 char, 1 map connection, 1 call at a time, 1 second | TypeOK, NoOrphanOnline, JoinedAsIssued, EvictedByOwnerOnly |
| `session_live` | 1 user, 1 login, 1 char connection, 2 calls at a time, 2 seconds | AbandonedAccountFreed |
| `session_leave` | 2 users, 1 login, 1 map connection | LeavingClearsOwnBit: violated |
| `send` | 2 senders with 2 packets, writes end in order | TypeOK, BuffersAlive, DiscardCoversWrites, ImplementsFifo, EveryPacketLeaves |
| `receive` | the three kinds of links, 2 packets out of 4 (3 between servers), one wrong bit | FramesIntact, DamageStops, HandledOrTold |
| `packets_roundtrip` | every packet class, 3 receivers, strings of 0, 24 and 32, lists of 0, 1 and 5 | RoundTrip, FirstIsWhole |
| `registry` | login, char, 2 map servers, 4 connections, 2 faults | TypeOK, NoGhostChannel, ChannelsMatch, CharListed |
| `entity_index` | 2 clients of one character, 2 entities, 3 ids, 1 NPC, 1 exception | TypeOK, UniqueIds, IndexesExact, HandlerLostToLeaver |
| `entity_leave` | 1 client, 1 entity, all packet types, a queue of 3, 1 exception | SavedOnLeave, LeaverRemoved |
| `character` | 3 kinds, 1 worn slot, a bag of 2, 3 inventories, 2 packets, 2 loads, 1 crash | TypeOK, NothingLost, UntouchedSafe, SameOnReturn, HiddenOnlyWhenFull |
| `locks_safe` | 2 network threads, 1 client slot, slow start | TypeOK, ThreeDeadlocks, RemovedAfterLeaving, PacketDispatched, TimedOutGoes |
| `party_safe` | 4 characters, 2 parties | TypeOK, MembersLinked, LedByMember, OwnConsent, Seniority |

Why these bounds. Another account's session, or one session id for two accounts, needs
two users in one second (`session_race`, in which each of the six windows of `lost`
happens); overlapping calls of `OnDisconnected` need two threads, and an id issued after
another has gone a second second (`session_live`); everything else repeats, since slots are
reused without bound. Two login connections that want one account at the same time are beyond
what these runs can hold beside that: for them `NoOrphanOnline` is proved. Two senders with two packets make two
overlapping writes with a third packet waiting. In `entity_index` an id is
released and reused, the counter wraps (3 ids, 2 entities and an NPC), two
clients load one character, and an exception leaves an entity half made. In `entity_leave`
a queue of three lets other packets wait behind the one that switches servers, and the
character is on the map, changed and saved before it leaves. Four
characters are the fewest with two parties, or with a party that survives the
loss of its leader and of another member. Two packets are the fewest with which a
reset of the receive buffer can be wrong, and the packets include one that is a
header only, one shorter than a header and one `HandlePacket` refuses; the wrong bit
is in the checksum or the body, every position of the longest packet. Three receivers
pack a packet three times, which fills the buffer for the largest classes; 24 and 32
are the longest name of the database and the password's length. Four connections let
a map server return and the char server reconnect; two crashes, that one of them hits
the server that just came back. Two loads are a save and the load that may overtake
it; two packets, that an item moves and then something else happens; the three
inventories are a bag that is half full, full, or holds an item whose script is
broken. In `locks_safe` two network threads run
both handlers of one client at once, or one of them and an accept; the safety properties are
proved for any number.

*Bounds in the specifications*: `MaxClock`, `MaxSend`, `Entities`, `MaxQueue`,
`MaxPackets`, `MaxSends`, `MaxConns`, `MaxFaults` (crashes and
failed reads), `MaxCrashes` (of `Character`), `MaxThrows`, `MaxLoads`. The specifications with
such a bound on packets, connections, entity handles or loads run out of them, so their
runs do not check deadlock, and neither does that of `ServerLocks`, in which the
deadlocks of the code are states; `Session` and `Party` do.

*Fairness.* `Session`: time passes, so that a session nobody refreshes turns stale, and the
login server's main loop keeps sweeping (strong fairness for its second statement:
the server does not crash between the two each time). `SendQueue`: a thread in
`send_data` or in a handler goes on, and the socket ends every write, with or
without an error, which asio guarantees. `EntityWorld`: the update thread runs
every 100 ms and sleeps without `access_`, so a thread that waits for the lock
gets it; and `recv_data` calls `OnDisconnected` right after `shutdown(true)`. `ServerLocks`: every thread goes on, and one that waits for a mutex gets it
if it is free again and again (strong fairness; both long-time holders sleep for 50
or 100 ms without it), and a write on a socket that was closed ends. `Receive`: an I/O thread runs a callback that stays ready (weak
fairness, with the enabling condition written out as `Ready`, since TLC would decrypt
the stream again for every ENABLED); neither a peer that speaks nor a time-out is
assumed. `IscRegistry`: network threads handle what arrived or ended, process threads
sweep and the char server's notices its own dead link; nobody has to start a process,
and no ping has to notice that a map server's link is dead. `Character` states no
fairness: its properties are safety. Clients are never assumed to do anything.

## 4. Findings

* `session_leave`. `CMapClient::OnDisconnected` (`map/src/cmapclient.cpp:114`)
  clears `online` of the account whose id equals `get_id()`, the number of the
  connection. The comment on `switch_server` in
  `map/src/systems/movementsystem.cpp:143` takes for granted that a client that
  leaves without switching loses its own bit. The account stays online until the
  login server's sweep finds its session stale.

The exceptions that the properties name (`lost` in `Session`, `skipped` and `overlap`
and `threw` in `EntityWorld`, the three deadlocks of `ServerLocks`, `removed` in `Receive`,
`failed`, `stuck` and `renewed` in `IscRegistry`, `disturbed` in `Character`) are weaknesses of the code as well, but
nothing in the repository claims their absence.

## 5. Theorems

Proved by TLAPS for all values of the constants that satisfy the named
assumptions.

`SessionProofs` (from `ClockAssumption`: `MaxClock` is a positive number;
`NoUserAssumption`: `NoUser` is no account):

* `TypeCorrect == Spec => []TypeOK`. Types are inductive by themselves.
* `OnlineHasOwner == Spec => []NoOrphanOnline`. Not inductive alone: a
  `UserLoginUpdate` for u overwrites the connection's user, so if that connection
  could own another account, that one would become an orphan. `OrphanInv` adds
  that `UserLogin` is only in progress on a connection in state DEFAULT, which
  owns nothing; that a char connection gets its user and its state together, so that one
  with a user does reach its statements; and that no call of `OnDisconnected` is in a slot
  that is free.
* `AdmittedAsIssued == Spec => []JoinedAsIssued`. A client takes its user from a
  row and a row from a login connection; `IssuedInv` adds that rows and logged-in
  login connections hold issued pairs.
* `OwnerEvicts == Spec => EvictedByOwnerOnly`, an action property. `StmtInv` says that
  a call of a char connection's `OnDisconnected` stands between its statements only while the
  socket closes; no other step removes a row that is not stale (`RowStays`).

`SendingProofs` follows a packet out of a server: its bytes, then the queue. The first
part is about `PacketExchange` (from `MaxPacketSizeAssumption`: a number above the length
of a header; `LayoutsAssumption`: `LayoutsAgree`). Nothing else is assumed of the
strings, the lists, the number of connections, or what lies behind the bytes a receiver
copied. That `LayoutsAgree` holds for the real classes is the evaluation named above.

* `PacketRoundTrip == ExchangeSpec => []RoundTrip` and
  `PacketFirstIsWhole == ExchangeSpec => []FirstIsWhole`, from `ExchangeInv`: once the
  packet was packed, the payload is laid out field by field behind the header, in the buffer and in every copy,
  and the first copy ends right behind it. This is inductive because packing again only
  appends (`Begins`: what was in the buffer stays where it was), so that a reader of a
  later copy does not see the appended part. The walks over a layout are compared
  step by step: field k starts where the widths of those before it end, an offset
  that is stated as the cardinality of the set of their bytes; the writer is there
  because the packet fits, and so no value was dropped; the reader is there because it
  took the same fields. A string ends at its own terminator, as no other byte of it is
  zero. The list classes are read by a layout that depends on the size read from the
  packet; the reader of an accepted `SrvLoginReply` makes at least as many rounds as there
  are servers, that of a refused one none (`RefusalBack`). The steps are an induction over the numbers of the fields, which is done with
  sets (`UpTo`) and not with the library's induction theorems.

The second part is about `SendQueue` (from `SendersAssumption`: finitely many senders;
`MaxSendAssumption`; `InOrderAssumption`; `DistinctAssumption`: a packet is no sender):

* `TypeCorrect`, `DiscardNeverEmpty == Spec => []DiscardCoversWrites`,
  `NoEarlyFree == Spec => []BuffersAlive`. Counting buffers needs that a packet is
  in one place at a time, so that one write has one handler: `OnceInv`.
  `BuffersAlive` needs where the buffers are: `AliveInv` says that the writes in
  progress are the last elements of `discard_queue_`, in the same order.
* `FifoRefinement == Spec => ImplementsFifo`. The step from the types: only
  `send_data` and `Transmit` change the mapped variables.

`ServerLocksProofs` (from `ThreadsAssumption`: the process and the update thread are
different and no network threads; `NoneAssumption`; `StartsLateAssumption`):

* `TypeCorrect`, which includes that a thread has a client exactly where its code
  needs one.
* `OnlyThreeDeadlocks == Spec => []ThreeDeadlocks`. A cycle of waiting threads in which
  nobody waits in a destructor goes
  through holders, so it is enough to know who can hold a mutex while waiting:
  `HoldersInv` says that only the process thread keeps the list mutex and only the
  update thread keeps `access_` beyond a step, and at which points.
* `JoinedStays == Spec => RemovedAfterLeaving`, an action property. `LeavingInv`
  says that a listed client that is inactive while its entity is on the map has a read
  handler that is about to call `OnDisconnected`. It rests on `OneReader` (a client has one
  read handler or one pending read, freed or not) and `LoadInv` (a client that joins is
  active); only `remove_if` takes clients off the list, and only inactive ones.

`PartyProofs` (from `NoCharAssumption`: `NoChar` is no character; `NoPartyAssumption`:
`NoParty` is no party):

* `TypeCorrect`, `ListsAgree == Spec => []MembersLinked` and
  `AlwaysLed == Spec => []LedByMember`. None is inductive alone: `RemoveParty` finds
  the party through the component, removes from the list what `isMember` finds there
  and hands leadership to the first of the list, so links, lists and leaders need one
  another: `PartyInv` is their conjunction. Removing the component of the last member
  but one removes the other's from inside the callback; the lemma `RemovalKeeps`
  states what both removals together do, and the handlers cite it.
* `ConsentNeeded == Spec => OwnConsent` and `OrderKept == Spec => Seniority`,
  action properties, from the same invariant. Who sent a packet is not in the state: the
  first says of every change of leader that only the leader's packet can be the step.

`EntityWorldProofs` (from `IdSpaceAssumption`, `BoundsAssumption`, `NoneAssumption`,
`SentAssumption`):

* `TypeCorrect`, `IdsUnique == Spec => []UniqueIds` and
  `IndexesRight == Spec => []IndexesExact`, from `WorldInv`. A fresh id is unused
  because, until the counter wraps, everything in use or free lies below it
  (`BelowMax`), and a reused one because an id is in one place. Deleting a character
  erases its name: that this hits no other character needs that two living entities of
  one character are recorded in `overlap` (`TwiceRecorded`). An entity whose load threw
  counts for the ids and not for the indexes.
* `SavedWhenLeaving == Spec => SavedOnLeave`, an action property, from `SwitchInv`: a
  client gets its entity once and the two point at each other, so the entity that
  `destroy` queues for deletion without saving is the one `teleport` saved.
* `HandlersKept == Spec => HandlerLostToLeaver`, an action property, from `LeaverInv`:
  the entity of a client whose socket is open lives, has that client as its own unless its
  join threw, and no delete command names it.

`IscRegistryProofs` (from `RegistryAssumption`: no map server is called as one of the
other two servers, and the bounds are numbers):

* `TypeCorrect` and `NoGhosts == Spec => []NoGhostChannel`, from `RegistryInv`. A
  channel is right only because of the messages before it: `ChannelInv` says of the
  channels there are, and of every registration still under way, that the map link is
  active or failed (no step heals a failed one), or that a shutdown message *later* in the
  same queue takes the channel away.
  It also says that the char server's link is in its list while it is active, so that
  `OnShutdown` does find somebody to tell. `LinkInv` and `ConnInv` say whose
  connection a link is, so that a map link is never mistaken for the link to the login
  server.

`CharacterProofs` (from `CharacterAssumption`: the kinds and the bounds;
`StartAssumption`: a character starts with at most one row for a slot):

* `TypeCorrect`, `ItemsConserved == Spec => []NothingLost` and
  `UntouchedIsSafe == Spec => []UntouchedSafe`, from one invariant `IInv`. That a save
  loses nothing depends on what the rest of the plan will do, so `SaveExact` says that
  rows and entity differ exactly in the statements still to run: a row without its item
  is in `toDelete`, one that differs in `toUpdate`, an item without a row in
  `toInsert`. Statements name a slot and not a row, hence `OneRow`; it and everything
  else would break if two entities were saved at once, hence `Past` and `Frozen` (only
  the latest entity is played or saved, unless `overtaken` or `late`). `Loading` carries
  the result over to the next entity and `Counted` is the balance itself. The pieces of
  a kind are counted as the cardinality of a set of pairs, and a swap, a drop or a save
  is a bijection or a disjoint union of such sets.
* `ReturnIsSame == Spec => SameOnReturn` and `HiddenMeansFull == Spec =>
  HiddenOnlyWhenFull`, action properties; the first from `IInv` and the lemma
  `Rounding`, which bounds what storing and loading a coordinate changes; the second from the
  types.

`ReceiveProofs` (from `CodecAssumption`):

* `StreamFramed == Spec => []FramesIntact` and
  `DamageIsStopped == Spec => []DamageStops`, from `IInv`. What is found next is right
  only if the bytes on the wire are those of the packets not found yet, from a boundary
  on: `InStep` says that, while the connection is active, there are bytes written for
  each packet and cuts of the wire such that between two cuts lies one packet (with
  its wrong bit, if it is the damaged one), and that the buffer is empty at a cut or
  holds the unmasked header of the packet that starts there. After a break the last
  piece may be incomplete (`Ending`); once the connection is inactive nothing is found
  any more. `Right` is the property together with `DamageStops` for what is queued, and
  `Ends` says that a read is never under way while a packet waits for its dispatch, so
  that one packet at a time is queued. The proof does not look
  into the cipher: any codec that satisfies the assumption is framed and protected in
  this way.

Every safety invariant and every action property without fairness that a run checks is
proved. Only model-checked: the liveness properties (fairness and ENABLED are beyond the
prover); the tables of packet fields, which `LayoutsAgree` compares by evaluation; and the
cipher in `PacketCrypt`, which uses `Bitwise`: that it satisfies `CodecAssumption` is
evaluated for the packets of the run.

## 6. Plan

What could follow, most important first:

1. Character creation, deletion and selection by index in the char server, whose list
   `characterRealId_` can differ from what the client was shown.
2. The grid of the movement system, once it is used for more than warp gates.

## 7. Not modelled

* The node proxy. It is unfinished: the socket towards the servers never enters a
  map, and what `OnServerSend` encodes is not what a server decodes. Its receiving
  half is one of the readers of `Receive`.
* The thread pool and the connection pool. `getConnection` works on a vector without a
  lock, so concurrent calls are a data race; every database statement of the models
  has a connection of its own.
* `changeSeed` and `generateCryptTables`: arithmetic that fills the table, which is a
  parameter here.
* The grid (`getNearby` cells), which only serves to find warp gates; positions inside the
  map, of which `Character` keeps that they changed and how they are rounded.
* Character creation and deletion with their stored procedures, and selection by
  index (`ccharclient.cpp:225` accepts an index equal to the size of the list).
* Skills, wishes, hotbar, combat statistics: loaded and sent, never changed.
* Lua, chat texts, configuration, logging, platform code, the script of the stress
  bot, the database connector and generated SQL code: they change no shared state, or
  nothing that a property tells apart.
