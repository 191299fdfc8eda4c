---------------------------- MODULE ServerLocks ----------------------------
(***************************************************************************)
(* The threads of one map server and the two mutexes they share:           *)
(* client_list_mutex_ of CRoseServer and access_ of EntitySystem.          *)
(*                                                                         *)
(* The process thread walks the client list with the list mutex held: it   *)
(* drops inactive clients, whose destructor waits for the write under way, *)
(* and shuts idle clients down, which runs OnDisconnected and takes        *)
(* access_.  The update thread holds access_ while packets are handled;    *)
(* sending to everybody takes the list mutex, and answering one client     *)
(* keeps it alive.  Network threads accept clients and run their handlers. *)
(*                                                                         *)
(* A critical section in which a thread takes no other mutex is one step,  *)
(* enabled when the mutex is free.  An exception ends a network thread; on *)
(* the other two threads it ends the program, which is not modelled.       *)
(* Client slots are reused.                                                *)
(***************************************************************************)
EXTENDS Integers, FiniteSets

CONSTANTS
  Net,         \* network threads
  Process,     \* the process thread
  Update,      \* the update thread
  Clients,     \* CMapClient objects
  NoClient,    \* no client
  Free,        \* a mutex nobody holds
  StartsLate   \* the constructor may take longer than 50 ms

ASSUME ThreadsAssumption ==
  Process \notin Net /\ Update \notin Net /\ Process # Update
ASSUME NoneAssumption == NoClient \notin Clients /\ Free \notin Net \cup {Process, Update}
ASSUME StartsLateAssumption == StartsLate \in BOOLEAN

VARIABLES
  client_list_mutex,  \* the thread that holds it, or Free
  access,             \* the thread that holds access_, or Free
  pc,                 \* where each thread is
  client,             \* the client each thread works on
  todo,               \* clients the process thread has yet to look at
  clients,            \* the CMapClient objects
  active              \* is_active() of the server

vars == <<client_list_mutex, access, pc, client, todo, clients, active>>

Threads == Net \cup {Process, Update}

(***************************************************************************)
(* A client: listed in client_list_, active_, idle for two minutes, joined *)
(* (LOGGEDIN), its entity (on the map, dying until the delete commands of  *)
(* the next update, or none), reading: an async_read is pending, and       *)
(* writing: discard_queue_ holds a packet whose write is pending, or whose *)
(* handler was lost.                                                       *)
(***************************************************************************)
Client == [listed : BOOLEAN, active : BOOLEAN, idle : BOOLEAN, joined : BOOLEAN, reading : BOOLEAN,
           entity : {"none", "map", "dying"}, writing : {"no", "pending", "lost"}]
Unused == [listed |-> FALSE, active |-> FALSE, idle |-> FALSE, joined |-> FALSE, reading |-> FALSE,
           entity |-> "none", writing |-> "no"]
Accepted == [Unused EXCEPT !.listed = TRUE, !.active = TRUE, !.reading = TRUE]

Init ==
  /\ client_list_mutex = Free
  /\ access = Free
  /\ pc = [t \in Threads |-> IF t = Process THEN "lock" ELSE IF t = Update THEN "off" ELSE "idle"]
  /\ client = [t \in Threads |-> NoClient]
  /\ todo = {}
  /\ clients = [c \in Clients |-> Unused]
  /\ active = FALSE

Goto(t, l) == pc' = [pc EXCEPT ![t] = l]
GotoWith(t, l, c) == Goto(t, l) /\ client' = [client EXCEPT ![t] = c]
Set(c, r) == clients' = [clients EXCEPT ![c] = r]

(***************************************************************************)
(* A client lives while it is listed or a thread holds a shared_ptr to it: *)
(* getClient in the update thread, shared_from_this in JoinServerReply.    *)
(* The SocketConnector of its entity is a weak_ptr.                        *)
(***************************************************************************)
Holds(t, c) == client[t] = c /\ ((t = Update /\ pc[t] # "free") \/ pc[t] = "assign")
KeptWithout(t, c) == clients[c].listed \/ \E u \in Threads \ {t} : Holds(u, c)
Kept(c) == clients[c].listed \/ \E u \in Threads : Holds(u, c)
Freed(c) == ~Kept(c) /\ \A t \in Threads : ~(pc[t] = "free" /\ client[t] = c)

\* OnDisconnected takes access_; destroy() leaves the entity to the update.
TakesAccess(r) == r.joined /\ r.entity # "none"
Destroyed(r) == [r EXCEPT !.entity = IF r.entity = "map" THEN "dying" ELSE r.entity]
Disconnected(r) == [Destroyed(r) EXCEPT !.joined = FALSE]

\* send(): a write starts if none is under way.
Sent(r) == [r EXCEPT !.writing = IF r.active /\ r.writing = "no" THEN "pending" ELSE r.writing]

(***************************************************************************)
(* The destructor of a client waits until discard_queue_ is empty.  A      *)
(* handler that runs on is one on freed memory, which may be its end.      *)
(***************************************************************************)
FreeClient(t) ==
  /\ pc[t] = "free"
  /\ clients[client[t]].writing = "no"
  /\ \/ t = Process /\ GotoWith(t, "remove", NoClient)
     \/ t = Update /\ GotoWith(t, "work", NoClient)
     \/ t \in Net /\ \E l \in {"idle", "lost"} : GotoWith(t, l, NoClient)
  /\ UNCHANGED <<client_list_mutex, access, todo, clients, active>>

-----------------------------------------------------------------------------
(* The process thread, which the constructor of the server starts          *)

ProcessLock ==
  /\ pc[Process] = "lock"
  /\ client_list_mutex = Free
  /\ client_list_mutex' = Process
  /\ todo' = {c \in Clients : clients[c].listed}
  /\ Goto(Process, "remove")
  /\ UNCHANGED <<access, client, clients, active>>

\* Slip: a client that timed out goes at once.
RemoveIdle(c) ==
  /\ pc[Process] = "remove"
  /\ c \in todo
  /\ todo' = todo \ {c}
  /\ Set(c, [clients[c] EXCEPT !.listed = ~clients[c].idle])
  /\ UNCHANGED <<client_list_mutex, access, pc, client, active>>

\* remove_if drops an inactive client, and destroys it if nobody holds it.
RemoveInactive(c) ==
  /\ pc[Process] = "remove"
  /\ c \in todo
  /\ todo' = todo \ {c}
  /\ Set(c, [clients[c] EXCEPT !.listed = clients[c].active])
  /\ \/ /\ ~clients[c].active /\ \A t \in Threads : ~Holds(t, c)
        /\ GotoWith(Process, "free", c)
     \/ /\ clients[c].active \/ \E t \in Threads : Holds(t, c)
        /\ UNCHANGED <<pc, client>>
  /\ UNCHANGED <<client_list_mutex, access, active>>

\* The second loop visits the clients that are left.
Removed ==
  /\ pc[Process] = "remove"
  /\ todo = {}
  /\ todo' = {c \in Clients : clients[c].listed}
  /\ Goto(Process, "visit")
  /\ UNCHANGED <<client_list_mutex, access, client, clients, active>>

\* shutdown() of a client that is idle; the others are passed over.
Visit(c) ==
  /\ pc[Process] = "visit"
  /\ c \in todo
  /\ todo' = todo \ {c}
  /\ \/ /\ clients[c].idle /\ clients[c].active /\ TakesAccess(clients[c])
        /\ GotoWith(Process, "destroy", c)
        /\ UNCHANGED clients
     \/ /\ clients[c].idle /\ clients[c].active /\ ~TakesAccess(clients[c])
        /\ Set(c, [clients[c] EXCEPT !.joined = FALSE, !.active = FALSE])
        /\ UNCHANGED <<pc, client>>
     \/ /\ ~(clients[c].idle /\ clients[c].active)
        /\ UNCHANGED <<pc, client, clients>>
  /\ UNCHANGED <<client_list_mutex, access, active>>

\* EntitySystem::destroy, called by the OnDisconnected of that shutdown().
ProcessDestroy ==
  LET c == client[Process]
  IN /\ pc[Process] = "destroy"
     /\ access = Free
     /\ Set(c, [Disconnected(clients[c]) EXCEPT !.active = FALSE])
     /\ GotoWith(Process, "visit", NoClient)
     /\ UNCHANGED <<client_list_mutex, access, todo, active>>

\* Slip: the thread goes to sleep with the mutex locked.
ProcessUnlockKeeps ==
  /\ pc[Process] = "visit"
  /\ todo = {}
  /\ Goto(Process, "sleep")
  /\ UNCHANGED <<client_list_mutex, access, client, todo, clients, active>>

ProcessUnlock ==
  /\ pc[Process] = "visit"
  /\ todo = {}
  /\ client_list_mutex' = Free
  /\ Goto(Process, "sleep")
  /\ UNCHANGED <<access, client, todo, clients, active>>

(***************************************************************************)
(* 50 ms later: the thread ends if the server is not active, which it is   *)
(* not until its constructor has returned and init() was called.           *)
(***************************************************************************)
ProcessLoop ==
  /\ pc[Process] = "sleep"
  /\ active \/ StartsLate
  /\ Goto(Process, IF active THEN "lock" ELSE "ended")
  /\ UNCHANGED <<client_list_mutex, access, client, todo, clients, active>>

-----------------------------------------------------------------------------
(* The update thread *)

\* MapManager: init(), listen(), and the update thread starts.
Listen ==
  /\ pc[Update] = "off"
  /\ active' = TRUE
  /\ Goto(Update, "sleep")
  /\ UNCHANGED <<client_list_mutex, access, client, todo, clients>>

UpdateLock ==
  /\ pc[Update] = "sleep"
  /\ access = Free
  /\ access' = Update
  /\ Goto(Update, "work")
  /\ UNCHANGED <<client_list_mutex, client, todo, clients, active>>

\* A handler or a delete command locks the weak_ptr of an entity.
GetClient(c) ==
  /\ pc[Update] = "work"
  /\ client[Update] = NoClient
  /\ clients[c].entity # "none" /\ Kept(c)
  /\ GotoWith(Update, "work", c)
  /\ UNCHANGED <<client_list_mutex, access, todo, clients, active>>

\* It may answer the client, and drops its shared_ptr, perhaps the last.
DropClient ==
  LET c == client[Update]
  IN /\ pc[Update] = "work"
     /\ c # NoClient
     /\ \E r \in {clients[c], Sent(clients[c])} : Set(c, r)
     /\ IF KeptWithout(Update, c) THEN GotoWith(Update, "work", NoClient)
        ELSE GotoWith(Update, "free", c)
     /\ UNCHANGED <<client_list_mutex, access, todo, active>>

\* A handler, a system or a delete command calls SendPacket.
SendPacket ==
  /\ pc[Update] = "work"
  /\ Goto(Update, "send")
  /\ UNCHANGED <<client_list_mutex, access, client, todo, clients, active>>

\* Some of the clients on the list get the packet.
SendToClients ==
  /\ pc[Update] = "send"
  /\ client_list_mutex = Free
  /\ \E S \in SUBSET {c \in Clients : clients[c].listed} :
       clients' = [c \in Clients |-> IF c \in S THEN Sent(clients[c]) ELSE clients[c]]
  /\ Goto(Update, "work")
  /\ UNCHANGED <<client_list_mutex, access, client, todo, active>>

\* The GM command /load_npc: bulk_destroy locks access_, which this thread
\* holds; a std::mutex then waits for itself.
LoadNpc ==
  /\ pc[Update] = "work"
  /\ \E c \in Clients : clients[c].entity # "none"
  /\ Goto(Update, "relock")
  /\ UNCHANGED <<client_list_mutex, access, client, todo, clients, active>>

\* The delete commands are done.
UpdateUnlock ==
  /\ pc[Update] = "work"
  /\ client[Update] = NoClient
  /\ clients' = [c \in Clients |->
       [clients[c] EXCEPT !.entity = IF clients[c].entity = "map" THEN "map" ELSE "none"]]
  /\ access' = Free
  /\ Goto(Update, "sleep")
  /\ UNCHANGED <<client_list_mutex, client, todo, active>>

-----------------------------------------------------------------------------
(* Network threads *)

\* A client connects; the next accept is armed when OnAccepted is done.
Accept(n, c) ==
  /\ active
  /\ pc[n] = "idle"
  /\ \A m \in Net : pc[m] # "accept"
  /\ ~clients[c].listed /\ ~clients[c].reading
  /\ \A t \in Threads : client[t] # c
  /\ GotoWith(n, "accept", c)
  /\ UNCHANGED <<client_list_mutex, access, todo, clients, active>>

\* Slip: OnAccepted takes access_ before it releases the list mutex.
OnAcceptedNested(n) ==
  /\ \/ /\ pc[n] = "accept"
        /\ client_list_mutex = Free
        /\ client_list_mutex' = n
        /\ Goto(n, "load")
        /\ Set(client[n], Accepted)
        /\ UNCHANGED client
     \/ /\ pc[n] = "load"
        /\ client_list_mutex = n
        /\ access = Free
        /\ client_list_mutex' = Free
        /\ GotoWith(n, "idle", NoClient)
        /\ UNCHANGED clients
  /\ UNCHANGED <<access, todo, active>>

OnAccepted(n) ==
  /\ pc[n] = "accept"
  /\ client_list_mutex = Free
  /\ Set(client[n], Accepted)
  /\ GotoWith(n, "idle", NoClient)
  /\ UNCHANGED <<client_list_mutex, access, todo, active>>

(***************************************************************************)
(* The read handler of a client.  Its first statement refreshes the update *)
(* time; it arms the next read when it is done, if the client is active.   *)
(***************************************************************************)
Readable(n, c) == pc[n] = "idle" /\ clients[c].reading
Handling(c) == [clients[c] EXCEPT !.idle = FALSE, !.reading = FALSE]
Rearmed(r) == [r EXCEPT !.reading = r.active]

\* A packet that needs no mutex: PAKCS_ALIVE, whose query may throw, or a
\* JOIN_SERVER_REQ that is refused.
KeepAlive(n, c) ==
  /\ Readable(n, c)
  /\ clients[c].active
  /\ \/ /\ \E r \in {Handling(c), Sent(Handling(c))} : Set(c, Rearmed(r))
        /\ UNCHANGED <<pc, client>>
     \/ clients[c].joined /\ Set(c, Handling(c)) /\ GotoWith(n, "lost", NoClient)
  /\ UNCHANGED <<client_list_mutex, access, todo, active>>

\* A packet for the entity.
Receive(n, c) ==
  /\ Readable(n, c)
  /\ clients[c].active /\ TakesAccess(clients[c])
  /\ Set(c, Handling(c))
  /\ GotoWith(n, "dispatch", c)
  /\ UNCHANGED <<client_list_mutex, access, todo, active>>

\* JOIN_SERVER_REQ of a client, up to the assignment of LOGGEDIN.
JoinServerReply(n, c) ==
  /\ Readable(n, c)
  /\ clients[c].active /\ ~clients[c].joined
  /\ Set(c, [Handling(c) EXCEPT !.joined = TRUE])
  /\ GotoWith(n, "load", c)
  /\ UNCHANGED <<client_list_mutex, access, todo, active>>

\* The client is inactive by now: nothing is handled.
ReadLate(n, c) ==
  /\ Readable(n, c)
  /\ ~clients[c].active
  /\ Set(c, Handling(c))
  /\ UNCHANGED <<client_list_mutex, access, pc, client, todo, active>>

\* dispatch queues the packet under access_.
Dispatch(n) ==
  LET c == client[n]
  IN /\ pc[n] = "dispatch"
     /\ access = Free
     /\ Set(c, Rearmed(clients[c]))
     /\ GotoWith(n, "idle", NoClient)
     /\ UNCHANGED <<client_list_mutex, access, todo, active>>

(***************************************************************************)
(* loadCharacter, under access_; shared_from_this then holds the client,   *)
(* or throws if it is gone.  A query may throw: the client gets its answer *)
(* and no entity.                                                          *)
(***************************************************************************)
LoadCharacter(n) ==
  LET c == client[n]
  IN /\ pc[n] = "load"
     /\ access = Free
     /\ \/ /\ Set(c, [clients[c] EXCEPT !.entity = "map"])
           /\ IF Kept(c) THEN GotoWith(n, "assign", c) ELSE GotoWith(n, "lost", NoClient)
        \/ /\ Set(c, Rearmed(Sent(clients[c])))
           /\ GotoWith(n, "idle", NoClient)
     /\ UNCHANGED <<client_list_mutex, access, todo, active>>

\* The SocketConnector is assigned and the client answered.
Assigned(n) ==
  LET c == client[n]
  IN /\ pc[n] = "assign"
     /\ \/ /\ KeptWithout(n, c)
           /\ Set(c, Rearmed(Sent(clients[c])))
           /\ GotoWith(n, "idle", NoClient)
        \/ /\ ~KeptWithout(n, c)
           /\ GotoWith(n, "free", c)
           /\ UNCHANGED clients
     /\ UNCHANGED <<client_list_mutex, access, todo, active>>

(***************************************************************************)
(* shutdown() on a network thread, with r the client so far: its           *)
(* OnDisconnected waits at the given point for access_, or is over at once *)
(* and the thread goes on with last; its query may throw.                  *)
(***************************************************************************)
ShutdownAt(n, c, r, point, last) ==
  \/ /\ TakesAccess(r)
     /\ Set(c, r)
     /\ GotoWith(n, point, c)
  \/ /\ ~TakesAccess(r)
     /\ Set(c, [r EXCEPT !.joined = FALSE, !.active = FALSE])
     /\ GotoWith(n, last, IF last = "idle" THEN NoClient ELSE c)
  \/ /\ ~TakesAccess(r) /\ r.joined
     /\ Set(c, r)
     /\ GotoWith(n, "lost", NoClient)

\* End of file or a reset: shutdown(), then OnDisconnected once more.
ReadEnds(n, c) ==
  /\ Readable(n, c)
  /\ clients[c].active
  /\ ShutdownAt(n, c, Handling(c), "leave", "again")
  /\ UNCHANGED <<client_list_mutex, access, todo, active>>

\* OnReceived or HandlePacket refuses the packet: shutdown() alone.
ReadAborts(n, c) ==
  /\ Readable(n, c)
  /\ clients[c].active
  /\ ShutdownAt(n, c, Handling(c), "abort", "idle")
  /\ UNCHANGED <<client_list_mutex, access, todo, active>>

\* Any other error, or the read of a socket that was shut down meanwhile:
\* shutdown(true) clears active_ before OnDisconnected.
ReadFails(n, c) ==
  /\ Readable(n, c)
  /\ Set(c, [Handling(c) EXCEPT !.active = FALSE])
  /\ GotoWith(n, "again", c)
  /\ UNCHANGED <<client_list_mutex, access, todo, active>>

(***************************************************************************)
(* The handler of a write, which may run beside the read handler: success  *)
(* refreshes the update time, a reset of an active client calls            *)
(* shutdown().  It ends with the packet's removal from discard_queue_ and, *)
(* if the client is active, the write of the next one.                     *)
(***************************************************************************)
WriteEnds(n, c) ==
  /\ pc[n] = "idle"
  /\ clients[c].writing = "pending"
  /\ \A m \in Net : ~(pc[m] = "cut" /\ client[m] = c)
  /\ \/ /\ \E idle \in {FALSE, clients[c].idle}, next \in {"no", "pending"} :
             /\ next = "pending" => clients[c].active
             /\ Set(c, [clients[c] EXCEPT !.idle = idle, !.writing = next])
        /\ UNCHANGED <<pc, client>>
     \/ /\ clients[c].active /\ TakesAccess(clients[c])
        /\ GotoWith(n, "cut", c)
        /\ UNCHANGED clients
     \/ /\ clients[c].active /\ ~TakesAccess(clients[c])
        /\ Set(c, [clients[c] EXCEPT !.joined = FALSE, !.active = FALSE, !.writing = "no"])
        /\ UNCHANGED <<pc, client>>
     \/ /\ clients[c].active /\ ~TakesAccess(clients[c]) /\ clients[c].joined
        /\ Set(c, [clients[c] EXCEPT !.writing = "lost"])
        /\ GotoWith(n, "lost", NoClient)
  /\ UNCHANGED <<client_list_mutex, access, todo, active>>

\* Slip: the second OnDisconnected has no client any more.
LeaveForgets(n) ==
  LET c == client[n]
  IN /\ pc[n] \in {"leave", "abort", "cut"}
     /\ access = Free
     /\ Set(c, [Disconnected(clients[c]) EXCEPT !.active = FALSE])
     /\ GotoWith(n, IF pc[n] = "leave" THEN "again" ELSE "idle", NoClient)
     /\ UNCHANGED <<client_list_mutex, access, todo, active>>

\* destroy under access_, and the end of shutdown() and of its handler.
Leave(n) ==
  LET c == client[n]
      written == IF pc[n] = "cut" THEN "no" ELSE clients[c].writing
  IN /\ pc[n] \in {"leave", "abort", "cut"}
     /\ access = Free
     /\ Set(c, [Disconnected(clients[c]) EXCEPT !.active = FALSE, !.writing = written])
     /\ IF pc[n] = "leave" THEN GotoWith(n, "again", c) ELSE GotoWith(n, "idle", NoClient)
     /\ UNCHANGED <<client_list_mutex, access, todo, active>>

\* The same, but the query of OnDisconnected throws after destroy.
LeaveThrows(n) ==
  LET c == client[n]
      written == IF pc[n] = "cut" THEN "lost" ELSE clients[c].writing
  IN /\ pc[n] \in {"leave", "abort", "cut"}
     /\ access = Free
     /\ Set(c, [Destroyed(clients[c]) EXCEPT !.writing = written])
     /\ GotoWith(n, "lost", NoClient)
     /\ UNCHANGED <<client_list_mutex, access, todo, active>>

\* The read handler's own call of OnDisconnected.
OnDisconnected(n) ==
  LET c == client[n]
  IN /\ pc[n] = "again"
     /\ TakesAccess(clients[c]) => access = Free
     /\ \/ Set(c, Disconnected(clients[c])) /\ GotoWith(n, "idle", NoClient)
        \/ clients[c].joined /\ Set(c, Destroyed(clients[c])) /\ GotoWith(n, "lost", NoClient)
     /\ UNCHANGED <<client_list_mutex, access, todo, active>>

\* A read handler goes on after its client was freed, or it ends here.
HandlerDies(n) ==
  /\ pc[n] \in {"load", "dispatch", "leave", "abort", "again"}
  /\ Freed(client[n])
  /\ GotoWith(n, "lost", NoClient)
  /\ UNCHANGED <<client_list_mutex, access, todo, clients, active>>

\* Two minutes pass without data from or to the client.
GoIdle(c) ==
  /\ clients[c].listed
  /\ ~clients[c].idle
  /\ Set(c, [clients[c] EXCEPT !.idle = TRUE])
  /\ UNCHANGED <<client_list_mutex, access, pc, client, todo, active>>

-----------------------------------------------------------------------------
ProcessStep ==
  \/ ProcessLock \/ Removed \/ FreeClient(Process)
  \/ \E c \in Clients : RemoveInactive(c) \/ Visit(c)
  \/ ProcessDestroy
  \/ ProcessUnlock
  \/ ProcessLoop

UpdateStep ==
  \/ UpdateLock \/ SendPacket \/ SendToClients \/ LoadNpc \/ UpdateUnlock
  \/ \E c \in Clients : GetClient(c)
  \/ DropClient \/ FreeClient(Update)

NetStarts(n) ==
  \E c \in Clients :
    \/ Accept(n, c) \/ KeepAlive(n, c) \/ Receive(n, c) \/ JoinServerReply(n, c)
    \/ ReadLate(n, c) \/ ReadEnds(n, c) \/ ReadAborts(n, c) \/ ReadFails(n, c)
    \/ WriteEnds(n, c)

NetGoesOn(n) ==
  \/ OnAccepted(n) \/ Dispatch(n) \/ LoadCharacter(n) \/ Assigned(n) \/ FreeClient(n)
  \/ Leave(n) \/ LeaveThrows(n) \/ OnDisconnected(n) \/ HandlerDies(n)

Next ==
  \/ Listen
  \/ ProcessStep
  \/ UpdateStep
  \/ \E n \in Net : NetStarts(n) \/ NetGoesOn(n)
  \/ \E c \in Clients : GoIdle(c)

(***************************************************************************)
(* Fairness: threads run on, an update ends, and a thread that waits for a *)
(* mutex gets it if it is free again and again (its holders sleep between  *)
(* two uses).  The socket of an inactive client is closed, so its write    *)
(* ends.  Clients need not do anything.                                    *)
(***************************************************************************)
ClosedWriteEnds(c) == ~clients[c].active /\ \E n \in Net : WriteEnds(n, c)

Fairness ==
  /\ WF_vars(Listen)
  /\ SF_vars(ProcessStep)
  /\ SF_vars(UpdateLock \/ SendToClients) /\ SF_vars(DropClient)
  /\ SF_vars(FreeClient(Update)) /\ SF_vars(UpdateUnlock)
  /\ \A n \in Net : SF_vars(NetGoesOn(n))
  /\ \A c \in Clients : SF_vars(ClosedWriteEnds(c))

Spec == Init /\ [][Next]_vars
FairSpec == Spec /\ Fairness

-----------------------------------------------------------------------------
(* Properties *)

ProcessPoints == {"lock", "remove", "free", "visit", "destroy", "sleep", "ended"}
UpdatePoints == {"off", "sleep", "work", "free", "send", "relock"}
NetPoints == {"idle", "accept", "load", "assign", "free", "dispatch", "leave", "abort", "cut",
              "again", "lost"}

\* Each thread is in its own code, and has a client exactly where it needs
\* one; the update thread may have one wherever it works.
ThreadsOK ==
  /\ pc \in [Threads -> ProcessPoints \cup UpdatePoints \cup NetPoints]
  /\ pc[Process] \in ProcessPoints
  /\ pc[Update] \in UpdatePoints
  /\ \A n \in Net : pc[n] \in NetPoints
  /\ client \in [Threads -> Clients \cup {NoClient}]
  /\ client[Process] = NoClient <=> pc[Process] \notin {"free", "destroy"}
  /\ pc[Update] \in {"off", "sleep"} => client[Update] = NoClient
  /\ pc[Update] = "free" => client[Update] # NoClient
  /\ \A n \in Net : client[n] = NoClient <=> pc[n] \in {"idle", "lost"}

\* The mutexes, the threads and the client objects have their types.
TypeOK ==
  /\ client_list_mutex \in Threads \cup {Free}
  /\ access \in Threads \cup {Free}
  /\ ThreadsOK
  /\ todo \subseteq Clients
  /\ clients \in [Clients -> Client]
  /\ active \in BOOLEAN

\* Only the process thread and the update thread hold a mutex beyond one
\* step, and these are the places where they do.
HoldersInv ==
  /\ client_list_mutex \in {Free, Process}
  /\ client_list_mutex = Process <=> pc[Process] \in {"remove", "free", "visit", "destroy"}
  /\ access \in {Free, Update}
  /\ access = Update <=> pc[Update] \in {"work", "free", "send", "relock"}

\* The mutex that a thread waits for is held by one of S.
WaitsForMutex(t, S) ==
  \/ pc[t] \in {"lock", "send", "accept"} /\ client_list_mutex \in S
  \/ /\ \/ pc[t] \in {"destroy", "load", "dispatch", "leave", "abort", "cut", "relock"}
        \/ pc[t] = "again" /\ TakesAccess(clients[client[t]])
        \/ t = Update /\ pc[t] = "sleep"
     /\ access \in S

\* The network threads that can still empty discard_queue_ of c: the one in
\* the handler of the write, or else any that is not lost.
Finishers(c) ==
  LET cut == {n \in Net : pc[n] = "cut" /\ client[n] = c}
  IN IF clients[c].writing = "lost" THEN {}
     ELSE IF cut # {} THEN cut ELSE {n \in Net : pc[n] # "lost"}

\* The destructor waits for a write that only threads of S can finish.
DestructorWaits(t, S) ==
  pc[t] = "free" /\ clients[client[t]].writing # "no" /\ Finishers(client[t]) \subseteq S

\* No thread of S goes on without another thread of S.
Deadlocked(S) == S # {} /\ \A t \in S : WaitsForMutex(t, S) \/ DestructorWaits(t, S)

\* The process thread times a client out while an update sends to all.
CrossedLocks == pc[Process] = "destroy" /\ access = Update /\ pc[Update] = "send"
\* An update runs /load_npc.
OwnLock == pc[Update] = "relock"

KnownDeadlock(S) ==
  \/ CrossedLocks /\ {Process, Update} \subseteq S
  \/ OwnLock /\ Update \in S
  \/ \E t \in S : DestructorWaits(t, S)

(***************************************************************************)
(* Threads can wait for one another in three ways only: the process thread *)
(* times a client out while the update thread sends to everybody; a        *)
(* /load_npc makes the update thread wait for itself; or a thread destroys *)
(* a client whose write only threads of the cycle, or no thread, can end.  *)
(* Accepting, reading and disconnecting close no cycle of their own.       *)
(***************************************************************************)
ThreeDeadlocks == \A S \in SUBSET Threads : Deadlocked(S) => KnownDeadlock(S)

\* The read handler of c has still to call OnDisconnected.
StillLeaving(c) == \E n \in Net : client[n] = c /\ pc[n] = "again"

\* A listed client that is inactive while its entity is on the map is still
\* leaving.
OnMap(r) == r.joined /\ r.entity = "map"
Left(r) == r.listed /\ OnMap(r) /\ ~r.active
LeavingInv == \A c \in Clients : Left(clients[c]) => StillLeaving(c)

\* A step that removes a joined client.
RemovesLeaver ==
  \A c \in Clients :
    clients[c].listed /\ ~clients'[c].listed /\ OnMap(clients[c]) => StillLeaving(c)

(***************************************************************************)
(* The process thread removes a joined client with an entity on the map    *)
(* only while its read handler is between shutdown(true), which clears     *)
(* active_, and OnDisconnected.  That handler is then the only one that    *)
(* can destroy the entity, on memory that may be freed; otherwise the      *)
(* entity of a removed client was destroyed before.                        *)
(***************************************************************************)
RemovedAfterLeaving == [][RemovesLeaver]_vars

Stuck == \E S \in SUBSET Threads : Deadlocked(S) /\ KnownDeadlock(S)

(***************************************************************************)
(* Without one of these, a packet that waits for access_ is dispatched.    *)
(***************************************************************************)
PacketDispatched ==
  \A n \in Net : pc[n] = "dispatch" ~> pc[n] # "dispatch" \/ Stuck

(***************************************************************************)
(* Without one of these, a client that timed out is removed, unless the    *)
(* process thread ended because the server was slow to start.              *)
(***************************************************************************)
TimedOutGoes ==
  \A c \in Clients : clients[c].listed /\ clients[c].idle
                       ~> \/ ~clients[c].listed \/ ~clients[c].idle
                          \/ Stuck \/ pc[Process] = "ended"
=============================================================================
