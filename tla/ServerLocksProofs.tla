-------------------------- MODULE ServerLocksProofs --------------------------
(***************************************************************************)
(* Theorems about the mutexes of a map server, for any number of network   *)
(* threads and clients: types, that the threads can deadlock in three ways *)
(* only, and when the process thread removes a joined client.              *)
(***************************************************************************)
EXTENDS ServerLocks, TLAPS

\* The program points of the three kinds of thread that share a name or not.
LEMMA Points ==
  /\ ProcessPoints \cup UpdatePoints \cup NetPoints =
       {"lock", "remove", "free", "visit", "destroy", "sleep", "ended", "off", "work", "send",
        "relock", "idle", "accept", "load", "assign", "dispatch", "leave", "abort",
        "cut", "again", "lost"}
  /\ Process \in Threads /\ Update \in Threads /\ Net \subseteq Threads
  BY DEF ProcessPoints, UpdatePoints, NetPoints, Threads

\* Point l with client c is one of thread t's.
PointOK(t, l, c) ==
  /\ t = Process => l \in ProcessPoints /\ (c = NoClient <=> l \notin {"free", "destroy"})
  /\ t = Update => /\ l \in UpdatePoints
                   /\ l \in {"off", "sleep"} => c = NoClient
                   /\ l = "free" => c # NoClient
  /\ t \in Net => l \in NetPoints /\ (c = NoClient <=> l \in {"idle", "lost"})

\* What ThreadsOK says of one thread.
LEMMA PointsNow ==
  ASSUME ThreadsOK, NEW t \in Threads
  PROVE  PointOK(t, pc[t], client[t]) /\ client[t] \in Clients \cup {NoClient}
  BY DEF ThreadsOK, PointOK

\* Moving one thread to a point of its own code keeps ThreadsOK.
LEMMA ThreadMoves ==
  ASSUME ThreadsOK, NEW t \in Threads, NEW l, NEW c \in Clients \cup {NoClient},
         pc' = [pc EXCEPT ![t] = l], client' = [client EXCEPT ![t] = c], PointOK(t, l, c)
  PROVE  ThreadsOK'
  <1>1. l \in ProcessPoints \cup UpdatePoints \cup NetPoints
    BY DEF Threads, PointOK
  <1>2. \A u \in Threads : pc'[u] = (IF u = t THEN l ELSE pc[u])
                           /\ client'[u] = (IF u = t THEN c ELSE client[u])
    BY DEF ThreadsOK
  <1>3. pc' \in [Threads -> ProcessPoints \cup UpdatePoints \cup NetPoints]
        /\ client' \in [Threads -> Clients \cup {NoClient}]
    BY <1>1 DEF ThreadsOK
  <1>4. \A u \in Threads : PointOK(u, pc'[u], client'[u])
    BY <1>2, PointsNow
  <1>5. /\ pc'[Process] \in ProcessPoints
        /\ client'[Process] = NoClient <=> pc'[Process] \notin {"free", "destroy"}
    BY <1>4, Points DEF PointOK
  <1>6. /\ pc'[Update] \in UpdatePoints
        /\ pc'[Update] \in {"off", "sleep"} => client'[Update] = NoClient
        /\ pc'[Update] = "free" => client'[Update] # NoClient
    BY <1>4, Points DEF PointOK
  <1>7. \A n \in Net : pc'[n] \in NetPoints /\ (client'[n] = NoClient <=> pc'[n] \in {"idle", "lost"})
    BY <1>4, Points DEF PointOK
  <1> QED BY <1>3, <1>5, <1>6, <1>7 DEF ThreadsOK

\* A thread that changes its point and keeps its client.
LEMMA ThreadGoes ==
  ASSUME ThreadsOK, NEW t \in Threads, NEW l, pc' = [pc EXCEPT ![t] = l], client' = client,
         PointOK(t, l, client[t])
  PROVE  ThreadsOK'
  <1>1. client' = [client EXCEPT ![t] = client[t]] /\ client[t] \in Clients \cup {NoClient}
    BY DEF ThreadsOK
  <1> QED BY <1>1, ThreadMoves

-----------------------------------------------------------------------------
\* What the operators on client records leave alone.
LEMMA Records ==
  ASSUME NEW r \in Client
  PROVE  /\ Sent(r) \in Client /\ Sent(r).listed = r.listed /\ Sent(r).active = r.active
         /\ Sent(r).joined = r.joined /\ Sent(r).entity = r.entity /\ Sent(r).reading = r.reading
         /\ Rearmed(r) \in Client /\ Rearmed(r).listed = r.listed /\ Rearmed(r).active = r.active
         /\ Rearmed(r).joined = r.joined /\ Rearmed(r).entity = r.entity
         /\ Destroyed(r) \in Client /\ Destroyed(r).listed = r.listed
         /\ Destroyed(r).active = r.active /\ Destroyed(r).joined = r.joined
         /\ Destroyed(r).reading = r.reading /\ Destroyed(r).entity # "map"
         /\ Disconnected(r) \in Client /\ Disconnected(r).listed = r.listed
         /\ Disconnected(r).active = r.active /\ ~Disconnected(r).joined
         /\ Disconnected(r).reading = r.reading
  <1>1. Sent(r) \in Client /\ Sent(r).listed = r.listed /\ Sent(r).active = r.active
        /\ Sent(r).joined = r.joined /\ Sent(r).entity = r.entity /\ Sent(r).reading = r.reading
    BY DEF Client, Sent
  <1>2. Rearmed(r) \in Client /\ Rearmed(r).listed = r.listed /\ Rearmed(r).active = r.active
        /\ Rearmed(r).joined = r.joined /\ Rearmed(r).entity = r.entity
    BY DEF Client, Rearmed
  <1>3. Destroyed(r) \in Client /\ Destroyed(r).listed = r.listed
        /\ Destroyed(r).active = r.active /\ Destroyed(r).joined = r.joined
        /\ Destroyed(r).reading = r.reading /\ Destroyed(r).entity # "map"
    BY DEF Client, Destroyed
  <1>4. Disconnected(r) \in Client /\ Disconnected(r).listed = r.listed
        /\ Disconnected(r).active = r.active /\ ~Disconnected(r).joined
        /\ Disconnected(r).reading = r.reading
    <2> DEFINE d == Destroyed(r)
    <2>1. d \in Client /\ d.listed = r.listed /\ d.active = r.active /\ d.reading = r.reading
      BY <1>3
    <2> HIDE DEF d
    <2>2. [d EXCEPT !.joined = FALSE] \in Client /\ [d EXCEPT !.joined = FALSE].listed = d.listed
          /\ [d EXCEPT !.joined = FALSE].active = d.active /\ ~[d EXCEPT !.joined = FALSE].joined
          /\ [d EXCEPT !.joined = FALSE].reading = d.reading
      BY <2>1 DEF Client
    <2> QED BY <2>1, <2>2 DEF Disconnected, d
  <1> QED BY <1>1, <1>2, <1>3, <1>4

\* The other ways in which a client record changes.
LEMMA Updates ==
  ASSUME NEW r \in Client
  PROVE  /\ \A a \in BOOLEAN :
              /\ [r EXCEPT !.listed = a] \in Client /\ [r EXCEPT !.listed = a].active = r.active
              /\ [r EXCEPT !.listed = a].joined = r.joined /\ [r EXCEPT !.listed = a].listed = a
              /\ [r EXCEPT !.listed = a].reading = r.reading
              /\ [r EXCEPT !.listed = a].entity = r.entity
         /\ [r EXCEPT !.writing = "lost"] \in Client
         /\ [r EXCEPT !.writing = "lost"].listed = r.listed
         /\ [r EXCEPT !.writing = "lost"].active = r.active
         /\ [r EXCEPT !.writing = "lost"].joined = r.joined
         /\ [r EXCEPT !.writing = "lost"].entity = r.entity
         /\ [r EXCEPT !.writing = "lost"].reading = r.reading
         /\ [r EXCEPT !.idle = TRUE] \in Client /\ [r EXCEPT !.idle = TRUE].listed = r.listed
         /\ [r EXCEPT !.idle = TRUE].active = r.active /\ [r EXCEPT !.idle = TRUE].joined = r.joined
         /\ [r EXCEPT !.idle = TRUE].entity = r.entity /\ [r EXCEPT !.idle = TRUE].reading = r.reading
         /\ [r EXCEPT !.active = FALSE] \in Client /\ [r EXCEPT !.active = FALSE].listed = r.listed
         /\ [r EXCEPT !.active = FALSE].joined = r.joined
         /\ [r EXCEPT !.active = FALSE].reading = r.reading
         /\ [r EXCEPT !.joined = TRUE] \in Client /\ [r EXCEPT !.joined = TRUE].listed = r.listed
         /\ [r EXCEPT !.joined = TRUE].active = r.active
         /\ [r EXCEPT !.joined = TRUE].reading = r.reading
         /\ [r EXCEPT !.joined = FALSE, !.active = FALSE] \in Client
         /\ [r EXCEPT !.joined = FALSE, !.active = FALSE].listed = r.listed
         /\ ~[r EXCEPT !.joined = FALSE, !.active = FALSE].joined
         /\ [r EXCEPT !.joined = FALSE, !.active = FALSE].reading = r.reading
         /\ [r EXCEPT !.joined = FALSE, !.active = FALSE, !.writing = "no"] \in Client
         /\ [r EXCEPT !.joined = FALSE, !.active = FALSE, !.writing = "no"].listed = r.listed
         /\ ~[r EXCEPT !.joined = FALSE, !.active = FALSE, !.writing = "no"].joined
         /\ [r EXCEPT !.joined = FALSE, !.active = FALSE, !.writing = "no"].reading = r.reading
  BY DEF Client

\* The record of a client whose read handler runs, and of a new client.
LEMMA HandlingRecord ==
  ASSUME NEW c \in Clients, clients[c] \in Client
  PROVE  /\ Handling(c) \in Client /\ Handling(c).listed = clients[c].listed
         /\ Handling(c).active = clients[c].active /\ Handling(c).joined = clients[c].joined
         /\ Handling(c).entity = clients[c].entity /\ ~Handling(c).reading
  BY DEF Client, Handling

LEMMA NewRecords ==
  /\ Unused \in Client /\ Accepted \in Client
  /\ Accepted.listed /\ Accepted.active /\ ~Accepted.joined
  BY DEF Client, Unused, Accepted

-----------------------------------------------------------------------------
(***************************************************************************)
(* Every step of a network thread n moves n, possibly with a client c, and *)
(* changes only that client.  NetEffect says what the invariants need to   *)
(* know of it: l and d are the point and the client of n afterwards, r is  *)
(* the record of c.  Readers are the points of a read handler or an accept *)
(* that belong to one client; the owner of c may arm its next read.        *)
(***************************************************************************)
Readers == {"accept", "load", "assign", "free", "dispatch", "leave", "abort", "again"}
Owns(n, c) ==
  \/ pc[n] \in Readers /\ client[n] = c
  \/ clients[c].reading
  \/ \A m \in Net : client[m] # c

NetEffect(n, l, d, c, r) ==
  /\ pc' = [pc EXCEPT ![n] = l] /\ client' = [client EXCEPT ![n] = d]
  /\ clients' = [clients EXCEPT ![c] = r]
  /\ UNCHANGED <<client_list_mutex, access, todo, active>>
  /\ l \in NetPoints /\ (IF l \in {"idle", "lost"} THEN d = NoClient ELSE d = c)
  /\ l \in Readers => Owns(n, c) /\ (r.reading => pc[n] \in Readers /\ client[n] = c /\ clients[c].reading)
  /\ r.reading => Owns(n, c)
  /\ Owns(n, c) \/ ((clients[c].joined => clients[c].active) => (r.joined => r.active))
  /\ l = "load" => r.active
  /\ pc[n] = "again" => client[n] = c /\ ~Left(r)
  /\ Left(r) => Left(clients[c]) \/ l = "again"
                \/ (pc[n] = "load" /\ client[n] = c /\ clients[c].joined /\ ~clients[c].active)
  /\ clients[c].listed => r.listed

\* What a step of the process thread, the update thread or the clock leaves
\* alone: the network threads, the reads, and which clients have left.
CalmEffect ==
  /\ \A n \in Net : pc'[n] = pc[n] /\ client'[n] = client[n]
  /\ \A c \in Clients :
       /\ clients'[c].reading = clients[c].reading
       /\ (clients[c].joined => clients[c].active) => (clients'[c].joined => clients'[c].active)
       /\ Left(clients'[c]) => Left(clients[c])

\* Where the threads of a step that starts or goes on are.
LEMMA NetPlace ==
  ASSUME TypeOK, NEW n \in Net
  PROVE  /\ n \in Threads /\ n # Process /\ n # Update /\ clients \in [Clients -> Client]
         /\ pc[n] = "idle" => client[n] = NoClient
         /\ pc[n] \notin {"idle", "lost"} => client[n] \in Clients
         /\ pc \in [Threads -> ProcessPoints \cup UpdatePoints \cup NetPoints]
         /\ client \in [Threads -> Clients \cup {NoClient}]
         /\ \A c \in Clients : clients[c] \in Client /\ c # NoClient
  BY Points, ThreadsAssumption, NoneAssumption DEF TypeOK, ThreadsOK

\* shutdown() on an idle network thread.
LEMMA ShutdownEffect ==
  ASSUME TypeOK, NEW n \in Net, NEW c \in Clients, pc[n] = "idle", clients[c].reading,
         clients[c].active, NEW point \in {"leave", "abort"}, NEW last \in {"idle", "again"},
         ShutdownAt(n, c, Handling(c), point, last),
         UNCHANGED <<client_list_mutex, access, todo, active>>
  PROVE  \E l, d : \E r \in Client : NetEffect(n, l, d, c, r)
<1> USE DEF Goto, GotoWith, Set
<1> DEFINE h == Handling(c)
           g == [h EXCEPT !.joined = FALSE, !.active = FALSE]
<1>1. /\ h \in Client /\ h.listed = clients[c].listed /\ h.active = clients[c].active
      /\ h.joined = clients[c].joined /\ ~h.reading
  BY NetPlace, HandlingRecord
<1>2. g \in Client /\ g.listed = h.listed /\ ~g.joined /\ ~g.reading
  BY <1>1, Updates
<1> HIDE DEF h, g
<1>3. CASE Set(c, h) /\ GotoWith(n, point, c)
  <2>1. NetEffect(n, point, c, c, h)
    BY <1>1, <1>3 DEF NetEffect, NetPoints, Readers, Owns, Left, OnMap
  <2> QED BY <1>1, <2>1
<1>4. CASE Set(c, g) /\ last = "idle" /\ GotoWith(n, "idle", NoClient)
  <2>1. NetEffect(n, "idle", NoClient, c, g)
    BY <1>1, <1>2, <1>4 DEF NetEffect, NetPoints, Readers, Owns, Left, OnMap
  <2> QED BY <1>2, <2>1
<1>5. CASE Set(c, g) /\ last = "again" /\ GotoWith(n, "again", c)
  <2>1. NetEffect(n, "again", c, c, g)
    BY <1>1, <1>2, <1>5 DEF NetEffect, NetPoints, Readers, Owns, Left, OnMap
  <2> QED BY <1>2, <2>1
<1>6. CASE Set(c, h) /\ GotoWith(n, "lost", NoClient)
  <2>1. NetEffect(n, "lost", NoClient, c, h)
    BY <1>1, <1>6 DEF NetEffect, NetPoints, Readers, Owns, Left, OnMap
  <2> QED BY <1>1, <2>1
<1> QED BY <1>3, <1>4, <1>5, <1>6 DEF ShutdownAt, h, g

\* The steps that an idle network thread takes.
LEMMA StartsEffect ==
  ASSUME TypeOK, NEW n \in Net, NetStarts(n)
  PROVE  \E l, d : \E c \in Clients : \E r \in Client : NetEffect(n, l, d, c, r)
<1> USE DEF Goto, GotoWith, Set
<1> DEFINE Effect(c) == \E l, d : \E r \in Client : NetEffect(n, l, d, c, r)
<1> SUFFICES ASSUME NEW c \in Clients,
                    \/ Accept(n, c) \/ KeepAlive(n, c) \/ Receive(n, c) \/ JoinServerReply(n, c)
                    \/ ReadLate(n, c) \/ ReadEnds(n, c) \/ ReadAborts(n, c) \/ ReadFails(n, c)
                    \/ WriteEnds(n, c)
             PROVE  Effect(c)
  BY DEF NetStarts
<1> DEFINE h == Handling(c)
           x == clients[c]
<1>1. /\ h \in Client /\ h.listed = x.listed /\ h.active = x.active
      /\ h.joined = x.joined /\ h.entity = x.entity /\ ~h.reading /\ x \in Client
  BY NetPlace, HandlingRecord
<1>2. /\ pc = [pc EXCEPT ![n] = "idle"] /\ client = [client EXCEPT ![n] = NoClient]
      /\ clients = [clients EXCEPT ![c] = x]
  <2>1. pc[n] = "idle"
    BY DEF Accept, KeepAlive, Receive, JoinServerReply, ReadLate, ReadEnds, ReadAborts, ReadFails,
       WriteEnds, Readable
  <2>2. client[n] = NoClient
    BY <2>1, NetPlace
  <2> QED BY <2>1, <2>2, NetPlace
<1> HIDE DEF h
<1>3. CASE Accept(n, c)
  <2>1. \A m \in Net : client[m] # c
    BY <1>3, Points DEF Accept
  <2>2. NetEffect(n, "accept", c, c, x)
    BY <1>1, <1>2, <1>3, <2>1 DEF Accept, NetEffect, NetPoints, Readers, Owns, Left
  <2> QED BY <1>1, <2>2
<1>4. CASE KeepAlive(n, c)
  <2>1. CASE \E r \in {h, Sent(h)} : clients' = [clients EXCEPT ![c] = Rearmed(r)] /\ UNCHANGED <<pc, client>>
    <3>1. PICK r \in {h, Sent(h)} : clients' = [clients EXCEPT ![c] = Rearmed(r)]
      BY <2>1
    <3> DEFINE q == Rearmed(r)
    <3>2. r \in Client /\ r.listed = x.listed /\ r.active = x.active /\ r.joined = x.joined
      BY <1>1, Records
    <3>3. q \in Client /\ q.listed = x.listed /\ q.active = x.active /\ q.joined = x.joined
      BY <3>2, Records
    <3> HIDE DEF q
    <3>4. NetEffect(n, "idle", NoClient, c, q)
      BY <1>2, <1>4, <2>1, <3>1, <3>3 DEF KeepAlive, Readable, NetEffect, NetPoints, Readers, Owns, Left, q
    <3> QED BY <3>3, <3>4
  <2>2. CASE clients' = [clients EXCEPT ![c] = h] /\ GotoWith(n, "lost", NoClient)
    <3>1. NetEffect(n, "lost", NoClient, c, h)
      BY <1>1, <1>4, <2>2 DEF KeepAlive, Readable, NetEffect, NetPoints, Readers, Owns, Left
    <3> QED BY <1>1, <3>1
  <2> QED BY <1>4, <2>1, <2>2 DEF KeepAlive, h
<1>5. CASE Receive(n, c)
  <2>1. NetEffect(n, "dispatch", c, c, h)
    BY <1>1, <1>5 DEF Receive, Readable, NetEffect, NetPoints, Readers, Owns, Left, h
  <2> QED BY <1>1, <2>1
<1>6. CASE JoinServerReply(n, c)
  <2> DEFINE q == [h EXCEPT !.joined = TRUE]
  <2>1. q \in Client /\ q.listed = x.listed /\ q.active = x.active /\ ~q.reading
    BY <1>1, Updates
  <2>2. clients' = [clients EXCEPT ![c] = q]
    BY <1>6 DEF JoinServerReply, h
  <2> HIDE DEF q
  <2>3. NetEffect(n, "load", c, c, q)
    BY <1>1, <1>6, <2>1, <2>2 DEF JoinServerReply, Readable, NetEffect, NetPoints, Readers, Owns, Left
  <2> QED BY <2>1, <2>3
<1>7. CASE ReadLate(n, c)
  <2>1. NetEffect(n, "idle", NoClient, c, h)
    BY <1>1, <1>2, <1>7 DEF ReadLate, Readable, NetEffect, NetPoints, Readers, Owns, Left, OnMap, h
  <2> QED BY <1>1, <2>1
<1>8. CASE ReadEnds(n, c)
  BY <1>8, ShutdownEffect DEF ReadEnds, Readable
<1>9. CASE ReadAborts(n, c)
  BY <1>9, ShutdownEffect DEF ReadAborts, Readable
<1>10. CASE ReadFails(n, c)
  <2> DEFINE q == [h EXCEPT !.active = FALSE]
  <2>1. q \in Client /\ q.listed = x.listed /\ ~q.reading
    BY <1>1, Updates
  <2>2. clients' = [clients EXCEPT ![c] = q]
    BY <1>10 DEF ReadFails, h
  <2> HIDE DEF q
  <2>3. NetEffect(n, "again", c, c, q)
    BY <1>1, <1>10, <2>1, <2>2 DEF ReadFails, Readable, NetEffect, NetPoints, Readers, Owns
  <2> QED BY <2>1, <2>3
<1>11. CASE WriteEnds(n, c)
  <2>1. CASE UNCHANGED <<pc, client>> /\ \E i \in {FALSE, x.idle}, w \in {"no", "pending"} :
                Set(c, [x EXCEPT !.idle = i, !.writing = w])
    <3>0. x.idle \in BOOLEAN
      BY <1>1 DEF Client
    <3>1. PICK i \in BOOLEAN, w \in {"no", "pending", "lost"} :
                 clients' = [clients EXCEPT ![c] = [x EXCEPT !.idle = i, !.writing = w]]
      BY <2>1, <3>0
    <3> DEFINE q == [x EXCEPT !.idle = i, !.writing = w]
    <3>2. q \in Client /\ q.listed = x.listed /\ q.active = x.active /\ q.joined = x.joined
          /\ q.entity = x.entity /\ q.reading = x.reading
      BY <1>1, <3>1 DEF Client
    <3> HIDE DEF q
    <3>3. NetEffect(n, "idle", NoClient, c, q)
      BY <1>2, <1>11, <2>1, <3>1, <3>2
         DEF WriteEnds, NetEffect, NetPoints, Readers, Owns, Left, OnMap, q
    <3> QED BY <3>2, <3>3
  <2>2. CASE GotoWith(n, "cut", c) /\ UNCHANGED clients
    <3>1. NetEffect(n, "cut", c, c, x)
      BY <1>1, <1>2, <1>11, <2>2 DEF WriteEnds, NetEffect, NetPoints, Readers, Owns, Left, OnMap
    <3> QED BY <1>1, <3>1
  <2>3. CASE Set(c, [x EXCEPT !.joined = FALSE, !.active = FALSE, !.writing = "no"])
             /\ UNCHANGED <<pc, client>>
    <3> DEFINE q == [x EXCEPT !.joined = FALSE, !.active = FALSE, !.writing = "no"]
    <3>1. q \in Client /\ q.listed = x.listed /\ ~q.joined /\ q.reading = x.reading
      BY <1>1, Updates
    <3> HIDE DEF q
    <3>2. NetEffect(n, "idle", NoClient, c, q)
      BY <1>2, <1>11, <2>3, <3>1 DEF WriteEnds, NetEffect, NetPoints, Readers, Owns, Left, OnMap, q
    <3> QED BY <3>1, <3>2
  <2>4. CASE Set(c, [x EXCEPT !.writing = "lost"]) /\ GotoWith(n, "lost", NoClient)
    <3> DEFINE q == [x EXCEPT !.writing = "lost"]
    <3>1. q \in Client /\ q.listed = x.listed /\ q.active = x.active /\ q.joined = x.joined
          /\ q.entity = x.entity /\ q.reading = x.reading
      BY <1>1, Updates
    <3> HIDE DEF q
    <3>2. NetEffect(n, "lost", NoClient, c, q)
      BY <1>2, <1>11, <2>4, <3>1 DEF WriteEnds, NetEffect, NetPoints, Readers, Owns, Left, OnMap, q
    <3> QED BY <3>1, <3>2
  <2> QED BY <1>11, <2>1, <2>2, <2>3, <2>4 DEF WriteEnds
<1> QED BY <1>3, <1>4, <1>5, <1>6, <1>7, <1>8, <1>9, <1>10, <1>11

\* The steps of a network thread that is inside a handler.
LEMMA GoesOnEffect ==
  ASSUME TypeOK, NEW n \in Net, NetGoesOn(n)
  PROVE  \E l, d : \E c \in Clients : \E r \in Client : NetEffect(n, l, d, c, r)
<1> USE DEF Goto, GotoWith, Set
<1> DEFINE c == client[n]
           x == clients[c]
           Effect == \E l, d : \E r \in Client : NetEffect(n, l, d, c, r)
<1>1. /\ c \in Clients /\ x \in Client /\ n # Process /\ n # Update
      /\ pc[n] \in {"accept", "dispatch", "load", "assign", "free", "leave", "abort", "cut", "again"}
  <2>1. pc[n] \in {"accept", "dispatch", "load", "assign", "free", "leave", "abort", "cut", "again"}
    BY DEF NetGoesOn, OnAccepted, Dispatch, LoadCharacter, Assigned, FreeClient, Leave,
       LeaveThrows, OnDisconnected, HandlerDies
  <2> QED BY <2>1, NetPlace
<1>2. clients = [clients EXCEPT ![c] = x]
  BY <1>1, NetPlace
<1>3. \A e \in {"none", "map", "dying"} :
        LET q == [x EXCEPT !.entity = e]
        IN q \in Client /\ q.listed = x.listed /\ q.active = x.active /\ q.joined = x.joined
           /\ q.reading = x.reading
  BY <1>1 DEF Client
<1>4. CASE OnAccepted(n)
  <2>1. NetEffect(n, "idle", NoClient, c, Accepted)
    BY <1>1, <1>4, NewRecords DEF OnAccepted, NetEffect, NetPoints, Readers, Owns, Left
  <2> QED BY <1>1, <2>1, NewRecords
<1>5. CASE Dispatch(n)
  <2> DEFINE q == Rearmed(x)
  <2>1. /\ q \in Client /\ q.listed = x.listed /\ q.active = x.active
        /\ q.joined = x.joined /\ q.entity = x.entity
    BY <1>1, Records
  <2>2. clients' = [clients EXCEPT ![c] = q]
    BY <1>5 DEF Dispatch
  <2> HIDE DEF q
  <2>3. NetEffect(n, "idle", NoClient, c, q)
    BY <1>1, <1>5, <2>1, <2>2 DEF Dispatch, NetEffect, NetPoints, Readers, Owns, Left, OnMap
  <2> QED BY <1>1, <2>1, <2>3
<1>6. CASE LoadCharacter(n)
  <2> DEFINE q == [x EXCEPT !.entity = "map"]
             p == Rearmed(Sent(x))
  <2>1. /\ q \in Client /\ q.listed = x.listed /\ q.active = x.active
        /\ q.joined = x.joined /\ q.reading = x.reading
    BY <1>3
  <2>2. /\ p \in Client /\ p.listed = x.listed /\ p.active = x.active
        /\ p.joined = x.joined /\ p.entity = x.entity
    <3> DEFINE s == Sent(x)
    <3>1. /\ s \in Client /\ s.listed = x.listed /\ s.active = x.active
          /\ s.joined = x.joined /\ s.entity = x.entity
      BY <1>1, Records
    <3> HIDE DEF s
    <3>2. /\ Rearmed(s) \in Client /\ Rearmed(s).listed = s.listed /\ Rearmed(s).active = s.active
          /\ Rearmed(s).joined = s.joined /\ Rearmed(s).entity = s.entity
      BY <3>1, Records
    <3> QED BY <3>1, <3>2 DEF s
  <2> HIDE DEF q, p
  <2>3. CASE clients' = [clients EXCEPT ![c] = q] /\ GotoWith(n, "assign", c)
    <3>1. NetEffect(n, "assign", c, c, q)
      BY <1>1, <1>6, <2>1, <2>3 DEF LoadCharacter, NetEffect, NetPoints, Readers, Owns, Left, OnMap
    <3> QED BY <1>1, <2>1, <3>1
  <2>4. CASE clients' = [clients EXCEPT ![c] = q] /\ GotoWith(n, "lost", NoClient)
    <3>1. NetEffect(n, "lost", NoClient, c, q)
      BY <1>1, <1>6, <2>1, <2>4 DEF LoadCharacter, NetEffect, NetPoints, Readers, Owns, Left, OnMap
    <3> QED BY <1>1, <2>1, <3>1
  <2>5. CASE clients' = [clients EXCEPT ![c] = p] /\ GotoWith(n, "idle", NoClient)
    <3>1. NetEffect(n, "idle", NoClient, c, p)
      BY <1>1, <1>6, <2>2, <2>5 DEF LoadCharacter, NetEffect, NetPoints, Readers, Owns, Left, OnMap
    <3> QED BY <1>1, <2>2, <3>1
  <2> QED BY <1>6, <2>3, <2>4, <2>5 DEF LoadCharacter, q, p
<1>7. CASE Assigned(n)
  <2> DEFINE p == Rearmed(Sent(x))
  <2>1. /\ p \in Client /\ p.listed = x.listed /\ p.active = x.active
        /\ p.joined = x.joined /\ p.entity = x.entity
    <3> DEFINE s == Sent(x)
    <3>1. /\ s \in Client /\ s.listed = x.listed /\ s.active = x.active
          /\ s.joined = x.joined /\ s.entity = x.entity
      BY <1>1, Records
    <3> HIDE DEF s
    <3>2. /\ Rearmed(s) \in Client /\ Rearmed(s).listed = s.listed /\ Rearmed(s).active = s.active
          /\ Rearmed(s).joined = s.joined /\ Rearmed(s).entity = s.entity
      BY <3>1, Records
    <3> QED BY <3>1, <3>2 DEF s
  <2> HIDE DEF p
  <2>2. CASE clients' = [clients EXCEPT ![c] = p] /\ GotoWith(n, "idle", NoClient)
    <3>1. NetEffect(n, "idle", NoClient, c, p)
      BY <1>1, <1>7, <2>1, <2>2 DEF Assigned, NetEffect, NetPoints, Readers, Owns, Left, OnMap
    <3> QED BY <1>1, <2>1, <3>1
  <2>3. CASE UNCHANGED clients /\ GotoWith(n, "free", c)
    <3>1. NetEffect(n, "free", c, c, x)
      BY <1>1, <1>2, <1>7, <2>3 DEF Assigned, NetEffect, NetPoints, Readers, Owns, Left, OnMap
    <3> QED BY <1>1, <3>1
  <2> QED BY <1>7, <2>2, <2>3 DEF Assigned, p
<1>8. CASE FreeClient(n)
  <2>1. PICK l \in {"idle", "lost"} : GotoWith(n, l, NoClient)
    BY <1>1, <1>8 DEF FreeClient
  <2>2. NetEffect(n, l, NoClient, c, x)
    BY <1>1, <1>2, <1>8, <2>1 DEF FreeClient, NetEffect, NetPoints, Readers, Owns, Left, OnMap
  <2> QED BY <1>1, <2>2
<1>9. CASE Leave(n) \/ LeaveThrows(n)
  <2> DEFINE a == Disconnected(x)
             b == Destroyed(x)
  <2>1. /\ a \in Client /\ a.listed = x.listed /\ ~a.joined /\ a.reading = x.reading
        /\ b \in Client /\ b.listed = x.listed /\ b.active = x.active
        /\ b.joined = x.joined /\ b.reading = x.reading /\ b.entity # "map"
    BY <1>1, Records
  <2>2. x.writing \in {"no", "pending", "lost"}
    BY <1>1 DEF Client
  <2> HIDE DEF a, b
  <2>3. CASE Leave(n)
    <3> DEFINE w == IF pc[n] = "cut" THEN "no" ELSE x.writing
               q == [a EXCEPT !.active = FALSE, !.writing = w]
    <3>1. q \in Client /\ q.listed = x.listed /\ ~q.joined /\ q.reading = x.reading
      BY <2>1, <2>2 DEF Client
    <3>2. clients' = [clients EXCEPT ![c] = q]
      BY <2>3 DEF Leave, a
    <3> HIDE DEF q
    <3>3. CASE pc[n] = "leave"
      <4>1. NetEffect(n, "again", c, c, q)
        BY <1>1, <2>3, <3>1, <3>2, <3>3 DEF Leave, NetEffect, NetPoints, Readers, Owns, Left, OnMap
      <4> QED BY <1>1, <3>1, <4>1
    <3>4. CASE pc[n] # "leave"
      <4>1. NetEffect(n, "idle", NoClient, c, q)
        BY <1>1, <2>3, <3>1, <3>2, <3>4 DEF Leave, NetEffect, NetPoints, Readers, Owns, Left, OnMap
      <4> QED BY <1>1, <3>1, <4>1
    <3> QED BY <3>3, <3>4
  <2>4. CASE LeaveThrows(n)
    <3> DEFINE w == IF pc[n] = "cut" THEN "lost" ELSE x.writing
               q == [b EXCEPT !.writing = w]
    <3>1. /\ q \in Client /\ q.listed = x.listed /\ q.active = x.active /\ q.joined = x.joined
          /\ q.reading = x.reading /\ q.entity # "map"
      BY <2>1, <2>2 DEF Client
    <3>2. clients' = [clients EXCEPT ![c] = q]
      BY <2>4 DEF LeaveThrows, b
    <3> HIDE DEF q
    <3>3. NetEffect(n, "lost", NoClient, c, q)
      BY <1>1, <2>4, <3>1, <3>2 DEF LeaveThrows, NetEffect, NetPoints, Readers, Owns, Left, OnMap
    <3> QED BY <1>1, <3>1, <3>3
  <2> QED BY <1>9, <2>3, <2>4
<1>10. CASE OnDisconnected(n)
  <2> DEFINE a == Disconnected(x)
             b == Destroyed(x)
  <2>1. /\ a \in Client /\ a.listed = x.listed /\ ~a.joined /\ a.reading = x.reading
        /\ b \in Client /\ b.listed = x.listed /\ b.active = x.active
        /\ b.joined = x.joined /\ b.reading = x.reading /\ b.entity # "map"
    BY <1>1, Records
  <2> HIDE DEF a, b
  <2>2. CASE clients' = [clients EXCEPT ![c] = a] /\ GotoWith(n, "idle", NoClient)
    <3>1. NetEffect(n, "idle", NoClient, c, a)
      BY <1>1, <1>10, <2>1, <2>2 DEF OnDisconnected, NetEffect, NetPoints, Readers, Owns, Left, OnMap
    <3> QED BY <1>1, <2>1, <3>1
  <2>3. CASE clients' = [clients EXCEPT ![c] = b] /\ GotoWith(n, "lost", NoClient)
    <3>1. NetEffect(n, "lost", NoClient, c, b)
      BY <1>1, <1>10, <2>1, <2>3 DEF OnDisconnected, NetEffect, NetPoints, Readers, Owns, Left, OnMap
    <3> QED BY <1>1, <2>1, <3>1
  <2> QED BY <1>10, <2>2, <2>3 DEF OnDisconnected, a, b
<1>11. CASE HandlerDies(n)
  <2>1. ~x.listed
    BY <1>11 DEF HandlerDies, Freed, Kept
  <2>2. NetEffect(n, "lost", NoClient, c, x)
    BY <1>1, <1>2, <1>11, <2>1 DEF HandlerDies, NetEffect, NetPoints, Readers, Owns, Left, OnMap
  <2> QED BY <1>1, <2>2
<1> QED BY <1>4, <1>5, <1>6, <1>7, <1>8, <1>9, <1>10, <1>11 DEF NetGoesOn
\* Every step of a network thread.
LEMMA NetSteps ==
  ASSUME TypeOK, NEW n \in Net, NetStarts(n) \/ NetGoesOn(n)
  PROVE  \E l, d : \E c \in Clients : \E r \in Client : NetEffect(n, l, d, c, r)
  BY StartsEffect, GoesOnEffect

\* Every step of a network thread keeps the types.
LEMMA NetType ==
  ASSUME TypeOK, NEW n \in Net, NetStarts(n) \/ NetGoesOn(n)
  PROVE  TypeOK'
<1>1. PICK l, d : \E c \in Clients : \E r \in Client : NetEffect(n, l, d, c, r)
  BY NetSteps
<1>2. PICK c \in Clients, r \in Client : NetEffect(n, l, d, c, r)
  BY <1>1
<1>3. /\ pc' = [pc EXCEPT ![n] = l] /\ client' = [client EXCEPT ![n] = d]
      /\ clients' = [clients EXCEPT ![c] = r]
      /\ UNCHANGED <<client_list_mutex, access, todo, active>>
      /\ l \in NetPoints /\ (IF l \in {"idle", "lost"} THEN d = NoClient ELSE d = c)
  BY <1>2 DEF NetEffect
<1>4. PointOK(n, l, d) /\ d \in Clients \cup {NoClient}
  BY <1>3, NetPlace, NoneAssumption DEF PointOK
<1>5. ThreadsOK'
  BY <1>3, <1>4, ThreadMoves, Points DEF TypeOK
<1>6. clients' \in [Clients -> Client]
  BY <1>3 DEF TypeOK
<1> QED BY <1>3, <1>5, <1>6 DEF TypeOK

\* The destructor's end on the process thread and on the update thread.
LEMMA FreeType ==
  ASSUME TypeOK, NEW t \in {Process, Update}, FreeClient(t)
  PROVE  TypeOK'
<1>1. PICK l : /\ pc' = [pc EXCEPT ![t] = l] /\ client' = [client EXCEPT ![t] = NoClient]
               /\ (t = Process /\ l = "remove") \/ (t = Update /\ l = "work")
  BY ThreadsAssumption DEF FreeClient, Goto, GotoWith
<1>2. PointOK(t, l, NoClient) /\ t \in Threads
  BY <1>1, ThreadsAssumption, Points DEF PointOK, ProcessPoints, UpdatePoints
<1>3. ThreadsOK'
  BY <1>1, <1>2, ThreadMoves DEF TypeOK
<1> QED BY <1>3 DEF TypeOK, FreeClient

\* Every step of the process thread keeps the types.
LEMMA ProcessType ==
  ASSUME TypeOK, ProcessStep
  PROVE  TypeOK'
<1> USE DEF Goto, GotoWith, Set
<1>0. /\ Process \in Threads /\ Process # Update /\ Process \notin Net
      /\ client[Process] = NoClient \/ pc[Process] \in {"free", "destroy"}
      /\ \A c \in Clients : clients[c] \in Client /\ c # NoClient
      /\ clients \in [Clients -> Client]
  BY Points, ThreadsAssumption, NoneAssumption DEF TypeOK, ThreadsOK
<1>1. ASSUME NEW l \in ProcessPoints, NEW d \in Clients \cup {NoClient},
             pc' = [pc EXCEPT ![Process] = l], client' = [client EXCEPT ![Process] = d],
             d = NoClient <=> l \notin {"free", "destroy"}
      PROVE  ThreadsOK'
  BY <1>0, <1>1, ThreadMoves DEF PointOK, TypeOK
<1>2. ASSUME NEW l \in ProcessPoints \ {"free", "destroy"}, client[Process] = NoClient,
             pc' = [pc EXCEPT ![Process] = l], client' = client
      PROVE  ThreadsOK'
  BY <1>0, <1>2, ThreadGoes DEF PointOK, TypeOK
<1>3. CASE ProcessLock
  <2>1. ThreadsOK'
    BY <1>0, <1>2, <1>3 DEF ProcessLock, ProcessPoints
  <2> QED BY <1>0, <1>3, <2>1 DEF ProcessLock, TypeOK
<1>4. CASE Removed
  <2>1. ThreadsOK'
    BY <1>0, <1>2, <1>4 DEF Removed, ProcessPoints
  <2> QED BY <1>0, <1>4, <2>1 DEF Removed, TypeOK
<1>5. ASSUME NEW c \in Clients, RemoveInactive(c) PROVE TypeOK'
  <2>1. ThreadsOK'
    <3>1. CASE GotoWith(Process, "free", c)
      BY <1>0, <1>1, <3>1 DEF ProcessPoints
    <3>2. CASE UNCHANGED <<pc, client>>
      BY <3>2 DEF TypeOK, ThreadsOK
    <3> QED BY <1>5, <3>1, <3>2 DEF RemoveInactive
  <2>2. [clients[c] EXCEPT !.listed = clients[c].active] \in Client
    BY <1>0 DEF Client
  <2> QED BY <1>0, <1>5, <2>1, <2>2 DEF RemoveInactive, TypeOK
<1>6. ASSUME NEW c \in Clients, Visit(c) PROVE TypeOK'
  <2>1. ThreadsOK'
    <3>1. CASE GotoWith(Process, "destroy", c)
      BY <1>0, <1>1, <3>1 DEF ProcessPoints
    <3>2. CASE UNCHANGED <<pc, client>>
      BY <3>2 DEF TypeOK, ThreadsOK
    <3> QED BY <1>6, <3>1, <3>2 DEF Visit
  <2>2. [clients[c] EXCEPT !.joined = FALSE, !.active = FALSE] \in Client
    BY <1>0, Updates
  <2> QED BY <1>0, <1>6, <2>1, <2>2 DEF Visit, TypeOK
<1>7. CASE ProcessDestroy
  <2>1. client[Process] \in Clients
    BY <1>7 DEF ProcessDestroy, TypeOK, ThreadsOK, Threads
  <2>2. ThreadsOK'
    BY <1>0, <1>1, <1>7 DEF ProcessDestroy, ProcessPoints
  <2>3. Disconnected(clients[client[Process]]) \in Client
    BY <1>0, <2>1, Records
  <2>4. [Disconnected(clients[client[Process]]) EXCEPT !.active = FALSE] \in Client
    BY <2>3, Updates
  <2> QED BY <1>0, <1>7, <2>2, <2>4 DEF ProcessDestroy, TypeOK
<1>8. CASE ProcessUnlock
  <2>1. ThreadsOK'
    BY <1>0, <1>2, <1>8 DEF ProcessUnlock, ProcessPoints
  <2> QED BY <1>0, <1>8, <2>1 DEF ProcessUnlock, TypeOK
<1>9. CASE ProcessLoop
  <2>1. ThreadsOK'
    BY <1>0, <1>2, <1>9 DEF ProcessLoop, ProcessPoints
  <2> QED BY <1>0, <1>9, <2>1 DEF ProcessLoop, TypeOK
<1> QED BY <1>3, <1>4, <1>5, <1>6, <1>7, <1>8, <1>9, FreeType DEF ProcessStep

\* Starting the update thread and every step of it keep the types.
LEMMA UpdateType ==
  ASSUME TypeOK, Listen \/ UpdateStep
  PROVE  TypeOK'
<1> USE DEF Goto, GotoWith, Set
<1>0. /\ Update \in Threads /\ Process # Update /\ Update \notin Net
      /\ client[Update] \in Clients \cup {NoClient}
      /\ pc[Update] \in {"off", "sleep"} => client[Update] = NoClient
      /\ \A c \in Clients : clients[c] \in Client /\ c # NoClient
      /\ clients \in [Clients -> Client]
  BY Points, ThreadsAssumption, NoneAssumption DEF TypeOK, ThreadsOK
<1>1. ASSUME NEW l \in UpdatePoints, NEW d \in Clients \cup {NoClient},
             pc' = [pc EXCEPT ![Update] = l], client' = [client EXCEPT ![Update] = d],
             l \in {"off", "sleep"} => d = NoClient, l = "free" => d # NoClient
      PROVE  ThreadsOK'
  BY <1>0, <1>1, ThreadMoves DEF PointOK, TypeOK
<1>2. ASSUME NEW l \in UpdatePoints \ {"free"}, l \in {"off", "sleep"} => client[Update] = NoClient,
             pc' = [pc EXCEPT ![Update] = l], client' = client
      PROVE  ThreadsOK'
  BY <1>0, <1>2, ThreadGoes DEF PointOK, TypeOK
<1>3. CASE Listen \/ UpdateLock \/ SendPacket \/ LoadNpc
  <2>1. PICK l \in {"sleep", "work", "send", "relock"} :
               pc' = [pc EXCEPT ![Update] = l] /\ (l = "sleep" => client[Update] = NoClient)
    BY <1>0, <1>3 DEF Listen, UpdateLock, SendPacket, LoadNpc
  <2>2. client' = client /\ clients' = clients /\ todo' = todo
        /\ client_list_mutex' = client_list_mutex /\ access' \in {access, Update}
        /\ active' \in {active, TRUE}
    BY <1>3 DEF Listen, UpdateLock, SendPacket, LoadNpc
  <2>3. ThreadsOK'
    BY <1>2, <2>1, <2>2 DEF UpdatePoints
  <2> QED BY <1>0, <2>2, <2>3 DEF TypeOK
<1>4. CASE SendToClients
  <2>1. ThreadsOK'
    BY <1>2, <1>4 DEF SendToClients, UpdatePoints
  <2>2. \A c \in Clients : Sent(clients[c]) \in Client
    BY <1>0, Records
  <2>3. clients' \in [Clients -> Client]
    BY <1>0, <1>4, <2>2 DEF SendToClients
  <2> QED BY <1>4, <2>1, <2>3 DEF SendToClients, TypeOK
<1>5. CASE UpdateUnlock
  <2>1. ThreadsOK'
    BY <1>2, <1>5 DEF UpdateUnlock, UpdatePoints
  <2>2. \A c \in Clients :
          [clients[c] EXCEPT !.entity = IF clients[c].entity = "map" THEN "map" ELSE "none"] \in Client
    BY <1>0 DEF Client
  <2>3. clients' \in [Clients -> Client]
    BY <1>5, <2>2 DEF UpdateUnlock
  <2> QED BY <1>5, <2>1, <2>3 DEF UpdateUnlock, TypeOK
<1>6. ASSUME NEW c \in Clients, GetClient(c) PROVE TypeOK'
  <2>1. ThreadsOK'
    BY <1>1, <1>6 DEF GetClient, UpdatePoints
  <2> QED BY <1>6, <2>1 DEF GetClient, TypeOK
<1>7. CASE DropClient
  <2> DEFINE c == client[Update]
  <2>1. c \in Clients
    BY <1>0, <1>7 DEF DropClient
  <2>2. ThreadsOK'
    <3>1. CASE GotoWith(Update, "work", NoClient)
      BY <1>1, <3>1 DEF UpdatePoints
    <3>2. CASE GotoWith(Update, "free", c)
      BY <1>0, <1>1, <2>1, <3>2 DEF UpdatePoints
    <3> QED BY <1>7, <3>1, <3>2 DEF DropClient
  <2>3. Sent(clients[c]) \in Client
    BY <1>0, <2>1, Records
  <2>4. clients' \in [Clients -> Client]
    BY <1>0, <1>7, <2>1, <2>3 DEF DropClient
  <2> QED BY <1>7, <2>2, <2>4 DEF DropClient, TypeOK
<1> QED BY <1>3, <1>4, <1>5, <1>6, <1>7, FreeType DEF UpdateStep

\* Every step keeps the types.
LEMMA TypeStep == TypeOK /\ [Next]_vars => TypeOK'
<1> SUFFICES ASSUME TypeOK, [Next]_vars PROVE TypeOK'
  OBVIOUS
<1>1. ASSUME NEW c \in Clients, GoIdle(c) PROVE TypeOK'
  <2>1. [clients[c] EXCEPT !.idle = TRUE] \in Client
    BY Updates DEF TypeOK
  <2>2. clients' \in [Clients -> Client]
    BY <1>1, <2>1 DEF GoIdle, Set, TypeOK
  <2> QED BY <1>1, <2>2 DEF GoIdle, TypeOK, ThreadsOK
<1>2. CASE UNCHANGED vars
  BY <1>2 DEF vars, TypeOK, ThreadsOK
<1> QED BY <1>1, <1>2, ProcessType, UpdateType, NetType DEF Next

\* The initial state has the types.
LEMMA InitType == Init => TypeOK
<1> SUFFICES ASSUME Init PROVE TypeOK
  OBVIOUS
<1>1. ThreadsOK
  BY ThreadsAssumption DEF Init, ThreadsOK, Threads, ProcessPoints, UpdatePoints, NetPoints
<1> QED BY <1>1, NewRecords DEF Init, TypeOK

(***************************************************************************)
(* The mutexes, the threads and the client objects of a map server have    *)
(* their types in every reachable state.                                   *)
(***************************************************************************)
THEOREM TypeCorrect == Spec => []TypeOK
  BY InitType, TypeStep, PTL DEF Spec

-----------------------------------------------------------------------------
(***************************************************************************)
(* HoldersInv is inductive with the types: the only steps that lock or     *)
(* unlock without doing both are ProcessLock, ProcessUnlock, UpdateLock    *)
(* and UpdateUnlock.                                                       *)
(***************************************************************************)
LEMMA HoldersStep ==
  ASSUME TypeOK, HoldersInv, [Next]_vars
  PROVE  HoldersInv'
<1> USE DEF Goto, GotoWith, Set
<1>0. /\ Process # Update /\ Process # Free /\ Update # Free
      /\ \A n \in Net : n # Process /\ n # Update
      /\ Process \in DOMAIN pc /\ Update \in DOMAIN pc
  BY ThreadsAssumption, NoneAssumption, Points DEF TypeOK, ThreadsOK
<1>1. CASE ProcessStep
  <2>1. pc'[Update] = pc[Update] /\ access' = access
    BY <1>0, <1>1 DEF ProcessStep, ProcessLock, RemoveInactive, Removed, FreeClient, Visit,
       ProcessDestroy, ProcessUnlock, ProcessLoop
  <2>2. /\ client_list_mutex' \in {Free, Process}
        /\ client_list_mutex' = Process <=> pc'[Process] \in {"remove", "free", "visit", "destroy"}
    BY <1>0, <1>1 DEF HoldersInv, ProcessStep, ProcessLock, RemoveInactive, Removed, FreeClient,
       Visit, ProcessDestroy, ProcessUnlock, ProcessLoop
  <2> QED BY <2>1, <2>2 DEF HoldersInv
<1>2. CASE Listen \/ UpdateStep
  <2>1. pc'[Process] = pc[Process] /\ client_list_mutex' = client_list_mutex
    BY <1>0, <1>2 DEF Listen, UpdateStep, UpdateLock, SendPacket, SendToClients, LoadNpc,
       UpdateUnlock, GetClient, DropClient, FreeClient
  <2>2. /\ access' \in {Free, Update}
        /\ access' = Update <=> pc'[Update] \in {"work", "free", "send", "relock"}
    <3>1. CASE Listen
      BY <1>0, <3>1 DEF HoldersInv, Listen
    <3>2. CASE UpdateLock
      BY <1>0, <3>2 DEF HoldersInv, UpdateLock
    <3>3. CASE SendPacket
      BY <1>0, <3>3 DEF HoldersInv, SendPacket
    <3>4. CASE SendToClients
      BY <1>0, <3>4 DEF HoldersInv, SendToClients
    <3>5. CASE LoadNpc
      BY <1>0, <3>5 DEF HoldersInv, LoadNpc
    <3>6. CASE UpdateUnlock
      BY <1>0, <3>6 DEF HoldersInv, UpdateUnlock
    <3>7. ASSUME NEW c \in Clients, GetClient(c)
          PROVE  access' = access /\ pc'[Update] = "work" /\ pc[Update] = "work"
      BY <1>0, <3>7 DEF GetClient
    <3>8. CASE DropClient
      BY <1>0, <3>8 DEF HoldersInv, DropClient
    <3>9. CASE FreeClient(Update)
      BY <1>0, <3>9 DEF HoldersInv, FreeClient
    <3> QED BY <1>2, <3>1, <3>2, <3>3, <3>4, <3>5, <3>6, <3>7, <3>8, <3>9 DEF UpdateStep, HoldersInv
  <2> QED BY <2>1, <2>2 DEF HoldersInv
<1>3. ASSUME NEW n \in Net, NetStarts(n) \/ NetGoesOn(n) PROVE HoldersInv'
  <2>1. PICK l, d : \E c \in Clients : \E r \in Client : NetEffect(n, l, d, c, r)
    BY <1>3, NetSteps
  <2>2. /\ pc'[Process] = pc[Process] /\ pc'[Update] = pc[Update]
        /\ client_list_mutex' = client_list_mutex /\ access' = access
    BY <1>0, <2>1 DEF NetEffect
  <2> QED BY <2>2 DEF HoldersInv
<1>4. CASE (\E c \in Clients : GoIdle(c)) \/ UNCHANGED vars
  BY <1>4 DEF HoldersInv, GoIdle, vars
<1> QED BY <1>1, <1>2, <1>3, <1>4 DEF Next

\* A set of threads that wait for one another has the process thread and the
\* update thread at crossed locks, an update waiting for itself, or a thread
\* in the destructor of a client.
LEMMA HoldersDeadlock == TypeOK /\ HoldersInv => ThreeDeadlocks
<1> SUFFICES ASSUME TypeOK, HoldersInv, NEW S \in SUBSET Threads, Deadlocked(S),
                    \A t \in S : ~DestructorWaits(t, S)
             PROVE  \/ CrossedLocks /\ {Process, Update} \subseteq S
                    \/ OwnLock /\ Update \in S
  BY DEF ThreeDeadlocks, KnownDeadlock
<1>0. /\ pc[Process] \in ProcessPoints /\ pc[Update] \in UpdatePoints
      /\ Process # Update /\ Free \notin S
  BY ThreadsAssumption, NoneAssumption DEF TypeOK, ThreadsOK, Threads
<1>1. \A t \in S : WaitsForMutex(t, S)
  BY DEF Deadlocked
<1>2. Process \in S => pc[Process] = "destroy" /\ access = Update /\ Update \in S
  BY <1>0, <1>1 DEF WaitsForMutex, HoldersInv, ProcessPoints
<1>3. Update \in S => pc[Update] = "relock" \/ (pc[Update] = "send" /\ Process \in S)
  BY <1>0, <1>1 DEF WaitsForMutex, HoldersInv, UpdatePoints
<1>4. Process \in S \/ Update \in S
  BY <1>0, <1>1 DEF Deadlocked, WaitsForMutex, HoldersInv
<1> QED BY <1>2, <1>3, <1>4 DEF CrossedLocks, OwnLock

(***************************************************************************)
(* However many network threads and clients there are, threads wait for    *)
(* one another only at crossed locks, inside a /load_npc, or around the    *)
(* destructor of a client whose write nobody outside the cycle can end.    *)
(***************************************************************************)
THEOREM OnlyThreeDeadlocks == Spec => []ThreeDeadlocks
<1> DEFINE Inv == TypeOK /\ HoldersInv
<1>1. Init => Inv
  <2> SUFFICES ASSUME Init PROVE HoldersInv
    BY InitType
  <2>1. pc[Process] = "lock" /\ pc[Update] = "off"
    BY ThreadsAssumption, Points DEF Init
  <2> QED BY <2>1, NoneAssumption DEF Init, HoldersInv
<1>2. Inv /\ [Next]_vars => Inv'
  BY TypeStep, HoldersStep
<1>3. Inv => ThreeDeadlocks
  BY HoldersDeadlock
<1> HIDE DEF Inv
<1> QED BY <1>1, <1>2, <1>3, PTL DEF Spec

-----------------------------------------------------------------------------
\* A client has one read handler or one pending read, and a client that joins
\* is active.
OneReader == \A n \in Net : pc[n] \in Readers =>
  /\ ~clients[client[n]].reading
  /\ \A m \in Net : pc[m] \in Readers /\ client[m] = client[n] => m = n
LoadInv == \A n \in Net : pc[n] = "load" /\ clients[client[n]].joined => clients[client[n]].active
ReadInv == OneReader /\ LoadInv /\ LeavingInv

\* What a network thread's step does, point by point.
LEMMA NetMoves ==
  ASSUME TypeOK, NEW n \in Net, NEW l, NEW d, NEW c \in Clients, NEW r \in Client,
         NetEffect(n, l, d, c, r)
  PROVE  /\ \A m \in Net : /\ pc'[m] = (IF m = n THEN l ELSE pc[m])
                           /\ client'[m] = (IF m = n THEN d ELSE client[m])
         /\ \A b \in Clients : clients'[b] = (IF b = c THEN r ELSE clients[b])
         /\ l \in Readers => d = c
  BY NetPlace DEF NetEffect, Readers

\* A network thread that takes a client over is its only reader.
LEMMA OwnerAlone ==
  ASSUME TypeOK, OneReader, NEW n \in Net, NEW c \in Clients, Owns(n, c), NEW m \in Net, m # n,
         pc[m] \in Readers
  PROVE  client[m] # c
  BY DEF OneReader, Owns

\* A step of a network thread keeps OneReader, LoadInv and LeavingInv.
LEMMA NetReads ==
  ASSUME TypeOK, ReadInv, NEW n \in Net, NetStarts(n) \/ NetGoesOn(n)
  PROVE  ReadInv'
<1>1. PICK l, d : \E c \in Clients : \E r \in Client : NetEffect(n, l, d, c, r)
  BY NetSteps
<1>2. PICK c \in Clients, r \in Client : NetEffect(n, l, d, c, r)
  BY <1>1
<1>3. /\ \A m \in Net : /\ pc'[m] = (IF m = n THEN l ELSE pc[m])
                        /\ client'[m] = (IF m = n THEN d ELSE client[m])
      /\ \A b \in Clients : clients'[b] = (IF b = c THEN r ELSE clients[b])
      /\ l \in Readers => d = c
  BY <1>2, NetMoves
<1>4. \A m \in Net : pc[m] \in Readers => client[m] \in Clients
  BY NetPlace DEF Readers
<1>5. OneReader'
  <2> SUFFICES ASSUME NEW m \in Net, pc'[m] \in Readers
               PROVE  /\ ~clients'[client'[m]].reading
                      /\ \A k \in Net : pc'[k] \in Readers /\ client'[k] = client'[m] => k = m
    BY DEF OneReader
  <2>1. CASE m = n
    <3>1. Owns(n, c) /\ d = c /\ l \in Readers
          /\ (r.reading => pc[n] \in Readers /\ client[n] = c /\ clients[c].reading)
      BY <1>2, <1>3, <2>1 DEF NetEffect
    <3>2. ~r.reading
      BY <3>1 DEF ReadInv, OneReader
    <3>3. \A k \in Net : pc'[k] \in Readers /\ client'[k] = c => k = n
      BY <1>3, <3>1, OwnerAlone DEF ReadInv
    <3> QED BY <1>3, <2>1, <3>1, <3>2, <3>3
  <2>2. CASE m # n
    <3>1. pc[m] \in Readers /\ client[m] \in Clients /\ client'[m] = client[m]
      BY <1>3, <1>4, <2>2
    <3>2. ~clients'[client[m]].reading
      <4>1. CASE client[m] = c
        <5>1. ~Owns(n, c)
          BY <2>2, <3>1, <4>1, OwnerAlone DEF ReadInv
        <5> QED BY <1>2, <1>3, <4>1, <5>1 DEF NetEffect
      <4>2. CASE client[m] # c
        BY <1>3, <3>1, <4>2 DEF ReadInv, OneReader
      <4> QED BY <4>1, <4>2
    <3>3. ASSUME NEW k \in Net, pc'[k] \in Readers, client'[k] = client[m]
          PROVE  k = m
      <4>1. CASE k = n
        <5>1. Owns(n, c) /\ client[m] = c
          BY <1>2, <1>3, <3>3, <4>1 DEF NetEffect
        <5> QED BY <2>2, <3>1, <5>1, OwnerAlone DEF ReadInv
      <4>2. CASE k # n
        BY <1>3, <3>1, <3>3, <4>2 DEF ReadInv, OneReader
      <4> QED BY <4>1, <4>2
    <3> QED BY <3>1, <3>2, <3>3
  <2> QED BY <2>1, <2>2
<1>6. LoadInv'
  <2> SUFFICES ASSUME NEW m \in Net, pc'[m] = "load", clients'[client'[m]].joined
               PROVE  clients'[client'[m]].active
    BY DEF LoadInv
  <2>1. CASE m = n
    BY <1>2, <1>3, <2>1 DEF NetEffect, Readers
  <2>2. CASE m # n
    <3>1. pc[m] = "load" /\ pc[m] \in Readers /\ client[m] \in Clients /\ client'[m] = client[m]
      BY <1>3, <1>4, <2>2 DEF Readers
    <3>2. clients[client[m]].joined => clients[client[m]].active
      BY <3>1 DEF ReadInv, LoadInv
    <3>3. CASE client[m] = c
      <4>1. ~Owns(n, c)
        BY <2>2, <3>1, <3>3, OwnerAlone DEF ReadInv
      <4> QED BY <1>2, <1>3, <3>1, <3>2, <3>3, <4>1 DEF NetEffect
    <3>4. CASE client[m] # c
      BY <1>3, <3>1, <3>2, <3>4
    <3> QED BY <3>3, <3>4
  <2> QED BY <2>1, <2>2
<1>7. LeavingInv'
  <2> SUFFICES ASSUME NEW b \in Clients, Left(clients'[b])
               PROVE  StillLeaving(b)'
    BY DEF LeavingInv, Left, OnMap
  <2>1. CASE Left(clients[b])
    <3>1. PICK m \in Net : client[m] = b /\ pc[m] = "again"
      BY <2>1 DEF ReadInv, LeavingInv, StillLeaving
    <3>2. m # n
      BY <1>2, <1>3, <3>1 DEF NetEffect
    <3> QED BY <1>3, <3>1, <3>2 DEF StillLeaving
  <2>2. CASE ~Left(clients[b])
    <3>1. b = c /\ Left(r)
      BY <1>3, <2>2
    <3>2. l = "again" \/ (pc[n] = "load" /\ client[n] = c /\ clients[c].joined /\ ~clients[c].active)
      BY <1>2, <2>2, <3>1 DEF NetEffect
    <3>3. l = "again"
      BY <3>2 DEF ReadInv, LoadInv
    <3>4. d = c
      BY <1>3, <3>3 DEF Readers
    <3> QED BY <1>3, <3>1, <3>3, <3>4 DEF StillLeaving
  <2> QED BY <2>1, <2>2
<1> QED BY <1>5, <1>6, <1>7 DEF ReadInv

\* A step that leaves the network threads and the reads alone keeps them too.
LEMMA CalmReads ==
  ASSUME TypeOK, ReadInv, CalmEffect
  PROVE  ReadInv'
<1>1. \A m \in Net : pc[m] \in Readers => client[m] \in Clients
  BY NetPlace DEF Readers
<1>2. OneReader'
  BY <1>1 DEF ReadInv, OneReader, CalmEffect
<1>3. LoadInv'
  BY <1>1 DEF ReadInv, LoadInv, CalmEffect, Readers
<1>4. LeavingInv'
  <2> SUFFICES ASSUME NEW b \in Clients, Left(clients'[b])
               PROVE  StillLeaving(b)'
    BY DEF LeavingInv, Left, OnMap
  <2>1. StillLeaving(b)
    BY DEF ReadInv, LeavingInv, CalmEffect
  <2> QED BY <2>1 DEF StillLeaving, CalmEffect
<1> QED BY <1>2, <1>3, <1>4 DEF ReadInv

\* The steps of the process thread, the update thread and the clock are such.
LEMMA CalmSteps ==
  ASSUME TypeOK, Listen \/ ProcessStep \/ UpdateStep \/ (\E c \in Clients : GoIdle(c))
  PROVE  CalmEffect
<1> USE DEF Goto, GotoWith, Set
<1>0. /\ \A n \in Net : n # Process /\ n # Update
      /\ \A c \in Clients : clients[c] \in Client
      /\ clients \in [Clients -> Client] /\ Net \subseteq DOMAIN pc /\ Net \subseteq DOMAIN client
  BY ThreadsAssumption, Points DEF TypeOK, ThreadsOK
<1>1. \A n \in Net : pc'[n] = pc[n] /\ client'[n] = client[n]
  <2>1. ProcessStep => \A n \in Net : pc'[n] = pc[n] /\ client'[n] = client[n]
    BY <1>0 DEF ProcessStep, ProcessLock, RemoveInactive, Removed, FreeClient, Visit,
       ProcessDestroy, ProcessUnlock, ProcessLoop
  <2>2. Listen \/ UpdateStep => \A n \in Net : pc'[n] = pc[n] /\ client'[n] = client[n]
    BY <1>0 DEF Listen, UpdateStep, UpdateLock, SendPacket, SendToClients, LoadNpc, UpdateUnlock,
       GetClient, DropClient, FreeClient
  <2>3. (\E c \in Clients : GoIdle(c)) => \A n \in Net : pc'[n] = pc[n] /\ client'[n] = client[n]
    BY DEF GoIdle
  <2> QED BY <2>1, <2>2, <2>3
<1>2. ASSUME NEW c \in Clients
      PROVE  /\ clients'[c].reading = clients[c].reading
             /\ (clients[c].joined => clients[c].active) => (clients'[c].joined => clients'[c].active)
             /\ Left(clients'[c]) => Left(clients[c])
  <2> DEFINE Calm(q) == /\ q.reading = clients[c].reading
                        /\ (clients[c].joined => clients[c].active) => (q.joined => q.active)
                        /\ Left(q) => Left(clients[c])
  <2> SUFFICES Calm(clients'[c])
    OBVIOUS
  <2>1. Calm(clients[c])
    OBVIOUS
  <2>2. clients[c] \in Client
    BY <1>0
  <2>3. Calm(Sent(clients[c]))
    BY <2>2, Records DEF Left, OnMap
  <2>4. \A a \in {FALSE, clients[c].active} :
          a = clients[c].active => Calm([clients[c] EXCEPT !.listed = a])
    BY <2>2 DEF Client, Left, OnMap
  <2>5. Calm([clients[c] EXCEPT !.joined = FALSE, !.active = FALSE])
    BY <2>2, Updates DEF Left, OnMap
  <2>6. Calm([Disconnected(clients[c]) EXCEPT !.active = FALSE])
    <3> DEFINE a == Disconnected(clients[c])
               q == [a EXCEPT !.active = FALSE]
    <3>1. a \in Client /\ ~a.joined /\ a.reading = clients[c].reading
      BY <2>2, Records
    <3> HIDE DEF a
    <3>2. ~q.joined /\ q.reading = a.reading
      BY <3>1 DEF Client
    <3> HIDE DEF q
    <3>3. Calm(q)
      BY <3>1, <3>2 DEF Left, OnMap
    <3> QED BY <3>3 DEF q, a
  <2>7. Calm([clients[c] EXCEPT !.entity = IF clients[c].entity = "map" THEN "map" ELSE "none"])
    BY <2>2 DEF Client, Left, OnMap
  <2>8. Calm([clients[c] EXCEPT !.idle = TRUE])
    BY <2>2 DEF Client, Left, OnMap
  <2> HIDE DEF Calm
  <2>9. ASSUME NEW b \in Clients, RemoveInactive(b) PROVE Calm(clients'[c])
    <3>1. Calm([clients[c] EXCEPT !.listed = clients[c].active])
      BY <2>4
    <3> QED BY <1>0, <2>1, <2>9, <3>1 DEF RemoveInactive
  <2>10. ASSUME NEW b \in Clients, Visit(b) PROVE Calm(clients'[c])
    BY <1>0, <2>1, <2>5, <2>10 DEF Visit
  <2>11. CASE ProcessDestroy
    BY <1>0, <2>1, <2>6, <2>11 DEF ProcessDestroy
  <2>12. CASE SendToClients
    BY <2>1, <2>3, <2>12 DEF SendToClients
  <2>13. CASE UpdateUnlock
    BY <2>7, <2>13 DEF UpdateUnlock
  <2>14. CASE DropClient
    BY <1>0, <2>1, <2>3, <2>14 DEF DropClient
  <2>15. ASSUME NEW b \in Clients, GoIdle(b) PROVE Calm(clients'[c])
    BY <1>0, <2>1, <2>8, <2>15 DEF GoIdle
  <2>16. CASE clients' = clients
    BY <2>1, <2>16
  <2> QED BY <2>9, <2>10, <2>11, <2>12, <2>13, <2>14, <2>15, <2>16
          DEF ProcessStep, ProcessLock, Removed, FreeClient, ProcessUnlock, ProcessLoop,
              Listen, UpdateStep, UpdateLock, SendPacket, LoadNpc, GetClient
<1> QED BY <1>1, <1>2 DEF CalmEffect

\* ReadInv is inductive with the types.
LEMMA ReadStep == TypeOK /\ ReadInv /\ [Next]_vars => ReadInv'
<1> SUFFICES ASSUME TypeOK, ReadInv, [Next]_vars PROVE ReadInv'
  OBVIOUS
<1>1. CASE UNCHANGED vars
  BY <1>1, CalmReads DEF vars, CalmEffect
<1> QED BY <1>1, NetReads, CalmReads, CalmSteps DEF Next

\* Only remove_if takes a client off the list, and only an inactive one.
LEMMA OnlyInactiveRemoved ==
  ASSUME TypeOK, Next, NEW c \in Clients, clients[c].listed, ~clients'[c].listed
  PROVE  ~clients[c].active
<1> USE DEF Goto, GotoWith, Set
<1>0. clients[c] \in Client /\ clients \in [Clients -> Client]
  BY DEF TypeOK
<1>1. ASSUME NEW n \in Net, NetStarts(n) \/ NetGoesOn(n) PROVE clients'[c].listed
  <2>1. PICK l, d : \E b \in Clients : \E r \in Client : NetEffect(n, l, d, b, r)
    BY <1>1, NetSteps
  <2> QED BY <2>1, NetMoves DEF NetEffect
<1>2. ASSUME NEW b \in Clients, RemoveInactive(b) PROVE ~clients[c].active
  <2>1. [clients[c] EXCEPT !.listed = clients[c].active].listed = clients[c].active
    BY <1>0 DEF Client
  <2> QED BY <1>0, <1>2, <2>1 DEF RemoveInactive
<1>3. ASSUME NEW b \in Clients, Visit(b) \/ GoIdle(b) PROVE clients'[c].listed
  <2>1. /\ [clients[c] EXCEPT !.joined = FALSE, !.active = FALSE].listed
        /\ [clients[c] EXCEPT !.idle = TRUE].listed
    BY <1>0 DEF Client
  <2> QED BY <1>0, <1>3, <2>1 DEF Visit, GoIdle
<1>4. CASE ProcessDestroy
  <2> DEFINE a == Disconnected(clients[c])
  <2>1. a \in Client /\ a.listed
    BY <1>0, Records
  <2> HIDE DEF a
  <2>2. [a EXCEPT !.active = FALSE].listed
    BY <2>1 DEF Client
  <2>3. clients'[c] = clients[c] \/ clients'[c] = [a EXCEPT !.active = FALSE]
    BY <1>0, <1>4 DEF ProcessDestroy, a
  <2> QED BY <2>2, <2>3
<1>5. CASE SendToClients \/ DropClient
  <2>1. Sent(clients[c]).listed
    BY <1>0, Records
  <2> QED BY <1>0, <1>5, <2>1 DEF SendToClients, DropClient
<1>6. CASE UpdateUnlock
  <2>1. \A e \in {"none", "map", "dying"} : [clients[c] EXCEPT !.entity = e].listed
    BY <1>0 DEF Client
  <2> QED BY <1>6, <2>1 DEF UpdateUnlock
<1>7. CASE clients' = clients
  BY <1>7
<1> QED BY <1>1, <1>2, <1>3, <1>4, <1>5, <1>6, <1>7
        DEF Next, ProcessStep, ProcessLock, Removed, FreeClient, ProcessUnlock, ProcessLoop,
            Listen, UpdateStep, UpdateLock, SendPacket, LoadNpc, GetClient

(***************************************************************************)
(* For any number of network threads and clients, the process thread takes *)
(* a client whose entity is on the map off the list only between the       *)
(* shutdown(true) and the OnDisconnected of its read handler.              *)
(***************************************************************************)
THEOREM JoinedStays == Spec => RemovedAfterLeaving
<1>1. Init => ReadInv
  BY ThreadsAssumption DEF Init, ReadInv, OneReader, LoadInv, LeavingInv, Left, Unused, Readers,
     Threads
<1>2. TypeOK /\ ReadInv /\ [Next]_vars => [RemovesLeaver]_vars
  BY OnlyInactiveRemoved DEF ReadInv, LeavingInv, Left, RemovesLeaver
<1> QED BY <1>1, <1>2, ReadStep, TypeCorrect, PTL DEF Spec, RemovedAfterLeaving
=============================================================================
