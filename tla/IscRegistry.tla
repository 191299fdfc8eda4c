---------------------------- MODULE IscRegistry ----------------------------
(***************************************************************************)
(* How the login server comes to know the world servers and their          *)
(* channels.  A character server connects to the login server and          *)
(* registers (CCharISC::OnConnected); a map server connects to the         *)
(* character server and registers (CMapISC::OnConnected), which passes the *)
(* registration on (CCharISC::ServerRegister); when the map server goes    *)
(* away, so does its channel (OnShutdown, CLoginISC::ServerShutdown).      *)
(* Processes crash and restart; a client that loses its connection tries   *)
(* to reconnect, once (reconnect() in OnShutdown).                         *)
(*                                                                         *)
(* A connection is a record of both ends.  The client's end: from, cOpen.  *)
(* The server's end, an entry of its isc_list_: listed, sOpen (active_),   *)
(* id, type, channels (the ids in channel_list_ of CLoginISC, whose order  *)
(* only the display shows), failed (its read ended in the default branch   *)
(* of recv_data).  msgs are under way to the server; servers send nothing  *)
(* back.                                                                   *)
(***************************************************************************)
EXTENDS Integers, Sequences, FiniteSets

CONSTANTS
    Maps,         \* the map servers
    MaxConns,     \* bound on the connections made
    MaxFaults     \* bound on the faults: crashes and failed reads
ASSUME RegistryAssumption ==
    /\ {"login", "char"} \cap Maps = {}
    /\ MaxConns \in Nat /\ MaxFaults \in Nat

Clients == Maps \cup {"char"}
Target(p) == IF p = "char" THEN "login" ELSE "char"

VARIABLES
    up,        \* the processes that run
    conn,      \* the connections, in the order they were made
    link,      \* of each client: its connection, active_, is it read, is it a second one
    inList,    \* the character server's own link is in its isc_list_
    count,     \* server_count_ of the character server
    stuck,     \* its process thread waits for the list mutex it holds
    faults
vars == <<up, conn, link, inList, count, stuck, faults>>

NoLink == [conn |-> 0, active |-> FALSE, reading |-> FALSE, renewed |-> FALSE]

Init ==
    /\ up = {"login"}
    /\ conn = <<>>
    /\ link = [p \in Clients |-> NoLink]
    /\ inList = FALSE /\ count = 0 /\ stuck = FALSE /\ faults = 0

Open(c) == c # 0 /\ conn[c].cOpen /\ conn[c].sOpen
ToLogin == link["char"].conn

-----------------------------------------------------------------------------
(* connect(): the server accepts (OnAccepted), the client registers        *)
(* (OnConnected).  A connection that cannot be made leaves active_ false.  *)
(* old is the connection a reconnect gives up first, 0 for none.           *)
Registration(p) ==
    [kind |-> "register", type |-> IF p = "char" THEN "CHAR" ELSE "MAP_MASTER", id |-> 0]

OnAccepted(p) ==
    [from |-> p, to |-> Target(p), msgs |-> <<Registration(p)>>, cOpen |-> TRUE, sOpen |-> TRUE,
     listed |-> TRUE, failed |-> FALSE, id |-> IF p = "char" THEN 0 ELSE count, type |-> "none",
     channels |-> {}]

Without(cs, old) == IF old = 0 THEN cs ELSE [cs EXCEPT ![old].cOpen = FALSE]

(* Slip: reconnect() connects without the registration of OnConnected. *)
connect_Quiet(p, old) ==
    IF Target(p) \in up
      THEN /\ Len(conn) < MaxConns
           /\ conn' = Append(Without(conn, old),
                             IF old = 0 THEN OnAccepted(p) ELSE [OnAccepted(p) EXCEPT !.msgs = <<>>])
           /\ link' = [link EXCEPT ![p] = [conn |-> Len(conn'), active |-> TRUE,
                                           reading |-> old = 0, renewed |-> old # 0]]
           /\ count' = IF Target(p) = "char" THEN count + 1 ELSE count
      ELSE /\ conn' = Without(conn, old)
           /\ link' = [link EXCEPT ![p].active = FALSE]
           /\ UNCHANGED count
connect(p, old) ==
    IF Target(p) \in up
      THEN /\ Len(conn) < MaxConns
           /\ conn' = Append(Without(conn, old), OnAccepted(p))
           /\ link' = [link EXCEPT ![p] = [conn |-> Len(conn'), active |-> TRUE,
                                           reading |-> old = 0, renewed |-> old # 0]]
           /\ count' = IF Target(p) = "char" THEN count + 1 ELSE count
      ELSE /\ conn' = Without(conn, old)
           /\ link' = [link EXCEPT ![p].active = FALSE]
           /\ UNCHANGED count

StartMap(m) ==
    /\ m \in Maps \ up
    /\ up' = up \cup {m}
    /\ connect(m, 0)
    /\ UNCHANGED <<inList, stuck, faults>>

(* The link to the login server goes into the list of servers at once. *)
StartChar ==
    /\ "char" \notin up
    /\ up' = up \cup {"char"}
    /\ connect("char", 0)
    /\ inList' = TRUE
    /\ UNCHANGED <<stuck, faults>>

StartLogin ==
    /\ "login" \notin up
    /\ up' = up \cup {"login"}
    /\ UNCHANGED <<conn, link, inList, count, stuck, faults>>

(* A process ends: its connections close, what it knew is gone.  silent:   *)
(* the machine vanished from the network and nobody is told.               *)
Crash(p, silent) ==
    /\ p \in up
    /\ faults < MaxFaults
    /\ faults' = faults + 1
    /\ up' = up \ {p}
    /\ conn' = [c \in DOMAIN conn |->
                  CASE conn[c].to = p -> [conn[c] EXCEPT !.sOpen = FALSE, !.listed = FALSE,
                                                        !.failed = FALSE, !.msgs = <<>>]
                    [] conn[c].from = p /\ ~silent -> [conn[c] EXCEPT !.cOpen = FALSE]
                    [] OTHER -> conn[c]]
    /\ link' = IF p \in Clients THEN [link EXCEPT ![p] = NoLink] ELSE link
    /\ IF p = "char" THEN inList' = FALSE /\ count' = 0 /\ stuck' = FALSE
                     ELSE UNCHANGED <<inList, count, stuck>>

-----------------------------------------------------------------------------
(* The login server. *)
Incoming(c, s, kind) ==
    /\ c \in DOMAIN conn
    /\ conn[c].to = s /\ conn[c].sOpen /\ conn[c].msgs # <<>> /\ Head(conn[c].msgs).kind = kind

LoginServerRegister(c) ==
    /\ Incoming(c, "login", "register")
    /\ LET m == Head(conn[c].msgs)
       IN  conn' = [conn EXCEPT ![c] =
                     IF m.type = "CHAR"
                       THEN [conn[c] EXCEPT !.msgs = Tail(@), !.type = "CHAR"]
                       ELSE [conn[c] EXCEPT !.msgs = Tail(@), !.channels = @ \cup {m.id}]]
    /\ UNCHANGED <<up, link, inList, count, stuck, faults>>

LoginServerShutdown(c) ==
    /\ Incoming(c, "login", "shutdown")
    /\ LET id == Head(conn[c].msgs).id
       IN  conn' = [conn EXCEPT ![c] = [conn[c] EXCEPT !.msgs = Tail(@),
                                                 !.channels = @ \ {id}]]
    /\ UNCHANGED <<up, link, inList, count, stuck, faults>>

(* The client's end of a connection closed: CRoseISC::OnShutdown agrees,   *)
(* the process thread takes the entry out of the list.                     *)
Ended(c, s) == c \in DOMAIN conn /\ conn[c].to = s /\ conn[c].sOpen /\ conn[c].msgs = <<>> /\ ~conn[c].cOpen

LoginOnShutdown(c) ==
    /\ Ended(c, "login")
    /\ conn' = [conn EXCEPT ![c].sOpen = FALSE]
    /\ UNCHANGED <<up, link, inList, count, stuck, faults>>

-----------------------------------------------------------------------------
(* The character server.  send() to the login server: what is written to a *)
(* link that is inactive or broken is lost.                                *)
Tell(cs, msg) ==
    IF link["char"].active /\ Open(ToLogin)
      THEN [cs EXCEPT ![ToLogin].msgs = Append(@, msg)] ELSE cs

(* A map server's registration is passed on, with the id of the link; with *)
(* no link to the login server in the list the map server is sent away.    *)
(* Slip: the registration is noted but not passed on. *)
CharServerRegister_KeptQuiet(c) ==
    /\ Incoming(c, "char", "register") /\ ~stuck
    /\ LET taken == [conn EXCEPT ![c] = [conn[c] EXCEPT !.msgs = Tail(@), !.type = "MAP_MASTER"]]
       IN  conn' = IF inList THEN taken ELSE [taken EXCEPT ![c].sOpen = FALSE]
    /\ UNCHANGED <<up, link, inList, count, stuck, faults>>
CharServerRegister(c) ==
    /\ Incoming(c, "char", "register") /\ ~stuck
    /\ LET taken == [conn EXCEPT ![c] = [conn[c] EXCEPT !.msgs = Tail(@), !.type = "MAP_MASTER"]]
       IN  conn' = IF inList
                     THEN Tell(taken, [kind |-> "register", type |-> "MAP_MASTER", id |-> conn[c].id])
                     ELSE [taken EXCEPT ![c].sOpen = FALSE]
    /\ UNCHANGED <<up, link, inList, count, stuck, faults>>

(* The connection of a map server ended: the login server is told. *)
(* Slip: it is not told. *)
CharOnShutdown_Untold(c) ==
    /\ Ended(c, "char") /\ ~stuck
    /\ conn' = [conn EXCEPT ![c].sOpen = FALSE]
    /\ UNCHANGED <<up, link, inList, count, stuck, faults>>
CharOnShutdown(c) ==
    /\ Ended(c, "char") /\ ~stuck
    /\ LET ended == [conn EXCEPT ![c].sOpen = FALSE]
       IN  conn' = IF inList THEN Tell(ended, [kind |-> "shutdown", type |-> conn[c].type, id |-> conn[c].id])
                             ELSE ended
    /\ UNCHANGED <<up, link, inList, count, stuck, faults>>

(* The process thread finds a map server silent.  It holds the list mutex, *)
(* and OnShutdown locks it again (ccharisc.cpp:156).                       *)
CharTimeout(c) ==
    /\ c \in DOMAIN conn
    /\ conn[c].to = "char" /\ conn[c].listed /\ conn[c].sOpen /\ conn[c].cOpen
    /\ link[conn[c].from].conn # c      \* nobody is there any more
    /\ ~stuck
    /\ stuck' = TRUE
    /\ UNCHANGED <<up, conn, link, inList, count, faults>>

(* The process threads take inactive entries out of the lists. *)
(* Slip: the entries are taken out without a look at is_active(). *)
Sweep_All(s) ==
    /\ s \in up
    /\ s = "char" => ~stuck
    /\ conn' = [c \in DOMAIN conn |-> [conn[c] EXCEPT !.listed = @ /\ conn[c].to # s]]
    /\ inList' = (inList /\ s # "char")
    /\ UNCHANGED <<up, link, count, stuck, faults>>
Sweep(s) ==
    /\ s \in up
    /\ s = "char" => ~stuck
    /\ conn' = [c \in DOMAIN conn |->
                  [conn[c] EXCEPT !.listed = @ /\ (conn[c].to = s => conn[c].sOpen)]]
    /\ inList' = (inList /\ (s = "char" => link["char"].active))
    /\ UNCHANGED <<up, link, count, stuck, faults>>

-----------------------------------------------------------------------------
(* The client's end.  OnShutdown reconnects; whether or not that works,    *)
(* recv_data does not start to read again.                                 *)
Lost(p) == p \in up /\ link[p].active /\ ~conn[link[p].conn].sOpen

(* The read fails. *)
ClientOnShutdown(p) ==
    /\ p \in Clients /\ Lost(p) /\ link[p].reading
    /\ connect(p, link[p].conn)
    /\ UNCHANGED <<up, inList, stuck, faults>>

(* Nobody reads: a ping (ISC_ALIVE) that is answered by a reset, or, of    *)
(* the link in the character server's list, the process thread.            *)
ClientNotices(p) ==
    /\ p \in Clients /\ Lost(p) /\ ~link[p].reading
    /\ p = "char" => ~stuck
    /\ connect(p, link[p].conn)
    /\ UNCHANGED <<up, inList, stuck, faults>>

-----------------------------------------------------------------------------
(* Any other read error (the default branch of recv_data: a time-out, an   *)
(* unreachable host) ends in shutdown(true): the socket is closed, active_ *)
(* cleared, OnShutdown is not called.  Of a server's end: what is under    *)
(* way is lost, and the login server is not told of a map server.          *)
ReadError(c) ==
    /\ c \in DOMAIN conn /\ conn[c].sOpen
    /\ faults < MaxFaults
    /\ faults' = faults + 1
    /\ conn' = [conn EXCEPT ![c] = [conn[c] EXCEPT !.sOpen = FALSE, !.failed = TRUE, !.msgs = <<>>]]
    /\ UNCHANGED <<up, link, inList, count, stuck>>

(* Of a client's end: it does not reconnect. *)
ClientReadError(p) ==
    /\ p \in up /\ link[p].active /\ link[p].reading
    /\ faults < MaxFaults
    /\ faults' = faults + 1
    /\ conn' = [conn EXCEPT ![link[p].conn].cOpen = FALSE]
    /\ link' = [link EXCEPT ![p].active = FALSE]
    /\ UNCHANGED <<up, inList, count, stuck>>

Next ==
    \/ StartChar \/ StartLogin
    \/ \E m \in Maps : StartMap(m)
    \/ \E p \in Clients \cup {"login"}, silent \in BOOLEAN : (silent => p \in Maps) /\ Crash(p, silent)
    \/ \E c \in 1..MaxConns :
         LoginServerRegister(c) \/ LoginServerShutdown(c) \/ LoginOnShutdown(c)
           \/ CharServerRegister(c) \/ CharOnShutdown(c) \/ CharTimeout(c) \/ ReadError(c)
    \/ \E s \in {"login", "char"} : Sweep(s)
    \/ \E p \in Clients : ClientOnShutdown(p) \/ ClientNotices(p) \/ ClientReadError(p)

(* The network threads handle what arrived and what ended, the process     *)
(* threads sweep and time out.  Nobody must start a process, and a ping    *)
(* into a dead connection may go unanswered.                               *)
Fairness ==
    /\ \A c \in 1..MaxConns :
         /\ WF_vars(LoginServerRegister(c)) /\ WF_vars(LoginServerShutdown(c)) /\ WF_vars(LoginOnShutdown(c))
         /\ WF_vars(CharServerRegister(c)) /\ WF_vars(CharOnShutdown(c))
    /\ \A s \in {"login", "char"} : WF_vars(Sweep(s))
    /\ \A p \in Clients : WF_vars(ClientOnShutdown(p))
    /\ WF_vars(ClientNotices("char"))

Spec == Init /\ [][Next]_vars /\ Fairness

-----------------------------------------------------------------------------
TypeOK ==
    /\ up \subseteq Clients \cup {"login"}
    /\ Len(conn) <= MaxConns
    /\ \A c \in DOMAIN conn :
         /\ conn[c].from \in Clients /\ conn[c].to = Target(conn[c].from)
         /\ conn[c].type \in {"none", "CHAR", "MAP_MASTER"}
         /\ conn[c].sOpen => conn[c].listed /\ conn[c].to \in up
    /\ \A p \in Clients : link[p].active => p \in up /\ link[p].conn \in DOMAIN conn
    /\ {inList, stuck} \subseteq BOOLEAN
    /\ count \in 0..MaxConns /\ faults \in 0..MaxFaults

(* The messages to the login server that take channel id away. *)
GoingAway(c, id) == \E i \in DOMAIN conn[c].msgs : conn[c].msgs[i].kind = "shutdown" /\ conn[c].msgs[i].id = id

(* The login server offers no channel whose map server is gone: a channel  *)
(* on the open link of the character server is the id of a map link that   *)
(* is still active there, or the message that removes it is on its way; or *)
(* the read of that map link failed in the default branch of recv_data,    *)
(* whose shutdown(true) tells nobody: then the ghost stays.                *)
NoGhostChannel ==
    LET c == ToLogin
    IN  "char" \in up /\ Open(c) =>
          \A id \in conn[c].channels :
            \/ GoingAway(c, id)
            \/ \E d \in DOMAIN conn : conn[d].to = "char" /\ (conn[d].sOpen \/ conn[d].failed) /\ conn[d].id = id

(* Once the faults are over: a character server whose first link to the   *)
(* login server holds has all its map servers listed there as channels.    *)
(* (A link that was renewed starts with an empty list, ccharisc.cpp:150.)  *)
Held == {"char", "login"} \subseteq up /\ link["char"].active /\ ~link["char"].renewed /\ Open(ToLogin)
ChannelsMatch ==
    <>[](Held /\ ~stuck =>
           \A m \in Maps \cap up :
             (link[m].active /\ Open(link[m].conn)) =>
               conn[link[m].conn].id \in conn[ToLogin].channels)

(* A character server whose link to the login server is alive, the first   *)
(* or a renewed one, is offered to the players.                            *)
CharListed ==
    <>[](("char" \in up /\ link["char"].active /\ Open(ToLogin)) => conn[ToLogin].type = "CHAR")
=============================================================================
