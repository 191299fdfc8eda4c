------------------------------ MODULE Session ------------------------------
(***************************************************************************)
(* The life of an account in the database while its player moves from the  *)
(* login server to the char server and on to the map servers.              *)
(*                                                                         *)
(* The three servers share two tables: accounts (here: the "online" bit)   *)
(* and sessions (primary key id).  Every client connection is an object of *)
(* CLoginClient, CCharClient or CMapClient; its packet handlers run on the *)
(* network threads, the idle time-out runs on the server's process thread, *)
(* and the login server's main loop removes stale sessions.                *)
(*                                                                         *)
(* One action is one handler, except where a handler uses the database     *)
(* more than once: UserLogin, deleteStaleSessions and OnDisconnected of    *)
(* the login and the char server take one action per statement, and each   *)
(* of those statements may throw.  Replies are left out: none of them is   *)
(* read back.  A connection slot is reused for a new connection.           *)
(***************************************************************************)
EXTENDS Integers

CONSTANTS
  Users,        \* account ids
  LoginConns,   \* connections to the login server
  CharConns,    \* connections to the char server
  MapConns,     \* connections to the map servers
  Calls,        \* the threads that may be inside one connection's
                \* OnDisconnected: read handler, write handler, process thread
  NoUser,       \* a user id no account has: 0 before authentication
  MaxClock      \* bound: time(nullptr) runs from 1 to MaxClock

ASSUME ClockAssumption == MaxClock \in Nat \ {0}
ASSUME NoUserAssumption == NoUser \notin Users

VARIABLES
  online,    \* accounts.online
  sessions,  \* sessions table: id -> row
  clock,     \* time(nullptr) on the login server, in seconds
  login,     \* CLoginClient objects
  char,      \* CCharClient objects
  map,       \* CMapClient objects
  sweep,     \* deleteStaleSessions: "idle", or "remove" between its statements
  issued,    \* history: pairs <<session id, user>> that UserLogin gave out
  lost       \* history: accounts whose online bit lost its last owner

vars == <<online, sessions, clock, login, char, map, sweep, issued, lost>>

Ids == 1 .. MaxClock
NoId == 0
UserOrNone == Users \cup {NoUser}
NoRow == [user |-> NoUser, stale |-> FALSE]
Row == [user : UserOrNone, stale : BOOLEAN]

(***************************************************************************)
(* shutdown() calls disconnect() and so OnDisconnected, and only then      *)
(* clears active_.  Until the process thread has taken the connection off  *)
(* its list it is "closing": what had arrived is still handled, and the    *)
(* read handler, a write handler and the process thread may each call      *)
(* OnDisconnected, once more or at the same time.  An error the read       *)
(* handler does not name ends in shutdown(true), which calls nothing:      *)
(* "dropped" until the handler's own call of OnDisconnected.               *)
(***************************************************************************)
Sock == {"closed", "open", "dropped", "closing"}
Reading == {"open", "closing"}

\* The statement at which each call of OnDisconnected stands.
LoginStmts == [Calls -> {"none", "update"}]
CharStmts == [Calls -> {"none", "delete", "update"}]

LoginConn == [sock : Sock, state : {"DEFAULT", "LOGGEDIN", "TRANSFERING"},
              user : UserOrNone, sid : Ids \cup {NoId}, pending : {"none", "update"},
              stmt : LoginStmts]
CharConn == [sock : Sock, state : {"DEFAULT", "LOGGEDIN", "TRANSFERING"},
             user : UserOrNone, sid : Ids \cup {NoId},
             stmt : CharStmts]
MapConn == [sock : Sock, state : {"DEFAULT", "LOGGEDIN", "SWITCHING"},
            user : UserOrNone, sid : Ids \cup {NoId}, connid : UserOrNone]

\* The call of thread t now stands at v.
At(stmt, t, v) == [stmt EXCEPT ![t] = v]
NoCalls == [t \in Calls |-> "none"]
NewLogin == [sock |-> "open", state |-> "DEFAULT", user |-> NoUser,
             sid |-> NoId, pending |-> "none", stmt |-> NoCalls]
NewChar == [sock |-> "open", state |-> "DEFAULT", user |-> NoUser,
            sid |-> NoId, stmt |-> NoCalls]
NewMap(id) == [sock |-> "open", state |-> "DEFAULT", user |-> NoUser,
               sid |-> NoId, connid |-> id]

Closed(new) == [new EXCEPT !.sock = "closed"]

Init ==
  /\ online = [u \in Users |-> FALSE]
  /\ sessions = [s \in Ids |-> NoRow]
  /\ clock = 1
  /\ login = [c \in LoginConns |-> Closed(NewLogin)]
  /\ char = [k \in CharConns |-> Closed(NewChar)]
  /\ map = [m \in MapConns |-> Closed(NewMap(NoUser))]
  /\ sweep = "idle"
  /\ issued = {}
  /\ lost = {}

Exists(s) == s \in Ids /\ sessions[s].user # NoUser
RowsOf(u) == {s \in Ids : u # NoUser /\ sessions[s].user = u}

\* UPDATE accounts SET online = 0 WHERE id IN us
Offline(us) == [u \in Users |-> online[u] /\ u \notin us]
\* DELETE FROM sessions WHERE id IN ids
Without(ids) == [s \in Ids |-> IF s \in ids THEN NoRow ELSE sessions[s]]
\* UPDATE sessions SET time = now() WHERE userid = u
Refreshed(u) ==
  [s \in Ids |-> IF s \in RowsOf(u) THEN [sessions[s] EXCEPT !.stale = FALSE]
                                    ELSE sessions[s]]

\* An open login connection of u will run OnDisconnected.
Held(u) == \E c \in LoginConns : /\ login[c].sock \in {"open", "dropped"}
                                  /\ login[c].state # "DEFAULT"
                                  /\ login[c].user = u
\* Accounts among us that are online and have no session to be found by.
Stranded(us) == {u \in us \cap Users : online[u] /\ RowsOf(u) = {}}

-----------------------------------------------------------------------------
(* Login server *)

LoginAccept(c) ==
  /\ login[c].sock = "closed"
  /\ login' = [login EXCEPT ![c] = NewLogin]
  /\ UNCHANGED <<online, sessions, clock, char, map, sweep, issued, lost>>

(***************************************************************************)
(* UserLogin, up to the UPDATE: with a char server up, the right password  *)
(* and access, the account must be offline and have no session; userid_    *)
(* and session_id_, the time in seconds, are set.  Its two SELECTs are one *)
(* step: nothing in between adds an outcome.                               *)
(***************************************************************************)
\* Slip: the id is one second ahead of the clock.
UserLoginNextSecond(c, u) ==
  /\ login[c].sock \in Reading
  /\ login[c].state = "DEFAULT"
  /\ login[c].pending = "none"
  /\ ~online[u]
  /\ RowsOf(u) = {}
  /\ login' = [login EXCEPT ![c] =
         [login[c] EXCEPT !.pending = "update", !.user = u, !.sid = clock + 1]]
  /\ UNCHANGED <<online, sessions, clock, char, map, sweep, issued, lost>>

UserLogin(c, u) ==
  /\ login[c].sock \in Reading
  /\ login[c].state = "DEFAULT"
  /\ login[c].pending = "none"
  /\ ~online[u]
  /\ RowsOf(u) = {}
  /\ login' = [login EXCEPT ![c] =
         [login[c] EXCEPT !.pending = "update", !.user = u, !.sid = clock]]
  /\ UNCHANGED <<online, sessions, clock, char, map, sweep, issued, lost>>

(***************************************************************************)
(* UserLogin, the UPDATE.  If the connection was closed meanwhile, nobody  *)
(* need call OnDisconnected again: the bit may stay.                       *)
(***************************************************************************)
UserLoginUpdate(c) ==
  LET u == login[c].user
  IN /\ login[c].pending = "update"
     /\ login' = [login EXCEPT ![c] =
         [login[c] EXCEPT !.pending = "none", !.state = "LOGGEDIN"]]
     /\ online' = [online EXCEPT ![u] = TRUE]
     /\ issued' = issued \cup {<<login[c].sid, u>>}
     /\ lost' = lost \cup (IF login[c].sock = "open" THEN {} ELSE {u})
     /\ UNCHANGED <<sessions, clock, char, map, sweep>>

\* The UPDATE throws: the catch clause only replies FAILED.
UserLoginFails(c) ==
  /\ login[c].pending = "update"
  /\ login' = [login EXCEPT ![c].pending = "none"]
  /\ UNCHANGED <<online, sessions, clock, char, map, sweep, issued, lost>>

(***************************************************************************)
(* ServerSelect.  found: a char server with the requested id is registered.*)
(* The INSERT throws when the id is taken; the state is already set.       *)
(***************************************************************************)
\* Slip: no test of the login state.
ServerSelectAnyState(c, found) ==
  /\ found
  /\ login[c].sock \in Reading
  /\ login[c].sid # NoId
  /\ ~Exists(login[c].sid)
  /\ sessions' = [sessions EXCEPT ![login[c].sid] =
                    [user |-> login[c].user, stale |-> FALSE]]
  /\ UNCHANGED <<online, clock, login, char, map, sweep, issued, lost>>

ServerSelect(c, found) ==
  /\ login[c].sock \in Reading
  /\ login[c].state = "LOGGEDIN"
  /\ login' = [login EXCEPT ![c].state = "TRANSFERING"]
  /\ sessions' =
       IF found /\ ~Exists(login[c].sid)
       THEN [sessions EXCEPT ![login[c].sid] =
               [user |-> login[c].user, stale |-> FALSE]]
       ELSE sessions
  /\ UNCHANGED <<online, clock, char, map, sweep, issued, lost>>

\* shutdown(true): the read handler met an error it does not name.  No packet
\* is being handled then.
LoginDrop(c) ==
  /\ login[c].sock = "open"
  /\ login[c].pending = "none"
  /\ login' = [login EXCEPT ![c].sock = "dropped"]
  /\ UNCHANGED <<online, sessions, clock, char, map, sweep, issued, lost>>

(***************************************************************************)
(* CLoginClient::OnDisconnected: no session with this connection's id      *)
(* means the player goes no further, so the account goes offline.  First   *)
(* the SELECT; a row with this id that is another user's keeps the bit.    *)
(***************************************************************************)
LoginOnDisconnected(c, t) ==
  LET u == login[c].user
      s == login[c].sid
  IN /\ login[c].sock # "closed"
     /\ login[c].stmt[t] = "none"
     /\ login' = [login EXCEPT ![c] =
          [login[c] EXCEPT !.sock = "closing",
              !.stmt = At(login[c].stmt, t, IF Exists(s) THEN "none" ELSE "update")]]
     /\ lost' = lost \cup {v \in Users : v = u /\ Exists(s) /\ sessions[s].user # v}
     /\ UNCHANGED <<online, sessions, clock, char, map, sweep, issued>>

\* CLoginClient::OnDisconnected, the UPDATE.
LoginOnDisconnectedUpdate(c, t) ==
  /\ login[c].stmt[t] = "update"
  /\ online' = Offline({login[c].user})
  /\ login' = [login EXCEPT ![c].stmt = At(login[c].stmt, t, "none")]
  /\ UNCHANGED <<sessions, clock, char, map, sweep, issued, lost>>

\* Either statement throws: nobody need call OnDisconnected again.
LoginOnDisconnectedFails(c, t) ==
  /\ login[c].sock # "closed"
  /\ login' = [login EXCEPT ![c] =
        [login[c] EXCEPT !.sock = "closing", !.stmt = At(login[c].stmt, t, "none")]]
  /\ lost' = lost \cup Stranded({login[c].user})
  /\ UNCHANGED <<online, sessions, clock, char, map, sweep, issued>>

(***************************************************************************)
(* The process thread drops the inactive connection from client_list_.     *)
(* After shutdown(true) it may do so before OnDisconnected is called, on   *)
(* an object that nothing else keeps.  Calls in progress go on with the    *)
(* values they read, so the slot is reused when they are over.             *)
(***************************************************************************)
LoginRemove(c) ==
  /\ login[c].sock \in {"dropped", "closing"}
  /\ login[c].pending = "none"
  /\ login[c].stmt = NoCalls
  /\ lost' = lost \cup (IF login[c].sock = "dropped" THEN Stranded({login[c].user}) ELSE {})
  /\ login' = [login EXCEPT ![c] = Closed(NewLogin)]
  /\ UNCHANGED <<online, sessions, clock, char, map, sweep, issued>>

(***************************************************************************)
(* The login server crashes and restarts: no OnDisconnected runs, and the  *)
(* start-up code does not touch accounts.online.                           *)
(***************************************************************************)
LoginCrash ==
  /\ \E c \in LoginConns : login[c].sock # "closed"
  /\ login' = [c \in LoginConns |-> Closed(NewLogin)]
  /\ sweep' = "idle"
  /\ lost' = lost \cup Stranded({login[c].user : c \in LoginConns})
  /\ UNCHANGED <<online, sessions, clock, char, map, issued>>

-----------------------------------------------------------------------------
(* Char server *)

CharAccept(k) ==
  /\ char[k].sock = "closed"
  /\ char' = [char EXCEPT ![k] = NewChar]
  /\ UNCHANGED <<online, sessions, clock, login, map, sweep, issued, lost>>

\* JoinServerReply: the client names session s and knows its user's password.
CharJoin(k, s) ==
  /\ char[k].sock \in Reading
  /\ char[k].state = "DEFAULT"
  /\ Exists(s)
  /\ char' = [char EXCEPT ![k] =
         [char[k] EXCEPT !.state = "LOGGEDIN", !.sid = s,
                   !.user = sessions[s].user]]
  /\ UNCHANGED <<online, sessions, clock, login, map, sweep, issued, lost>>

\* PAKCS_ALIVE when updateSession's throttle lets it through.
CharAlive(k) ==
  /\ char[k].sock \in Reading
  /\ char[k].state = "LOGGEDIN"
  /\ sessions' = Refreshed(char[k].user)
  /\ UNCHANGED <<online, clock, login, char, map, sweep, issued, lost>>

(***************************************************************************)
(* SendCharSelectReply.  The state changes before the character is looked  *)
(* up; which character it is does not matter here.                         *)
(***************************************************************************)
CharSelect(k) ==
  /\ char[k].sock \in Reading
  /\ char[k].state = "LOGGEDIN"
  /\ char' = [char EXCEPT ![k].state = "TRANSFERING"]
  /\ UNCHANGED <<online, sessions, clock, login, map, sweep, issued, lost>>

\* shutdown(true), as for the login server.
CharDrop(k) ==
  /\ char[k].sock = "open"
  /\ char' = [char EXCEPT ![k].sock = "dropped"]
  /\ UNCHANGED <<online, sessions, clock, login, map, sweep, issued, lost>>

\* CCharClient::OnDisconnected, the SELECT: was the account online?
CharOnDisconnected(k, t) ==
  LET u == char[k].user
  IN /\ char[k].sock # "closed"
     /\ char[k].stmt[t] = "none"
     /\ char' = [char EXCEPT ![k] =
          [char[k] EXCEPT !.sock = "closing",
              !.stmt = At(char[k].stmt, t,
                          IF u \in Users /\ online[u] THEN "delete" ELSE "update")]]
     /\ UNCHANGED <<online, sessions, clock, login, map, sweep, issued, lost>>

\* Slip: the account's bit is not cleared afterwards.
CharOnDisconnectedDeleteOnly(k, t) ==
  /\ char[k].stmt[t] = "delete"
  /\ sessions' = Without(RowsOf(char[k].user))
  /\ char' = [char EXCEPT ![k].stmt = At(char[k].stmt, t, "none")]
  /\ UNCHANGED <<online, clock, login, map, sweep, issued, lost>>

\* Slip: removes the session by its id instead of by its user.
CharOnDisconnectedDeleteById(k, t) ==
  /\ char[k].stmt[t] = "delete"
  /\ sessions' = Without({char[k].sid})
  /\ char' = [char EXCEPT ![k].stmt = At(char[k].stmt, t, "update")]
  /\ UNCHANGED <<online, clock, login, map, sweep, issued, lost>>

\* CCharClient::OnDisconnected, the DELETE: all sessions of the user go.
CharOnDisconnectedDelete(k, t) ==
  /\ char[k].stmt[t] = "delete"
  /\ sessions' = Without(RowsOf(char[k].user))
  /\ char' = [char EXCEPT ![k].stmt = At(char[k].stmt, t, "update")]
  /\ UNCHANGED <<online, clock, login, map, sweep, issued, lost>>

\* CCharClient::OnDisconnected, the UPDATE.
CharOnDisconnectedUpdate(k, t) ==
  /\ char[k].stmt[t] = "update"
  /\ online' = Offline({char[k].user})
  /\ char' = [char EXCEPT ![k].stmt = At(char[k].stmt, t, "none")]
  /\ UNCHANGED <<sessions, clock, login, map, sweep, issued, lost>>

\* One of the three throws.  After the DELETE the bit is all that is left.
CharOnDisconnectedFails(k, t) ==
  /\ char[k].sock # "closed"
  /\ char' = [char EXCEPT ![k] =
        [char[k] EXCEPT !.sock = "closing", !.stmt = At(char[k].stmt, t, "none")]]
  /\ lost' = lost \cup (IF char[k].stmt[t] = "update"
                        THEN {u \in Stranded({char[k].user}) : ~Held(u)} ELSE {})
  /\ UNCHANGED <<online, sessions, clock, login, map, sweep, issued>>

\* As LoginRemove; the sessions stay for deleteStaleSessions.
CharRemove(k) ==
  /\ char[k].sock \in {"dropped", "closing"}
  /\ char[k].stmt = NoCalls
  /\ char' = [char EXCEPT ![k] = Closed(NewChar)]
  /\ UNCHANGED <<online, sessions, clock, login, map, sweep, issued, lost>>

\* A crash between the DELETE and the UPDATE strands the bit.
CharCrash ==
  /\ \E k \in CharConns : char[k].sock # "closed"
  /\ char' = [k \in CharConns |-> Closed(NewChar)]
  /\ lost' = lost \cup {u \in Stranded(Users) :
                /\ ~Held(u)
                /\ \E k \in CharConns, t \in Calls :
                      char[k].user = u /\ char[k].stmt[t] = "update"}
  /\ UNCHANGED <<online, sessions, clock, login, map, sweep, issued>>

-----------------------------------------------------------------------------
(* Map servers *)

(***************************************************************************)
(* id is the connection's number, which CMapClient uses where it means the *)
(* account's: NoUser when no account has that number.                      *)
(***************************************************************************)
MapAccept(m, id) ==
  /\ map[m].sock = "closed"
  /\ map' = [map EXCEPT ![m] = NewMap(id)]
  /\ UNCHANGED <<online, sessions, clock, login, char, sweep, issued, lost>>

MapJoin(m, s) ==
  /\ map[m].sock \in Reading
  /\ map[m].state = "DEFAULT"
  /\ Exists(s)
  /\ map' = [map EXCEPT ![m] =
         [map[m] EXCEPT !.state = "LOGGEDIN", !.sid = s,
                   !.user = sessions[s].user]]
  /\ UNCHANGED <<online, sessions, clock, login, char, sweep, issued, lost>>

MapAlive(m) ==
  /\ map[m].sock \in Reading
  /\ map[m].state = "LOGGEDIN"
  /\ sessions' = Refreshed(map[m].connid)
  /\ UNCHANGED <<online, clock, login, char, map, sweep, issued, lost>>

(***************************************************************************)
(* MovementSystem::teleport to another map calls switch_server() from the  *)
(* game thread, for as long as the entity has its client, even after the   *)
(* socket closed.                                                          *)
(***************************************************************************)
MapSwitch(m) ==
  /\ map[m].sock # "closed"
  /\ map[m].user # NoUser
  /\ map' = [map EXCEPT ![m].state = "SWITCHING"]
  /\ UNCHANGED <<online, sessions, clock, login, char, sweep, issued, lost>>

MapDrop(m) ==
  /\ map[m].sock = "open"
  /\ map' = [map EXCEPT ![m].sock = "dropped"]
  /\ UNCHANGED <<online, sessions, clock, login, char, sweep, issued, lost>>

MapOnDisconnected(m) ==
  /\ map[m].sock # "closed"
  /\ online' = IF map[m].state = "LOGGEDIN" THEN Offline({map[m].connid}) ELSE online
  /\ map' = [map EXCEPT ![m] =
         [map[m] EXCEPT !.sock = "closing", !.state = "DEFAULT"]]
  /\ UNCHANGED <<sessions, clock, login, char, sweep, issued, lost>>

MapRemove(m) ==
  /\ map[m].sock \in {"dropped", "closing"}
  /\ map' = [map EXCEPT ![m] = Closed(NewMap(NoUser))]
  /\ UNCHANGED <<online, sessions, clock, login, char, sweep, issued, lost>>

MapCrash ==
  /\ \E m \in MapConns : map[m].sock # "closed"
  /\ map' = [m \in MapConns |-> Closed(NewMap(NoUser))]
  /\ UNCHANGED <<online, sessions, clock, login, char, sweep, issued, lost>>

-----------------------------------------------------------------------------
(* Time and the login server's main loop *)

Tick ==
  /\ clock < MaxClock
  /\ clock' = clock + 1
  /\ UNCHANGED <<online, sessions, login, char, map, sweep, issued, lost>>

\* Five minutes pass without an update of the row's time.
GoStale(s) ==
  /\ Exists(s)
  /\ ~sessions[s].stale
  /\ sessions' = [sessions EXCEPT ![s].stale = TRUE]
  /\ UNCHANGED <<online, clock, login, char, map, sweep, issued, lost>>

Stale == {s \in Ids : Exists(s) /\ sessions[s].stale}
UsersOf(ids) == {u \in Users : \E s \in ids : sessions[s].user = u}

\* deleteStaleSessions, first statement: the owners go offline.
SweepUpdate ==
  /\ sweep = "idle"
  /\ online' = Offline(UsersOf(Stale))
  /\ sweep' = "remove"
  /\ UNCHANGED <<sessions, clock, login, char, map, issued, lost>>

(***************************************************************************)
(* deleteStaleSessions, second statement, with a later now(): it can       *)
(* remove a row whose owner the first one left online.                     *)
(***************************************************************************)
SweepRemove ==
  /\ sweep = "remove"
  /\ sessions' = Without(Stale)
  /\ lost' = lost \cup {u \in UsersOf(Stale) : online[u]}
  /\ sweep' = "idle"
  /\ UNCHANGED <<online, clock, login, char, map, issued>>

-----------------------------------------------------------------------------
LoginCall(c, t) ==
  \/ LoginOnDisconnected(c, t)
  \/ LoginOnDisconnectedUpdate(c, t)
  \/ LoginOnDisconnectedFails(c, t)

LoginStep(c) ==
  \/ LoginAccept(c)
  \/ \E u \in Users : UserLogin(c, u)
  \/ UserLoginUpdate(c)
  \/ UserLoginFails(c)
  \/ \E found \in BOOLEAN : ServerSelect(c, found)
  \/ LoginDrop(c)
  \/ \E t \in Calls : LoginCall(c, t)
  \/ LoginRemove(c)

CharCall(k, t) ==
  \/ CharOnDisconnected(k, t)
  \/ CharOnDisconnectedDelete(k, t)
  \/ CharOnDisconnectedUpdate(k, t)
  \/ CharOnDisconnectedFails(k, t)

CharStep(k) ==
  \/ CharAccept(k)
  \/ \E s \in Ids : CharJoin(k, s)
  \/ CharAlive(k)
  \/ CharSelect(k)
  \/ CharDrop(k)
  \/ \E t \in Calls : CharCall(k, t)
  \/ CharRemove(k)

MapStep(m) ==
  \/ \E id \in UserOrNone : MapAccept(m, id)
  \/ \E s \in Ids : MapJoin(m, s)
  \/ MapAlive(m)
  \/ MapSwitch(m)
  \/ MapDrop(m)
  \/ MapOnDisconnected(m)
  \/ MapRemove(m)

Next ==
  \/ \E c \in LoginConns : LoginStep(c)
  \/ \E k \in CharConns : CharStep(k)
  \/ \E m \in MapConns : MapStep(m)
  \/ LoginCrash \/ CharCrash \/ MapCrash
  \/ Tick
  \/ \E s \in Ids : GoStale(s)
  \/ SweepUpdate \/ SweepRemove

(***************************************************************************)
(* Fairness: time passes and the main loop keeps calling                   *)
(* deleteStaleSessions.  Strong fairness of its second statement: the      *)
(* login server does not crash between the two every time.  Nothing is     *)
(* assumed of clients, nor that a handler ends.                            *)
(***************************************************************************)
Fairness ==
  /\ \A s \in Ids : WF_vars(GoStale(s))
  /\ WF_vars(SweepUpdate) /\ SF_vars(SweepRemove)

Spec == Init /\ [][Next]_vars
FairSpec == Spec /\ Fairness

-----------------------------------------------------------------------------
(* Properties *)

\* The tables and the connection objects hold values of their types.
TypeOK ==
  /\ online \in [Users -> BOOLEAN]
  /\ sessions \in [Ids -> Row]
  /\ clock \in Ids
  /\ login \in [LoginConns -> LoginConn]
  /\ char \in [CharConns -> CharConn]
  /\ map \in [MapConns -> MapConn]
  /\ sweep \in {"idle", "remove"}
  /\ issued \subseteq Ids \X Users
  /\ lost \subseteq Users

Owner(u) ==
  \/ Held(u)
  \/ \E c \in LoginConns, t \in Calls : /\ login[c].stmt[t] = "update"
                                       /\ login[c].state # "DEFAULT"
                                       /\ login[c].user = u
  \/ \E k \in CharConns, t \in Calls : char[k].stmt[t] = "update" /\ char[k].user = u
  \/ RowsOf(u) # {}

(***************************************************************************)
(* An account that is marked online can still be freed: an open login      *)
(* connection holds it and will run OnDisconnected, a call of              *)
(* OnDisconnected is about to clear the bit, or a session row exists that  *)
(* OnDisconnected of the char server or deleteStaleSessions will remove    *)
(* together with the bit.  The bit leaks only through the six windows that *)
(* "lost" records: UserLogin finishing on a connection already closed, a   *)
(* session id shared by two users, a row turning stale between the sweep's *)
(* two statements, a crash of the login server, or of the char server      *)
(* between DELETE and UPDATE, a statement of OnDisconnected that throws,   *)
(* and a connection removed between shutdown(true) and OnDisconnected.     *)
(***************************************************************************)
NoOrphanOnline == \A u \in Users : online[u] => Owner(u) \/ u \in lost

\* NoOrphanOnline with what makes it inductive: UserLogin is in progress only
\* on a connection that is nobody's yet, a char connection gets its user and
\* its state together, and no call is in a slot that is free.
OrphanInv ==
  /\ NoOrphanOnline
  /\ \A c \in LoginConns : login[c].pending = "update" =>
        login[c].state = "DEFAULT" /\ login[c].user # NoUser
  /\ \A k \in CharConns : char[k].user # NoUser => char[k].state # "DEFAULT"
  /\ \A c \in LoginConns : login[c].sock = "closed" => login[c].stmt = NoCalls
  /\ \A k \in CharConns : char[k].sock = "closed" => char[k].stmt = NoCalls

(***************************************************************************)
(* The char and the map servers let a client in as user u with session s   *)
(* only if UserLogin gave s to u: no reuse of a slot, an id or a row and   *)
(* no order of disconnections pairs a session with another account.        *)
(***************************************************************************)
JoinedAsIssued ==
  /\ \A k \in CharConns : char[k].user # NoUser => <<char[k].sid, char[k].user>> \in issued
  /\ \A m \in MapConns : map[m].user # NoUser => <<map[m].sid, map[m].user>> \in issued

\* JoinedAsIssued with what makes it inductive: rows and logged-in login
\* connections hold issued pairs too.
IssuedInv ==
  /\ JoinedAsIssued
  /\ \A s \in Ids : Exists(s) => <<s, sessions[s].user>> \in issued
  /\ \A c \in LoginConns : login[c].state # "DEFAULT" => <<login[c].sid, login[c].user>> \in issued
  /\ \A c \in LoginConns : login[c].pending = "update" =>
        login[c].state = "DEFAULT" /\ login[c].user # NoUser

(***************************************************************************)
(* A fresh session disappears only through its own user: some connection   *)
(* of that user to the char server is being closed.  Nobody else's         *)
(* disconnection, login or time-out evicts it.                             *)
(***************************************************************************)
EvictedByOwnerOnly ==
  [][\A s \in Ids :
        Exists(s) /\ ~sessions[s].stale /\ sessions'[s] = NoRow =>
          \E k \in CharConns : /\ char[k].user = sessions[s].user
                               /\ char[k].sock = "closing"]_vars

Present(u) ==
  \/ \E c \in LoginConns : login[c].sock # "closed" /\ login[c].user = u
  \/ \E k \in CharConns : char[k].user = u
  \/ \E m \in MapConns : u \in {map[m].user, map[m].connid}

(***************************************************************************)
(* A player who is gone can come back: once no connection concerns the     *)
(* account, it eventually passes UserLogin's test again (offline, without  *)
(* session), unless its bit was lost.  A map connection concerns the       *)
(* account whose id equals the connection's number too: its PAKCS_ALIVE    *)
(* refreshes that account's session.                                       *)
(***************************************************************************)
AbandonedAccountFreed ==
  \A u \in Users :
    ~Present(u) ~> Present(u) \/ u \in lost \/ (~online[u] /\ RowsOf(u) = {})

(***************************************************************************)
(* What the comment in MovementSystem::teleport takes for granted: a       *)
(* client that leaves a map server without switching loses its own online  *)
(* bit.                                                                    *)
(***************************************************************************)
LeavingClearsOwnBit ==
  [][\A m \in MapConns :
        map[m].state = "LOGGEDIN" /\ map'[m].sock = "closing" /\ map'[m].state = "DEFAULT"
          => ~online'[map[m].user]]_vars
=============================================================================
