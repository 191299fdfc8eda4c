--------------------------- MODULE SessionProofs ---------------------------
(***************************************************************************)
(* Proofs about Session for every set of users and connections and every   *)
(* number of seconds.                                                      *)
(***************************************************************************)
EXTENDS Session, TLAPS

(***************************************************************************)
(* The records that connection slots are set to have their types.          *)
(***************************************************************************)
LEMMA NewRecords ==
  /\ NewLogin \in LoginConn /\ Closed(NewLogin) \in LoginConn
  /\ NewChar \in CharConn /\ Closed(NewChar) \in CharConn
  /\ \A id \in UserOrNone : NewMap(id) \in MapConn /\ Closed(NewMap(id)) \in MapConn
  /\ NoRow \in Row
  BY DEF NewLogin, NewChar, NewMap, Closed, LoginConn, CharConn, MapConn, Row, NoRow,
         Sock, UserOrNone, NoId, NoCalls, LoginStmts, CharStmts

\* A step of one call of OnDisconnected.
LEMMA CallStep ==
  ASSUME NEW t \in Calls
  PROVE  /\ \A stmt \in LoginStmts, v \in {"none", "update"} :
              /\ At(stmt, t, v) \in LoginStmts
              /\ At(stmt, t, v)[t] = v
              /\ \A x \in Calls \ {t} : At(stmt, t, v)[x] = stmt[x]
         /\ \A stmt \in CharStmts, v \in {"none", "delete", "update"} :
              /\ At(stmt, t, v) \in CharStmts
              /\ At(stmt, t, v)[t] = v
              /\ \A x \in Calls \ {t} : At(stmt, t, v)[x] = stmt[x]
  BY DEF At, LoginStmts, CharStmts

(***************************************************************************)
(* A call of OnDisconnected changes nothing of the connections but the     *)
(* socket and its own place in the code, and no row of another table.      *)
(***************************************************************************)
LEMMA LoginCallFrame ==
  ASSUME TypeOK, NEW c \in LoginConns, NEW t \in Calls, LoginCall(c, t)
  PROVE  /\ login' \in [LoginConns -> LoginConn]
         /\ \A d \in LoginConns : /\ login'[d].state = login[d].state
                                  /\ login'[d].user = login[d].user
                                  /\ login'[d].sid = login[d].sid
                                  /\ login'[d].pending = login[d].pending
         /\ \A d \in LoginConns \ {c} : login'[d] = login[d]
         /\ \A x \in Calls \ {t} : login'[c].stmt[x] = login[c].stmt[x]
         /\ UNCHANGED <<sessions, clock, char, map, sweep, issued>>
  <1> DEFINE r(sock, v) == [login[c] EXCEPT !.sock = sock, !.stmt = At(login[c].stmt, t, v)]
             q(v) == [login[c] EXCEPT !.stmt = At(login[c].stmt, t, v)]
  <1>1. login \in [LoginConns -> LoginConn] /\ login[c] \in LoginConn /\ login[c].stmt \in LoginStmts
    BY DEF TypeOK, LoginConn
  <1>2. \A v \in {"none", "update"} :
          /\ r("closing", v) \in LoginConn /\ q(v) \in LoginConn
          /\ \A z \in {r("closing", v), q(v)} :
               /\ z.state = login[c].state /\ z.user = login[c].user /\ z.sid = login[c].sid
               /\ z.pending = login[c].pending
               /\ \A x \in Calls \ {t} : z.stmt[x] = login[c].stmt[x]
    <2> SUFFICES ASSUME NEW v \in {"none", "update"}
                 PROVE  /\ r("closing", v) \in LoginConn /\ q(v) \in LoginConn
                        /\ \A z \in {r("closing", v), q(v)} :
                             /\ z.state = login[c].state /\ z.user = login[c].user
                             /\ z.sid = login[c].sid /\ z.pending = login[c].pending
                             /\ \A x \in Calls \ {t} : z.stmt[x] = login[c].stmt[x]
      OBVIOUS
    <2>1. /\ At(login[c].stmt, t, v) \in LoginStmts
          /\ \A x \in Calls \ {t} : At(login[c].stmt, t, v)[x] = login[c].stmt[x]
      BY <1>1, CallStep
    <2> QED BY <1>1, <2>1 DEF LoginConn, Sock
  <1>3. \E v \in {"none", "update"} :
          login' = [login EXCEPT ![c] = r("closing", v)] \/ login' = [login EXCEPT ![c] = q(v)]
    <2>1. CASE LoginOnDisconnected(c, t)
      BY <2>1 DEF LoginOnDisconnected
    <2>2. CASE LoginOnDisconnectedUpdate(c, t)
      BY <2>2, <1>1 DEF LoginOnDisconnectedUpdate
    <2>3. CASE LoginOnDisconnectedFails(c, t)
      BY <2>3 DEF LoginOnDisconnectedFails
    <2> QED BY <2>1, <2>2, <2>3 DEF LoginCall
  <1>4. PICK z \in LoginConn :
          /\ login' = [login EXCEPT ![c] = z]
          /\ z.state = login[c].state /\ z.user = login[c].user /\ z.sid = login[c].sid
          /\ z.pending = login[c].pending
          /\ \A x \in Calls \ {t} : z.stmt[x] = login[c].stmt[x]
    <2> HIDE DEF r, q
    <2> QED BY <1>2, <1>3
  <1>5. UNCHANGED <<sessions, clock, char, map, sweep, issued>>
    BY DEF LoginCall, LoginOnDisconnected, LoginOnDisconnectedUpdate, LoginOnDisconnectedFails
  <1> QED BY <1>1, <1>4, <1>5

LEMMA CharCallFrame ==
  ASSUME TypeOK, NEW k \in CharConns, NEW t \in Calls, CharCall(k, t)
  PROVE  /\ char' \in [CharConns -> CharConn]
         /\ \A d \in CharConns : /\ char'[d].state = char[d].state
                                  /\ char'[d].user = char[d].user
                                  /\ char'[d].sid = char[d].sid
         /\ \A d \in CharConns \ {k} : char'[d] = char[d]
         /\ \A x \in Calls \ {t} : char'[k].stmt[x] = char[k].stmt[x]
         /\ UNCHANGED <<clock, login, map, sweep, issued>>
  <1> DEFINE r(sock, v) == [char[k] EXCEPT !.sock = sock, !.stmt = At(char[k].stmt, t, v)]
             q(v) == [char[k] EXCEPT !.stmt = At(char[k].stmt, t, v)]
  <1>1. char \in [CharConns -> CharConn] /\ char[k] \in CharConn /\ char[k].stmt \in CharStmts
    BY DEF TypeOK, CharConn
  <1>2. \A v \in {"none", "delete", "update"} :
          /\ r("closing", v) \in CharConn /\ q(v) \in CharConn
          /\ \A z \in {r("closing", v), q(v)} :
               /\ z.state = char[k].state /\ z.user = char[k].user /\ z.sid = char[k].sid
              
               /\ \A x \in Calls \ {t} : z.stmt[x] = char[k].stmt[x]
    <2> SUFFICES ASSUME NEW v \in {"none", "delete", "update"}
                 PROVE  /\ r("closing", v) \in CharConn /\ q(v) \in CharConn
                        /\ \A z \in {r("closing", v), q(v)} :
                             /\ z.state = char[k].state /\ z.user = char[k].user
                             /\ z.sid = char[k].sid
                             /\ \A x \in Calls \ {t} : z.stmt[x] = char[k].stmt[x]
      OBVIOUS
    <2>1. /\ At(char[k].stmt, t, v) \in CharStmts
          /\ \A x \in Calls \ {t} : At(char[k].stmt, t, v)[x] = char[k].stmt[x]
      BY <1>1, CallStep
    <2> QED BY <1>1, <2>1 DEF CharConn, Sock
  <1>3. \E v \in {"none", "delete", "update"} :
          char' = [char EXCEPT ![k] = r("closing", v)] \/ char' = [char EXCEPT ![k] = q(v)]
    <2>1. CASE CharOnDisconnected(k, t)
      BY <2>1 DEF CharOnDisconnected
    <2>2. CASE CharOnDisconnectedDelete(k, t) \/ CharOnDisconnectedUpdate(k, t)
      BY <2>2, <1>1 DEF CharOnDisconnectedDelete, CharOnDisconnectedUpdate
    <2>3. CASE CharOnDisconnectedFails(k, t)
      BY <2>3 DEF CharOnDisconnectedFails
    <2> QED BY <2>1, <2>2, <2>3 DEF CharCall
  <1>4. PICK z \in CharConn :
          /\ char' = [char EXCEPT ![k] = z]
          /\ z.state = char[k].state /\ z.user = char[k].user /\ z.sid = char[k].sid
         
          /\ \A x \in Calls \ {t} : z.stmt[x] = char[k].stmt[x]
    <2> HIDE DEF r, q
    <2> QED BY <1>2, <1>3
  <1>5. UNCHANGED <<clock, login, map, sweep, issued>>
    BY DEF CharCall, CharOnDisconnected, CharOnDisconnectedDelete, CharOnDisconnectedUpdate,
           CharOnDisconnectedFails
  <1> QED BY <1>1, <1>4, <1>5

(***************************************************************************)
(* The database statements keep the tables well typed.                     *)
(***************************************************************************)
LEMMA Statements ==
  ASSUME TypeOK
  PROVE  /\ \A us : Offline(us) \in [Users -> BOOLEAN]
         /\ \A ids : Without(ids) \in [Ids -> Row]
         /\ \A u : Refreshed(u) \in [Ids -> Row]
  <1>1. \A us : Offline(us) \in [Users -> BOOLEAN]
    BY DEF TypeOK, Offline
  <1>2. \A ids : Without(ids) \in [Ids -> Row]
    BY NewRecords DEF TypeOK, Without
  <1>3. \A u : Refreshed(u) \in [Ids -> Row]
    BY DEF TypeOK, Refreshed, Row
  <1> QED BY <1>1, <1>2, <1>3

\* While UserLogin is in progress, userid_ and session_id_ are set.
PendingUser ==
  \A c \in LoginConns : login[c].pending = "update" => login[c].user # NoUser /\ login[c].sid # NoId

\* A step of a login connection (accept, UserLogin, ServerSelect,
\* OnDisconnected, removal) keeps the types.
LEMMA LoginStepType ==
  ASSUME TypeOK, PendingUser, NEW c \in LoginConns, LoginStep(c)
  PROVE  TypeOK'
  <1> USE DEF TypeOK
  <1>1. CASE LoginAccept(c)
    BY <1>1, NewRecords DEF LoginAccept
  <1>2. ASSUME NEW u \in Users, UserLogin(c, u) PROVE TypeOK'
    <2> DEFINE r == [login[c] EXCEPT !.pending = "update", !.user = u, !.sid = clock]
    <2>1. r \in LoginConn
      BY DEF LoginConn, UserOrNone
    <2>2. login' = [login EXCEPT ![c] = r]
      BY <1>2 DEF UserLogin
    <2>3. login' \in [LoginConns -> LoginConn]
      BY <2>1, <2>2
    <2> QED BY <1>2, <2>3 DEF UserLogin
  <1>5. CASE UserLoginUpdate(c)
    <2>0. login[c].user \in Users
      BY <1>5 DEF UserLoginUpdate, PendingUser, LoginConn, UserOrNone
    <2> DEFINE r == [login[c] EXCEPT !.pending = "none", !.state = "LOGGEDIN"]
    <2>3. r \in LoginConn
      BY DEF LoginConn
    <2>4. login' = [login EXCEPT ![c] = r]
      BY <1>5 DEF UserLoginUpdate
    <2>1. login' \in [LoginConns -> LoginConn]
      BY <2>3, <2>4
    <2>2. issued' \subseteq Ids \X Users
      BY <1>5, <2>0 DEF UserLoginUpdate, PendingUser, LoginConn
    <2> QED BY <1>5, <2>0, <2>1, <2>2 DEF UserLoginUpdate
  <1>6. CASE UserLoginFails(c)
    BY <1>6 DEF UserLoginFails, LoginConn
  <1>7. ASSUME NEW found \in BOOLEAN, ServerSelect(c, found) PROVE TypeOK'
    <2>1. login' \in [LoginConns -> LoginConn]
      BY <1>7 DEF ServerSelect, LoginConn
    <2>2. [user |-> login[c].user, stale |-> FALSE] \in Row
      BY DEF LoginConn, Row
    <2>3. sessions' \in [Ids -> Row]
      BY <1>7, <2>2 DEF ServerSelect
    <2> QED BY <1>7, <2>1, <2>3 DEF ServerSelect
  <1>8. CASE LoginDrop(c)
    BY <1>8 DEF LoginDrop, LoginConn, Sock
  <1>9. ASSUME NEW t \in Calls, LoginCall(c, t) PROVE TypeOK'
    <2>1. online' \in [Users -> BOOLEAN] /\ lost' \subseteq Users
      BY <1>9, Statements DEF LoginCall, LoginOnDisconnected, LoginOnDisconnectedUpdate,
                  LoginOnDisconnectedFails, Stranded
    <2> QED BY <1>9, <2>1, LoginCallFrame
  <1>10. CASE LoginRemove(c)
    BY <1>10, NewRecords DEF LoginRemove, Stranded
  <1> QED BY <1>1, <1>2, <1>5, <1>6, <1>7, <1>8, <1>9, <1>10 DEF LoginStep

\* A step of a char connection keeps the types.
LEMMA CharStepType ==
  ASSUME TypeOK, NEW k \in CharConns, CharStep(k)
  PROVE  TypeOK'
  <1> USE DEF TypeOK
  <1>1. CASE CharAccept(k)
    BY <1>1, NewRecords DEF CharAccept
  <1>2. ASSUME NEW s \in Ids, CharJoin(k, s) PROVE TypeOK'
    <2>1. sessions[s].user \in UserOrNone
      BY DEF Row
    <2>2. char' \in [CharConns -> CharConn]
      BY <1>2, <2>1 DEF CharJoin, CharConn
    <2> QED BY <1>2, <2>2 DEF CharJoin
  <1>3. CASE CharAlive(k)
    BY <1>3, Statements DEF CharAlive
  <1>4. CASE CharSelect(k)
    BY <1>4 DEF CharSelect, CharConn
  <1>5. CASE CharDrop(k)
    BY <1>5 DEF CharDrop, CharConn, Sock
  <1>6. ASSUME NEW t \in Calls, CharCall(k, t) PROVE TypeOK'
    <2>1. /\ online' \in [Users -> BOOLEAN] /\ lost' \subseteq Users
          /\ sessions' \in [Ids -> Row]
      BY <1>6, Statements DEF CharCall, CharOnDisconnected, CharOnDisconnectedDelete,
                  CharOnDisconnectedUpdate, CharOnDisconnectedFails, Stranded
    <2> QED BY <1>6, <2>1, CharCallFrame
  <1>7. CASE CharRemove(k)
    BY <1>7, NewRecords DEF CharRemove
  <1> QED BY <1>1, <1>2, <1>3, <1>4, <1>5, <1>6, <1>7 DEF CharStep

\* A step of a map connection keeps the types.
LEMMA MapStepType ==
  ASSUME TypeOK, NEW m \in MapConns, MapStep(m)
  PROVE  TypeOK'
  <1> USE DEF TypeOK
  <1>1. ASSUME NEW id \in UserOrNone, MapAccept(m, id) PROVE TypeOK'
    BY <1>1, NewRecords DEF MapAccept
  <1>2. ASSUME NEW s \in Ids, MapJoin(m, s) PROVE TypeOK'
    <2>1. sessions[s].user \in UserOrNone
      BY DEF Row
    <2>2. map' \in [MapConns -> MapConn]
      BY <1>2, <2>1 DEF MapJoin, MapConn
    <2> QED BY <1>2, <2>2 DEF MapJoin
  <1>3. CASE MapAlive(m)
    BY <1>3, Statements DEF MapAlive
  <1>4. CASE MapSwitch(m)
    BY <1>4 DEF MapSwitch, MapConn
  <1>5. CASE MapOnDisconnected(m)
    <2>1. map' \in [MapConns -> MapConn]
      BY <1>5 DEF MapOnDisconnected, MapConn, Sock
    <2> QED BY <1>5, <2>1, Statements DEF MapOnDisconnected
  <1>7. CASE MapDrop(m)
    BY <1>7 DEF MapDrop, MapConn, Sock
  <1>6. CASE MapRemove(m)
    BY <1>6, NewRecords DEF MapRemove, UserOrNone
  <1> QED BY <1>1, <1>2, <1>3, <1>4, <1>5, <1>6, <1>7 DEF MapStep

\* The char and the map servers leave the login server's connections alone,
\* and the login and the map servers those of the char server.
LEMMA CharKeepsLogin ==
  ASSUME NEW k \in CharConns, CharStep(k)
  PROVE  login' = login
  BY DEF CharStep, CharAccept, CharJoin, CharAlive, CharSelect, CharDrop, CharCall,
         CharOnDisconnected, CharOnDisconnectedDelete, CharOnDisconnectedUpdate,
         CharOnDisconnectedFails, CharRemove

LEMMA MapKeepsLogin ==
  ASSUME NEW m \in MapConns, MapStep(m)
  PROVE  login' = login /\ char' = char
  BY DEF MapStep, MapAccept, MapJoin, MapAlive, MapSwitch, MapDrop, MapOnDisconnected, MapRemove

LEMMA LoginKeepsChar ==
  ASSUME NEW c \in LoginConns, LoginStep(c)
  PROVE  char' = char
  BY DEF LoginStep, LoginAccept, UserLogin, UserLoginUpdate, UserLoginFails, ServerSelect,
         LoginDrop, LoginCall, LoginOnDisconnected, LoginOnDisconnectedUpdate,
         LoginOnDisconnectedFails, LoginRemove

(***************************************************************************)
(* Type correctness of the tables and the connection objects.              *)
(***************************************************************************)
THEOREM TypeCorrect == Spec => []TypeOK
  <1>1. Init => TypeOK /\ PendingUser
    BY NewRecords, ClockAssumption
    DEF Init, TypeOK, Ids, UserOrNone, PendingUser, NewLogin, Closed
  <1>2. TypeOK /\ PendingUser /\ [Next]_vars => TypeOK'
    <2> SUFFICES ASSUME TypeOK, PendingUser, [Next]_vars PROVE TypeOK'
      OBVIOUS
    <2>1. CASE LoginCrash
      BY <2>1, NewRecords DEF LoginCrash, TypeOK, Stranded
    <2>2. CASE CharCrash
      BY <2>2, NewRecords DEF CharCrash, TypeOK, Stranded
    <2>3. CASE MapCrash
      BY <2>3, NewRecords DEF MapCrash, TypeOK, UserOrNone
    <2>4. CASE Tick
      BY <2>4, ClockAssumption DEF Tick, TypeOK, Ids
    <2>5. ASSUME NEW s \in Ids, GoStale(s) PROVE TypeOK'
      BY <2>5 DEF GoStale, TypeOK, Row
    <2>6. CASE SweepUpdate
      BY <2>6, Statements DEF SweepUpdate, TypeOK
    <2>7. CASE SweepRemove
      BY <2>7, Statements DEF SweepRemove, TypeOK, UsersOf
    <2>8. CASE UNCHANGED vars
      BY <2>8 DEF vars, TypeOK
    <2> QED
      BY <2>1, <2>2, <2>3, <2>4, <2>5, <2>6, <2>7, <2>8,
         LoginStepType, CharStepType, MapStepType DEF Next
  <1>3. TypeOK /\ PendingUser /\ [Next]_vars => PendingUser'
    <2> SUFFICES ASSUME TypeOK, PendingUser, [Next]_vars PROVE PendingUser'
      OBVIOUS
    <2> USE DEF PendingUser, TypeOK, LoginConn
    <2>1. CASE login' = login
      BY <2>1
    <2>2. CASE LoginCrash
      BY <2>2 DEF LoginCrash, NewLogin, Closed
    <2>3. ASSUME NEW c \in LoginConns, LoginStep(c) PROVE PendingUser'
      <3>1. CASE LoginAccept(c) \/ LoginRemove(c)
        BY <3>1 DEF LoginAccept, LoginRemove, NewLogin, Closed
      <3>2. ASSUME NEW u \in Users, UserLogin(c, u) PROVE PendingUser'
        BY <3>2, NoUserAssumption DEF UserLogin, Ids, NoId
      <3>3. CASE UserLoginUpdate(c) \/ UserLoginFails(c) \/ LoginDrop(c)
        <4>1. \A d \in LoginConns : /\ login'[d].user = login[d].user
                                    /\ login'[d].sid = login[d].sid
                                    /\ login'[d].pending \in {login[d].pending, "none"}
          <5>1. CASE UserLoginUpdate(c)
            BY <5>1 DEF UserLoginUpdate
          <5>2. CASE UserLoginFails(c)
            BY <5>2 DEF UserLoginFails
          <5>3. CASE LoginDrop(c)
            BY <5>3 DEF LoginDrop
          <5> QED BY <3>3, <5>1, <5>2, <5>3
        <4> QED BY <4>1
      <3>4. ASSUME NEW found \in BOOLEAN, ServerSelect(c, found) PROVE PendingUser'
        BY <3>4 DEF ServerSelect
      <3>5. ASSUME NEW t \in Calls, LoginCall(c, t) PROVE PendingUser'
        BY <3>5, LoginCallFrame
      <3> QED BY <2>3, <3>1, <3>2, <3>3, <3>4, <3>5 DEF LoginStep
    <2>4. CASE \E k \in CharConns : CharStep(k)
      BY <2>4, CharKeepsLogin
    <2>5. CASE \E m \in MapConns : MapStep(m)
      BY <2>5, MapKeepsLogin
    <2> QED
      BY <2>1, <2>2, <2>3, <2>4, <2>5
      DEF Next, vars, CharCrash, MapCrash, Tick, GoStale, SweepUpdate, SweepRemove
  <1> QED BY <1>1, <1>2, <1>3, PTL DEF Spec

-----------------------------------------------------------------------------
(***************************************************************************)
(* OrphanInv is inductive with the types.  What can disturb it: a step     *)
(* that sets a bit, ends a login connection or a call of OnDisconnected,   *)
(* or removes rows.                                                        *)
(***************************************************************************)
LEMMA LoginStepOrphan ==
  ASSUME TypeOK, OrphanInv, NEW c \in LoginConns, LoginStep(c)
  PROVE  OrphanInv'
  <1> USE DEF OrphanInv, NoOrphanOnline, Owner, Held, RowsOf, TypeOK
  <1>1. CASE LoginAccept(c)
    <2>1. login' = [login EXCEPT ![c] = NewLogin] /\ login[c].stmt = NoCalls
      BY <1>1 DEF LoginAccept
    <2>2. /\ NewLogin.pending = "none" /\ NewLogin.sock = "open" /\ NewLogin.stmt = NoCalls
          /\ \A t \in Calls : NoCalls[t] = "none"
      BY DEF NewLogin, NoCalls
    <2>3. \A d \in LoginConns : login'[d] = IF d = c THEN NewLogin ELSE login[d]
      BY <2>1
    <2>4. login[c].sock = "closed"
      BY <1>1 DEF LoginAccept
    <2>5. \A v \in Users : Owner(v) => Owner(v)'
      BY <1>1, <2>1, <2>2, <2>3, <2>4 DEF LoginAccept
    <2> QED BY <1>1, <2>2, <2>3, <2>5 DEF LoginAccept
  <1>2. ASSUME NEW v \in Users, UserLogin(c, v) PROVE OrphanInv'
    BY <1>2, NoUserAssumption DEF UserLogin, LoginConn
  <1>3. CASE UserLoginUpdate(c)
    BY <1>3 DEF UserLoginUpdate, LoginConn
  <1>4. CASE UserLoginFails(c)
    BY <1>4 DEF UserLoginFails, LoginConn
  <1>5. ASSUME NEW found \in BOOLEAN, ServerSelect(c, found) PROVE OrphanInv'
    BY <1>5 DEF ServerSelect, Exists, LoginConn, Row
  <1>6. CASE LoginDrop(c)
    BY <1>6 DEF LoginDrop, LoginConn
  <1>7. ASSUME NEW t \in Calls, LoginOnDisconnected(c, t) PROVE OrphanInv'
    BY <1>7, CallStep DEF LoginOnDisconnected, Exists, LoginConn
  <1>8. ASSUME NEW t \in Calls, LoginOnDisconnectedUpdate(c, t) PROVE OrphanInv'
    <2>1. \A v \in Users : online'[v] <=> online[v] /\ v # login[c].user
      BY <1>8 DEF LoginOnDisconnectedUpdate, Offline
    <2>2. lost' = lost
      BY <1>8 DEF LoginOnDisconnectedUpdate
    <2>3. \A d \in LoginConns : login'[d].sock = login[d].sock
      BY <1>8 DEF LoginOnDisconnectedUpdate, LoginConn
    <2>4. login[c].sock # "closed"
      BY <1>8 DEF LoginOnDisconnectedUpdate, NoCalls
    <2> QED BY <1>8, <2>1, <2>2, <2>3, <2>4, LoginCallFrame DEF LoginCall
  <1>9. ASSUME NEW t \in Calls, LoginOnDisconnectedFails(c, t) PROVE OrphanInv'
    BY <1>9, CallStep DEF LoginOnDisconnectedFails, Stranded, LoginConn
  <1>10. CASE LoginRemove(c)
    BY <1>10 DEF LoginRemove, Stranded, NewLogin, Closed, NoCalls, LoginConn
  <1> QED
    BY <1>1, <1>2, <1>3, <1>4, <1>5, <1>6, <1>7, <1>8, <1>9, <1>10 DEF LoginStep, LoginCall

\* A char connection that removed rows is about to clear the bit of their
\* user, or strands it on record.
LEMMA CharStepOrphan ==
  ASSUME TypeOK, OrphanInv, NEW k \in CharConns, CharStep(k)
  PROVE  OrphanInv'
  <1> USE DEF OrphanInv, NoOrphanOnline, Owner, Held, RowsOf, TypeOK
  <1>1. CASE CharAccept(k)
    <2>1. char' = [char EXCEPT ![k] = NewChar] /\ char[k].stmt = NoCalls
      BY <1>1 DEF CharAccept
    <2>2. /\ NewChar.user = NoUser /\ NewChar.sock = "open"
          /\ \A t \in Calls : NoCalls[t] = "none"
      BY DEF NewChar, NoCalls
    <2>3. \A l \in CharConns : char'[l] = IF l = k THEN NewChar ELSE char[l]
      BY <2>1
    <2>4. \A v \in Users : Owner(v) => Owner(v)'
      BY <1>1, <2>1, <2>2, <2>3 DEF CharAccept
    <2> QED BY <1>1, <2>2, <2>3, <2>4 DEF CharAccept
  <1>2. ASSUME NEW s \in Ids, CharJoin(k, s) PROVE OrphanInv'
    BY <1>2, NoUserAssumption DEF CharJoin, CharConn, Reading
  <1>3. CASE CharAlive(k)
    <2>1. \A s \in Ids : sessions'[s].user = sessions[s].user
      BY <1>3 DEF CharAlive, Refreshed, Row
    <2> QED BY <1>3, <2>1 DEF CharAlive
  <1>4. CASE CharSelect(k)
    BY <1>4 DEF CharSelect, CharConn
  <1>5. CASE CharDrop(k)
    BY <1>5 DEF CharDrop, CharConn
  <1>6. ASSUME NEW t \in Calls, CharOnDisconnected(k, t) PROVE OrphanInv'
    BY <1>6, CallStep DEF CharOnDisconnected, CharConn
  <1>7. ASSUME NEW t \in Calls, CharOnDisconnectedDelete(k, t) PROVE OrphanInv'
    <2>1. \A s \in Ids : sessions[s].user # char[k].user => sessions'[s] = sessions[s]
      BY <1>7 DEF CharOnDisconnectedDelete, Without
    <2>2. UNCHANGED <<online, login, lost>>
      BY <1>7 DEF CharOnDisconnectedDelete
    <2>3. /\ \A l \in CharConns : char'[l].sock = char[l].sock
          /\ char'[k].stmt[t] = "update"
      BY <1>7, CallStep DEF CharOnDisconnectedDelete, CharConn
    <2>4. char[k].sock # "closed"
      BY <1>7 DEF CharOnDisconnectedDelete, NoCalls
    <2> QED BY <1>7, <2>1, <2>2, <2>3, <2>4, CharCallFrame DEF CharCall
  <1>8. ASSUME NEW t \in Calls, CharOnDisconnectedUpdate(k, t) PROVE OrphanInv'
    <2>1. \A v \in Users : online'[v] <=> online[v] /\ v # char[k].user
      BY <1>8 DEF CharOnDisconnectedUpdate, Offline
    <2>2. UNCHANGED <<sessions, login, lost>>
      BY <1>8 DEF CharOnDisconnectedUpdate
    <2>3. \A l \in CharConns : char'[l].sock = char[l].sock
      BY <1>8 DEF CharOnDisconnectedUpdate, CharConn
    <2>4. char[k].sock # "closed"
      BY <1>8 DEF CharOnDisconnectedUpdate, NoCalls
    <2> QED BY <1>8, <2>1, <2>2, <2>3, <2>4, CharCallFrame DEF CharCall
  <1>9. ASSUME NEW t \in Calls, CharOnDisconnectedFails(k, t) PROVE OrphanInv'
    BY <1>9, CallStep DEF CharOnDisconnectedFails, Stranded, CharConn
  <1>10. CASE CharRemove(k)
    BY <1>10 DEF CharRemove, NewChar, Closed, NoCalls, CharConn
  <1> QED
    BY <1>1, <1>2, <1>3, <1>4, <1>5, <1>6, <1>7, <1>8, <1>9, <1>10 DEF CharStep, CharCall

\* A map connection only clears bits and refreshes rows.
LEMMA MapStepOrphan ==
  ASSUME TypeOK, OrphanInv, NEW m \in MapConns, MapStep(m)
  PROVE  OrphanInv'
  <1> USE DEF OrphanInv, NoOrphanOnline, Owner, Held, RowsOf
  <1>1. CASE MapOnDisconnected(m)
    BY <1>1 DEF MapOnDisconnected, TypeOK, Offline
  <1>2. CASE MapAlive(m)
    <2>1. \A s \in Ids : sessions'[s].user = sessions[s].user
      BY <1>2 DEF MapAlive, Refreshed, TypeOK, Row
    <2> QED BY <1>2, <2>1 DEF MapAlive
  <1>3. CASE UNCHANGED <<online, sessions, login, char, lost>>
    BY <1>3
  <1> QED
    BY <1>1, <1>2, <1>3 DEF MapStep, MapAccept, MapJoin, MapSwitch, MapDrop, MapRemove

(***************************************************************************)
(* For any number of users, connections, threads and seconds: an online    *)
(* account can be freed by an open login connection, a call of             *)
(* OnDisconnected or through a session row, unless its bit leaked through  *)
(* one of the six windows recorded in lost.                                *)
(***************************************************************************)
THEOREM OnlineHasOwner == Spec => []NoOrphanOnline
  <1>1. Init => OrphanInv
    BY DEF Init, OrphanInv, NoOrphanOnline, NewLogin, NewChar, Closed
  <1>2. TypeOK /\ OrphanInv /\ [Next]_vars => OrphanInv'
    <2> SUFFICES ASSUME TypeOK, OrphanInv, [Next]_vars PROVE OrphanInv'
      OBVIOUS
    <2> USE DEF OrphanInv, NoOrphanOnline, Owner, Held, RowsOf
    <2>1. CASE LoginCrash
      BY <2>1 DEF LoginCrash, Stranded, NewLogin, Closed, NoCalls, TypeOK
    <2>2. CASE UNCHANGED <<online, sessions, login, char, lost>>
      BY <2>2
    <2>3. ASSUME NEW s \in Ids, GoStale(s) PROVE OrphanInv'
      <3>1. \A t \in Ids : sessions'[t].user = sessions[t].user
        BY <2>3 DEF GoStale, TypeOK, Row
      <3> QED BY <2>3, <3>1 DEF GoStale
    <2>4. CASE SweepUpdate
      BY <2>4 DEF SweepUpdate, Offline, TypeOK
    <2>5. CASE SweepRemove
      BY <2>5 DEF SweepRemove, Without, UsersOf, Stale, Exists, TypeOK
    <2>6. CASE CharCrash
      BY <2>6 DEF CharCrash, Stranded, NewChar, Closed, NoCalls, TypeOK
    <2> QED
      BY <2>1, <2>2, <2>3, <2>4, <2>5, <2>6, LoginStepOrphan, CharStepOrphan, MapStepOrphan
      DEF Next, vars, MapCrash, Tick
  <1>3. OrphanInv => NoOrphanOnline
    BY DEF OrphanInv
  <1> QED BY <1>1, <1>2, <1>3, TypeCorrect, PTL DEF Spec

-----------------------------------------------------------------------------
(***************************************************************************)
(* Statements that only clear bits or remove or refresh rows preserve the  *)
(* part of IssuedInv about rows.                                           *)
(***************************************************************************)
LEMMA RowsIssued ==
  ASSUME TypeOK, IssuedInv
  PROVE  /\ \A ids : \A s \in Ids : Without(ids)[s].user # NoUser =>
                        <<s, Without(ids)[s].user>> \in issued
         /\ \A u : \A s \in Ids : Refreshed(u)[s].user # NoUser =>
                        <<s, Refreshed(u)[s].user>> \in issued
  <1>1. \A ids : \A s \in Ids : Without(ids)[s].user # NoUser =>
                        <<s, Without(ids)[s].user>> \in issued
    BY DEF Without, NoRow, IssuedInv, Exists
  <1>2. \A u : \A s \in Ids : Refreshed(u)[s].user = sessions[s].user
    BY DEF Refreshed, TypeOK, Row
  <1> QED BY <1>1, <1>2 DEF IssuedInv, Exists

\* UserLogin issues a pair before the connection is LOGGEDIN, and
\* ServerSelect inserts only the pair of a LOGGEDIN connection.
LEMMA LoginStepIssued ==
  ASSUME TypeOK, IssuedInv, NEW c \in LoginConns, LoginStep(c)
  PROVE  IssuedInv'
  <1> USE DEF IssuedInv, JoinedAsIssued, Exists, TypeOK
  <1>1. CASE LoginAccept(c)
    BY <1>1 DEF LoginAccept, NewLogin
  <1>2. ASSUME NEW v \in Users, UserLogin(c, v) PROVE IssuedInv'
    BY <1>2, NoUserAssumption DEF UserLogin, LoginConn
  <1>3. CASE UserLoginUpdate(c)
    BY <1>3 DEF UserLoginUpdate, LoginConn
  <1>4. CASE UserLoginFails(c)
    BY <1>4 DEF UserLoginFails, LoginConn
  <1>5. ASSUME NEW found \in BOOLEAN, ServerSelect(c, found) PROVE IssuedInv'
    BY <1>5 DEF ServerSelect, LoginConn
  <1>6. CASE LoginDrop(c)
    BY <1>6 DEF LoginDrop, LoginConn
  <1>7. ASSUME NEW t \in Calls, LoginCall(c, t) PROVE IssuedInv'
    BY <1>7, LoginCallFrame
  <1>8. CASE LoginRemove(c)
    BY <1>8 DEF LoginRemove, NewLogin, Closed
  <1> QED BY <1>1, <1>2, <1>3, <1>4, <1>5, <1>6, <1>7, <1>8 DEF LoginStep

\* The char server joins with the user of the row and only removes rows.
LEMMA CharStepIssued ==
  ASSUME TypeOK, IssuedInv, NEW k \in CharConns, CharStep(k)
  PROVE  IssuedInv'
  <1> USE DEF IssuedInv, JoinedAsIssued, Exists, TypeOK
  <1>1. CASE CharAccept(k) \/ CharRemove(k)
    BY <1>1 DEF CharAccept, CharRemove, NewChar, Closed
  <1>2. ASSUME NEW s \in Ids, CharJoin(k, s) PROVE IssuedInv'
    BY <1>2 DEF CharJoin, CharConn
  <1>3. CASE CharAlive(k)
    BY <1>3, RowsIssued DEF CharAlive
  <1>4. CASE CharSelect(k)
    BY <1>4 DEF CharSelect, CharConn
  <1>5. CASE CharDrop(k)
    BY <1>5 DEF CharDrop, CharConn
  <1>6. ASSUME NEW t \in Calls, CharCall(k, t) PROVE IssuedInv'
    <2>1. \A l \in CharConns : char'[l].user = char[l].user /\ char'[l].sid = char[l].sid
      BY <1>6, CharCallFrame
    <2>2. \A s \in Ids : sessions'[s].user # NoUser => <<s, sessions'[s].user>> \in issued
      <3>1. CASE CharOnDisconnectedDelete(k, t)
        BY <3>1, RowsIssued DEF CharOnDisconnectedDelete
      <3> QED BY <1>6, <3>1 DEF CharCall, CharOnDisconnected, CharOnDisconnectedUpdate,
                  CharOnDisconnectedFails
    <2>3. UNCHANGED <<login, map, issued>>
      BY <1>6, CharCallFrame
    <2> QED BY <2>1, <2>2, <2>3
  <1> QED BY <1>1, <1>2, <1>3, <1>4, <1>5, <1>6 DEF CharStep

\* The map server joins with the user of the row and only refreshes rows.
LEMMA MapStepIssued ==
  ASSUME TypeOK, IssuedInv, NEW m \in MapConns, MapStep(m)
  PROVE  IssuedInv'
  <1> USE DEF IssuedInv, JoinedAsIssued, Exists, TypeOK
  <1>1. ASSUME NEW id \in UserOrNone, MapAccept(m, id) PROVE IssuedInv'
    BY <1>1 DEF MapAccept, NewMap
  <1>2. ASSUME NEW s \in Ids, MapJoin(m, s) PROVE IssuedInv'
    BY <1>2 DEF MapJoin, MapConn
  <1>3. CASE MapAlive(m)
    BY <1>3, RowsIssued DEF MapAlive
  <1>4. CASE MapSwitch(m)
    BY <1>4 DEF MapSwitch, MapConn
  <1>5. CASE MapOnDisconnected(m) \/ MapDrop(m)
    <2>1. \A n \in MapConns : map'[n].user = map[n].user /\ map'[n].sid = map[n].sid
      <3>1. CASE MapOnDisconnected(m)
        BY <3>1 DEF MapOnDisconnected, MapConn
      <3>2. CASE MapDrop(m)
        BY <3>2 DEF MapDrop, MapConn
      <3> QED BY <1>5, <3>1, <3>2
    <2> QED BY <1>5, <2>1 DEF MapOnDisconnected, MapDrop
  <1>6. CASE MapRemove(m)
    BY <1>6 DEF MapRemove, NewMap, Closed
  <1> QED BY <1>1, <1>2, <1>3, <1>4, <1>5, <1>6 DEF MapStep

(***************************************************************************)
(* The char and map servers admit a client as user u with session s only   *)
(* if UserLogin issued s to u, however ids, rows and slots are reused.     *)
(***************************************************************************)
THEOREM AdmittedAsIssued == Spec => []JoinedAsIssued
  <1>1. Init => IssuedInv
    BY DEF Init, IssuedInv, JoinedAsIssued, Exists, NoRow, NewLogin, NewChar, NewMap, Closed
  <1>2. TypeOK /\ IssuedInv /\ [Next]_vars => IssuedInv'
    <2> SUFFICES ASSUME TypeOK, IssuedInv, [Next]_vars PROVE IssuedInv'
      OBVIOUS
    <2> USE DEF IssuedInv, JoinedAsIssued, Exists, TypeOK
    <2>1. CASE LoginCrash
      BY <2>1 DEF LoginCrash, NewLogin, Closed
    <2>2. CASE CharCrash
      BY <2>2 DEF CharCrash, NewChar, Closed
    <2>3. CASE MapCrash
      BY <2>3 DEF MapCrash, NewMap, Closed
    <2>4. CASE UNCHANGED <<sessions, login, char, map, issued>>
      BY <2>4
    <2>5. ASSUME NEW s \in Ids, GoStale(s) PROVE IssuedInv'
      BY <2>5 DEF GoStale, Row
    <2>6. CASE SweepRemove
      BY <2>6, RowsIssued DEF SweepRemove
    <2> QED
      BY <2>1, <2>2, <2>3, <2>4, <2>5, <2>6, LoginStepIssued, CharStepIssued, MapStepIssued
      DEF Next, vars, Tick, SweepUpdate
  <1>3. IssuedInv => JoinedAsIssued
    BY DEF IssuedInv
  <1> QED BY <1>1, <1>2, <1>3, TypeCorrect, PTL DEF Spec

-----------------------------------------------------------------------------
\* A call of CCharClient::OnDisconnected stands between its statements only
\* while the connection closes.
StmtInv ==
  \A k \in CharConns : (\E t \in Calls : char[k].stmt[t] # "none") => char[k].sock = "closing"

LEMMA StmtCorrect == Spec => []StmtInv
  <1>1. Init => StmtInv
    BY DEF Init, StmtInv, NewChar, Closed, NoCalls
  <1>2. TypeOK /\ StmtInv /\ [Next]_vars => StmtInv'
    <2> SUFFICES ASSUME TypeOK, StmtInv, [Next]_vars PROVE StmtInv'
      OBVIOUS
    <2>1. CASE char' = char
      BY <2>1 DEF StmtInv
    <2>2. CASE CharCrash
      BY <2>2 DEF CharCrash, StmtInv, NewChar, Closed, NoCalls
    <2>3. ASSUME NEW k \in CharConns, CharStep(k) PROVE StmtInv'
      <3> USE DEF StmtInv, TypeOK, CharConn
      <3>1. CASE CharAccept(k) \/ CharRemove(k)
        BY <3>1 DEF CharAccept, CharRemove, NewChar, Closed, NoCalls
      <3>2. ASSUME NEW s \in Ids, CharJoin(k, s) PROVE StmtInv'
        BY <3>2 DEF CharJoin
      <3>3. CASE CharAlive(k) \/ CharSelect(k) \/ CharDrop(k)
        BY <3>3 DEF CharAlive, CharSelect, CharDrop
      <3>4. ASSUME NEW t \in Calls, CharCall(k, t) PROVE StmtInv'
        <4>1. CASE CharOnDisconnected(k, t) \/ CharOnDisconnectedFails(k, t)
          <5>1. char'[k].sock = "closing"
            <6>1. CASE CharOnDisconnected(k, t)
              BY <6>1 DEF CharOnDisconnected
            <6>2. CASE CharOnDisconnectedFails(k, t)
              BY <6>2 DEF CharOnDisconnectedFails
            <6> QED BY <4>1, <6>1, <6>2
          <5> QED BY <3>4, <5>1, CharCallFrame
        <4>2. CASE CharOnDisconnectedDelete(k, t) \/ CharOnDisconnectedUpdate(k, t)
          <5>1. char[k].sock = "closing" /\ char'[k].sock = char[k].sock
            BY <4>2 DEF CharOnDisconnectedDelete, CharOnDisconnectedUpdate
          <5> QED BY <3>4, <5>1, CharCallFrame
        <4> QED BY <3>4, <4>1, <4>2 DEF CharCall
      <3> QED BY <2>3, <3>1, <3>2, <3>3, <3>4 DEF CharStep
    <2> QED
      BY <2>1, <2>2, <2>3, LoginKeepsChar, MapKeepsLogin
      DEF Next, vars, LoginCrash, MapCrash, Tick, GoStale, SweepUpdate, SweepRemove
  <1> QED BY <1>1, <1>2, TypeCorrect, PTL DEF Spec

(***************************************************************************)
(* Session s, which exists and is fresh, stays in a step that refreshes    *)
(* rows or adds one.                                                       *)
(***************************************************************************)
LEMMA RowStays ==
  ASSUME TypeOK, NEW s \in Ids, Exists(s)
  PROVE  /\ sessions[s] # NoRow
         /\ \A u : Refreshed(u)[s] # NoRow
         /\ [sessions[s] EXCEPT !.stale = TRUE] # NoRow
  <1>1. sessions[s] \in Row /\ sessions[s].user # NoUser /\ NoRow.user = NoUser
    BY DEF TypeOK, Exists, NoRow
  <1>2. /\ [sessions[s] EXCEPT !.stale = FALSE].user = sessions[s].user
        /\ [sessions[s] EXCEPT !.stale = TRUE].user = sessions[s].user
    BY <1>1 DEF Row
  <1>3. \A u : Refreshed(u)[s] \in {sessions[s], [sessions[s] EXCEPT !.stale = FALSE]}
    BY DEF Refreshed
  <1> QED BY <1>1, <1>2, <1>3

(***************************************************************************)
(* A fresh session is removed only by OnDisconnected of a connection of    *)
(* its own user to the char server: the other DELETE takes stale rows, and *)
(* no INSERT or UPDATE empties a row.                                      *)
(***************************************************************************)
THEOREM OwnerEvicts == Spec => EvictedByOwnerOnly
  <1> DEFINE Evicted ==
        \A s \in Ids : Exists(s) /\ ~sessions[s].stale /\ sessions'[s] = NoRow =>
          \E k \in CharConns : /\ char[k].user = sessions[s].user
                               /\ char[k].sock = "closing"
  <1>1. TypeOK /\ StmtInv /\ [Next]_vars => [Evicted]_vars
    <2> SUFFICES ASSUME TypeOK, StmtInv, Next, NEW s \in Ids, Exists(s), ~sessions[s].stale,
                        sessions'[s] = NoRow
                 PROVE  \E k \in CharConns : /\ char[k].user = sessions[s].user
                                             /\ char[k].sock = "closing"
      OBVIOUS
    <2>0. sessions \in [Ids -> Row]
      BY DEF TypeOK
    <2>1. sessions' # sessions
      BY RowStays
    <2>2. ASSUME NEW k \in CharConns, NEW t \in Calls, CharOnDisconnectedDelete(k, t)
          PROVE  /\ char[k].user = sessions[s].user
                 /\ char[k].sock = "closing"
      <3>1. char[k].sock = "closing" /\ sessions' = Without(RowsOf(char[k].user))
        BY <2>2 DEF CharOnDisconnectedDelete, StmtInv
      <3>2. s \in RowsOf(char[k].user)
        BY <3>1, RowStays DEF Without
      <3> QED BY <3>1, <3>2 DEF RowsOf
    <2>3. ~SweepRemove
      <3> SUFFICES ASSUME SweepRemove PROVE FALSE
        OBVIOUS
      <3>1. s \in Stale
        BY RowStays DEF SweepRemove, Without
      <3> QED BY <3>1 DEF Stale
    <2>4. \A r \in Ids : ~GoStale(r)
      BY <2>0, RowStays DEF GoStale
    <2>5. \A c \in LoginConns, found \in BOOLEAN : ~ServerSelect(c, found)
      <3> SUFFICES ASSUME NEW c \in LoginConns, NEW found \in BOOLEAN, ServerSelect(c, found)
                   PROVE  FALSE
        OBVIOUS
      <3>1. /\ ~Exists(login[c].sid)
            /\ sessions' = [sessions EXCEPT ![login[c].sid] = [user |-> login[c].user, stale |-> FALSE]]
        BY <2>1 DEF ServerSelect
      <3>2. s # login[c].sid
        BY <3>1
      <3> QED BY <2>0, <3>1, <3>2, RowStays
    <2>6. ASSUME NEW c \in LoginConns, LoginStep(c) PROVE FALSE
      BY <2>6, <2>1, <2>5 DEF LoginStep, LoginAccept, UserLogin, UserLoginUpdate,
                  UserLoginFails, LoginDrop, LoginCall, LoginOnDisconnected,
                  LoginOnDisconnectedUpdate, LoginOnDisconnectedFails, LoginRemove
    <2>7. ASSUME NEW m \in MapConns, MapStep(m) PROVE FALSE
      <3>1. ~MapAlive(m)
        BY RowStays DEF MapAlive
      <3> QED BY <2>7, <2>1, <3>1 DEF MapStep, MapAccept, MapJoin, MapSwitch, MapDrop,
                  MapOnDisconnected, MapRemove
    <2>8. ASSUME NEW k \in CharConns, CharStep(k)
          PROVE  \E t \in Calls : CharOnDisconnectedDelete(k, t)
      <3>1. ~CharAlive(k)
        BY RowStays DEF CharAlive
      <3> QED BY <2>8, <2>1, <3>1 DEF CharStep, CharAccept, CharJoin, CharSelect, CharDrop,
                  CharCall, CharOnDisconnected, CharOnDisconnectedUpdate,
                  CharOnDisconnectedFails, CharRemove
    <2>9. \E k \in CharConns : \E t \in Calls : CharOnDisconnectedDelete(k, t)
      BY <2>1, <2>3, <2>4, <2>6, <2>7, <2>8
      DEF Next, LoginCrash, CharCrash, MapCrash, Tick, SweepUpdate
    <2> QED BY <2>2, <2>9
  <1> QED BY <1>1, TypeCorrect, StmtCorrect, PTL DEF Spec, EvictedByOwnerOnly
=============================================================================
