------------------------- MODULE IscRegistryProofs -------------------------
(***************************************************************************)
(* Proofs about IscRegistry for any set of map servers and any number of   *)
(* connections and failures: the login server offers no ghost channel.    *)
(***************************************************************************)
EXTENDS IscRegistry, TLAPS

Process == {"login", "char"}
ServerType == {"none", "CHAR", "MAP_MASTER"}
Message == [kind : {"register", "shutdown"}, type : ServerType, id : Nat]
Connection == [from : Clients, to : Process, msgs : Seq(Message), cOpen : BOOLEAN,
               sOpen : BOOLEAN, listed : BOOLEAN, failed : BOOLEAN, id : Nat, type : ServerType,
               channels : SUBSET Nat]
Link == [conn : Nat, active : BOOLEAN, reading : BOOLEAN, renewed : BOOLEAN]

\* The shapes of connections and links.
Shape ==
  /\ conn \in Seq(Connection)
  /\ link \in [Clients -> Link]
  /\ inList \in BOOLEAN /\ stuck \in BOOLEAN
  /\ count \in Nat /\ faults \in 0 .. MaxFaults
  /\ up \subseteq Clients \cup {"login"}

\* A connection leads from its client to that client's server.
ConnInv ==
  \A c \in DOMAIN conn : /\ conn[c].to = Target(conn[c].from)
                         /\ conn[c].sOpen => conn[c].listed /\ conn[c].to \in up

\* A link is a connection of its process; a process that is down has none.
LinkInv ==
  \A p \in Clients :
    /\ link[p].conn # 0 => link[p].conn \in DOMAIN conn /\ conn[link[p].conn].from = p
    /\ link[p].active => p \in up /\ link[p].conn # 0
    /\ p \notin up => link[p].conn = 0

CountInv == count <= Len(conn) /\ Len(conn) <= MaxConns

(***************************************************************************)
(* The map link with this id is active in the character server, or its     *)
(* read failed, of which shutdown(true) tells nobody.                      *)
(***************************************************************************)
Served(id) == \E d \in DOMAIN conn : /\ conn[d].to = "char" /\ (conn[d].sOpen \/ conn[d].failed)
                                   /\ conn[d].id = id

\* After message i of connection c comes one that takes channel id away.
AwayAfter(c, i, id) ==
  \E j \in DOMAIN conn[c].msgs : /\ i < j
                                 /\ conn[c].msgs[j].kind = "shutdown" /\ conn[c].msgs[j].id = id

(***************************************************************************)
(* On the open link to the login server every channel, there already or    *)
(* still to be registered, is served or taken away later.                  *)
(***************************************************************************)
ChannelInv ==
  "char" \in up =>
    /\ link["char"].active => inList
    /\ Open(ToLogin) =>
         /\ link["char"].active
         /\ \A id \in conn[ToLogin].channels : AwayAfter(ToLogin, 0, id) \/ Served(id)
         /\ \A i \in DOMAIN conn[ToLogin].msgs :
              LET m == conn[ToLogin].msgs[i]
              IN  m.kind = "register" /\ m.type # "CHAR" =>
                    AwayAfter(ToLogin, i, m.id) \/ Served(m.id)

RegistryInv == Shape /\ ConnInv /\ LinkInv /\ CountInv /\ ChannelInv

-----------------------------------------------------------------------------
\* The connections, one by one.
LEMMA Typed ==
  ASSUME Shape
  PROVE  /\ DOMAIN conn = 1 .. Len(conn) /\ Len(conn) \in Nat
         /\ \A c \in 1 .. Len(conn) : conn[c] \in Connection
BY DEF Shape

\* The map servers are none of the two others.
LEMMA Targets ==
  /\ Target("char") = "login"
  /\ \A p \in Clients : p # "char" => Target(p) = "char"
  /\ \A p \in Clients : Target(p) \in Process
  /\ "char" \in Clients
BY DEF Target, Clients, Process

(***************************************************************************)
(* The channels stay right in a step that leaves the messages and channels *)
(* of the link to the login server and closes no map link.                 *)
(***************************************************************************)
LEMMA ChannelFrame ==
  ASSUME RegistryInv,
         "char" \in up' => "char" \in up,
         link'["char"] = link["char"],
         link["char"].active /\ inList => inList',
         DOMAIN conn \subseteq DOMAIN conn',
         \A d \in DOMAIN conn : /\ conn'[d].to = conn[d].to /\ conn'[d].id = conn[d].id
                                /\ conn[d].to = "char" /\ (conn[d].sOpen \/ conn[d].failed) =>
                                     conn'[d].sOpen \/ conn'[d].failed
                                /\ d = ToLogin =>
                                     /\ conn'[d].msgs = conn[d].msgs
                                     /\ conn'[d].channels = conn[d].channels
                                     /\ conn'[d].cOpen => conn[d].cOpen
                                     /\ conn'[d].sOpen => conn[d].sOpen
  PROVE  ChannelInv'
<1> SUFFICES ASSUME NEW L, L = ToLogin, "char" \in up
             PROVE  ChannelInv'
  BY DEF ChannelInv
<1>1. ToLogin' = L
  BY DEF ToLogin
<1>2. L # 0 => L \in DOMAIN conn
  BY Targets DEF RegistryInv, LinkInv, ToLogin
<1>3. \A id : Served(id) => Served(id)'
  BY DEF Served
<1>4. CASE ~Open(L)'
  BY <1>1, <1>4 DEF RegistryInv, ChannelInv
<1>5. CASE Open(L)'
  <2>0. L \in DOMAIN conn
    BY <1>2, <1>5 DEF Open
  <2>1. Open(L) /\ conn'[L].msgs = conn[L].msgs /\ conn'[L].channels = conn[L].channels
    BY <1>5, <2>0 DEF Open
  <2>2. \A i, id : AwayAfter(L, i, id) => AwayAfter(L, i, id)'
    BY <2>1 DEF AwayAfter
  <2>3. /\ link["char"].active
        /\ \A id \in conn[L].channels : AwayAfter(L, 0, id) \/ Served(id)
        /\ \A i \in DOMAIN conn[L].msgs :
             conn[L].msgs[i].kind = "register" /\ conn[L].msgs[i].type # "CHAR" =>
               AwayAfter(L, i, conn[L].msgs[i].id) \/ Served(conn[L].msgs[i].id)
        /\ inList
    BY <2>1 DEF RegistryInv, ChannelInv
  <2> QED BY <1>1, <1>3, <2>1, <2>2, <2>3 DEF ChannelInv
<1> QED BY <1>4, <1>5

\* A step that only changes what connections hold.
LEMMA Kept ==
  ASSUME RegistryInv, conn' \in Seq(Connection), Len(conn') = Len(conn),
         \A d \in DOMAIN conn : /\ conn'[d].from = conn[d].from /\ conn'[d].to = conn[d].to
                                /\ conn'[d].sOpen => conn[d].sOpen /\ conn'[d].listed,
         UNCHANGED <<up, link, count>>, faults' \in 0 .. MaxFaults, inList' \in BOOLEAN, stuck' \in BOOLEAN
  PROVE  Shape' /\ ConnInv' /\ LinkInv' /\ CountInv'
<1>1. DOMAIN conn' = DOMAIN conn
  BY DEF RegistryInv, Shape
<1>2. Shape'
  BY DEF RegistryInv, Shape
<1>3. ConnInv'
  BY <1>1 DEF RegistryInv, ConnInv
<1>4. LinkInv'
  BY <1>1 DEF RegistryInv, LinkInv
<1>5. CountInv'
  BY DEF RegistryInv, CountInv
<1> QED BY <1>2, <1>3, <1>4, <1>5

-----------------------------------------------------------------------------
(* Connecting. *)

LEMMA Accepted ==
  ASSUME Shape, NEW p \in Clients
  PROVE  /\ OnAccepted(p) \in Connection
         /\ OnAccepted(p).from = p /\ OnAccepted(p).to = Target(p)
         /\ OnAccepted(p).listed /\ OnAccepted(p).sOpen /\ OnAccepted(p).channels = {}
         /\ p = "char" => /\ DOMAIN OnAccepted(p).msgs = {1}
                          /\ OnAccepted(p).msgs[1].type = "CHAR"
<1>1. Registration(p) \in Message /\ (p = "char" => Registration(p).type = "CHAR")
  BY DEF Registration, Message, ServerType
<1>2. <<Registration(p)>> \in Seq(Message)
  BY <1>1
<1>3. (IF p = "char" THEN 0 ELSE count) \in Nat
  BY DEF Shape
<1> HIDE DEF Registration
<1>4. OnAccepted(p) \in Connection
  BY <1>2, <1>3, Targets DEF OnAccepted, Connection, ServerType
<1>5. OnAccepted(p).msgs = <<Registration(p)>>
  BY DEF OnAccepted
<1>6. /\ OnAccepted(p).from = p /\ OnAccepted(p).to = Target(p)
      /\ OnAccepted(p).listed /\ OnAccepted(p).sOpen /\ OnAccepted(p).channels = {}
  BY DEF OnAccepted
<1> QED BY <1>1, <1>4, <1>5, <1>6

\* Of connection c only the client's end may have been closed.
SameButEnd(w, c) ==
  /\ w.from = c.from /\ w.to = c.to /\ w.id = c.id
  /\ w.sOpen = c.sOpen /\ w.listed = c.listed /\ w.failed = c.failed
  /\ w.msgs = c.msgs /\ w.channels = c.channels
  /\ w.cOpen => c.cOpen

LEMMA GivenUp ==
  ASSUME Shape, NEW old \in 0 .. Len(conn)
  PROVE  /\ Without(conn, old) \in Seq(Connection) /\ Len(Without(conn, old)) = Len(conn)
         /\ \A d \in 1 .. Len(conn) : SameButEnd(Without(conn, old)[d], conn[d])
         /\ old # 0 => ~Without(conn, old)[old].cOpen
<1>1. CASE old = 0
  BY <1>1 DEF Without, Shape, SameButEnd
<1>2. CASE old # 0
  <2> DEFINE r == [conn[old] EXCEPT !.cOpen = FALSE]
  <2>1. old \in 1 .. Len(conn) /\ conn[old] \in Connection
    BY <1>2, Typed
  <2>2. r \in Connection /\ SameButEnd(r, conn[old]) /\ ~r.cOpen
    BY <2>1 DEF Connection, SameButEnd
  <2>3. Without(conn, old) = [conn EXCEPT ![old] = r]
    BY <1>2 DEF Without
  <2> HIDE DEF r
  <2>4. /\ Without(conn, old) \in Seq(Connection) /\ Len(Without(conn, old)) = Len(conn)
        /\ \A d \in 1 .. Len(conn) : Without(conn, old)[d] = IF d = old THEN r ELSE conn[d]
    BY <2>1, <2>2, <2>3 DEF Shape
  <2>5. \A d \in 1 .. Len(conn) : SameButEnd(conn[d], conn[d])
    BY DEF SameButEnd
  <2> QED BY <1>2, <2>1, <2>2, <2>4, <2>5
<1> QED BY <1>1, <1>2

\* connect and what else happens in the step: the link is in the list then.
ConnectStep(p, old) ==
  /\ connect(p, old)
  /\ up' = up \cup {p} /\ UNCHANGED <<stuck, faults>>
  /\ inList' \in BOOLEAN
  /\ IF p = "char" THEN inList' = TRUE ELSE inList' = inList

(***************************************************************************)
(* connect, at the start of a process or again: old is the connection it   *)
(* had, if any.                                                            *)
(***************************************************************************)
LEMMA ConnectKeeps ==
  ASSUME RegistryInv, NEW p \in Clients, NEW n \in Nat, n = Len(conn),
         NEW old \in 0 .. n, old = link[p].conn, ConnectStep(p, old)
  PROVE  RegistryInv'
<1> DEFINE W == Without(conn, old)
<1>0. /\ DOMAIN conn = 1 .. n /\ Shape
      /\ \A d \in 1 .. n : conn[d] \in Connection
  BY Typed DEF RegistryInv
<1>1. /\ W \in Seq(Connection) /\ Len(W) = n
      /\ \A d \in 1 .. n : SameButEnd(W[d], conn[d])
      /\ old # 0 => ~W[old].cOpen
  BY <1>0, GivenUp
<1> HIDE DEF W
<1>2. \A d \in 1 .. n : /\ W[d].to = Target(W[d].from)
                        /\ W[d].sOpen => W[d].listed /\ W[d].to \in up'
  <2>1. \A d \in 1 .. n : /\ conn[d].to = Target(conn[d].from)
                          /\ conn[d].sOpen => conn[d].listed /\ conn[d].to \in up
    BY <1>0 DEF RegistryInv, ConnInv
  <2>2. up \subseteq up'
    BY DEF ConnectStep
  <2>3. SUFFICES ASSUME NEW d \in 1 .. n
                 PROVE  W[d].to = Target(W[d].from) /\ (W[d].sOpen => W[d].listed /\ W[d].to \in up')
    OBVIOUS
  <2>4. /\ W[d].from = conn[d].from /\ W[d].to = conn[d].to
        /\ W[d].sOpen = conn[d].sOpen /\ W[d].listed = conn[d].listed
    BY <1>1 DEF SameButEnd
  <2> QED BY <2>1, <2>2, <2>4
<1>3. \A q \in Clients : q # p /\ link[q].conn # 0 =>
        link[q].conn \in 1 .. n /\ W[link[q].conn].from = q
  <2>1. \A q \in Clients : link[q].conn # 0 => link[q].conn \in 1 .. n /\ conn[link[q].conn].from = q
    BY <1>0 DEF RegistryInv, LinkInv
  <2>2. \A d \in 1 .. n : W[d].from = conn[d].from
    BY <1>1 DEF SameButEnd
  <2> QED BY <2>1, <2>2
<1>4. ASSUME NEW l \in Link, link' = [link EXCEPT ![p] = l]
      PROVE  /\ link' \in [Clients -> Link] /\ link'[p] = l
             /\ \A q \in Clients : q # p => link'[q] = link[q]
  BY <1>4, <1>0 DEF Shape
<1>5. /\ up' \subseteq Clients \cup {"login"} /\ inList' \in BOOLEAN /\ up \subseteq up'
      /\ stuck' \in BOOLEAN /\ faults' \in 0 .. MaxFaults
  BY <1>0 DEF Shape, ConnectStep
<1>6. CASE Target(p) \in up
  <2> DEFINE a == OnAccepted(p)
             l == [conn |-> n + 1, active |-> TRUE, reading |-> old = 0, renewed |-> old # 0]
  <2>1. /\ a \in Connection /\ a.from = p /\ a.to = Target(p)
        /\ a.listed /\ a.sOpen /\ a.channels = {}
        /\ p = "char" => DOMAIN a.msgs = {1} /\ a.msgs[1].type = "CHAR"
    BY <1>0, Accepted
  <2> HIDE DEF a
  <2>2. /\ n < MaxConns /\ conn' = Append(W, a)
        /\ count' = IF Target(p) = "char" THEN count + 1 ELSE count
    BY <1>6 DEF ConnectStep, connect, a, W
  <2>3. /\ conn' \in Seq(Connection) /\ Len(conn') = n + 1 /\ conn'[n + 1] = a
        /\ \A d \in 1 .. n : conn'[d] = W[d]
        /\ DOMAIN conn' = 1 .. (n + 1)
    BY <1>1, <2>1, <2>2
  <2>4. link' = [link EXCEPT ![p] = l]
    BY <1>6, <2>3 DEF ConnectStep, connect
  <2>5. l \in Link /\ l.conn = n + 1 /\ l.active
    BY DEF Link
  <2> HIDE DEF l
  <2>6. /\ link' \in [Clients -> Link] /\ link'[p] = l
        /\ \A q \in Clients : q # p => link'[q] = link[q]
    BY <1>4, <2>4, <2>5
  <2>7. \A d \in 1 .. (n + 1) : d \in 1 .. n \/ d = n + 1
    OBVIOUS
  <2>8. Shape'
    BY <1>0, <1>5, <2>2, <2>3, <2>6 DEF Shape
  <2>9. ConnInv'
    <3>1. a.to = Target(a.from) /\ a.listed /\ a.to \in up'
      BY <1>5, <1>6, <2>1
    <3> QED BY <1>2, <2>3, <2>7, <3>1 DEF ConnInv
  <2>10. LinkInv'
    <3> SUFFICES ASSUME NEW q \in Clients
                 PROVE  /\ link'[q].conn # 0 =>
                             link'[q].conn \in 1 .. (n + 1) /\ conn'[link'[q].conn].from = q
                        /\ link'[q].active => q \in up' /\ link'[q].conn # 0
                        /\ q \notin up' => link'[q].conn = 0
      BY <2>3 DEF LinkInv
    <3>1. CASE q = p
      BY <3>1, <2>1, <2>3, <2>5, <2>6 DEF ConnectStep
    <3>2. CASE q # p
      <4>1. link'[q] = link[q] /\ (q \in up' <=> q \in up)
        BY <3>2, <2>6 DEF ConnectStep
      <4>2. link[q].conn # 0 => link[q].conn \in 1 .. (n + 1) /\ conn'[link[q].conn].from = q
        BY <3>2, <1>3, <2>3
      <4>3. /\ link[q].active => q \in up /\ link[q].conn # 0
            /\ q \notin up => link[q].conn = 0
        BY DEF RegistryInv, LinkInv
      <4> QED BY <4>1, <4>2, <4>3
    <3> QED BY <3>1, <3>2
  <2>11. CountInv'
    <3>1. count \in Nat /\ count <= n
      BY <1>0 DEF Shape, RegistryInv, CountInv
    <3> QED BY <3>1, <2>2, <2>3, RegistryAssumption DEF CountInv
  <2>12. ChannelInv'
    <3>1. CASE p = "char"
      <4>1. ToLogin' = n + 1 /\ link'["char"].active /\ inList'
        BY <3>1, <2>5, <2>6 DEF ToLogin, ConnectStep
      <4>2. conn'[n + 1].channels = {} /\ DOMAIN conn'[n + 1].msgs = {1}
            /\ conn'[n + 1].msgs[1].type = "CHAR"
        BY <3>1, <2>1, <2>3
      <4> QED BY <4>1, <4>2 DEF ChannelInv
    <3>2. CASE p # "char"
      <4>1. link'["char"] = link["char"] /\ ("char" \in up' => "char" \in up) /\ inList' = inList
        BY <3>2, <2>6, Targets DEF ConnectStep
      <4>2. /\ DOMAIN conn \subseteq DOMAIN conn'
            /\ \A d \in DOMAIN conn :
                 /\ conn'[d].to = conn[d].to /\ conn'[d].id = conn[d].id
                 /\ conn[d].to = "char" /\ (conn[d].sOpen \/ conn[d].failed) =>
                      conn'[d].sOpen \/ conn'[d].failed
                 /\ conn'[d].msgs = conn[d].msgs /\ conn'[d].channels = conn[d].channels
                 /\ conn'[d].cOpen => conn[d].cOpen
                 /\ conn'[d].sOpen => conn[d].sOpen
        BY <1>0, <1>1, <2>3 DEF SameButEnd
      <4> QED BY <4>1, <4>2, ChannelFrame
    <3> QED BY <3>1, <3>2
  <2> QED BY <2>8, <2>9, <2>10, <2>11, <2>12 DEF RegistryInv
<1>7. CASE Target(p) \notin up
  <2> DEFINE l == [link[p] EXCEPT !.active = FALSE]
  <2>1. conn' = W /\ link' = [link EXCEPT ![p] = l] /\ count' = count
    BY <1>7 DEF ConnectStep, connect, W
  <2>2. link[p] \in Link
    BY <1>0 DEF Shape
  <2>3. l \in Link /\ l.conn = old /\ ~l.active
    BY <2>2 DEF Link
  <2> HIDE DEF l
  <2>4. /\ link' \in [Clients -> Link] /\ link'[p] = l
        /\ \A q \in Clients : q # p => link'[q] = link[q]
    BY <1>4, <2>1, <2>3
  <2>5. DOMAIN conn' = 1 .. n /\ Len(conn') = n
    BY <1>1, <2>1
  <2>6. Shape'
    BY <1>0, <1>1, <1>5, <2>1, <2>4 DEF Shape
  <2>7. ConnInv'
    BY <1>2, <2>1, <2>5 DEF ConnInv
  <2>8. LinkInv'
    <3> SUFFICES ASSUME NEW q \in Clients
                 PROVE  /\ link'[q].conn # 0 =>
                             link'[q].conn \in 1 .. n /\ W[link'[q].conn].from = q
                        /\ link'[q].active => q \in up' /\ link'[q].conn # 0
                        /\ q \notin up' => link'[q].conn = 0
      BY <2>1, <2>5 DEF LinkInv
    <3>1. CASE q = p
      <4>1. old # 0 => old \in 1 .. n /\ conn[old].from = p
        BY <1>0 DEF RegistryInv, LinkInv
      <4>2. old # 0 => W[old].from = p
        BY <4>1, <1>1 DEF SameButEnd
      <4> QED BY <3>1, <4>1, <4>2, <2>3, <2>4 DEF ConnectStep
    <3>2. CASE q # p
      <4>1. link'[q] = link[q] /\ (q \in up' <=> q \in up)
        BY <3>2, <2>4 DEF ConnectStep
      <4>2. /\ link[q].active => q \in up /\ link[q].conn # 0
            /\ q \notin up => link[q].conn = 0
        BY DEF RegistryInv, LinkInv
      <4> QED BY <3>2, <4>1, <4>2, <1>3
    <3> QED BY <3>1, <3>2
  <2>9. CountInv'
    BY <2>1, <2>5 DEF RegistryInv, CountInv
  <2>10. ChannelInv'
    <3>1. CASE p = "char"
      <4>1. ToLogin' = old /\ ~link'["char"].active
        BY <3>1, <2>3, <2>4 DEF ToLogin
      <4>2. ~Open(old)'
        BY <1>1, <2>1 DEF Open
      <4> QED BY <4>1, <4>2 DEF ChannelInv
    <3>2. CASE p # "char"
      <4>1. link'["char"] = link["char"] /\ ("char" \in up' => "char" \in up) /\ inList' = inList
        BY <3>2, <2>4, Targets DEF ConnectStep
      <4>2. /\ DOMAIN conn \subseteq DOMAIN conn'
            /\ \A d \in DOMAIN conn :
                 /\ conn'[d].to = conn[d].to /\ conn'[d].id = conn[d].id
                 /\ conn[d].to = "char" /\ (conn[d].sOpen \/ conn[d].failed) =>
                      conn'[d].sOpen \/ conn'[d].failed
                 /\ conn'[d].msgs = conn[d].msgs /\ conn'[d].channels = conn[d].channels
                 /\ conn'[d].cOpen => conn[d].cOpen
                 /\ conn'[d].sOpen => conn[d].sOpen
        BY <1>0, <1>1, <2>1, <2>5 DEF SameButEnd
      <4> QED BY <4>1, <4>2, ChannelFrame
    <3> QED BY <3>1, <3>2
  <2> QED BY <2>6, <2>7, <2>8, <2>9, <2>10 DEF RegistryInv
<1> QED BY <1>6, <1>7

\* A link is none or one of the connections.
LEMMA LinkRange ==
  ASSUME RegistryInv, NEW p \in Clients
  PROVE  /\ link[p] \in Link /\ link[p].conn \in 0 .. Len(conn) /\ Len(conn) \in Nat
         /\ link[p].conn # 0 => /\ link[p].conn \in 1 .. Len(conn)
                                /\ conn[link[p].conn].to = Target(p)
<1>1. Len(conn) \in Nat /\ DOMAIN conn = 1 .. Len(conn)
  BY Typed DEF RegistryInv
<1>2. link[p] \in Link
  BY DEF RegistryInv, Shape
<1>3. link[p].conn \in Nat
  BY <1>2 DEF Link
<1>4. link[p].conn # 0 => link[p].conn \in 1 .. Len(conn) /\ conn[link[p].conn].from = p
  BY <1>1 DEF RegistryInv, LinkInv
<1>5. \A d \in 1 .. Len(conn) : conn[d].to = Target(conn[d].from)
  BY <1>1 DEF RegistryInv, ConnInv
<1> QED BY <1>1, <1>2, <1>3, <1>4, <1>5

LEMMA StartsKeep ==
  ASSUME RegistryInv, StartChar \/ \E m \in Maps : StartMap(m)
  PROVE  RegistryInv'
<1>1. /\ inList \in BOOLEAN
      /\ \A p \in Clients : p \notin up => link[p].conn = 0
  BY DEF RegistryInv, Shape, LinkInv
<1>2. CASE StartChar
  <2>1. "char" \in Clients /\ link["char"].conn = 0
    BY <1>1, <1>2, Targets DEF StartChar
  <2>2. ConnectStep("char", 0)
    BY <1>2 DEF StartChar, ConnectStep
  <2>3. Len(conn) \in Nat /\ 0 \in 0 .. Len(conn)
    BY Typed DEF RegistryInv
  <2> QED BY <2>1, <2>2, <2>3, ConnectKeeps
<1>3. ASSUME NEW m \in Maps, StartMap(m)
      PROVE  RegistryInv'
  <2>1. m \in Clients /\ m # "char" /\ link[m].conn = 0
    BY <1>1, <1>3, RegistryAssumption DEF StartMap, Clients
  <2>2. ConnectStep(m, 0)
    BY <1>1, <1>3, <2>1 DEF StartMap, ConnectStep
  <2>3. Len(conn) \in Nat /\ 0 \in 0 .. Len(conn)
    BY Typed DEF RegistryInv
  <2> QED BY <2>1, <2>2, <2>3, ConnectKeeps
<1> QED BY <1>2, <1>3

LEMMA ReconnectsKeep ==
  ASSUME RegistryInv, NEW p \in Clients, ClientOnShutdown(p) \/ ClientNotices(p)
  PROVE  RegistryInv'
<1>1. /\ inList \in BOOLEAN
      /\ "char" \in up /\ link["char"].active => inList
  BY DEF RegistryInv, Shape, ChannelInv
<1>2. /\ p \in up /\ link[p].active /\ connect(p, link[p].conn)
      /\ up' = up /\ UNCHANGED <<inList, stuck, faults>>
  BY DEF ClientOnShutdown, ClientNotices, Lost
<1>3. up' = up \cup {p}
  BY <1>2
<1>4. inList' = inList /\ (p = "char" => inList = TRUE)
  BY <1>1, <1>2
<1>5. ConnectStep(p, link[p].conn)
  BY <1>1, <1>2, <1>3, <1>4 DEF ConnectStep
<1> QED BY <1>5, LinkRange, ConnectKeeps

LEMMA StartLoginKeeps ==
  ASSUME RegistryInv, StartLogin
  PROVE  RegistryInv'
<1>1. UNCHANGED <<conn, link, inList, count, stuck, faults>> /\ up' = up \cup {"login"}
  BY DEF StartLogin
<1>2. Shape'
  BY <1>1 DEF RegistryInv, Shape
<1>3. ConnInv'
  BY <1>1 DEF RegistryInv, ConnInv
<1>4. LinkInv'
  BY <1>1 DEF RegistryInv, LinkInv
<1>5. CountInv'
  BY <1>1 DEF RegistryInv, CountInv
<1>6. ChannelInv'
  BY <1>1, ChannelFrame
<1> QED BY <1>2, <1>3, <1>4, <1>5, <1>6 DEF RegistryInv

-----------------------------------------------------------------------------
(* A process ends. *)

\* What the end of p leaves of connection c.
Ends(p, silent, c) ==
  CASE c.to = p -> [c EXCEPT !.sOpen = FALSE, !.listed = FALSE, !.failed = FALSE, !.msgs = <<>>]
    [] c.from = p /\ ~silent -> [c EXCEPT !.cOpen = FALSE]
    [] OTHER -> c

LEMMA CrashedConnection ==
  ASSUME NEW p, NEW silent \in BOOLEAN, NEW c \in Connection, c.to = p => c.from # p,
         NEW e, e = Ends(p, silent, c)
  PROVE  /\ e \in Connection /\ e.from = c.from /\ e.to = c.to /\ e.id = c.id
         /\ e.channels = c.channels
         /\ e.cOpen => c.cOpen
         /\ c.to = p => ~e.sOpen
         /\ c.to # p => e.sOpen = c.sOpen /\ e.listed = c.listed
                         /\ e.failed = c.failed /\ e.msgs = c.msgs
<1>1. <<>> \in Seq(Message)
  OBVIOUS
<1>2. CASE c.to = p
  <2>1. e = [c EXCEPT !.sOpen = FALSE, !.listed = FALSE, !.failed = FALSE, !.msgs = <<>>]
    BY <1>2 DEF Ends
  <2> QED BY <1>1, <1>2, <2>1 DEF Connection
<1>3. CASE c.to # p /\ c.from = p /\ ~silent
  <2>1. e = [c EXCEPT !.cOpen = FALSE]
    BY <1>3 DEF Ends
  <2> QED BY <1>3, <2>1 DEF Connection
<1>4. CASE c.to # p /\ ~(c.from = p /\ ~silent)
  <2>1. e = c
    BY <1>4 DEF Ends
  <2> QED BY <1>4, <2>1
<1> QED BY <1>2, <1>3, <1>4

LEMMA CrashKeeps ==
  ASSUME RegistryInv, NEW p \in Clients \cup {"login"}, NEW silent \in BOOLEAN, Crash(p, silent)
  PROVE  RegistryInv'
<1> DEFINE n == Len(conn)
<1>0. n \in Nat /\ DOMAIN conn = 1 .. n /\ \A d \in 1 .. n : conn[d] \in Connection
  BY Typed DEF RegistryInv
<1>1. up' = up \ {p} /\ faults' \in 0 .. MaxFaults
  <2>1. faults \in 0 .. MaxFaults
    BY DEF RegistryInv, Shape
  <2>2. faults < MaxFaults /\ faults' = faults + 1 /\ up' = up \ {p}
    BY DEF Crash
  <2> QED BY <2>1, <2>2, RegistryAssumption
<1>2. conn' = [d \in 1 .. n |-> Ends(p, silent, conn[d])]
  BY <1>0 DEF Crash, Ends
<1> HIDE DEF n
<1>3. /\ \A d \in 1 .. n : conn[d].to = p => conn[d].from # p
      /\ \A d \in 1 .. n : conn'[d] \in Connection
  <2>1. \A q \in Clients : Target(q) # q
    BY RegistryAssumption DEF Target, Clients
  <2>2. \A d \in 1 .. n : conn[d].to = Target(conn[d].from) /\ conn[d].from \in Clients
    BY <1>0 DEF RegistryInv, ConnInv, Connection
  <2>3. \A d \in 1 .. n : conn[d].to = p => conn[d].from # p
    BY <2>1, <2>2
  <2> QED BY <1>0, <1>2, <2>3, CrashedConnection
<1>4. conn' \in Seq(Connection) /\ Len(conn') = n /\ DOMAIN conn' = 1 .. n
  <2>1. conn' \in [1 .. n -> Connection]
    BY <1>2, <1>3
  <2> QED BY <1>0, <2>1
<1>5. ASSUME NEW d \in 1 .. n
      PROVE  /\ conn'[d].from = conn[d].from /\ conn'[d].to = conn[d].to
             /\ conn'[d].id = conn[d].id /\ conn'[d].channels = conn[d].channels
             /\ conn'[d].cOpen => conn[d].cOpen
             /\ conn[d].to = p => ~conn'[d].sOpen
             /\ conn[d].to # p => /\ conn'[d].sOpen = conn[d].sOpen
                                  /\ conn'[d].listed = conn[d].listed
                                  /\ conn'[d].failed = conn[d].failed
                                  /\ conn'[d].msgs = conn[d].msgs
  BY <1>0, <1>2, <1>3, CrashedConnection
<1>6. "login" \notin Clients /\ "char" \in Clients
  BY RegistryAssumption DEF Clients
<1>7. /\ link' \in [Clients -> Link]
      /\ \A q \in Clients : link'[q] = IF q = p THEN NoLink ELSE link[q]
  <2>1. link \in [Clients -> Link]
    BY DEF RegistryInv, Shape
  <2>2. NoLink \in Link
    BY DEF NoLink, Link
  <2> QED BY <2>1, <2>2, <1>6 DEF Crash
<1>8. Shape'
  <2>1. inList' \in BOOLEAN /\ stuck' \in BOOLEAN /\ count' \in Nat
    <3>1. inList \in BOOLEAN /\ stuck \in BOOLEAN /\ count \in Nat
      BY DEF RegistryInv, Shape
    <3>2. CASE p = "char"
      <4>1. inList' = FALSE /\ stuck' = FALSE /\ count' = 0
        BY <3>2 DEF Crash
      <4> QED BY <4>1
    <3>3. CASE p # "char"
      BY <3>1, <3>3 DEF Crash
    <3> QED BY <3>2, <3>3
  <2>2. up' \subseteq Clients \cup {"login"}
    BY <1>1 DEF RegistryInv, Shape
  <2> QED BY <1>1, <1>4, <1>7, <2>1, <2>2 DEF Shape
<1>9. ConnInv'
  <2> SUFFICES ASSUME NEW d \in 1 .. n
               PROVE  /\ conn'[d].to = Target(conn'[d].from)
                      /\ conn'[d].sOpen => conn'[d].listed /\ conn'[d].to \in up'
    BY <1>4 DEF ConnInv
  <2>1. /\ conn[d].to = Target(conn[d].from)
        /\ conn[d].sOpen => conn[d].listed /\ conn[d].to \in up
    BY <1>0 DEF RegistryInv, ConnInv
  <2> QED BY <1>1, <1>5, <2>1
<1>10. LinkInv'
  <2> SUFFICES ASSUME NEW q \in Clients
               PROVE  /\ link'[q].conn # 0 =>
                           link'[q].conn \in 1 .. n /\ conn'[link'[q].conn].from = q
                      /\ link'[q].active => q \in up' /\ link'[q].conn # 0
                      /\ q \notin up' => link'[q].conn = 0
    BY <1>4 DEF LinkInv
  <2>1. CASE q = p
    <3>1. link'[q].conn = 0 /\ ~link'[q].active
      BY <2>1, <1>7 DEF NoLink
    <3> QED BY <3>1
  <2>2. CASE q # p
    <3>1. link'[q] = link[q] /\ (q \in up' <=> q \in up)
      BY <2>2, <1>1, <1>7
    <3>2. /\ link[q].conn # 0 => link[q].conn \in 1 .. n /\ conn[link[q].conn].from = q
          /\ link[q].active => q \in up /\ link[q].conn # 0
          /\ q \notin up => link[q].conn = 0
      BY <1>0 DEF RegistryInv, LinkInv
    <3> QED BY <3>1, <3>2, <1>5
  <2> QED BY <2>1, <2>2
<1>11. CountInv'
  <2>1. count <= n /\ n <= MaxConns /\ count \in Nat
    BY DEF RegistryInv, CountInv, Shape, n
  <2>2. count' = 0 \/ count' = count
    BY DEF Crash
  <2> QED BY <1>0, <1>4, <2>1, <2>2 DEF CountInv
<1>12. ChannelInv'
  <2>1. CASE p = "char"
    BY <2>1, <1>1 DEF ChannelInv
  <2>2. CASE p = "login"
    <3>1. /\ link'["char"] = link["char"] /\ inList' = inList /\ ("char" \in up' => "char" \in up)
      BY <2>2, <1>1, <1>6, <1>7 DEF Crash
    <3>2. ~Open(ToLogin)'
      <4>1. ToLogin' = ToLogin
        BY <3>1 DEF ToLogin
      <4>2. ToLogin # 0 => ToLogin \in 1 .. n /\ conn[ToLogin].to = "login"
        BY <1>6, LinkRange, Targets DEF ToLogin, n
      <4>3. ToLogin # 0 => ~conn'[ToLogin].sOpen
        BY <4>2, <1>5, <2>2
      <4> QED BY <4>1, <4>3 DEF Open
    <3> QED BY <3>1, <3>2 DEF ChannelInv, RegistryInv
  <2>3. CASE p # "char" /\ p # "login"
    <3>1. /\ link'["char"] = link["char"] /\ inList' = inList /\ ("char" \in up' => "char" \in up)
      BY <2>3, <1>1, <1>6, <1>7 DEF Crash
    <3>2. \A d \in 1 .. n : conn[d].to # p
      BY <1>0, <2>3 DEF Connection, Process
    <3>3. \A d \in DOMAIN conn :
                 /\ conn'[d].to = conn[d].to /\ conn'[d].id = conn[d].id
                 /\ conn[d].to = "char" /\ (conn[d].sOpen \/ conn[d].failed) =>
                      conn'[d].sOpen \/ conn'[d].failed
                 /\ conn'[d].msgs = conn[d].msgs /\ conn'[d].channels = conn[d].channels
                 /\ conn'[d].cOpen => conn[d].cOpen
                 /\ conn'[d].sOpen => conn[d].sOpen
      BY <3>2, <1>0, <1>5
    <3> QED BY <3>1, <3>3, <1>0, <1>4, ChannelFrame
  <2> QED BY <2>1, <2>2, <2>3
<1> QED BY <1>8, <1>9, <1>10, <1>11, <1>12 DEF RegistryInv

-----------------------------------------------------------------------------
(* The process threads. *)

LEMMA CharTimeoutKeeps ==
  ASSUME RegistryInv, NEW c, CharTimeout(c)
  PROVE  RegistryInv'
<1>1. UNCHANGED <<up, conn, link, inList, count, faults>> /\ stuck' = TRUE
  BY DEF CharTimeout
<1>2. Shape' /\ ConnInv' /\ LinkInv' /\ CountInv'
  BY <1>1 DEF RegistryInv, Shape, ConnInv, LinkInv, CountInv
<1>3. ChannelInv'
  BY <1>1, ChannelFrame
<1> QED BY <1>2, <1>3 DEF RegistryInv

LEMMA SweepKeeps ==
  ASSUME RegistryInv, NEW s, Sweep(s)
  PROVE  RegistryInv'
<1> DEFINE n == Len(conn)
           e(d) == [conn[d] EXCEPT !.listed = @ /\ (conn[d].to = s => conn[d].sOpen)]
<1>0. n \in Nat /\ DOMAIN conn = 1 .. n /\ \A d \in 1 .. n : conn[d] \in Connection
  BY Typed DEF RegistryInv
<1>1. conn' = [d \in 1 .. n |-> e(d)]
  BY <1>0 DEF Sweep
<1> HIDE DEF n
<1>2. ASSUME NEW d \in 1 .. n
      PROVE  /\ e(d) \in Connection
             /\ e(d).from = conn[d].from /\ e(d).to = conn[d].to /\ e(d).id = conn[d].id
             /\ e(d).msgs = conn[d].msgs /\ e(d).channels = conn[d].channels
             /\ e(d).cOpen = conn[d].cOpen /\ e(d).sOpen = conn[d].sOpen
             /\ e(d).failed = conn[d].failed
             /\ conn[d].listed /\ conn[d].sOpen => e(d).listed
  <2>1. conn[d] \in Connection
    BY <1>0
  <2> QED BY <2>1 DEF Connection
<1> HIDE DEF e
<1>3. conn' \in Seq(Connection) /\ Len(conn') = n /\ DOMAIN conn' = 1 .. n
  <2>1. conn' \in [1 .. n -> Connection]
    BY <1>1, <1>2
  <2> QED BY <1>0, <2>1
<1>4. \A d \in 1 .. n : conn'[d] = e(d)
  BY <1>1
<1>5. \A d \in DOMAIN conn : conn[d].sOpen => conn[d].listed
  BY DEF RegistryInv, ConnInv
<1>6. UNCHANGED <<up, link, count, stuck, faults>> /\ inList' \in BOOLEAN
  BY DEF Sweep
<1>7. Shape' /\ ConnInv' /\ LinkInv' /\ CountInv'
  <2>1. \A d \in DOMAIN conn : /\ conn'[d].from = conn[d].from /\ conn'[d].to = conn[d].to
                               /\ conn'[d].sOpen => conn[d].sOpen /\ conn'[d].listed
    BY <1>0, <1>2, <1>4, <1>5
  <2>2. stuck' \in BOOLEAN /\ faults' \in 0 .. MaxFaults
    BY <1>6 DEF RegistryInv, Shape
  <2> QED BY <1>3, <1>6, <2>1, <2>2, Kept DEF n
<1>8. ChannelInv'
  <2>1. link["char"].active /\ inList => inList'
    BY DEF Sweep
  <2>2. \A d \in DOMAIN conn :
                 /\ conn'[d].to = conn[d].to /\ conn'[d].id = conn[d].id
                 /\ conn[d].to = "char" /\ (conn[d].sOpen \/ conn[d].failed) =>
                      conn'[d].sOpen \/ conn'[d].failed
                 /\ conn'[d].msgs = conn[d].msgs /\ conn'[d].channels = conn[d].channels
                 /\ conn'[d].cOpen => conn[d].cOpen
                 /\ conn'[d].sOpen => conn[d].sOpen
    BY <1>0, <1>2, <1>4
  <2> QED BY <1>0, <1>3, <1>6, <2>1, <2>2, ChannelFrame
<1> QED BY <1>7, <1>8 DEF RegistryInv

-----------------------------------------------------------------------------
(* Messages. *)

\* A connection is replaced by another record.
LEMMA Replaced ==
  ASSUME NEW cs \in Seq(Connection), NEW c \in 1 .. Len(cs), NEW r \in Connection
  PROVE  /\ [cs EXCEPT ![c] = r] \in Seq(Connection) /\ Len([cs EXCEPT ![c] = r]) = Len(cs)
         /\ \A d \in 1 .. Len(cs) : [cs EXCEPT ![c] = r][d] = IF d = c THEN r ELSE cs[d]
OBVIOUS

\* The first of several messages, and the others.
LEMMA Queue ==
  ASSUME NEW ms \in Seq(Message), ms # <<>>
  PROVE  /\ Head(ms) = ms[1] /\ ms[1] \in Message /\ Len(ms) \in Nat /\ 1 \in 1 .. Len(ms)
         /\ DOMAIN ms = 1 .. Len(ms)
         /\ Tail(ms) \in Seq(Message) /\ DOMAIN Tail(ms) = 1 .. (Len(ms) - 1)
         /\ \A i \in 1 .. (Len(ms) - 1) : i + 1 \in 1 .. Len(ms) /\ Tail(ms)[i] = ms[i + 1]
         /\ \A j \in 1 .. Len(ms) : j # 1 => j - 1 \in 1 .. (Len(ms) - 1)
OBVIOUS

\* The login server takes a message off the link of the character server.
LEMMA Taken ==
  ASSUME RegistryInv, NEW c \in DOMAIN conn, conn[c].msgs # <<>>,
         DOMAIN conn' = DOMAIN conn, conn'[c].msgs = Tail(conn[c].msgs)
  PROVE  \A i \in Nat : \A id :
           AwayAfter(c, i + 1, id) => AwayAfter(c, i, id)'
<1>1. conn[c].msgs \in Seq(Message)
  BY Typed DEF RegistryInv, Connection
<1> SUFFICES ASSUME NEW i \in Nat, NEW id, NEW j \in DOMAIN conn[c].msgs, i + 1 < j,
                    conn[c].msgs[j].kind = "shutdown", conn[c].msgs[j].id = id
             PROVE  AwayAfter(c, i, id)'
  BY DEF AwayAfter
<1>2. j \in 1 .. Len(conn[c].msgs) /\ j # 1 /\ Len(conn[c].msgs) \in Nat
  BY <1>1, Queue
<1>3. /\ j - 1 \in DOMAIN Tail(conn[c].msgs) /\ i < j - 1 /\ (j - 1) + 1 = j
      /\ Tail(conn[c].msgs)[j - 1] = conn[c].msgs[(j - 1) + 1]
  <2>1. j - 1 \in 1 .. (Len(conn[c].msgs) - 1) /\ i < j - 1 /\ (j - 1) + 1 = j
    BY <1>2
  <2> QED BY <1>1, <2>1, Queue
<1> QED BY <1>3 DEF AwayAfter

\* What message m may do to the channels: add its own, or take it away.
Applied(m, before, after) ==
  \/ /\ m.kind = "register"
     /\ \A id \in after : id \in before \/ (m.type # "CHAR" /\ id = m.id)
  \/ \A id \in after : id \in before /\ id # m.id

\* A step in which the login server handles a message on connection c.
LEMMA LoginHandles ==
  ASSUME RegistryInv, NEW c \in DOMAIN conn, conn[c].to = "login", conn[c].msgs # <<>>,
         NEW r \in Connection, conn' = [conn EXCEPT ![c] = r],
         r.from = conn[c].from, r.to = conn[c].to, r.id = conn[c].id,
         r.cOpen = conn[c].cOpen, r.sOpen = conn[c].sOpen, r.listed = conn[c].listed,
         r.failed = conn[c].failed,
         r.msgs = Tail(conn[c].msgs),
         NEW m, m = conn[c].msgs[1],
         Applied(m, conn[c].channels, r.channels),
         UNCHANGED <<up, link, inList, count, stuck, faults>>
  PROVE  RegistryInv'
<1> DEFINE n == Len(conn)
<1>0. n \in Nat /\ DOMAIN conn = 1 .. n /\ conn \in Seq(Connection)
  BY Typed DEF RegistryInv, Shape
<1>1. /\ conn' \in Seq(Connection) /\ Len(conn') = n
      /\ \A d \in 1 .. n : conn'[d] = IF d = c THEN r ELSE conn[d]
  BY <1>0, Replaced
<1>2. DOMAIN conn' = 1 .. n
  BY <1>0, <1>1
<1> HIDE DEF n
<1>3. conn[c].sOpen => conn[c].listed
  BY DEF RegistryInv, ConnInv
<1>4. Shape' /\ ConnInv' /\ LinkInv' /\ CountInv'
  <2>1. \A d \in DOMAIN conn : /\ conn'[d].from = conn[d].from /\ conn'[d].to = conn[d].to
                               /\ conn'[d].sOpen => conn[d].sOpen /\ conn'[d].listed
    BY <1>0, <1>1, <1>3 DEF RegistryInv, ConnInv
  <2>2. inList' \in BOOLEAN /\ stuck' \in BOOLEAN /\ faults' \in 0 .. MaxFaults
    BY DEF RegistryInv, Shape
  <2> QED BY <1>1, <2>1, <2>2, Kept DEF n
<1>5. CASE c # ToLogin
  <2>1. \A d \in DOMAIN conn :
          /\ conn'[d].to = conn[d].to /\ conn'[d].id = conn[d].id
          /\ conn[d].to = "char" /\ (conn[d].sOpen \/ conn[d].failed) =>
               conn'[d].sOpen \/ conn'[d].failed
          /\ d = ToLogin => conn'[d] = conn[d]
    BY <1>0, <1>1, <1>5
  <2> QED BY <1>0, <1>2, <1>4, <2>1, ChannelFrame DEF RegistryInv
<1>6. CASE c = ToLogin /\ ~Open(c)
  <2>1. ~Open(c)' /\ ToLogin' = c
    BY <1>0, <1>1, <1>6 DEF Open, ToLogin
  <2>2. ChannelInv'
    BY <2>1 DEF RegistryInv, ChannelInv
  <2> QED BY <1>4, <2>2 DEF RegistryInv
<1>7. CASE c = ToLogin /\ Open(c) /\ "char" \in up
  <2>1. /\ ToLogin' = c /\ conn'[c].msgs = Tail(conn[c].msgs) /\ conn'[c].channels = r.channels
    BY <1>0, <1>1, <1>7 DEF ToLogin
  <2>2. \A i \in Nat : \A id : AwayAfter(c, i + 1, id) => AwayAfter(c, i, id)'
    BY <1>0, <1>2, <2>1, Taken
  <2>3. \A id : Served(id) => Served(id)'
    BY <1>0, <1>1, <1>2 DEF Served
  <2>4. /\ link["char"].active /\ inList
        /\ \A id \in conn[c].channels : AwayAfter(c, 0, id) \/ Served(id)
        /\ \A i \in DOMAIN conn[c].msgs :
             conn[c].msgs[i].kind = "register" /\ conn[c].msgs[i].type # "CHAR" =>
               AwayAfter(c, i, conn[c].msgs[i].id) \/ Served(conn[c].msgs[i].id)
    BY <1>7 DEF RegistryInv, ChannelInv
  <2>5. conn[c].msgs \in Seq(Message)
    <3>1. conn[c] \in Connection
      BY <1>0
    <3> QED BY <3>1 DEF Connection
  <2>6. /\ DOMAIN conn[c].msgs = 1 .. Len(conn[c].msgs) /\ 1 \in DOMAIN conn[c].msgs
        /\ DOMAIN Tail(conn[c].msgs) = 1 .. (Len(conn[c].msgs) - 1)
        /\ \A i \in 1 .. (Len(conn[c].msgs) - 1) :
             i + 1 \in DOMAIN conn[c].msgs /\ Tail(conn[c].msgs)[i] = conn[c].msgs[i + 1]
    BY <2>5, Queue
  <2>7. ASSUME NEW id, id \in r.channels
        PROVE  AwayAfter(c, 0, id)' \/ Served(id)'
    <3>1. CASE id \in conn[c].channels /\ (m.kind = "register" \/ id # m.id)
      <4>1. AwayAfter(c, 0, id) => AwayAfter(c, 0 + 1, id)
        <5>1. ASSUME NEW j \in DOMAIN conn[c].msgs, 0 < j,
                     conn[c].msgs[j].kind = "shutdown", conn[c].msgs[j].id = id
              PROVE  1 < j
          <6>1. j # 1
            BY <3>1, <5>1
          <6> QED BY <2>6, <6>1
        <5> QED BY <5>1 DEF AwayAfter
      <4> QED BY <2>2, <2>3, <2>4, <3>1, <4>1
    <3>2. CASE m.kind = "register" /\ m.type # "CHAR" /\ id = m.id
      <4>1. AwayAfter(c, 0 + 1, id) \/ Served(id)
        BY <2>4, <2>6, <3>2
      <4> QED BY <2>2, <2>3, <4>1
    <3> QED BY <2>7, <3>1, <3>2 DEF Applied
  <2>8. ASSUME NEW i \in DOMAIN Tail(conn[c].msgs), NEW k, k = Tail(conn[c].msgs)[i],
               k.kind = "register", k.type # "CHAR"
        PROVE  AwayAfter(c, i, k.id)' \/ Served(k.id)'
    <3>1. i \in Nat /\ i + 1 \in DOMAIN conn[c].msgs /\ k = conn[c].msgs[i + 1]
      BY <2>6, <2>8
    <3>2. AwayAfter(c, i + 1, k.id) \/ Served(k.id)
      BY <2>4, <2>8, <3>1
    <3> QED BY <2>2, <2>3, <3>1, <3>2
  <2>9. ChannelInv'
    <3>1. \A id \in conn'[c].channels : AwayAfter(c, 0, id)' \/ Served(id)'
      BY <2>1, <2>7
    <3>2. \A i \in DOMAIN conn'[c].msgs : \A k :
            k = conn'[c].msgs[i] /\ k.kind = "register" /\ k.type # "CHAR" =>
              AwayAfter(c, i, k.id)' \/ Served(k.id)'
      BY <2>1, <2>8
    <3> QED BY <2>1, <2>4, <3>1, <3>2 DEF ChannelInv
  <2> QED BY <1>4, <2>9 DEF RegistryInv
<1>8. CASE "char" \notin up
  <2>1. ChannelInv'
    BY <1>8 DEF ChannelInv
  <2> QED BY <1>4, <2>1 DEF RegistryInv
<1> QED BY <1>5, <1>6, <1>7, <1>8

LEMMA LoginServerRegisterKeeps ==
  ASSUME RegistryInv, NEW c, LoginServerRegister(c)
  PROVE  RegistryInv'
<1> DEFINE m == Head(conn[c].msgs)
           q == IF m.type = "CHAR"
                  THEN [conn[c] EXCEPT !.msgs = Tail(@), !.type = "CHAR"]
                  ELSE [conn[c] EXCEPT !.msgs = Tail(@), !.channels = @ \cup {m.id}]
<1>1. /\ c \in DOMAIN conn /\ conn[c].to = "login" /\ conn[c].msgs # <<>> /\ m.kind = "register"
  BY DEF LoginServerRegister, Incoming
<1>2. conn[c] \in Connection
  BY <1>1, Typed DEF RegistryInv
<1>3. conn' = [conn EXCEPT ![c] = q] /\ UNCHANGED <<up, link, inList, count, stuck, faults>>
  BY <1>1 DEF LoginServerRegister
<1>4. /\ conn[c].msgs \in Seq(Message)
      /\ conn[c].from \in Clients /\ conn[c].to \in Process /\ conn[c].id \in Nat
      /\ conn[c].type \in ServerType /\ conn[c].channels \in SUBSET Nat
  BY <1>2 DEF Connection
<1>5. m = conn[c].msgs[1] /\ m \in Message /\ Tail(conn[c].msgs) \in Seq(Message)
  BY <1>1, <1>4, Queue
<1>6. m.id \in Nat
  BY <1>5 DEF Message
<1> HIDE DEF m
<1>7. CASE m.type = "CHAR"
  <2>1. q = [conn[c] EXCEPT !.msgs = Tail(@), !.type = "CHAR"]
    BY <1>7
  <2> HIDE DEF q
  <2>2. /\ q \in Connection /\ q.from = conn[c].from /\ q.to = conn[c].to /\ q.id = conn[c].id
        /\ q.cOpen = conn[c].cOpen /\ q.sOpen = conn[c].sOpen /\ q.listed = conn[c].listed
        /\ q.failed = conn[c].failed
        /\ q.msgs = Tail(conn[c].msgs) /\ q.channels = conn[c].channels
    BY <1>2, <1>5, <2>1 DEF Connection, ServerType
  <2>3. Applied(m, conn[c].channels, q.channels)
    BY <1>1, <2>2 DEF Applied
  <2> QED BY <1>1, <1>3, <1>5, <2>2, <2>3, LoginHandles
<1>8. CASE m.type # "CHAR"
  <2>1. q = [conn[c] EXCEPT !.msgs = Tail(@), !.channels = @ \cup {m.id}]
    BY <1>8
  <2> HIDE DEF q
  <2>2. /\ q \in Connection /\ q.from = conn[c].from /\ q.to = conn[c].to /\ q.id = conn[c].id
        /\ q.cOpen = conn[c].cOpen /\ q.sOpen = conn[c].sOpen /\ q.listed = conn[c].listed
        /\ q.failed = conn[c].failed
        /\ q.msgs = Tail(conn[c].msgs) /\ q.channels = conn[c].channels \cup {m.id}
    BY <1>2, <1>5, <1>6, <2>1 DEF Connection
  <2>3. \A id \in q.channels : id \in conn[c].channels \/ (m.type # "CHAR" /\ id = m.id)
    BY <1>8, <2>2
  <2>4. Applied(m, conn[c].channels, q.channels)
    BY <1>1, <2>3 DEF Applied
  <2> QED BY <1>1, <1>3, <1>5, <2>2, <2>4, LoginHandles
<1> QED BY <1>7, <1>8

LEMMA LoginServerShutdownKeeps ==
  ASSUME RegistryInv, NEW c, LoginServerShutdown(c)
  PROVE  RegistryInv'
<1> DEFINE m == Head(conn[c].msgs)
           q == [conn[c] EXCEPT !.msgs = Tail(@), !.channels = @ \ {m.id}]
<1>1. /\ c \in DOMAIN conn /\ conn[c].to = "login" /\ conn[c].msgs # <<>>
  BY DEF LoginServerShutdown, Incoming
<1>2. conn[c] \in Connection
  BY <1>1, Typed DEF RegistryInv
<1>3. conn' = [conn EXCEPT ![c] = q] /\ UNCHANGED <<up, link, inList, count, stuck, faults>>
  BY <1>1 DEF LoginServerShutdown
<1>4. conn[c].msgs \in Seq(Message)
  BY <1>2 DEF Connection
<1>5. m = conn[c].msgs[1] /\ m \in Message /\ Tail(conn[c].msgs) \in Seq(Message)
  BY <1>1, <1>4, Queue
<1> HIDE DEF m
<1>6. /\ q \in Connection /\ q.from = conn[c].from /\ q.to = conn[c].to /\ q.id = conn[c].id
      /\ q.cOpen = conn[c].cOpen /\ q.sOpen = conn[c].sOpen /\ q.listed = conn[c].listed
      /\ q.failed = conn[c].failed
      /\ q.msgs = Tail(conn[c].msgs) /\ q.channels = conn[c].channels \ {m.id}
  BY <1>2, <1>5 DEF Connection
<1> HIDE DEF q
<1>7. \A id \in q.channels : id \in conn[c].channels /\ id # m.id
  BY <1>6
<1>8. Applied(m, conn[c].channels, q.channels)
  BY <1>7 DEF Applied
<1> QED BY <1>1, <1>3, <1>5, <1>6, <1>8, LoginHandles

LEMMA LoginOnShutdownKeeps ==
  ASSUME RegistryInv, NEW c, LoginOnShutdown(c)
  PROVE  RegistryInv'
<1> DEFINE q == [conn[c] EXCEPT !.sOpen = FALSE]
<1>0. Len(conn) \in Nat /\ DOMAIN conn = 1 .. Len(conn) /\ conn \in Seq(Connection)
  BY Typed DEF RegistryInv, Shape
<1>1. c \in DOMAIN conn /\ conn[c].to = "login"
  BY DEF LoginOnShutdown, Ended
<1>2. conn[c] \in Connection
  BY <1>1, Typed DEF RegistryInv
<1>3. conn' = [conn EXCEPT ![c] = q] /\ UNCHANGED <<up, link, inList, count, stuck, faults>>
  BY <1>1 DEF LoginOnShutdown
<1>4. /\ q \in Connection /\ q.from = conn[c].from /\ q.to = conn[c].to /\ q.id = conn[c].id
      /\ q.cOpen = conn[c].cOpen /\ ~q.sOpen /\ q.failed = conn[c].failed
      /\ q.msgs = conn[c].msgs /\ q.channels = conn[c].channels
  BY <1>2 DEF Connection
<1> HIDE DEF q
<1>5. /\ conn' \in Seq(Connection) /\ Len(conn') = Len(conn)
      /\ \A d \in DOMAIN conn : conn'[d] = IF d = c THEN q ELSE conn[d]
  BY <1>0, <1>1, <1>3, <1>4, Replaced
<1>6. DOMAIN conn \subseteq DOMAIN conn'
  BY <1>0, <1>5
<1>7. Shape' /\ ConnInv' /\ LinkInv' /\ CountInv'
  <2>1. \A d \in DOMAIN conn : /\ conn'[d].from = conn[d].from /\ conn'[d].to = conn[d].to
                               /\ conn'[d].sOpen => conn[d].sOpen /\ conn'[d].listed
    BY <1>4, <1>5 DEF RegistryInv, ConnInv
  <2>2. inList' \in BOOLEAN /\ stuck' \in BOOLEAN /\ faults' \in 0 .. MaxFaults
    BY <1>3 DEF RegistryInv, Shape
  <2> QED BY <1>3, <1>5, <2>1, <2>2, Kept
<1>8. ChannelInv'
  <2>1. \A d \in DOMAIN conn :
          /\ conn'[d].to = conn[d].to /\ conn'[d].id = conn[d].id
          /\ conn[d].to = "char" /\ (conn[d].sOpen \/ conn[d].failed) =>
               conn'[d].sOpen \/ conn'[d].failed
          /\ conn'[d].msgs = conn[d].msgs /\ conn'[d].channels = conn[d].channels
          /\ conn'[d].cOpen => conn[d].cOpen
          /\ conn'[d].sOpen => conn[d].sOpen
    BY <1>1, <1>4, <1>5
  <2> QED BY <1>3, <1>6, <2>1, ChannelFrame
<1> QED BY <1>7, <1>8 DEF RegistryInv

\* Of a map link c the character server changes its own end only.
OwnEnd(r, c) ==
  r.from = c.from /\ r.to = c.to /\ r.id = c.id /\ r.listed = c.listed /\ r.failed = c.failed

\* Nobody is told: the link to the login server does not hold.
LEMMA CharQuiet ==
  ASSUME RegistryInv, NEW c \in DOMAIN conn, conn[c].to = "char", conn[c].sOpen, ~Open(ToLogin),
         NEW r \in Connection, OwnEnd(r, conn[c]), conn' = [conn EXCEPT ![c] = r],
         UNCHANGED <<up, link, inList, count, stuck, faults>>
  PROVE  RegistryInv'
<1>0. Len(conn) \in Nat /\ DOMAIN conn = 1 .. Len(conn) /\ conn \in Seq(Connection)
  BY Typed DEF RegistryInv, Shape
<1>1. /\ conn' \in Seq(Connection) /\ Len(conn') = Len(conn)
      /\ \A d \in DOMAIN conn : conn'[d] = IF d = c THEN r ELSE conn[d]
  BY <1>0, Replaced
<1>2. \A d \in DOMAIN conn : conn[d].sOpen => conn[d].listed
  BY DEF RegistryInv, ConnInv
<1>3. Shape' /\ ConnInv' /\ LinkInv' /\ CountInv'
  <2>1. \A d \in DOMAIN conn : /\ conn'[d].from = conn[d].from /\ conn'[d].to = conn[d].to
                               /\ conn'[d].sOpen => conn[d].sOpen /\ conn'[d].listed
    BY <1>1, <1>2 DEF OwnEnd
  <2>2. inList' \in BOOLEAN /\ stuck' \in BOOLEAN /\ faults' \in 0 .. MaxFaults
    BY DEF RegistryInv, Shape
  <2> QED BY <1>1, <2>1, <2>2, Kept
<1>4. ~Open(ToLogin)'
  <2>1. ToLogin # 0 => ToLogin \in DOMAIN conn /\ conn[ToLogin].to = "login"
    BY <1>0, LinkRange, Targets DEF ToLogin
  <2>2. ToLogin # 0 => conn'[ToLogin] = conn[ToLogin]
    BY <1>1, <2>1
  <2>3. ToLogin' = ToLogin
    BY DEF ToLogin
  <2> QED BY <2>2, <2>3 DEF Open
<1>5. ChannelInv'
  BY <1>4 DEF RegistryInv, ChannelInv
<1> QED BY <1>3, <1>5 DEF RegistryInv

\* The login server is told that c is served, or no longer.
LEMMA CharTells ==
  ASSUME RegistryInv, NEW c \in DOMAIN conn, conn[c].to = "char", conn[c].sOpen,
         NEW L, L = ToLogin, Open(L),
         NEW r \in Connection, OwnEnd(r, conn[c]),
         NEW msg \in Message, msg.id = conn[c].id,
         msg.kind = "shutdown" \/ r.sOpen,
         conn' = [[conn EXCEPT ![c] = r] EXCEPT ![L].msgs = Append(@, msg)],
         UNCHANGED <<up, link, inList, count, stuck, faults>>
  PROVE  RegistryInv'
<1> DEFINE t == [conn EXCEPT ![c] = r]
           ms == conn[L].msgs
           e == [conn[L] EXCEPT !.msgs = Append(ms, msg)]
<1>0. Len(conn) \in Nat /\ DOMAIN conn = 1 .. Len(conn) /\ conn \in Seq(Connection)
  BY Typed DEF RegistryInv, Shape
<1>1. L \in DOMAIN conn /\ conn[L].to = "login" /\ L # c
  BY <1>0, LinkRange, Targets DEF ToLogin, Open
<1>2. /\ t \in Seq(Connection) /\ Len(t) = Len(conn)
      /\ \A d \in 1 .. Len(conn) : t[d] = IF d = c THEN r ELSE conn[d]
  BY <1>0, Replaced
<1>3. conn[L] \in Connection
  BY <1>0, <1>1
<1>4. ms \in Seq(Message)
  BY <1>3 DEF Connection
<1>5. /\ Append(ms, msg) \in Seq(Message) /\ Len(ms) \in Nat
      /\ DOMAIN ms = 1 .. Len(ms) /\ DOMAIN Append(ms, msg) = 1 .. (Len(ms) + 1)
      /\ \A i \in 1 .. Len(ms) : Append(ms, msg)[i] = ms[i]
      /\ Append(ms, msg)[Len(ms) + 1] = msg
  BY <1>4
<1>6. /\ e \in Connection /\ e.from = conn[L].from /\ e.to = conn[L].to /\ e.id = conn[L].id
      /\ e.sOpen = conn[L].sOpen /\ e.listed = conn[L].listed /\ e.cOpen = conn[L].cOpen
      /\ e.msgs = Append(ms, msg) /\ e.channels = conn[L].channels
  BY <1>3, <1>5 DEF Connection
<1>7. conn' = [t EXCEPT ![L] = e]
  <2>1. conn' = [t EXCEPT ![L] = [t[L] EXCEPT !.msgs = Append(t[L].msgs, msg)]]
    OBVIOUS
  <2>2. t[L] = conn[L]
    BY <1>0, <1>1, <1>2
  <2> QED BY <2>1, <2>2
<1> HIDE DEF t, e
<1>8. /\ conn' \in Seq(Connection) /\ Len(conn') = Len(conn)
      /\ \A d \in 1 .. Len(conn) : conn'[d] = IF d = L THEN e ELSE t[d]
  <2>1. L \in 1 .. Len(t)
    BY <1>0, <1>1, <1>2
  <2>2. /\ [t EXCEPT ![L] = e] \in Seq(Connection) /\ Len([t EXCEPT ![L] = e]) = Len(t)
        /\ \A d \in 1 .. Len(t) : [t EXCEPT ![L] = e][d] = IF d = L THEN e ELSE t[d]
    BY <1>2, <1>6, <2>1, Replaced
  <2> QED BY <1>2, <1>7, <2>2
<1>9. /\ \A d \in DOMAIN conn : conn'[d] = IF d = L THEN e ELSE IF d = c THEN r ELSE conn[d]
      /\ DOMAIN conn' = DOMAIN conn
  BY <1>0, <1>2, <1>8
<1>10. \A d \in DOMAIN conn : conn[d].sOpen => conn[d].listed
  BY DEF RegistryInv, ConnInv
<1>11. Shape' /\ ConnInv' /\ LinkInv' /\ CountInv'
  <2>1. \A d \in DOMAIN conn : /\ conn'[d].from = conn[d].from /\ conn'[d].to = conn[d].to
                               /\ conn'[d].sOpen => conn[d].sOpen /\ conn'[d].listed
    BY <1>6, <1>9, <1>10 DEF OwnEnd
  <2>2. inList' \in BOOLEAN /\ stuck' \in BOOLEAN /\ faults' \in 0 .. MaxFaults
    BY DEF RegistryInv, Shape
  <2> QED BY <1>8, <2>1, <2>2, Kept
<1>12. ChannelInv'
  <2>1. ToLogin' = L /\ conn'[L].msgs = Append(ms, msg) /\ conn'[L].channels = conn[L].channels
    BY <1>1, <1>6, <1>9 DEF ToLogin
  <2>2. "char" \in up
    BY DEF RegistryInv, ConnInv
  <2>3. /\ link["char"].active /\ inList
        /\ \A id \in conn[L].channels : AwayAfter(L, 0, id) \/ Served(id)
        /\ \A i \in DOMAIN ms : ms[i].kind = "register" /\ ms[i].type # "CHAR" =>
                                  AwayAfter(L, i, ms[i].id) \/ Served(ms[i].id)
    BY <2>2 DEF RegistryInv, ChannelInv
  <2> HIDE DEF ms
  <2>4. ASSUME NEW i \in 0 .. Len(ms), NEW id, AwayAfter(L, i, id)
        PROVE  AwayAfter(L, i, id)'
    <3>1. PICK j \in DOMAIN ms : i < j /\ ms[j].kind = "shutdown" /\ ms[j].id = id
      BY <2>4 DEF AwayAfter, ms
    <3>2. j \in DOMAIN Append(ms, msg) /\ Append(ms, msg)[j] = ms[j]
      BY <1>5, <3>1
    <3> QED BY <2>1, <3>1, <3>2 DEF AwayAfter
  <2>5. ASSUME NEW i \in 0 .. Len(ms), NEW id, Served(id)
        PROVE  AwayAfter(L, i, id)' \/ Served(id)'
    <3>1. PICK d \in DOMAIN conn : /\ conn[d].to = "char" /\ (conn[d].sOpen \/ conn[d].failed)
                                   /\ conn[d].id = id
      BY <2>5 DEF Served
    <3>2. CASE d # c \/ r.sOpen
      <4>1. /\ conn'[d].to = "char" /\ (conn'[d].sOpen \/ conn'[d].failed)
            /\ conn'[d].id = id
        BY <1>1, <1>9, <3>1, <3>2 DEF OwnEnd
      <4> QED BY <1>9, <4>1 DEF Served
    <3>3. CASE d = c /\ msg.kind = "shutdown"
      <4>1. /\ Len(ms) + 1 \in DOMAIN Append(ms, msg) /\ i < Len(ms) + 1
            /\ Append(ms, msg)[Len(ms) + 1] = msg /\ msg.id = id
        BY <1>5, <3>1, <3>3
      <4> QED BY <2>1, <3>3, <4>1 DEF AwayAfter
    <3> QED BY <3>2, <3>3
  <2>6. \A id \in conn'[L].channels : AwayAfter(L, 0, id)' \/ Served(id)'
    <3>1. 0 \in 0 .. Len(ms)
      BY <1>5
    <3> QED BY <2>1, <2>3, <2>4, <2>5, <3>1
  <2>7. ASSUME NEW i \in DOMAIN Append(ms, msg), NEW k, k = Append(ms, msg)[i],
               k.kind = "register", k.type # "CHAR"
        PROVE  AwayAfter(L, i, k.id)' \/ Served(k.id)'
    <3>1. CASE i \in DOMAIN ms
      <4>1. k = ms[i] /\ i \in 0 .. Len(ms)
        BY <1>5, <2>7, <3>1
      <4>2. AwayAfter(L, i, k.id) \/ Served(k.id)
        BY <2>3, <2>7, <3>1, <4>1
      <4> QED BY <2>4, <2>5, <4>1, <4>2
    <3>2. CASE i = Len(ms) + 1
      <4>1. k = msg /\ r.sOpen
        BY <1>5, <2>7, <3>2
      <4>2. conn'[c].to = "char" /\ conn'[c].sOpen /\ conn'[c].id = k.id
        BY <1>1, <1>9, <4>1 DEF OwnEnd
      <4> QED BY <1>9, <4>2 DEF Served
    <3> QED BY <1>5, <3>1, <3>2
  <2>8. \A i \in DOMAIN conn'[L].msgs : \A k :
          k = conn'[L].msgs[i] /\ k.kind = "register" /\ k.type # "CHAR" =>
            AwayAfter(L, i, k.id)' \/ Served(k.id)'
    BY <2>1, <2>7
  <2> QED BY <2>1, <2>3, <2>6, <2>8 DEF ChannelInv
<1> QED BY <1>11, <1>12 DEF RegistryInv

LEMMA CharServerRegisterKeeps ==
  ASSUME RegistryInv, NEW c, CharServerRegister(c)
  PROVE  RegistryInv'
<1> DEFINE r == [conn[c] EXCEPT !.msgs = Tail(@), !.type = "MAP_MASTER"]
           u == [r EXCEPT !.sOpen = FALSE]
           msg == [kind |-> "register", type |-> "MAP_MASTER", id |-> conn[c].id]
           t == [conn EXCEPT ![c] = r]
<1>1. /\ c \in DOMAIN conn /\ conn[c].to = "char" /\ conn[c].sOpen /\ conn[c].msgs # <<>>
      /\ UNCHANGED <<up, link, inList, count, stuck, faults>>
      /\ conn' = IF inList THEN Tell(t, msg) ELSE [t EXCEPT ![c].sOpen = FALSE]
  BY DEF CharServerRegister, Incoming
<1>2. conn \in Seq(Connection) /\ conn[c] \in Connection /\ c \in 1 .. Len(conn)
  BY <1>1, Typed DEF RegistryInv, Shape
<1>3. conn[c].msgs \in Seq(Message) /\ conn[c].id \in Nat
  BY <1>2 DEF Connection
<1>4. Tail(conn[c].msgs) \in Seq(Message)
  BY <1>1, <1>3, Queue
<1>5. r \in Connection /\ OwnEnd(r, conn[c]) /\ r.sOpen = conn[c].sOpen
  BY <1>2, <1>4 DEF Connection, ServerType, OwnEnd
<1>6. u \in Connection /\ OwnEnd(u, r)
  <2> HIDE DEF r
  <2> QED BY <1>5 DEF Connection, OwnEnd
<1>7. msg \in Message /\ msg.id = conn[c].id
  BY <1>3 DEF Message, ServerType
<1>8. OwnEnd(u, conn[c])
  BY <1>5, <1>6 DEF OwnEnd
<1>9. [t EXCEPT ![c].sOpen = FALSE] = [conn EXCEPT ![c] = u]
  <2> HIDE DEF r
  <2>1. t[c] = r
    BY <1>2
  <2>2. [t EXCEPT ![c].sOpen = FALSE] = [t EXCEPT ![c] = [t[c] EXCEPT !.sOpen = FALSE]]
    OBVIOUS
  <2>3. [t EXCEPT ![c].sOpen = FALSE] = [t EXCEPT ![c] = u]
    BY <2>1, <2>2
  <2> HIDE DEF u
  <2>4. [t EXCEPT ![c] = u] = [conn EXCEPT ![c] = u]
    BY <1>2
  <2> QED BY <2>3, <2>4
<1> HIDE DEF r, u, msg
<1>10. "char" \in up
  BY <1>1 DEF RegistryInv, ConnInv
<1>11. CASE Open(ToLogin)
  <2>1. inList /\ link["char"].active
    BY <1>10, <1>11 DEF RegistryInv, ChannelInv
  <2>2. conn' = [[conn EXCEPT ![c] = r] EXCEPT ![ToLogin].msgs = Append(@, msg)]
    BY <1>1, <1>11, <2>1 DEF Tell
  <2>3. r.sOpen
    BY <1>1, <1>5
  <2> QED BY <1>1, <1>5, <1>7, <1>11, <2>2, <2>3, CharTells
<1>12. CASE ~Open(ToLogin)
  <2>1. Tell(t, msg) = t
    BY <1>12 DEF Tell
  <2>2. conn' = [conn EXCEPT ![c] = r] \/ conn' = [conn EXCEPT ![c] = u]
    BY <1>1, <1>9, <2>1
  <2> QED BY <1>1, <1>5, <1>6, <1>8, <1>12, <2>2, CharQuiet
<1> QED BY <1>11, <1>12

LEMMA CharOnShutdownKeeps ==
  ASSUME RegistryInv, NEW c, CharOnShutdown(c)
  PROVE  RegistryInv'
<1> DEFINE r == [conn[c] EXCEPT !.sOpen = FALSE]
           msg == [kind |-> "shutdown", type |-> conn[c].type, id |-> conn[c].id]
           t == [conn EXCEPT ![c] = r]
<1>1. /\ c \in DOMAIN conn /\ conn[c].to = "char" /\ conn[c].sOpen
      /\ UNCHANGED <<up, link, inList, count, stuck, faults>>
      /\ conn' = IF inList THEN Tell(t, msg) ELSE t
  BY DEF CharOnShutdown, Ended
<1>2. conn[c] \in Connection
  BY <1>1, Typed DEF RegistryInv, Shape
<1>3. r \in Connection /\ OwnEnd(r, conn[c])
  BY <1>2 DEF Connection, OwnEnd
<1>4. msg \in Message /\ msg.id = conn[c].id /\ msg.kind = "shutdown"
  BY <1>2 DEF Connection, Message
<1> HIDE DEF r, msg
<1>5. "char" \in up
  BY <1>1 DEF RegistryInv, ConnInv
<1>6. CASE Open(ToLogin)
  <2>1. inList /\ link["char"].active
    BY <1>5, <1>6 DEF RegistryInv, ChannelInv
  <2>2. conn' = [[conn EXCEPT ![c] = r] EXCEPT ![ToLogin].msgs = Append(@, msg)]
    BY <1>1, <1>6, <2>1 DEF Tell
  <2>3. msg.kind = "shutdown" \/ r.sOpen
    BY <1>4
  <2>4. msg \in Message /\ msg.id = conn[c].id
    BY <1>4
  <2> QED BY <1>1, <1>3, <1>6, <2>2, <2>3, <2>4, CharTells
<1>7. CASE ~Open(ToLogin)
  <2>1. Tell(t, msg) = t
    BY <1>7 DEF Tell
  <2>2. conn' = [conn EXCEPT ![c] = r]
    BY <1>1, <2>1
  <2> QED BY <1>1, <1>3, <1>7, <2>2, CharQuiet
<1> QED BY <1>6, <1>7

-----------------------------------------------------------------------------
(* Reads that fail. *)

LEMMA ReadErrorKeeps ==
  ASSUME RegistryInv, NEW c, ReadError(c)
  PROVE  RegistryInv'
<1> DEFINE q == [conn[c] EXCEPT !.sOpen = FALSE, !.failed = TRUE, !.msgs = <<>>]
<1>0. Len(conn) \in Nat /\ DOMAIN conn = 1 .. Len(conn) /\ conn \in Seq(Connection)
  BY Typed DEF RegistryInv, Shape
<1>1. /\ c \in DOMAIN conn /\ faults < MaxFaults /\ faults' = faults + 1
      /\ conn' = [conn EXCEPT ![c] = q] /\ UNCHANGED <<up, link, inList, count, stuck>>
  BY DEF ReadError
<1>2. conn[c] \in Connection
  BY <1>1, Typed DEF RegistryInv
<1>3. <<>> \in Seq(Message)
  OBVIOUS
<1>4. /\ q \in Connection /\ q.from = conn[c].from /\ q.to = conn[c].to /\ q.id = conn[c].id
      /\ ~q.sOpen /\ q.failed
  BY <1>2, <1>3 DEF Connection
<1> HIDE DEF q
<1>5. /\ conn' \in Seq(Connection) /\ Len(conn') = Len(conn)
      /\ \A d \in DOMAIN conn : conn'[d] = IF d = c THEN q ELSE conn[d]
  BY <1>0, <1>1, <1>4, Replaced
<1>6. DOMAIN conn' = DOMAIN conn
  BY <1>0, <1>5
<1>7. faults' \in 0 .. MaxFaults
  BY <1>1, RegistryAssumption DEF RegistryInv, Shape
<1>8. Shape' /\ ConnInv' /\ LinkInv' /\ CountInv'
  <2>1. \A d \in DOMAIN conn : /\ conn'[d].from = conn[d].from /\ conn'[d].to = conn[d].to
                               /\ conn'[d].sOpen => conn[d].sOpen /\ conn'[d].listed
    BY <1>4, <1>5 DEF RegistryInv, ConnInv
  <2>2. inList' \in BOOLEAN /\ stuck' \in BOOLEAN
    BY <1>1 DEF RegistryInv, Shape
  <2> QED BY <1>1, <1>5, <1>7, <2>1, <2>2, Kept
<1>9. ChannelInv'
  <2>1. CASE c = ToLogin
    <3>1. ToLogin' = c /\ ~conn'[c].sOpen
      BY <1>1, <1>4, <1>5, <2>1 DEF ToLogin
    <3>2. ~Open(ToLogin)'
      BY <3>1 DEF Open
    <3> QED BY <1>1, <3>2 DEF RegistryInv, ChannelInv
  <2>2. CASE c # ToLogin
    <3>1. \A d \in DOMAIN conn :
            /\ conn'[d].to = conn[d].to /\ conn'[d].id = conn[d].id
            /\ conn[d].to = "char" /\ (conn[d].sOpen \/ conn[d].failed) =>
                 conn'[d].sOpen \/ conn'[d].failed
            /\ d = ToLogin => conn'[d] = conn[d]
      BY <1>4, <1>5, <2>2
    <3> QED BY <1>1, <1>6, <3>1, ChannelFrame
  <2> QED BY <2>1, <2>2
<1> QED BY <1>8, <1>9 DEF RegistryInv

LEMMA ClientReadErrorKeeps ==
  ASSUME RegistryInv, NEW p \in Clients, ClientReadError(p)
  PROVE  RegistryInv'
<1> DEFINE n == Len(conn)
           k == link[p].conn
           q == [conn[k] EXCEPT !.cOpen = FALSE]
           l == [link[p] EXCEPT !.active = FALSE]
<1>0. n \in Nat /\ DOMAIN conn = 1 .. n /\ conn \in Seq(Connection) /\ link \in [Clients -> Link]
  BY Typed DEF RegistryInv, Shape
<1>1. /\ p \in up /\ link[p].active /\ faults < MaxFaults /\ faults' = faults + 1
      /\ UNCHANGED <<up, inList, count, stuck>>
  BY DEF ClientReadError
<1>2. conn' = [conn EXCEPT ![k] = q] /\ link' = [link EXCEPT ![p] = l]
  BY DEF ClientReadError
<1>3. k \in 1 .. n /\ conn[k] \in Connection /\ k # 0
  <2>1. k # 0
    BY <1>1 DEF RegistryInv, LinkInv
  <2>2. k \in 1 .. n
    BY <2>1, LinkRange
  <2> QED BY <2>1, <2>2, Typed DEF RegistryInv
<1>4. l \in Link /\ l.conn = k /\ ~l.active
  <2>1. link[p] \in Link
    BY <1>0
  <2> QED BY <2>1 DEF Link
<1>5. q \in Connection /\ SameButEnd(q, conn[k]) /\ ~q.cOpen
  BY <1>3 DEF Connection, SameButEnd
<1> HIDE DEF n, k, q, l
<1>6. /\ conn' \in Seq(Connection) /\ Len(conn') = n
      /\ \A d \in 1 .. n : conn'[d] = IF d = k THEN q ELSE conn[d]
  BY <1>0, <1>2, <1>3, <1>5, Replaced DEF n
<1>7. DOMAIN conn' = 1 .. n
  BY <1>0, <1>6
<1>8. /\ link' \in [Clients -> Link] /\ link'[p] = l
      /\ \A c \in Clients : c # p => link'[c] = link[c]
  BY <1>0, <1>2, <1>4
<1>9. \A d \in 1 .. n : SameButEnd(conn'[d], conn[d])
  <2>1. \A d \in 1 .. n : SameButEnd(conn[d], conn[d])
    BY DEF SameButEnd
  <2> QED BY <1>5, <1>6, <2>1
<1>10. Shape'
  <2>1. faults' \in 0 .. MaxFaults
    BY <1>1, RegistryAssumption DEF RegistryInv, Shape
  <2> QED BY <1>1, <1>6, <1>8, <2>1 DEF RegistryInv, Shape
<1>11. ConnInv'
  <2>1. \A d \in 1 .. n : /\ conn[d].to = Target(conn[d].from)
                          /\ conn[d].sOpen => conn[d].listed /\ conn[d].to \in up
    BY <1>0 DEF RegistryInv, ConnInv
  <2>2. \A d \in 1 .. n : /\ conn'[d].from = conn[d].from /\ conn'[d].to = conn[d].to
                          /\ conn'[d].sOpen = conn[d].sOpen /\ conn'[d].listed = conn[d].listed
    BY <1>9 DEF SameButEnd
  <2> QED BY <1>1, <1>7, <2>1, <2>2 DEF ConnInv
<1>12. LinkInv'
  <2>1. \A c \in Clients : /\ link'[c].conn = link[c].conn
                           /\ link'[c].active => link[c].active
    BY <1>4, <1>8 DEF k
  <2>2. \A d \in 1 .. n : conn'[d].from = conn[d].from
    BY <1>9 DEF SameButEnd
  <2> QED BY <1>0, <1>1, <1>7, <2>1, <2>2 DEF RegistryInv, LinkInv
<1>13. CountInv'
  BY <1>1, <1>6 DEF RegistryInv, CountInv, n
<1>14. ChannelInv'
  <2>1. CASE p = "char"
    <3>1. ToLogin' = k /\ ~conn'[k].cOpen /\ ~link'["char"].active
      BY <1>3, <1>4, <1>5, <1>6, <1>8, <2>1 DEF ToLogin
    <3>2. ~Open(ToLogin)'
      BY <3>1 DEF Open
    <3> QED BY <3>1, <3>2 DEF ChannelInv
  <2>2. CASE p # "char"
    <3>1. link'["char"] = link["char"]
      BY <1>8, <2>2, Targets
    <3>2. \A d \in DOMAIN conn :
            /\ conn'[d].to = conn[d].to /\ conn'[d].id = conn[d].id
            /\ conn[d].to = "char" /\ (conn[d].sOpen \/ conn[d].failed) =>
                 conn'[d].sOpen \/ conn'[d].failed
            /\ conn'[d].msgs = conn[d].msgs /\ conn'[d].channels = conn[d].channels
            /\ conn'[d].cOpen => conn[d].cOpen
            /\ conn'[d].sOpen => conn[d].sOpen
      BY <1>0, <1>9 DEF SameButEnd
    <3> QED BY <1>0, <1>1, <1>7, <3>1, <3>2, ChannelFrame
  <2> QED BY <2>1, <2>2
<1> QED BY <1>10, <1>11, <1>12, <1>13, <1>14 DEF RegistryInv

-----------------------------------------------------------------------------
LEMMA InitRight ==
  ASSUME Init
  PROVE  RegistryInv
<1>1. NoLink \in Link /\ NoLink.conn = 0 /\ ~NoLink.active
  BY DEF NoLink, Link
<1>2. conn = <<>> /\ DOMAIN conn = {} /\ Len(conn) = 0 /\ conn \in Seq(Connection)
  BY DEF Init
<1>3. Shape
  <2>1. link \in [Clients -> Link]
    BY <1>1 DEF Init
  <2>2. 0 \in 0 .. MaxFaults
    BY RegistryAssumption
  <2>3. /\ up = {"login"} /\ inList = FALSE /\ stuck = FALSE /\ count = 0 /\ faults = 0
    BY DEF Init
  <2> QED BY <1>2, <2>1, <2>2, <2>3 DEF Shape
<1>4. ConnInv
  BY <1>2 DEF ConnInv
<1>5. LinkInv
  BY <1>1 DEF Init, LinkInv
<1>6. CountInv
  BY <1>2, RegistryAssumption DEF Init, CountInv
<1>7. ChannelInv
  BY DEF Init, ChannelInv
<1> QED BY <1>3, <1>4, <1>5, <1>6, <1>7 DEF RegistryInv

LEMMA StepKeeps ==
  ASSUME RegistryInv, [Next]_vars
  PROVE  RegistryInv'
<1>1. CASE UNCHANGED vars
  <2>1. UNCHANGED <<up, conn, link, inList, count, stuck, faults>>
    BY <1>1 DEF vars
  <2>2. Shape' /\ ConnInv' /\ LinkInv' /\ CountInv'
    BY <2>1 DEF RegistryInv, Shape, ConnInv, LinkInv, CountInv
  <2>3. ChannelInv'
    BY <2>1, ChannelFrame
  <2> QED BY <2>2, <2>3 DEF RegistryInv
<1>2. CASE StartChar \/ \E m \in Maps : StartMap(m)
  BY <1>2, StartsKeep
<1>3. CASE StartLogin
  BY <1>3, StartLoginKeeps
<1>4. ASSUME NEW p \in Clients \cup {"login"}, NEW silent \in BOOLEAN, Crash(p, silent)
      PROVE  RegistryInv'
  BY <1>4, CrashKeeps
<1>5. ASSUME NEW c \in 1 .. MaxConns,
             LoginServerRegister(c) \/ LoginServerShutdown(c) \/ LoginOnShutdown(c)
               \/ CharServerRegister(c) \/ CharOnShutdown(c) \/ CharTimeout(c) \/ ReadError(c)
      PROVE  RegistryInv'
  BY <1>5, LoginServerRegisterKeeps, LoginServerShutdownKeeps, LoginOnShutdownKeeps,
     CharServerRegisterKeeps, CharOnShutdownKeeps, CharTimeoutKeeps,
     ReadErrorKeeps
<1>6. ASSUME NEW s \in {"login", "char"}, Sweep(s)
      PROVE  RegistryInv'
  BY <1>6, SweepKeeps
<1>7. ASSUME NEW p \in Clients, ClientOnShutdown(p) \/ ClientNotices(p) \/ ClientReadError(p)
      PROVE  RegistryInv'
  BY <1>7, ReconnectsKeep, ClientReadErrorKeeps
<1> QED BY <1>1, <1>2, <1>3, <1>4, <1>5, <1>6, <1>7 DEF Next

LEMMA RegistryCorrect == Spec => []RegistryInv
<1>1. Init => RegistryInv
  BY InitRight
<1>2. RegistryInv /\ [Next]_vars => RegistryInv'
  BY StepKeeps
<1> QED BY <1>1, <1>2, PTL DEF Spec

(***************************************************************************)
(* The processes, connections and links are well formed: an entry that is  *)
(* open is listed by a server that runs, and a client takes a link for     *)
(* alive only while it has one (CRoseISC, isc_list_, server_count_).       *)
(***************************************************************************)
THEOREM TypeCorrect == Spec => []TypeOK
<1>1. RegistryInv => TypeOK
  <2> SUFFICES ASSUME RegistryInv
               PROVE  TypeOK
    OBVIOUS
  <2>1. Len(conn) \in Nat /\ DOMAIN conn = 1 .. Len(conn)
    BY Typed DEF RegistryInv
  <2>2. \A c \in DOMAIN conn : conn[c] \in Connection
    BY Typed DEF RegistryInv
  <2>3. \A c \in DOMAIN conn :
         /\ conn[c].from \in Clients /\ conn[c].to = Target(conn[c].from)
         /\ conn[c].type \in {"none", "CHAR", "MAP_MASTER"}
         /\ conn[c].sOpen => conn[c].listed /\ conn[c].to \in up
    BY <2>2 DEF RegistryInv, ConnInv, Connection, ServerType
  <2>4. \A p \in Clients : link[p].active => p \in up /\ link[p].conn \in DOMAIN conn
    BY DEF RegistryInv, LinkInv
  <2>5. count \in 0 .. MaxConns /\ Len(conn) <= MaxConns
    BY <2>1, RegistryAssumption DEF RegistryInv, Shape, CountInv
  <2>6. up \subseteq Clients \cup {"login"} /\ {inList, stuck} \subseteq BOOLEAN
        /\ faults \in 0 .. MaxFaults
    BY DEF RegistryInv, Shape
  <2> QED BY <2>3, <2>4, <2>5, <2>6 DEF TypeOK
<1> QED BY <1>1, RegistryCorrect, PTL

(***************************************************************************)
(* However map, character and login servers start, crash and reconnect,    *)
(* and whatever reads fail: while the link of the character server holds,  *)
(* the login server offers no channel of a map server that is gone, unless *)
(* the ISC_SHUTDOWN that takes it away is under way (CCharISC::OnShutdown, *)
(* ServerShutdown) or the read of that map link failed and shutdown(true)  *)
(* told nobody.                                                            *)
(***************************************************************************)
THEOREM NoGhosts == Spec => []NoGhostChannel
<1>1. RegistryInv => NoGhostChannel
  <2> SUFFICES ASSUME RegistryInv, "char" \in up, Open(ToLogin),
                      NEW id \in conn[ToLogin].channels
               PROVE  \/ GoingAway(ToLogin, id)
                      \/ \E d \in DOMAIN conn :
                           /\ conn[d].to = "char" /\ (conn[d].sOpen \/ conn[d].failed)
                           /\ conn[d].id = id
    BY DEF NoGhostChannel
  <2>1. AwayAfter(ToLogin, 0, id) \/ Served(id)
    BY DEF RegistryInv, ChannelInv
  <2> QED BY <2>1 DEF AwayAfter, Served, GoingAway
<1> QED BY <1>1, RegistryCorrect, PTL
=============================================================================
