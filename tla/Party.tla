------------------------------- MODULE Party -------------------------------
(***************************************************************************)
(* Player parties of a map server: PartySystem and PartyBase.              *)
(*                                                                         *)
(* A character holds at most one Party component; it either points to a    *)
(* PartyBase (a member list and a leader) or stands for an invitation that *)
(* has not been answered.  All handlers run on the map's update thread,    *)
(* one packet at a time, so a handler is one action; what makes the state  *)
(* hard to keep consistent is that packets name any character and arrive   *)
(* in any order, and that a removed component runs a callback which may    *)
(* remove another one.  Messages to the clients are left out.              *)
(***************************************************************************)
EXTENDS Integers, Sequences, SequencesExt, FiniteSets

CONSTANTS
  Chars,     \* characters
  Parties,   \* PartyBase objects; one is reused when nobody refers to it
  NoChar,    \* whatever members_[0] of an empty vector yields
  NoParty    \* the null party_ pointer

ASSUME NoCharAssumption == NoChar \notin Chars
ASSUME NoPartyAssumption == NoParty \notin Parties

VARIABLES
  on_map,    \* characters that have an entity
  socket,    \* characters whose client object still exists
  comp,      \* each character's Party component
  members_,  \* PartyBase::members_
  leader_    \* PartyBase::leader_

vars == <<on_map, socket, comp, members_, leader_>>

NoComp == [has |-> FALSE, party |-> NoParty, isRequested |-> FALSE]
Requesting == [has |-> TRUE, party |-> NoParty, isRequested |-> TRUE]
MemberOf(p) == [has |-> TRUE, party |-> p, isRequested |-> FALSE]

Component == [has : BOOLEAN, party : Parties \cup {NoParty}, isRequested : BOOLEAN]

Init ==
  /\ on_map = {}
  /\ socket = {}
  /\ comp = [c \in Chars |-> NoComp]
  /\ members_ = [p \in Parties |-> <<>>]
  /\ leader_ = [p \in Parties |-> NoChar]

\* manager_.getEntity(id) finds the character and its client is there.
Reachable(c) == c \in on_map /\ c \in socket

InParty(c) == comp[c].party # NoParty

isMember(p, c) == \E i \in 1 .. Len(members_[p]) : members_[p][i] = c

-----------------------------------------------------------------------------
(* Removal of a Party component *)

\* removeMember finds the member and erases that one place.
Without(seq, c) == RemoveFirst(seq, c)

\* Slip: a leader who goes keeps the leadership.
NewLeaderKept(p, c, rest) == leader_[p]

(***************************************************************************)
(* removeMember hands a leaving leader's role to members_[0], which does   *)
(* not exist when the last member goes.                                    *)
(***************************************************************************)
NewLeader(p, c, rest) ==
  IF leader_[p] # c THEN leader_[p] ELSE IF rest = <<>> THEN NoChar ELSE rest[1]

(***************************************************************************)
(* The callback on_component_removed<Party>: c, unless it is in no member  *)
(* list, leaves it; if one member is left, its component is removed too,   *)
(* and the callback runs again for it.  others: the components before the  *)
(* removal.                                                                *)
(***************************************************************************)
RemoveParty(c, others) ==
  LET p == comp[c].party
      rest == Without(members_[p], c)
      listed == InParty(c) /\ isMember(p, c)
  IN \/ /\ ~listed
        /\ comp' = [others EXCEPT ![c] = NoComp]
        /\ UNCHANGED <<members_, leader_>>
     \/ /\ listed
        /\ Len(rest) = 1
        /\ comp' = [others EXCEPT ![c] = NoComp, ![rest[1]] = NoComp]
        /\ members_' = [members_ EXCEPT ![p] = <<>>]
        /\ leader_' = [leader_ EXCEPT ![p] = NoChar]
     \/ /\ listed
        /\ Len(rest) # 1
        /\ comp' = [others EXCEPT ![c] = NoComp]
        /\ members_' = [members_ EXCEPT ![p] = rest]
        /\ leader_' = [leader_ EXCEPT ![p] = NewLeader(p, c, rest)]

-----------------------------------------------------------------------------
(* processPartyReq.  c sends the packet, o is the character it names; they *)
(* may be the same.                                                        *)

Request(c, o) == Reachable(c) /\ Reachable(o)

Make(c, o) ==
  /\ Request(c, o)
  /\ ~InParty(c)
  /\ comp' = [comp EXCEPT ![c] = Requesting]
  /\ UNCHANGED <<on_map, socket, members_, leader_>>

Join(c, o) ==
  /\ Request(c, o)
  /\ InParty(c)
  /\ comp' = [comp EXCEPT ![c] = [comp[c] EXCEPT !.isRequested = TRUE]]
  /\ UNCHANGED <<on_map, socket, members_, leader_>>

Left(c, o) ==
  /\ Request(c, o)
  /\ comp[c].has
  /\ RemoveParty(c, comp)
  /\ UNCHANGED <<on_map, socket>>

\* Slip: any member may hand the leadership on.
ChangeOwnerByMember(c, o) ==
  LET p == comp[c].party
  IN /\ Request(c, o)
     /\ InParty(c)
     /\ isMember(p, o)
     /\ o # leader_[p]
     /\ leader_' = [leader_ EXCEPT ![p] = o]
     /\ UNCHANGED <<on_map, socket, comp, members_>>

ChangeOwner(c, o) ==
  LET p == comp[c].party
  IN /\ Request(c, o)
     /\ InParty(c)
     /\ leader_[p] = c
     /\ isMember(p, o)
     /\ o # c
     /\ leader_' = [leader_ EXCEPT ![p] = o]
     /\ UNCHANGED <<on_map, socket, comp, members_>>

\* Any member may kick any member.
Kick(c, o) ==
  /\ Request(c, o)
  /\ InParty(c)
  /\ isMember(comp[c].party, o)
  /\ RemoveParty(o, comp)
  /\ UNCHANGED <<on_map, socket>>

-----------------------------------------------------------------------------
(* processPartyReply.  c answers the request it says o made; nothing       *)
(* records whom o asked.                                                   *)

Reply(c, o) == Request(c, o) /\ comp[o].has /\ comp[o].isRequested

Reject(c, o) ==
  LET answered == [comp EXCEPT ![o] = [comp[o] EXCEPT !.isRequested = FALSE]]
  IN /\ Reply(c, o)
     /\ IF InParty(o)
        THEN comp' = answered /\ UNCHANGED <<members_, leader_>>
        ELSE RemoveParty(o, answered)
     /\ UNCHANGED <<on_map, socket>>

\* Slip: addPartyMember does not look at the newcomer's own component.
BusyNever(c) == FALSE

\* Somebody with a component of its own cannot be added to a party.
Busy(c) == comp[c].has

\* Slip: the newcomer comes first.
addMemberFirst(p, c) == <<c>> \o members_[p]

addMember(p, c) == IF isMember(p, c) THEN members_[p] ELSE Append(members_[p], c)

(***************************************************************************)
(* addPartyMember: c joins o's party, which is created if o has none; if c *)
(* has a component of its own nothing happens beyond o's request being     *)
(* over.                                                                   *)
(***************************************************************************)
Accept(c, o) ==
  /\ Reply(c, o)
  /\ UNCHANGED <<on_map, socket>>
  /\ \/ /\ Busy(c)
        /\ comp' = [comp EXCEPT ![o] = [comp[o] EXCEPT !.isRequested = FALSE]]
        /\ UNCHANGED <<members_, leader_>>
     \/ /\ ~Busy(c)
        /\ InParty(o)
        /\ comp' = [comp EXCEPT ![o] = MemberOf(comp[o].party), ![c] = MemberOf(comp[o].party)]
        /\ members_' = [members_ EXCEPT ![comp[o].party] = addMember(comp[o].party, c)]
        /\ UNCHANGED leader_
     \/ /\ ~Busy(c)
        /\ ~InParty(o)
        /\ \E p \in Parties :
             /\ \A d \in Chars : comp[d].party # p
             /\ comp' = [comp EXCEPT ![o] = MemberOf(p), ![c] = MemberOf(p)]
             /\ members_' = [members_ EXCEPT ![p] = <<o, c>>]
             /\ leader_' = [leader_ EXCEPT ![p] = o]

-----------------------------------------------------------------------------
\* PartySystem::update drops the components that stand for nothing.
update ==
  LET idle == {c \in Chars : comp[c].has /\ ~InParty(c) /\ ~comp[c].isRequested}
  IN /\ idle # {}
     /\ comp' = [c \in Chars |-> IF c \in idle THEN NoComp ELSE comp[c]]
     /\ UNCHANGED <<on_map, socket, members_, leader_>>

\* Slip: the client is known before its entity is.
EnterSocketOnly(c) ==
  /\ c \notin on_map
  /\ socket' = socket \cup {c}
  /\ UNCHANGED <<on_map, comp, members_, leader_>>

\* The character joins the map with a fresh entity and a client.
Enter(c) ==
  /\ c \notin on_map
  /\ on_map' = on_map \cup {c}
  /\ socket' = socket \cup {c}
  /\ UNCHANGED <<comp, members_, leader_>>

\* The server drops the client object; its entity may live on.
Disconnect(c) ==
  /\ c \in socket
  /\ socket' = socket \ {c}
  /\ UNCHANGED <<on_map, comp, members_, leader_>>

\* The entity is destroyed and with it its components.
Destroy(c) ==
  /\ c \in on_map
  /\ on_map' = on_map \ {c}
  /\ socket' = socket \ {c}
  /\ IF comp[c].has THEN RemoveParty(c, comp) ELSE UNCHANGED <<comp, members_, leader_>>

PacketStep(c, o) ==
  \/ Make(c, o)
  \/ Join(c, o)
  \/ Left(c, o)
  \/ ChangeOwner(c, o)
  \/ Kick(c, o)
  \/ Reject(c, o)
  \/ Accept(c, o)

Next ==
  \/ \E c, o \in Chars : PacketStep(c, o)
  \/ \E c \in Chars : Enter(c) \/ Disconnect(c) \/ Destroy(c)
  \/ update

Spec == Init /\ [][Next]_vars

-----------------------------------------------------------------------------
(* Properties *)

\* Components, member lists and leaders hold values of their types.
TypeOK ==
  /\ on_map \subseteq Chars
  /\ socket \subseteq on_map
  /\ comp \in [Chars -> Component]
  /\ members_ \in [Parties -> Seq(Chars)]
  /\ leader_ \in [Parties -> Chars \cup {NoChar}]

(***************************************************************************)
(* A character is in a member list exactly if its component points to that *)
(* party, and once only.  KICK relies on it: it dereferences the component *)
(* of whomever isMember finds.  Components belong to entities, so no one   *)
(* who left the map is a member.                                           *)
(***************************************************************************)
MembersLinked ==
  /\ \A p \in Parties, c \in Chars : isMember(p, c) <=> comp[c].party = p
  /\ \A p \in Parties : \A i, j \in 1 .. Len(members_[p]) :
       members_[p][i] = members_[p][j] => i = j
  /\ \A c \in Chars : /\ InParty(c) => comp[c].has
                      /\ comp[c].has => c \in on_map

(***************************************************************************)
(* A party has two members or more, one of them the leader: removeMember   *)
(* and its callback never leave somebody alone in a party, or a party to a *)
(* leader who left it.                                                     *)
(***************************************************************************)
LedByMember ==
  \A p \in Parties : members_[p] # <<>> =>
     /\ Len(members_[p]) >= 2
     /\ isMember(p, leader_[p])

\* The characters of whose packets this step may be the handling.
Senders == {c \in Chars : \E o \in Chars : PacketStep(c, o)}

\* The leader sent the packet that hands p on to another member, or is taken out of p
\* and followed by the member who joined before all others.
HandsOn(p) ==
  members_[p] # <<>> /\ members_'[p] # <<>> /\ leader_'[p] # leader_[p] =>
     \/ /\ Senders = {leader_[p]}
        /\ members_'[p] = members_[p] /\ isMember(p, leader_'[p])
     \/ /\ members_'[p] = Without(members_[p], leader_[p])
        /\ leader_'[p] = members_'[p][1]

\* Who gets into a party sent the packet that answers, or waits for an answer.
Consents(c) ==
  ~InParty(c) /\ comp'[c].party # NoParty => Senders = {c} \/ comp[c].isRequested

(***************************************************************************)
(* What the packets of others cannot do: no CHANGE_OWNER but the leader's  *)
(* own moves the leadership, no step takes it from a leader who stays, and *)
(* nobody is drawn into a party who neither answers a request nor has made *)
(* one, although any character may answer the request of any other.        *)
(***************************************************************************)
OwnConsent == [][/\ \A p \in Parties : HandsOn(p)
                 /\ \A c \in Chars : Consents(c)]_vars

(***************************************************************************)
(* The order of joining is kept: a step adds one member at the end or      *)
(* takes one out, and a party that falls to one member is dissolved.       *)
(***************************************************************************)
Seniority ==
  [][\A p \in Parties :
        members_'[p] # members_[p] =>
          \/ members_[p] = <<>> /\ Len(members_'[p]) = 2
          \/ members_'[p] = <<>> /\ Len(members_[p]) = 2
          \/ Front(members_'[p]) = members_[p]
          \/ \E c \in Chars : members_'[p] = Without(members_[p], c)]_vars
=============================================================================
