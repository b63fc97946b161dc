-------------------------------- MODULE Party --------------------------------
(***************************************************************************)
(* Parties: src/src/party.cpp, src/src/game.cpp:4622-4730 and the party    *)
(* part of Player (src/src/player.cpp:1249-1253, 4318-4368).               *)
(*                                                                         *)
(* A Party object and its players point at each other: leader, memberList  *)
(* and inviteList on one side, party and invitePartyList on the other. The *)
(* object is deleted by disband, and its address may be used again. Script *)
(* events of parties are switched off (data/events/events.xml:9-11), and   *)
(* shared experience is left out.                                          *)
(***************************************************************************)
EXTENDS Integers, SequencesExt

CONSTANTS
    Players,
    Parties,    \* addresses of Party objects
    NoPlayer, NoParty

ASSUME PartyAssumption == NoPlayer \notin Players /\ NoParty \notin Parties

VARIABLES
    online,     \* the players of the game
    pact        \* the pointers, see PactType

partyVars == <<online, pact>>

PactType ==
    [party       : [Players -> Parties \cup {NoParty}],  \* Player::party
     invitations : [Players -> SUBSET Parties],          \* Player::invitePartyList
     leader      : [Parties -> Players \cup {NoPlayer}], \* NoPlayer: no such object
     members     : [Parties -> Seq(Players)],            \* memberList
     invited     : [Parties -> SUBSET Players]]          \* inviteList

Empty(s, k) == s.members[k] = <<>> /\ s.invited[k] = {}

\* Party::disband of all parties in gone: everybody is let go, the object is deleted.
Disband(s, gone) ==
    LET LetGo(q, k) == q = s.leader[k] \/ q \in Range(s.members[k])
    IN  [s EXCEPT !.party = [q \in Players |->
                      IF \E k \in gone : LetGo(q, k) THEN NoParty ELSE s.party[q]],
                  !.invitations = [q \in Players |->
                      s.invitations[q] \ {k \in gone : q \in s.invited[k]}],
                  !.leader  = [k \in Parties |-> IF k \in gone THEN NoPlayer ELSE s.leader[k]],
                  !.members = [k \in Parties |-> IF k \in gone THEN <<>> ELSE s.members[k]],
                  !.invited = [k \in Parties |-> IF k \in gone THEN {} ELSE s.invited[k]]]

DisbandIfEmpty(s, k) == IF Empty(s, k) THEN Disband(s, {k}) ELSE s

\* Party::passPartyLeadership: the old leader becomes the first member.
PassLeadership(s, k, q) ==
    [s EXCEPT !.leader[k] = q,
              !.members[k] = <<s.leader[k]>> \o RemoveFirst(@, q)]

\* Mutant of Passes: the leadership is never passed.
PassesNever(s, p, k) == FALSE

\* A leader who leaves passes the leadership, unless a single member would be left
\* and nobody is invited.
Passes(s, p, k) ==
    /\ s.leader[k] = p /\ s.members[k] # <<>>
    /\ Len(s.members[k]) > 1 \/ s.invited[k] # {}

\* Party::leaveParty
LeaveParty(s, p) ==
    LET k == s.party[p]
        missingLeader == s.leader[k] = p /\ ~Passes(s, p, k)
        passed == IF Passes(s, p, k) THEN PassLeadership(s, k, Head(s.members[k])) ELSE s
        left == [passed EXCEPT !.members[k] = RemoveFirst(@, p), !.party[p] = NoParty]
    IN  IF missingLeader THEN Disband(left, {k}) ELSE DisbandIfEmpty(left, k)

\* Party::removeInvite
RemoveInvite(s, p, k) ==
    DisbandIfEmpty([s EXCEPT !.invited[k] = @ \ {p}, !.invitations[p] = @ \ {k}], k)

\* Mutant of ClearInvitations: the player forgets his invitations, the parties do not.
ClearOwnList(s, p) == [s EXCEPT !.invitations[p] = {}]

\* Player::clearPartyInvitations: removeInvite of every party of the list.
ClearInvitations(s, p) ==
    LET cleared == [s EXCEPT !.invitations[p] = {},
                      !.invited = [k \in Parties |->
                          IF k \in s.invitations[p] THEN s.invited[k] \ {p} ELSE s.invited[k]]]
    IN  Disband(cleared, {k \in s.invitations[p] : Empty(cleared, k)})

\* Player::isInviting
IsInviting(p, q) ==
    /\ pact.party[p] # NoParty
    /\ pact.leader[pact.party[p]] = p
    /\ q \in pact.invited[pact.party[p]]

Leads(p) == pact.party[p] # NoParty /\ pact.leader[pact.party[p]] = p

-----------------------------------------------------------------------------
(* Packets of the client; both players are found by id, hence online. *)

\* Game::playerInviteToParty and Party::invitePlayer: the first invitation makes the
\* party, at any address that is free.
InviteToParty(p, q) ==
    /\ {p, q} \subseteq online
    /\ ~IsInviting(q, p)
    /\ pact.party[q] = NoParty
    /\ \E k \in Parties :
          /\ \/ pact.party[p] = NoParty /\ pact.leader[k] = NoPlayer
             \/ pact.party[p] = k /\ pact.leader[k] = p
          /\ pact' = [pact EXCEPT !.party[p] = k, !.leader[k] = p,
                                  !.invited[k] = @ \cup {q},
                                  !.invitations[q] = @ \cup {k}]

\* Game::playerJoinParty and Party::joinParty
JoinParty(p, l) ==
    /\ {p, l} \subseteq online
    /\ IsInviting(l, p)
    /\ pact.party[p] = NoParty
    /\ LET k == pact.party[l]
       IN  pact' = [pact EXCEPT !.party[p] = k,
                                !.members[k] = Append(@, p),
                                !.invited[k] = @ \ {p},
                                !.invitations[p] = @ \ {k}]

\* Game::playerRevokePartyInvitation
RevokeInvitation(p, q) ==
    /\ {p, q} \subseteq online
    /\ Leads(p) /\ IsInviting(p, q)
    /\ pact' = RemoveInvite(pact, q, pact.party[p])

\* Game::playerPassPartyLeadership
PassPartyLeadership(p, q) ==
    /\ {p, q} \subseteq online
    /\ Leads(p) /\ p # q /\ pact.party[q] = pact.party[p]
    /\ pact' = PassLeadership(pact, pact.party[p], q)

\* Game::playerLeaveParty, refused during a fight.
PlayerLeaveParty(p) ==
    /\ p \in online
    /\ pact.party[p] # NoParty
    /\ pact' = LeaveParty(pact, p)

\* The party part of Player::onRemoveCreature.
ForgetParties(p) ==
    LET cleared == ClearInvitations(pact, p)
    IN  pact' = IF cleared.party[p] = NoParty THEN cleared ELSE LeaveParty(cleared, p)

PartyInit ==
    pact = [party       |-> [p \in Players |-> NoParty],
            invitations |-> [p \in Players |-> {}],
            leader      |-> [k \in Parties |-> NoPlayer],
            members     |-> [k \in Parties |-> <<>>],
            invited     |-> [k \in Parties |-> {}]]

PartyPacket ==
    \E p \in Players :
        \/ PlayerLeaveParty(p)
        \/ \E q \in Players :
              \/ InviteToParty(p, q)
              \/ JoinParty(p, q)
              \/ RevokeInvitation(p, q)
              \/ PassPartyLeadership(p, q)

-----------------------------------------------------------------------------
(* Properties. *)

\* Both ends of every pointer agree: who has a party leads it or is its member, once;
\* invitations are in both lists; nothing points at a deleted party or from one, and
\* nobody who has left the game is pointed at. No party is left with a leader alone.
PartiesAgree ==
    /\ \A p \in Players, k \in Parties :
          /\ pact.party[p] = k <=> (p = pact.leader[k] \/ p \in Range(pact.members[k]))
          /\ k \in pact.invitations[p] <=> p \in pact.invited[k]
          /\ pact.party[p] = k \/ k \in pact.invitations[p] => p \in online
    /\ \A k \in Parties :
          /\ pact.leader[k] \notin Range(pact.members[k])
          /\ IsInjective(pact.members[k])
          /\ Empty(pact, k) <=> pact.leader[k] = NoPlayer

Company(k) == {p \in Players : pact.party[p] = k}

\* A party of three, or of two with somebody else invited, outlives every departure,
\* its leader's too, and one step takes at most one player out of it.
PartyOfThreeSurvives ==
    [][ \A k \in Parties :
          Cardinality(Company(k)) >= 2 /\ Cardinality(Company(k) \cup pact.invited[k]) >= 3
          => /\ pact.leader[k]' # NoPlayer
             /\ Cardinality({p \in Company(k) : pact.party[p]' # k}) <= 1 ]_pact
=============================================================================
