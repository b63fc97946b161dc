-------------------------------- MODULE Chat ---------------------------------
(***************************************************************************)
(* Chat channels: src/src/chat.cpp and src/src/game.cpp:1695-1791.         *)
(*                                                                         *)
(* A channel keeps pointers to the players who have it open. Public ones   *)
(* come from a file; a player owns at most one private channel; a party's  *)
(* channel is found by the address of the Party object, and nothing erases *)
(* it when the party is gone. Guild channels work like a party's with a    *)
(* guild that never changes and are left out; scripts decide freely.       *)
(***************************************************************************)
EXTENDS Party

CONSTANTS
    PublicChannels,
    PrivateIds,         \* ids of private channels (100 to 9999 in the code)
    MaxOpen             \* bound on the channels opened, over all players

VARIABLES
    publicUsers,        \* normalChannels: channel -> its users
    partyUsers,         \* partyChannels: address -> users, for the channels there are
    private             \* privateChannels: id -> [owner, invites, users]

chatVars == <<publicUsers, partyUsers, private>>

PrivateChannel == [owner : Players, invites : SUBSET Players, users : SUBSET Players]

ChatTypeOK ==
    /\ publicUsers \in [PublicChannels -> SUBSET Players]
    /\ DOMAIN partyUsers \subseteq Parties
    /\ partyUsers \in [DOMAIN partyUsers -> SUBSET Players]
    /\ DOMAIN private \subseteq PrivateIds
    /\ private \in [DOMAIN private -> PrivateChannel]

OwnedBy(p) == {i \in DOMAIN private : private[i].owner = p}

\* PrivateChatChannel::isInvited
IsInvited(p, i) == p = private[i].owner \/ p \in private[i].invites

\* The bound: how many users the channels have in all.
MayOpen ==
    MapThenSumSet(LAMBDA c : Cardinality(publicUsers[c]), PublicChannels)
      + MapThenSumSet(LAMBDA k : Cardinality(partyUsers[k]), DOMAIN partyUsers)
      + MapThenSumSet(LAMBDA i : Cardinality(private[i].users), DOMAIN private) < MaxOpen

-----------------------------------------------------------------------------
\* Mutant of RequestChannels: a player of no party asks for its channel, too.
RequestAnyChannel(p) ==
    /\ p \in online
    /\ pact.party[p] \notin DOMAIN partyUsers
    /\ partyUsers' = [j \in DOMAIN partyUsers \cup {pact.party[p]} |->
                         IF j = pact.party[p] THEN {} ELSE partyUsers[j]]
    /\ UNCHANGED <<publicUsers, private>>

\* Game::playerRequestChannels: the list is shown, and the channel of the player's
\* party is made if there is none at that address (Chat::getChannelList).
RequestChannels(p) ==
    /\ p \in online
    /\ LET k == pact.party[p]
       IN  /\ k # NoParty /\ k \notin DOMAIN partyUsers
           /\ partyUsers' = [j \in DOMAIN partyUsers \cup {k} |->
                                IF j = k THEN {} ELSE partyUsers[j]]
    /\ UNCHANGED <<publicUsers, private>>

\* Game::playerOpenChannel of a public channel; scripts say who may join.
OpenPublic(p, c) ==
    /\ p \in online /\ MayOpen
    /\ publicUsers' = [publicUsers EXCEPT ![c] = @ \cup {p}]
    /\ UNCHANGED <<partyUsers, private>>

ClosePublic(p, c) ==
    /\ p \in online
    /\ publicUsers' = [publicUsers EXCEPT ![c] = @ \ {p}]
    /\ UNCHANGED <<partyUsers, private>>

\* The channel of the party the player is in now (Chat::getChannel).
OpenPartyChannel(p) ==
    /\ p \in online /\ MayOpen
    /\ pact.party[p] \in DOMAIN partyUsers
    /\ partyUsers' = [partyUsers EXCEPT ![pact.party[p]] = @ \cup {p}]
    /\ UNCHANGED <<publicUsers, private>>

\* Neither leaveParty nor disband takes a user out: sendClosePrivate asks for the
\* channel of the party when the player's pointer to it is gone.
ClosePartyChannel(p) ==
    /\ p \in online
    /\ pact.party[p] \in DOMAIN partyUsers
    /\ partyUsers' = [partyUsers EXCEPT ![pact.party[p]] = @ \ {p}]
    /\ UNCHANGED <<publicUsers, private>>

\* Game::playerCreatePrivateChannel: the first free id, one channel for each player.
CreatePrivateChannel(p) ==
    /\ p \in online /\ MayOpen
    /\ OwnedBy(p) = {}
    /\ \E i \in PrivateIds \ DOMAIN private :
          private' = [j \in DOMAIN private \cup {i} |->
                         IF j = i THEN [owner |-> p, invites |-> {}, users |-> {p}]
                         ELSE private[j]]
    /\ UNCHANGED <<publicUsers, partyUsers>>

\* Game::playerChannelInvite
ChannelInvite(p, q) ==
    /\ {p, q} \subseteq online /\ p # q
    /\ \E i \in OwnedBy(p) : private' = [private EXCEPT ![i].invites = @ \cup {q}]
    /\ UNCHANGED <<publicUsers, partyUsers>>

\* Mutant of Excluded: he may not come back, and stays.
ExcludedLater(q, i) == [private EXCEPT ![i].invites = @ \ {q}]

\* PrivateChatChannel::excludePlayer
Excluded(q, i) == [private EXCEPT ![i].invites = @ \ {q}, ![i].users = @ \ {q}]

\* Game::playerChannelExclude
ChannelExclude(p, q) ==
    /\ {p, q} \subseteq online /\ p # q
    /\ \E i \in OwnedBy(p) : q \in private[i].invites /\ private' = Excluded(q, i)
    /\ UNCHANGED <<publicUsers, partyUsers>>

OpenPrivate(p, i) ==
    /\ p \in online /\ MayOpen
    /\ i \in DOMAIN private /\ IsInvited(p, i)
    /\ private' = [private EXCEPT ![i].users = @ \cup {p}]
    /\ UNCHANGED <<publicUsers, partyUsers>>

\* Chat::removeUserFromChannel: the channel ends when its owner closes it.
ClosePrivate(p, i) ==
    /\ p \in online
    /\ i \in DOMAIN private /\ p \in private[i].users
    /\ private' = IF private[i].owner = p
                  THEN [j \in DOMAIN private \ {i} |-> private[j]]
                  ELSE [private EXCEPT ![i].users = @ \ {p}]
    /\ UNCHANGED <<publicUsers, partyUsers>>

\* Chat::removeUserFromAllChannels
RemoveFromAllChannels(p) ==
    /\ publicUsers' = [c \in PublicChannels |-> publicUsers[c] \ {p}]
    /\ partyUsers' = [k \in DOMAIN partyUsers |-> partyUsers[k] \ {p}]
    /\ private' = [i \in DOMAIN private \ OwnedBy(p) |->
                      [private[i] EXCEPT !.invites = @ \ {p}, !.users = @ \ {p}]]

\* Chat::load on a reload: each public channel is replaced by a new, empty one.
ReloadChannels ==
    /\ publicUsers' = [c \in PublicChannels |-> {}]
    /\ UNCHANGED <<partyUsers, private>>

ChatInit ==
    /\ publicUsers = [c \in PublicChannels |-> {}]
    /\ partyUsers = [k \in {} |-> {}]
    /\ private = [i \in {} |-> {}]

ChannelPacket ==
    \E p \in Players :
        \/ RequestChannels(p)
        \/ OpenPartyChannel(p)
        \/ ClosePartyChannel(p)
        \/ CreatePrivateChannel(p)
        \/ \E c \in PublicChannels : OpenPublic(p, c) \/ ClosePublic(p, c)
        \/ \E i \in PrivateIds : OpenPrivate(p, i) \/ ClosePrivate(p, i)
        \/ \E q \in Players : ChannelInvite(p, q) \/ ChannelExclude(p, q)

-----------------------------------------------------------------------------
(* Properties. *)

\* A channel's pointers are those of players in the game, whatever ended their stay;
\* a private channel has its owner among its users, nobody who was not invited or was
\* excluded since, and no owner has two.
ListenersBelong ==
    /\ \A c \in PublicChannels : publicUsers[c] \subseteq online
    /\ \A k \in DOMAIN partyUsers : partyUsers[k] \subseteq online
    /\ \A i \in DOMAIN private :
          /\ private[i].owner \in private[i].users
          /\ private[i].users \cup private[i].invites \subseteq online
          /\ \A q \in private[i].users : IsInvited(q, i)
          /\ OwnedBy(private[i].owner) = {i}
=============================================================================
