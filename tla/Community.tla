------------------------------ MODULE Community ------------------------------
(***************************************************************************)
(* Parties and chat together with the players who come and go: leaving the *)
(* game ends parties, invitations and channels in one function             *)
(* (src/src/player.cpp:1228-1278), a client that takes over a character    *)
(* leaves its channels only (src/src/protocolgame.cpp:224).                *)
(***************************************************************************)
EXTENDS Chat

vars == <<partyVars, chatVars>>

Login(p) ==
    /\ p \notin online
    /\ online' = online \cup {p}
    /\ UNCHANGED <<pact, chatVars>>

\* Player::onRemoveCreature
Logout(p) ==
    /\ p \in online
    /\ ForgetParties(p)
    /\ RemoveFromAllChannels(p)
    /\ online' = online \ {p}

\* ProtocolGame::connect of a new client to a player in the game.
TakeOver(p) ==
    /\ p \in online
    /\ RemoveFromAllChannels(p)
    /\ UNCHANGED partyVars

Init ==
    /\ online = {}
    /\ PartyInit
    /\ ChatInit

Next ==
    \/ \E p \in Players : Login(p) \/ Logout(p) \/ TakeOver(p)
    \/ PartyPacket /\ UNCHANGED <<online, chatVars>>
    \/ ChannelPacket /\ UNCHANGED partyVars
    \/ ReloadChannels /\ UNCHANGED partyVars

Spec == Init /\ [][Next]_vars

-----------------------------------------------------------------------------
\* Types.
CommunityTypeOK ==
    /\ online \subseteq Players
    /\ pact \in PactType
    /\ ChatTypeOK
=============================================================================
