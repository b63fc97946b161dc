--------------------------- MODULE CommunityProofs ---------------------------
(***************************************************************************)
(* Proofs about Community.tla, for any players, parties and channels.      *)
(*                                                                         *)
(* ListenersBelong does not depend on what parties do: the only thing it   *)
(* takes from them is which address a player asks for, and the channel at  *)
(* any address has players of the game for users. With the types of the    *)
(* channels it is inductive.                                               *)
(*                                                                         *)
(* PartiesAgree is inductive with the types. Its parts are stated of any   *)
(* value of the pointers (Linked, NoneEmpty, Sound), because disband and   *)
(* leaveParty pass through values where they do not all hold: a leader who *)
(* has left and whose party is about to be disbanded. One lemma for each   *)
(* function of party.cpp says what it makes of sound pointers, and which   *)
(* parties it spares; the packets and the logout are put together of them. *)
(***************************************************************************)
EXTENDS Community, SequenceTheorems, FiniteSetTheorems, TLAPS

ListenersTyped ==
    /\ online \subseteq Players
    /\ publicUsers \in [PublicChannels -> SUBSET Players]
    /\ partyUsers \in [DOMAIN partyUsers -> SUBSET Players]
    /\ private \in [DOMAIN private -> PrivateChannel]

\* ListenersBelong, channel by channel; one owner has one private channel.
SharedBelong ==
    /\ \A c \in PublicChannels : publicUsers[c] \subseteq online
    /\ \A k \in DOMAIN partyUsers : partyUsers[k] \subseteq online

PrivateBelong ==
    /\ \A i \in DOMAIN private :
          /\ private[i].owner \in private[i].users
          /\ private[i].users \cup private[i].invites \subseteq online
          /\ private[i].users \subseteq private[i].invites \cup {private[i].owner}
    /\ \A i, j \in DOMAIN private : private[i].owner = private[j].owner => i = j

ListenersInv == ListenersTyped /\ SharedBelong /\ PrivateBelong

\* The invariant says what the property says, without the operators about one channel.
LEMMA ListenersFollow == SharedBelong /\ PrivateBelong => ListenersBelong
  <1> SUFFICES ASSUME SharedBelong, PrivateBelong PROVE ListenersBelong
    OBVIOUS
  <1>1. ASSUME NEW i \in DOMAIN private
        PROVE  /\ private[i].owner \in private[i].users
               /\ private[i].users \cup private[i].invites \subseteq online
               /\ \A q \in private[i].users : IsInvited(q, i)
               /\ OwnedBy(private[i].owner) = {i}
    BY <1>1 DEF PrivateBelong, IsInvited, OwnedBy
  <1> QED
    BY <1>1 DEF SharedBelong, ListenersBelong

\* The game starts without channels of parties or players, and with nobody listening.
LEMMA ListenersInit == Init => ListenersInv
  BY DEF Init, ChatInit, ListenersInv, ListenersTyped, SharedBelong, PrivateBelong

\* A packet about channels other than private ones lets only a player of the game in.
LEMMA SharedStep ==
  ASSUME ListenersInv, online' = online, private' = private,
         NEW p \in Players,
         \/ RequestChannels(p)
         \/ OpenPartyChannel(p)
         \/ ClosePartyChannel(p)
         \/ \E c \in PublicChannels : OpenPublic(p, c) \/ ClosePublic(p, c)
  PROVE  ListenersInv'
  <1> USE DEF ListenersInv, ListenersTyped, SharedBelong
  <1>1. PrivateBelong'
    BY DEF PrivateBelong
  <1>2. ListenersTyped' /\ SharedBelong'
    <2>1. CASE RequestChannels(p)
      BY <2>1 DEF RequestChannels
    <2>2. CASE OpenPartyChannel(p)
      BY <2>2 DEF OpenPartyChannel
    <2>3. CASE ClosePartyChannel(p)
      BY <2>3 DEF ClosePartyChannel
    <2>4. CASE \E c \in PublicChannels : OpenPublic(p, c) \/ ClosePublic(p, c)
      BY <2>4 DEF OpenPublic, ClosePublic
    <2> QED
      BY <2>1, <2>2, <2>3, <2>4
  <1> QED
    BY <1>1, <1>2

\* A packet about private channels: a new one has its owner alone, who had none before.
LEMMA PrivateStep ==
  ASSUME ListenersInv, online' = online, NEW p \in Players,
         \/ CreatePrivateChannel(p)
         \/ \E i \in PrivateIds : OpenPrivate(p, i) \/ ClosePrivate(p, i)
         \/ \E q \in Players : ChannelInvite(p, q) \/ ChannelExclude(p, q)
  PROVE  ListenersInv'
  <1> USE DEF ListenersInv, ListenersTyped, PrivateChannel, PrivateBelong, OwnedBy, IsInvited
  <1>1. UNCHANGED <<publicUsers, partyUsers>>
    BY DEF CreatePrivateChannel, OpenPrivate, ClosePrivate, ChannelInvite, ChannelExclude
  <1>2. ListenersTyped' /\ PrivateBelong'
    <2>1. CASE CreatePrivateChannel(p)
      <3>1. PICK i \in PrivateIds \ DOMAIN private :
              private' = [j \in DOMAIN private \cup {i} |->
                            IF j = i THEN [owner |-> p, invites |-> {}, users |-> {p}]
                            ELSE private[j]]
        BY <2>1 DEF CreatePrivateChannel
      <3>2. p \in online /\ \A j \in DOMAIN private : private[j].owner # p
        BY <2>1 DEF CreatePrivateChannel
      <3>3. DOMAIN private' = DOMAIN private \cup {i}
        BY <3>1
      <3>4. /\ private'[i] = [owner |-> p, invites |-> {}, users |-> {p}]
            /\ \A j \in DOMAIN private : private'[j] = private[j]
        BY <3>1
      <3>5. ListenersTyped'
        BY <1>1, <3>1, <3>3, <3>4
      <3>6. PrivateBelong'
        BY <3>2, <3>3, <3>4
      <3> QED
        BY <3>5, <3>6
    <2>2. ASSUME NEW i \in PrivateIds, OpenPrivate(p, i)
          PROVE  ListenersTyped' /\ PrivateBelong'
      BY <1>1, <2>2 DEF OpenPrivate
    <2>3. ASSUME NEW i \in PrivateIds, ClosePrivate(p, i)
          PROVE  ListenersTyped' /\ PrivateBelong'
      BY <1>1, <2>3 DEF ClosePrivate
    <2>4. ASSUME NEW q \in Players, ChannelInvite(p, q)
          PROVE  ListenersTyped' /\ PrivateBelong'
      BY <1>1, <2>4 DEF ChannelInvite
    <2>5. ASSUME NEW q \in Players, ChannelExclude(p, q)
          PROVE  ListenersTyped' /\ PrivateBelong'
      <3>1. PICK i \in DOMAIN private : private[i].owner = p /\ private' = Excluded(q, i)
        BY <2>5 DEF ChannelExclude
      <3>2. q # p
        BY <2>5 DEF ChannelExclude
      <3>3. DOMAIN private' = DOMAIN private
        BY <3>1 DEF Excluded
      <3>4. \A j \in DOMAIN private :
              /\ private'[j].owner = private[j].owner
              /\ j # i => private'[j] = private[j]
              /\ j = i => /\ private'[j].users = private[j].users \ {q}
                         /\ private'[j].invites = private[j].invites \ {q}
        BY <3>1 DEF Excluded
      <3>5. ListenersTyped'
        BY <1>1, <3>1 DEF Excluded
      <3>6. PrivateBelong'
        BY <3>1, <3>2, <3>3, <3>4
      <3> QED
        BY <3>5, <3>6
    <2> QED
      BY <2>1, <2>2, <2>3, <2>4, <2>5
  <1>3. SharedBelong'
    BY <1>1 DEF SharedBelong
  <1> QED
    BY <1>2, <1>3

\* removeUserFromAllChannels leaves no pointer to the player, and no channel of his.
LEMMA RemovalKeeps ==
  ASSUME ListenersInv, NEW p \in Players, RemoveFromAllChannels(p),
         online' = online \/ online' = online \ {p}
  PROVE  ListenersInv'
  <1>0. \A i \in DOMAIN private : private[i] \in PrivateChannel
    BY DEF ListenersInv, ListenersTyped
  <1>1. /\ DOMAIN private' = DOMAIN private \ OwnedBy(p)
        /\ private' = [i \in DOMAIN private' |-> private'[i]]
        /\ \A i \in DOMAIN private' :
              private'[i] = [private[i] EXCEPT !.invites = @ \ {p}, !.users = @ \ {p}]
    BY DEF RemoveFromAllChannels
  <1>2. \A i \in DOMAIN private' :
          /\ i \in DOMAIN private /\ private[i].owner # p
          /\ private'[i].owner = private[i].owner
          /\ private'[i].users = private[i].users \ {p}
          /\ private'[i].invites = private[i].invites \ {p}
          /\ private'[i] \in PrivateChannel
    <2> SUFFICES ASSUME NEW i \in DOMAIN private'
                 PROVE  /\ i \in DOMAIN private /\ private[i].owner # p
                        /\ private'[i].owner = private[i].owner
                        /\ private'[i].users = private[i].users \ {p}
                        /\ private'[i].invites = private[i].invites \ {p}
                        /\ private'[i] \in PrivateChannel
      OBVIOUS
    <2>1. i \in DOMAIN private /\ private[i].owner # p
      BY <1>1 DEF OwnedBy
    <2>2. PICK c : c = private[i]
      OBVIOUS
    <2>3. c \in PrivateChannel /\ private'[i] = [c EXCEPT !.invites = @ \ {p}, !.users = @ \ {p}]
      BY <1>0, <1>1, <2>1, <2>2
    <2>4. /\ private'[i].owner = c.owner /\ private'[i].users = c.users \ {p}
          /\ private'[i].invites = c.invites \ {p} /\ private'[i] \in PrivateChannel
      BY <2>3 DEF PrivateChannel
    <2> QED
      BY <2>1, <2>2, <2>4
  <1>3. ListenersTyped'
    <2>1. private' \in [DOMAIN private' -> PrivateChannel]
      BY <1>1, <1>2
    <2> QED
      BY <2>1 DEF ListenersInv, ListenersTyped, RemoveFromAllChannels
  <1>4. SharedBelong'
    BY DEF ListenersInv, ListenersTyped, SharedBelong, RemoveFromAllChannels
  <1>5. PrivateBelong'
    <2>1. \A i \in DOMAIN private' :
            /\ private'[i].owner \in private'[i].users
            /\ private'[i].users \cup private'[i].invites \subseteq online'
            /\ private'[i].users \subseteq private'[i].invites \cup {private'[i].owner}
      BY <1>2 DEF ListenersInv, PrivateBelong
    <2>2. \A i, j \in DOMAIN private' : private'[i].owner = private'[j].owner => i = j
      BY <1>2 DEF ListenersInv, PrivateBelong
    <2> QED
      BY <2>1, <2>2 DEF PrivateBelong
  <1> QED
    BY <1>3, <1>4, <1>5 DEF ListenersInv

\* Every step: parties touch no channel, and who logs in is in none.
LEMMA ListenersStep == ListenersInv /\ [Next]_vars => ListenersInv'
  <1> SUFFICES ASSUME ListenersInv, [Next]_vars PROVE ListenersInv'
    OBVIOUS
  <1>1. ASSUME NEW p \in Players, Login(p) PROVE ListenersInv'
    BY <1>1 DEF Login, chatVars, ListenersInv, ListenersTyped, SharedBelong,
                PrivateBelong
  <1>2. ASSUME NEW p \in Players, Logout(p) PROVE ListenersInv'
    BY <1>2, RemovalKeeps DEF Logout
  <1>3. ASSUME NEW p \in Players, TakeOver(p) PROVE ListenersInv'
    BY <1>3, RemovalKeeps DEF TakeOver, partyVars
  <1>4. CASE PartyPacket /\ UNCHANGED <<online, chatVars>>
    BY <1>4 DEF chatVars, ListenersInv, ListenersTyped, SharedBelong, PrivateBelong
  <1>5. CASE ChannelPacket /\ UNCHANGED partyVars
    <2>1. online' = online
      BY <1>5 DEF partyVars
    <2>2. PICK p \in Players :
            \/ RequestChannels(p)
            \/ OpenPartyChannel(p)
            \/ ClosePartyChannel(p)
            \/ CreatePrivateChannel(p)
            \/ \E c \in PublicChannels : OpenPublic(p, c) \/ ClosePublic(p, c)
            \/ \E i \in PrivateIds : OpenPrivate(p, i) \/ ClosePrivate(p, i)
            \/ \E q \in Players : ChannelInvite(p, q) \/ ChannelExclude(p, q)
      BY <1>5 DEF ChannelPacket
    <2>3. CASE \/ CreatePrivateChannel(p)
               \/ \E i \in PrivateIds : OpenPrivate(p, i) \/ ClosePrivate(p, i)
               \/ \E q \in Players : ChannelInvite(p, q) \/ ChannelExclude(p, q)
      BY <2>1, <2>3, PrivateStep
    <2>4. CASE \/ RequestChannels(p)
               \/ OpenPartyChannel(p)
               \/ ClosePartyChannel(p)
               \/ \E c \in PublicChannels : OpenPublic(p, c) \/ ClosePublic(p, c)
      <3>1. private' = private
        BY <2>4 DEF RequestChannels, OpenPartyChannel, ClosePartyChannel, OpenPublic, ClosePublic
      <3> QED
        BY <2>1, <2>4, <3>1, SharedStep
    <2> QED
      BY <2>2, <2>3, <2>4
  <1>6. CASE ReloadChannels /\ UNCHANGED partyVars
    BY <1>6 DEF ReloadChannels, partyVars, ListenersInv, ListenersTyped, SharedBelong,
                PrivateBelong
  <1>7. CASE UNCHANGED vars
    BY <1>7 DEF vars, partyVars, chatVars, ListenersInv, ListenersTyped, SharedBelong,
                PrivateBelong
  <1> QED
    BY <1>1, <1>2, <1>3, <1>4, <1>5, <1>6, <1>7 DEF Next

\* Whatever players do and however they leave, each channel's users are players of the
\* game, and a private channel's are its owner and whom he invited (chat.cpp:434-461).
THEOREM ListenersAlwaysBelong == Spec => []ListenersBelong
  <1>1. ListenersInv => ListenersBelong
    BY ListenersFollow DEF ListenersInv
  <1> QED
    BY <1>1, ListenersInit, ListenersStep, PTL DEF Spec

-----------------------------------------------------------------------------
(* The member list of a party: std::list::erase of what std::find finds, push_front *)
(* and push_back.                                                                   *)

\* Without the element that is erased, which is found by its first occurrence.
LEMMA RemoveFirstOf ==
  ASSUME NEW S, NEW s \in Seq(S), IsInjective(s), NEW e
  PROVE  /\ RemoveFirst(s, e) \in Seq(S)
         /\ IsInjective(RemoveFirst(s, e))
         /\ Range(RemoveFirst(s, e)) = Range(s) \ {e}
  <1>0. DOMAIN s = 1..Len(s) /\ Len(s) \in Nat /\ \A j \in 1..Len(s) : s[j] \in S
    OBVIOUS
  <1>1. CASE e \notin Range(s)
    <2>1. ~(\E i \in 1..Len(s) : s[i] = e)
      BY <1>0, <1>1 DEF Range
    <2>2. RemoveFirst(s, e) = s
      BY <2>1 DEF RemoveFirst
    <2> QED
      BY <1>1, <2>2
  <1>2. CASE e \in Range(s)
    <2>1. PICK i \in 1..Len(s) : s[i] = e
      BY <1>0, <1>2 DEF Range
    <2>2. {j \in 1..Len(s) : s[j] = e} = {i}
      BY <1>0, <2>1 DEF IsInjective
    <2>3. Min({i}) = i
      BY <2>1 DEF Min
    <2>4. SelectInSeq(s, LAMBDA v : v = e) = i
      BY <2>2, <2>3 DEF SelectInSeq
    <2>5. RemoveFirst(s, e) = SubSeq(s, 1, i - 1) \o SubSeq(s, i + 1, Len(s))
      BY <2>1, <2>4 DEF RemoveFirst, RemoveAt
    <2>6. PICK r : r = RemoveFirst(s, e)
      OBVIOUS
    <2>7. /\ r \in Seq(S) /\ Len(r) = Len(s) - 1
          /\ \A j \in 1..(Len(s) - 1) : r[j] = IF j < i THEN s[j] ELSE s[j + 1]
      <3>1. PICK a, b : a = SubSeq(s, 1, i - 1) /\ b = SubSeq(s, i + 1, Len(s))
        OBVIOUS
      <3>2. /\ a \in Seq(S) /\ Len(a) = i - 1
            /\ \A j \in 1..(i - 1) : a[j] = s[j]
        BY <2>1, <3>1, <1>0
      <3>3. /\ b \in Seq(S) /\ Len(b) = Len(s) - i
            /\ \A j \in 1..(Len(s) - i) : b[j] = s[i + j]
        <4>1. i + 1 \in 1..(Len(s) + 1) /\ Len(s) \in ((i + 1) - 1)..Len(s)
          BY <2>1, <1>0
        <4>2. /\ b \in Seq(S) /\ Len(b) = Len(s) - (i + 1) + 1
              /\ \A j \in 1..(Len(s) - (i + 1) + 1) : b[j] = s[(i + 1) + j - 1]
          BY <3>1, <4>1, SubSeqProperties
        <4>3. Len(s) - (i + 1) + 1 = Len(s) - i
          BY <2>1, <1>0
        <4>4. \A j \in Int : (i + 1) + j - 1 = i + j
          BY <2>1
        <4> QED
          BY <4>2, <4>3, <4>4
      <3>4. r = a \o b
        BY <2>5, <2>6, <3>1
      <3>5. r \in Seq(S) /\ Len(r) = Len(s) - 1
        <4>1. r \in Seq(S) /\ Len(r) = Len(a) + Len(b)
          BY <3>2, <3>3, <3>4, ConcatProperties
        <4>2. Len(a) + Len(b) = Len(s) - 1
          BY <2>1, <3>2, <3>3, <1>0
        <4> QED
          BY <4>1, <4>2
      <3>6. \A j \in 1..(Len(s) - 1) : r[j] = IF j <= Len(a) THEN a[j] ELSE b[j - Len(a)]
        <4>1. Len(a) + Len(b) = Len(s) - 1
          BY <2>1, <3>2, <3>3, <1>0
        <4>2. \A j \in 1..(Len(a) + Len(b)) : (a \o b)[j] = IF j <= Len(a) THEN a[j] ELSE b[j - Len(a)]
          <5>1. a \in Seq(S) /\ b \in Seq(S)
            BY <3>2, <3>3
          <5> QED
            BY <5>1
        <4> QED
          BY <4>1, <4>2, <3>4
      <3>7. ASSUME NEW j \in 1..(Len(s) - 1)
            PROVE  r[j] = IF j < i THEN s[j] ELSE s[j + 1]
        <4>1. CASE j < i
          BY <4>1, <2>1, <3>2, <3>6
        <4>2. CASE ~(j < i)
          <5>1. j - Len(a) \in 1..(Len(s) - i) /\ i + (j - Len(a)) = j + 1
            BY <4>2, <2>1, <3>2, <1>0
          <5>2. r[j] = b[j - Len(a)]
            BY <4>2, <2>1, <3>2, <3>6
          <5> QED
            BY <4>2, <5>1, <5>2, <3>3
        <4> QED
          BY <4>1, <4>2
      <3> QED
        BY <3>5, <3>7
    <2>8. IsInjective(r)
      <3> SUFFICES ASSUME NEW x \in 1..(Len(s) - 1), NEW y \in 1..(Len(s) - 1), r[x] = r[y]
                   PROVE  x = y
        BY <2>7 DEF IsInjective
      <3> DEFINE at(j) == IF j < i THEN j ELSE j + 1
      <3>1. at(x) \in 1..Len(s) /\ at(y) \in 1..Len(s)
        BY <1>0, <2>1
      <3>2. s[at(x)] = s[at(y)]
        BY <2>7
      <3>3. at(x) = at(y)
        BY <1>0, <3>1, <3>2 DEF IsInjective
      <3> QED
        BY <3>3, <1>0, <2>1
    <2>9. Range(r) = Range(s) \ {e}
      <3>1. \A j \in 1..Len(s) : j # i => \E m \in 1..(Len(s) - 1) : r[m] = s[j]
        <4> SUFFICES ASSUME NEW j \in 1..Len(s), j # i
                     PROVE  \E m \in 1..(Len(s) - 1) : r[m] = s[j]
          OBVIOUS
        <4>1. CASE j < i
          BY <4>1, <2>1, <2>7
        <4>2. CASE j > i
          <5>1. j - 1 \in 1..(Len(s) - 1) /\ ~(j - 1 < i) /\ (j - 1) + 1 = j
            BY <4>2, <2>1, <1>0
          <5> QED
            BY <5>1, <2>7
        <4> QED
          BY <4>1, <4>2, <2>1
      <3>2. \A m \in 1..(Len(s) - 1) : \E j \in 1..Len(s) : j # i /\ r[m] = s[j]
        BY <1>0, <2>1, <2>7
      <3>3. DOMAIN r = 1..(Len(s) - 1)
        BY <2>7
      <3>4. \A j \in 1..Len(s) : j # i => s[j] # e
        BY <1>0, <2>1 DEF IsInjective
      <3>5. ASSUME NEW x \in Range(r) PROVE x \in Range(s) /\ x # e
        <4>1. PICK m \in 1..(Len(s) - 1) : r[m] = x
          BY <3>3 DEF Range
        <4>2. PICK j \in 1..Len(s) : j # i /\ r[m] = s[j]
          BY <3>2
        <4> QED
          BY <4>1, <4>2, <1>0, <3>4 DEF Range
      <3>6. ASSUME NEW x \in Range(s), x # e PROVE x \in Range(r)
        <4>1. PICK j \in 1..Len(s) : s[j] = x
          BY <1>0 DEF Range
        <4>2. j # i
          BY <2>1, <3>6, <4>1
        <4>3. PICK m \in 1..(Len(s) - 1) : r[m] = s[j]
          BY <3>1, <4>2
        <4> QED
          BY <4>1, <4>3, <3>3 DEF Range
      <3> QED
        BY <3>5, <3>6
    <2> QED
      BY <2>6, <2>7, <2>8, <2>9
  <1> QED
    BY <1>1, <1>2

\* A function that gets another value at one argument.
LEMMA SetOne ==
  ASSUME NEW D, NEW R, NEW f \in [D -> R], NEW x, NEW v \in R
  PROVE  [f EXCEPT ![x] = v] \in [D -> R]
  OBVIOUS

\* With an element before it that was not in it,
LEMMA ConsOf ==
  ASSUME NEW S, NEW s \in Seq(S), IsInjective(s), NEW e \in S, e \notin Range(s)
  PROVE  /\ <<e>> \o s \in Seq(S)
         /\ IsInjective(<<e>> \o s)
         /\ Range(<<e>> \o s) = Range(s) \cup {e}
  <1>0. DOMAIN s = 1..Len(s) /\ Len(s) \in Nat
    OBVIOUS
  <1>1. PICK r : r = <<e>> \o s
    OBVIOUS
  <1>2. /\ r \in Seq(S) /\ DOMAIN r = 1..(Len(s) + 1)
        /\ \A j \in 1..(Len(s) + 1) : r[j] = IF j = 1 THEN e ELSE s[j - 1]
    BY <1>1, <1>0
  <1>3. \A j \in 1..(Len(s) + 1) : j # 1 => j - 1 \in 1..Len(s)
    BY <1>0
  <1>4. IsInjective(r)
    <2> SUFFICES ASSUME NEW i \in 1..(Len(s) + 1), NEW j \in 1..(Len(s) + 1), r[i] = r[j]
                 PROVE  i = j
      BY <1>2 DEF IsInjective
    <2>0. r[1] = e /\ \A n \in 1..(Len(s) + 1) : n # 1 => r[n] \in Range(s)
      <3>1. r[1] = e
        BY <1>0, <1>2
      <3>2. ASSUME NEW n \in 1..(Len(s) + 1), n # 1 PROVE r[n] \in Range(s)
        <4>1. r[n] = s[n - 1] /\ n - 1 \in DOMAIN s
          BY <3>2, <1>0, <1>2, <1>3
        <4> QED
          BY <4>1 DEF Range
      <3> QED
        BY <3>1, <3>2
    <2>1. CASE i = 1 \/ j = 1
      <3>1. r[i] = e
        BY <2>0, <2>1
      <3> QED
        BY <2>0, <3>1
    <2>2. CASE i # 1 /\ j # 1
      <3>1. s[i - 1] = s[j - 1]
        BY <2>2, <1>2
      <3>2. i - 1 = j - 1
        BY <2>2, <3>1, <1>0, <1>3 DEF IsInjective
      <3> QED
        BY <3>2
    <2> QED
      BY <2>1, <2>2
  <1>5. Range(r) = Range(s) \cup {e}
    <2>1. \A x : x \in Range(r) => x \in Range(s) \cup {e}
      BY <1>0, <1>2, <1>3 DEF Range
    <2>2. e \in Range(r)
      BY <1>0, <1>2 DEF Range
    <2>3. ASSUME NEW j \in 1..Len(s) PROVE s[j] \in Range(r)
      <3>1. j + 1 \in 1..(Len(s) + 1) /\ j + 1 # 1 /\ (j + 1) - 1 = j
        BY <1>0
      <3>2. r[j + 1] = s[j]
        BY <3>1, <1>2
      <3> QED
        BY <3>1, <3>2, <1>2 DEF Range
    <2> QED
      BY <2>1, <2>2, <2>3, <1>0 DEF Range
  <1> QED
    BY <1>1, <1>2, <1>4, <1>5

\* or after it.
LEMMA AppendOf ==
  ASSUME NEW S, NEW s \in Seq(S), IsInjective(s), NEW e \in S, e \notin Range(s)
  PROVE  /\ Append(s, e) \in Seq(S)
         /\ IsInjective(Append(s, e))
         /\ Range(Append(s, e)) = Range(s) \cup {e}
  <1>0. DOMAIN s = 1..Len(s) /\ Len(s) \in Nat
    OBVIOUS
  <1>1. PICK r : r = Append(s, e)
    OBVIOUS
  <1>2. /\ r \in Seq(S) /\ DOMAIN r = 1..(Len(s) + 1) /\ r[Len(s) + 1] = e
        /\ \A j \in 1..Len(s) : r[j] = s[j]
    BY <1>1, <1>0
  <1>3. \A j \in 1..(Len(s) + 1) : j \in 1..Len(s) \/ j = Len(s) + 1
    BY <1>0
  <1>4. IsInjective(r)
    BY <1>0, <1>2, <1>3 DEF IsInjective, Range
  <1>5. Range(r) = Range(s) \cup {e}
    BY <1>0, <1>2, <1>3 DEF Range
  <1> QED
    BY <1>1, <1>2, <1>4, <1>5

\* Only the empty sequence has no elements.
LEMMA EmptyRange == ASSUME NEW S, NEW s \in Seq(S) PROVE s = <<>> <=> Range(s) = {}
  <1>1. DOMAIN s = 1..Len(s) /\ Len(s) \in Nat
    OBVIOUS
  <1>2. ASSUME s # <<>> PROVE Range(s) # {}
    <2>1. 1 \in 1..Len(s)
      BY <1>1, <1>2
    <2> QED
      BY <1>1, <2>1 DEF Range
  <1>3. ASSUME s = <<>> PROVE Range(s) = {}
    <2>1. DOMAIN s = {}
      BY <1>3
    <2> QED
      BY <2>1 DEF Range
  <1> QED
    BY <1>2, <1>3

-----------------------------------------------------------------------------
(* Parties. s is any value of the pointers, on any set of players in the game. *)

\* Whom Party::disband lets go.
LetGo(s, q, k) == q = s.leader[k] \/ q \in Range(s.members[k])

\* Both ends of the pointers agree; players of the parties in gone may have left them
\* already, which is so while leaveParty is on its way to disband.
Linked(s, on, gone) ==
    /\ s \in PactType
    /\ \A p \in Players, k \in Parties :
          /\ s.party[p] = k => LetGo(s, p, k)
          /\ LetGo(s, p, k) => s.party[p] = k \/ (k \in gone /\ s.party[p] = NoParty)
          /\ k \in s.invitations[p] <=> p \in s.invited[k]
          /\ s.party[p] = k \/ k \in s.invitations[p] => p \in on
    /\ \A k \in Parties :
          /\ s.leader[k] \notin Range(s.members[k])
          /\ IsInjective(s.members[k])
          /\ s.leader[k] = NoPlayer => Empty(s, k)

\* No party but those in gone is left with its leader alone.
NoneEmpty(s, gone) == \A k \in Parties \ gone : Empty(s, k) => s.leader[k] = NoPlayer

Sound(s, on) == Linked(s, on, {}) /\ NoneEmpty(s, {})

\* PartiesAgree says this of the pointers there are.
LEMMA SoundIsAgreement == pact \in PactType => (PartiesAgree <=> Sound(pact, online))
  BY DEF PartiesAgree, Sound, Linked, NoneEmpty, LetGo, PactType

\* A member is a player.
LEMMA MembersArePlayers ==
  ASSUME NEW s \in PactType, NEW k \in Parties
  PROVE  s.members[k] \in Seq(Players) /\ Range(s.members[k]) \subseteq Players
  <1>1. s.members[k] \in Seq(Players)
    BY DEF PactType
  <1>2. DOMAIN s.members[k] = 1..Len(s.members[k])
        /\ \A j \in 1..Len(s.members[k]) : s.members[k][j] \in Players
    BY <1>1
  <1> QED
    BY <1>1, <1>2 DEF Range

LEMMA DisbandFields ==
  ASSUME NEW s \in PactType, NEW gone \in SUBSET Parties
  PROVE  LET d == Disband(s, gone)
         IN  /\ d \in PactType
             /\ \A q \in Players :
                   /\ d.party[q] = IF \E k \in gone : LetGo(s, q, k) THEN NoParty ELSE s.party[q]
                   /\ d.invitations[q] = s.invitations[q] \ {k \in gone : q \in s.invited[k]}
             /\ \A k \in Parties :
                   /\ d.leader[k] = IF k \in gone THEN NoPlayer ELSE s.leader[k]
                   /\ d.members[k] = IF k \in gone THEN <<>> ELSE s.members[k]
                   /\ d.invited[k] = IF k \in gone THEN {} ELSE s.invited[k]
  <1>1. PICK d : d = Disband(s, gone)
    OBVIOUS
  <1>2. /\ d.party = [q \in Players |-> IF \E k \in gone : LetGo(s, q, k) THEN NoParty ELSE s.party[q]]
        /\ d.invitations = [q \in Players |-> s.invitations[q] \ {k \in gone : q \in s.invited[k]}]
        /\ d.leader = [k \in Parties |-> IF k \in gone THEN NoPlayer ELSE s.leader[k]]
        /\ d.members = [k \in Parties |-> IF k \in gone THEN <<>> ELSE s.members[k]]
        /\ d.invited = [k \in Parties |-> IF k \in gone THEN {} ELSE s.invited[k]]
        /\ d = [party |-> d.party, invitations |-> d.invitations, leader |-> d.leader,
                members |-> d.members, invited |-> d.invited]
    BY <1>1 DEF Disband, LetGo, PactType
  <1>3. d.party \in [Players -> Parties \cup {NoParty}]
    BY <1>2 DEF PactType
  <1>4. d.invitations \in [Players -> SUBSET Parties]
    BY <1>2 DEF PactType
  <1>5. d.leader \in [Parties -> Players \cup {NoPlayer}]
    BY <1>2 DEF PactType
  <1>6. d.members \in [Parties -> Seq(Players)]
    <2>1. <<>> \in Seq(Players)
      OBVIOUS
    <2> QED
      BY <1>2, <2>1 DEF PactType
  <1>7. d.invited \in [Parties -> SUBSET Players]
    BY <1>2 DEF PactType
  <1>8. d \in PactType
    BY <1>2, <1>3, <1>4, <1>5, <1>6, <1>7 DEF PactType
  <1> QED
    BY <1>1, <1>2, <1>8

\* Party::disband lets go of everybody who points at the party: what is left is sound.
LEMMA DisbandSound ==
  ASSUME NEW s, NEW on, NEW gone \in SUBSET Parties, Linked(s, on, gone), NoneEmpty(s, gone)
  PROVE  Sound(Disband(s, gone), on)
  <1>1. PICK d : d = Disband(s, gone)
    OBVIOUS
  <1>2. /\ d \in PactType
        /\ \A q \in Players :
              /\ d.party[q] = IF \E k \in gone : LetGo(s, q, k) THEN NoParty ELSE s.party[q]
              /\ d.invitations[q] = s.invitations[q] \ {k \in gone : q \in s.invited[k]}
        /\ \A k \in Parties :
              /\ d.leader[k] = IF k \in gone THEN NoPlayer ELSE s.leader[k]
              /\ d.members[k] = IF k \in gone THEN <<>> ELSE s.members[k]
              /\ d.invited[k] = IF k \in gone THEN {} ELSE s.invited[k]
    BY <1>1, DisbandFields DEF Linked
  <1>3. NoParty \notin Parties /\ NoPlayer \notin Players
    BY PartyAssumption
  <1>4. Range(<<>>) = {} /\ IsInjective(<<>>)
    BY DEF Range, IsInjective
  <1>5. \A q \in Players : s.party[q] \in Parties \cup {NoParty}
    BY DEF Linked, PactType
  <1>6. ASSUME NEW p \in Players, NEW k \in Parties
        PROVE  /\ d.party[p] = k => LetGo(d, p, k)
               /\ LetGo(d, p, k) => d.party[p] = k
               /\ k \in d.invitations[p] <=> p \in d.invited[k]
               /\ d.party[p] = k \/ k \in d.invitations[p] => p \in on
    <2>1. ASSUME d.party[p] = k PROVE LetGo(d, p, k) /\ p \in on
      <3>1. s.party[p] = k /\ ~(\E j \in gone : LetGo(s, p, j))
        BY <2>1, <1>2, <1>3
      <3>2. LetGo(s, p, k) /\ k \notin gone /\ p \in on
        BY <3>1 DEF Linked
      <3> QED
        BY <3>2, <1>2 DEF LetGo
    <2>2. ASSUME LetGo(d, p, k) PROVE d.party[p] = k
      <3>1. k \notin gone
        BY <2>2, <1>2, <1>3, <1>4 DEF LetGo
      <3>2. LetGo(s, p, k)
        BY <2>2, <3>1, <1>2 DEF LetGo
      <3>3. s.party[p] = k
        BY <3>1, <3>2 DEF Linked
      <3>4. ASSUME NEW j \in gone, LetGo(s, p, j) PROVE FALSE
        <4>1. s.party[p] = j \/ s.party[p] = NoParty
          BY <3>4 DEF Linked
        <4> QED
          BY <4>1, <3>1, <3>3, <3>4, <1>3
      <3> QED
        BY <3>3, <3>4, <1>2
    <2>3. k \in d.invitations[p] <=> p \in d.invited[k]
      BY <1>2 DEF Linked
    <2>4. k \in d.invitations[p] => p \in on
      BY <1>2 DEF Linked
    <2> QED
      BY <2>1, <2>2, <2>3, <2>4
  <1>7. ASSUME NEW k \in Parties
        PROVE  /\ d.leader[k] \notin Range(d.members[k])
               /\ IsInjective(d.members[k])
               /\ d.leader[k] = NoPlayer => Empty(d, k)
               /\ Empty(d, k) => d.leader[k] = NoPlayer
    BY <1>2, <1>4 DEF Linked, NoneEmpty, Empty
  <1>8. Sound(d, on)
    BY <1>2, <1>6, <1>7 DEF Sound, Linked, NoneEmpty
  <1> QED
    BY <1>1, <1>8

\* A party that is not disbanded does not notice.
LEMMA DisbandSpares ==
  ASSUME NEW s, NEW on, NEW gone \in SUBSET Parties, Linked(s, on, gone),
         NEW k \in Parties \ gone
  PROVE  LET d == Disband(s, gone)
         IN  /\ d.leader[k] = s.leader[k] /\ d.members[k] = s.members[k]
             /\ d.invited[k] = s.invited[k]
             /\ \A q \in Players : s.party[q] = k => d.party[q] = k
  <1>1. PICK d : d = Disband(s, gone)
    OBVIOUS
  <1>2. /\ \A q \in Players :
              d.party[q] = IF \E j \in gone : LetGo(s, q, j) THEN NoParty ELSE s.party[q]
        /\ d.leader[k] = s.leader[k] /\ d.members[k] = s.members[k] /\ d.invited[k] = s.invited[k]
    BY <1>1, DisbandFields DEF Linked
  <1>3. ASSUME NEW q \in Players, s.party[q] = k, NEW j \in gone, LetGo(s, q, j) PROVE FALSE
    <2>1. s.party[q] = j \/ s.party[q] = NoParty
      BY <1>3 DEF Linked
    <2> QED
      BY <1>3, <2>1, PartyAssumption
  <1> QED
    BY <1>1, <1>2, <1>3

\* The same when one party is disbanded.
LEMMA OneDisbanded ==
  ASSUME NEW s, NEW on, NEW k \in Parties, Linked(s, on, {k}),
         NEW j \in Parties, j # k, NEW d, d = Disband(s, {k})
  PROVE  d.leader[j] = s.leader[j] /\ \A q \in Players : s.party[q] = j => d.party[q] = j
  <1>1. PICK gone : gone = {k}
    OBVIOUS
  <1>2. gone \in SUBSET Parties /\ j \in Parties \ gone /\ Linked(s, on, gone)
    BY <1>1
  <1>3. PICK f : f = Disband(s, gone)
    OBVIOUS
  <1>4. f.leader[j] = s.leader[j] /\ \A q \in Players : s.party[q] = j => f.party[q] = j
    BY <1>2, <1>3, DisbandSpares
  <1> QED
    BY <1>1, <1>3, <1>4

LEMMA DisbandIfEmptySound ==
  ASSUME NEW s, NEW on, NEW k \in Parties, Linked(s, on, {}), NoneEmpty(s, {k})
  PROVE  Sound(DisbandIfEmpty(s, k), on)
  <1>1. Linked(s, on, {k})
    BY DEF Linked
  <1>2. CASE Empty(s, k)
    BY <1>1, <1>2, DisbandSound DEF DisbandIfEmpty
  <1>3. CASE ~Empty(s, k)
    BY <1>3 DEF DisbandIfEmpty, Sound, NoneEmpty
  <1> QED
    BY <1>2, <1>3

\* What it takes for a party to go on without p: somebody else is in it, and besides
\* whoever leads it another one is in it or invited.
Outlives(s, k, p) ==
    /\ \E q \in Players \ {p} : s.party[q] = k
    /\ \A a : \E q \in Players \ {p, a} : s.party[q] = k \/ q \in s.invited[k]

\* The party goes on, and nobody but p is taken out of it.
Spared(s, t, k, p) ==
    /\ t.leader[k] # NoPlayer
    /\ \A q \in Players \ {p} : s.party[q] = k => t.party[q] = k

\* A party that is not empty has a leader, and one with two players has a member.
LEMMA OutlivesAlive ==
  ASSUME NEW s, NEW on, NEW p, NEW k \in Parties, Linked(s, on, {}), Outlives(s, k, p)
  PROVE  s.leader[k] # NoPlayer
  <1>1. PICK q \in Players : s.party[q] = k
    BY DEF Outlives
  <1>2. LetGo(s, q, k)
    BY <1>1 DEF Linked
  <1>3. NoPlayer \notin Players
    BY PartyAssumption
  <1>4. Range(<<>>) = {}
    BY DEF Range
  <1> QED
    BY <1>2, <1>3, <1>4 DEF LetGo, Linked, Empty

-----------------------------------------------------------------------------
(* What the operations do to sound pointers. *)

\* A player who is not the leader leaves: what leaveParty does before it asks whether
\* the party is empty.
Left(s, p, k) == [s EXCEPT !.members[k] = RemoveFirst(@, p), !.party[p] = NoParty]

LEMMA LeftFields ==
  ASSUME NEW s \in PactType, NEW p \in Players, NEW k \in Parties, IsInjective(s.members[k])
  PROVE  LET t == Left(s, p, k)
         IN  /\ t \in PactType
             /\ t.leader = s.leader /\ t.invited = s.invited /\ t.invitations = s.invitations
             /\ t.party = [s.party EXCEPT ![p] = NoParty]
             /\ \A j \in Parties \ {k} : t.members[j] = s.members[j]
             /\ t.members[k] = RemoveFirst(s.members[k], p)
             /\ IsInjective(t.members[k])
             /\ Range(t.members[k]) = Range(s.members[k]) \ {p}
  <1>1. PICK r : r = RemoveFirst(s.members[k], p)
    OBVIOUS
  <1>2. r \in Seq(Players) /\ IsInjective(r) /\ Range(r) = Range(s.members[k]) \ {p}
    BY <1>1, MembersArePlayers, RemoveFirstOf
  <1>3. Left(s, p, k) = [s EXCEPT !.members = [s.members EXCEPT ![k] = r],
                                  !.party = [s.party EXCEPT ![p] = NoParty]]
    BY <1>1 DEF Left, PactType
  <1>4. PICK t : t = Left(s, p, k)
    OBVIOUS
  <1>5. /\ t.leader = s.leader /\ t.invited = s.invited /\ t.invitations = s.invitations
        /\ t.party = [s.party EXCEPT ![p] = NoParty]
        /\ t.members = [s.members EXCEPT ![k] = r]
        /\ t = [party |-> t.party, invitations |-> t.invitations, leader |-> t.leader,
                members |-> t.members, invited |-> t.invited]
    BY <1>3, <1>4 DEF PactType
  <1>6. t.members[k] = r /\ \A j \in Parties \ {k} : t.members[j] = s.members[j]
    BY <1>5 DEF PactType
  <1>7. t.members \in [Parties -> Seq(Players)]
    BY <1>2, <1>5 DEF PactType
  <1>8. t.party \in [Players -> Parties \cup {NoParty}]
    BY <1>5 DEF PactType
  <1>9. t \in PactType
    BY <1>5, <1>7, <1>8 DEF PactType
  <1> QED
    BY <1>1, <1>2, <1>4, <1>5, <1>6, <1>9

LEMMA LeftLinked ==
  ASSUME NEW s, NEW on, NEW p \in Players, NEW k \in Parties, Linked(s, on, {}),
         NoneEmpty(s, {}), s.party[p] = k, NEW gone \in SUBSET {k},
         s.leader[k] = p => gone = {k}
  PROVE  Linked(Left(s, p, k), on, gone) /\ NoneEmpty(Left(s, p, k), {k})
  <1>1. PICK t : t = Left(s, p, k)
    OBVIOUS
  <1>2. s \in PactType /\ IsInjective(s.members[k])
    BY DEF Linked
  <1>3. /\ t \in PactType
        /\ t.leader = s.leader /\ t.invited = s.invited /\ t.invitations = s.invitations
        /\ \A j \in Parties \ {k} : t.members[j] = s.members[j]
        /\ t.party = [s.party EXCEPT ![p] = NoParty]
        /\ IsInjective(t.members[k])
        /\ Range(t.members[k]) = Range(s.members[k]) \ {p}
    BY <1>1, <1>2, LeftFields
  <1>4. \A q \in Players : t.party[q] = IF q = p THEN NoParty ELSE s.party[q]
    BY <1>2, <1>3 DEF PactType
  <1>5. ASSUME NEW q \in Players, NEW j \in Parties
        PROVE  /\ t.party[q] = j => LetGo(t, q, j)
               /\ LetGo(t, q, j) => t.party[q] = j \/ (j \in gone /\ t.party[q] = NoParty)
               /\ j \in t.invitations[q] <=> q \in t.invited[j]
               /\ t.party[q] = j \/ j \in t.invitations[q] => q \in on
    <2>1. ASSUME t.party[q] = j PROVE LetGo(t, q, j) /\ q \in on
      <3>1. q # p /\ s.party[q] = j
        BY <1>4, <2>1, PartyAssumption
      <3>2. LetGo(s, q, j) /\ q \in on
        BY <3>1 DEF Linked
      <3> QED
        BY <3>1, <3>2, <1>3 DEF LetGo
    <2>2. ASSUME LetGo(t, q, j) PROVE t.party[q] = j \/ (j \in gone /\ t.party[q] = NoParty)
      <3>1. LetGo(s, q, j)
        BY <2>2, <1>3 DEF LetGo
      <3>2. s.party[q] = j
        BY <3>1 DEF Linked
      <3>3. CASE q # p
        BY <3>2, <3>3, <1>4
      <3>4. CASE q = p
        <4>1. j = k
          BY <3>2, <3>4
        <4>2. s.leader[k] = p
          BY <2>2, <3>4, <4>1, <1>3 DEF LetGo
        <4> QED
          BY <3>4, <4>1, <4>2, <1>4
      <3> QED
        BY <3>3, <3>4
    <2>3. j \in t.invitations[q] <=> q \in t.invited[j]
      BY <1>3 DEF Linked
    <2>4. j \in t.invitations[q] => q \in on
      BY <1>3 DEF Linked
    <2> QED
      BY <2>1, <2>2, <2>3, <2>4
  <1>6. ASSUME NEW j \in Parties
        PROVE  /\ t.leader[j] \notin Range(t.members[j])
               /\ IsInjective(t.members[j])
    BY <1>3 DEF Linked
  <1>7. ASSUME NEW j \in Parties, t.leader[j] = NoPlayer PROVE Empty(t, j)
    <2>1. Empty(s, j)
      BY <1>3, <1>7 DEF Linked
    <2>2. j # k
      <3>1. j = k => LetGo(s, p, j)
        BY DEF Linked
      <3>2. Range(<<>>) = {}
        BY DEF Range
      <3> QED
        BY <3>1, <3>2, <2>1, <1>3, <1>7, PartyAssumption DEF LetGo, Empty
    <2> QED
      BY <2>1, <2>2, <1>3 DEF Empty
  <1>8. NoneEmpty(t, {k})
    BY <1>3 DEF NoneEmpty, Empty
  <1>9. Linked(t, on, gone)
    BY <1>3, <1>5, <1>6, <1>7 DEF Linked
  <1> QED
    BY <1>1, <1>8, <1>9

\* Party::passPartyLeadership to a member.
LEMMA PassFields ==
  ASSUME NEW s, NEW on, NEW k \in Parties, NEW q \in Players, Sound(s, on),
         s.party[q] = k, s.leader[k] # q
  PROVE  LET t == PassLeadership(s, k, q)
         IN  /\ t \in PactType
             /\ t.party = s.party /\ t.invited = s.invited /\ t.invitations = s.invitations
             /\ t.leader = [s.leader EXCEPT ![k] = q]
             /\ \A j \in Parties \ {k} : t.members[j] = s.members[j]
             /\ IsInjective(t.members[k])
             /\ Range(t.members[k]) = (Range(s.members[k]) \ {q}) \cup {s.leader[k]}
             /\ q \in Range(s.members[k]) /\ s.leader[k] \in Players
  <1>0. s \in PactType /\ IsInjective(s.members[k]) /\ s.leader[k] \notin Range(s.members[k])
    BY DEF Sound, Linked
  <1>1. q \in Range(s.members[k])
    BY DEF Sound, Linked, LetGo
  <1>2. s.leader[k] \in Players
    <2>1. Range(<<>>) = {}
      BY DEF Range
    <2> QED
      BY <1>0, <1>1, <2>1 DEF Sound, Linked, Empty, PactType
  <1>3. PICK r : r = RemoveFirst(s.members[k], q)
    OBVIOUS
  <1>4. r \in Seq(Players) /\ IsInjective(r) /\ Range(r) = Range(s.members[k]) \ {q}
    BY <1>0, <1>3, MembersArePlayers, RemoveFirstOf
  <1>5. PICK c : c = <<s.leader[k]>> \o r
    OBVIOUS
  <1>6. c \in Seq(Players) /\ IsInjective(c) /\ Range(c) = Range(r) \cup {s.leader[k]}
    BY <1>0, <1>2, <1>4, <1>5, ConsOf
  <1>7. PassLeadership(s, k, q) = [s EXCEPT !.leader = [s.leader EXCEPT ![k] = q],
                                            !.members = [s.members EXCEPT ![k] = c]]
    BY <1>0, <1>3, <1>5 DEF PassLeadership, PactType
  <1>8. PICK t : t = PassLeadership(s, k, q)
    OBVIOUS
  <1>9. /\ t.party = s.party /\ t.invited = s.invited /\ t.invitations = s.invitations
        /\ t.leader = [s.leader EXCEPT ![k] = q]
        /\ t.members = [s.members EXCEPT ![k] = c]
        /\ t = [party |-> t.party, invitations |-> t.invitations, leader |-> t.leader,
                members |-> t.members, invited |-> t.invited]
    BY <1>0, <1>7, <1>8 DEF PactType
  <1>10. t.members[k] = c /\ \A j \in Parties \ {k} : t.members[j] = s.members[j]
    BY <1>0, <1>9 DEF PactType
  <1>11. t.members \in [Parties -> Seq(Players)]
    BY <1>0, <1>6, <1>9 DEF PactType
  <1>12. t.leader \in [Parties -> Players \cup {NoPlayer}]
    BY <1>0, <1>9 DEF PactType
  <1>13. t \in PactType
    BY <1>0, <1>9, <1>11, <1>12 DEF PactType
  <1> QED
    BY <1>1, <1>2, <1>4, <1>6, <1>8, <1>9, <1>10, <1>13

LEMMA PassSound ==
  ASSUME NEW s, NEW on, NEW k \in Parties, NEW q \in Players, Sound(s, on),
         s.party[q] = k, s.leader[k] # q
  PROVE  Sound(PassLeadership(s, k, q), on)
  <1>1. PICK t : t = PassLeadership(s, k, q)
    OBVIOUS
  <1>2. /\ t \in PactType
        /\ t.party = s.party /\ t.invited = s.invited /\ t.invitations = s.invitations
        /\ t.leader = [s.leader EXCEPT ![k] = q]
        /\ \A j \in Parties \ {k} : t.members[j] = s.members[j]
        /\ IsInjective(t.members[k])
        /\ Range(t.members[k]) = (Range(s.members[k]) \ {q}) \cup {s.leader[k]}
        /\ q \in Range(s.members[k]) /\ s.leader[k] \in Players
    BY <1>1, PassFields
  <1>3. \A j \in Parties : t.leader[j] = IF j = k THEN q ELSE s.leader[j]
    BY <1>2 DEF Sound, Linked, PactType
  <1>4. \A p \in Players, j \in Parties : LetGo(t, p, j) <=> LetGo(s, p, j)
    BY <1>2, <1>3 DEF LetGo
  <1>5. \A p \in Players, j \in Parties :
          /\ t.party[p] = j => LetGo(t, p, j)
          /\ LetGo(t, p, j) => t.party[p] = j
          /\ j \in t.invitations[p] <=> p \in t.invited[j]
          /\ t.party[p] = j \/ j \in t.invitations[p] => p \in on
    BY <1>2, <1>4 DEF Sound, Linked
  <1>6. t.members[k] # <<>>
    <2>1. Range(<<>>) = {}
      BY DEF Range
    <2> QED
      BY <1>2, <2>1
  <1>7. ASSUME NEW j \in Parties
        PROVE  /\ t.leader[j] \notin Range(t.members[j])
               /\ IsInjective(t.members[j])
               /\ t.leader[j] = NoPlayer => Empty(t, j)
               /\ Empty(t, j) => t.leader[j] = NoPlayer
    <2>1. CASE j = k
      BY <2>1, <1>2, <1>3, <1>6, PartyAssumption DEF Empty
    <2>2. CASE j # k
      BY <2>2, <1>2, <1>3 DEF Empty, Sound, Linked, NoneEmpty
    <2> QED
      BY <2>1, <2>2
  <1>8. Sound(t, on)
    BY <1>2, <1>5, <1>7 DEF Sound, Linked, NoneEmpty
  <1> QED
    BY <1>1, <1>8

\* Party::leaveParty: who leaves is let go, and the party goes on if enough stay.
LEMMA LeaveSound ==
  ASSUME NEW s, NEW on, NEW p \in Players, NEW k \in Parties, Sound(s, on),
         s.party[p] = k
  PROVE  LET t == LeaveParty(s, p)
         IN  /\ Sound(t, on)
             /\ t.party[p] = NoParty /\ t.invitations[p] \subseteq s.invitations[p]
             /\ \A j \in Parties : Outlives(s, j, p) => Spared(s, t, j, p)
  <1>1. {k} \in SUBSET Parties
    OBVIOUS
  <1>2. PICK t : t = LeaveParty(s, p)
    OBVIOUS
  <1>a. /\ s \in PactType /\ Linked(s, on, {}) /\ NoneEmpty(s, {})
        /\ s.leader[k] \notin Range(s.members[k])
        /\ LetGo(s, p, k) /\ s.leader[k] # NoPlayer
    <2>1. LetGo(s, p, k)
      BY DEF Sound, Linked
    <2>2. Range(<<>>) = {} /\ NoPlayer \notin Players
      BY PartyAssumption DEF Range
    <2>3. s.leader[k] # NoPlayer
      BY <2>1, <2>2 DEF LetGo, Sound, Linked, Empty
    <2> QED
      BY <2>1, <2>3 DEF Sound, Linked
  <1>3. CASE s.leader[k] = p /\ ~Passes(s, p, k)
    <2>1. PICK l : l = Left(s, p, k)
      OBVIOUS
    <2>2. t = Disband(l, {k})
      BY <1>2, <1>3, <2>1 DEF LeaveParty, Left
    <2>3. Linked(l, on, {k}) /\ NoneEmpty(l, {k})
      BY <1>1, <1>a, <2>1, LeftLinked
    <2>4. Sound(t, on)
      BY <2>2, <2>3, DisbandSound
    <2>5. /\ l.leader = s.leader /\ l.invitations = s.invitations
          /\ l.party = [s.party EXCEPT ![p] = NoParty]
          /\ l \in PactType
      BY <1>a, <2>1, LeftFields DEF Linked
    <2>6. t.party[p] = NoParty /\ t.invitations[p] \subseteq s.invitations[p]
      <3>1. \A q \in Players :
              /\ t.party[q] = IF \E j \in {k} : LetGo(l, q, j) THEN NoParty ELSE l.party[q]
              /\ t.invitations[q] = l.invitations[q] \ {j \in {k} : q \in l.invited[j]}
        <4>1. PICK gone : gone = {k}
          OBVIOUS
        <4>2. t = Disband(l, gone) /\ gone \in SUBSET Parties /\ l \in PactType
          BY <2>2, <2>5, <4>1
        <4>3. \A q \in Players :
                /\ t.party[q] = IF \E j \in gone : LetGo(l, q, j) THEN NoParty ELSE l.party[q]
                /\ t.invitations[q] = l.invitations[q] \ {j \in gone : q \in l.invited[j]}
          BY <4>2, DisbandFields
        <4> QED
          BY <4>1, <4>3
      <3>2. l.party[p] = NoParty
        BY <1>a, <2>5 DEF PactType
      <3> QED
        BY <2>5, <3>1, <3>2
    \* He would have passed the leadership on.
    <2>7. ~Outlives(s, k, p)
      <3> SUFFICES ASSUME Outlives(s, k, p) PROVE FALSE
        OBVIOUS
      <3>1. PICK q \in Players \ {p} : s.party[q] = k
        BY DEF Outlives
      <3>2. q \in Range(s.members[k])
        BY <1>3, <1>a, <3>1 DEF Linked, LetGo
      <3>3. Range(<<>>) = {}
        BY DEF Range
      <3>4. PICK r \in Players \ {p, q} : s.party[r] = k \/ r \in s.invited[k]
        BY DEF Outlives
      <3>5. Len(s.members[k]) <= 1 /\ s.invited[k] = {}
        <4>1. Len(s.members[k]) \in Nat
          BY <1>a DEF PactType
        <4> QED
          BY <4>1, <1>3, <3>2, <3>3 DEF Passes
      <3>6. r \in Range(s.members[k])
        BY <1>3, <1>a, <3>4, <3>5 DEF Linked, LetGo
      <3>7. DOMAIN s.members[k] = 1..Len(s.members[k]) /\ Len(s.members[k]) \in Nat
        BY <1>a DEF PactType
      <3>8. \A i, j \in DOMAIN s.members[k] : i = j
        BY <3>5, <3>7
      <3> QED
        BY <3>2, <3>4, <3>6, <3>8 DEF Range
    <2>8. ASSUME NEW j \in Parties, Outlives(s, j, p) PROVE Spared(s, t, j, p)
      <3>1. j # k
        BY <2>7, <2>8
      <3>2. t.leader[j] = l.leader[j] /\ \A q \in Players : l.party[q] = j => t.party[q] = j
        <4>1. PICK gone : gone = {k}
          OBVIOUS
        <4>2. t = Disband(l, gone) /\ gone \in SUBSET Parties /\ Linked(l, on, gone)
          BY <2>2, <2>3, <4>1
        <4>3. j \in Parties \ gone
          BY <3>1, <4>1
        <4> QED
          BY <4>2, <4>3, DisbandSpares
      <3>3. s.leader[j] # NoPlayer
        BY <1>a, <2>8, OutlivesAlive
      <3> QED
        BY <1>a, <2>5, <3>2, <3>3 DEF Spared, PactType
    <2> QED
      BY <1>2, <2>4, <2>6, <2>8
  <1>4. CASE s.leader[k] # p \/ Passes(s, p, k)
    \* From here on p is a member.
    <2>1. PICK u : u = IF Passes(s, p, k) THEN PassLeadership(s, k, Head(s.members[k])) ELSE s
      OBVIOUS
    <2>2. /\ Sound(u, on) /\ u.leader[k] # p /\ u.leader[k] # NoPlayer /\ u.party = s.party
          /\ u.invited = s.invited /\ u.invitations = s.invitations
          /\ \A j \in Parties \ {k} : u.leader[j] = s.leader[j]
      <3>1. CASE ~Passes(s, p, k)
        BY <1>4, <1>a, <2>1, <3>1
      <3>2. CASE Passes(s, p, k)
        <4>1. PICK h : h = Head(s.members[k])
          OBVIOUS
        <4>2. s.leader[k] = p /\ s.members[k] # <<>> /\ s.members[k] \in Seq(Players)
          BY <1>a, <3>2 DEF Passes, PactType
        <4>3. DOMAIN s.members[k] = 1..Len(s.members[k]) /\ 1 \in 1..Len(s.members[k])
              /\ h = s.members[k][1] /\ h \in Players
          BY <4>1, <4>2
        <4>4. h \in Range(s.members[k])
          BY <4>3 DEF Range
        <4>5. h # p /\ s.party[h] = k
          BY <1>a, <4>2, <4>3, <4>4 DEF Linked, LetGo
        <4>6. u = PassLeadership(s, k, h)
          BY <2>1, <3>2, <4>1
        <4>7. /\ u.party = s.party /\ u.invited = s.invited /\ u.invitations = s.invitations
              /\ u.leader = [s.leader EXCEPT ![k] = h]
          <5>1. s.leader[k] # h
            BY <4>2, <4>5
          <5> QED
            <6>1. h \in Players /\ s.party[h] = k
              BY <4>3, <4>5
            <6> QED
              BY <4>6, <5>1, <6>1, PassFields
        <4>8. Sound(u, on)
          BY <4>2, <4>3, <4>5, <4>6, PassSound
        <4>9. h # NoPlayer
          BY <4>3, PartyAssumption
        <4> QED
          BY <1>a, <4>5, <4>7, <4>8, <4>9 DEF PactType
      <3> QED
        BY <3>1, <3>2
    <2>3. PICK l : l = Left(u, p, k)
      OBVIOUS
    <2>4. t = DisbandIfEmpty(l, k)
      BY <1>2, <1>4, <2>1, <2>3 DEF LeaveParty, Left
    <2>5. Linked(l, on, {}) /\ NoneEmpty(l, {k})
      BY <1>1, <2>2, <2>3, LeftLinked DEF Sound
    <2>6. Sound(t, on)
      BY <2>4, <2>5, DisbandIfEmptySound
    <2>7. /\ l.leader = u.leader /\ l.invitations = u.invitations /\ l.invited = u.invited
          /\ l.party = [u.party EXCEPT ![p] = NoParty]
          /\ l \in PactType
      BY <2>2, <2>3, LeftFields DEF Sound, Linked
    <2>8. \A q \in Players : l.party[q] = IF q = p THEN NoParty ELSE s.party[q]
      BY <1>a, <2>2, <2>7 DEF PactType
    <2>9. t.party[p] = NoParty /\ t.invitations[p] \subseteq s.invitations[p]
      <3>1. CASE Empty(l, k)
        <4>1. t = Disband(l, {k})
          BY <2>4, <3>1 DEF DisbandIfEmpty
        <4>2. \A q \in Players :
                /\ t.party[q] = IF \E j \in {k} : LetGo(l, q, j) THEN NoParty ELSE l.party[q]
                /\ t.invitations[q] = l.invitations[q] \ {j \in {k} : q \in l.invited[j]}
          <5>1. PICK gone : gone = {k}
            OBVIOUS
          <5>2. t = Disband(l, gone) /\ gone \in SUBSET Parties /\ l \in PactType
            BY <2>7, <4>1, <5>1
          <5>3. \A q \in Players :
                  /\ t.party[q] = IF \E j \in gone : LetGo(l, q, j) THEN NoParty ELSE l.party[q]
                  /\ t.invitations[q] = l.invitations[q] \ {j \in gone : q \in l.invited[j]}
            BY <5>2, DisbandFields
          <5> QED
            BY <5>1, <5>3
        <4> QED
          BY <2>2, <2>7, <2>8, <4>2
      <3>2. CASE ~Empty(l, k)
        BY <2>2, <2>4, <2>7, <2>8, <3>2 DEF DisbandIfEmpty
      <3> QED
        BY <3>1, <3>2
    <2>10. Outlives(s, k, p) => ~Empty(l, k)
      <3> SUFFICES ASSUME Outlives(s, k, p), Empty(l, k) PROVE FALSE
        OBVIOUS
      <3>1. PICK r \in Players \ {p, l.leader[k]} : s.party[r] = k \/ r \in s.invited[k]
        BY DEF Outlives
      <3>2. r \notin s.invited[k]
        BY <2>2, <2>7 DEF Empty
      <3>3. l.party[r] = k
        BY <2>8, <3>1, <3>2
      <3>4. r \in Range(l.members[k])
        BY <2>5, <3>1, <3>3 DEF Linked, LetGo
      <3>5. Range(<<>>) = {}
        BY DEF Range
      <3> QED
        BY <3>4, <3>5 DEF Empty
    <2>11. ASSUME NEW j \in Parties, Outlives(s, j, p) PROVE Spared(s, t, j, p)
      <3>1. /\ t.leader[j] = l.leader[j]
            /\ \A q \in Players : l.party[q] = j => t.party[q] = j
        <4>1. CASE ~Empty(l, k)
          BY <2>4, <4>1 DEF DisbandIfEmpty
        <4>2. CASE Empty(l, k)
          <5>1. j # k
            BY <2>10, <2>11, <4>2
          <5>2. Linked(l, on, {k})
            BY <2>5 DEF Linked
          <5>3. PICK d : d = Disband(l, {k})
            OBVIOUS
          <5>4. d.leader[j] = l.leader[j] /\ \A q \in Players : l.party[q] = j => d.party[q] = j
            BY <5>1, <5>2, <5>3, OneDisbanded
          <5>5. t = d
            BY <2>4, <4>2, <5>3 DEF DisbandIfEmpty
          <5> QED
            BY <5>4, <5>5
        <4> QED
          BY <4>1, <4>2
      <3>2. l.leader[j] # NoPlayer
        <4>1. s.leader[j] # NoPlayer
          BY <1>a, <2>11, OutlivesAlive
        <4> QED
          BY <4>1, <2>2, <2>7
      <3> QED
        BY <2>8, <3>1, <3>2 DEF Spared
    <2> QED
      BY <1>2, <2>6, <2>9, <2>11
  <1> QED
    BY <1>3, <1>4

\* Party::removeInvite, from both lists.
LEMMA RemoveInviteSound ==
  ASSUME NEW s, NEW on, NEW p \in Players, NEW k \in Parties, Sound(s, on)
  PROVE  /\ Sound(RemoveInvite(s, p, k), on)
         /\ \A j \in Parties : Outlives(s, j, p) => Spared(s, RemoveInvite(s, p, k), j, p)
  <1>1. PICK c : c = [s EXCEPT !.invited[k] = @ \ {p}, !.invitations[p] = @ \ {k}]
    OBVIOUS
  <1>2. s \in PactType
    BY DEF Sound, Linked
  <1>3. /\ c \in PactType /\ c.party = s.party /\ c.leader = s.leader /\ c.members = s.members
        /\ c.invited = [s.invited EXCEPT ![k] = @ \ {p}]
        /\ c.invitations = [s.invitations EXCEPT ![p] = @ \ {k}]
    BY <1>1, <1>2 DEF PactType
  <1>4. \A q \in Players, j \in Parties :
          /\ q \in c.invited[j] <=> q \in s.invited[j] /\ ~(j = k /\ q = p)
          /\ j \in c.invitations[q] <=> j \in s.invitations[q] /\ ~(j = k /\ q = p)
    BY <1>2, <1>3 DEF PactType
  <1>5. Linked(c, on, {})
    <2>1. ASSUME NEW q \in Players, NEW j \in Parties
          PROVE  /\ c.party[q] = j => LetGo(c, q, j)
                 /\ LetGo(c, q, j) => c.party[q] = j
                 /\ j \in c.invitations[q] <=> q \in c.invited[j]
                 /\ c.party[q] = j \/ j \in c.invitations[q] => q \in on
      BY <1>3, <1>4 DEF Sound, Linked, LetGo
    <2>2. \A j \in Parties : c.invited[j] \subseteq s.invited[j]
      BY <1>2, <1>3 DEF PactType
    <2>3. ASSUME NEW j \in Parties
          PROVE  /\ c.leader[j] \notin Range(c.members[j])
                 /\ IsInjective(c.members[j])
                 /\ c.leader[j] = NoPlayer => Empty(c, j)
      BY <1>3, <2>2 DEF Sound, Linked, Empty
    <2> QED
      BY <1>3, <2>1, <2>3 DEF Linked
  <1>6. NoneEmpty(c, {k})
    BY <1>2, <1>3 DEF Sound, NoneEmpty, Empty, PactType
  <1>7. RemoveInvite(s, p, k) = DisbandIfEmpty(c, k)
    BY <1>1 DEF RemoveInvite
  <1>8. Sound(RemoveInvite(s, p, k), on)
    BY <1>5, <1>6, <1>7, DisbandIfEmptySound
  <1>9. ASSUME NEW j \in Parties, Outlives(s, j, p) PROVE Spared(s, RemoveInvite(s, p, k), j, p)
    <2>1. s.leader[j] # NoPlayer
      BY <1>9, OutlivesAlive DEF Sound
    <2>2. CASE ~Empty(c, k)
      BY <1>3, <1>7, <2>1, <2>2 DEF DisbandIfEmpty, Spared
    <2>3. CASE Empty(c, k)
      <3>1. j # k
        <4> SUFFICES ASSUME j = k PROVE FALSE
          OBVIOUS
        <4>1. PICK r \in Players \ {p, c.leader[k]} : s.party[r] = k \/ r \in s.invited[k]
          BY <1>9 DEF Outlives
        <4>2. r \notin s.invited[k]
          BY <1>4, <2>3, <4>1 DEF Empty
        <4>3. r \in Range(c.members[k])
          BY <1>3, <1>5, <4>1, <4>2 DEF Linked, LetGo
        <4>4. Range(<<>>) = {}
          BY DEF Range
        <4> QED
          BY <2>3, <4>3, <4>4 DEF Empty
      <3>2. Linked(c, on, {k})
        BY <1>5 DEF Linked
      <3>3. PICK t : t = Disband(c, {k})
        OBVIOUS
      <3>4. t.leader[j] = c.leader[j] /\ \A q \in Players : c.party[q] = j => t.party[q] = j
        BY <3>1, <3>2, <3>3, DisbandSpares
      <3>5. RemoveInvite(s, p, k) = t
        BY <1>7, <2>3, <3>3 DEF DisbandIfEmpty
      <3> QED
        BY <1>3, <2>1, <3>4, <3>5 DEF Spared
    <2> QED
      BY <2>2, <2>3
  <1> QED
    BY <1>8, <1>9

\* Player::clearPartyInvitations: the parties that waited for this player only end.
LEMMA ClearSound ==
  ASSUME NEW s, NEW on, NEW p \in Players, Sound(s, on)
  PROVE  LET t == ClearInvitations(s, p)
         IN  /\ Sound(t, on)
             /\ t.invitations[p] = {}
             /\ \A j \in Parties : Outlives(s, j, p) => Spared(s, t, j, p) /\ Outlives(t, j, p)
  <1>1. PICK c : c = [s EXCEPT !.invitations[p] = {},
                        !.invited = [k \in Parties |->
                            IF k \in s.invitations[p] THEN s.invited[k] \ {p} ELSE s.invited[k]]]
    OBVIOUS
  <1>2. s \in PactType /\ Linked(s, on, {}) /\ NoneEmpty(s, {})
    BY DEF Sound, Linked
  <1>3. PICK gone : gone = {k \in s.invitations[p] : Empty(c, k)}
    OBVIOUS
  <1>4. gone \in SUBSET Parties
    BY <1>2, <1>3 DEF PactType
  <1>5. PICK t : t = ClearInvitations(s, p)
    OBVIOUS
  <1>6. t = Disband(c, gone)
    BY <1>1, <1>3, <1>5 DEF ClearInvitations
  <1>7. /\ c.party = s.party /\ c.leader = s.leader /\ c.members = s.members
        /\ c.invitations = [s.invitations EXCEPT ![p] = {}]
        /\ c.invited = [k \in Parties |->
               IF k \in s.invitations[p] THEN s.invited[k] \ {p} ELSE s.invited[k]]
        /\ c \in PactType
    BY <1>1, <1>2 DEF PactType
  <1>8. /\ \A q \in Players : c.invitations[q] = IF q = p THEN {} ELSE s.invitations[q]
        /\ \A k \in Parties :
              c.invited[k] = IF k \in s.invitations[p] THEN s.invited[k] \ {p} ELSE s.invited[k]
    BY <1>2, <1>7 DEF PactType
  <1>9. Linked(c, on, {})
    <2>1. ASSUME NEW q \in Players, NEW j \in Parties
          PROVE  /\ c.party[q] = j => LetGo(c, q, j)
                 /\ LetGo(c, q, j) => c.party[q] = j
                 /\ j \in c.invitations[q] <=> q \in c.invited[j]
                 /\ c.party[q] = j \/ j \in c.invitations[q] => q \in on
      BY <1>2, <1>7, <1>8 DEF Linked, LetGo
    <2>2. \A j \in Parties : c.invited[j] \subseteq s.invited[j]
      BY <1>8
    <2>3. ASSUME NEW j \in Parties
          PROVE  /\ c.leader[j] \notin Range(c.members[j])
                 /\ IsInjective(c.members[j])
                 /\ c.leader[j] = NoPlayer => Empty(c, j)
      BY <1>2, <1>7, <2>2 DEF Linked, Empty
    <2> QED
      BY <1>7, <2>1, <2>3 DEF Linked
  <1>10. Linked(c, on, gone)
    BY <1>9 DEF Linked
  <1>11. NoneEmpty(c, gone)
    <2> SUFFICES ASSUME NEW k \in Parties, k \notin gone, Empty(c, k)
                 PROVE  c.leader[k] = NoPlayer
      BY DEF NoneEmpty
    <2>1. k \notin s.invitations[p]
      BY <1>3
    <2>2. Empty(s, k)
      BY <1>7, <1>8, <2>1 DEF Empty
    <2> QED
      BY <1>2, <1>7, <2>2 DEF NoneEmpty
  <1>12. Sound(t, on)
    BY <1>4, <1>6, <1>10, <1>11, DisbandSound
  <1>13. t.invitations[p] = {}
    <2>1. \A q \in Players :
            /\ t.party[q] = IF \E k \in gone : LetGo(c, q, k) THEN NoParty ELSE c.party[q]
            /\ t.invitations[q] = c.invitations[q] \ {k \in gone : q \in c.invited[k]}
      <3>1. c \in PactType
        BY <1>7
      <3> QED
        BY <1>4, <1>6, <3>1, DisbandFields
    <2> QED
      BY <1>8, <2>1
  <1>14. ASSUME NEW j \in Parties, Outlives(s, j, p)
         PROVE  Spared(s, t, j, p) /\ Outlives(t, j, p)
    <2>1. s.leader[j] # NoPlayer
      BY <1>2, <1>14, OutlivesAlive
    <2>2. ~Empty(c, j)
      <3> SUFFICES ASSUME Empty(c, j) PROVE FALSE
        OBVIOUS
      <3>1. PICK r \in Players \ {p, c.leader[j]} : s.party[r] = j \/ r \in s.invited[j]
        BY <1>14 DEF Outlives
      <3>2. r \notin s.invited[j]
        BY <1>8, <3>1 DEF Empty
      <3>3. r \in Range(c.members[j])
        BY <1>7, <1>9, <3>1, <3>2 DEF Linked, LetGo
      <3>4. Range(<<>>) = {}
        BY DEF Range
      <3> QED
        BY <3>3, <3>4 DEF Empty
    <2>3. j \in Parties \ gone
      BY <1>3, <2>2
    <2>4. /\ t.leader[j] = c.leader[j] /\ t.invited[j] = c.invited[j]
          /\ \A q \in Players : c.party[q] = j => t.party[q] = j
      BY <1>4, <1>6, <1>10, <2>3, DisbandSpares
    <2>5. Spared(s, t, j, p)
      BY <1>7, <2>1, <2>4 DEF Spared
    <2>6. \A q \in Players \ {p} : q \in s.invited[j] => q \in t.invited[j]
      BY <1>8, <2>4
    <2>7. Outlives(t, j, p)
      BY <1>7, <1>14, <2>4, <2>6 DEF Outlives
    <2> QED
      BY <2>5, <2>7
  <1> QED
    BY <1>5, <1>12, <1>13, <1>14

-----------------------------------------------------------------------------
(* What the packets do to sound pointers. *)

\* A party that outlives every departure goes on, and at most one player leaves it.
Keeps(s, t) ==
    \A k \in Parties : (\A p \in Players : Outlives(s, k, p)) =>
        \E p \in Players : Spared(s, t, k, p)

\* To outlive a departure the party needs players, so there is one to speak of.
LEMMA KeepsFor ==
  ASSUME NEW s, NEW t, NEW p \in Players,
         \A k \in Parties : Outlives(s, k, p) => Spared(s, t, k, p)
  PROVE  Keeps(s, t)
  BY DEF Keeps

\* The first invitation makes the party, at an address nothing points at.
LEMMA InviteSound ==
  ASSUME Sound(pact, online), NEW p \in Players, NEW q \in Players, InviteToParty(p, q)
  PROVE  Sound(pact', online) /\ Keeps(pact, pact')
  <1>1. PICK s : s = pact
    OBVIOUS
  <1>2. PICK t : t = pact'
    OBVIOUS
  <1>3. PICK k \in Parties :
          /\ \/ s.party[p] = NoParty /\ s.leader[k] = NoPlayer
             \/ s.party[p] = k /\ s.leader[k] = p
          /\ t = [s EXCEPT !.party[p] = k, !.leader[k] = p,
                           !.invited[k] = @ \cup {q},
                           !.invitations[q] = @ \cup {k}]
    BY <1>1, <1>2 DEF InviteToParty
  <1>4. p \in online /\ q \in online
    BY DEF InviteToParty
  <1>5. s \in PactType /\ Linked(s, online, {}) /\ NoneEmpty(s, {})
    BY <1>1 DEF Sound, Linked
  <1>6. /\ t.members = s.members
        /\ t.party = [s.party EXCEPT ![p] = k]
        /\ t.leader = [s.leader EXCEPT ![k] = p]
        /\ t.invited = [s.invited EXCEPT ![k] = @ \cup {q}]
        /\ t.invitations = [s.invitations EXCEPT ![q] = @ \cup {k}]
        /\ t = [party |-> t.party, invitations |-> t.invitations, leader |-> t.leader,
                members |-> t.members, invited |-> t.invited]
    BY <1>3, <1>5 DEF PactType
  <1>7. /\ \A r \in Players : t.party[r] = IF r = p THEN k ELSE s.party[r]
        /\ \A j \in Parties : t.leader[j] = IF j = k THEN p ELSE s.leader[j]
        /\ \A r \in Players, j \in Parties :
              /\ r \in t.invited[j] <=> r \in s.invited[j] \/ (j = k /\ r = q)
              /\ j \in t.invitations[r] <=> j \in s.invitations[r] \/ (j = k /\ r = q)
        /\ \A j \in Parties \ {k} : t.invited[j] = s.invited[j]
    BY <1>5, <1>6 DEF PactType
  <1>8. t \in PactType
    <2>1. t.party \in [Players -> Parties \cup {NoParty}]
      BY <1>5, <1>6 DEF PactType
    <2>2. t.leader \in [Parties -> Players \cup {NoPlayer}]
      BY <1>5, <1>6 DEF PactType
    <2>3. t.invited \in [Parties -> SUBSET Players]
      <3>1. PICK i : i = s.invited[k] \cup {q}
        OBVIOUS
      <3>2. i \in SUBSET Players
        BY <1>5, <3>1 DEF PactType
      <3> QED
        BY <1>5, <1>6, <3>1, <3>2 DEF PactType
    <2>4. t.invitations \in [Players -> SUBSET Parties]
      <3>1. PICK i : i = s.invitations[q] \cup {k}
        OBVIOUS
      <3>2. i \in SUBSET Parties
        BY <1>5, <3>1 DEF PactType
      <3> QED
        BY <1>5, <1>6, <3>1, <3>2 DEF PactType
    <2> QED
      BY <1>5, <1>6, <2>1, <2>2, <2>3, <2>4 DEF PactType
  \* The new leader was no member: a party that is no object has none.
  <1>9. p \notin Range(s.members[k]) /\ (s.leader[k] = NoPlayer => Empty(s, k))
    <2>1. Range(<<>>) = {}
      BY DEF Range
    <2> QED
      BY <1>3, <1>5, <2>1 DEF Linked, Empty
  <1>10. ASSUME NEW r \in Players, NEW j \in Parties
         PROVE  /\ t.party[r] = j => LetGo(t, r, j)
                /\ LetGo(t, r, j) => t.party[r] = j
                /\ j \in t.invitations[r] <=> r \in t.invited[j]
                /\ t.party[r] = j \/ j \in t.invitations[r] => r \in online
    <2>1. ASSUME t.party[r] = j PROVE LetGo(t, r, j)
      <3>1. CASE r = p
        BY <1>7, <2>1, <3>1 DEF LetGo
      <3>2. CASE r # p
        <4>1. s.party[r] = j
          BY <1>7, <2>1, <3>2
        <4>2. LetGo(s, r, j)
          BY <1>5, <4>1 DEF Linked
        \* The party that is made has nobody in it yet.
        <4>3. j = k => s.leader[k] = p
          <5>1. LetGo(s, r, k) => s.leader[k] # NoPlayer
            <6>1. Range(<<>>) = {}
              BY DEF Range
            <6> QED
              BY <1>9, <6>1, PartyAssumption DEF LetGo, Empty
          <5> QED
            BY <1>3, <4>2, <5>1
        <4> QED
          BY <1>6, <1>7, <4>2, <4>3 DEF LetGo
      <3> QED
        BY <3>1, <3>2
    <2>2. ASSUME LetGo(t, r, j) PROVE t.party[r] = j
      <3>1. CASE j # k
        <4>1. s.party[r] = j
          BY <1>5, <1>6, <1>7, <2>2, <3>1 DEF Linked, LetGo
        <4> QED
          BY <1>3, <1>7, <3>1, <4>1, PartyAssumption
      <3>2. CASE j = k /\ r # p
        <4>1. LetGo(s, r, k)
          BY <1>6, <1>7, <2>2, <3>2 DEF LetGo
        <4> QED
          BY <1>5, <1>7, <3>2, <4>1 DEF Linked
      <3> QED
        BY <1>7, <3>1, <3>2
    <2>3. j \in t.invitations[r] <=> r \in t.invited[j]
      BY <1>5, <1>7 DEF Linked
    <2>4. t.party[r] = j \/ j \in t.invitations[r] => r \in online
      BY <1>4, <1>5, <1>7 DEF Linked
    <2> QED
      BY <2>1, <2>2, <2>3, <2>4
  <1>11. ASSUME NEW j \in Parties
         PROVE  /\ t.leader[j] \notin Range(t.members[j])
                /\ IsInjective(t.members[j])
                /\ t.leader[j] = NoPlayer => Empty(t, j)
                /\ Empty(t, j) => t.leader[j] = NoPlayer
    <2>1. CASE j = k
      <3>1. t.leader[j] = p /\ p # NoPlayer /\ q \in t.invited[j]
        BY <1>7, <2>1, PartyAssumption
      <3>2. t.leader[j] \notin Range(t.members[j]) /\ IsInjective(t.members[j])
        BY <1>5, <1>6, <1>9, <2>1, <3>1 DEF Linked
      <3> QED
        BY <3>1, <3>2 DEF Empty
    <2>2. CASE j # k
      BY <1>5, <1>6, <1>7, <2>2 DEF Linked, NoneEmpty, Empty
    <2> QED
      BY <2>1, <2>2
  <1>12. Sound(t, online)
    BY <1>8, <1>10, <1>11 DEF Sound, Linked, NoneEmpty
  <1>13. ASSUME NEW j \in Parties, Outlives(s, j, p) PROVE Spared(s, t, j, p)
    <2>1. s.leader[j] # NoPlayer
      BY <1>5, <1>13, OutlivesAlive
    <2> QED
      BY <1>7, <2>1, PartyAssumption DEF Spared
  <1> QED
    BY <1>1, <1>2, <1>12, <1>13, KeepsFor

\* Who joins was invited, and no longer is.
LEMMA JoinSound ==
  ASSUME Sound(pact, online), NEW p \in Players, NEW l \in Players, JoinParty(p, l)
  PROVE  Sound(pact', online) /\ Keeps(pact, pact')
  <1>1. PICK s : s = pact
    OBVIOUS
  <1>2. PICK t : t = pact'
    OBVIOUS
  <1>3. PICK k : k = s.party[l]
    OBVIOUS
  <1>4. s \in PactType /\ Linked(s, online, {}) /\ NoneEmpty(s, {})
    BY <1>1 DEF Sound, Linked
  <1>5. /\ k \in Parties /\ s.leader[k] = l /\ s.party[p] = NoParty
        /\ t = [s EXCEPT !.party[p] = k,
                         !.members[k] = Append(@, p),
                         !.invited[k] = @ \ {p},
                         !.invitations[p] = @ \ {k}]
    BY <1>1, <1>2, <1>3, <1>4 DEF JoinParty, IsInviting, PactType
  <1>6. p \in online /\ l \in online
    BY DEF JoinParty
  <1>7. PICK a : a = Append(s.members[k], p)
    OBVIOUS
  <1>8. p \notin Range(s.members[k]) /\ s.leader[k] # p
    BY <1>4, <1>5, PartyAssumption DEF Linked, LetGo
  <1>9. /\ a \in Seq(Players) /\ IsInjective(a) /\ a # <<>>
        /\ Range(a) = Range(s.members[k]) \cup {p}
    <2>1. s.members[k] \in Seq(Players) /\ IsInjective(s.members[k])
      BY <1>4, <1>5 DEF Linked, PactType
    <2>2. a \in Seq(Players) /\ IsInjective(a) /\ Range(a) = Range(s.members[k]) \cup {p}
      BY <1>7, <1>8, <2>1, AppendOf
    <2>3. a # <<>>
      BY <2>2, EmptyRange
    <2> QED
      BY <2>2, <2>3
  <1>10. /\ t.leader = s.leader
         /\ t.party = [s.party EXCEPT ![p] = k]
         /\ t.members = [s.members EXCEPT ![k] = a]
         /\ t.invited = [s.invited EXCEPT ![k] = @ \ {p}]
         /\ t.invitations = [s.invitations EXCEPT ![p] = @ \ {k}]
         /\ t = [party |-> t.party, invitations |-> t.invitations, leader |-> t.leader,
                 members |-> t.members, invited |-> t.invited]
    BY <1>4, <1>5, <1>7 DEF PactType
  <1>11. /\ \A r \in Players : t.party[r] = IF r = p THEN k ELSE s.party[r]
         /\ \A j \in Parties : t.members[j] = IF j = k THEN a ELSE s.members[j]
         /\ \A r \in Players, j \in Parties :
               /\ r \in t.invited[j] <=> r \in s.invited[j] /\ ~(j = k /\ r = p)
               /\ j \in t.invitations[r] <=> j \in s.invitations[r] /\ ~(j = k /\ r = p)
         /\ \A j \in Parties \ {k} : t.invited[j] = s.invited[j]
    BY <1>4, <1>10 DEF PactType
  <1>12. t \in PactType
    <2>1. t.party \in [Players -> Parties \cup {NoParty}]
      BY <1>4, <1>5, <1>10 DEF PactType
    <2>2. t.members \in [Parties -> Seq(Players)]
      <3>1. s.members \in [Parties -> Seq(Players)] /\ a \in Seq(Players)
        BY <1>4, <1>9 DEF PactType
      <3> QED
        BY <1>10, <3>1, SetOne
    <2>3. t.invited \in [Parties -> SUBSET Players]
      <3>1. PICK i : i = s.invited[k] \ {p}
        OBVIOUS
      <3>2. s.invited \in [Parties -> SUBSET Players] /\ i \in SUBSET Players
        BY <1>4, <1>5, <3>1 DEF PactType
      <3>3. t.invited = [s.invited EXCEPT ![k] = i]
        BY <1>10, <3>1
      <3> QED
        BY <3>2, <3>3, SetOne
    <2>4. t.invitations \in [Players -> SUBSET Parties]
      <3>1. PICK i : i = s.invitations[p] \ {k}
        OBVIOUS
      <3>2. i \in SUBSET Parties
        BY <1>4, <3>1 DEF PactType
      <3> QED
        BY <1>4, <1>10, <3>1, <3>2 DEF PactType
    <2> QED
      BY <1>4, <1>10, <2>1, <2>2, <2>3, <2>4 DEF PactType
  <1>13. \A r \in Players, j \in Parties :
           LetGo(t, r, j) <=> LetGo(s, r, j) \/ (r = p /\ j = k)
    BY <1>9, <1>10, <1>11 DEF LetGo
  <1>14. ASSUME NEW r \in Players, NEW j \in Parties
         PROVE  /\ t.party[r] = j => LetGo(t, r, j)
                /\ LetGo(t, r, j) => t.party[r] = j
                /\ j \in t.invitations[r] <=> r \in t.invited[j]
                /\ t.party[r] = j \/ j \in t.invitations[r] => r \in online
    <2>1. ASSUME t.party[r] = j PROVE LetGo(t, r, j)
      BY <1>4, <1>11, <1>13, <2>1 DEF Linked
    <2>2. ASSUME LetGo(t, r, j) PROVE t.party[r] = j
      BY <1>4, <1>5, <1>11, <1>13, <2>2, PartyAssumption DEF Linked
    <2>3. j \in t.invitations[r] <=> r \in t.invited[j]
      BY <1>4, <1>11 DEF Linked
    <2>4. t.party[r] = j \/ j \in t.invitations[r] => r \in online
      BY <1>4, <1>6, <1>11 DEF Linked
    <2> QED
      BY <2>1, <2>2, <2>3, <2>4
  <1>15. ASSUME NEW j \in Parties
         PROVE  /\ t.leader[j] \notin Range(t.members[j])
                /\ IsInjective(t.members[j])
                /\ t.leader[j] = NoPlayer => Empty(t, j)
                /\ Empty(t, j) => t.leader[j] = NoPlayer
    <2>1. CASE j = k
      <3>1. t.leader[j] = l /\ t.members[j] = a /\ l # NoPlayer
        BY <1>5, <1>10, <1>11, <2>1, PartyAssumption
      <3>2. l \notin Range(s.members[k]) /\ l # p
        BY <1>4, <1>5, <1>8 DEF Linked
      <3> QED
        BY <1>9, <3>1, <3>2 DEF Empty
    <2>2. CASE j # k
      BY <1>4, <1>10, <1>11, <2>2 DEF Linked, NoneEmpty, Empty
    <2> QED
      BY <2>1, <2>2
  <1>16. Sound(t, online)
    BY <1>12, <1>14, <1>15 DEF Sound, Linked, NoneEmpty
  <1>17. ASSUME NEW j \in Parties, Outlives(s, j, p) PROVE Spared(s, t, j, p)
    <2>1. s.leader[j] # NoPlayer
      BY <1>4, <1>17, OutlivesAlive
    <2> QED
      BY <1>10, <1>11, <2>1 DEF Spared
  <1> QED
    BY <1>1, <1>2, <1>16, <1>17, KeepsFor

LEMMA RevokeSound ==
  ASSUME Sound(pact, online), NEW p \in Players, NEW q \in Players, RevokeInvitation(p, q)
  PROVE  Sound(pact', online) /\ Keeps(pact, pact')
  <1>1. PICK k : k = pact.party[p]
    OBVIOUS
  <1>2. k \in Parties /\ pact' = RemoveInvite(pact, q, k)
    BY <1>1 DEF RevokeInvitation, Leads, Sound, Linked, PactType
  <1>3. PICK t : t = pact'
    OBVIOUS
  <1>4. /\ Sound(t, online)
        /\ \A j \in Parties : Outlives(pact, j, q) => Spared(pact, t, j, q)
    BY <1>2, <1>3, RemoveInviteSound
  <1> QED
    BY <1>3, <1>4, KeepsFor

LEMMA PassLeadershipSound ==
  ASSUME Sound(pact, online), NEW p \in Players, NEW q \in Players, PassPartyLeadership(p, q)
  PROVE  Sound(pact', online) /\ Keeps(pact, pact')
  <1>1. PICK s : s = pact
    OBVIOUS
  <1>2. PICK t : t = pact'
    OBVIOUS
  <1>3. PICK k : k = s.party[p]
    OBVIOUS
  <1>4. Sound(s, online) /\ Linked(s, online, {}) /\ s \in PactType
    BY <1>1 DEF Sound, Linked
  <1>5. k \in Parties /\ s.party[q] = k /\ s.leader[k] # q /\ t = PassLeadership(s, k, q)
    BY <1>1, <1>2, <1>3, <1>4 DEF PassPartyLeadership, Leads, PactType
  <1>6. Sound(t, online)
    BY <1>4, <1>5, PassSound
  <1>7. t.party = s.party /\ t.leader = [s.leader EXCEPT ![k] = q]
    BY <1>4, <1>5, PassFields
  <1>8. ASSUME NEW j \in Parties, Outlives(s, j, p) PROVE Spared(s, t, j, p)
    <2>1. s.leader[j] # NoPlayer
      BY <1>4, <1>8, OutlivesAlive
    <2>2. t.leader[j] # NoPlayer
      BY <1>4, <1>7, <2>1, PartyAssumption DEF PactType
    <2> QED
      BY <1>7, <2>2 DEF Spared
  <1> QED
    BY <1>1, <1>2, <1>6, <1>8, KeepsFor

LEMMA PlayerLeaveSound ==
  ASSUME Sound(pact, online), NEW p \in Players, PlayerLeaveParty(p)
  PROVE  Sound(pact', online) /\ Keeps(pact, pact')
  <1>1. PICK k : k = pact.party[p]
    OBVIOUS
  <1>2. k \in Parties /\ pact' = LeaveParty(pact, p)
    BY <1>1 DEF PlayerLeaveParty, Sound, Linked, PactType
  <1>3. PICK t : t = LeaveParty(pact, p)
    OBVIOUS
  <1>4. /\ Sound(t, online)
        /\ \A j \in Parties : Outlives(pact, j, p) => Spared(pact, t, j, p)
    BY <1>1, <1>2, <1>3, LeaveSound
  <1> QED
    BY <1>2, <1>3, <1>4, KeepsFor

\* Who leaves the game gives up his invitations first and his party then: nothing points
\* at him when he is gone.
LEMMA ForgetSound ==
  ASSUME Sound(pact, online), NEW p \in Players, ForgetParties(p)
  PROVE  Sound(pact', online \ {p}) /\ Keeps(pact, pact')
  <1>1. PICK c : c = ClearInvitations(pact, p)
    OBVIOUS
  <1>2. /\ Sound(c, online) /\ c.invitations[p] = {}
        /\ \A j \in Parties : Outlives(pact, j, p) => Spared(pact, c, j, p) /\ Outlives(c, j, p)
    BY <1>1, ClearSound
  <1>3. PICK t : t = pact'
    OBVIOUS
  <1>4. t = IF c.party[p] = NoParty THEN c ELSE LeaveParty(c, p)
    BY <1>1, <1>3 DEF ForgetParties
  <1>5. /\ Sound(t, online) /\ t.party[p] = NoParty /\ t.invitations[p] = {}
        /\ \A j \in Parties : Outlives(pact, j, p) => Spared(pact, t, j, p)
    <2>1. CASE c.party[p] = NoParty
      BY <1>2, <1>4, <2>1
    <2>2. CASE c.party[p] # NoParty
      <3>1. PICK k : k = c.party[p]
        OBVIOUS
      <3>2. k \in Parties /\ t = LeaveParty(c, p)
        BY <1>2, <1>4, <2>2, <3>1 DEF Sound, Linked, PactType
      <3>3. /\ Sound(t, online)
            /\ t.party[p] = NoParty /\ t.invitations[p] \subseteq c.invitations[p]
            /\ \A j \in Parties : Outlives(c, j, p) => Spared(c, t, j, p)
        BY <1>2, <3>1, <3>2, LeaveSound
      <3> QED
        BY <1>2, <3>3 DEF Spared
    <2> QED
      BY <2>1, <2>2
  <1>6. Sound(t, online \ {p})
    <2>1. Linked(t, online, {}) /\ NoneEmpty(t, {})
      BY <1>5 DEF Sound
    <2>2. \A q \in Players, k \in Parties :
            t.party[q] = k \/ k \in t.invitations[q] => q \in online \ {p}
      BY <1>5, <2>1, PartyAssumption DEF Linked
    <2>3. Linked(t, online \ {p}, {})
      BY <2>1, <2>2 DEF Linked
    <2> QED
      BY <2>1, <2>3 DEF Sound
  <1> QED
    BY <1>3, <1>5, <1>6, KeepsFor

\* Every step. Who logs in is pointed at by nobody, and chat leaves parties alone.
LEMMA PartyStep ==
  ASSUME Sound(pact, online), [Next]_vars
  PROVE  Sound(pact', online') /\ (pact' = pact \/ Keeps(pact, pact'))
  <1>1. ASSUME NEW p \in Players, Login(p)
        PROVE  Sound(pact', online') /\ pact' = pact
    <2>1. PICK t : t = pact
      OBVIOUS
    <2>2. Linked(t, online, {}) /\ NoneEmpty(t, {})
      BY <2>1 DEF Sound
    <2>3. Linked(t, online \cup {p}, {})
      BY <2>2 DEF Linked
    <2>4. pact' = t /\ online' = online \cup {p}
      BY <1>1, <2>1 DEF Login
    <2> QED
      BY <2>1, <2>2, <2>3, <2>4 DEF Sound
  <1>2. ASSUME NEW p \in Players, Logout(p)
        PROVE  Sound(pact', online') /\ Keeps(pact, pact')
    BY <1>2, ForgetSound DEF Logout
  <1>3. CASE PartyPacket /\ UNCHANGED <<online, chatVars>>
    <2>1. Sound(pact', online) /\ Keeps(pact, pact')
      BY <1>3, InviteSound, JoinSound, RevokeSound, PassLeadershipSound, PlayerLeaveSound
         DEF PartyPacket
    <2> QED
      BY <1>3, <2>1
  <1>4. CASE UNCHANGED partyVars
    BY <1>4 DEF partyVars
  <1> QED
    BY <1>1, <1>2, <1>3, <1>4 DEF Next, TakeOver, vars

\* The game starts without parties.
LEMMA PartyStart == Init => Sound(pact, online)
  <1> SUFFICES ASSUME Init PROVE Sound(pact, online)
    OBVIOUS
  <1>1. /\ pact.party = [p \in Players |-> NoParty]
        /\ pact.invitations = [p \in Players |-> {}]
        /\ pact.leader = [k \in Parties |-> NoPlayer]
        /\ pact.members = [k \in Parties |-> <<>>]
        /\ pact.invited = [k \in Parties |-> {}]
        /\ pact = [party |-> pact.party, invitations |-> pact.invitations,
                   leader |-> pact.leader, members |-> pact.members, invited |-> pact.invited]
    BY DEF Init, PartyInit
  <1>2. Range(<<>>) = {} /\ IsInjective(<<>>) /\ <<>> \in Seq(Players)
    BY DEF Range, IsInjective
  <1>3. pact.members \in [Parties -> Seq(Players)]
    BY <1>1, <1>2
  <1>4. pact \in PactType
    BY <1>1, <1>3 DEF PactType
  <1>5. \A p \in Players, k \in Parties :
          /\ pact.party[p] # k /\ ~LetGo(pact, p, k)
          /\ k \notin pact.invitations[p] /\ p \notin pact.invited[k]
    BY <1>1, <1>2, PartyAssumption DEF LetGo
  <1>6. \A k \in Parties :
          /\ pact.leader[k] = NoPlayer /\ Empty(pact, k)
          /\ pact.leader[k] \notin Range(pact.members[k]) /\ IsInjective(pact.members[k])
    BY <1>1, <1>2 DEF Empty
  <1> QED
    BY <1>4, <1>5, <1>6 DEF Sound, Linked, NoneEmpty

-----------------------------------------------------------------------------
(* The theorems about parties. *)

\* A channel has the address of a party or an id of the range.
ChannelsNamed == DOMAIN partyUsers \subseteq Parties /\ DOMAIN private \subseteq PrivateIds

CommunityInv == Sound(pact, online) /\ ListenersInv /\ ChannelsNamed

\* A player asks for the channel of his own party only, which is a party.
LEMMA ChannelsStep ==
  ASSUME Sound(pact, online), ChannelsNamed, [Next]_vars
  PROVE  ChannelsNamed'
  <1>1. ASSUME NEW p \in Players, RemoveFromAllChannels(p) PROVE ChannelsNamed'
    BY <1>1 DEF RemoveFromAllChannels, ChannelsNamed
  <1>2. CASE UNCHANGED <<partyUsers, private>>
    BY <1>2 DEF ChannelsNamed
  <1>3. ASSUME NEW p \in Players, RequestChannels(p) PROVE ChannelsNamed'
    <2>1. pact.party[p] \in Parties
      BY <1>3 DEF RequestChannels, Sound, Linked, PactType
    <2> QED
      BY <1>3, <2>1 DEF RequestChannels, ChannelsNamed
  <1>4. ASSUME NEW p \in Players, OpenPartyChannel(p) \/ ClosePartyChannel(p)
        PROVE  ChannelsNamed'
    BY <1>4 DEF OpenPartyChannel, ClosePartyChannel, ChannelsNamed
  <1>5. ASSUME NEW p \in Players, CreatePrivateChannel(p) PROVE ChannelsNamed'
    BY <1>5 DEF CreatePrivateChannel, ChannelsNamed
  <1>6. ASSUME NEW p \in Players, NEW i \in PrivateIds, OpenPrivate(p, i) \/ ClosePrivate(p, i)
        PROVE  ChannelsNamed'
    <2>1. partyUsers' = partyUsers /\ DOMAIN private' \subseteq DOMAIN private
      BY <1>6 DEF OpenPrivate, ClosePrivate
    <2> QED
      BY <2>1 DEF ChannelsNamed
  <1>7. ASSUME NEW p \in Players, NEW q \in Players, ChannelInvite(p, q) \/ ChannelExclude(p, q)
        PROVE  ChannelsNamed'
    <2>1. partyUsers' = partyUsers /\ DOMAIN private' = DOMAIN private
      BY <1>7 DEF ChannelInvite, ChannelExclude, Excluded
    <2> QED
      BY <2>1 DEF ChannelsNamed
  <1>8. CASE ChannelPacket
    BY <1>2, <1>3, <1>4, <1>5, <1>6, <1>7, <1>8 DEF ChannelPacket, OpenPublic, ClosePublic
  <1> QED
    BY <1>1, <1>2, <1>8 DEF Next, Login, Logout, TakeOver, ReloadChannels, vars, chatVars

LEMMA CommunityInvariant == Spec => []CommunityInv
  <1>1. Init => CommunityInv
    BY PartyStart, ListenersInit DEF CommunityInv, ChannelsNamed, Init, ChatInit
  <1>2. CommunityInv /\ [Next]_vars => CommunityInv'
    <2> SUFFICES ASSUME CommunityInv, [Next]_vars PROVE CommunityInv'
      OBVIOUS
    <2>1. Sound(pact', online')
      BY PartyStep DEF CommunityInv
    <2>2. Sound(pact, online)'
      BY <2>1 DEF Sound, Linked, NoneEmpty, LetGo, Empty, PactType
    <2> QED
      BY <2>2, ListenersStep, ChannelsStep DEF CommunityInv
  <1> QED
    BY <1>1, <1>2, PTL DEF Spec

\* The pointers of parties and players and the users of channels stay of their types:
\* no party is led by nobody, and no list holds what is no player (party.h:89-92).
THEOREM CommunityTypes == Spec => []CommunityTypeOK
  <1>1. CommunityInv => CommunityTypeOK
    BY DEF CommunityInv, Sound, Linked, ListenersInv, ListenersTyped, ChannelsNamed,
           CommunityTypeOK, ChatTypeOK
  <1> QED
    BY <1>1, CommunityInvariant, PTL

\* However parties are made, joined, passed on, left and disbanded, and whoever leaves
\* the game meanwhile, both ends of every pointer agree (party.cpp:26-291).
THEOREM PartiesAlwaysAgree == Spec => []PartiesAgree
  <1>1. CommunityInv => PartiesAgree
    BY SoundIsAgreement DEF CommunityInv, Sound, Linked
  <1> QED
    BY <1>1, CommunityInvariant, PTL

\* Two players in a party, and three with the invited, are enough to outlive anybody.
LEMMA ThreeOutlive ==
  ASSUME NEW k \in Parties, NEW p \in Players,
         Cardinality(Company(k)) >= 2, Cardinality(Company(k) \cup pact.invited[k]) >= 3,
         pact \in PactType
  PROVE  Outlives(pact, k, p)
  <1>1. IsFiniteSet({p}) /\ Cardinality({p}) = 1
    BY FS_Singleton
  <1>2. ASSUME \A q \in Players \ {p} : pact.party[q] # k PROVE FALSE
    <2>1. PICK c : c = Company(k)
      OBVIOUS
    <2>2. c \in SUBSET {p}
      BY <1>2, <2>1 DEF Company
    <2>3. Cardinality(c) <= 1 /\ IsFiniteSet(c)
      BY <1>1, <2>2, FS_Subset
    <2>4. Cardinality(c) \in Nat
      BY <2>3, FS_CardinalityType
    <2> QED
      BY <2>1, <2>3, <2>4
  <1>3. ASSUME NEW a, \A q \in Players \ {p, a} : ~(pact.party[q] = k \/ q \in pact.invited[k])
        PROVE  FALSE
    <2>1. PICK c : c = Company(k) \cup pact.invited[k]
      OBVIOUS
    <2>2. PICK d : d = {p} \cup {a}
      OBVIOUS
    <2>3. c \in SUBSET d
      BY <1>3, <2>1, <2>2 DEF Company, PactType
    <2>4. IsFiniteSet(d) /\ Cardinality(d) <= 2
      <3>1. PICK b : b = {p}
        OBVIOUS
      <3>2. IsFiniteSet(b \cup {a}) /\ Cardinality(b \cup {a}) \in {Cardinality(b), Cardinality(b) + 1}
        BY <1>1, <3>1, FS_AddElement
      <3> QED
        BY <1>1, <2>2, <3>1, <3>2
    <2>5. Cardinality(c) <= Cardinality(d) /\ IsFiniteSet(c)
      BY <2>3, <2>4, FS_Subset
    <2>6. Cardinality(c) \in Nat /\ Cardinality(d) \in Nat
      BY <2>4, <2>5, FS_CardinalityType
    <2> QED
      BY <2>1, <2>4, <2>5, <2>6
  <1> QED
    BY <1>2, <1>3 DEF Outlives

\* A party of three, or of two with somebody else invited, goes on whoever leaves it, and
\* loses one player at a time (party.cpp:79-148).
THEOREM PartiesOfThreeSurvive == Spec => PartyOfThreeSurvives
  <1>1. CommunityInv /\ [Next]_vars =>
          [ \A k \in Parties :
              Cardinality(Company(k)) >= 2 /\ Cardinality(Company(k) \cup pact.invited[k]) >= 3
              => /\ pact.leader[k]' # NoPlayer
                 /\ Cardinality({p \in Company(k) : pact.party[p]' # k}) <= 1 ]_pact
    <2> SUFFICES ASSUME CommunityInv, [Next]_vars, pact' # pact, NEW k \in Parties,
                        Cardinality(Company(k)) >= 2,
                        Cardinality(Company(k) \cup pact.invited[k]) >= 3
                 PROVE  /\ pact'.leader[k] # NoPlayer
                        /\ Cardinality({p \in Company(k) : pact'.party[p] # k}) <= 1
      OBVIOUS
    <2>1. Keeps(pact, pact')
      BY PartyStep DEF CommunityInv
    <2>2. pact \in PactType
      BY DEF CommunityInv, Sound, Linked
    <2>3. PICK p \in Players : Spared(pact, pact', k, p)
      BY <2>1, <2>2, ThreeOutlive DEF Keeps
    <2>4. PICK c : c = {q \in Company(k) : pact'.party[q] # k}
      OBVIOUS
    <2>5. c \in SUBSET {p}
      BY <2>3, <2>4 DEF Spared, Company
    <2>6. IsFiniteSet({p}) /\ Cardinality({p}) = 1
      BY FS_Singleton
    <2>7. Cardinality(c) <= 1
      BY <2>5, <2>6, FS_Subset
    <2> QED
      BY <2>3, <2>4, <2>7 DEF Spared
  <1> QED
    BY <1>1, CommunityInvariant, PTL DEF Spec, PartyOfThreeSurvives
=============================================================================
