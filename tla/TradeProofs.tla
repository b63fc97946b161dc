----------------------------- MODULE TradeProofs -----------------------------
(***************************************************************************)
(* Proofs about Trade.tla, for any players, items, containers and places.  *)
(*                                                                         *)
(* The three state predicates TradeTypeOK, PartnersAgree and RegistryExact *)
(* are inductive only together: that a player without a partner has offered*)
(* nothing is what lets a new offer be registered, that partners agree is  *)
(* what makes the players whose trades end a closed set (ClosedIsClosed),  *)
(* and for such a set one lemma covers every way a trade ends (ResetKeeps).*)
(* What the hooks look for in the containers only matters to this part as  *)
(* the set of players it selects.                                          *)
(*                                                                         *)
(* The second part is about places (PlacesInv): that what holds an item is *)
(* a chain without circles (Acyclic) is why the hooks of an offer's owner  *)
(* hear of every move that concerns it (OfferTouched), and that nothing    *)
(* holds more than fits (Occupied) is why there is room for the second half*)
(* of an exchange once there was before the first (SecondMoveHasRoom). What*)
(* was only tested to fit on another stack may have none (HalfExchanged).  *)
(***************************************************************************)
EXTENDS Trade, FiniteSetTheorems, TLAPS

TradeInv == TradeTypeOK /\ PartnersAgree /\ RegistryExact

\* What is left of the invariant when the places and the parents are set aside.
TradeFields ==
    /\ tradeState \in [Players -> States]
    /\ tradePartner \in [Players -> Players \cup {NoPlayer}]
    /\ tradeItem \in [Players -> Items \cup {NoItem}]
    /\ tradeItems \in [DOMAIN tradeItems -> Players]
    /\ DOMAIN tradeItems \subseteq Items
    /\ refs \in [Items -> Nat]
    /\ \A p \in Players :
          /\ tradeState[p] = "NONE" <=> tradePartner[p] = NoPlayer
          /\ tradeState[p] = "INITIATED" => tradeItem[p] # NoItem
          /\ tradeState[p] \in {"NONE", "ACKNOWLEDGE"} => tradeItem[p] = NoItem

World ==
    /\ online \subseteq Players
    /\ place \in [Players -> Places]
    /\ parent \in [Items -> Players \cup Containers \cup Places \cup {Gone}]

TypesSplit == TradeTypeOK <=> World /\ TradeFields

\* Whoever trades with a member of ps is a member of ps.
PartnerClosed(ps) ==
    \A p \in ps : tradePartner[p] # NoPlayer => tradePartner[p] \in ps

\* The type invariant falls into the part about the world and the part about trades.
LEMMA TypesSplitHolds == TypesSplit
  BY DEF TypesSplit, TradeTypeOK, World, TradeFields

\* internalCloseTrade ends the trade of the player and of his partner: the set of all
\* whose trades end is closed under partnership, because partners agree.
LEMMA ClosedIsClosed ==
  ASSUME TradeFields, PartnersAgree, NEW ps \in SUBSET Players
  PROVE  /\ Closed(ps) \in SUBSET Players
         /\ ps \subseteq Closed(ps)
         /\ PartnerClosed(Closed(ps))
  <1>1. \A p \in Players : tradePartner[p] \in Players \cup {NoPlayer}
    BY DEF TradeFields
  <1>2. Closed(ps) \in SUBSET Players
    BY <1>1 DEF Closed
  <1>3. ASSUME NEW p \in Closed(ps), tradePartner[p] # NoPlayer
        PROVE  tradePartner[p] \in Closed(ps)
    <2>1. CASE p \in ps
      BY <1>3, <2>1 DEF Closed
    <2>2. CASE p \notin ps
      <3>1. PICK q \in ps : p = tradePartner[q]
        BY <1>3, <2>2 DEF Closed
      <3>2. p # NoPlayer
        BY <1>3, <2>2 DEF Closed
      <3>3. tradePartner[p] = q
        BY <3>1, <3>2 DEF PartnersAgree
      <3> QED
        BY <3>3 DEF Closed
    <2> QED
      BY <2>1, <2>2
  <1> QED
    BY <1>2, <1>3 DEF PartnerClosed, Closed

\* Ending the trades of a set of players that is closed under partnership, by
\* whatever cause, keeps the trades of the others and the registry right.
LEMMA ResetKeeps ==
  ASSUME TradeFields, PartnersAgree, RegistryExact,
         NEW ps \in SUBSET Players, PartnerClosed(ps), Reset(ps),
         online \ ps \subseteq online'
  PROVE  TradeFields' /\ PartnersAgree' /\ RegistryExact'
  <1> DEFINE gone == Released(ps)
  <1>a. NoPlayer \notin Players /\ NoItem \notin Items
    BY TradeAssumption
  <1>b. \A p \in Players : tradeState'[p] = IF p \in ps THEN "NONE" ELSE tradeState[p]
    BY DEF Reset
  <1>c. \A p \in Players : tradePartner'[p] = IF p \in ps THEN NoPlayer ELSE tradePartner[p]
    BY DEF Reset
  <1>d. \A p \in Players : tradeItem'[p] = IF p \in ps THEN NoItem ELSE tradeItem[p]
    BY DEF Reset
  <1>e. /\ DOMAIN tradeItems' = DOMAIN tradeItems \ gone
        /\ \A i \in DOMAIN tradeItems \ gone : tradeItems'[i] = tradeItems[i]
    BY DEF Reset, Unregister
  <1>f. \A i \in Items : refs'[i] = IF i \in gone /\ i \in DOMAIN tradeItems
                                    THEN refs[i] - 1 ELSE refs[i]
    BY DEF Reset, Unregister
  <1>g. \A i \in Items : refs[i] = IF i \in DOMAIN tradeItems THEN 1 ELSE 0
    BY DEF RegistryExact
  <1>h. gone \subseteq DOMAIN tradeItems
    BY DEF Released, RegistryExact
  <1>i. \A i \in DOMAIN tradeItems : i \in gone <=> tradeItems[i] \in ps
    <2> SUFFICES ASSUME NEW i \in DOMAIN tradeItems
                 PROVE  i \in gone <=> tradeItems[i] \in ps
      OBVIOUS
    <2>1. /\ tradeItem[tradeItems[i]] = i
          /\ i # NoItem
          /\ tradeItems[i] \in Players
      BY <1>a DEF RegistryExact, TradeFields
    <2>2. ASSUME i \in gone PROVE tradeItems[i] \in ps
      <3>1. PICK p \in ps : tradeItem[p] = i
        BY <2>2 DEF Released
      <3> QED
        BY <2>1, <3>1 DEF RegistryExact
    <2>3. ASSUME tradeItems[i] \in ps PROVE i \in gone
      BY <2>1, <2>3 DEF Released
    <2> QED
      BY <2>2, <2>3
  <1>1. TradeFields'
    <2>1. /\ tradeState' \in [Players -> States]
          /\ tradePartner' \in [Players -> Players \cup {NoPlayer}]
          /\ tradeItem' \in [Players -> Items \cup {NoItem}]
      BY DEF TradeFields, Reset, States
    <2>2. DOMAIN tradeItems' \subseteq Items
      BY <1>e DEF TradeFields
    <2>3. tradeItems' \in [DOMAIN tradeItems' -> Players]
      <3>1. tradeItems' = [i \in DOMAIN tradeItems \ gone |-> tradeItems[i]]
        BY DEF Reset, Unregister
      <3> QED
        BY <3>1 DEF TradeFields
    <2>4. refs' \in [Items -> Nat]
      <3>1. refs' = [i \in Items |-> IF i \in gone /\ i \in DOMAIN tradeItems
                                     THEN refs[i] - 1 ELSE refs[i]]
        BY DEF Reset, Unregister
      <3>2. \A i \in Items : refs'[i] \in Nat
        BY <1>f, <1>g
      <3> QED
        BY <3>1, <3>2
    <2>5. ASSUME NEW p \in Players
          PROVE  /\ tradeState'[p] = "NONE" <=> tradePartner'[p] = NoPlayer
                 /\ tradeState'[p] = "INITIATED" => tradeItem'[p] # NoItem
                 /\ tradeState'[p] \in {"NONE", "ACKNOWLEDGE"} => tradeItem'[p] = NoItem
      BY <1>b, <1>c, <1>d DEF TradeFields
    <2> QED
      BY <2>1, <2>2, <2>3, <2>4, <2>5 DEF TradeFields
  <1>2. PartnersAgree'
    <2> SUFFICES ASSUME NEW p \in Players, tradePartner'[p] # NoPlayer
                 PROVE  /\ tradePartner'[p] # p
                        /\ p \in online'
                        /\ tradePartner'[tradePartner'[p]] = p
      BY DEF PartnersAgree
    <2>1. p \notin ps /\ tradePartner'[p] = tradePartner[p]
      BY <1>c
    <2>2. /\ tradePartner[p] # p
          /\ p \in online
          /\ tradePartner[tradePartner[p]] = p
          /\ tradePartner[p] \in Players
      BY <2>1 DEF PartnersAgree, TradeFields
    <2>3. tradePartner[p] \notin ps
      BY <2>1, <2>2, <1>a DEF PartnerClosed
    <2> QED
      BY <2>1, <2>2, <2>3, <1>c
  <1>3. RegistryExact'
    <2>1. ASSUME NEW p \in Players, tradeItem'[p] # NoItem
          PROVE  tradeItem'[p] \in DOMAIN tradeItems' /\ tradeItems'[tradeItem'[p]] = p
      <3>1. p \notin ps /\ tradeItem'[p] = tradeItem[p]
        BY <1>d, <2>1
      <3>2. tradeItem[p] \in DOMAIN tradeItems /\ tradeItems[tradeItem[p]] = p
        BY <2>1, <3>1 DEF RegistryExact
      <3> QED
        BY <3>1, <3>2, <1>e, <1>i
    <2>2. ASSUME NEW i \in DOMAIN tradeItems'
          PROVE  tradeItem'[tradeItems'[i]] = i
      <3>1. i \in DOMAIN tradeItems /\ i \notin gone /\ tradeItems'[i] = tradeItems[i]
        BY <1>e, <2>2
      <3>2. tradeItems[i] \in Players /\ tradeItems[i] \notin ps
        BY <3>1, <1>i DEF TradeFields
      <3> QED
        BY <3>1, <3>2, <1>d DEF RegistryExact
    <2>3. ASSUME NEW i \in Items
          PROVE  refs'[i] = IF i \in DOMAIN tradeItems' THEN 1 ELSE 0
      BY <1>e, <1>f, <1>g
    <2> QED
      BY <2>1, <2>2, <2>3 DEF RegistryExact
  <1> QED
    BY <1>1, <1>2, <1>3

-----------------------------------------------------------------------------
(* The steps. *)

\* Every set of players the hooks select is a set of players.
LEMMA TouchedArePlayers ==
  ASSUME World, NEW i \in Items, NEW c
  PROVE  RemovalTouches(i) \in SUBSET Players /\ AddingTouches(i, c) \in SUBSET Players
  BY DEF World, RemovalTouches, AddingTouches, HearersOfRemoval, Near

\* internalCloseTrade keeps the invariant whoever it is called for, while those who
\* leave the game are among the players whose trades end.
LEMMA CloseTradesKeeps ==
  ASSUME TradeFields, PartnersAgree, RegistryExact,
         NEW ps \in SUBSET Players, CloseTrades(ps), online \ Closed(ps) \subseteq online'
  PROVE  TradeFields' /\ PartnersAgree' /\ RegistryExact'
  <1>1. Closed(ps) \in SUBSET Players /\ PartnerClosed(Closed(ps))
    BY ClosedIsClosed
  <1>2. Reset(Closed(ps))
    BY DEF CloseTrades
  <1> QED
    BY <1>1, <1>2, ResetKeeps

\* Ending no trade changes nothing.
LEMMA EndNothing ==
  ASSUME TradeFields, RegistryExact, Reset({})
  PROVE  TradeFields' /\ RegistryExact'
  <1>1. Released({}) = {}
    BY DEF Released
  <1>2. UNCHANGED tradeVars
    BY <1>1 DEF Reset, Unregister, TradeFields, tradeVars
  <1> QED
    BY <1>2 DEF TradeFields, RegistryExact, tradeVars

\* So does the end of an exchange, for the two traders and whoever they disturbed.
LEMMA EndExchangeKeeps ==
  ASSUME TradeFields, PartnersAgree, RegistryExact, NEW p \in Players,
         AcceptSecond(p), NEW others \in SUBSET Players,
         EndExchange(p, tradePartner[p], others), online' = online
  PROVE  TradeFields' /\ PartnersAgree' /\ RegistryExact'
  <1> DEFINE q == tradePartner[p]
             rest == others \ {p, q}
             ps == {p, q} \cup Closed(rest)
  <1>1. q \in Players /\ q # NoPlayer /\ tradePartner[q] = p
    BY DEF AcceptSecond, CanAccept, TradeFields, PartnersAgree
  <1>2. rest \in SUBSET Players
    OBVIOUS
  <1>3. Closed(rest) \in SUBSET Players /\ PartnerClosed(Closed(rest))
    BY <1>2, ClosedIsClosed
  <1>4. ps \in SUBSET Players /\ PartnerClosed(ps)
    BY <1>1, <1>3 DEF PartnerClosed
  <1>5. Reset(ps)
    BY DEF EndExchange
  <1>6. online \ ps \subseteq online'
    OBVIOUS
  <1> HIDE DEF ps
  <1> QED
    BY <1>4, <1>5, <1>6, ResetKeeps

\* A player who offers nothing offers an item nobody offers: the registry gains it.
LEMMA RegisterKeeps ==
  ASSUME TradeFields, RegistryExact, NEW p \in Players, NEW i \in Items,
         i \notin DOMAIN tradeItems, tradeItem[p] = NoItem,
         tradeItem' = [tradeItem EXCEPT ![p] = i],
         tradeItems' = [t \in DOMAIN tradeItems \cup {i} |->
                          IF t = i THEN p ELSE tradeItems[t]],
         refs' = [refs EXCEPT ![i] = @ + 1]
  PROVE  /\ RegistryExact'
         /\ tradeItems' \in [DOMAIN tradeItems' -> Players]
         /\ DOMAIN tradeItems' \subseteq Items
         /\ refs' \in [Items -> Nat]
  <1>a. NoItem \notin Items
    BY TradeAssumption
  <1>1. DOMAIN tradeItems' = DOMAIN tradeItems \cup {i}
    OBVIOUS
  <1>2. tradeItems'[i] = p /\ \A t \in DOMAIN tradeItems : tradeItems'[t] = tradeItems[t]
    OBVIOUS
  <1>3. tradeItem'[p] = i /\ \A x \in Players \ {p} : tradeItem'[x] = tradeItem[x]
    BY DEF TradeFields
  <1>4. \A x \in Players : tradeItem'[x] # NoItem =>
           tradeItem'[x] \in DOMAIN tradeItems' /\ tradeItems'[tradeItem'[x]] = x
    BY <1>1, <1>2, <1>3 DEF RegistryExact
  <1>5. \A t \in DOMAIN tradeItems' : tradeItem'[tradeItems'[t]] = t
    <2>1. \A t \in DOMAIN tradeItems : tradeItems[t] \in Players \ {p}
      BY <1>a DEF RegistryExact, TradeFields
    <2> QED
      BY <2>1, <1>1, <1>2, <1>3 DEF RegistryExact
  <1>6. \A t \in Items : refs'[t] = IF t \in DOMAIN tradeItems' THEN 1 ELSE 0
    BY <1>1 DEF RegistryExact, TradeFields
  <1>7. refs' \in [Items -> Nat]
    BY DEF TradeFields
  <1>8. tradeItems' \in [DOMAIN tradeItems' -> Players] /\ DOMAIN tradeItems' \subseteq Items
    BY <1>1 DEF TradeFields
  <1> QED
    BY <1>4, <1>5, <1>6, <1>7, <1>8 DEF RegistryExact

\* Game::internalStartTrade joins two free players, or answers the offer of the one
\* who asked: in both cases the two point at each other and one offer is registered.
LEMMA RequestTradeKeeps ==
  ASSUME TradeFields, PartnersAgree, RegistryExact, World,
         NEW p \in Players, NEW q \in Players, NEW i \in Items, RequestTrade(p, q, i)
  PROVE  TradeFields' /\ PartnersAgree' /\ RegistryExact'
  <1>a. NoPlayer \notin Players /\ NoItem \notin Items
    BY TradeAssumption
  <1>b. p # q /\ p \in online /\ q \in online /\ online' = online
    BY DEF RequestTrade
  <1>c. i \notin DOMAIN tradeItems
    BY DEF RequestTrade, MayOffer
  <1>d. tradeItem[p] = NoItem
    BY DEF RequestTrade, MayStart, TradeFields
  <1>e. CASE tradeState[q] = "NONE"
    <2>1. tradePartner[q] = NoPlayer
      BY <1>e DEF TradeFields
    <2>2. tradeState[p] = "NONE" /\ tradePartner[p] = NoPlayer
      BY <2>1, <1>a DEF RequestTrade, MayStart, TradeFields, PartnersAgree
    <2>3. \A x \in Players : tradePartner[x] # p /\ tradePartner[x] # q
      BY <2>1, <2>2, <1>a DEF PartnersAgree, TradeFields
    <2>4. /\ tradePartner' = [tradePartner EXCEPT ![p] = q, ![q] = p]
          /\ tradeState' = [tradeState EXCEPT ![p] = "INITIATED", ![q] = "ACKNOWLEDGE"]
          /\ tradeItem' = [tradeItem EXCEPT ![p] = i]
      BY <1>e DEF RequestTrade
    <2>5. tradeItem[q] = NoItem
      BY <1>e DEF TradeFields
    <2>6. PartnersAgree'
      BY <2>3, <2>4, <1>a, <1>b DEF PartnersAgree, TradeFields
    <2>7. /\ tradeState' \in [Players -> States]
          /\ tradePartner' \in [Players -> Players \cup {NoPlayer}]
          /\ tradeItem' \in [Players -> Items \cup {NoItem}]
      BY <2>4 DEF TradeFields, States
    <2>8. \A x \in Players :
             /\ tradeState'[x] = "NONE" <=> tradePartner'[x] = NoPlayer
             /\ tradeState'[x] = "INITIATED" => tradeItem'[x] # NoItem
             /\ tradeState'[x] \in {"NONE", "ACKNOWLEDGE"} => tradeItem'[x] = NoItem
      BY <2>4, <2>5, <1>a, <1>b DEF TradeFields
    <2> QED
      BY <2>6, <2>7, <2>8, <1>c, <1>d, RegisterKeeps DEF TradeFields, RequestTrade
  <1>f. CASE tradeState[q] # "NONE"
    <2>1. tradePartner[q] = p /\ tradePartner[p] = q
      BY <1>f, <1>a DEF RequestTrade, MayStart, PartnersAgree
    <2>2. /\ tradePartner' = [tradePartner EXCEPT ![p] = q]
          /\ tradeState' = [tradeState EXCEPT ![p] = "INITIATED"]
          /\ tradeItem' = [tradeItem EXCEPT ![p] = i]
      BY <1>f DEF RequestTrade
    <2>3. PartnersAgree'
      BY <2>1, <2>2, <1>b DEF PartnersAgree, TradeFields
    <2>4. /\ tradeState' \in [Players -> States]
          /\ tradePartner' \in [Players -> Players \cup {NoPlayer}]
          /\ tradeItem' \in [Players -> Items \cup {NoItem}]
      BY <2>2 DEF TradeFields, States
    <2>5. \A x \in Players :
             /\ tradeState'[x] = "NONE" <=> tradePartner'[x] = NoPlayer
             /\ tradeState'[x] = "INITIATED" => tradeItem'[x] # NoItem
             /\ tradeState'[x] \in {"NONE", "ACKNOWLEDGE"} => tradeItem'[x] = NoItem
      BY <2>2, <1>a, <1>b DEF TradeFields
    <2> QED
      BY <2>3, <2>4, <2>5, <1>c, <1>d, RegisterKeeps DEF TradeFields, RequestTrade
  <1> QED
    BY <1>e, <1>f

\* Game::playerAcceptTrade, when the partner has not accepted yet.
LEMMA AcceptFirstKeeps ==
  ASSUME TradeFields, PartnersAgree, RegistryExact, NEW p \in Players, AcceptFirst(p)
  PROVE  TradeFields' /\ PartnersAgree' /\ RegistryExact'
  <1>1. TradeFields'
    BY DEF TradeFields, AcceptFirst, CanAccept, States
  <1>2. PartnersAgree' /\ RegistryExact'
    BY DEF PartnersAgree, RegistryExact, AcceptFirst
  <1> QED
    BY <1>1, <1>2

\* An item only ever goes to a player, a container or a place.
LEMMA ExchangeWorld ==
  ASSUME World, TradeFields, NEW p \in Players, Exchange(p)
  PROVE  World'
  <1> DEFINE q == tradePartner[p]
             mine == tradeItem[p]
             yours == tradeItem[q]
             Ends == Players \cup Containers \cup Places \cup {Gone}
  <1>1. q \in Players
    BY DEF Exchange, AcceptSecond, CanAccept, TradeFields
  <1>2. \A par, x, i : x \in Players => Destinations(par, x, i) \subseteq Ends
    BY DEF Destinations, Opened
  <1>3. PICK d \in Destinations(parent, q, mine) :
           LET moved == [parent EXCEPT ![mine] = d]
           IN  \/ parent' = moved
              \/ \E e \in Destinations(moved, p, yours) : parent' = [moved EXCEPT ![yours] = e]
    BY DEF Exchange
  <1>4. d \in Ends
    BY <1>1, <1>2
  <1>5. \A e \in Destinations([parent EXCEPT ![mine] = d], p, yours) : e \in Ends
    BY <1>2
  <1>6. parent' \in [Items -> Ends]
    BY <1>3, <1>4, <1>5 DEF World
  <1>7. online' = online /\ place' = place
    BY DEF Exchange
  <1> QED
    BY <1>6, <1>7 DEF World

\* Exchange and ExchangeFails end the trade of both, whatever the two moves do.
LEMMA ExchangeKeeps ==
  ASSUME World, TradeFields, PartnersAgree, RegistryExact,
         NEW p \in Players, Exchange(p) \/ ExchangeFails(p)
  PROVE  TradeFields' /\ PartnersAgree' /\ RegistryExact'
  <1>1. AcceptSecond(p) /\ online' = online
    BY DEF Exchange, ExchangeFails
  <1>2. PICK others \in SUBSET Players : EndExchange(p, tradePartner[p], others)
    <2>1. CASE ExchangeFails(p)
      BY <2>1 DEF ExchangeFails
    <2>2. CASE Exchange(p)
      <3> DEFINE q == tradePartner[p]
                 mine == tradeItem[p]
                 yours == tradeItem[q]
      <3>1. q \in Players
        BY <1>1 DEF AcceptSecond, CanAccept, TradeFields
      <3>2. mine \in Items /\ yours \in Items
        BY <2>2, <3>1 DEF Exchange, Fits, TradeFields
      <3>3. \A c : /\ RemovalTouches(mine) \cup AddingTouches(mine, c) \in SUBSET Players
                   /\ RemovalTouches(yours) \cup AddingTouches(yours, c) \in SUBSET Players
        BY <3>2, TouchedArePlayers
      <3>4. \E d, e : \/ EndExchange(p, q, RemovalTouches(mine) \cup AddingTouches(mine, d))
                      \/ EndExchange(p, q, RemovalTouches(mine) \cup AddingTouches(mine, d)
                                             \cup RemovalTouches(yours)
                                             \cup AddingTouches(yours, e))
        BY <2>2 DEF Exchange
      <3> QED
        BY <3>3, <3>4
    <2> QED
      BY <2>1, <2>2
  <1> QED
    BY <1>1, <1>2, EndExchangeKeeps

-----------------------------------------------------------------------------
(* The invariant. *)

LEMMA TradeInvInit == Init => TradeInv
  BY TradeAssumption DEF Init, TradeInv, TradeTypeOK, PartnersAgree, RegistryExact, States

LEMMA TradeInvStep == TradeInv /\ [Next]_vars => TradeInv'
  <1> SUFFICES ASSUME TradeInv, [Next]_vars PROVE TradeInv'
    OBVIOUS
  <1>a. World /\ TradeFields /\ PartnersAgree /\ RegistryExact
    BY TypesSplitHolds DEF TradeInv, TypesSplit
  <1>b. SUFFICES World' /\ TradeFields' /\ PartnersAgree' /\ RegistryExact'
    BY DEF TradeInv, TradeTypeOK, World, TradeFields
  <1>1. ASSUME NEW p \in Players, NEW q \in Players, NEW i \in Items, RequestTrade(p, q, i)
        PROVE  World' /\ TradeFields' /\ PartnersAgree' /\ RegistryExact'
    BY <1>a, <1>1, RequestTradeKeeps DEF World, RequestTrade
  <1>2. ASSUME NEW p \in Players, AcceptFirst(p)
        PROVE  World' /\ TradeFields' /\ PartnersAgree' /\ RegistryExact'
    BY <1>a, <1>2, AcceptFirstKeeps DEF World, AcceptFirst
  <1>3. ASSUME NEW p \in Players, AcceptRefused(p) \/ CloseTrade(p)
        PROVE  World' /\ TradeFields' /\ PartnersAgree' /\ RegistryExact'
    <2>1. World' /\ CloseTrades({p}) /\ online' = online
      BY <1>a, <1>3 DEF World, AcceptRefused, CloseTrade
    <2> QED
      BY <1>a, <2>1, CloseTradesKeeps
  <1>4. ASSUME NEW p \in Players, Exchange(p)
        PROVE  World' /\ TradeFields' /\ PartnersAgree' /\ RegistryExact'
    BY <1>a, <1>4, ExchangeKeeps, ExchangeWorld
  <1>5. ASSUME NEW p \in Players, ExchangeFails(p)
        PROVE  World' /\ TradeFields' /\ PartnersAgree' /\ RegistryExact'
    BY <1>a, <1>5, ExchangeKeeps DEF World, ExchangeFails
  <1>6. ASSUME NEW p \in Players, NEW i \in Items, NEW c \in Players \cup Items \cup Places,
               MoveItem(p, i, c)
        PROVE  World' /\ TradeFields' /\ PartnersAgree' /\ RegistryExact'
    <2>1. RemovalTouches(i) \cup AddingTouches(i, c) \in SUBSET Players
      BY <1>a, TouchedArePlayers
    <2>2. World' /\ online' = online
      BY <1>a, <1>6 DEF World, MoveItem
    <2> QED
      BY <1>a, <1>6, <2>1, <2>2, CloseTradesKeeps DEF MoveItem
  <1>7. ASSUME NEW i \in Items, RemoveItem(i)
        PROVE  World' /\ TradeFields' /\ PartnersAgree' /\ RegistryExact'
    <2>1. RemovalTouches(i) \in SUBSET Players
      BY <1>a, TouchedArePlayers
    <2>2. World' /\ online' = online
      BY <1>a, <1>7 DEF World, RemoveItem
    <2> QED
      BY <1>a, <1>7, <2>1, <2>2, CloseTradesKeeps DEF RemoveItem
  <1>8. ASSUME NEW i \in Items, UpdateItem(i)
        PROVE  World' /\ TradeFields' /\ PartnersAgree' /\ RegistryExact'
    <2> DEFINE ps == {p \in HearersOfRemoval(i) : TouchedByUpdate(p, i)}
    <2>1. ps \in SUBSET Players
      BY <1>a DEF World, HearersOfRemoval, Near
    <2>2. World' /\ online' = online
      BY <1>a, <1>8 DEF World, UpdateItem
    <2>3. CloseTrades(ps)
      BY <1>8 DEF UpdateItem
    <2> HIDE DEF ps
    <2> QED
      BY <1>a, <2>1, <2>2, <2>3, CloseTradesKeeps
  <1>9. ASSUME NEW p \in Players, NEW w \in Places, Walk(p, w)
        PROVE  World' /\ TradeFields' /\ PartnersAgree' /\ RegistryExact'
    <2> DEFINE ps == {p} \cap {x \in Players : LeftBehind(x, w)}
    <2>1. ps \in SUBSET Players
      OBVIOUS
    <2>2. World' /\ online' = online
      BY <1>a, <1>9 DEF World, Walk
    <2>3. CloseTrades(ps)
      BY <1>9 DEF Walk
    <2> HIDE DEF ps
    <2> QED
      BY <1>a, <2>1, <2>2, <2>3, CloseTradesKeeps
  <1>10. ASSUME NEW p \in Players, Logout(p)
         PROVE  World' /\ TradeFields' /\ PartnersAgree' /\ RegistryExact'
    <2>1. World' /\ online' = online \ {p}
      BY <1>a, <1>10 DEF World, Logout
    <2>2. CASE tradePartner[p] # NoPlayer
      <3>1. CloseTrades({p})
        <4>1. {p} \cap {x \in Players : tradePartner[x] # NoPlayer} = {p}
          BY <2>2
        <4> QED
          BY <1>10, <4>1 DEF Logout
      <3>2. {p} \subseteq Closed({p})
        BY <1>a, ClosedIsClosed
      <3> QED
        BY <1>a, <2>1, <3>1, <3>2, CloseTradesKeeps
    <2>3. CASE tradePartner[p] = NoPlayer
      \* Nobody has p for a partner, so he may leave the game without more.
      <3>1. {p} \cap {x \in Players : tradePartner[x] # NoPlayer} = {}
        BY <2>3
      <3>2. Reset({})
        BY <1>10, <3>1 DEF Logout, CloseTrades, Closed
      <3>3. tradePartner' = tradePartner
        BY <1>a, <3>2 DEF Reset, TradeFields
      <3> DEFINE part == \A x \in Players : tradePartner[x] # NoPlayer => x \in online'
      <3>4. part
        BY <1>a, <2>1, <2>3 DEF PartnersAgree
      <3>5. TradeFields' /\ RegistryExact'
        BY <1>a, <3>2, EndNothing
      <3>6. PartnersAgree'
        BY <1>a, <3>3, <3>4 DEF PartnersAgree
      <3> QED
        BY <2>1, <3>5, <3>6
    <2> QED
      BY <2>2, <2>3
  <1>11. ASSUME NEW p \in Players, Login(p)
         PROVE  World' /\ TradeFields' /\ PartnersAgree' /\ RegistryExact'
    <2>1. World'
      BY <1>a, <1>11 DEF World, Login
    <2>2. tradePartner[p] = NoPlayer
      BY <1>a, <1>11 DEF PartnersAgree, Login
    <2>3. tradeState[p] = "NONE" /\ tradeItem[p] = NoItem
      BY <1>a, <2>2 DEF TradeFields
    <2>4. UNCHANGED tradeVars
      BY <1>a, <1>11, <2>2, <2>3 DEF Login, TradeFields, tradeVars
    <2>5. TradeFields' /\ RegistryExact'
      BY <1>a, <2>4 DEF TradeFields, RegistryExact, tradeVars
    <2>6. PartnersAgree'
      BY <1>a, <1>11, <2>4 DEF PartnersAgree, Login, tradeVars
    <2> QED
      BY <2>1, <2>5, <2>6
  <1>12. CASE UNCHANGED vars
    BY <1>a, <1>12 DEF vars, tradeVars, World, TradeFields, PartnersAgree, RegistryExact
  <1> QED
    BY <1>1, <1>2, <1>3, <1>4, <1>5, <1>6, <1>7, <1>8, <1>9, <1>10, <1>11, <1>12
       DEF Next, Trading, Living

\* Types: in every reachable state the fields of a player fit together.
THEOREM TradeTypes == Spec => []TradeTypeOK
  <1>1. TradeInv => TradeTypeOK
    BY DEF TradeInv
  <1> QED
    BY <1>1, TradeInvInit, TradeInvStep, PTL DEF Spec

\* A partner is always in the game and trades back: no Player keeps a pointer to one
\* that is gone, for any number of players.
THEOREM PartnersAlwaysAgree == Spec => []PartnersAgree
  <1>1. TradeInv => PartnersAgree
    BY DEF TradeInv
  <1> QED
    BY <1>1, TradeInvInit, TradeInvStep, PTL DEF Spec

\* Game::tradeItems is exactly the set of offers, and each of them holds one reference,
\* however many trades are made, cancelled or completed.
THEOREM RegistryAlwaysExact == Spec => []RegistryExact
  <1>1. TradeInv => RegistryExact
    BY DEF TradeInv
  <1> QED
    BY <1>1, TradeInvInit, TradeInvStep, PTL DEF Spec

-----------------------------------------------------------------------------
(* What lies in what. par and new are any functions that say where items are. *)

\* Item::parent of every item: a player, a container, a place or Gone.
Parents == [Items -> Players \cup Containers \cup Places \cup {Gone}]

\* new differs from par in where i is.
Moved(par, new, i, d) ==
    /\ par \in Parents /\ new \in Parents
    /\ new[i] = d
    /\ \A x \in Items \ {i} : new[x] = par[x]

\* An item is not put into itself or into what it holds.
Outside(par, i, d) == d \in Items => d # i /\ i \notin AncestorsIn(par, d)

\* No item lies in itself.
Acyclic(par) == \A i \in Items : i \notin AncestorsIn(par, i)

LEMMA AncestorsClosed ==
  ASSUME NEW par, NEW i
  PROVE  AncestorsIn(par, i) \subseteq Items /\ ClosedUp(par, i, AncestorsIn(par, i))
  <1>1. AncestorsIn(par, i) \subseteq Items
    BY DEF AncestorsIn
  <1>2. ASSUME NEW x \in {i} \cup AncestorsIn(par, i), par[x] \in Items,
               NEW s \in SUBSET Items, ClosedUp(par, i, s)
        PROVE  par[x] \in s
    <2>1. x = i \/ x \in s
      BY <1>2 DEF AncestorsIn
    <2> QED
      BY <1>2, <2>1 DEF ClosedUp
  <1> QED
    BY <1>1, <1>2 DEF AncestorsIn, ClosedUp

LEMMA AncestorsLeast ==
  ASSUME NEW par, NEW i, NEW s \in SUBSET Items, ClosedUp(par, i, s)
  PROVE  AncestorsIn(par, i) \subseteq s
  BY DEF AncestorsIn

\* What holds the holder of an item holds the item.
LEMMA AncestorsTransitive ==
  ASSUME NEW par, NEW x, NEW y \in AncestorsIn(par, x)
  PROVE  AncestorsIn(par, y) \subseteq AncestorsIn(par, x)
  <1>1. ClosedUp(par, x, AncestorsIn(par, x)) /\ AncestorsIn(par, x) \in SUBSET Items
    BY AncestorsClosed
  <1>2. ClosedUp(par, y, AncestorsIn(par, x))
    BY <1>1 DEF ClosedUp
  <1> QED
    BY <1>1, <1>2, AncestorsLeast

\* The walk up one parent at a time: what holds an item is its parent and what holds that.
LEMMA AncestorsStep ==
  ASSUME NEW par, NEW i
  PROVE  /\ par[i] \in Items => AncestorsIn(par, i) = {par[i]} \cup AncestorsIn(par, par[i])
         /\ par[i] \notin Items => AncestorsIn(par, i) = {}
  <1>1. ASSUME par[i] \in Items
        PROVE  AncestorsIn(par, i) = {par[i]} \cup AncestorsIn(par, par[i])
    <2> DEFINE up == AncestorsIn(par, par[i])
               s == {par[i]} \cup up
    <2>1. up \subseteq Items /\ ClosedUp(par, par[i], up)
      BY AncestorsClosed
    <2>2. ClosedUp(par, i, s)
      BY <2>1 DEF ClosedUp
    <2>3. AncestorsIn(par, i) \subseteq s
      BY <1>1, <2>1, <2>2, AncestorsLeast
    <2>4. par[i] \in AncestorsIn(par, i)
      BY <1>1, AncestorsClosed DEF ClosedUp
    <2>5. up \subseteq AncestorsIn(par, i)
      BY <2>4, AncestorsTransitive
    <2> QED
      BY <2>3, <2>4, <2>5
  <1>2. ASSUME par[i] \notin Items PROVE AncestorsIn(par, i) = {}
    <2>1. ClosedUp(par, i, {})
      BY <1>2 DEF ClosedUp
    <2> QED
      BY <2>1, AncestorsLeast
  <1> QED
    BY <1>1, <1>2

\* Item::getTopParent, one parent at a time.
LEMMA RootStep ==
  ASSUME NEW par, NEW i
  PROVE  /\ par[i] \in Items => RootIn(par, i) = RootIn(par, par[i])
         /\ par[i] \notin Items => RootIn(par, i) = par[i]
  <1>1. ASSUME par[i] \in Items PROVE RootsIn(par, i) = RootsIn(par, par[i])
    <2>1. AncestorsIn(par, i) = {par[i]} \cup AncestorsIn(par, par[i])
      BY <1>1, AncestorsStep
    <2> QED
      BY <1>1, <2>1 DEF RootsIn
  <1>2. ASSUME par[i] \notin Items PROVE RootsIn(par, i) = {par[i]}
    <2>1. AncestorsIn(par, i) = {}
      BY <1>2, AncestorsStep
    <2> QED
      BY <1>2, <2>1 DEF RootsIn
  <1> QED
    BY <1>1, <1>2 DEF RootIn

\* An item and what it lies in have the same root.
LEMMA RootOfHolder ==
  ASSUME NEW par, NEW i, NEW c \in AncestorsIn(par, i)
  PROVE  RootIn(par, c) = RootIn(par, i)
  <1> DEFINE s == {x \in AncestorsIn(par, i) : RootIn(par, x) = RootIn(par, i)}
  <1>1. AncestorsIn(par, i) \subseteq Items /\ ClosedUp(par, i, AncestorsIn(par, i))
    BY AncestorsClosed
  <1>2. \A x \in {i} \cup s : par[x] \in Items => par[x] \in s
    BY <1>1, RootStep DEF ClosedUp
  <1>3. ClosedUp(par, i, s)
    BY <1>2 DEF ClosedUp
  <1> QED
    BY <1>1, <1>3, AncestorsLeast

\* Where nothing on the way up has moved, nothing changes.
LEMMA SamePath ==
  ASSUME NEW par, NEW new, NEW i,
         \A x \in {i} \cup AncestorsIn(par, i) : new[x] = par[x]
  PROVE  /\ AncestorsIn(new, i) = AncestorsIn(par, i)
         /\ RootIn(new, i) = RootIn(par, i)
  <1>1. AncestorsIn(par, i) \subseteq Items /\ ClosedUp(par, i, AncestorsIn(par, i))
    BY AncestorsClosed
  <1>2. AncestorsIn(new, i) \subseteq Items /\ ClosedUp(new, i, AncestorsIn(new, i))
    BY AncestorsClosed
  <1>3. ClosedUp(new, i, AncestorsIn(par, i))
    BY <1>1 DEF ClosedUp
  <1>4. AncestorsIn(new, i) \subseteq AncestorsIn(par, i)
    BY <1>1, <1>3, AncestorsLeast
  <1>5. ClosedUp(par, i, AncestorsIn(new, i))
    BY <1>2, <1>4 DEF ClosedUp
  <1>6. AncestorsIn(new, i) = AncestorsIn(par, i)
    BY <1>2, <1>4, <1>5, AncestorsLeast
  <1>7. RootsIn(new, i) = RootsIn(par, i)
    BY <1>6 DEF RootsIn
  <1> QED
    BY <1>6, <1>7 DEF RootIn

\* In particular for an item that is not, and does not lie in, the one that moved.
LEMMA Undisturbed ==
  ASSUME NEW par, NEW new, NEW i, NEW d, Moved(par, new, i, d),
         NEW x \in Items, x # i, i \notin AncestorsIn(par, x)
  PROVE  AncestorsIn(new, x) = AncestorsIn(par, x) /\ RootIn(new, x) = RootIn(par, x)
  <1>1. AncestorsIn(par, x) \subseteq Items
    BY AncestorsClosed
  <1>2. \A y \in {x} \cup AncestorsIn(par, x) : new[y] = par[y]
    BY <1>1 DEF Moved
  <1> QED
    BY <1>2, SamePath

\* Where the item that moved is now.
LEMMA MovedItem ==
  ASSUME NEW par, NEW new, NEW i \in Items, NEW d, Moved(par, new, i, d), Outside(par, i, d)
  PROVE  /\ d \in Items => /\ AncestorsIn(new, i) = {d} \cup AncestorsIn(par, d)
                           /\ RootIn(new, i) = RootIn(par, d)
         /\ d \notin Items => AncestorsIn(new, i) = {} /\ RootIn(new, i) = d
  <1>1. new[i] = d
    BY DEF Moved
  <1>2. ASSUME d \in Items
        PROVE  AncestorsIn(new, d) = AncestorsIn(par, d) /\ RootIn(new, d) = RootIn(par, d)
    BY <1>2, Undisturbed DEF Outside
  <1> QED
    BY <1>1, <1>2, AncestorsStep, RootStep

\* Whatever holds an item after a move held it before, or holds the item that moved.
LEMMA PathThroughMoved ==
  ASSUME NEW par, NEW new, NEW i, NEW d, Moved(par, new, i, d), NEW x \in Items
  PROVE  AncestorsIn(new, x) \subseteq AncestorsIn(par, x) \cup AncestorsIn(new, i)
  <1> DEFINE s == AncestorsIn(par, x) \cup AncestorsIn(new, i)
  <1>1. /\ AncestorsIn(par, x) \subseteq Items /\ ClosedUp(par, x, AncestorsIn(par, x))
        /\ AncestorsIn(new, i) \subseteq Items /\ ClosedUp(new, i, AncestorsIn(new, i))
    BY AncestorsClosed
  <1>2. \A y \in {x} \cup s : new[y] \in Items => new[y] \in s
    <2> SUFFICES ASSUME NEW y \in {x} \cup s, new[y] \in Items PROVE new[y] \in s
      OBVIOUS
    <2>1. CASE y = i \/ y \in AncestorsIn(new, i)
      BY <1>1, <2>1 DEF ClosedUp
    <2>2. CASE y # i /\ y \in {x} \cup AncestorsIn(par, x)
      BY <1>1, <2>2 DEF ClosedUp, Moved
    <2> QED
      BY <2>1, <2>2
  <1>3. ClosedUp(new, x, s) /\ s \in SUBSET Items
    BY <1>1, <1>2 DEF ClosedUp
  <1> HIDE DEF s
  <1>4. AncestorsIn(new, x) \subseteq s
    BY <1>3, AncestorsLeast
  <1> QED
    BY <1>4 DEF s

\* A move to a place outside what the item holds closes no circle.
LEMMA MoveKeepsAcyclic ==
  ASSUME NEW par, NEW new, NEW i \in Items, NEW d, Moved(par, new, i, d), Outside(par, i, d),
         Acyclic(par)
  PROVE  Acyclic(new)
  <1> SUFFICES ASSUME NEW x \in Items, x \in AncestorsIn(new, x) PROVE FALSE
    BY DEF Acyclic
  <1>1. x \notin AncestorsIn(par, x)
    BY DEF Acyclic
  <1>2. x = i \/ i \in AncestorsIn(par, x)
    BY <1>1, Undisturbed
  <1> DEFINE over == IF d \in Items THEN {d} \cup AncestorsIn(par, d) ELSE {}
             s == AncestorsIn(par, x) \cup over
  <1>3. /\ AncestorsIn(par, x) \subseteq Items /\ ClosedUp(par, x, AncestorsIn(par, x))
        /\ AncestorsIn(par, d) \subseteq Items /\ ClosedUp(par, d, AncestorsIn(par, d))
    BY AncestorsClosed
  <1>4. i \notin over
    BY DEF Outside
  <1>5. \A y \in {x} \cup s : new[y] \in Items => new[y] \in s
    <2> SUFFICES ASSUME NEW y \in {x} \cup s, new[y] \in Items PROVE new[y] \in s
      OBVIOUS
    <2>1. CASE y = i
      BY <2>1 DEF Moved
    <2>2. CASE y # i
      <3>1. new[y] = par[y]
        BY <2>2, <1>3 DEF Moved
      <3> QED
        BY <1>3, <3>1 DEF ClosedUp
    <2> QED
      BY <2>1, <2>2
  <1>6. AncestorsIn(new, x) \subseteq s
    <2>1. ClosedUp(new, x, s)
      BY <1>5 DEF ClosedUp
    <2>2. s \in SUBSET Items
      BY <1>3
    <2> HIDE DEF s
    <2> QED
      BY <2>1, <2>2, AncestorsLeast
  <1>7. x \in over
    BY <1>1, <1>6
  <1>8. i \notin AncestorsIn(par, x)
    BY <1>4, <1>7, AncestorsTransitive
  <1> QED
    BY <1>2, <1>4, <1>7, <1>8

-----------------------------------------------------------------------------
(* Offers and where they lie. *)

\* No container holds more than fits into it.
Occupied(par) == \A c \in Containers : Cardinality(Content(par, c)) <= Capacity

PlacesInv ==
    /\ Acyclic(parent)
    /\ Occupied(parent)
    /\ OffersDisjoint
    /\ OffersInReach

\* Whoever offers something is in the game and trades with another player.
LEMMA OfferMade ==
  ASSUME TradeInv, NEW p \in Players, tradeItem[p] # NoItem
  PROVE  /\ tradeItem[p] \in Items /\ tradeItem[p] \in DOMAIN tradeItems
         /\ p \in online
         /\ tradePartner[p] \in Players /\ tradePartner[p] # NoPlayer
  <1>1. tradeState[p] # "NONE"
    BY DEF TradeInv, TradeTypeOK
  <1>2. tradePartner[p] # NoPlayer
    BY <1>1 DEF TradeInv, TradeTypeOK
  <1> QED
    BY <1>2 DEF TradeInv, TradeTypeOK, PartnersAgree, RegistryExact

\* Whoever offers an item is near the end of what it lies in.
LEMMA OfferNear ==
  ASSUME TradeInv, OffersInReach, NEW p \in Players, tradeItem[p] # NoItem
  PROVE  p \in Near(Root(tradeItem[p]))
  <1>1. p \in online /\ Root(tradeItem[p]) \in {p, place[p]}
    BY OfferMade DEF OffersInReach
  <1>2. place[p] \in Places /\ place[p] \notin Players
    BY TradeAssumption DEF TradeInv, TradeTypeOK
  <1> QED
    BY <1>1, <1>2 DEF Near, PlaceOfRoot

\* The hooks of a player hear of, and ask about, every item that is his offer, lies in
\* it, or holds it, when it is taken from where it is.
LEMMA OfferTouched ==
  ASSUME TradeInv, PlacesInv, NEW p \in Players, tradeItem[p] # NoItem, NEW i \in Items,
         \/ i = tradeItem[p]
         \/ i \in Ancestors(tradeItem[p])
         \/ tradeItem[p] \in Ancestors(i)
  PROVE  p \in RemovalTouches(i)
  <1> DEFINE offer == tradeItem[p]
  <1>1. Root(i) = Root(offer)
    BY RootOfHolder DEF Root, Ancestors
  <1>2. p \in HearersOfRemoval(i)
    <2>1. CASE parent[i] \in Players
      <3>1. Root(i) = parent[i]
        BY <2>1, RootStep, TradeAssumption DEF Root
      <3>2. place[p] \notin Players
        BY TradeAssumption DEF TradeInv, TradeTypeOK
      <3>3. Root(offer) \in {p, place[p]}
        BY DEF PlacesInv, OffersInReach
      <3>4. p = parent[i]
        BY <1>1, <2>1, <3>1, <3>2, <3>3
      <3> QED
        BY <2>1, <3>4 DEF HearersOfRemoval
    <2>2. CASE parent[i] \notin Players
      BY <1>1, <2>2, OfferNear DEF HearersOfRemoval, PlacesInv
    <2> QED
      BY <2>1, <2>2
  <1>3. TouchedByRemoval(p, i)
    <2>1. CASE i = offer \/ offer \in Ancestors(i)
      BY <2>1 DEF TouchedByRemoval, Holds
    <2>2. CASE i \in Ancestors(offer) /\ parent[i] \notin Items
      BY <2>2 DEF TouchedByRemoval, Holds
    <2>3. CASE i \in Ancestors(offer) /\ parent[i] \in Items
      <3>1. Ancestors(i) = {parent[i]} \cup Ancestors(parent[i])
        BY <2>3, AncestorsStep DEF Ancestors
      <3>2. parent[i] \in Ancestors(offer)
        BY <2>3, <3>1, AncestorsTransitive DEF Ancestors
      <3>3. i \notin Ancestors(i)
        BY DEF PlacesInv, Acyclic, Ancestors
      <3>4. parent[offer] # parent[i]
        <4> SUFFICES ASSUME parent[offer] = parent[i] PROVE FALSE
          OBVIOUS
        <4>1. Ancestors(offer) = {parent[i]} \cup Ancestors(parent[i])
          BY <2>3, AncestorsStep DEF Ancestors
        <4> QED
          BY <2>3, <3>1, <3>3, <4>1
      <3> QED
        BY <2>3, <3>2, <3>4 DEF TouchedByRemoval, Holds
    <2> QED
      BY <2>1, <2>2, <2>3
  <1> QED
    BY <1>2, <1>3 DEF RemovalTouches

\* They hear of what is put into the offer, or into what lies in it, too.
LEMMA OfferTouchedByAdding ==
  ASSUME TradeInv, PlacesInv, NEW p \in Players, tradeItem[p] # NoItem, NEW i \in Items,
         NEW c \in Items, c = tradeItem[p] \/ tradeItem[p] \in Ancestors(c)
  PROVE  p \in AddingTouches(i, c)
  <1>1. Root(c) = Root(tradeItem[p])
    BY RootOfHolder DEF Root, Ancestors
  <1>2. p \in Near(Root(c))
    BY <1>1, OfferNear DEF PlacesInv
  <1>3. TouchedByAdding(p, i, c)
    BY DEF TouchedByAdding, Holds
  <1> QED
    BY <1>2, <1>3 DEF AddingTouches

\* What an offer that still stands lies in has not changed.
OfferKept(p) ==
    tradeItem'[p] # NoItem =>
        /\ tradeItem'[p] = tradeItem[p]
        /\ AncestorsIn(parent', tradeItem[p]) = Ancestors(tradeItem[p])
        /\ RootIn(parent', tradeItem[p]) = Root(tradeItem[p])

PartnerKept(p) == tradePartner'[p] \in {NoPlayer, tradePartner[p]}

\* Offers that stay where they are stay apart.
LEMMA KeptOffersDisjoint ==
  ASSUME TradeInv, TradeInv', OffersDisjoint, \A p \in Players : OfferKept(p)
  PROVE  OffersDisjoint'
  <1> SUFFICES ASSUME NEW i \in DOMAIN tradeItems', NEW j \in DOMAIN tradeItems'
               PROVE  i \notin AncestorsIn(parent', j)
    BY DEF OffersDisjoint, Holds, Ancestors
  <1>1. \A k \in DOMAIN tradeItems' :
           /\ k \in DOMAIN tradeItems
           /\ AncestorsIn(parent', k) = Ancestors(k)
    <2> SUFFICES ASSUME NEW k \in DOMAIN tradeItems'
                 PROVE  k \in DOMAIN tradeItems /\ AncestorsIn(parent', k) = Ancestors(k)
      OBVIOUS
    <2>1. PICK p \in Players : tradeItem'[p] = k
      BY DEF TradeInv, TradeTypeOK, RegistryExact
    <2>2. k # NoItem
      BY TradeAssumption DEF TradeInv, TradeTypeOK
    <2>3. tradeItem[p] = k /\ AncestorsIn(parent', k) = Ancestors(k)
      BY <2>1, <2>2 DEF OfferKept
    <2> QED
      BY <2>2, <2>3, OfferMade
  <1> QED
    BY <1>1 DEF OffersDisjoint, Holds

LEMMA KeptOffersInReach ==
  ASSUME TradeInv, TradeInv', OffersInReach, place' = place,
         \A p \in Players : OfferKept(p) /\ PartnerKept(p)
  PROVE  OffersInReach'
  BY DEF OffersInReach, OfferKept, PartnerKept, Root

\* However trades end: whoever still offers something had his trade left alone.
TradesEnd(ps) ==
    \A p \in Players :
        /\ PartnerKept(p)
        /\ tradeItem'[p] # NoItem => p \notin ps /\ tradeItem'[p] = tradeItem[p]

LEMMA ResetEnds ==
  ASSUME NEW ps \in SUBSET Players, Reset(ps), NEW qs \in SUBSET ps
  PROVE  TradesEnd(qs)
  BY DEF Reset, TradesEnd, PartnerKept

LEMMA CloseTradesEnds ==
  ASSUME TradeInv, NEW ps \in SUBSET Players, CloseTrades(ps)
  PROVE  TradesEnd(ps)
  <1>1. Closed(ps) \in SUBSET Players /\ ps \subseteq Closed(ps)
    BY ClosedIsClosed, TypesSplitHolds DEF TradeInv, TypesSplit
  <1> QED
    BY <1>1, ResetEnds DEF CloseTrades

LEMMA EndExchangeEnds ==
  ASSUME TradeInv, NEW p \in Players, NEW q \in Players, NEW others \in SUBSET Players,
         EndExchange(p, q, others)
  PROVE  TradesEnd({p, q} \cup others)
  <1> DEFINE rest == others \ {p, q}
             ps == {p, q} \cup Closed(rest)
  <1>1. Closed(rest) \in SUBSET Players /\ rest \subseteq Closed(rest)
    BY ClosedIsClosed, TypesSplitHolds DEF TradeInv, TypesSplit
  <1>2. ps \in SUBSET Players /\ {p, q} \cup others \in SUBSET ps
    BY <1>1
  <1>3. Reset(ps)
    BY DEF EndExchange
  <1> HIDE DEF ps
  <1> QED
    BY <1>2, <1>3, ResetEnds

\* A full container takes nothing, and a move fills no other.
LEMMA MoveKeepsOccupied ==
  ASSUME NEW par, NEW new, NEW i \in Items, NEW d, Moved(par, new, i, d),
         d \in Containers => Room(par, d), Occupied(par)
  PROVE  Occupied(new)
  <1> SUFFICES ASSUME NEW c \in Containers PROVE Cardinality(Content(new, c)) <= Capacity
    BY DEF Occupied
  <1>1. /\ IsFiniteSet(Content(par, c)) /\ IsFiniteSet(Content(new, c))
        /\ Cardinality(Content(par, c)) \in Nat /\ Cardinality(Content(new, c)) \in Nat
    <2>1. Content(par, c) \subseteq Items /\ Content(new, c) \subseteq Items
      BY DEF Content
    <2> QED
      BY <2>1, TradeAssumption, FS_Subset, FS_CardinalityType
  <1>2. CASE d # c
    <2>1. Content(new, c) \subseteq Content(par, c)
      BY <1>2 DEF Content, Moved
    <2>2. Cardinality(Content(new, c)) <= Cardinality(Content(par, c))
      BY <1>1, <2>1, FS_Subset
    <2>3. Cardinality(Content(par, c)) <= Capacity
      BY DEF Occupied
    <2> QED
      BY <1>1, <2>2, <2>3, TradeAssumption
  <1>3. CASE d = c
    <2>1. Content(new, c) \subseteq Content(par, c) \cup {i}
      BY <1>3 DEF Content, Moved
    <2>2. /\ IsFiniteSet(Content(par, c) \cup {i})
          /\ Cardinality(Content(par, c) \cup {i}) \in Nat
          /\ Cardinality(Content(par, c) \cup {i}) <= Cardinality(Content(par, c)) + 1
      <3>1. /\ IsFiniteSet(Content(par, c) \cup {i})
            /\ Cardinality(Content(par, c) \cup {i})
                 = Cardinality(Content(par, c)) + (IF i \in Content(par, c) THEN 0 ELSE 1)
        BY <1>1, FS_AddElement
      <3> QED
        BY <1>1, <3>1
    <2>3. Cardinality(Content(new, c)) <= Cardinality(Content(par, c) \cup {i})
      BY <2>1, <2>2, FS_Subset
    <2>4. Cardinality(Content(par, c)) < Capacity
      <3>1. d \notin Players
        BY <1>3, TradeAssumption
      <3> QED
        BY <1>3, <3>1 DEF Room
    <2> QED
      BY <1>1, <2>2, <2>3, <2>4, TradeAssumption
  <1> QED
    BY <1>2, <1>3

\* What one move does: the offers that stand stay where they are, hold what they held,
\* and the containers stay a forest of bounded containers.
LEMMA MoveKeepsOffers ==
  ASSUME TradeInv, PlacesInv, NEW i \in Items, NEW d, Moved(parent, parent', i, d),
         NEW ps, RemovalTouches(i) \subseteq ps, TradesEnd(ps)
  PROVE  \A p \in Players : OfferKept(p) /\ PartnerKept(p)
  <1> SUFFICES ASSUME NEW p \in Players, tradeItem'[p] # NoItem PROVE OfferKept(p)
    BY DEF TradesEnd, OfferKept
  <1>1. p \notin RemovalTouches(i) /\ tradeItem'[p] = tradeItem[p]
    BY DEF TradesEnd
  <1>2. tradeItem[p] \in Items
    BY <1>1, OfferMade
  <1>3. i # tradeItem[p] /\ i \notin AncestorsIn(parent, tradeItem[p])
    BY <1>1, OfferTouched DEF Ancestors
  <1> QED
    BY <1>1, <1>2, <1>3, Undisturbed DEF OfferKept, Ancestors, Root

\* The offers that stand hold what they held: the body of OfferUnchanged.
OffersAsShown ==
    \A p \in Players :
        tradeItem[p] # NoItem /\ tradeItem'[p] = tradeItem[p] =>
            \A i \in Items : i = tradeItem[p] \/ Holds(tradeItem[p], i)
                               \/ tradeItem[p] \in AncestorsIn(parent', i)
                => parent'[i] = parent[i]

LEMMA MoveKeepsContents ==
  ASSUME TradeInv, PlacesInv, NEW i \in Items, NEW d, Moved(parent, parent', i, d),
         Outside(parent, i, d),
         NEW ps, RemovalTouches(i) \cup AddingTouches(i, d) \subseteq ps, TradesEnd(ps)
  PROVE  OffersAsShown
  <1> SUFFICES ASSUME NEW p \in Players, tradeItem[p] # NoItem, tradeItem'[p] = tradeItem[p],
                      NEW x \in Items, parent'[x] # parent[x],
                      \/ x = tradeItem[p]
                      \/ tradeItem[p] \in Ancestors(x)
                      \/ tradeItem[p] \in AncestorsIn(parent', x)
               PROVE  FALSE
    BY DEF OffersAsShown, Holds
  <1>1. x = i
    BY DEF Moved
  <1>2. p \notin RemovalTouches(i) /\ p \notin AddingTouches(i, d)
    BY DEF TradesEnd
  <1>3. tradeItem[p] \in AncestorsIn(parent', i)
    BY <1>1, <1>2, OfferTouched
  <1>4. d \in Items /\ tradeItem[p] \in {d} \cup AncestorsIn(parent, d)
    BY <1>3, MovedItem
  <1> QED
    BY <1>2, <1>4, OfferTouchedByAdding DEF Ancestors

\* A new offer is compared with all that stand, and lies where both traders are.
LEMMA RequestTradePlaces ==
  ASSUME TradeInv, TradeInv', PlacesInv,
         NEW p \in Players, NEW q \in Players, NEW i \in Items, RequestTrade(p, q, i)
  PROVE  PlacesInv'
  <1>1. place' = place /\ parent' = parent /\ p # q /\ place[q] = place[p]
    BY DEF RequestTrade
  <1>2. Acyclic(parent') /\ Occupied(parent')
    BY <1>1 DEF PlacesInv
  <1>3. OffersDisjoint'
    <2>1. DOMAIN tradeItems' = DOMAIN tradeItems \cup {i}
      BY DEF RequestTrade
    <2>2. \A t \in DOMAIN tradeItems : i \notin Ancestors(t) /\ t \notin Ancestors(i)
      BY DEF RequestTrade, MayOffer, Holds
    <2>3. i \notin Ancestors(i)
      BY DEF PlacesInv, Acyclic, Ancestors
    <2> QED
      BY <1>1, <2>1, <2>2, <2>3 DEF PlacesInv, OffersDisjoint, Holds, Ancestors
  <1>4. OffersInReach'
    <2> SUFFICES ASSUME NEW x \in Players
                 PROVE  /\ tradeItem'[x] # NoItem => RootIn(parent', tradeItem'[x]) \in {x, place'[x]}
                        /\ tradePartner'[x] # NoPlayer => place'[tradePartner'[x]] = place'[x]
      BY DEF OffersInReach, Root
    <2>1. Root(i) \in {p, place[p]}
      BY DEF RequestTrade, MayOffer
    <2>2. tradeItem'[x] = IF x = p THEN i ELSE tradeItem[x]
      BY DEF RequestTrade, TradeInv, TradeTypeOK
    <2>3. /\ tradePartner'[x] = IF x = p THEN q ELSE IF x = q THEN p ELSE tradePartner[x]
      <3>1. CASE tradeState[q] = "NONE"
        BY <1>1, <3>1 DEF RequestTrade, TradeInv, TradeTypeOK
      <3>2. CASE tradeState[q] # "NONE"
        <4>1. tradePartner[q] = p
          BY <3>2 DEF RequestTrade, MayStart
        <4> QED
          BY <1>1, <3>2, <4>1 DEF RequestTrade, TradeInv, TradeTypeOK
      <3> QED
        BY <3>1, <3>2
    <2> QED
      BY <1>1, <2>1, <2>2, <2>3 DEF PlacesInv, OffersInReach, Root
  <1> QED
    BY <1>2, <1>3, <1>4 DEF PlacesInv

\* Steps that move nobody and nothing and make no new offer.
LEMMA NothingMoved ==
  ASSUME TradeInv, TradeInv', PlacesInv, place' = place, parent' = parent, NEW ps, TradesEnd(ps)
  PROVE  PlacesInv'
  <1>1. \A p \in Players : OfferKept(p) /\ PartnerKept(p)
    BY DEF TradesEnd, OfferKept, Ancestors, Root
  <1>2. OffersDisjoint' /\ OffersInReach'
    BY <1>1, KeptOffersDisjoint, KeptOffersInReach DEF PlacesInv
  <1> QED
    BY <1>2 DEF PlacesInv

\* What is moved, is removed or falls to the ground ends the trades it belongs to.
LEMMA MovePlaces ==
  ASSUME TradeInv, TradeInv', PlacesInv, place' = place,
         NEW i \in Items, NEW d, Moved(parent, parent', i, d), Outside(parent, i, d),
         d \in Containers => Room(parent, d),
         NEW ps, RemovalTouches(i) \subseteq ps, TradesEnd(ps)
  PROVE  PlacesInv'
  <1>1. \A p \in Players : OfferKept(p) /\ PartnerKept(p)
    BY MoveKeepsOffers
  <1>2. OffersDisjoint' /\ OffersInReach'
    BY <1>1, KeptOffersDisjoint, KeptOffersInReach DEF PlacesInv
  <1>3. Acyclic(parent') /\ Occupied(parent')
    BY MoveKeepsAcyclic, MoveKeepsOccupied DEF PlacesInv
  <1> QED
    BY <1>2, <1>3 DEF PlacesInv

LEMMA MoveItemMoves ==
  ASSUME TradeInv, TradeInv', NEW p \in Players, NEW i \in Items,
         NEW c \in Players \cup Items \cup Places, MoveItem(p, i, c)
  PROVE  /\ Moved(parent, parent', i, c) /\ Outside(parent, i, c)
         /\ c \in Containers => Room(parent, c)
         /\ TradesEnd(RemovalTouches(i) \cup AddingTouches(i, c))
         /\ place' = place
  <1>1. Moved(parent, parent', i, c)
    BY DEF MoveItem, Moved, Parents, TradeInv, TradeTypeOK
  <1>2. c \in Items => c \in Containers \ {i} /\ Room(parent, c) /\ ~Holds(i, c)
    BY TradeAssumption DEF MoveItem
  <1>3. RemovalTouches(i) \cup AddingTouches(i, c) \in SUBSET Players
    BY TouchedArePlayers, TypesSplitHolds DEF TradeInv, TypesSplit
  <1>4. TradesEnd(RemovalTouches(i) \cup AddingTouches(i, c))
    BY <1>3, CloseTradesEnds DEF MoveItem
  <1> QED
    BY <1>1, <1>2, <1>4, TradeAssumption DEF MoveItem, Outside, Holds, Ancestors

LEMMA RemoveItemMoves ==
  ASSUME TradeInv, TradeInv', NEW i \in Items, RemoveItem(i)
  PROVE  /\ Moved(parent, parent', i, Gone) /\ Gone \notin Items
         /\ TradesEnd(RemovalTouches(i) \cup AddingTouches(i, Gone))
         /\ place' = place
  <1>1. Gone \notin Items
    BY TradeAssumption
  <1>2. Moved(parent, parent', i, Gone)
    BY DEF RemoveItem, Moved, Parents, TradeInv, TradeTypeOK
  <1>3. RemovalTouches(i) \in SUBSET Players
    BY TouchedArePlayers, TypesSplitHolds DEF TradeInv, TypesSplit
  <1>4. TradesEnd(RemovalTouches(i))
    BY <1>3, CloseTradesEnds DEF RemoveItem
  <1>5. AddingTouches(i, Gone) = {}
    BY <1>1 DEF AddingTouches
  <1> QED
    BY <1>1, <1>2, <1>4, <1>5 DEF RemoveItem

\* Player::onCreatureMove compares the walker with his item and with his partner; the
\* partner need not be asked, because the trade ends for both.
LEMMA WalkPlaces ==
  ASSUME TradeInv, TradeInv', PlacesInv, NEW p \in Players, NEW w \in Places, Walk(p, w)
  PROVE  PlacesInv'
  <1> DEFINE ps == {p} \cap {x \in Players : LeftBehind(x, w)}
  <1>1. ps \in SUBSET Players /\ CloseTrades(ps)
    BY DEF Walk
  <1>2. TradesEnd(ps)
    <2> HIDE DEF ps
    <2> QED
      BY <1>1, CloseTradesEnds
  <1>3. parent' = parent /\ place' = [place EXCEPT ![p] = w] /\ place[p] # w
    BY DEF Walk
  <1>4. \A x \in Players : OfferKept(x)
    BY <1>2, <1>3 DEF TradesEnd, OfferKept, Ancestors, Root
  <1>5. OffersDisjoint'
    BY <1>4, KeptOffersDisjoint DEF PlacesInv
  <1>6. Acyclic(parent') /\ Occupied(parent')
    BY <1>3 DEF PlacesInv
  <1>7. OffersInReach'
    <2> SUFFICES ASSUME NEW x \in Players
                 PROVE  /\ tradeItem'[x] # NoItem => RootIn(parent', tradeItem'[x]) \in {x, place'[x]}
                        /\ tradePartner'[x] # NoPlayer => place'[tradePartner'[x]] = place'[x]
      BY DEF OffersInReach, Root
    <2>1. place'[x] = IF x = p THEN w ELSE place[x]
      BY <1>3 DEF TradeInv, TradeTypeOK
    <2>2. ASSUME tradeItem'[x] # NoItem PROVE RootIn(parent', tradeItem'[x]) \in {x, place'[x]}
      <3>1. x \notin ps /\ tradeItem'[x] = tradeItem[x] /\ tradeItem[x] # NoItem
        BY <1>2, <2>2 DEF TradesEnd
      <3>2. CASE x # p
        BY <1>3, <2>1, <3>1, <3>2 DEF PlacesInv, OffersInReach, Root
      <3>3. CASE x = p
        <4>1. ~LeftBehind(p, w)
          BY <3>1, <3>3
        <4> QED
          BY <1>3, <2>1, <3>1, <3>3, <4>1 DEF LeftBehind, Root
      <3> QED
        BY <3>2, <3>3
    <2>3. ASSUME tradePartner'[x] # NoPlayer PROVE place'[tradePartner'[x]] = place'[x]
      <3>1. tradePartner'[x] = tradePartner[x] /\ tradePartner[x] \in Players
        BY <1>2, <2>3 DEF TradesEnd, PartnerKept, TradeInv, TradeTypeOK
      <3>2. place[tradePartner[x]] = place[x]
        BY <2>3, <3>1 DEF PlacesInv, OffersInReach
      <3>3. x # p /\ tradePartner[x] # p
        <4>1. ASSUME tradePartner'[p] # NoPlayer PROVE FALSE
          <5>1. tradePartner'[p] = tradePartner[p] /\ tradePartner[p] # NoPlayer
            BY <1>2, <4>1 DEF TradesEnd, PartnerKept
          <5>2. place[tradePartner[p]] = place[p]
            BY <5>1 DEF PlacesInv, OffersInReach
          <5>3. p \in ps
            BY <1>3, <5>1, <5>2 DEF LeftBehind
          <5>4. p \in Closed(ps)
            BY <5>3 DEF Closed
          <5>5. tradePartner'[p] = NoPlayer
            BY <1>1, <5>4 DEF CloseTrades, Reset
          <5> QED
            BY <4>1, <5>5
        <4>2. ASSUME tradePartner[x] = p PROVE tradePartner'[p] # NoPlayer
          <5>1. tradePartner'[p] = x
            BY <2>3, <3>1, <4>2 DEF TradeInv, PartnersAgree
          <5> QED
            BY <5>1, TradeAssumption
        <4> QED
          BY <2>3, <4>1, <4>2
      <3> QED
        BY <1>3, <3>1, <3>2, <3>3 DEF TradeInv, TradeTypeOK
    <2> QED
      BY <2>2, <2>3
  <1> QED
    BY <1>5, <1>6, <1>7 DEF PlacesInv

-----------------------------------------------------------------------------
(* The exchange: two moves, and the room for the second is only tested before the   *)
(* first.                                                                           *)

\* Where an item goes that a player receives: to him, into what he carries.
LEMMA DestinationOf ==
  ASSUME NEW par, NEW q \in Players, NEW i \in Items, NEW d \in Destinations(par, q, i)
  PROVE  /\ Room(par, d) /\ Outside(par, i, d)
         /\ d \in Players \cup Containers
         /\ d \notin Items => d = q
         /\ d \in Items => RootIn(par, d) = q
  <1>1. d = q \/ (d \in Containers \ {i} /\ RootIn(par, d) = q /\ i \notin AncestorsIn(par, d))
    BY DEF Destinations, Opened
  <1>2. Room(par, d)
    BY DEF Destinations
  <1>3. q \notin Items
    BY TradeAssumption
  <1> QED
    BY <1>1, <1>2, <1>3, TradeAssumption DEF Outside

\* What the traders offer before the exchange.
Offering(p, q, mine, yours) ==
    /\ q = tradePartner[p] /\ q \in Players /\ p # q /\ place[q] = place[p]
    /\ mine = tradeItem[p] /\ mine \in Items /\ Root(mine) \in {p, place[p]}
    /\ yours = tradeItem[q] /\ yours \in Items /\ Root(yours) \in {q, place[q]}
    /\ mine # yours /\ mine \notin Ancestors(yours) /\ yours \notin Ancestors(mine)
    /\ place[p] \notin Players

LEMMA BothOffered ==
  ASSUME TradeInv, PlacesInv, NEW p \in Players, AcceptSecond(p), Fits(p, tradePartner[p])
  PROVE  Offering(p, tradePartner[p], tradeItem[p], tradeItem[tradePartner[p]])
  <1> DEFINE q == tradePartner[p]
             mine == tradeItem[p]
             yours == tradeItem[q]
  <1>1. q \in Players /\ p # q /\ place[q] = place[p]
    BY DEF AcceptSecond, CanAccept, TradeInv, TradeTypeOK, PartnersAgree
  <1>2. mine # NoItem /\ yours # NoItem
    BY DEF Fits
  <1>3. /\ mine \in Items /\ mine \in DOMAIN tradeItems
        /\ yours \in Items /\ yours \in DOMAIN tradeItems
    BY <1>1, <1>2, OfferMade
  <1>4. tradeItems[mine] = p /\ tradeItems[yours] = q
    BY <1>1, <1>2 DEF TradeInv, RegistryExact
  <1>5. mine \notin Ancestors(yours) /\ yours \notin Ancestors(mine)
    BY <1>3 DEF PlacesInv, OffersDisjoint, Holds
  <1>6. Root(mine) \in {p, place[p]} /\ Root(yours) \in {q, place[q]}
    BY <1>1, <1>2 DEF PlacesInv, OffersInReach
  <1>7. place[p] \notin Players
    BY TradeAssumption DEF TradeInv, TradeTypeOK
  <1> QED
    BY <1>1, <1>3, <1>4, <1>5, <1>6, <1>7 DEF Offering

\* The first move: mine goes to the partner, into nothing that belongs to his offer.
FirstMove(q, mine, yours, d, moved) ==
    /\ d \in Destinations(parent, q, mine) /\ ~IntoOffer(d, yours)
    /\ moved = [parent EXCEPT ![mine] = d]

LEMMA AfterFirstMove ==
  ASSUME TradeInv, PlacesInv, NEW p \in Players, NEW q, NEW mine, NEW yours, NEW d, NEW moved,
         Offering(p, q, mine, yours), FirstMove(q, mine, yours, d, moved)
  PROVE  /\ Moved(parent, moved, mine, d) /\ Outside(parent, mine, d)
         /\ Acyclic(moved) /\ Occupied(moved)
         /\ RootIn(moved, mine) = q /\ yours \notin AncestorsIn(moved, mine)
         /\ AncestorsIn(moved, yours) = Ancestors(yours)
  <1>a. q \in Players /\ mine \in Items /\ yours \in Items
    BY DEF Offering
  <1>1. /\ Room(parent, d) /\ Outside(parent, mine, d)
        /\ d \in Players \cup Containers
        /\ d \notin Items => d = q
        /\ d \in Items => RootIn(parent, d) = q
    BY <1>a, DestinationOf DEF FirstMove
  <1>2. Moved(parent, moved, mine, d)
    BY <1>a, <1>1 DEF FirstMove, Moved, Parents, TradeInv, TradeTypeOK
  <1>3. Acyclic(moved) /\ Occupied(moved)
    BY <1>a, <1>1, <1>2, MoveKeepsAcyclic, MoveKeepsOccupied DEF PlacesInv
  <1>4. d \in Items => d # yours /\ yours \notin AncestorsIn(parent, d)
    BY DEF FirstMove, IntoOffer, Holds, Ancestors
  <1>5. RootIn(moved, mine) = q /\ yours \notin AncestorsIn(moved, mine)
    <2>1. /\ d \in Items => /\ AncestorsIn(moved, mine) = {d} \cup AncestorsIn(parent, d)
                            /\ RootIn(moved, mine) = RootIn(parent, d)
          /\ d \notin Items => AncestorsIn(moved, mine) = {} /\ RootIn(moved, mine) = d
      BY <1>a, <1>1, <1>2, MovedItem
    <2> QED
      BY <1>1, <1>4, <2>1
  <1>6. AncestorsIn(moved, yours) = Ancestors(yours)
    <2>1. yours # mine /\ mine \notin AncestorsIn(parent, yours)
      BY DEF Offering, Ancestors
    <2> QED
      BY <1>a, <1>2, <2>1, Undisturbed DEF Ancestors
  <1> QED
    BY <1>1, <1>2, <1>3, <1>5, <1>6

\* A place that was there before the first move is there after it, or where mine was
\* there is one now: the result of the second move need then not be looked at.
LEMMA SecondMoveHasRoom ==
  ASSUME TradeInv, PlacesInv, NEW p \in Players, NEW q, NEW mine, NEW yours, NEW d, NEW moved,
         Offering(p, q, mine, yours), FirstMove(q, mine, yours, d, moved),
         NEW r \in Destinations(parent, p, yours)
  PROVE  Destinations(moved, p, yours) # {}
  <1>a. /\ q \in Players /\ mine \in Items /\ yours \in Items /\ p # q
        /\ mine = tradeItem[p] /\ mine \notin Ancestors(yours)
        /\ place[p] \notin Players /\ place[q] = place[p] /\ Root(yours) \in {q, place[q]}
    BY DEF Offering
  <1>b. /\ Moved(parent, moved, mine, d) /\ Outside(parent, mine, d)
        /\ parent \in Parents
    BY AfterFirstMove DEF Moved
  <1>c. /\ d \notin Items => d = q
        /\ d \in Items => RootIn(parent, d) = q
    BY <1>a, DestinationOf DEF FirstMove
  <1>d. p \notin Items /\ Players \cap Items = {} /\ Containers \subseteq Items
    BY TradeAssumption
  \* Nothing that ends at p gets fuller.
  <1>1. ASSUME NEW x, x = p \/ (x \in Items /\ RootIn(parent, x) = p)
        PROVE  x # d /\ Content(moved, x) \subseteq Content(parent, x) \ {mine}
    <2>1. x # d
      BY <1>1, <1>a, <1>c, <1>d
    <2> QED
      BY <2>1, <1>a, <1>b DEF Content, Moved
  <1>2. ASSUME NEW x, x = p \/ (x \in Items /\ RootIn(parent, x) = p)
        PROVE  Room(parent, x) => Room(moved, x)
    <2>1. Content(moved, x) \subseteq Content(parent, x)
      BY <1>1, <1>2
    <2>2. IsFiniteSet(Content(parent, x))
      <3>1. Content(parent, x) \subseteq Items
        BY DEF Content
      <3> QED
        BY <3>1, TradeAssumption, FS_Subset
    <2>3. /\ Cardinality(Content(moved, x)) <= Cardinality(Content(parent, x))
          /\ Cardinality(Content(moved, x)) \in Nat /\ Cardinality(Content(parent, x)) \in Nat
      BY <2>1, <2>2, FS_Subset, FS_CardinalityType
    <2> QED
      BY <2>3, TradeAssumption DEF Room
  <1>3. CASE r = p
    <2>1. Room(parent, p)
      BY <1>3, DestinationOf, <1>a
    <2>2. Room(moved, p)
      BY <2>1, <1>2
    <2> QED
      BY <2>2 DEF Destinations
  \* A container that ends at p is a destination while it has room and is not offered.
  <1>4. ASSUME NEW c \in Containers \ {yours}, RootIn(parent, c) = p, Room(moved, c),
               c # mine, mine \notin AncestorsIn(parent, c)
        PROVE  c \in Destinations(moved, p, yours)
    <2>1. /\ AncestorsIn(moved, c) = AncestorsIn(parent, c) /\ RootIn(moved, c) = p
          /\ c \in Items
      BY <1>4, <1>b, <1>d, Undisturbed
    <2>2. yours \notin AncestorsIn(parent, c)
      <3>1. yours \in AncestorsIn(parent, c) => RootIn(parent, yours) = p
        BY <1>4, RootOfHolder
      <3> QED
        BY <3>1, <1>a DEF Root
    <2>3. (({c} \cup AncestorsIn(moved, c)) \cap Content(moved, p)) \cap {tradeItem[p], yours} = {}
      BY <1>4, <1>a, <2>1, <2>2
    <2> QED
      BY <1>4, <2>1, <2>2, <2>3 DEF Destinations, Opened
  <1>5. CASE r # p
    <2>1. /\ r \in Containers \ {yours} /\ RootIn(parent, r) = p /\ Room(parent, r)
          /\ ({r} \cup AncestorsIn(parent, r)) \cap Content(parent, p) \cap {tradeItem[p], yours} = {}
      BY <1>5 DEF Destinations, Opened
    <2>2. Room(moved, r)
      BY <2>1, <1>2, <1>d
    <2>3. CASE r # mine /\ mine \notin AncestorsIn(parent, r)
      BY <2>1, <2>2, <2>3, <1>4
    \* The room was inside mine, which lay deeper than a slot of p: its place is free.
    <2>4. CASE r = mine \/ mine \in AncestorsIn(parent, r)
      <3> DEFINE bag == parent[mine]
      <3>1. RootIn(parent, mine) = p
        BY <2>1, <2>4, RootOfHolder
      <3>2. bag # p
        BY <1>a, <2>1, <2>4 DEF Content
      <3>3. bag \in Items
        BY <3>1, <3>2, RootStep
      <3>4. bag \in Containers
        BY <3>3, <1>a, <1>b, TradeAssumption DEF Parents
      <3>5. RootIn(parent, bag) = p
        BY <3>1, <3>3, RootStep
      <3>6. AncestorsIn(parent, mine) = {bag} \cup AncestorsIn(parent, bag)
        BY <3>3, AncestorsStep
      <3>7. mine \notin AncestorsIn(parent, mine)
        BY <1>a DEF PlacesInv, Acyclic
      <3>8. bag # yours
        BY <1>a, <3>5 DEF Root
      <3>9. Room(moved, bag)
        <4>1. Content(moved, bag) \subseteq Content(parent, bag) \ {mine}
          BY <1>1, <3>3, <3>5
        <4>2. mine \in Content(parent, bag) /\ Content(parent, bag) \subseteq Items
          BY <1>a DEF Content
        <4>3. IsFiniteSet(Content(parent, bag))
          BY <4>2, TradeAssumption, FS_Subset
        <4>4. /\ IsFiniteSet(Content(parent, bag) \ {mine})
              /\ Cardinality(Content(parent, bag) \ {mine}) = Cardinality(Content(parent, bag)) - 1
          BY <4>2, <4>3, FS_RemoveElement
        <4>5. /\ Cardinality(Content(moved, bag)) <= Cardinality(Content(parent, bag) \ {mine})
              /\ IsFiniteSet(Content(moved, bag))
          BY <4>1, <4>4, FS_Subset
        <4>6. Cardinality(Content(moved, bag)) \in Nat /\ Cardinality(Content(parent, bag)) \in Nat
          BY <4>3, <4>5, FS_CardinalityType
        <4>7. Cardinality(Content(parent, bag)) <= Capacity
          BY <3>4 DEF PlacesInv, Occupied
        <4>8. Cardinality(Content(moved, bag)) < Capacity
          BY <4>4, <4>5, <4>6, <4>7, TradeAssumption
        <4>9. bag \notin Players
          BY <3>3, TradeAssumption
        <4> QED
          BY <4>8, <4>9 DEF Room
      <3>10. bag # mine /\ mine \notin AncestorsIn(parent, bag)
        BY <3>6, <3>7
      <3> HIDE DEF bag
      <3>11. bag \in Destinations(moved, p, yours)
        BY <1>4, <3>4, <3>5, <3>8, <3>9, <3>10
      <3> QED
        BY <3>11
    <2> QED
      BY <2>3, <2>4
  <1> QED
    BY <1>3, <1>5

\* An exchange is two moves, and ends the trades of all who are touched by either.
Exchanged(p, q, mine, yours, d, moved, e) ==
    /\ FirstMove(q, mine, yours, d, moved)
    /\ e \in Destinations(moved, p, yours)
    /\ parent' = [moved EXCEPT ![yours] = e]
    /\ TradesEnd({p, q} \cup RemovalTouches(mine) \cup AddingTouches(mine, d)
                        \cup RemovalTouches(yours) \cup AddingTouches(yours, e))

\* Or one move, when the other item is a stack that was to join another.
HalfExchanged(p, q, mine, yours, d) ==
    /\ yours \in Stackable
    /\ FirstMove(q, mine, yours, d, parent')
    /\ TradesEnd({p, q} \cup RemovalTouches(mine) \cup AddingTouches(mine, d))

LEMMA ExchangeMoves ==
  ASSUME TradeInv, PlacesInv, NEW p \in Players, Exchange(p)
  PROVE  LET q == tradePartner[p]
             mine == tradeItem[p]
             yours == tradeItem[q]
         IN  /\ Offering(p, q, mine, yours) /\ place' = place
             /\ \/ \E d, moved, e : Exchanged(p, q, mine, yours, d, moved, e)
                \/ \E d : HalfExchanged(p, q, mine, yours, d)
  <1> DEFINE q == tradePartner[p]
             mine == tradeItem[p]
             yours == tradeItem[q]
             touched(d) == RemovalTouches(mine) \cup AddingTouches(mine, d)
             both(d, e) == touched(d) \cup RemovalTouches(yours) \cup AddingTouches(yours, e)
  <1>1. AcceptSecond(p) /\ Fits(p, q) /\ place' = place
    BY DEF Exchange
  <1>2. Offering(p, q, mine, yours)
    BY <1>1, BothOffered
  <1>3. q \in Players /\ mine \in Items /\ yours \in Items
    BY <1>2 DEF Offering
  <1>4. PICK d \in Destinations(parent, q, mine) :
           /\ ~IntoOffer(d, yours)
           /\ LET moved == [parent EXCEPT ![mine] = d]
                  ends == Destinations(moved, p, yours)
              IN  \/ ends = {} /\ parent' = moved /\ EndExchange(p, q, touched(d))
                  \/ \E e \in ends : /\ parent' = [moved EXCEPT ![yours] = e]
                                     /\ EndExchange(p, q, both(d, e))
    BY DEF Exchange
  <1>5. PICK moved : moved = [parent EXCEPT ![mine] = d]
    OBVIOUS
  <1>6. FirstMove(q, mine, yours, d, moved)
    BY <1>4, <1>5 DEF FirstMove
  <1>7. CASE Destinations(moved, p, yours) = {}
    <2>1. Destinations(parent, p, yours) = {}
      <3> HIDE DEF q, mine, yours
      <3> QED
        BY <1>7, <1>2, <1>6, SecondMoveHasRoom
    <2>2. yours \in Stackable
      BY <1>1, <2>1 DEF Fits, WouldFit, Joins
    <2>3. parent' = moved /\ EndExchange(p, q, touched(d))
      BY <1>4, <1>5, <1>7
    <2>4. touched(d) \in SUBSET Players
      BY <1>3, TouchedArePlayers, TypesSplitHolds DEF TradeInv, TypesSplit
    <2>5. TradesEnd({p, q} \cup touched(d))
      <3> HIDE DEF touched, q
      <3> QED
        BY <1>3, <2>3, <2>4, EndExchangeEnds
    <2>6. {p, q} \cup touched(d) = {p, q} \cup RemovalTouches(mine) \cup AddingTouches(mine, d)
      OBVIOUS
    <2>7. HalfExchanged(p, q, mine, yours, d)
      BY <1>6, <2>2, <2>3, <2>5, <2>6 DEF HalfExchanged
    <2> QED
      BY <1>1, <1>2, <2>7
  <1>8. CASE Destinations(moved, p, yours) # {}
    <2>1. PICK e \in Destinations(moved, p, yours) :
             parent' = [moved EXCEPT ![yours] = e] /\ EndExchange(p, q, both(d, e))
      BY <1>4, <1>5, <1>8
    <2>2. both(d, e) \in SUBSET Players
      BY <1>3, TouchedArePlayers, TypesSplitHolds DEF TradeInv, TypesSplit
    <2>3. TradesEnd({p, q} \cup both(d, e))
      <3> HIDE DEF both, q
      <3> QED
        BY <1>3, <2>1, <2>2, EndExchangeEnds
    <2>4. {p, q} \cup both(d, e)
              = {p, q} \cup RemovalTouches(mine) \cup AddingTouches(mine, d)
                       \cup RemovalTouches(yours) \cup AddingTouches(yours, e)
      OBVIOUS
    <2>5. Exchanged(p, q, mine, yours, d, moved, e)
      BY <1>6, <2>1, <2>3, <2>4 DEF Exchanged
    <2> QED
      BY <1>1, <1>2, <2>5
  <1> QED
    BY <1>7, <1>8

\* Half an exchange is a move of the first item like any other.
LEMMA AfterOneMove ==
  ASSUME TradeInv, PlacesInv, NEW p \in Players, NEW q, NEW mine, NEW yours, NEW d,
         Offering(p, q, mine, yours), HalfExchanged(p, q, mine, yours, d)
  PROVE  /\ Moved(parent, parent', mine, d) /\ Outside(parent, mine, d)
         /\ d \in Containers => Room(parent, d)
         /\ RootIn(parent', mine) = q
         /\ yours \in Stackable /\ parent'[yours] = parent[yours]
         /\ mine \in Items
         /\ \E ps : RemovalTouches(mine) \cup AddingTouches(mine, d) \subseteq ps /\ TradesEnd(ps)
  <1>1. FirstMove(q, mine, yours, d, parent') /\ yours \in Stackable
    BY DEF HalfExchanged
  <1>2. /\ Moved(parent, parent', mine, d) /\ Outside(parent, mine, d)
        /\ RootIn(parent', mine) = q
    BY <1>1, AfterFirstMove
  <1>3. q \in Players /\ mine \in Items /\ yours \in Items /\ mine # yours
    BY DEF Offering
  <1>4. Room(parent, d)
    BY <1>1, <1>3, DestinationOf DEF FirstMove
  <1>5. parent'[yours] = parent[yours]
    BY <1>2, <1>3 DEF Moved
  <1>6. /\ RemovalTouches(mine) \cup AddingTouches(mine, d)
              \subseteq {p, q} \cup RemovalTouches(mine) \cup AddingTouches(mine, d)
        /\ TradesEnd({p, q} \cup RemovalTouches(mine) \cup AddingTouches(mine, d))
    BY DEF HalfExchanged
  <1> QED
    BY <1>1, <1>2, <1>3, <1>4, <1>5, <1>6

\* Where both items are at the end.
LEMMA AfterBothMoves ==
  ASSUME TradeInv, PlacesInv, NEW p \in Players, NEW q, NEW mine, NEW yours,
         NEW d, NEW moved, NEW e, Offering(p, q, mine, yours),
         Exchanged(p, q, mine, yours, d, moved, e)
  PROVE  /\ Moved(moved, parent', yours, e) /\ Outside(moved, yours, e)
         /\ Acyclic(parent') /\ Occupied(parent')
         /\ RootIn(parent', mine) = q /\ RootIn(parent', yours) = p
         /\ AncestorsIn(parent', mine) = AncestorsIn(moved, mine)
  <1>a. mine \in Items /\ yours \in Items /\ mine # yours
    BY DEF Offering
  <1>1. FirstMove(q, mine, yours, d, moved)
    BY DEF Exchanged
  <1>2. /\ Moved(parent, moved, mine, d) /\ Acyclic(moved) /\ Occupied(moved)
        /\ RootIn(moved, mine) = q /\ yours \notin AncestorsIn(moved, mine)
    BY <1>1, AfterFirstMove
  <1>3. e \in Destinations(moved, p, yours) /\ parent' = [moved EXCEPT ![yours] = e]
    BY DEF Exchanged
  <1>4. /\ Room(moved, e) /\ Outside(moved, yours, e)
        /\ e \in Players \cup Containers
        /\ e \notin Items => e = p
        /\ e \in Items => RootIn(moved, e) = p
    BY <1>a, <1>3, DestinationOf
  <1>5. Moved(moved, parent', yours, e)
    BY <1>a, <1>2, <1>3, <1>4 DEF Moved, Parents
  <1>6. Acyclic(parent') /\ Occupied(parent')
    BY <1>a, <1>2, <1>4, <1>5, MoveKeepsAcyclic, MoveKeepsOccupied
  <1>7. AncestorsIn(parent', mine) = AncestorsIn(moved, mine) /\ RootIn(parent', mine) = q
    BY <1>a, <1>2, <1>5, Undisturbed
  <1>8. RootIn(parent', yours) = p
    <2>1. /\ e \in Items => RootIn(parent', yours) = RootIn(moved, e)
          /\ e \notin Items => RootIn(parent', yours) = e
      BY <1>a, <1>4, <1>5, MovedItem
    <2> QED
      BY <1>4, <2>1
  <1> QED
    BY <1>4, <1>5, <1>6, <1>7, <1>8

\* The offers of everybody else are not touched by either move.
LEMMA ExchangeKeepsOffers ==
  ASSUME TradeInv, PlacesInv, NEW p \in Players, NEW q, NEW mine, NEW yours,
         NEW d, NEW moved, NEW e, Offering(p, q, mine, yours),
         Exchanged(p, q, mine, yours, d, moved, e)
  PROVE  \A x \in Players : OfferKept(x) /\ PartnerKept(x)
  <1> SUFFICES ASSUME NEW x \in Players, tradeItem'[x] # NoItem PROVE OfferKept(x)
    BY DEF Exchanged, TradesEnd, OfferKept
  <1>1. /\ tradeItem'[x] = tradeItem[x]
        /\ x \notin RemovalTouches(mine) /\ x \notin RemovalTouches(yours)
    BY DEF Exchanged, TradesEnd
  <1>2. PICK k : k = tradeItem[x]
    OBVIOUS
  <1>3. k \in Items /\ mine \in Items /\ yours \in Items
    BY <1>1, <1>2, OfferMade DEF Offering
  <1>4. /\ mine # k /\ mine \notin AncestorsIn(parent, k)
        /\ yours # k /\ yours \notin AncestorsIn(parent, k)
    BY <1>1, <1>2, <1>3, OfferTouched DEF Ancestors
  <1>5. Moved(parent, moved, mine, d) /\ Moved(moved, parent', yours, e)
    <2>1. FirstMove(q, mine, yours, d, moved)
      BY DEF Exchanged
    <2> QED
      BY <2>1, AfterFirstMove, AfterBothMoves
  <1>6. AncestorsIn(moved, k) = AncestorsIn(parent, k) /\ RootIn(moved, k) = RootIn(parent, k)
    BY <1>3, <1>4, <1>5, Undisturbed
  <1>7. AncestorsIn(parent', k) = AncestorsIn(moved, k) /\ RootIn(parent', k) = RootIn(moved, k)
    BY <1>3, <1>4, <1>5, <1>6, Undisturbed
  <1> QED
    BY <1>1, <1>2, <1>6, <1>7 DEF OfferKept, Ancestors, Root

LEMMA ExchangePlaces ==
  ASSUME TradeInv, TradeInv', PlacesInv, NEW p \in Players, Exchange(p)
  PROVE  PlacesInv'
  <1>1. PICK q, mine, yours :
           /\ Offering(p, q, mine, yours) /\ place' = place
           /\ \/ \E d, moved, e : Exchanged(p, q, mine, yours, d, moved, e)
              \/ \E d : HalfExchanged(p, q, mine, yours, d)
    BY ExchangeMoves
  <1>2. ASSUME NEW d, NEW moved, NEW e, Exchanged(p, q, mine, yours, d, moved, e)
        PROVE  PlacesInv'
    <2>1. Acyclic(parent') /\ Occupied(parent')
      BY <1>1, <1>2, AfterBothMoves
    <2>2. \A x \in Players : OfferKept(x) /\ PartnerKept(x)
      BY <1>1, <1>2, ExchangeKeepsOffers
    <2>3. OffersDisjoint' /\ OffersInReach'
      BY <1>1, <2>2, KeptOffersDisjoint, KeptOffersInReach DEF PlacesInv
    <2> QED
      BY <2>1, <2>3 DEF PlacesInv
  <1>3. ASSUME NEW d, HalfExchanged(p, q, mine, yours, d)
        PROVE  PlacesInv'
    <2>1. /\ Moved(parent, parent', mine, d) /\ Outside(parent, mine, d)
          /\ d \in Containers => Room(parent, d)
          /\ mine \in Items
          /\ \E ps : RemovalTouches(mine) \cup AddingTouches(mine, d) \subseteq ps /\ TradesEnd(ps)
      BY <1>1, <1>3, AfterOneMove
    <2>2. PICK ps : RemovalTouches(mine) \subseteq ps /\ TradesEnd(ps)
      BY <2>1
    <2> QED
      BY <1>1, <2>1, <2>2, MovePlaces
  <1> QED
    BY <1>1, <1>2, <1>3

\* An offer that outlives an exchange was not added to: what was put into it by the
\* first move, or through the first item by the second, touched its owner.
LEMMA BothMovesKeepContents ==
  ASSUME TradeInv, PlacesInv, NEW p \in Players, NEW q, NEW mine, NEW yours,
         NEW d, NEW moved, NEW e, Offering(p, q, mine, yours),
         Exchanged(p, q, mine, yours, d, moved, e)
  PROVE  OffersAsShown
  <1>a. mine \in Items /\ yours \in Items
    BY DEF Offering
  <1>b. FirstMove(q, mine, yours, d, moved)
    BY DEF Exchanged
  <1>c. /\ Moved(parent, moved, mine, d) /\ Outside(parent, mine, d)
        /\ Moved(moved, parent', yours, e) /\ Outside(moved, yours, e)
        /\ AncestorsIn(parent', mine) = AncestorsIn(moved, mine)
    BY <1>b, AfterFirstMove, AfterBothMoves
  <1> SUFFICES ASSUME NEW x \in Players, tradeItem[x] # NoItem, tradeItem'[x] = tradeItem[x],
                      NEW i \in Items, parent'[i] # parent[i],
                      \/ i = tradeItem[x]
                      \/ tradeItem[x] \in Ancestors(i)
                      \/ tradeItem[x] \in AncestorsIn(parent', i)
               PROVE  FALSE
    BY DEF OffersAsShown, Holds
  <1>2. PICK k : k = tradeItem[x] /\ k \in Items
    BY OfferMade
  <1>3. /\ x \notin RemovalTouches(mine) /\ x \notin AddingTouches(mine, d)
        /\ x \notin RemovalTouches(yours) /\ x \notin AddingTouches(yours, e)
    BY DEF Exchanged, TradesEnd
  <1>4. i = mine \/ i = yours
    BY <1>c DEF Moved
  <1>5. k \in AncestorsIn(parent', i)
    BY <1>a, <1>2, <1>3, <1>4, OfferTouched
  \* Nothing below the place of the first item holds the offer.
  <1>6. ~(d \in Items /\ k \in {d} \cup AncestorsIn(parent, d))
    BY <1>a, <1>2, <1>3, OfferTouchedByAdding DEF Ancestors
  <1>7. k \notin AncestorsIn(moved, mine)
    BY <1>a, <1>c, <1>6, MovedItem
  <1>8. i = yours
    BY <1>4, <1>5, <1>7, <1>c
  <1>9. e \in Items /\ k \in {e} \cup AncestorsIn(moved, e)
    BY <1>a, <1>5, <1>8, <1>c, MovedItem
  <1>10. ~(k \in {e} \cup AncestorsIn(parent, e))
    BY <1>a, <1>2, <1>3, <1>9, OfferTouchedByAdding DEF Ancestors
  <1>11. AncestorsIn(moved, e) \subseteq AncestorsIn(parent, e) \cup AncestorsIn(moved, mine)
    BY <1>a, <1>c, <1>9, PathThroughMoved
  <1> QED
    BY <1>7, <1>9, <1>10, <1>11

LEMMA ExchangeKeepsContents ==
  ASSUME TradeInv, PlacesInv, NEW p \in Players, Exchange(p)
  PROVE  OffersAsShown
  <1>1. PICK q, mine, yours :
           /\ Offering(p, q, mine, yours)
           /\ \/ \E d, moved, e : Exchanged(p, q, mine, yours, d, moved, e)
              \/ \E d : HalfExchanged(p, q, mine, yours, d)
    BY ExchangeMoves
  <1>2. ASSUME NEW d, NEW moved, NEW e, Exchanged(p, q, mine, yours, d, moved, e)
        PROVE  OffersAsShown
    BY <1>1, <1>2, BothMovesKeepContents
  <1>3. ASSUME NEW d, HalfExchanged(p, q, mine, yours, d)
        PROVE  OffersAsShown
    BY <1>1, <1>3, AfterOneMove, MoveKeepsContents
  <1> QED
    BY <1>1, <1>2, <1>3

-----------------------------------------------------------------------------
(* The invariant of the places, and what follows from it. *)

LEMMA PlacesInvInit == Init => PlacesInv
  <1> SUFFICES ASSUME Init PROVE PlacesInv
    OBVIOUS
  <1>1. \A i \in Items : parent[i] \notin Items /\ parent[i] \in Places
    BY TradeAssumption DEF Init
  <1>2. \A i \in Items : AncestorsIn(parent, i) = {}
    BY <1>1, AncestorsStep
  <1>3. \A c \in Containers : Content(parent, c) = {}
    BY <1>1, TradeAssumption DEF Content
  <1>4. Occupied(parent)
    BY <1>3, FS_EmptySet, TradeAssumption DEF Occupied
  <1>5. OffersDisjoint
    BY DEF Init, OffersDisjoint
  <1>6. OffersInReach
    BY DEF Init, OffersInReach
  <1> QED
    BY <1>2, <1>4, <1>5, <1>6 DEF PlacesInv, Acyclic

\* Steps in which no item changes its place and no player his.
LEMMA OthersMoveNothing ==
  ASSUME TradeInv,
         \/ \E p \in Players : AcceptFirst(p) \/ AcceptRefused(p) \/ ExchangeFails(p)
                                 \/ CloseTrade(p) \/ Logout(p) \/ Login(p)
         \/ \E i \in Items : UpdateItem(i)
         \/ UNCHANGED vars
  PROVE  place' = place /\ parent' = parent /\ TradesEnd({})
  <1>1. ASSUME NEW ps, TradesEnd(ps) PROVE TradesEnd({})
    BY <1>1 DEF TradesEnd
  <1>2. CASE \E p \in Players : AcceptFirst(p)
    BY <1>2 DEF AcceptFirst, TradesEnd, PartnerKept
  <1>3. ASSUME NEW p \in Players, AcceptRefused(p) \/ CloseTrade(p)
        PROVE  place' = place /\ parent' = parent /\ TradesEnd({})
    <2>1. CloseTrades({p}) /\ place' = place /\ parent' = parent
      BY <1>3 DEF AcceptRefused, CloseTrade
    <2> QED
      BY <2>1, <1>1, CloseTradesEnds
  <1>4. ASSUME NEW p \in Players, ExchangeFails(p)
        PROVE  place' = place /\ parent' = parent /\ TradesEnd({})
    <2>1. EndExchange(p, tradePartner[p], {}) /\ place' = place /\ parent' = parent
      BY <1>4 DEF ExchangeFails
    <2>2. tradePartner[p] \in Players
      BY <1>4 DEF ExchangeFails, AcceptSecond, CanAccept, TradeInv, TradeTypeOK
    <2>3. TradesEnd({p, tradePartner[p]} \cup {})
      BY <2>1, <2>2, EndExchangeEnds
    <2> QED
      BY <2>1, <2>3, <1>1
  <1>5. ASSUME NEW p \in Players, Logout(p)
        PROVE  place' = place /\ parent' = parent /\ TradesEnd({})
    <2> DEFINE ps == {p} \cap {x \in Players : tradePartner[x] # NoPlayer}
    <2>1. CloseTrades(ps) /\ place' = place /\ parent' = parent
      BY <1>5 DEF Logout
    <2>2. ps \in SUBSET Players
      OBVIOUS
    <2> HIDE DEF ps
    <2> QED
      BY <2>1, <2>2, <1>1, CloseTradesEnds
  <1>6. CASE \E p \in Players : Login(p)
    BY <1>6 DEF Login, TradesEnd, PartnerKept, TradeInv, TradeTypeOK
  <1>7. ASSUME NEW i \in Items, UpdateItem(i)
        PROVE  place' = place /\ parent' = parent /\ TradesEnd({})
    <2> DEFINE ps == {p \in HearersOfRemoval(i) : TouchedByUpdate(p, i)}
    <2>1. CloseTrades(ps) /\ place' = place /\ parent' = parent
      BY <1>7 DEF UpdateItem
    <2>2. ps \in SUBSET Players
      BY TypesSplitHolds DEF TradeInv, TypesSplit, World, HearersOfRemoval, Near
    <2> HIDE DEF ps
    <2> QED
      BY <2>1, <2>2, <1>1, CloseTradesEnds
  <1>8. CASE UNCHANGED vars
    BY <1>8 DEF vars, tradeVars, TradesEnd, PartnerKept
  <1> QED
    BY <1>2, <1>3, <1>4, <1>5, <1>6, <1>7, <1>8

LEMMA PlacesInvStep ==
  TradeInv /\ TradeInv' /\ PlacesInv /\ [Next]_vars => PlacesInv' /\ OffersAsShown
  <1> SUFFICES ASSUME TradeInv, TradeInv', PlacesInv, [Next]_vars
               PROVE  PlacesInv' /\ OffersAsShown
    OBVIOUS
  <1>0. parent' = parent => OffersAsShown
    BY DEF OffersAsShown
  <1>1. CASE \E p \in Players, q \in Players, i \in Items : RequestTrade(p, q, i)
    <2>1. parent' = parent
      BY <1>1 DEF RequestTrade
    <2> QED
      BY <1>0, <1>1, <2>1, RequestTradePlaces
  <1>2. CASE \E p \in Players : Exchange(p)
    BY <1>2, ExchangePlaces, ExchangeKeepsContents
  <1>3. ASSUME NEW p \in Players, NEW i \in Items, NEW c \in Players \cup Items \cup Places,
               MoveItem(p, i, c)
        PROVE  PlacesInv' /\ OffersAsShown
    <2> DEFINE ps == RemovalTouches(i) \cup AddingTouches(i, c)
    <2>1. /\ Moved(parent, parent', i, c) /\ Outside(parent, i, c)
          /\ c \in Containers => Room(parent, c)
          /\ TradesEnd(ps) /\ place' = place
      BY <1>3, MoveItemMoves
    <2>2. RemovalTouches(i) \subseteq ps /\ RemovalTouches(i) \cup AddingTouches(i, c) \subseteq ps
      OBVIOUS
    <2> HIDE DEF ps
    <2>3. PlacesInv'
      BY <2>1, <2>2, MovePlaces
    <2>4. OffersAsShown
      BY <2>1, <2>2, MoveKeepsContents
    <2> QED
      BY <2>3, <2>4
  <1>4. ASSUME NEW i \in Items, RemoveItem(i)
        PROVE  PlacesInv' /\ OffersAsShown
    <2> DEFINE ps == RemovalTouches(i) \cup AddingTouches(i, Gone)
    <2>1. /\ Moved(parent, parent', i, Gone) /\ Gone \notin Items
          /\ TradesEnd(ps) /\ place' = place
      BY <1>4, RemoveItemMoves
    <2>2. RemovalTouches(i) \subseteq ps /\ RemovalTouches(i) \cup AddingTouches(i, Gone) \subseteq ps
      OBVIOUS
    <2>3. Outside(parent, i, Gone) /\ Gone \notin Containers
      BY <2>1, TradeAssumption DEF Outside
    <2> HIDE DEF ps
    <2>4. PlacesInv'
      BY <2>1, <2>2, <2>3, MovePlaces
    <2>5. OffersAsShown
      BY <2>1, <2>2, <2>3, MoveKeepsContents
    <2> QED
      BY <2>4, <2>5
  <1>5. CASE \E p \in Players, w \in Places : Walk(p, w)
    <2>1. parent' = parent
      BY <1>5 DEF Walk
    <2> QED
      BY <1>0, <1>5, <2>1, WalkPlaces
  <1>6. CASE \/ \E p \in Players : AcceptFirst(p) \/ AcceptRefused(p) \/ ExchangeFails(p)
                                     \/ CloseTrade(p) \/ Logout(p) \/ Login(p)
             \/ \E i \in Items : UpdateItem(i)
             \/ UNCHANGED vars
    <2>1. place' = place /\ parent' = parent /\ TradesEnd({})
      BY <1>6, OthersMoveNothing
    <2>2. PlacesInv'
      BY <2>1, NothingMoved
    <2> QED
      BY <1>0, <2>1, <2>2
  <1> QED
    BY <1>1, <1>2, <1>3, <1>4, <1>5, <1>6 DEF Next, Trading, Living

LEMMA PlacesAlwaysInv == Spec => [](TradeInv /\ PlacesInv)
  BY TradeInvInit, TradeInvStep, PlacesInvInit, PlacesInvStep, PTL DEF Spec

\* No offer ever lies inside another: playerRequestTrade compares them once, and the
\* hooks of the owners end a trade before a move could put one into another.
THEOREM OffersAlwaysDisjoint == Spec => []OffersDisjoint
  <1>1. PlacesInv => OffersDisjoint
    BY DEF PlacesInv
  <1> QED
    BY <1>1, PlacesAlwaysInv, PTL

\* Both traders and both offers are always within reach, whoever walks or moves things.
THEOREM OffersAlwaysInReach == Spec => []OffersInReach
  <1>1. PlacesInv => OffersInReach
    BY DEF PlacesInv
  <1> QED
    BY <1>1, PlacesAlwaysInv, PTL

\* What is shown is what is traded: an offer that stands holds what it held, however
\* deep the containers are nested.
THEOREM OffersNeverChange == Spec => OfferUnchanged
  <1>1. TradeInv /\ TradeInv' /\ PlacesInv /\ [Next]_vars => [OffersAsShown]_vars
    BY PlacesInvStep
  <1>2. Spec => [][OffersAsShown]_vars
    BY <1>1, PlacesAlwaysInv, PTL DEF Spec
  <1> QED
    BY <1>2 DEF OfferUnchanged, OffersAsShown

\* An exchange leaves nothing behind but a stack that was to join another: whatever has
\* a place before the first move has one after it.
THEOREM OnlyStacksEverStay == Spec => OnlyStacksStayBehind
  <1> DEFINE Left == \A p \in Players :
                        LET q == tradePartner[p]
                            mine == tradeItem[p]
                            yours == tradeItem[q]
                        IN  Exchange(p) =>
                                /\ RootIn(parent', mine) = q
                                /\ \/ RootIn(parent', yours) = p
                                   \/ yours \in Stackable /\ parent'[yours] = parent[yours]
  <1>1. TradeInv /\ PlacesInv => Left
    <2> SUFFICES ASSUME TradeInv, PlacesInv, NEW p \in Players, Exchange(p),
                        NEW q, NEW mine, NEW yours,
                        q = tradePartner[p], mine = tradeItem[p], yours = tradeItem[q]
                 PROVE  /\ RootIn(parent', mine) = q
                        /\ \/ RootIn(parent', yours) = p
                           \/ yours \in Stackable /\ parent'[yours] = parent[yours]
      OBVIOUS
    <2>1. /\ Offering(p, q, mine, yours)
          /\ \/ \E d, moved, e : Exchanged(p, q, mine, yours, d, moved, e)
             \/ \E d : HalfExchanged(p, q, mine, yours, d)
      BY ExchangeMoves
    <2>2. ASSUME NEW d, NEW moved, NEW e, Exchanged(p, q, mine, yours, d, moved, e)
          PROVE  RootIn(parent', mine) = q /\ RootIn(parent', yours) = p
      BY <2>1, <2>2, AfterBothMoves
    <2>3. ASSUME NEW d, HalfExchanged(p, q, mine, yours, d)
          PROVE  /\ RootIn(parent', mine) = q
                 /\ yours \in Stackable /\ parent'[yours] = parent[yours]
      BY <2>1, <2>3, AfterOneMove
    <2> QED
      BY <2>1, <2>2, <2>3
  <1> HIDE DEF Left
  <1>2. Spec => [][Left]_vars
    BY <1>1, PlacesAlwaysInv, PTL DEF Spec
  <1> QED
    BY <1>2 DEF OnlyStacksStayBehind, Left
=============================================================================
