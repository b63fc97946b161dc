------------------------------- MODULE Trade -------------------------------
(***************************************************************************)
(* Safe trade between players (src/src/game.cpp:2266-2652) and the hooks of*)
(* src/src/player.cpp that cancel it when an offered item is touched.      *)
(*                                                                         *)
(* Every handler runs to its end on the dispatcher, so it is one action.   *)
(* Positions are abstracted to places: the ranges of the code are "the same*)
(* place". Which slot accepts an item, and weight, are left out. How many  *)
(* pieces a stack has is left out too: a stack may be one that others join, *)
(* and one that has joined another is followed as an item of its own.      *)
(***************************************************************************)
EXTENDS Naturals, FiniteSets

CONSTANTS
    Players,
    Items,
    Containers,     \* the items that hold items
    Stackable,      \* the items of one kind whose stacks can be joined
    Places,         \* parts of the map within which players reach each other
    NoPlayer, NoItem, Gone,
    Slots,          \* inventory slots of a player
    Capacity        \* items a container holds directly

ASSUME TradeAssumption ==
    /\ Containers \subseteq Items
    /\ Stackable \subseteq Items \ Containers
    /\ NoPlayer \notin Players
    /\ NoItem \notin Items
    /\ Gone \notin Items \cup Players \cup Places
    /\ IsFiniteSet(Items)
    /\ Items \cap (Players \cup Places) = {} /\ Players \cap Places = {}
    /\ Slots \in Nat /\ Capacity \in Nat

VARIABLES
    online,         \* players in the game
    place,          \* where each of them stands
    parent,         \* Item::parent: a player, a container, a place, or Gone
    tradeState,     \* Player::tradeState
    tradePartner,   \* Player::tradePartner
    tradeItem,      \* Player::tradeItem
    tradeItems,     \* Game::tradeItems: item -> the player who offers it
    refs            \* references the trades hold on each item

tradeVars == <<tradeState, tradePartner, tradeItem, tradeItems, refs>>
vars == <<online, place, parent, tradeVars>>

States == {"NONE", "INITIATED", "ACCEPT", "ACKNOWLEDGE"}

-----------------------------------------------------------------------------
(* Where items are. *)

\* A set of items that has what i lies in and, with an item, what that one lies in.
ClosedUp(par, i, s) == \A x \in {i} \cup s : par[x] \in Items => par[x] \in s

\* The containers an item lies in, however deep: the least such set.
AncestorsIn(par, i) == {c \in Items : \A s \in SUBSET Items : ClosedUp(par, i, s) => c \in s}

Ancestors(i) == AncestorsIn(parent, i)

\* Container::isHoldingItem
Holds(c, i) == c \in Ancestors(i)

\* The player, the place or Gone that is at the end of an item's parents.
RootsIn(par, i) == {par[x] : x \in {i} \cup AncestorsIn(par, i)} \ Items
RootIn(par, i) == CHOOSE r \in RootsIn(par, i) : TRUE
Root(i) == RootIn(parent, i)

Content(par, c) == {i \in Items : par[i] = c}
Room(par, c) == Cardinality(Content(par, c)) < IF c \in Players THEN Slots ELSE Capacity

-----------------------------------------------------------------------------
(* Closing trades. *)

\* The players whose trade ends when internalCloseTrade is called for each of ps.
Closed(ps) == ps \cup ({tradePartner[p] : p \in ps} \ {NoPlayer})

\* The items whose offers end with theirs: ReleaseItem and erase.
Released(ps) == {tradeItem[p] : p \in ps} \ {NoItem}

Unregister(items) ==
    /\ tradeItems' = [i \in DOMAIN tradeItems \ items |-> tradeItems[i]]
    /\ refs' = [i \in Items |->
                  IF i \in items /\ i \in DOMAIN tradeItems THEN refs[i] - 1 ELSE refs[i]]

\* Mutant of Reset: the item stays in the player's tradeItem.
ResetState(ps) ==
    /\ tradeState' = [p \in Players |-> IF p \in ps THEN "NONE" ELSE tradeState[p]]
    /\ tradePartner' = [p \in Players |-> IF p \in ps THEN NoPlayer ELSE tradePartner[p]]
    /\ UNCHANGED tradeItem
    /\ Unregister(Released(ps))

Reset(ps) ==
    /\ tradeState' = [p \in Players |-> IF p \in ps THEN "NONE" ELSE tradeState[p]]
    /\ tradePartner' = [p \in Players |-> IF p \in ps THEN NoPlayer ELSE tradePartner[p]]
    /\ tradeItem' = [p \in Players |-> IF p \in ps THEN NoItem ELSE tradeItem[p]]
    /\ Unregister(Released(ps))

\* internalCloseTrade for every player of ps, one after the other.
CloseTrades(ps) == Reset(Closed(ps))

-----------------------------------------------------------------------------
(* The hooks. Only the owner of a slot hears of it; everyone near a tile or  *)
(* near a container hears of what is done there.                             *)

PlaceOfRoot(r) == IF r \in Players THEN place[r] ELSE r

Near(r) == {p \in online : place[p] = PlaceOfRoot(r)}

HearersOfRemoval(i) == IF parent[i] \in Players THEN {parent[i]} ELSE Near(Root(i))

\* Mutant of TouchedByRemoval: only the offered item itself is looked for.
TouchedItselfOnly(p, i) == tradeItem[p] = i

\* Player::onRemoveInventoryItem, onRemoveTileItem, onRemoveContainerItem: the item
\* is the offer, lies in it, or (for a container: what it lay in) holds it.
TouchedByRemoval(p, i) ==
    LET offer == tradeItem[p]
    IN  /\ offer # NoItem
        /\ \/ offer = i
           \/ Holds(offer, i)
           \/ IF parent[i] \in Items
              THEN parent[offer] # parent[i] /\ Holds(parent[i], offer)
              ELSE Holds(i, offer)

\* Mutant of TouchedByAdding: the chain of parents is not followed.
TouchedByAddingToOffer(p, i, c) == tradeItem[p] \in {i, c}

\* Player::onAddContainerItem: the item is the offer, or it is put into the offer.
TouchedByAdding(p, i, c) ==
    /\ tradeItem[p] # NoItem
    /\ tradeItem[p] \in {i, c} \/ Holds(tradeItem[p], c)

RemovalTouches(i) == {p \in HearersOfRemoval(i) : TouchedByRemoval(p, i)}

\* Nobody's trade depends on what is added to a tile or to a slot.
AddingTouches(i, c) ==
    IF c \in Items THEN {p \in Near(Root(c)) : TouchedByAdding(p, i, c)} ELSE {}

-----------------------------------------------------------------------------
(* The trade. *)

\* Mutant of MayOffer: it is not asked whether the item lies in an offered one.
MayOfferInside(p, i) ==
    /\ Root(i) \in {p, place[p]}
    /\ \A t \in DOMAIN tradeItems : i # t /\ ~Holds(i, t)

\* Mutant of MayOffer: a container is not compared with the offered items themselves.
MayOfferTwice(p, i) ==
    /\ Root(i) \in {p, place[p]}
    /\ \A t \in DOMAIN tradeItems : ~Holds(i, t) /\ ~Holds(t, i)

\* Game::playerRequestTrade up to internalStartTrade: what may be offered.
MayOffer(p, i) ==
    /\ Root(i) \in {p, place[p]}
    /\ \A t \in DOMAIN tradeItems : i # t /\ ~Holds(i, t) /\ ~Holds(t, i)

\* Mutant of MayStart: whom the partner is trading with is not asked.
MayStartWithAnyone(p, q) ==
    tradeState[p] = "NONE" \/ (tradeState[p] = "ACKNOWLEDGE" /\ tradePartner[p] = q)

\* The two early returns of internalStartTrade.
MayStart(p, q) ==
    /\ tradeState[p] = "NONE" \/ (tradeState[p] = "ACKNOWLEDGE" /\ tradePartner[p] = q)
    /\ tradeState[q] = "NONE" \/ tradePartner[q] = p

RequestTrade(p, q, i) ==
    /\ p \in online /\ q \in online \ {p}
    /\ place[q] = place[p]
    /\ MayOffer(p, i)
    /\ MayStart(p, q)
    /\ tradePartner' = IF tradeState[q] = "NONE"
                       THEN [tradePartner EXCEPT ![p] = q, ![q] = p]
                       ELSE [tradePartner EXCEPT ![p] = q]
    /\ tradeState' = IF tradeState[q] = "NONE"
                     THEN [tradeState EXCEPT ![p] = "INITIATED", ![q] = "ACKNOWLEDGE"]
                     ELSE [tradeState EXCEPT ![p] = "INITIATED"]
    /\ tradeItem' = [tradeItem EXCEPT ![p] = i]
    /\ tradeItems' = [t \in DOMAIN tradeItems \cup {i} |-> IF t = i THEN p ELSE tradeItems[t]]
    /\ refs' = [refs EXCEPT ![i] = @ + 1]
    /\ UNCHANGED <<online, place, parent>>

\* Game::playerAcceptTrade
CanAccept(p) ==
    /\ p \in online
    /\ tradeState[p] \in {"ACKNOWLEDGE", "INITIATED"}
    /\ tradePartner[p] # NoPlayer
    /\ place[tradePartner[p]] = place[p]

AcceptFirst(p) ==
    /\ CanAccept(p)
    /\ tradeState[tradePartner[p]] # "ACCEPT"
    /\ tradeState' = [tradeState EXCEPT ![p] = "ACCEPT"]
    /\ UNCHANGED <<online, place, parent, tradePartner, tradeItem, tradeItems, refs>>

AcceptSecond(p) == CanAccept(p) /\ tradeState[tradePartner[p]] = "ACCEPT"

\* onTradeAccept may refuse.
AcceptRefused(p) ==
    /\ AcceptSecond(p)
    /\ CloseTrades({p})
    /\ UNCHANGED <<online, place, parent>>

\* The containers Player::queryDestination looks into: those inside one of the slots,
\* other than the offered item of the player.
Opened(par, q, i) ==
    LET top(c) == ({c} \cup AncestorsIn(par, c)) \cap Content(par, q)
    IN  {c \in Containers \ {i} : /\ RootIn(par, c) = q
                                  /\ top(c) \cap {tradeItem[q], i} = {}
                                  /\ i \notin AncestorsIn(par, c)}

\* Where the two moves find room: stacks are not joined (FLAG_IGNOREAUTOSTACK).
Destinations(par, q, i) == {d \in {q} \cup Opened(par, q, i) : Room(par, d)}

\* Mutant of IntoOffer: internalMoveItem is not told of the other item.
IntoOfferUnchecked(d, offer) == FALSE

\* internalMoveItem refuses a destination that is the other item or lies in it.
IntoOffer(d, offer) == d = offer \/ (d \in Items /\ Holds(offer, d))

\* The two test calls let a stack fit on another one as well.
Joins(q, i) ==
    /\ i \in Stackable
    /\ \E j \in Stackable \ {i, tradeItem[q]} : parent[j] \in {q} \cup Opened(parent, q, i)

WouldFit(q, i) == Destinations(parent, q, i) # {} \/ Joins(q, i)

\* Both items are there, and each would fit where it goes.
Fits(p, q) ==
    /\ tradeItem[p] # NoItem /\ tradeItem[q] # NoItem
    /\ WouldFit(q, tradeItem[p])
    /\ WouldFit(p, tradeItem[q])

\* The traders are in TRADE_TRANSFER, where their hooks do nothing, and both end
\* with no trade; whoever else is touched by the two moves loses his.
EndExchange(p, q, others) == Reset({p, q} \cup Closed(others \ {p, q}))

Exchange(p) ==
    LET q == tradePartner[p]
        mine == tradeItem[p]
        yours == tradeItem[q]
    IN  /\ AcceptSecond(p)
        /\ Fits(p, q)
        /\ \E d \in Destinations(parent, q, mine) :
              /\ ~IntoOffer(d, yours)
              /\ LET moved == [parent EXCEPT ![mine] = d]
                     ends == Destinations(moved, p, yours)
                     touched == RemovalTouches(mine) \cup AddingTouches(mine, d)
                 IN  \* the result of the second internalMoveItem is not looked at
                     \/ /\ ends = {}
                        /\ parent' = moved
                        /\ EndExchange(p, q, touched)
                     \/ \E e \in ends :
                           /\ parent' = [moved EXCEPT ![yours] = e]
                           /\ EndExchange(p, q, touched \cup RemovalTouches(yours)
                                                       \cup AddingTouches(yours, e))
        /\ UNCHANGED <<online, place>>

\* An item is missing, does not fit, is too heavy, or would go into the other.
ExchangeFails(p) ==
    /\ AcceptSecond(p)
    /\ EndExchange(p, tradePartner[p], {})
    /\ UNCHANGED <<online, place, parent>>

CloseTrade(p) ==
    /\ p \in online
    /\ CloseTrades({p})
    /\ UNCHANGED <<online, place, parent>>

-----------------------------------------------------------------------------
(* Everything else that touches items and players. *)

\* Game::internalMoveItem: a player moves something he reaches, or throws it away.
MoveItem(p, i, c) ==
    /\ p \in online
    /\ Root(i) \in {p, place[p]}
    /\ \/ c \in Places
       \/ c = p /\ Room(parent, c)
       \/ /\ c \in Containers \ {i} /\ Root(c) \in {p, place[p]}
          /\ Room(parent, c) /\ ~Holds(i, c)
    /\ parent' = [parent EXCEPT ![i] = c]
    /\ CloseTrades(RemovalTouches(i) \cup AddingTouches(i, c))
    /\ UNCHANGED <<online, place>>

\* Game::internalRemoveItem: eaten, decayed, or destroyed with what it holds.
RemoveItem(i) ==
    /\ Root(i) \in online \cup Places
    /\ parent' = [parent EXCEPT ![i] = Gone]
    /\ CloseTrades(RemovalTouches(i))
    /\ UNCHANGED <<online, place>>

\* Player::onUpdateContainerItem and its like: a count or an id changes.
TouchedByUpdate(p, i) ==
    /\ tradeItem[p] # NoItem
    /\ tradeItem[p] = i \/ Holds(tradeItem[p], i)

UpdateItem(i) ==
    /\ Root(i) \in online \cup Places
    /\ CloseTrades({p \in HearersOfRemoval(i) : TouchedByUpdate(p, i)})
    /\ UNCHANGED <<online, place, parent>>

\* Mutant of LeftBehind: a player who walks is not compared with his partner.
LeftItemBehind(p, w) ==
    tradeItem[p] # NoItem /\ (IF Root(tradeItem[p]) = p THEN w ELSE Root(tradeItem[p])) # w

\* Player::onCreatureMove: the item or the partner is out of reach of the new place.
LeftBehind(p, w) ==
    \/ tradeItem[p] # NoItem /\ (IF Root(tradeItem[p]) = p THEN w ELSE Root(tradeItem[p])) # w
    \/ tradePartner[p] # NoPlayer /\ place[tradePartner[p]] # w

Walk(p, w) ==
    /\ p \in online
    /\ place[p] # w
    /\ place' = [place EXCEPT ![p] = w]
    /\ CloseTrades({p} \cap {x \in Players : LeftBehind(x, w)})
    /\ UNCHANGED <<online, parent>>

\* Player::onRemoveCreature
Logout(p) ==
    /\ p \in online
    /\ online' = online \ {p}
    /\ CloseTrades({p} \cap {x \in Players : tradePartner[x] # NoPlayer})
    /\ UNCHANGED <<place, parent>>

\* A new Player: what the old one left behind is not in it.
Login(p) ==
    /\ p \notin online
    /\ online' = online \cup {p}
    /\ tradeState' = [tradeState EXCEPT ![p] = "NONE"]
    /\ tradePartner' = [tradePartner EXCEPT ![p] = NoPlayer]
    /\ tradeItem' = [tradeItem EXCEPT ![p] = NoItem]
    /\ UNCHANGED <<place, parent, tradeItems, refs>>

-----------------------------------------------------------------------------
Init ==
    /\ online = Players
    /\ \E w \in Places :
          /\ place = [p \in Players |-> w]
          /\ parent = [i \in Items |-> w]
    /\ tradeState = [p \in Players |-> "NONE"]
    /\ tradePartner = [p \in Players |-> NoPlayer]
    /\ tradeItem = [p \in Players |-> NoItem]
    /\ tradeItems = [i \in {} |-> NoPlayer]
    /\ refs = [i \in Items |-> 0]

Trading(p) ==
    \/ \E q \in Players, i \in Items : RequestTrade(p, q, i)
    \/ AcceptFirst(p)
    \/ AcceptRefused(p)
    \/ Exchange(p)
    \/ ExchangeFails(p)
    \/ CloseTrade(p)

Living(p) ==
    \/ \E i \in Items, c \in Players \cup Items \cup Places : MoveItem(p, i, c)
    \/ \E w \in Places : Walk(p, w)
    \/ Logout(p)
    \/ Login(p)

Next ==
    \/ \E p \in Players : Trading(p) \/ Living(p)
    \/ \E i \in Items : RemoveItem(i) \/ UpdateItem(i)

Spec == Init /\ [][Next]_vars

-----------------------------------------------------------------------------
(* Properties. *)

\* Types, and what a state says of the fields: a player has a partner exactly while
\* he trades, has offered something once he initiated, and nothing while he is only
\* asked.
TradeTypeOK ==
    /\ online \subseteq Players
    /\ place \in [Players -> Places]
    /\ parent \in [Items -> Players \cup Containers \cup Places \cup {Gone}]
    /\ tradeState \in [Players -> States]
    /\ tradePartner \in [Players -> Players \cup {NoPlayer}]
    /\ tradeItem \in [Players -> Items \cup {NoItem}]
    /\ tradeItems \in [DOMAIN tradeItems -> Players]
    /\ DOMAIN tradeItems \subseteq Items
    /\ refs \in [Items -> Nat]
    /\ \A p \in Players :
          /\ tradeState[p] = "NONE" <=> tradePartner[p] = NoPlayer
          /\ tradeState[p] = "INITIATED" => tradeItem[p] # NoItem
          /\ tradeState[p] \in {"NONE", "ACKNOWLEDGE"} => tradeItem[p] = NoItem

\* A trade has two ends: a partner is in the game, is someone else, and trades with
\* the player in return. A pointer left in tradePartner outlives the other Player.
PartnersAgree ==
    \A p \in Players :
        tradePartner[p] # NoPlayer =>
            /\ tradePartner[p] # p
            /\ p \in online
            /\ tradePartner[tradePartner[p]] = p

\* The registry holds the offers and nothing else, under the one player who made
\* them, and every offer holds exactly one reference, however the trade ends.
RegistryExact ==
    /\ \A p \in Players : tradeItem[p] # NoItem =>
          tradeItem[p] \in DOMAIN tradeItems /\ tradeItems[tradeItem[p]] = p
    /\ \A i \in DOMAIN tradeItems : tradeItem[tradeItems[i]] = i
    /\ \A i \in Items : refs[i] = IF i \in DOMAIN tradeItems THEN 1 ELSE 0

\* No offered item lies inside another: the move of one would carry the other along.
\* The check of playerRequestTrade (2326-2360) is made once; the hooks must keep it.
OffersDisjoint == \A i, j \in DOMAIN tradeItems : ~Holds(i, j)

\* Both traders and both offers stay within reach, whoever walks, moves or takes
\* things: an offer is carried by its owner or lies where he stands.
OffersInReach ==
    \A p \in Players :
        /\ tradeItem[p] # NoItem => Root(tradeItem[p]) \in {p, place[p]}
        /\ tradePartner[p] # NoPlayer => place[tradePartner[p]] = place[p]

\* What the partner was shown is what he gets: nothing is put into or taken out of an
\* offer, nor is it moved, while the offer stands.
OfferUnchanged ==
    [][\A p \in Players :
          tradeItem[p] # NoItem /\ tradeItem'[p] = tradeItem[p] =>
              \A i \in Items : i = tradeItem[p] \/ Holds(tradeItem[p], i)
                                 \/ tradeItem[p] \in AncestorsIn(parent', i)
                  => parent'[i] = parent[i]]_vars

\* An exchange leaves each item with the other player, with one exception: the room is
\* tested with stacks joining, before the first move (game.cpp:2458-2459), the moves do
\* not join them, and the result of the second is not looked at (2472). A stack that
\* had another to join and has no place of its own stays where it was, and one trader
\* has both. Nothing else, and never the first item, can be left behind.
OnlyStacksStayBehind ==
    [][\A p \in Players :
          LET q == tradePartner[p]
              mine == tradeItem[p]
              yours == tradeItem[q]
          IN  Exchange(p) =>
                  /\ RootIn(parent', mine) = q
                  /\ \/ RootIn(parent', yours) = p
                     \/ yours \in Stackable /\ parent'[yours] = parent[yours]]_vars
=============================================================================
