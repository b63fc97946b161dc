------------------------------- MODULE Market -------------------------------
(***************************************************************************)
(* The market: src/src/game.cpp:4864-5281 and src/src/iomarket.cpp.        *)
(*                                                                         *)
(* Offers are rows of a table. Players act on the dispatcher, with queries *)
(* that are answered at once; offers that have run out are found by a      *)
(* query of the database thread, whose answer reaches the dispatcher later.*)
(* A player who is online owns what his Player object says, another one    *)
(* what the database says. One ware is traded; it lies in depot or inbox.  *)
(***************************************************************************)
EXTENDS Sequences, Totals

CONSTANTS
    Players,
    OfferIds,       \* ids of rows, given out in ascending order
    Prices,         \* of one piece
    Amounts,        \* pieces of one offer, or of one deal
    FeeMin, FeeMax, \* the fee is a share of the price within these limits
    FeeShare,       \* price of which one unit is taken
    MaxOffers,      \* MAX_MARKET_OFFERS_AT_A_TIME_PER_PLAYER
    MaxLookups,     \* bound on the lookups under way at once
    Start           \* what each player owns at first: [gold, goods]

ASSUME MarketAssumption ==
    /\ IsFiniteSet(Players)
    /\ OfferIds \subseteq Nat /\ Prices \subseteq Nat \ {0}
    /\ Amounts \subseteq Nat \ {0}
    /\ FeeMin \in Nat /\ FeeMax \in Nat /\ FeeMin <= FeeMax
    /\ FeeShare \in Nat \ {0}
    /\ MaxOffers \in Nat /\ MaxLookups \in Nat
    /\ Start \in [Players -> [gold : Nat, goods : Nat]]

VARIABLES
    online,     \* players in the game
    memory,     \* [gold, goods] of the Player object (bankBalance, depot and inbox)
    record,     \* [gold, goods] of the player's rows in the database
    offers,     \* table market_offers: id -> row
    old,        \* the rows whose time is over
    history,    \* table market_history, by offer: pieces dealt, pieces at the end
    made,       \* pieces each offer was made for; 0: no such offer yet
    lookups     \* lookups of checkExpiredOffers: queued with ids, or answered with rows

wealthVars == <<online, memory, record>>
vars == <<wealthVars, offers, old, history, made, lookups>>

Row == [owner : Players, sale : BOOLEAN, price : Prices, amount : Nat \ {0}]
Nothing == [gold |-> 0, goods |-> 0]
NoRows == [i \in {} |-> 0]

\* A lookup asks for the offers that were over when it was queued.
Queued(ids) == [answered |-> FALSE, ids |-> ids, rows |-> NoRows]
Answer(rows) == [answered |-> TRUE, ids |-> {}, rows |-> rows]

-----------------------------------------------------------------------------
(* What a player owns, and where it is changed. *)

\* Mutant of Settle: the database is changed, whoever is online.
SettleRecords(gain) ==
    /\ record' = [q \in Players |-> [gold  |-> record[q].gold + gain[q].gold,
                                     goods |-> record[q].goods + gain[q].goods]]
    /\ UNCHANGED <<online, memory>>

\* Gains of gold and goods: getPlayerByGUID finds the Player of who is online, and the
\* rows of anybody else are changed (increaseBankBalance; load, add to inbox, save).
Settle(gain) ==
    LET After(own) == [q \in Players |->
              [gold |-> own[q].gold + gain[q].gold, goods |-> own[q].goods + gain[q].goods]]
    IN  /\ memory' = [q \in Players |-> IF q \in online THEN After(memory)[q] ELSE memory[q]]
        /\ record' = [q \in Players |-> IF q \in online THEN record[q] ELSE After(record)[q]]
        /\ UNCHANGED online

GainOf(p, gold, goods) ==
    [q \in Players |-> IF q = p THEN [gold |-> gold, goods |-> goods]
                                ELSE [gold |-> 0, goods |-> 0]]

Login(p) ==
    /\ p \notin online
    /\ online' = online \cup {p}
    /\ memory' = [memory EXCEPT ![p] = record[p]]
    /\ UNCHANGED <<record, offers, old, history, made, lookups>>

\* The Player object is saved and goes.
Logout(p) ==
    /\ p \in online
    /\ online' = online \ {p}
    /\ record' = [record EXCEPT ![p] = memory[p]]
    /\ memory' = [memory EXCEPT ![p] = Nothing]
    /\ UNCHANGED <<offers, old, history, made, lookups>>

-----------------------------------------------------------------------------
(* Offers. *)

Without(ids) == [j \in DOMAIN offers \ ids |-> offers[j]]

FeeOf(price, amount) ==
    LET share == (price * amount) \div FeeShare
    IN  IF share < FeeMin THEN FeeMin ELSE IF share > FeeMax THEN FeeMax ELSE share

\* IOMarket::getPlayerOfferCount
OfferCount(p) == Cardinality({i \in DOMAIN offers : offers[i].owner = p})

\* Mutant of Affords: the fee is not asked for.
AffordsWithoutFee(p, sale, price, amount) ==
    IF sale THEN memory[p].goods >= amount ELSE memory[p].gold >= price * amount

\* The two early returns of playerCreateMarketOffer, and its list of items.
Affords(p, sale, price, amount) ==
    LET fee == FeeOf(price, amount)
    IN  IF sale THEN memory[p].gold >= fee /\ memory[p].goods >= amount
                ELSE memory[p].gold >= price * amount + fee

\* Game::playerCreateMarketOffer
CreateOffer(p, id, sale, price, amount) ==
    LET fee == FeeOf(price, amount)
        o == [owner |-> p, sale |-> sale, price |-> price, amount |-> amount]
    IN  /\ p \in online
        /\ MaxOffers = 0 \/ OfferCount(p) < MaxOffers
        /\ Affords(p, sale, price, amount)
        /\ made[id] = 0 /\ \A j \in OfferIds : j < id => made[j] > 0
        /\ Settle(IF sale THEN GainOf(p, -fee, -amount)
                          ELSE GainOf(p, -fee - price * amount, 0))
        /\ offers' = [j \in DOMAIN offers \cup {id} |-> IF j = id THEN o ELSE offers[j]]
        /\ made' = [made EXCEPT ![id] = amount]
        /\ UNCHANGED <<old, history, lookups>>

\* IOMarket::moveOfferToHistory for the offers ids: what is left of each is written down.
MoveToHistory(ids) ==
    /\ offers' = Without(ids)
    /\ old' = old \ ids
    /\ history' = [j \in OfferIds |-> IF j \in ids
                     THEN [history[j] EXCEPT !.ended = offers[j].amount] ELSE history[j]]
    /\ UNCHANGED made

\* Game::playerCancelMarketOffer
CancelOffer(p, id) ==
    /\ p \in online
    /\ id \in DOMAIN offers /\ offers[id].owner = p
    /\ LET o == offers[id]
       IN  Settle(IF o.sale THEN GainOf(p, 0, o.amount)
                            ELSE GainOf(p, o.price * o.amount, 0))
    /\ MoveToHistory({id})
    /\ UNCHANGED lookups

\* Game::playerAcceptMarketOffer: goods go one way and gold the other; what is paid by
\* p is checked, what the owner gives was put aside when the offer was made.
DealGain(p, o, n) ==
    LET cost == o.price * n
        buyer == IF o.sale THEN p ELSE o.owner
        seller == IF o.sale THEN o.owner ELSE p
    IN  [q \in Players |->
           [gold  |-> (IF q = seller THEN cost ELSE 0)
                        - (IF q = p /\ o.sale THEN cost ELSE 0),
            goods |-> (IF q = buyer THEN n ELSE 0)
                        - (IF q = p /\ ~o.sale THEN n ELSE 0)]]

\* Mutant of Dealt: the pieces dealt are not subtracted from the offer.
DealtKept(id, n) ==
    /\ offers' = IF n = offers[id].amount THEN Without({id}) ELSE offers
    /\ old' = IF n = offers[id].amount THEN old \ {id} ELSE old

\* deleteOffer or acceptOffer: the offer is gone with its last piece.
Dealt(id, n) ==
    /\ offers' = IF n = offers[id].amount THEN Without({id})
                 ELSE [offers EXCEPT ![id].amount = @ - n]
    /\ old' = IF n = offers[id].amount THEN old \ {id} ELSE old

AcceptOffer(p, id, n) ==
    /\ p \in online
    /\ id \in DOMAIN offers
    /\ n <= offers[id].amount
    /\ IF offers[id].sale THEN memory[p].gold >= offers[id].price * n
                          ELSE memory[p].goods >= n
    /\ Settle(DealGain(p, offers[id], n))
    /\ history' = [history EXCEPT ![id].dealt = @ + n]
    /\ Dealt(id, n)
    /\ UNCHANGED <<made, lookups>>

-----------------------------------------------------------------------------
(* Offers that run out. *)

RunOut(id) ==
    /\ id \in DOMAIN offers \ old
    /\ old' = old \cup {id}
    /\ UNCHANGED <<wealthVars, offers, history, made, lookups>>

\* IOMarket::checkExpiredOffers: a query for the database thread.
CheckExpiredOffers ==
    /\ Len(lookups) < MaxLookups
    /\ lookups' = Append(lookups, Queued(old))
    /\ UNCHANGED <<wealthVars, offers, old, history, made>>

\* The database thread runs its queries in order; the rows are those of that moment.
AnswerLookup ==
    \E k \in DOMAIN lookups :
        /\ ~lookups[k].answered
        /\ \A j \in 1..(k - 1) : lookups[j].answered
        /\ lookups' = [lookups EXCEPT ![k] =
                         Answer([i \in @.ids \cap DOMAIN offers |-> offers[i]])]
        /\ UNCHANGED <<wealthVars, offers, old, history, made>>

\* moveOfferToHistory fails for the rows that are gone by now.
Live(rows) == DOMAIN rows \cap DOMAIN offers

\* Gold that is put aside for purchases, pieces that are put aside for sale.
Worth(rows) == [i \in DOMAIN rows |-> rows[i].price * rows[i].amount]
Pieces(rows) == [i \in DOMAIN rows |-> rows[i].amount]
Purchases(rows) == {i \in DOMAIN rows : ~rows[i].sale}
Sales(rows) == {i \in DOMAIN rows : rows[i].sale}

\* Mutant of GivenBack: sales are paid out like purchases.
GivenBackAsGold(rows) ==
    [q \in Players |->
        [gold |-> Total(Worth(rows), {i \in DOMAIN rows : rows[i].owner = q}), goods |-> 0]]

\* What each player gets back: by the row that was read, not by the row as it is now.
GivenBack(rows) ==
    [q \in Players |->
        [gold  |-> Total(Worth(rows), {i \in Purchases(rows) : rows[i].owner = q}),
         goods |-> Total(Pieces(rows), {i \in Sales(rows) : rows[i].owner = q})]]

\* IOMarket::processExpiredOffers, the callback of the oldest lookup.
ProcessExpiredOffers ==
    /\ lookups # <<>> /\ Head(lookups).answered
    /\ LET rows == Head(lookups).rows
           live == Live(rows)
       IN  /\ Settle(GivenBack([i \in live |-> rows[i]]))
           /\ MoveToHistory(live)
    /\ lookups' = Tail(lookups)

-----------------------------------------------------------------------------
Init ==
    /\ online = {}
    /\ memory = [p \in Players |-> Nothing]
    /\ record = Start
    /\ offers = NoRows
    /\ old = {}
    /\ history = [i \in OfferIds |-> [dealt |-> 0, ended |-> 0]]
    /\ made = [i \in OfferIds |-> 0]
    /\ lookups = <<>>

PlayerStep(p) ==
    \/ Login(p)
    \/ Logout(p)
    \/ \E id \in OfferIds, sale \in BOOLEAN, price \in Prices, amount \in Amounts :
          CreateOffer(p, id, sale, price, amount)
    \/ \E id \in OfferIds : CancelOffer(p, id)
    \/ \E id \in OfferIds, n \in Amounts : AcceptOffer(p, id, n)

Next ==
    \/ \E p \in Players : PlayerStep(p)
    \/ \E id \in OfferIds : RunOut(id)
    \/ CheckExpiredOffers
    \/ AnswerLookup
    \/ ProcessExpiredOffers

Spec == Init /\ [][Next]_vars

-----------------------------------------------------------------------------
(* Properties. *)

Own == [p \in Players |-> IF p \in online THEN memory[p] ELSE record[p]]

\* Types. Gold and goods are unsigned in the code: each subtraction needs its check.
MarketTypeOK ==
    /\ online \subseteq Players
    /\ memory \in [Players -> [gold : Nat, goods : Nat]]
    /\ record \in [Players -> [gold : Nat, goods : Nat]]
    /\ offers \in [DOMAIN offers -> Row]
    /\ DOMAIN offers \subseteq OfferIds
    /\ old \subseteq DOMAIN offers
    /\ history \in [OfferIds -> [dealt : Nat, ended : Nat]]
    /\ made \in [OfferIds -> Nat]
    /\ \A k \in DOMAIN lookups :
          lookups[k].rows \in [DOMAIN lookups[k].rows -> Row]

\* The history accounts for every piece: what was dealt, what was left at the end and
\* what is still on offer add up to what the offer was made for, so that no offer ends
\* twice or is dealt beyond its amount, however old the rows are that end it.
HistoryBalances ==
    \A i \in OfferIds :
        made[i] = history[i].dealt + history[i].ended
                    + (IF i \in DOMAIN offers THEN offers[i].amount ELSE 0)

Market == INSTANCE Escrow WITH wealth <- Own, contracts <- offers

\* Whatever the order of deals, logins, saves and late answers, the market moves gold
\* and goods between the players and what they put aside, of their own offers and deals
\* alone; only an offer that lapses may give back more than is left of it, up to what
\* it was made for (refinement).
ImplementsEscrow == Market!Spec

Gold == Total([p \in Players |-> Own[p].gold], Players) + Total(Worth(offers), Purchases(offers))
Goods == Total([p \in Players |-> Own[p].goods], Players) + Total(Pieces(offers), Sales(offers))

\* The answer that is processed next holds an offer that was dealt in part since.
AnswerIsStale ==
    /\ lookups # <<>> /\ Head(lookups).answered
    /\ \E i \in Live(Head(lookups).rows) : Head(lookups).rows[i].amount # offers[i].amount

\* Gold and goods are conserved but for the fee of a new offer and for one case: an
\* offer dealt in part after the lookup read it is given back by its old amount
\* (iomarket.cpp:131), which creates what was dealt since. Nothing is ever lost.
OnlyStaleAnswersCreate ==
    [][ \/ Goods' = Goods /\ Gold' = Gold
        \/ /\ \E p \in Players : OfferCount(p)' > OfferCount(p)
           /\ Goods' = Goods /\ Gold - Gold' \in FeeMin..FeeMax
        \/ AnswerIsStale /\ Goods' >= Goods /\ Gold' >= Gold ]_vars
=============================================================================
