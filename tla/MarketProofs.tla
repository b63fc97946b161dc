---------------------------- MODULE MarketProofs ----------------------------
(***************************************************************************)
(* Proofs about Market.tla, for any players, prices, amounts and offers.   *)
(*                                                                         *)
(* HistoryBalances is inductive once it is known that an offer in the table*)
(* has not ended: whatever ends offers (a player, or the answer of an old  *)
(* lookup) writes down the rows that are in the table now.                 *)
(*                                                                         *)
(* What there is of gold and goods is a sum over players and over offers.  *)
(* MarketInv knows that an amount in an old answer was never less than what*)
(* is on offer now (GoodRows), so that an answer can only give too much    *)
(* back; each handler changes one summand, or moves from one to another    *)
(* (Conserved). The same invariant carries the refinement of Escrow.       *)
(***************************************************************************)
EXTENDS Market, TotalProofs

TableTyped ==
    /\ DOMAIN offers \subseteq OfferIds
    /\ offers \in [DOMAIN offers -> Row]
    /\ history \in [OfferIds -> [dealt : Nat, ended : Nat]]
    /\ made \in [OfferIds -> Nat]

OpenNotEnded == \A i \in DOMAIN offers : history[i].ended = 0

HistoryInv == TableTyped /\ OpenNotEnded /\ HistoryBalances

\* An empty table, and offers that were never made.
LEMMA HistoryInit == Init => HistoryInv
  BY DEF Init, NoRows, HistoryInv, TableTyped, OpenNotEnded, HistoryBalances

\* Steps that change neither the table of offers nor the history.
LEMMA HistoryUntouched ==
  ASSUME HistoryInv, UNCHANGED <<offers, history, made>>
  PROVE  HistoryInv'
  BY DEF HistoryInv, TableTyped, OpenNotEnded, HistoryBalances

\* A new offer has an id that nothing was made, dealt or ended under.
LEMMA CreateKeeps ==
  ASSUME HistoryInv, NEW p \in Players, NEW id \in OfferIds, NEW sale \in BOOLEAN,
         NEW price \in Prices, NEW amount \in Amounts,
         CreateOffer(p, id, sale, price, amount)
  PROVE  HistoryInv'
  <1> DEFINE o == [owner |-> p, sale |-> sale, price |-> price, amount |-> amount]
  <1>1. /\ made[id] = 0 /\ made' = [made EXCEPT ![id] = amount]
        /\ offers' = [j \in DOMAIN offers \cup {id} |-> IF j = id THEN o ELSE offers[j]]
        /\ history' = history
    BY DEF CreateOffer
  <1>2. amount \in Nat \ {0} /\ o \in Row
    BY MarketAssumption DEF Row
  <1>3. id \notin DOMAIN offers /\ history[id].dealt = 0 /\ history[id].ended = 0
    <2>1. /\ history[id].dealt \in Nat /\ history[id].ended \in Nat
          /\ id \in DOMAIN offers => offers[id].amount \in Nat \ {0}
      BY DEF HistoryInv, TableTyped, Row
    <2>2. 0 = history[id].dealt + history[id].ended
                + (IF id \in DOMAIN offers THEN offers[id].amount ELSE 0)
      BY <1>1 DEF HistoryInv, HistoryBalances
    <2> QED
      BY <2>1, <2>2
  <1>4. /\ DOMAIN offers' = DOMAIN offers \cup {id}
        /\ offers'[id] = o
        /\ \A j \in DOMAIN offers : offers'[j] = offers[j]
    BY <1>1, <1>3
  <1>5. TableTyped'
    BY <1>1, <1>2, <1>3, <1>4 DEF HistoryInv, TableTyped
  <1>6. OpenNotEnded'
    BY <1>1, <1>3, <1>4 DEF HistoryInv, OpenNotEnded
  <1>7. HistoryBalances'
    <2> SUFFICES ASSUME NEW i \in OfferIds
                 PROVE  made'[i] = history'[i].dealt + history'[i].ended
                          + (IF i \in DOMAIN offers' THEN offers'[i].amount ELSE 0)
      BY DEF HistoryBalances
    <2>1. CASE i = id
      BY <1>1, <1>2, <1>3, <1>4, <2>1 DEF HistoryInv, TableTyped
    <2>2. CASE i # id
      BY <1>1, <1>4, <2>2 DEF HistoryInv, TableTyped, HistoryBalances
    <2> QED
      BY <2>1, <2>2
  <1> QED
    BY <1>5, <1>6, <1>7 DEF HistoryInv

\* Offers of the table that end leave it with all their pieces.
LEMMA EndKeeps ==
  ASSUME HistoryInv, NEW ids \in SUBSET DOMAIN offers, MoveToHistory(ids)
  PROVE  HistoryInv'
  <1>1. /\ made' = made
        /\ DOMAIN offers' = DOMAIN offers \ ids
        /\ \A j \in DOMAIN offers' : offers'[j] = offers[j]
    BY DEF MoveToHistory, Without
  <1>2. \A j \in OfferIds :
          /\ history'[j].dealt = history[j].dealt
          /\ history'[j].ended = IF j \in ids THEN offers[j].amount ELSE history[j].ended
    BY DEF MoveToHistory, HistoryInv, TableTyped
  <1>3. \A j \in ids : offers[j].amount \in Nat
    BY DEF HistoryInv, TableTyped, Row
  <1>4. TableTyped'
    <2>1. history' \in [OfferIds -> [dealt : Nat, ended : Nat]]
      BY <1>3 DEF MoveToHistory, HistoryInv, TableTyped
    <2>2. offers' \in [DOMAIN offers' -> Row]
      BY <1>1 DEF MoveToHistory, Without, HistoryInv, TableTyped
    <2> QED
      BY <1>1, <2>1, <2>2 DEF HistoryInv, TableTyped
  <1>5. OpenNotEnded'
    BY <1>1, <1>2 DEF HistoryInv, TableTyped, OpenNotEnded
  <1>6. HistoryBalances'
    <2> SUFFICES ASSUME NEW i \in OfferIds
                 PROVE  made'[i] = history'[i].dealt + history'[i].ended
                          + (IF i \in DOMAIN offers' THEN offers'[i].amount ELSE 0)
      BY DEF HistoryBalances
    <2>1. history[i].dealt \in Nat
      BY DEF HistoryInv, TableTyped
    <2>2. CASE i \in ids
      BY <1>1, <1>2, <1>3, <2>1, <2>2 DEF HistoryInv, OpenNotEnded, HistoryBalances
    <2>3. CASE i \notin ids
      BY <1>1, <1>2, <2>3 DEF HistoryInv, HistoryBalances
    <2> QED
      BY <2>2, <2>3
  <1> QED
    BY <1>4, <1>5, <1>6 DEF HistoryInv

\* A deal moves pieces from the offer to the history; the last piece closes the offer.
LEMMA DealKeeps ==
  ASSUME HistoryInv, NEW p \in Players, NEW id \in OfferIds, NEW n \in Amounts,
         AcceptOffer(p, id, n)
  PROVE  HistoryInv'
  <1>1. /\ id \in DOMAIN offers /\ n <= offers[id].amount
        /\ history' = [history EXCEPT ![id].dealt = @ + n]
        /\ offers' = IF n = offers[id].amount THEN Without({id})
                     ELSE [offers EXCEPT ![id].amount = @ - n]
        /\ made' = made
    BY DEF AcceptOffer, Dealt
  <1>2. n \in Nat \ {0} /\ offers[id] \in Row /\ offers[id].amount \in Nat \ {0}
    BY <1>1, MarketAssumption DEF HistoryInv, TableTyped, Row
  <1>3. \A j \in OfferIds :
          /\ history'[j].ended = history[j].ended
          /\ history'[j].dealt = IF j = id THEN history[j].dealt + n ELSE history[j].dealt
    BY <1>1 DEF HistoryInv, TableTyped
  <1>4. history' \in [OfferIds -> [dealt : Nat, ended : Nat]]
    BY <1>1, <1>2 DEF HistoryInv, TableTyped
  <1>5. CASE n = offers[id].amount
    <2>1. /\ DOMAIN offers' = DOMAIN offers \ {id}
          /\ \A j \in DOMAIN offers' : offers'[j] = offers[j]
      BY <1>1, <1>5 DEF Without
    <2>2. offers' \in [DOMAIN offers' -> Row]
      BY <1>1, <1>5 DEF Without, HistoryInv, TableTyped
    <2>3. TableTyped' /\ OpenNotEnded'
      BY <1>1, <1>3, <1>4, <2>1, <2>2 DEF HistoryInv, TableTyped, OpenNotEnded
    <2>4. HistoryBalances'
      <3> SUFFICES ASSUME NEW i \in OfferIds
                   PROVE  made'[i] = history'[i].dealt + history'[i].ended
                            + (IF i \in DOMAIN offers' THEN offers'[i].amount ELSE 0)
        BY DEF HistoryBalances
      <3>1. /\ made'[i] = history[i].dealt + history[i].ended
                          + (IF i \in DOMAIN offers THEN offers[i].amount ELSE 0)
            /\ history[i].dealt \in Nat /\ history[i].ended \in Nat
        BY <1>1 DEF HistoryInv, TableTyped, HistoryBalances
      <3>2. CASE i = id
        <4>1. made'[i] = history[i].dealt + history[i].ended + n
          BY <1>1, <1>5, <3>1, <3>2
        <4>2. /\ i \notin DOMAIN offers'
              /\ history'[i].dealt = history[i].dealt + n
              /\ history'[i].ended = history[i].ended
          BY <1>3, <2>1, <3>2
        <4> QED
          BY <1>2, <3>1, <4>1, <4>2
      <3>3. CASE i # id
        BY <1>3, <2>1, <3>1, <3>3
      <3> QED
        BY <3>2, <3>3
    <2> QED
      BY <2>3, <2>4 DEF HistoryInv
  <1>6. CASE n # offers[id].amount
    <2>1. /\ DOMAIN offers' = DOMAIN offers
          /\ offers'[id] = [offers[id] EXCEPT !.amount = @ - n]
          /\ \A j \in DOMAIN offers : j # id => offers'[j] = offers[j]
      BY <1>1, <1>6 DEF HistoryInv, TableTyped
    <2>2. offers[id].amount - n \in Nat \ {0}
      BY <1>1, <1>2, <1>6
    <2>3. offers'[id] \in Row /\ offers'[id].amount = offers[id].amount - n
      BY <1>2, <2>1, <2>2 DEF Row
    <2>4. offers' \in [DOMAIN offers' -> Row]
      BY <1>1, <1>6, <2>1, <2>3 DEF HistoryInv, TableTyped
    <2>5. TableTyped' /\ OpenNotEnded'
      BY <1>1, <1>3, <1>4, <2>1, <2>4 DEF HistoryInv, TableTyped, OpenNotEnded
    <2>6. HistoryBalances'
      <3> SUFFICES ASSUME NEW i \in OfferIds
                   PROVE  made'[i] = history'[i].dealt + history'[i].ended
                            + (IF i \in DOMAIN offers' THEN offers'[i].amount ELSE 0)
        BY DEF HistoryBalances
      <3>1. /\ made'[i] = history[i].dealt + history[i].ended
                          + (IF i \in DOMAIN offers THEN offers[i].amount ELSE 0)
            /\ history[i].dealt \in Nat /\ history[i].ended \in Nat
        BY <1>1 DEF HistoryInv, TableTyped, HistoryBalances
      <3>2. CASE i = id
        <4>1. made'[i] = history[i].dealt + history[i].ended + offers[id].amount
          BY <1>1, <3>1, <3>2
        <4>2. /\ i \in DOMAIN offers' /\ offers'[i].amount = offers[id].amount - n
              /\ history'[i].dealt = history[i].dealt + n
              /\ history'[i].ended = history[i].ended
          BY <1>1, <1>3, <2>1, <2>3, <3>2
        <4> QED
          BY <1>2, <3>1, <4>1, <4>2
      <3>3. CASE i # id
        BY <1>3, <2>1, <3>1, <3>3
      <3> QED
        BY <3>2, <3>3
    <2> QED
      BY <2>5, <2>6 DEF HistoryInv
  <1> QED
    BY <1>5, <1>6

\* Every step; the rows of an answer end only the offers that are still in the table.
LEMMA HistoryStep == HistoryInv /\ [Next]_vars => HistoryInv'
  <1> SUFFICES ASSUME HistoryInv, [Next]_vars PROVE HistoryInv'
    OBVIOUS
  <1>1. ASSUME NEW p \in Players, PlayerStep(p) PROVE HistoryInv'
    <2>1. CASE Login(p) \/ Logout(p)
      BY <2>1, HistoryUntouched DEF Login, Logout
    <2>2. CASE \E id \in OfferIds, sale \in BOOLEAN, price \in Prices, amount \in Amounts :
                 CreateOffer(p, id, sale, price, amount)
      BY <2>2, CreateKeeps
    <2>3. ASSUME NEW id \in OfferIds, CancelOffer(p, id) PROVE HistoryInv'
      <3>1. {id} \in SUBSET DOMAIN offers /\ MoveToHistory({id})
        BY <2>3 DEF CancelOffer
      <3> QED
        BY <3>1, EndKeeps
    <2>4. CASE \E id \in OfferIds, n \in Amounts : AcceptOffer(p, id, n)
      BY <2>4, DealKeeps
    <2> QED
      BY <1>1, <2>1, <2>2, <2>3, <2>4 DEF PlayerStep
  <1>2. CASE \/ \E id \in OfferIds : RunOut(id)
             \/ CheckExpiredOffers \/ AnswerLookup
    BY <1>2, HistoryUntouched DEF RunOut, CheckExpiredOffers, AnswerLookup
  <1>3. CASE ProcessExpiredOffers
    <2>1. PICK ids \in SUBSET DOMAIN offers : MoveToHistory(ids)
      BY <1>3 DEF ProcessExpiredOffers, Live
    <2> QED
      BY <2>1, EndKeeps
  <1>4. CASE UNCHANGED vars
    BY <1>4, HistoryUntouched DEF vars
  <1> QED
    BY <1>1, <1>2, <1>3, <1>4 DEF Next

\* For any number of offers and of late answers, each piece is dealt once, ended once or
\* still on offer (game.cpp:5213-5219, iomarket.cpp:269-309).
THEOREM HistoryAlwaysBalances == Spec => []HistoryBalances
  <1>1. HistoryInv => HistoryBalances
    BY DEF HistoryInv
  <1> QED
    BY <1>1, HistoryInit, HistoryStep, PTL DEF Spec

-----------------------------------------------------------------------------
(* What the players own, and what the rows of a lookup say. *)

Wealth == [gold : Nat, goods : Nat]
Gains == [Players -> [gold : Int, goods : Int]]

WealthTyped ==
    /\ online \subseteq Players
    /\ memory \in [Players -> Wealth]
    /\ record \in [Players -> Wealth]

SameOffer(o, r) == o.owner = r.owner /\ o.sale = r.sale /\ o.price = r.price

\* Rows that were read earlier tell an offer as it was made, but for its amount, which
\* can only have become smaller since.
GoodRows(rows, table, amounts) ==
    /\ DOMAIN rows \subseteq OfferIds
    /\ IsFiniteSet(DOMAIN rows)
    /\ rows \in [DOMAIN rows -> Row]
    /\ \A i \in DOMAIN rows :
          /\ rows[i].amount <= amounts[i]
          /\ i \in DOMAIN table => SameOffer(table[i], rows[i]) /\ table[i].amount <= rows[i].amount

Lookup ==
    [answered : BOOLEAN, ids : SUBSET OfferIds,
     rows : UNION {[D -> Row] : D \in SUBSET OfferIds}]

LookupsGood ==
    /\ lookups \in Seq(Lookup)
    /\ \A k \in DOMAIN lookups : GoodRows(lookups[k].rows, offers, made)

TableFinite == old \subseteq DOMAIN offers /\ IsFiniteSet(DOMAIN offers)

MarketInv == HistoryInv /\ WealthTyped /\ TableFinite /\ LookupsGood

LEMMA MarketInvTypes == MarketInv => MarketTypeOK
  <1>1. MarketInv => \A k \in DOMAIN lookups : lookups[k].rows \in [DOMAIN lookups[k].rows -> Row]
    BY DEF MarketInv, LookupsGood, GoodRows
  <1> QED
    BY <1>1 DEF MarketInv, HistoryInv, TableTyped, WealthTyped, TableFinite, MarketTypeOK, Wealth

LEMMA MarketInit == Init => MarketInv
  <1> SUFFICES ASSUME Init PROVE MarketInv
    OBVIOUS
  <1>1. WealthTyped
    BY MarketAssumption DEF Init, WealthTyped, Wealth, Nothing
  <1>2. TableFinite
    BY FS_EmptySet DEF Init, TableFinite, NoRows
  <1>3. LookupsGood
    BY DEF Init, LookupsGood
  <1> QED
    BY <1>1, <1>2, <1>3, HistoryInit DEF MarketInv

\* Gains that leave nobody in debt change what the players own by as much, whoever is
\* online.
LEMMA SettleMoves ==
  ASSUME WealthTyped, NEW gain \in Gains, Settle(gain),
         \A q \in Players : Own[q].gold + gain[q].gold >= 0 /\ Own[q].goods + gain[q].goods >= 0
  PROVE  /\ WealthTyped'
         /\ online' = online
         /\ Own' = [q \in Players |-> [gold  |-> Own[q].gold + gain[q].gold,
                                      goods |-> Own[q].goods + gain[q].goods]]
  <1> DEFINE After(own, q) == [gold |-> own[q].gold + gain[q].gold, goods |-> own[q].goods + gain[q].goods]
  <1>1. /\ online' = online
        /\ memory' = [q \in Players |-> IF q \in online THEN After(memory, q) ELSE memory[q]]
        /\ record' = [q \in Players |-> IF q \in online THEN record[q] ELSE After(record, q)]
    BY DEF Settle
  <1>2. \A q \in Players : Own[q] = IF q \in online THEN memory[q] ELSE record[q]
    BY DEF Own
  <1>3. \A q \in Players : /\ memory[q].gold \in Nat /\ memory[q].goods \in Nat
                          /\ record[q].gold \in Nat /\ record[q].goods \in Nat
                          /\ gain[q].gold \in Int /\ gain[q].goods \in Int
    BY DEF WealthTyped, Wealth, Gains
  <1>4. \A q \in online : After(memory, q) \in Wealth
    BY <1>2, <1>3 DEF Wealth, WealthTyped
  <1>5. \A q \in Players \ online : After(record, q) \in Wealth
    BY <1>2, <1>3 DEF Wealth
  <1>6. memory' \in [Players -> Wealth]
    BY <1>1, <1>4 DEF WealthTyped
  <1>7. record' \in [Players -> Wealth]
    BY <1>1, <1>5 DEF WealthTyped
  <1>8. Own' = [q \in Players |-> After(Own, q)]
    BY <1>1, <1>2 DEF Own
  <1> QED
    BY <1>1, <1>6, <1>7, <1>8 DEF WealthTyped

LEMMA OwnTyped ==
  ASSUME WealthTyped
  PROVE  Own \in [Players -> Wealth]
  BY DEF WealthTyped, Own

LEMMA OwnFields ==
  ASSUME WealthTyped, NEW q \in Players
  PROVE  /\ Own[q].gold \in Nat /\ Own[q].goods \in Nat
         /\ q \in online => Own[q] = memory[q]
  BY OwnTyped DEF Wealth, Own

\* A login loads what the save of the logout wrote.
LEMMA LoginLogout ==
  ASSUME WealthTyped, NEW p \in Players, Login(p) \/ Logout(p)
  PROVE  WealthTyped' /\ Own' = Own
  <1>1. CASE Login(p)
    BY <1>1 DEF Login, WealthTyped, Own
  <1>2. CASE Logout(p)
    BY <1>2 DEF Logout, WealthTyped, Own, Nothing, Wealth
  <1> QED
    BY <1>1, <1>2

\* Offers shrink, and ids are not given out again.
OffersShrink ==
    /\ \A i \in OfferIds : made[i] # 0 => made'[i] = made[i]
    /\ \A i \in DOMAIN offers' :
          \/ made[i] = 0
          \/ i \in DOMAIN offers /\ SameOffer(offers'[i], offers[i]) /\ offers'[i].amount <= offers[i].amount

LEMMA RowsStayGood ==
  ASSUME HistoryInv, HistoryInv', OffersShrink, NEW rows, GoodRows(rows, offers, made)
  PROVE  GoodRows(rows, offers', made')
  <1> SUFFICES ASSUME NEW i \in DOMAIN rows
               PROVE  /\ rows[i].amount <= made'[i]
                      /\ i \in DOMAIN offers' => /\ SameOffer(offers'[i], rows[i])
                                               /\ offers'[i].amount <= rows[i].amount
    BY DEF GoodRows, SameOffer
  <1>1. i \in OfferIds /\ rows[i].amount \in Nat \ {0} /\ made[i] \in Nat /\ rows[i].amount <= made[i]
    BY DEF GoodRows, Row, HistoryInv, TableTyped
  <1>2. made[i] # 0 /\ made'[i] = made[i]
    BY <1>1 DEF OffersShrink
  <1>3. ASSUME i \in DOMAIN offers'
        PROVE  SameOffer(offers'[i], rows[i]) /\ offers'[i].amount <= rows[i].amount
    <2>1. /\ i \in DOMAIN offers /\ SameOffer(offers'[i], offers[i])
          /\ offers'[i].amount <= offers[i].amount
      BY <1>2, <1>3 DEF OffersShrink
    <2>2. SameOffer(offers[i], rows[i]) /\ offers[i].amount <= rows[i].amount
      BY <2>1 DEF GoodRows
    <2>3. offers'[i].amount \in Nat /\ offers[i].amount \in Nat
      BY <1>3, <2>1 DEF HistoryInv, TableTyped, Row
    <2> QED
      BY <1>1, <2>1, <2>2, <2>3 DEF SameOffer
  <1> QED
    BY <1>1, <1>2, <1>3

LEMMA LookupsKept ==
  ASSUME MarketInv, HistoryInv', OffersShrink, lookups' = lookups
  PROVE  LookupsGood'
  <1>1. \A rows : GoodRows(rows, offers, made) => GoodRows(rows, offers', made')
    BY RowsStayGood DEF MarketInv
  <1> QED
    BY <1>1 DEF MarketInv, LookupsGood

LEMMA LookupDone ==
  ASSUME MarketInv, HistoryInv', OffersShrink, lookups # <<>>, lookups' = Tail(lookups)
  PROVE  LookupsGood'
  <1>1. \A rows : GoodRows(rows, offers, made) => GoodRows(rows, offers', made')
    BY RowsStayGood DEF MarketInv
  <1>2. lookups \in Seq(Lookup)
    BY DEF MarketInv, LookupsGood
  <1>3. Tail(lookups) \in Seq(Lookup) /\ Len(Tail(lookups)) = Len(lookups) - 1
    BY <1>2
  <1>4. \A k \in 1..Len(Tail(lookups)) : k + 1 \in 1..Len(lookups) /\ Tail(lookups)[k] = lookups[k + 1]
    BY <1>2, <1>3
  <1>5. \A k \in DOMAIN lookups : GoodRows(lookups[k].rows, offers', made')
    BY <1>1 DEF MarketInv, LookupsGood
  <1>6. \A k \in DOMAIN lookups' : GoodRows(lookups'[k].rows, offers', made')
    BY <1>2, <1>3, <1>4, <1>5
  <1> QED
    BY <1>3, <1>6 DEF LookupsGood

LEMMA EndShrinks ==
  ASSUME HistoryInv, NEW ids \in SUBSET DOMAIN offers, MoveToHistory(ids), TableFinite
  PROVE  OffersShrink /\ TableFinite'
  <1>1. /\ made' = made /\ old' = old \ ids
        /\ DOMAIN offers' = DOMAIN offers \ ids
        /\ \A j \in DOMAIN offers' : offers'[j] = offers[j]
    BY DEF MoveToHistory, Without
  <1>2. IsFiniteSet(DOMAIN offers')
    BY <1>1, FS_Subset DEF TableFinite
  <1>3. TableFinite'
    BY <1>1, <1>2 DEF TableFinite
  <1>4. \A i \in DOMAIN offers' : offers'[i].amount \in Nat
    BY <1>1 DEF HistoryInv, TableTyped, Row
  <1>5. OffersShrink
    BY <1>1, <1>4 DEF OffersShrink, SameOffer
  <1> QED
    BY <1>3, <1>5

LEMMA CreateShrinks ==
  ASSUME HistoryInv, NEW p \in Players, NEW id \in OfferIds, NEW sale \in BOOLEAN,
         NEW price \in Prices, NEW amount \in Amounts,
         CreateOffer(p, id, sale, price, amount), TableFinite
  PROVE  OffersShrink /\ TableFinite'
  <1>1. /\ made[id] = 0 /\ made' = [made EXCEPT ![id] = amount] /\ old' = old
        /\ DOMAIN offers' = DOMAIN offers \cup {id}
        /\ \A j \in DOMAIN offers : j # id => offers'[j] = offers[j]
    BY DEF CreateOffer
  <1>2. TableFinite'
    BY <1>1, FS_AddElement DEF TableFinite
  <1>3. \A i \in DOMAIN offers : offers[i].amount \in Nat
    BY DEF HistoryInv, TableTyped, Row
  <1>4. OffersShrink
    BY <1>1, <1>3 DEF OffersShrink, SameOffer, HistoryInv, TableTyped
  <1> QED
    BY <1>2, <1>4

LEMMA DealShrinks ==
  ASSUME HistoryInv, NEW p \in Players, NEW id \in OfferIds, NEW n \in Amounts,
         AcceptOffer(p, id, n), TableFinite
  PROVE  OffersShrink /\ TableFinite'
  <1>1. /\ id \in DOMAIN offers /\ n <= offers[id].amount /\ made' = made
        /\ n \in Nat
        /\ old' = IF n = offers[id].amount THEN old \ {id} ELSE old
    BY MarketAssumption DEF AcceptOffer, Dealt
  <1>2. \A i \in DOMAIN offers : offers[i] \in Row /\ offers[i].amount \in Nat
    BY DEF HistoryInv, TableTyped, Row
  <1>3. CASE n = offers[id].amount
    <2>1. /\ DOMAIN offers' = DOMAIN offers \ {id}
          /\ \A j \in DOMAIN offers' : offers'[j] = offers[j]
      BY <1>3 DEF AcceptOffer, Dealt, Without
    <2>2. TableFinite'
      BY <1>1, <1>3, <2>1, FS_Subset DEF TableFinite
    <2> QED
      BY <1>1, <1>2, <2>1, <2>2 DEF OffersShrink, SameOffer
  <1>4. CASE n # offers[id].amount
    <2>1. /\ DOMAIN offers' = DOMAIN offers
          /\ offers'[id] = [offers[id] EXCEPT !.amount = @ - n]
          /\ \A j \in DOMAIN offers : j # id => offers'[j] = offers[j]
      BY <1>1, <1>4 DEF AcceptOffer, Dealt, HistoryInv, TableTyped
    <2>2. TableFinite'
      BY <1>1, <1>4, <2>1 DEF TableFinite
    <2>3. SameOffer(offers'[id], offers[id]) /\ offers'[id].amount = offers[id].amount - n
      BY <1>1, <1>2, <2>1 DEF SameOffer, Row
    <2>4. \A i \in DOMAIN offers :
            SameOffer(offers'[i], offers[i]) /\ offers'[i].amount <= offers[i].amount
      <3> TAKE i \in DOMAIN offers
      <3>1. CASE i = id
        BY <1>1, <1>2, <2>3, <3>1
      <3>2. CASE i # id
        BY <1>2, <2>1, <3>2 DEF SameOffer
      <3> QED
        BY <3>1, <3>2
    <2>5. OffersShrink
      BY <1>1, <2>1, <2>4 DEF OffersShrink
    <2> QED
      BY <2>2, <2>5
  <1> QED
    BY <1>3, <1>4

\* The rows of a lookup are those of the moment it is answered in.
LEMMA AnswerKeeps == MarketInv /\ AnswerLookup => LookupsGood'
  <1> SUFFICES ASSUME MarketInv, AnswerLookup PROVE LookupsGood'
    OBVIOUS
  <1>1. PICK k \in DOMAIN lookups :
          lookups' = [lookups EXCEPT ![k] = Answer([i \in @.ids \cap DOMAIN offers |-> offers[i]])]
    BY DEF AnswerLookup
  <1>2. UNCHANGED <<offers, made>>
    BY DEF AnswerLookup
  <1>3. PICK rows : rows = [i \in lookups[k].ids \cap DOMAIN offers |-> offers[i]]
    OBVIOUS
  <1>4. /\ DOMAIN rows = lookups[k].ids \cap DOMAIN offers
        /\ \A i \in DOMAIN rows : rows[i] = offers[i]
        /\ rows \in [DOMAIN rows -> Row]
        /\ DOMAIN rows \subseteq OfferIds
    BY <1>3 DEF MarketInv, HistoryInv, TableTyped
  <1>5. IsFiniteSet(DOMAIN rows)
    BY <1>4, FS_Subset DEF MarketInv, TableFinite
  <1>6. \A i \in DOMAIN offers : offers[i].amount \in Nat /\ offers[i].amount <= made[i]
    <2> TAKE i \in DOMAIN offers
    <2>1. /\ made[i] = history[i].dealt + history[i].ended + offers[i].amount
          /\ history[i].dealt \in Nat /\ history[i].ended \in Nat /\ offers[i].amount \in Nat
      BY DEF MarketInv, HistoryInv, HistoryBalances, TableTyped, Row
    <2> QED
      BY <2>1
  <1>7. GoodRows(rows, offers, made)
    BY <1>4, <1>5, <1>6 DEF GoodRows, SameOffer
  <1>8. lookups' = [lookups EXCEPT ![k] = Answer(rows)]
    BY <1>1, <1>3
  <1>9. Answer(rows) \in Lookup /\ Answer(rows).rows = rows
    BY <1>4 DEF Answer, Lookup
  <1>10. lookups \in Seq(Lookup) /\ \A j \in DOMAIN lookups : GoodRows(lookups[j].rows, offers, made)
    BY DEF MarketInv, LookupsGood
  <1>11. lookups' \in Seq(Lookup) /\ DOMAIN lookups' = DOMAIN lookups
    BY <1>8, <1>9, <1>10
  <1>12. \A j \in DOMAIN lookups : GoodRows(lookups'[j].rows, offers, made)
    BY <1>7, <1>8, <1>9, <1>10
  <1>13. \A j \in DOMAIN lookups' : GoodRows(lookups'[j].rows, offers', made')
    BY <1>2, <1>11, <1>12
  <1> QED
    BY <1>11, <1>13 DEF LookupsGood

LEMMA CheckKeeps == MarketInv /\ CheckExpiredOffers => LookupsGood'
  <1> SUFFICES ASSUME MarketInv, CheckExpiredOffers PROVE LookupsGood'
    OBVIOUS
  <1>1. lookups' = Append(lookups, Queued(old)) /\ UNCHANGED <<offers, made>>
    BY DEF CheckExpiredOffers
  <1>2. lookups \in Seq(Lookup) /\ \A j \in DOMAIN lookups : GoodRows(lookups[j].rows, offers, made)
    BY DEF MarketInv, LookupsGood
  <1>3. NoRows \in [{} -> Row]
    BY DEF NoRows
  <1>4. Queued(old) \in Lookup /\ Queued(old).rows = NoRows
    BY <1>3 DEF Queued, Lookup, MarketInv, TableFinite, HistoryInv, TableTyped
  <1>5. GoodRows(NoRows, offers, made)
    BY <1>3, FS_EmptySet DEF GoodRows, NoRows
  <1>6. /\ lookups' \in Seq(Lookup) /\ Len(lookups') = Len(lookups) + 1
        /\ \A j \in 1..Len(lookups) : lookups'[j] = lookups[j]
        /\ lookups'[Len(lookups) + 1] = Queued(old)
    BY <1>1, <1>2, <1>4
  <1>7. \A j \in 1..Len(lookups') : GoodRows(lookups'[j].rows, offers, made)
    <2> TAKE j \in 1..Len(lookups')
    <2>1. CASE j \in 1..Len(lookups)
      BY <1>2, <1>6, <2>1
    <2>2. CASE j = Len(lookups) + 1
      BY <1>4, <1>5, <1>6, <2>2
    <2> QED
      BY <1>2, <1>6, <2>1, <2>2
  <1>8. \A j \in DOMAIN lookups' : GoodRows(lookups'[j].rows, offers', made')
    BY <1>1, <1>6, <1>7
  <1> QED
    BY <1>6, <1>8 DEF LookupsGood

-----------------------------------------------------------------------------
(* What each operation takes and gives. *)

LEMMA ProductNat == \A a, b \in Nat : a * b \in Nat
  OBVIOUS

LEMMA FeeBounds ==
  ASSUME NEW price \in Prices, NEW amount \in Amounts
  PROVE  FeeOf(price, amount) \in FeeMin..FeeMax /\ FeeOf(price, amount) \in Nat
  <1> DEFINE share == (price * amount) \div FeeShare
  <1>1. price * amount \in Nat
    BY MarketAssumption, ProductNat
  <1>2. share \in Int
    BY <1>1, MarketAssumption
  <1>3. FeeOf(price, amount) = IF share < FeeMin THEN FeeMin ELSE IF share > FeeMax THEN FeeMax ELSE share
    BY DEF FeeOf
  <1> HIDE DEF share
  <1> QED
    BY <1>2, <1>3, MarketAssumption

LEMMA GainOfMoves ==
  ASSUME WealthTyped, NEW p \in Players, NEW g \in Int, NEW d \in Int, Settle(GainOf(p, g, d)),
         Own[p].gold + g >= 0, Own[p].goods + d >= 0
  PROVE  /\ GainOf(p, g, d) \in Gains
         /\ WealthTyped' /\ online' = online
         /\ Own' = [q \in Players |-> [gold  |-> Own[q].gold + GainOf(p, g, d)[q].gold,
                                      goods |-> Own[q].goods + GainOf(p, g, d)[q].goods]]
  <1>1. GainOf(p, g, d) \in Gains
    BY DEF GainOf, Gains
  <1>2. ASSUME NEW q \in Players
        PROVE  /\ Own[q].gold + GainOf(p, g, d)[q].gold >= 0
               /\ Own[q].goods + GainOf(p, g, d)[q].goods >= 0
    <2>1. Own[q].gold \in Nat /\ Own[q].goods \in Nat
      BY OwnFields
    <2>2. CASE q = p
      BY <2>2 DEF GainOf
    <2>3. CASE q # p
      BY <2>1, <2>3 DEF GainOf
    <2> QED
      BY <2>2, <2>3
  <1> QED
    BY <1>1, <1>2, SettleMoves

\* A new offer is paid for: the fee, and what it puts aside.
PaidFor(p, sale, price, amount) ==
    \E fee \in FeeMin..FeeMax, cost \in Nat, g \in Int, d \in Int :
        /\ cost = price * amount
        /\ g = IF sale THEN -fee ELSE -fee - cost
        /\ d = IF sale THEN -amount ELSE 0
        /\ Own[p].gold >= IF sale THEN fee ELSE fee + cost
        /\ Own[p].goods >= IF sale THEN amount ELSE 0
        /\ Settle(GainOf(p, g, d))

LEMMA CreatePays ==
  ASSUME MarketInv, NEW p \in Players, NEW id \in OfferIds, NEW sale \in BOOLEAN,
         NEW price \in Prices, NEW amount \in Amounts,
         CreateOffer(p, id, sale, price, amount)
  PROVE  PaidFor(p, sale, price, amount)
  <1>1. PICK fee \in Nat : fee = FeeOf(price, amount) /\ fee \in FeeMin..FeeMax
    BY FeeBounds
  <1>2. PICK cost \in Nat : cost = price * amount
    BY MarketAssumption, ProductNat
  <1>3. p \in online /\ Affords(p, sale, price, amount)
    BY DEF CreateOffer
  <1>4. /\ Own[p] = memory[p]
        /\ Own[p].gold \in Nat /\ Own[p].goods \in Nat
    BY <1>3, OwnFields DEF MarketInv
  <1>5. Settle(IF sale THEN GainOf(p, -fee, -amount) ELSE GainOf(p, -fee - cost, 0))
    BY <1>1, <1>2 DEF CreateOffer
  <1>6. IF sale THEN Own[p].gold >= fee /\ Own[p].goods >= amount ELSE Own[p].gold >= cost + fee
    BY <1>1, <1>2, <1>3, <1>4 DEF Affords
  <1>7. amount \in Nat
    BY MarketAssumption
  <1>8. CASE sale
    <2>1. Settle(GainOf(p, -fee, -amount))
      BY <1>5, <1>8
    <2>2. -fee \in Int /\ -amount \in Int
      BY <1>1, <1>7
    <2> QED
      BY <1>1, <1>2, <1>6, <1>8, <2>1, <2>2 DEF PaidFor
  <1>9. CASE ~sale
    <2>1. Settle(GainOf(p, -fee - cost, 0))
      BY <1>5, <1>9
    <2>2. -fee - cost \in Int /\ cost + fee = fee + cost
      BY <1>1, <1>2
    <2>3. Own[p].gold >= fee + cost /\ Own[p].goods >= 0
      BY <1>4, <1>6, <1>9, <2>2
    <2> QED
      BY <1>1, <1>2, <1>9, <2>1, <2>2, <2>3 DEF PaidFor
  <1> QED
    BY <1>8, <1>9

LEMMA CancelPays ==
  ASSUME MarketInv, NEW p \in Players, NEW id \in OfferIds, CancelOffer(p, id)
  PROVE  /\ id \in DOMAIN offers /\ offers[id].owner = p /\ offers[id] \in Row
         /\ \E g \in Nat, d \in Nat :
               /\ g = IF offers[id].sale THEN 0 ELSE offers[id].price * offers[id].amount
               /\ d = IF offers[id].sale THEN offers[id].amount ELSE 0
               /\ Settle(GainOf(p, g, d))
  <1>1. /\ id \in DOMAIN offers /\ offers[id].owner = p
        /\ Settle(IF offers[id].sale THEN GainOf(p, 0, offers[id].amount)
                  ELSE GainOf(p, offers[id].price * offers[id].amount, 0))
    BY DEF CancelOffer
  <1>2. offers[id] \in Row
    BY <1>1 DEF MarketInv, HistoryInv, TableTyped
  <1>3. offers[id].amount \in Nat /\ offers[id].price \in Nat
    BY <1>2, MarketAssumption DEF Row
  <1>4. PICK cost \in Nat : cost = offers[id].price * offers[id].amount
    BY <1>3, ProductNat
  <1> QED
    BY <1>1, <1>2, <1>3, <1>4

\* A deal is paid by who makes it, out of what he owns.
LEMMA DealPays ==
  ASSUME MarketInv, NEW p \in Players, NEW id \in OfferIds, NEW n \in Amounts,
         AcceptOffer(p, id, n)
  PROVE  /\ id \in DOMAIN offers /\ offers[id] \in Row
         /\ n \in Nat \ {0} /\ n <= offers[id].amount
         /\ offers[id].price * n \in Nat
         /\ IF offers[id].sale THEN Own[p].gold >= offers[id].price * n ELSE Own[p].goods >= n
         /\ DealGain(p, offers[id], n) \in Gains
         /\ WealthTyped' /\ online' = online
         /\ Own' = [q \in Players |->
                [gold  |-> Own[q].gold + DealGain(p, offers[id], n)[q].gold,
                 goods |-> Own[q].goods + DealGain(p, offers[id], n)[q].goods]]
  <1>1. /\ id \in DOMAIN offers /\ n <= offers[id].amount /\ p \in online
        /\ IF offers[id].sale THEN memory[p].gold >= offers[id].price * n ELSE memory[p].goods >= n
        /\ Settle(DealGain(p, offers[id], n))
    BY DEF AcceptOffer
  <1>2. PICK o \in Row : o = offers[id]
    BY <1>1 DEF MarketInv, HistoryInv, TableTyped
  <1>3. n \in Nat \ {0} /\ o.price \in Nat /\ o.owner \in Players /\ o.sale \in BOOLEAN
    BY MarketAssumption DEF Row
  <1>4. PICK cost \in Nat : cost = o.price * n
    BY <1>3, ProductNat
  <1>5. /\ Own[p] = memory[p]
        /\ \A q \in Players : Own[q].gold \in Nat /\ Own[q].goods \in Nat
    BY <1>1, OwnFields DEF MarketInv
  <1>6. PICK gain : gain = DealGain(p, o, n)
    OBVIOUS
  <1>7. gain = [q \in Players |->
           [gold  |-> (IF q = (IF o.sale THEN o.owner ELSE p) THEN cost ELSE 0)
                        - (IF q = p /\ o.sale THEN cost ELSE 0),
            goods |-> (IF q = (IF o.sale THEN p ELSE o.owner) THEN n ELSE 0)
                        - (IF q = p /\ ~o.sale THEN n ELSE 0)]]
    BY <1>4, <1>6 DEF DealGain
  <1>8. gain \in Gains
    BY <1>3, <1>7 DEF Gains
  <1>9. ASSUME NEW q \in Players
        PROVE  Own[q].gold + gain[q].gold >= 0 /\ Own[q].goods + gain[q].goods >= 0
    <2>1. /\ gain[q].gold = (IF q = (IF o.sale THEN o.owner ELSE p) THEN cost ELSE 0)
                              - (IF q = p /\ o.sale THEN cost ELSE 0)
          /\ gain[q].goods = (IF q = (IF o.sale THEN p ELSE o.owner) THEN n ELSE 0)
                        - (IF q = p /\ ~o.sale THEN n ELSE 0)
      BY <1>7
    <2>2. Own[q].gold \in Nat /\ Own[q].goods \in Nat
      BY <1>5
    <2>3. IF o.sale THEN Own[p].gold >= cost ELSE Own[p].goods >= n
      BY <1>1, <1>2, <1>4, <1>5
    <2> QED
      BY <1>3, <2>1, <2>2, <2>3
  <1>10. /\ WealthTyped' /\ online' = online
         /\ Own' = [q \in Players |-> [gold  |-> Own[q].gold + gain[q].gold,
                                      goods |-> Own[q].goods + gain[q].goods]]
    <2>1. WealthTyped /\ Settle(gain)
      BY <1>1, <1>2, <1>6 DEF MarketInv
    <2> QED
      BY <1>8, <1>9, <2>1, SettleMoves
  <1>11. IF offers[id].sale THEN Own[p].gold >= offers[id].price * n ELSE Own[p].goods >= n
    BY <1>1, <1>5
  <1> QED
    BY <1>1, <1>2, <1>3, <1>4, <1>6, <1>8, <1>10, <1>11

\* The rows that are given back: offers of the table, by what was read of them.
LiveRows == [i \in Live(Head(lookups).rows) |-> Head(lookups).rows[i]]

LEMMA ExpiryPays ==
  ASSUME MarketInv, ProcessExpiredOffers
  PROVE  /\ DOMAIN LiveRows \subseteq DOMAIN offers /\ DOMAIN LiveRows \subseteq OfferIds
         /\ GoodRows(LiveRows, offers, made)
         /\ GivenBack(LiveRows) \in [Players -> Wealth]
         /\ MoveToHistory(DOMAIN LiveRows)
         /\ WealthTyped' /\ online' = online
         /\ Own' = [q \in Players |-> [gold  |-> Own[q].gold + GivenBack(LiveRows)[q].gold,
                                      goods |-> Own[q].goods + GivenBack(LiveRows)[q].goods]]
  <1>1. PICK read : read = Head(lookups).rows
    OBVIOUS
  <1>2. PICK rows : rows = LiveRows
    OBVIOUS
  <1>3. /\ DOMAIN rows = DOMAIN read \cap DOMAIN offers
        /\ \A i \in DOMAIN rows : rows[i] = read[i]
    BY <1>1, <1>2 DEF LiveRows, Live
  <1>4. GoodRows(read, offers, made)
    <2>1. lookups \in Seq(Lookup) /\ lookups # <<>>
      BY DEF MarketInv, LookupsGood, ProcessExpiredOffers
    <2>2. 1 \in DOMAIN lookups /\ Head(lookups) = lookups[1]
      BY <2>1
    <2> QED
      BY <1>1, <2>2 DEF MarketInv, LookupsGood
  <1>5. GoodRows(rows, offers, made)
    <2>1. IsFiniteSet(DOMAIN rows)
      BY <1>3, <1>4, FS_Subset DEF GoodRows
    <2>2. rows \in [DOMAIN rows -> Row]
      BY <1>2, <1>3, <1>4 DEF GoodRows, LiveRows
    <2> QED
      BY <1>3, <1>4, <2>1, <2>2 DEF GoodRows
  <1>6. /\ Settle(GivenBack(rows)) /\ MoveToHistory(DOMAIN rows)
    BY <1>2, <1>3 DEF ProcessExpiredOffers, LiveRows
  <1>7. \A i \in DOMAIN rows : Worth(rows)[i] \in Nat /\ Pieces(rows)[i] \in Nat
    <2> TAKE i \in DOMAIN rows
    <2>1. rows[i].price \in Nat /\ rows[i].amount \in Nat
      BY <1>5, MarketAssumption DEF GoodRows, Row
    <2> QED
      BY <2>1, ProductNat DEF Worth, Pieces
  <1>8. GivenBack(rows) \in [Players -> Wealth]
    <2>1. ASSUME NEW q \in Players
          PROVE  /\ Total(Worth(rows), {i \in Purchases(rows) : rows[i].owner = q}) \in Nat
                 /\ Total(Pieces(rows), {i \in Sales(rows) : rows[i].owner = q}) \in Nat
      <3>1. PICK bought \in SUBSET DOMAIN rows : bought = {i \in Purchases(rows) : rows[i].owner = q}
        BY DEF Purchases
      <3>2. PICK sold \in SUBSET DOMAIN rows : sold = {i \in Sales(rows) : rows[i].owner = q}
        BY DEF Sales
      <3>3. IsFiniteSet(bought) /\ IsFiniteSet(sold)
        BY <1>5, FS_Subset DEF GoodRows
      <3> QED
        BY <1>7, <3>1, <3>2, <3>3, TotalNat
    <2> QED
      BY <2>1 DEF GivenBack, Wealth
  <1>9. PICK gain \in [Players -> Wealth] : gain = GivenBack(rows)
    BY <1>8
  <1>10. /\ WealthTyped' /\ online' = online
         /\ Own' = [q \in Players |-> [gold  |-> Own[q].gold + gain[q].gold,
                                      goods |-> Own[q].goods + gain[q].goods]]
    <2>1. WealthTyped /\ Settle(gain)
      BY <1>6, <1>9 DEF MarketInv
    <2>2. gain \in Gains
      BY <1>9 DEF Gains, Wealth
    <2>3. \A q \in Players : gain[q].gold >= 0 /\ gain[q].goods >= 0
                            /\ gain[q].gold \in Nat /\ gain[q].goods \in Nat
      BY <1>9 DEF Wealth
    <2>4. \A q \in Players : Own[q].gold + gain[q].gold >= 0 /\ Own[q].goods + gain[q].goods >= 0
      BY <2>1, <2>3, OwnFields
    <2> QED
      BY <2>1, <2>2, <2>4, SettleMoves
  <1>11. DOMAIN rows \subseteq DOMAIN offers /\ DOMAIN rows \subseteq OfferIds
    BY <1>3 DEF MarketInv, HistoryInv, TableTyped
  <1> QED
    BY <1>2, <1>5, <1>6, <1>8, <1>9, <1>10, <1>11

LEMMA MarketStep == MarketInv /\ [Next]_vars => MarketInv'
  <1> SUFFICES ASSUME MarketInv, [Next]_vars PROVE MarketInv'
    OBVIOUS
  <1>1. HistoryInv /\ WealthTyped /\ TableFinite /\ HistoryInv'
    BY HistoryStep DEF MarketInv
  <1>2. ASSUME UNCHANGED <<offers, made, old, lookups>>
        PROVE  TableFinite' /\ LookupsGood'
    <2>1. OffersShrink
      BY <1>1, <1>2 DEF OffersShrink, SameOffer, HistoryInv, TableTyped, Row
    <2> QED
      BY <1>1, <1>2, <2>1, LookupsKept DEF TableFinite
  <1>3. ASSUME UNCHANGED wealthVars PROVE WealthTyped'
    BY <1>1, <1>3 DEF wealthVars, WealthTyped
  <1>4. ASSUME NEW p \in Players, Login(p) \/ Logout(p) PROVE MarketInv'
    <2>1. UNCHANGED <<offers, made, old, lookups>>
      BY <1>4 DEF Login, Logout
    <2> QED
      BY <1>1, <1>2, <1>4, <2>1, LoginLogout DEF MarketInv
  <1>5. ASSUME NEW p \in Players, NEW id \in OfferIds, NEW sale \in BOOLEAN,
               NEW price \in Prices, NEW amount \in Amounts,
               CreateOffer(p, id, sale, price, amount)
        PROVE  MarketInv'
    <2>1. OffersShrink /\ TableFinite'
      BY <1>1, <1>5, CreateShrinks
    <2>2. lookups' = lookups
      BY <1>5 DEF CreateOffer
    <2>3. PICK fee \in FeeMin..FeeMax, cost \in Nat, g \in Int, d \in Int :
            /\ g = IF sale THEN -fee ELSE -fee - cost
            /\ d = IF sale THEN -amount ELSE 0
            /\ Own[p].gold >= IF sale THEN fee ELSE fee + cost
            /\ Own[p].goods >= IF sale THEN amount ELSE 0
            /\ Settle(GainOf(p, g, d))
      <3>1. PaidFor(p, sale, price, amount)
        BY <1>5, CreatePays
      <3> QED
        BY <3>1 DEF PaidFor
    <2>4. Own[p].gold \in Nat /\ Own[p].goods \in Nat /\ amount \in Nat /\ fee \in Nat
      BY <1>1, <2>3, OwnFields, MarketAssumption
    <2>5. Own[p].gold + g >= 0 /\ Own[p].goods + d >= 0
      BY <2>3, <2>4
    <2>6. WealthTyped'
      BY <1>1, <2>3, <2>5, GainOfMoves
    <2> QED
      BY <1>1, <2>1, <2>2, <2>6, LookupsKept DEF MarketInv
  <1>6. ASSUME NEW p \in Players, NEW id \in OfferIds, CancelOffer(p, id) PROVE MarketInv'
    <2>1. {id} \in SUBSET DOMAIN offers /\ MoveToHistory({id}) /\ lookups' = lookups
      BY <1>6 DEF CancelOffer
    <2>2. OffersShrink /\ TableFinite'
      BY <1>1, <2>1, EndShrinks
    <2>3. PICK g \in Nat, d \in Nat : Settle(GainOf(p, g, d))
      BY <1>6, CancelPays
    <2>4. g \in Int /\ d \in Int /\ Own[p].gold + g >= 0 /\ Own[p].goods + d >= 0
      BY <1>1, <2>3, OwnFields
    <2>5. WealthTyped'
      BY <1>1, <2>3, <2>4, GainOfMoves
    <2> QED
      BY <1>1, <2>1, <2>2, <2>5, LookupsKept DEF MarketInv
  <1>7. ASSUME NEW p \in Players, NEW id \in OfferIds, NEW n \in Amounts, AcceptOffer(p, id, n)
        PROVE  MarketInv'
    <2>1. OffersShrink /\ TableFinite'
      BY <1>1, <1>7, DealShrinks
    <2>2. lookups' = lookups
      BY <1>7 DEF AcceptOffer
    <2>3. WealthTyped'
      BY <1>7, DealPays
    <2> QED
      BY <1>1, <2>1, <2>2, <2>3, LookupsKept DEF MarketInv
  <1>8. ASSUME NEW id \in OfferIds, RunOut(id) PROVE MarketInv'
    <2>1. /\ UNCHANGED <<offers, made, lookups>> /\ UNCHANGED wealthVars
          /\ id \in DOMAIN offers /\ old' = old \cup {id}
      BY <1>8 DEF RunOut
    <2>2. TableFinite'
      BY <1>1, <2>1 DEF TableFinite
    <2>3. LookupsGood'
      BY <2>1 DEF MarketInv, LookupsGood
    <2> QED
      BY <1>1, <1>3, <2>1, <2>2, <2>3 DEF MarketInv
  <1>9. CASE CheckExpiredOffers \/ AnswerLookup
    <2>1. UNCHANGED wealthVars /\ UNCHANGED <<offers, old>>
      BY <1>9 DEF CheckExpiredOffers, AnswerLookup
    <2>2. TableFinite'
      BY <1>1, <2>1 DEF TableFinite
    <2>3. LookupsGood'
      BY <1>9, CheckKeeps, AnswerKeeps
    <2> QED
      BY <1>1, <1>3, <2>1, <2>2, <2>3 DEF MarketInv
  <1>10. CASE ProcessExpiredOffers
    <2>1. PICK ids \in SUBSET DOMAIN offers : MoveToHistory(ids)
      BY <1>10, ExpiryPays
    <2>2. OffersShrink /\ TableFinite'
      BY <1>1, <2>1, EndShrinks
    <2>3. WealthTyped'
      BY <1>10, ExpiryPays
    <2>4. LookupsGood'
      BY <1>1, <1>10, <2>2, LookupDone DEF ProcessExpiredOffers
    <2> QED
      BY <1>1, <2>2, <2>3, <2>4 DEF MarketInv
  <1>11. CASE UNCHANGED vars
    <2>1. UNCHANGED <<offers, made, old, lookups>> /\ UNCHANGED wealthVars
      BY <1>11 DEF vars
    <2> QED
      BY <1>1, <1>2, <1>3, <2>1 DEF MarketInv
  <1> QED
    BY <1>4, <1>5, <1>6, <1>7, <1>8, <1>9, <1>10, <1>11 DEF Next, PlayerStep

LEMMA MarketAlwaysInv == Spec => []MarketInv
  BY MarketInit, MarketStep, PTL DEF Spec

\* Nobody is ever charged more than he owns: the checks before each subtraction of the
\* code's unsigned counters suffice, however old the rows are that are given back
\* (game.cpp:4937-4947, 5083-5110, 5177-5182, iomarket.cpp:126-190).
THEOREM MarketTypes == Spec => []MarketTypeOK
  BY MarketAlwaysInv, MarketInvTypes, PTL

-----------------------------------------------------------------------------
(* Gold and goods: what the players own and what the offers put aside. *)

Golds(gain) == [q \in Players |-> gain[q].gold]
Wares(gain) == [q \in Players |-> gain[q].goods]
AsideGold(rows) == Total(Worth(rows), Purchases(rows))
AsideGoods(rows) == Total(Pieces(rows), Sales(rows))

Table(rows) == IsFiniteSet(DOMAIN rows) /\ rows \in [DOMAIN rows -> Row]

LEMMA TableSums ==
  ASSUME NEW rows, Table(rows), NEW s \in SUBSET DOMAIN rows
  PROVE  /\ Summable(Worth(rows), s) /\ Summable(Pieces(rows), s)
         /\ \A i \in s : /\ Worth(rows)[i] \in Nat /\ Pieces(rows)[i] \in Nat
                        /\ Worth(rows)[i] = rows[i].price * rows[i].amount
                        /\ Pieces(rows)[i] = rows[i].amount
  <1>1. \A i \in DOMAIN rows : rows[i].price \in Nat /\ rows[i].amount \in Nat
    BY MarketAssumption DEF Table, Row
  <1>2. \A i \in DOMAIN rows : Worth(rows)[i] \in Nat /\ Pieces(rows)[i] \in Nat
    BY <1>1, ProductNat DEF Worth, Pieces
  <1>3. IsFiniteSet(s)
    BY FS_Subset DEF Table
  <1> QED
    BY <1>2, <1>3 DEF Summable, Worth, Pieces

LEMMA AsideTypes ==
  ASSUME NEW rows, Table(rows)
  PROVE  AsideGold(rows) \in Int /\ AsideGoods(rows) \in Int
  BY TableSums, TotalType DEF AsideGold, AsideGoods, Purchases, Sales

\* Rows that are taken out of a table.
LEMMA TakeOut ==
  ASSUME NEW rows, Table(rows), NEW ids \in SUBSET DOMAIN rows,
         NEW less, less = [j \in DOMAIN rows \ ids |-> rows[j]]
  PROVE  /\ Table(less)
         /\ AsideGold(rows) = AsideGold(less) + Total(Worth(rows), Purchases(rows) \cap ids)
         /\ AsideGoods(rows) = AsideGoods(less) + Total(Pieces(rows), Sales(rows) \cap ids)
  <1>1. Table(less)
    BY FS_Subset DEF Table
  <1>2. /\ Purchases(less) = Purchases(rows) \ ids
        /\ Sales(less) = Sales(rows) \ ids
        /\ \A i \in DOMAIN less : Worth(less)[i] = Worth(rows)[i] /\ Pieces(less)[i] = Pieces(rows)[i]
    BY DEF Purchases, Sales, Worth, Pieces
  <1>3. AsideGold(rows) = AsideGold(less) + Total(Worth(rows), Purchases(rows) \cap ids)
    <2>1. PICK bought \in SUBSET DOMAIN rows : bought = Purchases(rows)
      BY DEF Purchases
    <2>2. PICK kept \in SUBSET DOMAIN rows, out \in SUBSET DOMAIN rows :
            kept = bought \ ids /\ out = bought \cap ids
      OBVIOUS
    <2>3. Summable(Worth(rows), kept) /\ Summable(Worth(rows), out)
      BY TableSums
    <2>4. bought = kept \cup out /\ kept \cap out = {}
      BY <2>2
    <2>5. Total(Worth(rows), bought) = Total(Worth(rows), kept) + Total(Worth(rows), out)
      BY <2>3, <2>4, TotalUnion
    <2>6. kept = Purchases(less) /\ kept \subseteq DOMAIN less
      BY <1>2, <2>1, <2>2 DEF Purchases
    <2>7. Total(Worth(less), kept) = Total(Worth(rows), kept)
      BY <1>2, <2>3, <2>6, TotalSame
    <2> QED
      BY <2>1, <2>2, <2>5, <2>6, <2>7 DEF AsideGold
  <1>4. AsideGoods(rows) = AsideGoods(less) + Total(Pieces(rows), Sales(rows) \cap ids)
    <2>1. PICK sold \in SUBSET DOMAIN rows : sold = Sales(rows)
      BY DEF Sales
    <2>2. PICK kept \in SUBSET DOMAIN rows, out \in SUBSET DOMAIN rows :
            kept = sold \ ids /\ out = sold \cap ids
      OBVIOUS
    <2>3. Summable(Pieces(rows), kept) /\ Summable(Pieces(rows), out)
      BY TableSums
    <2>4. sold = kept \cup out /\ kept \cap out = {}
      BY <2>2
    <2>5. Total(Pieces(rows), sold) = Total(Pieces(rows), kept) + Total(Pieces(rows), out)
      BY <2>3, <2>4, TotalUnion
    <2>6. kept = Sales(less) /\ kept \subseteq DOMAIN less
      BY <1>2, <2>1, <2>2 DEF Sales
    <2>7. Total(Pieces(less), kept) = Total(Pieces(rows), kept)
      BY <1>2, <2>3, <2>6, TotalSame
    <2> QED
      BY <2>1, <2>2, <2>5, <2>6, <2>7 DEF AsideGoods
  <1> QED
    BY <1>1, <1>3, <1>4

LEMMA TakeOneOut ==
  ASSUME NEW rows, Table(rows), NEW id \in DOMAIN rows,
         NEW less, less = [j \in DOMAIN rows \ {id} |-> rows[j]]
  PROVE  /\ Table(less)
         /\ AsideGold(rows) = AsideGold(less)
              + (IF rows[id].sale THEN 0 ELSE rows[id].price * rows[id].amount)
         /\ AsideGoods(rows) = AsideGoods(less) + (IF rows[id].sale THEN rows[id].amount ELSE 0)
  <1>1. {id} \in SUBSET DOMAIN rows
    OBVIOUS
  <1>2. /\ Table(less)
        /\ AsideGold(rows) = AsideGold(less) + Total(Worth(rows), Purchases(rows) \cap {id})
        /\ AsideGoods(rows) = AsideGoods(less) + Total(Pieces(rows), Sales(rows) \cap {id})
    BY <1>1, TakeOut
  <1>3. /\ Worth(rows)[id] \in Int /\ Pieces(rows)[id] \in Int
        /\ Worth(rows)[id] = rows[id].price * rows[id].amount
        /\ Pieces(rows)[id] = rows[id].amount
    BY <1>1, TableSums
  <1>4. CASE rows[id].sale
    <2>1. Purchases(rows) \cap {id} = {} /\ Sales(rows) \cap {id} = {id}
      BY <1>4 DEF Purchases, Sales
    <2> QED
      BY <1>2, <1>3, <1>4, <2>1, TotalEmpty, TotalOne
  <1>5. CASE ~rows[id].sale
    <2>1. Purchases(rows) \cap {id} = {id} /\ Sales(rows) \cap {id} = {}
      BY <1>5 DEF Purchases, Sales
    <2> QED
      BY <1>2, <1>3, <1>5, <2>1, TotalEmpty, TotalOne
  <1> QED
    BY <1>4, <1>5

\* The same of a table that has one more row.
OneMore(more, less, id) ==
    /\ AsideGold(more) = AsideGold(less)
          + (IF more[id].sale THEN 0 ELSE more[id].price * more[id].amount)
    /\ AsideGoods(more) = AsideGoods(less) + (IF more[id].sale THEN more[id].amount ELSE 0)

LEMMA PutOneIn ==
  ASSUME NEW more, Table(more), NEW id \in DOMAIN more,
         NEW less, Table(less), DOMAIN less = DOMAIN more \ {id},
         \A j \in DOMAIN less : more[j] = less[j]
  PROVE  OneMore(more, less, id)
  <1>1. less = [j \in DOMAIN more \ {id} |-> more[j]]
    BY DEF Table
  <1> QED
    BY <1>1, TakeOneOut DEF OneMore

\* Pieces that are taken off a row.
TakenOff(rows, less, id, n) ==
    /\ AsideGold(rows) = AsideGold(less) + (IF rows[id].sale THEN 0 ELSE rows[id].price * n)
    /\ AsideGoods(rows) = AsideGoods(less) + (IF rows[id].sale THEN n ELSE 0)

LEMMA TakePiecesOff ==
  ASSUME NEW rows, Table(rows), NEW id \in DOMAIN rows, NEW n \in Nat, n < rows[id].amount,
         NEW less, less = [rows EXCEPT ![id].amount = @ - n]
  PROVE  Table(less) /\ TakenOff(rows, less, id, n)
  <1>1. PICK a \in Nat, pr \in Nat : a = rows[id].amount /\ pr = rows[id].price /\ rows[id] \in Row
    BY MarketAssumption DEF Table, Row
  <1>2. /\ DOMAIN less = DOMAIN rows
        /\ less[id] = [rows[id] EXCEPT !.amount = a - n]
        /\ \A j \in DOMAIN rows : j # id => less[j] = rows[j]
    BY <1>1
  <1>3. a - n \in Nat \ {0}
    BY <1>1
  <1>4. less[id] \in Row /\ less[id].amount = a - n /\ less[id].price = pr
        /\ less[id].sale = rows[id].sale
    BY <1>1, <1>2, <1>3 DEF Row
  <1>5. Table(less)
    BY <1>2, <1>4 DEF Table
  <1>6. Purchases(less) = Purchases(rows) /\ Sales(less) = Sales(rows)
    BY <1>2, <1>4 DEF Purchases, Sales
  <1>7. PICK bought \in SUBSET DOMAIN rows, sold \in SUBSET DOMAIN rows :
          bought = Purchases(rows) /\ sold = Sales(rows)
    BY DEF Purchases, Sales
  <1>8. /\ Summable(Worth(rows), bought) /\ Summable(Worth(less), bought)
        /\ Summable(Pieces(rows), sold) /\ Summable(Pieces(less), sold)
    BY <1>2, <1>5, TableSums
  <1>9. /\ Worth(rows)[id] = pr * a /\ Worth(less)[id] = pr * (a - n)
        /\ Pieces(rows)[id] = a /\ Pieces(less)[id] = a - n
        /\ \A j \in DOMAIN rows : j # id => /\ Worth(less)[j] = Worth(rows)[j]
                                           /\ Pieces(less)[j] = Pieces(rows)[j]
    BY <1>1, <1>2, <1>4 DEF Worth, Pieces
  <1>10. PICK left \in Nat, taken \in Nat : left = pr * (a - n) /\ taken = pr * n
    BY <1>3, ProductNat
  <1>11. pr * a = left + taken
    <2>1. \A x, y, z \in Int : x * y = x * (y - z) + x * z
      OBVIOUS
    <2> QED
      BY <1>10, <2>1
  <1>12. CASE rows[id].sale
    <2>1. id \in sold /\ id \notin bought
      BY <1>7, <1>12 DEF Purchases, Sales
    <2>2. Total(Worth(less), bought) = Total(Worth(rows), bought)
      <3>1. \A j \in bought : Worth(less)[j] = Worth(rows)[j]
        BY <1>9, <2>1
      <3>2. PICK f, g : f = Worth(rows) /\ g = Worth(less)
        OBVIOUS
      <3>3. Summable(f, bought) /\ \A j \in bought : g[j] = f[j]
        BY <1>8, <3>1, <3>2
      <3>4. Total(g, bought) = Total(f, bought)
        BY <3>3, TotalSame
      <3> QED
        BY <3>2, <3>4
    <2>3. Total(Pieces(less), sold) = Total(Pieces(rows), sold) + (a - n) - a
      <3>1. PICK f, g : f = Pieces(rows) /\ g = Pieces(less)
        OBVIOUS
      <3>2. /\ Summable(f, sold) /\ Summable(g, sold) /\ id \in sold
            /\ \A j \in sold \ {id} : g[j] = f[j]
        BY <1>8, <1>9, <2>1, <3>1
      <3>3. Total(g, sold) = Total(f, sold) + g[id] - f[id]
        BY <3>2, TotalExcept
      <3>4. Total(Pieces(less), sold) = Total(Pieces(rows), sold) + Pieces(less)[id] - Pieces(rows)[id]
        BY <3>1, <3>3
      <3> QED
        BY <1>9, <3>4
    <2>4. Total(Pieces(rows), sold) \in Int /\ Total(Worth(rows), bought) \in Int
      BY <1>8, TotalType
    <2>5. AsideGold(rows) = AsideGold(less) + 0
      BY <1>6, <1>7, <2>2, <2>4 DEF AsideGold
    <2>6. AsideGoods(rows) = AsideGoods(less) + n
      BY <1>1, <1>6, <1>7, <2>3, <2>4 DEF AsideGoods
    <2> QED
      BY <1>5, <1>12, <2>5, <2>6 DEF TakenOff
  <1>13. CASE ~rows[id].sale
    <2>1. id \notin sold /\ id \in bought
      BY <1>7, <1>13 DEF Purchases, Sales
    <2>2. Total(Pieces(less), sold) = Total(Pieces(rows), sold)
      <3>1. \A j \in sold : Pieces(less)[j] = Pieces(rows)[j]
        BY <1>9, <2>1
      <3>2. PICK f, g : f = Pieces(rows) /\ g = Pieces(less)
        OBVIOUS
      <3>3. Summable(f, sold) /\ \A j \in sold : g[j] = f[j]
        BY <1>8, <3>1, <3>2
      <3>4. Total(g, sold) = Total(f, sold)
        BY <3>3, TotalSame
      <3> QED
        BY <3>2, <3>4
    <2>3. Total(Worth(less), bought) = Total(Worth(rows), bought) + left - (left + taken)
      <3>1. PICK f, g : f = Worth(rows) /\ g = Worth(less)
        OBVIOUS
      <3>2. /\ Summable(f, bought) /\ Summable(g, bought) /\ id \in bought
            /\ \A j \in bought \ {id} : g[j] = f[j]
        BY <1>8, <1>9, <2>1, <3>1
      <3>3. Total(g, bought) = Total(f, bought) + g[id] - f[id]
        BY <3>2, TotalExcept
      <3>4. Total(Worth(less), bought) = Total(Worth(rows), bought) + Worth(less)[id] - Worth(rows)[id]
        BY <3>1, <3>3
      <3> QED
        BY <1>9, <1>10, <1>11, <3>4
    <2>4. Total(Pieces(rows), sold) \in Int /\ Total(Worth(rows), bought) \in Int
      BY <1>8, TotalType
    <2>5. AsideGoods(rows) = AsideGoods(less) + 0
      BY <1>6, <1>7, <2>2, <2>4 DEF AsideGoods
    <2>6. AsideGold(rows) = AsideGold(less) + taken
      BY <1>6, <1>7, <1>10, <2>3, <2>4 DEF AsideGold
    <2> QED
      BY <1>1, <1>5, <1>10, <1>13, <2>5, <2>6 DEF TakenOff
  <1> QED
    BY <1>12, <1>13

\* What everybody owns changes by what everybody gains.
LEMMA OwnTotals ==
  ASSUME WealthTyped, NEW gain \in Gains,
         Own' = [q \in Players |-> [gold  |-> Own[q].gold + gain[q].gold,
                                  goods |-> Own[q].goods + gain[q].goods]]
  PROVE  /\ Total(Golds(Own'), Players) = Total(Golds(Own), Players) + Total(Golds(gain), Players)
         /\ Total(Wares(Own'), Players) = Total(Wares(Own), Players) + Total(Wares(gain), Players)
  <1>1. PICK f, g, h : f = Golds(Own) /\ g = Golds(gain) /\ h = Golds(Own')
    OBVIOUS
  <1>2. PICK a, b, c : a = Wares(Own) /\ b = Wares(gain) /\ c = Wares(Own')
    OBVIOUS
  <1>3. ASSUME NEW q \in Players
        PROVE  /\ f[q] \in Int /\ g[q] \in Int /\ h[q] = f[q] + g[q]
               /\ a[q] \in Int /\ b[q] \in Int /\ c[q] = a[q] + b[q]
    <2>1. Own[q].gold \in Nat /\ Own[q].goods \in Nat
      BY OwnFields
    <2>2. gain[q].gold \in Int /\ gain[q].goods \in Int
      BY DEF Gains
    <2>3. f[q] = Own[q].gold /\ g[q] = gain[q].gold /\ h[q] = Own[q].gold + gain[q].gold
      BY <1>1 DEF Golds
    <2>4. a[q] = Own[q].goods /\ b[q] = gain[q].goods /\ c[q] = Own[q].goods + gain[q].goods
      BY <1>2 DEF Wares
    <2> QED
      BY <2>1, <2>2, <2>3, <2>4
  <1>4. /\ Summable(f, Players) /\ Summable(g, Players)
        /\ Summable(a, Players) /\ Summable(b, Players)
    BY <1>3, MarketAssumption DEF Summable
  <1>5. /\ Total(h, Players) = Total(f, Players) + Total(g, Players)
        /\ Total(c, Players) = Total(a, Players) + Total(b, Players)
    BY <1>3, <1>4, TotalPlus
  <1> QED
    BY <1>1, <1>2, <1>5

LEMMA OwnTotalTypes ==
  ASSUME WealthTyped
  PROVE  Total(Golds(Own), Players) \in Int /\ Total(Wares(Own), Players) \in Int
  <1>1. \A q \in Players : Golds(Own)[q] \in Int /\ Wares(Own)[q] \in Int
    BY OwnFields DEF Golds, Wares
  <1>2. Summable(Golds(Own), Players) /\ Summable(Wares(Own), Players)
    BY <1>1, MarketAssumption DEF Summable
  <1> QED
    BY <1>2, TotalType

LEMMA GainOfTotals ==
  ASSUME NEW p \in Players, NEW g \in Int, NEW d \in Int
  PROVE  /\ Total(Golds(GainOf(p, g, d)), Players) = g
         /\ Total(Wares(GainOf(p, g, d)), Players) = d
  <1>1. PICK f, h : /\ f = Golds(GainOf(p, g, d))
                    /\ h = Wares(GainOf(p, g, d))
    OBVIOUS
  <1>2. /\ f[p] = g /\ h[p] = d
        /\ \A q \in Players \ {p} : f[q] = 0 /\ h[q] = 0
    BY <1>1 DEF GainOf, Golds, Wares
  <1>3. \A q \in Players : f[q] \in Int /\ h[q] \in Int
    BY <1>2
  <1>4. Summable(f, Players) /\ Summable(h, Players)
    BY <1>3, MarketAssumption DEF Summable
  <1>5. Total(f, Players) = f[p] /\ Total(h, Players) = h[p]
    BY <1>2, <1>4, TotalPoint
  <1> QED
    BY <1>1, <1>2, <1>5

\* In a deal the gold that one pays the other gets; of a purchase it was put aside.
LEMMA DealTotals ==
  ASSUME NEW p \in Players, NEW o \in Row, NEW n \in Nat
  PROVE  /\ Total(Golds(DealGain(p, o, n)), Players) = IF o.sale THEN 0 ELSE o.price * n
         /\ Total(Wares(DealGain(p, o, n)), Players) = IF o.sale THEN n ELSE 0
  <1>1. PICK cost \in Nat : cost = o.price * n
    BY MarketAssumption, ProductNat DEF Row
  <1>2. o.owner \in Players /\ o.sale \in BOOLEAN
    BY DEF Row
  <1>3. PICK seller \in Players, buyer \in Players :
          /\ seller = IF o.sale THEN o.owner ELSE p
          /\ buyer = IF o.sale THEN p ELSE o.owner
    BY <1>2
  <1>4. PICK paid \in Int, given \in Int :
          paid = (IF o.sale THEN -cost ELSE 0) /\ given = IF o.sale THEN 0 ELSE -n
    <2>1. -cost \in Int /\ -n \in Int
      BY <1>1
    <2> QED
      BY <1>2, <2>1
  <1>5. PICK f, g, h, a, b, c :
          /\ f = Golds(GainOf(seller, cost, 0))
          /\ g = Golds(GainOf(p, paid, given))
          /\ h = Golds(DealGain(p, o, n))
          /\ a = Wares(GainOf(buyer, 0, n))
          /\ b = Wares(GainOf(p, paid, given))
          /\ c = Wares(DealGain(p, o, n))
    OBVIOUS
  <1>6. ASSUME NEW q \in Players
        PROVE  /\ f[q] \in Int /\ g[q] \in Int /\ h[q] = f[q] + g[q]
               /\ a[q] \in Int /\ b[q] \in Int /\ c[q] = a[q] + b[q]
    <2>1. /\ f[q] = (IF q = seller THEN cost ELSE 0) /\ g[q] = (IF q = p THEN paid ELSE 0)
          /\ a[q] = (IF q = buyer THEN n ELSE 0) /\ b[q] = (IF q = p THEN given ELSE 0)
      BY <1>5 DEF GainOf, Golds, Wares
    <2>2. /\ h[q] = (IF q = seller THEN cost ELSE 0) - (IF q = p /\ o.sale THEN cost ELSE 0)
          /\ c[q] = (IF q = buyer THEN n ELSE 0) - (IF q = p /\ ~o.sale THEN n ELSE 0)
      BY <1>1, <1>3, <1>5 DEF DealGain, Golds, Wares
    <2>3. \A x, y \in Int : x - y = x + -y /\ x - 0 = x + 0
      OBVIOUS
    <2>4. h[q] = f[q] + g[q]
      BY <1>1, <1>4, <2>1, <2>2, <2>3
    <2>5. c[q] = a[q] + b[q]
      BY <1>4, <2>1, <2>2, <2>3
    <2> QED
      BY <1>1, <1>4, <2>1, <2>4, <2>5
  <1>7. /\ Summable(f, Players) /\ Summable(g, Players)
        /\ Summable(a, Players) /\ Summable(b, Players)
    BY <1>6, MarketAssumption DEF Summable
  <1>8. /\ Total(h, Players) = Total(f, Players) + Total(g, Players)
        /\ Total(c, Players) = Total(a, Players) + Total(b, Players)
    BY <1>6, <1>7, TotalPlus
  <1>9. Total(f, Players) = cost /\ Total(g, Players) = paid
    <2>1. Total(Golds(GainOf(seller, cost, 0)), Players) = cost
      BY <1>1, <1>3, GainOfTotals
    <2>2. Total(Golds(GainOf(p, paid, given)), Players) = paid
      BY <1>4, GainOfTotals
    <2> QED
      BY <1>5, <2>1, <2>2
  <1>10. Total(a, Players) = n /\ Total(b, Players) = given
    <2>1. Total(Wares(GainOf(buyer, 0, n)), Players) = n
      BY <1>3, GainOfTotals
    <2>2. Total(Wares(GainOf(p, paid, given)), Players) = given
      BY <1>4, GainOfTotals
    <2> QED
      BY <1>5, <2>1, <2>2
  <1>11. Total(h, Players) = IF o.sale THEN 0 ELSE cost
    BY <1>4, <1>8, <1>9
  <1>12. Total(c, Players) = IF o.sale THEN n ELSE 0
    BY <1>4, <1>8, <1>10
  <1> QED
    BY <1>1, <1>5, <1>11, <1>12

\* Each row is given back to one player.
LEMMA GivenBackTotals ==
  ASSUME NEW rows, Table(rows)
  PROVE  /\ Total(Golds(GivenBack(rows)), Players) = AsideGold(rows)
         /\ Total(Wares(GivenBack(rows)), Players) = AsideGoods(rows)
  <1>1. PICK owner : owner = [i \in DOMAIN rows |-> rows[i].owner]
    OBVIOUS
  <1>2. \A i \in DOMAIN rows : owner[i] = rows[i].owner /\ owner[i] \in Players
    BY <1>1 DEF Table, Row
  <1>3. PICK bought \in SUBSET DOMAIN rows, sold \in SUBSET DOMAIN rows :
          bought = Purchases(rows) /\ sold = Sales(rows)
    BY DEF Purchases, Sales
  <1>4. Summable(Worth(rows), bought) /\ Summable(Pieces(rows), sold)
    BY TableSums
  <1>5. PICK f, g : f = Worth(rows) /\ g = Pieces(rows)
    OBVIOUS
  <1>6. PICK x, y : /\ x = Golds(GivenBack(rows))
                    /\ y = Wares(GivenBack(rows))
    OBVIOUS
  <1>7. PICK buys, sells :
          /\ buys = [q \in Players |-> {i \in bought : owner[i] = q}]
          /\ sells = [q \in Players |-> {i \in sold : owner[i] = q}]
    OBVIOUS
  <1>8. /\ \A q \in Players : buys[q] = {i \in bought : owner[i] = q}
        /\ \A q \in Players : sells[q] = {i \in sold : owner[i] = q}
    BY <1>7
  <1>9. ASSUME NEW q \in Players
        PROVE  x[q] = Total(f, buys[q]) /\ y[q] = Total(g, sells[q])
    <2>1. /\ {i \in bought : owner[i] = q} = {i \in Purchases(rows) : rows[i].owner = q}
          /\ {i \in sold : owner[i] = q} = {i \in Sales(rows) : rows[i].owner = q}
      BY <1>2, <1>3
    <2> QED
      BY <1>5, <1>6, <1>8, <2>1 DEF GivenBack, Golds, Wares
  <1>10. \A i \in bought : owner[i] \in Players
    BY <1>2
  <1>11. \A i \in sold : owner[i] \in Players
    BY <1>2
  <1>12. Summable(f, bought) /\ Summable(g, sold) /\ IsFiniteSet(Players)
    BY <1>4, <1>5, MarketAssumption
  <1>13. Total(x, Players) = Total(f, bought)
    BY <1>8, <1>9, <1>10, <1>12, TotalByOwner
  <1>14. Total(y, Players) = Total(g, sold)
    BY <1>8, <1>9, <1>11, <1>12, TotalByOwner
  <1> QED
    BY <1>3, <1>5, <1>6, <1>13, <1>14 DEF AsideGold, AsideGoods

-----------------------------------------------------------------------------
(* Conservation. *)

LEMMA AllGold ==
  /\ Gold = Total(Golds(Own), Players) + AsideGold(offers)
  /\ Goods = Total(Wares(Own), Players) + AsideGoods(offers)
  /\ Gold' = Total(Golds(Own'), Players) + AsideGold(offers')
  /\ Goods' = Total(Wares(Own'), Players) + AsideGoods(offers')
  BY DEF Gold, Goods, Golds, Wares, AsideGold, AsideGoods

LEMMA OffersTable ==
  ASSUME MarketInv
  PROVE  Table(offers)
  BY DEF MarketInv, HistoryInv, TableTyped, TableFinite, Table

\* A creation costs its fee; what the offer is worth is put aside.
LEMMA CreateConserves ==
  ASSUME MarketInv, MarketInv', NEW p \in Players, NEW id \in OfferIds, NEW sale \in BOOLEAN,
         NEW price \in Prices, NEW amount \in Amounts,
         CreateOffer(p, id, sale, price, amount)
  PROVE  Goods' = Goods /\ Gold - Gold' \in FeeMin..FeeMax /\ OfferCount(p)' > OfferCount(p)
  <1>1. WealthTyped /\ Table(offers) /\ Table(offers')
    BY OffersTable DEF MarketInv, HistoryInv, TableTyped, TableFinite, Table
  <1>2. PICK fee \in FeeMin..FeeMax, cost \in Nat, g \in Int, d \in Int :
            /\ cost = price * amount
            /\ g = IF sale THEN -fee ELSE -fee - cost
            /\ d = IF sale THEN -amount ELSE 0
            /\ Own[p].gold >= IF sale THEN fee ELSE fee + cost
            /\ Own[p].goods >= IF sale THEN amount ELSE 0
            /\ Settle(GainOf(p, g, d))
    <2>1. PaidFor(p, sale, price, amount)
      BY CreatePays
    <2> QED
      BY <2>1 DEF PaidFor
  <1>3. /\ Own[p].gold \in Nat /\ Own[p].goods \in Nat /\ amount \in Nat
        /\ fee \in Nat /\ fee \in FeeMin..FeeMax
    BY <1>1, <1>2, OwnFields, MarketAssumption
  <1>4. Own[p].gold + g >= 0 /\ Own[p].goods + d >= 0
    BY <1>2, <1>3
  <1>5. PICK gain \in Gains :
          /\ gain = GainOf(p, g, d)
          /\ Own' = [q \in Players |-> [gold  |-> Own[q].gold + gain[q].gold,
                                       goods |-> Own[q].goods + gain[q].goods]]
    BY <1>1, <1>2, <1>4, GainOfMoves
  <1>6. /\ Total(Golds(Own'), Players) = Total(Golds(Own), Players) + Total(Golds(gain), Players)
        /\ Total(Wares(Own'), Players) = Total(Wares(Own), Players) + Total(Wares(gain), Players)
    BY <1>1, <1>5, OwnTotals
  <1>7. Total(Golds(gain), Players) = g /\ Total(Wares(gain), Players) = d
    BY <1>5, GainOfTotals
  <1>8. id \notin DOMAIN offers
    <2>1. made[id] = 0
      BY DEF CreateOffer
    <2>2. /\ made[id] = history[id].dealt + history[id].ended
                          + (IF id \in DOMAIN offers THEN offers[id].amount ELSE 0)
          /\ history[id].dealt \in Nat /\ history[id].ended \in Nat
          /\ id \in DOMAIN offers => offers[id].amount \in Nat \ {0}
      BY DEF MarketInv, HistoryInv, HistoryBalances, TableTyped, Row
    <2> QED
      BY <2>1, <2>2
  <1>9. /\ id \in DOMAIN offers'
        /\ DOMAIN offers' = DOMAIN offers \cup {id}
        /\ offers'[id] = [owner |-> p, sale |-> sale, price |-> price, amount |-> amount]
        /\ \A j \in DOMAIN offers : offers'[j] = offers[j]
    BY <1>8 DEF CreateOffer
  <1>10. DOMAIN offers = DOMAIN offers' \ {id}
    BY <1>8, <1>9
  <1>11. /\ AsideGold(offers') = AsideGold(offers) + (IF sale THEN 0 ELSE cost)
         /\ AsideGoods(offers') = AsideGoods(offers) + (IF sale THEN amount ELSE 0)
    <2>1. PICK more, less : more = offers' /\ less = offers
      OBVIOUS
    <2>2. OneMore(more, less, id)
      <3>1. /\ Table(more) /\ id \in DOMAIN more /\ Table(less)
            /\ DOMAIN less = DOMAIN more \ {id} /\ \A j \in DOMAIN less : more[j] = less[j]
        BY <1>1, <1>9, <1>10, <2>1
      <3> QED
        BY <3>1, PutOneIn
    <2>3. more[id].sale = sale /\ more[id].price * more[id].amount = cost /\ more[id].amount = amount
      BY <1>2, <1>9, <2>1
    <2> QED
      BY <2>1, <2>2, <2>3 DEF OneMore
  <1>12. PICK a \in Int, b \in Int, x \in Int, y \in Int :
           /\ a = Total(Golds(Own), Players) /\ b = Total(Wares(Own), Players)
           /\ x = AsideGold(offers) /\ y = AsideGoods(offers)
    BY <1>1, OwnTotalTypes, AsideTypes
  <1>13. Gold = a + x /\ Gold' = (a + g) + (x + (IF sale THEN 0 ELSE cost))
    BY <1>6, <1>7, <1>11, <1>12, AllGold
  <1>14. Goods = b + y /\ Goods' = (b + d) + (y + (IF sale THEN amount ELSE 0))
    BY <1>6, <1>7, <1>11, <1>12, AllGold
  <1>15. Goods' = Goods /\ Gold - Gold' = fee
    BY <1>2, <1>3, <1>12, <1>13, <1>14
  <1>16. OfferCount(p)' > OfferCount(p)
    <2>1. PICK mine \in SUBSET DOMAIN offers : mine = {i \in DOMAIN offers : offers[i].owner = p}
      OBVIOUS
    <2>2. {i \in DOMAIN offers' : offers'[i].owner = p} = mine \cup {id}
      BY <1>8, <1>9, <2>1
    <2>3. IsFiniteSet(mine) /\ id \notin mine
      BY <1>1, <1>8, <2>1, FS_Subset DEF Table
    <2>4. Cardinality(mine \cup {id}) = Cardinality(mine) + 1 /\ Cardinality(mine) \in Nat
      BY <2>3, FS_AddElement, FS_CardinalityType
    <2>5. OfferCount(p) = Cardinality(mine) /\ OfferCount(p)' = Cardinality(mine \cup {id})
      BY <2>1, <2>2 DEF OfferCount
    <2> QED
      BY <2>4, <2>5
  <1> QED
    BY <1>3, <1>15, <1>16

LEMMA CancelConserves ==
  ASSUME MarketInv, NEW p \in Players, NEW id \in OfferIds, CancelOffer(p, id)
  PROVE  Goods' = Goods /\ Gold' = Gold
  <1>1. WealthTyped /\ Table(offers)
    BY OffersTable DEF MarketInv
  <1>2. id \in DOMAIN offers /\ offers[id] \in Row
    BY CancelPays
  <1>3. PICK g \in Nat, d \in Nat :
               /\ g = IF offers[id].sale THEN 0 ELSE offers[id].price * offers[id].amount
               /\ d = IF offers[id].sale THEN offers[id].amount ELSE 0
               /\ Settle(GainOf(p, g, d))
    BY CancelPays
  <1>4. g \in Int /\ d \in Int /\ Own[p].gold + g >= 0 /\ Own[p].goods + d >= 0
    BY <1>1, <1>3, OwnFields
  <1>5. PICK gain \in Gains :
          /\ gain = GainOf(p, g, d)
          /\ Own' = [q \in Players |-> [gold  |-> Own[q].gold + gain[q].gold,
                                       goods |-> Own[q].goods + gain[q].goods]]
    BY <1>1, <1>3, <1>4, GainOfMoves
  <1>6. /\ Total(Golds(Own'), Players) = Total(Golds(Own), Players) + Total(Golds(gain), Players)
        /\ Total(Wares(Own'), Players) = Total(Wares(Own), Players) + Total(Wares(gain), Players)
    BY <1>1, <1>5, OwnTotals
  <1>7. Total(Golds(gain), Players) = g /\ Total(Wares(gain), Players) = d
    BY <1>4, <1>5, GainOfTotals
  <1>8. offers' = [j \in DOMAIN offers \ {id} |-> offers[j]]
    BY DEF CancelOffer, MoveToHistory, Without
  <1>9. /\ Table(offers')
        /\ AsideGold(offers) = AsideGold(offers') + g
        /\ AsideGoods(offers) = AsideGoods(offers') + d
    BY <1>1, <1>2, <1>3, <1>8, TakeOneOut
  <1>10. PICK a \in Int, b \in Int, x \in Int, y \in Int :
           /\ a = Total(Golds(Own), Players) /\ b = Total(Wares(Own), Players)
           /\ x = AsideGold(offers') /\ y = AsideGoods(offers')
    BY <1>1, <1>9, OwnTotalTypes, AsideTypes
  <1>11. Gold = a + (x + g) /\ Gold' = (a + g) + x
    BY <1>6, <1>7, <1>9, <1>10, AllGold
  <1>12. Goods = b + (y + d) /\ Goods' = (b + d) + y
    BY <1>6, <1>7, <1>9, <1>10, AllGold
  <1> QED
    BY <1>4, <1>10, <1>11, <1>12

LEMMA DealConserves ==
  ASSUME MarketInv, NEW p \in Players, NEW id \in OfferIds, NEW n \in Amounts,
         AcceptOffer(p, id, n)
  PROVE  Goods' = Goods /\ Gold' = Gold
  <1>1. WealthTyped /\ Table(offers)
    BY OffersTable DEF MarketInv
  <1>2. /\ id \in DOMAIN offers /\ n \in Nat \ {0} /\ n <= offers[id].amount
    BY DealPays
  <1>3. PICK o \in Row, cost \in Nat : o = offers[id] /\ cost = o.price * n
    BY DealPays
  <1>4. PICK gain \in Gains :
          /\ gain = DealGain(p, o, n)
          /\ Own' = [q \in Players |-> [gold  |-> Own[q].gold + gain[q].gold,
                                       goods |-> Own[q].goods + gain[q].goods]]
    BY <1>3, DealPays
  <1>5. /\ Total(Golds(Own'), Players) = Total(Golds(Own), Players) + Total(Golds(gain), Players)
        /\ Total(Wares(Own'), Players) = Total(Wares(Own), Players) + Total(Wares(gain), Players)
    BY <1>1, <1>4, OwnTotals
  <1>6. PICK g \in Nat, d \in Nat :
          g = (IF o.sale THEN 0 ELSE cost) /\ d = (IF o.sale THEN n ELSE 0)
    BY <1>2
  <1>7. Total(Golds(gain), Players) = g /\ Total(Wares(gain), Players) = d
    BY <1>2, <1>3, <1>4, <1>6, DealTotals
  <1>8. /\ Table(offers')
        /\ AsideGold(offers) = AsideGold(offers') + g
        /\ AsideGoods(offers) = AsideGoods(offers') + d
    <2>1. CASE n = o.amount
      <3>1. offers' = [j \in DOMAIN offers \ {id} |-> offers[j]]
        BY <1>3, <2>1 DEF AcceptOffer, Dealt, Without
      <3>2. /\ g = (IF offers[id].sale THEN 0 ELSE offers[id].price * offers[id].amount)
            /\ d = (IF offers[id].sale THEN offers[id].amount ELSE 0)
        BY <1>3, <1>6, <2>1
      <3> QED
        BY <1>1, <1>2, <3>1, <3>2, TakeOneOut
    <2>2. CASE n # o.amount
      <3>1. offers' = [offers EXCEPT ![id].amount = @ - n]
        BY <1>3, <2>2 DEF AcceptOffer, Dealt
      <3>2. n \in Nat /\ n < offers[id].amount
        BY <1>2, <1>3, <2>2 DEF Row
      <3>3. /\ g = (IF offers[id].sale THEN 0 ELSE offers[id].price * n)
            /\ d = (IF offers[id].sale THEN n ELSE 0)
        BY <1>3, <1>6
      <3>4. PICK rows, less : rows = offers /\ less = offers'
        OBVIOUS
      <3>5. /\ Table(rows) /\ id \in DOMAIN rows /\ n \in Nat /\ n < rows[id].amount
            /\ less = [rows EXCEPT ![id].amount = @ - n]
        BY <1>1, <1>2, <3>1, <3>2, <3>4
      <3>6. Table(less) /\ TakenOff(rows, less, id, n)
        BY <3>5, TakePiecesOff
      <3> QED
        BY <3>3, <3>4, <3>6 DEF TakenOff
    <2> QED
      BY <2>1, <2>2
  <1>9. PICK a \in Int, b \in Int, x \in Int, y \in Int :
           /\ a = Total(Golds(Own), Players) /\ b = Total(Wares(Own), Players)
           /\ x = AsideGold(offers') /\ y = AsideGoods(offers')
    BY <1>1, <1>8, OwnTotalTypes, AsideTypes
  <1>10. Gold = a + (x + g) /\ Gold' = (a + g) + x
    BY <1>5, <1>7, <1>8, <1>9, AllGold
  <1>11. Goods = b + (y + d) /\ Goods' = (b + d) + y
    BY <1>5, <1>7, <1>8, <1>9, AllGold
  <1> QED
    BY <1>6, <1>9, <1>10, <1>11

\* What is given back is worth what was taken out of the table, or more if the rows are
\* stale.
LEMMA ExpiryConserves ==
  ASSUME MarketInv, ProcessExpiredOffers
  PROVE  \/ Goods' = Goods /\ Gold' = Gold
         \/ AnswerIsStale /\ Goods' >= Goods /\ Gold' >= Gold
  <1>1. WealthTyped /\ Table(offers)
    BY OffersTable DEF MarketInv
  <1>2. PICK rows : rows = LiveRows
    OBVIOUS
  <1>3. /\ DOMAIN rows \subseteq DOMAIN offers
        /\ GoodRows(rows, offers, made)
        /\ MoveToHistory(DOMAIN rows)
    BY <1>2, ExpiryPays
  <1>4. PICK gain \in Gains :
          /\ gain = GivenBack(rows)
          /\ Own' = [q \in Players |-> [gold  |-> Own[q].gold + gain[q].gold,
                                       goods |-> Own[q].goods + gain[q].goods]]
    <2>1. GivenBack(rows) \in [Players -> Wealth]
      BY <1>2, ExpiryPays
    <2>2. GivenBack(rows) \in Gains
      BY <2>1 DEF Gains, Wealth
    <2> QED
      BY <1>2, <2>2, ExpiryPays
  <1>5. /\ Total(Golds(Own'), Players) = Total(Golds(Own), Players) + Total(Golds(gain), Players)
        /\ Total(Wares(Own'), Players) = Total(Wares(Own), Players) + Total(Wares(gain), Players)
    BY <1>1, <1>4, OwnTotals
  <1>6. Table(rows)
    BY <1>3 DEF GoodRows, Table
  <1>7. Total(Golds(gain), Players) = AsideGold(rows) /\ Total(Wares(gain), Players) = AsideGoods(rows)
    BY <1>4, <1>6, GivenBackTotals
  <1>8. PICK bought \in SUBSET DOMAIN rows, sold \in SUBSET DOMAIN rows :
          bought = Purchases(rows) /\ sold = Sales(rows)
    BY DEF Purchases, Sales
  <1>9. Purchases(offers) \cap DOMAIN rows = bought /\ Sales(offers) \cap DOMAIN rows = sold
    BY <1>3, <1>8 DEF Purchases, Sales, GoodRows, SameOffer
  <1>10. PICK f, g, v, w :
           f = Worth(offers) /\ g = Worth(rows) /\ v = Pieces(offers) /\ w = Pieces(rows)
    OBVIOUS
  <1>11. /\ Summable(f, bought) /\ Summable(g, bought)
         /\ Summable(v, sold) /\ Summable(w, sold)
    <2>1. bought \in SUBSET DOMAIN offers /\ sold \in SUBSET DOMAIN offers
      BY <1>3
    <2> QED
      BY <1>1, <1>6, <1>10, <2>1, TableSums
  <1>12. /\ Table(offers')
         /\ AsideGold(offers) = AsideGold(offers') + Total(f, bought)
         /\ AsideGoods(offers) = AsideGoods(offers') + Total(v, sold)
    <2>1. offers' = [j \in DOMAIN offers \ DOMAIN rows |-> offers[j]]
      BY <1>3 DEF MoveToHistory, Without
    <2>2. DOMAIN rows \in SUBSET DOMAIN offers
      BY <1>3
    <2> QED
      BY <1>1, <1>9, <1>10, <2>1, <2>2, TakeOut
  <1>13. AsideGold(rows) = Total(g, bought) /\ AsideGoods(rows) = Total(w, sold)
    BY <1>8, <1>10 DEF AsideGold, AsideGoods
  <1>14. PICK a \in Int, b \in Int, x \in Int, y \in Int :
           /\ a = Total(Golds(Own), Players) /\ b = Total(Wares(Own), Players)
           /\ x = AsideGold(offers') /\ y = AsideGoods(offers')
    BY <1>1, <1>12, OwnTotalTypes, AsideTypes
  <1>15. PICK was \in Int, paid \in Int, less \in Int, more \in Int :
           /\ was = Total(f, bought) /\ paid = Total(g, bought)
           /\ less = Total(v, sold) /\ more = Total(w, sold)
    BY <1>11, TotalType
  <1>16. Gold = a + (x + was) /\ Gold' = (a + paid) + x
    BY <1>5, <1>7, <1>12, <1>13, <1>14, <1>15, AllGold
  <1>17. Goods = b + (y + less) /\ Goods' = (b + more) + y
    BY <1>5, <1>7, <1>12, <1>13, <1>14, <1>15, AllGold
  <1>18. ASSUME NEW i \in DOMAIN rows
         PROVE  /\ f[i] <= g[i] /\ v[i] <= w[i]
                /\ rows[i].amount = offers[i].amount => f[i] = g[i] /\ v[i] = w[i]
    <2>1. PICK pr \in Nat, m \in Nat, k \in Nat :
            /\ pr = rows[i].price /\ pr = offers[i].price
            /\ m = offers[i].amount /\ k = rows[i].amount /\ m <= k
      <3>1. i \in DOMAIN offers /\ rows[i] \in Row /\ offers[i] \in Row
        BY <1>1, <1>3, <1>6 DEF Table
      <3>2. SameOffer(offers[i], rows[i]) /\ offers[i].amount <= rows[i].amount
        BY <1>3, <3>1 DEF GoodRows
      <3> QED
        BY <3>1, <3>2, MarketAssumption DEF Row, SameOffer
    <2>2. f[i] = pr * m /\ g[i] = pr * k /\ v[i] = m /\ w[i] = k
      BY <1>3, <1>10, <2>1 DEF Worth, Pieces
    <2>3. PICK h \in Nat : h = k - m
      BY <2>1
    <2>4. PICK c \in Nat, e \in Nat : c = pr * m /\ e = pr * h
      BY ProductNat
    <2>5. pr * k = c + e
      <3>1. \A s, z, u \in Int : s * z = s * u + s * (z - u)
        OBVIOUS
      <3> QED
        BY <2>3, <2>4, <3>1
    <2>6. f[i] <= g[i] /\ v[i] <= w[i]
      BY <2>1, <2>2, <2>4, <2>5
    <2>7. rows[i].amount = offers[i].amount => f[i] = g[i] /\ v[i] = w[i]
      BY <2>1, <2>2
    <2> QED
      BY <2>6, <2>7
  <1>19. was <= paid /\ less <= more
    BY <1>11, <1>15, <1>18, TotalAtMost
  <1>20. CASE AnswerIsStale
    BY <1>14, <1>15, <1>16, <1>17, <1>19, <1>20
  <1>21. CASE ~AnswerIsStale
    <2>1. \A i \in DOMAIN rows : rows[i].amount = offers[i].amount
      BY <1>2, <1>21 DEF ProcessExpiredOffers, AnswerIsStale, LiveRows
    <2>2. was = paid /\ less = more
      BY <1>11, <1>15, <1>18, <2>1, TotalSame
    <2> QED
      BY <1>14, <1>15, <1>16, <1>17, <2>2
  <1> QED
    BY <1>20, <1>21

LEMMA UntouchedConserves ==
  ASSUME Own' = Own, offers' = offers
  PROVE  Goods' = Goods /\ Gold' = Gold
  BY AllGold

LEMMA Conserved ==
  MarketInv /\ MarketInv' /\ [Next]_vars =>
    [ \/ Goods' = Goods /\ Gold' = Gold
      \/ /\ \E p \in Players : OfferCount(p)' > OfferCount(p)
         /\ Goods' = Goods /\ Gold - Gold' \in FeeMin..FeeMax
      \/ AnswerIsStale /\ Goods' >= Goods /\ Gold' >= Gold ]_vars
  <1> SUFFICES ASSUME MarketInv, MarketInv', [Next]_vars
               PROVE  \/ Goods' = Goods /\ Gold' = Gold
                      \/ /\ \E p \in Players : OfferCount(p)' > OfferCount(p)
                         /\ Goods' = Goods /\ Gold - Gold' \in FeeMin..FeeMax
                      \/ AnswerIsStale /\ Goods' >= Goods /\ Gold' >= Gold
    OBVIOUS
  <1>1. WealthTyped
    BY DEF MarketInv
  <1>2. CASE \E p \in Players : Login(p) \/ Logout(p)
    <2>1. Own' = Own /\ offers' = offers
      BY <1>1, <1>2, LoginLogout DEF Login, Logout
    <2> QED
      BY <2>1, UntouchedConserves
  <1>3. CASE \/ UNCHANGED vars \/ (\E id \in OfferIds : RunOut(id))
             \/ CheckExpiredOffers \/ AnswerLookup
    <2>1. UNCHANGED wealthVars /\ offers' = offers
      BY <1>3 DEF vars, RunOut, CheckExpiredOffers, AnswerLookup
    <2>2. Own' = Own
      BY <2>1 DEF Own, wealthVars
    <2> QED
      BY <2>1, <2>2, UntouchedConserves
  <1>4. CASE \E p \in Players, id \in OfferIds, sale \in BOOLEAN, price \in Prices, amount \in Amounts :
               CreateOffer(p, id, sale, price, amount)
    BY <1>4, CreateConserves
  <1>5. CASE \E p \in Players, id \in OfferIds : CancelOffer(p, id)
    BY <1>5, CancelConserves
  <1>6. CASE \E p \in Players, id \in OfferIds, n \in Amounts : AcceptOffer(p, id, n)
    BY <1>6, DealConserves
  <1>7. CASE ProcessExpiredOffers
    BY <1>7, ExpiryConserves
  <1> QED
    BY <1>2, <1>3, <1>4, <1>5, <1>6, <1>7 DEF Next, PlayerStep

\* For any players, offers and prices: no deal, login, save or late answer loses gold or
\* goods, only a fee takes gold away, and only an answer that is stale when it is
\* processed creates any (game.cpp:4864-5222, iomarket.cpp:120-193).
THEOREM GoldAndGoodsConserved == Spec => OnlyStaleAnswersCreate
  BY MarketAlwaysInv, Conserved, PTL DEF Spec, OnlyStaleAnswersCreate

-----------------------------------------------------------------------------
(* The market is an escrow. *)

LEMMA EscrowInit == Init => Market!Init
  <1> SUFFICES ASSUME Init PROVE Market!Init
    OBVIOUS
  <1>1. Own \in [Players -> [gold : Nat, goods : Nat]]
    BY MarketAssumption DEF Init, Own
  <1> QED
    BY <1>1 DEF Init, NoRows, Market!Init

LEMMA EscrowOpens ==
  ASSUME MarketInv, NEW p \in Players, NEW id \in OfferIds, NEW sale \in BOOLEAN,
         NEW price \in Prices, NEW amount \in Amounts,
         CreateOffer(p, id, sale, price, amount)
  PROVE  Market!Next
  <1> DEFINE o == [owner |-> p, sale |-> sale, price |-> price, amount |-> amount]
  <1>1. WealthTyped
    BY DEF MarketInv
  <1>2. PICK fee \in FeeMin..FeeMax, cost \in Nat, g \in Int, d \in Int :
            /\ cost = price * amount
            /\ g = IF sale THEN -fee ELSE -fee - cost
            /\ d = IF sale THEN -amount ELSE 0
            /\ Own[p].gold >= IF sale THEN fee ELSE fee + cost
            /\ Own[p].goods >= IF sale THEN amount ELSE 0
            /\ Settle(GainOf(p, g, d))
    <2>1. PaidFor(p, sale, price, amount)
      BY CreatePays
    <2> QED
      BY <2>1 DEF PaidFor
  <1>3. /\ Own[p].gold \in Nat /\ Own[p].goods \in Nat /\ amount \in Nat \ {0}
        /\ fee \in Nat
    BY <1>1, <1>2, OwnFields, MarketAssumption
  <1>4. Own[p].gold + g >= 0 /\ Own[p].goods + d >= 0
    BY <1>2, <1>3
  <1>5. Own' = [q \in Players |-> [gold  |-> Own[q].gold + GainOf(p, g, d)[q].gold,
                                 goods |-> Own[q].goods + GainOf(p, g, d)[q].goods]]
    BY <1>1, <1>2, <1>4, GainOfMoves
  <1>6. g = -fee - (IF sale THEN 0 ELSE cost)
    <2>1. \A x \in Int : -x = -x - 0
      OBVIOUS
    <2> QED
      BY <1>2, <1>3, <2>1
  <1>7. Own[p].gold >= fee + (IF sale THEN 0 ELSE cost)
    BY <1>2, <1>3
  <1>8. Market!GainOf(p, g, d) = GainOf(p, g, d)
    BY DEF GainOf, Market!GainOf
  <1>9. Market!Settle(Market!GainOf(p, g, d))
    BY <1>5, <1>8 DEF Market!Settle
  <1>10. /\ made[id] = 0 /\ made' = [made EXCEPT ![id] = amount]
         /\ offers' = [j \in DOMAIN offers \cup {id} |-> IF j = id THEN o ELSE offers[j]]
    BY DEF CreateOffer
  <1>11. Market!Open(p, id, o, fee)
    <2>1. o.owner = p /\ o.amount = amount /\ o.sale = sale /\ o.price = price
      OBVIOUS
    <2> HIDE DEF o
    <2>2. /\ Own[p].gold >= fee + (IF o.sale THEN 0 ELSE o.price * o.amount)
          /\ Own[p].goods >= IF o.sale THEN o.amount ELSE 0
      BY <1>2, <1>7, <2>1
    <2>3. Market!Settle(Market!GainOf(p, -fee - (IF o.sale THEN 0 ELSE o.price * o.amount),
                                      IF o.sale THEN -o.amount ELSE 0))
      BY <1>2, <1>6, <1>9, <2>1
    <2> QED
      BY <1>2, <1>3, <1>10, <2>1, <2>2, <2>3 DEF Market!Open
  <1> QED
    BY <1>2, <1>11 DEF Market!Next

LEMMA EscrowWithdraws ==
  ASSUME MarketInv, NEW p \in Players, NEW id \in OfferIds, CancelOffer(p, id)
  PROVE  Market!Next
  <1>1. WealthTyped
    BY DEF MarketInv
  <1>2. id \in DOMAIN offers /\ offers[id] \in Row /\ offers[id].owner = p
    BY CancelPays
  <1>3. PICK g \in Nat, d \in Nat :
               /\ g = IF offers[id].sale THEN 0 ELSE offers[id].price * offers[id].amount
               /\ d = IF offers[id].sale THEN offers[id].amount ELSE 0
               /\ Settle(GainOf(p, g, d))
    BY CancelPays
  <1>4. g \in Int /\ d \in Int /\ Own[p].gold + g >= 0 /\ Own[p].goods + d >= 0
    BY <1>1, <1>3, OwnFields
  <1>5. Own' = [q \in Players |-> [gold  |-> Own[q].gold + GainOf(p, g, d)[q].gold,
                                 goods |-> Own[q].goods + GainOf(p, g, d)[q].goods]]
    BY <1>1, <1>3, <1>4, GainOfMoves
  <1>6. Market!GainOf(p, g, d) = GainOf(p, g, d)
    BY DEF GainOf, Market!GainOf
  <1>7. Market!Settle(Market!GainOf(p, g, d))
    BY <1>5, <1>6 DEF Market!Settle
  <1>8. Market!Stake(p, offers[id], offers[id].amount) = Market!GainOf(p, g, d)
    BY <1>3 DEF Market!Stake
  <1>9. offers' = Market!Without({id}) /\ made' = made
    BY DEF CancelOffer, MoveToHistory, Without, Market!Without
  <1>10. Market!Withdraw(id)
    BY <1>2, <1>7, <1>8, <1>9 DEF Market!Withdraw
  <1> QED
    BY <1>10 DEF Market!Next

LEMMA EscrowDeals ==
  ASSUME MarketInv, NEW p \in Players, NEW id \in OfferIds, NEW n \in Amounts,
         AcceptOffer(p, id, n)
  PROVE  Market!Next
  <1>1. /\ id \in DOMAIN offers /\ n \in Nat \ {0} /\ n <= offers[id].amount
        /\ offers[id] \in Row
    BY DealPays
  <1>2. IF offers[id].sale THEN Own[p].gold >= offers[id].price * n ELSE Own[p].goods >= n
    BY DealPays
  <1>3. PICK gain :
          /\ gain = DealGain(p, offers[id], n)
          /\ Own' = [q \in Players |-> [gold  |-> Own[q].gold + gain[q].gold,
                                       goods |-> Own[q].goods + gain[q].goods]]
    BY DealPays
  <1>4. Market!Settle(gain)
    BY <1>3 DEF Market!Settle
  <1>5. n \in 1..offers[id].amount
    BY <1>1 DEF Row
  <1>6. /\ offers' = IF n = offers[id].amount THEN Market!Without({id})
                     ELSE [offers EXCEPT ![id].amount = @ - n]
        /\ made' = made
    BY DEF AcceptOffer, Dealt, Without, Market!Without
  <1>7. Market!Deal(p, id, n)
    BY <1>1, <1>2, <1>3, <1>4, <1>5, <1>6 DEF Market!Deal, DealGain
  <1> QED
    BY <1>7 DEF Market!Next

LEMMA EscrowLapses == ASSUME MarketInv, ProcessExpiredOffers PROVE Market!Next
  <1>1. WealthTyped /\ Table(offers)
    BY OffersTable DEF MarketInv
  <1>2. PICK rows : rows = LiveRows
    OBVIOUS
  <1>3. /\ DOMAIN rows \subseteq DOMAIN offers /\ DOMAIN rows \subseteq OfferIds
        /\ GoodRows(rows, offers, made)
        /\ MoveToHistory(DOMAIN rows)
        /\ Own' = [q \in Players |-> [gold  |-> Own[q].gold + GivenBack(rows)[q].gold,
                                     goods |-> Own[q].goods + GivenBack(rows)[q].goods]]
    BY <1>2, ExpiryPays
  <1>4. Table(rows)
    BY <1>3 DEF GoodRows, Table
  <1>5. PICK back : back = Pieces(rows)
    OBVIOUS
  <1>6. DOMAIN back = DOMAIN rows /\ \A i \in DOMAIN rows : back[i] = rows[i].amount
    BY <1>5 DEF Pieces
  <1>7. ASSUME NEW i \in DOMAIN rows
        PROVE  /\ SameOffer(offers[i], rows[i])
               /\ rows[i].sale \in BOOLEAN
               /\ back[i] \in offers[i].amount..made[i]
               /\ back[i] \in 0..made[i]
    <2>1. rows[i] \in Row /\ offers[i] \in Row
      BY <1>1, <1>3, <1>4 DEF Table
    <2>2. /\ SameOffer(offers[i], rows[i]) /\ offers[i].amount <= rows[i].amount
          /\ rows[i].amount <= made[i] /\ made[i] \in Nat
      BY <1>3 DEF GoodRows, MarketInv, HistoryInv, TableTyped
    <2> QED
      BY <1>6, <2>1, <2>2 DEF Row
  <1>8. back \in [DOMAIN rows -> UNION {0..made[i] : i \in DOMAIN rows}]
    <2>1. \A i \in DOMAIN rows : back[i] \in UNION {0..made[j] : j \in DOMAIN rows}
      BY <1>7
    <2>2. back = [i \in DOMAIN rows |-> back[i]]
      BY <1>5 DEF Pieces
    <2> QED
      BY <2>1, <2>2
  <1>9. [i \in DOMAIN back |-> offers[i].price * back[i]] = Worth(rows)
    BY <1>6, <1>7 DEF Worth, SameOffer
  <1>10. ASSUME NEW q \in Players
         PROVE  /\ {i \in DOMAIN back : offers[i].owner = q /\ offers[i].sale = FALSE}
                      = {i \in Purchases(rows) : rows[i].owner = q}
                /\ {i \in DOMAIN back : offers[i].owner = q /\ offers[i].sale = TRUE}
                      = {i \in Sales(rows) : rows[i].owner = q}
    BY <1>6, <1>7 DEF Purchases, Sales, SameOffer
  <1>11. Market!Returned(back) = GivenBack(rows)
    <2>1. PICK worth : worth = Worth(rows) /\ worth = [i \in DOMAIN back |-> offers[i].price * back[i]]
      BY <1>9
    <2>2. Market!Returned(back) = [q \in Players |->
              [gold  |-> Market!Total(worth, {i \in DOMAIN back : offers[i].owner = q /\ offers[i].sale = FALSE}),
               goods |-> Market!Total(back, {i \in DOMAIN back : offers[i].owner = q /\ offers[i].sale = TRUE})]]
      BY <2>1 DEF Market!Returned
    <2>0. \A f, S : Market!Total(f, S) = Total(f, S)
      BY DEF Market!Total, Total, MapThenSumSet, MapThenFoldSet, Market!MapThenSumSet, Market!MapThenFoldSet
    <2>3. GivenBack(rows) = [q \in Players |->
              [gold  |-> Total(worth, {i \in Purchases(rows) : rows[i].owner = q}),
               goods |-> Total(back, {i \in Sales(rows) : rows[i].owner = q})]]
      BY <1>5, <2>1 DEF GivenBack
    <2>4. \A q \in Players :
            /\ Market!Total(worth, {i \in DOMAIN back : offers[i].owner = q /\ offers[i].sale = FALSE})
                 = Total(worth, {i \in Purchases(rows) : rows[i].owner = q})
            /\ Market!Total(back, {i \in DOMAIN back : offers[i].owner = q /\ offers[i].sale = TRUE})
                 = Total(back, {i \in Sales(rows) : rows[i].owner = q})
      BY <1>10, <2>0, Zenon
    <2> QED
      BY <2>2, <2>3, <2>4
  <1>12. Market!Settle(Market!Returned(back))
    BY <1>3, <1>11 DEF Market!Settle
  <1>13. offers' = Market!Without(DOMAIN back) /\ made' = made
    BY <1>3, <1>6 DEF MoveToHistory, Without, Market!Without
  <1>14. Market!Lapse(back)
    BY <1>3, <1>6, <1>7, <1>12, <1>13 DEF Market!Lapse
  <1>15. DOMAIN rows \in SUBSET DOMAIN offers
    BY <1>3
  <1> QED
    BY <1>8, <1>14, <1>15 DEF Market!Next

LEMMA EscrowStep == MarketInv /\ [Next]_vars => [Market!Next]_(Market!escrowVars)
  <1> SUFFICES ASSUME MarketInv, [Next]_vars PROVE Market!Next \/ UNCHANGED Market!escrowVars
    OBVIOUS
  <1>1. WealthTyped
    BY DEF MarketInv
  <1>2. CASE \E p \in Players : Login(p) \/ Logout(p)
    <2>1. Own' = Own /\ offers' = offers /\ made' = made
      BY <1>1, <1>2, LoginLogout DEF Login, Logout
    <2> QED
      BY <2>1 DEF Market!escrowVars
  <1>3. CASE \/ UNCHANGED vars \/ (\E id \in OfferIds : RunOut(id))
             \/ CheckExpiredOffers \/ AnswerLookup
    <2>1. UNCHANGED wealthVars /\ offers' = offers /\ made' = made
      BY <1>3 DEF vars, RunOut, CheckExpiredOffers, AnswerLookup
    <2>2. Own' = Own
      BY <2>1 DEF Own, wealthVars
    <2> QED
      BY <2>1, <2>2 DEF Market!escrowVars
  <1>4. CASE \E p \in Players, id \in OfferIds, sale \in BOOLEAN, price \in Prices, amount \in Amounts :
               CreateOffer(p, id, sale, price, amount)
    BY <1>4, EscrowOpens
  <1>5. CASE \E p \in Players, id \in OfferIds : CancelOffer(p, id)
    BY <1>5, EscrowWithdraws
  <1>6. CASE \E p \in Players, id \in OfferIds, n \in Amounts : AcceptOffer(p, id, n)
    BY <1>6, EscrowDeals
  <1>7. CASE ProcessExpiredOffers
    BY <1>7, EscrowLapses
  <1> QED
    BY <1>2, <1>3, <1>4, <1>5, <1>6, <1>7 DEF Next, PlayerStep

\* Whoever is online when an offer is made, dealt in, withdrawn or given back, the market
\* does what an escrow may do: each function finds the Player object or the rows that
\* count (game.cpp:448-460, 5116-5182, iomarket.cpp:139-190).
THEOREM MarketIsEscrow == Spec => ImplementsEscrow
  BY MarketAlwaysInv, EscrowInit, EscrowStep, PTL DEF Spec, ImplementsEscrow, Market!Spec
=============================================================================
