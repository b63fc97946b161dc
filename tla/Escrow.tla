------------------------------- MODULE Escrow -------------------------------
(***************************************************************************)
(* What a market promises: an offer puts gold or goods aside, and what was *)
(* put aside leaves again in one of three ways: somebody deals, the owner  *)
(* withdraws the rest, or the rest comes back when the offer lapses. Each  *)
(* offer is settled once. What comes back when it lapses is all that is    *)
(* left, and at most what was put aside at first.                          *)
(***************************************************************************)
EXTENDS Totals

CONSTANTS Players, OfferIds, Prices, Amounts, FeeMin, FeeMax

VARIABLES
    wealth,     \* what each player owns: [gold, goods]
    contracts,  \* the open offers: [owner, sale, price, amount]
    made        \* what each offer was made for; 0: it was never made

escrowVars == <<wealth, contracts, made>>

Init ==
    /\ wealth \in [Players -> [gold : Nat, goods : Nat]]
    /\ contracts = [i \in {} |-> 0]
    /\ made = [i \in OfferIds |-> 0]

\* A change of what the players own: a gain of gold and of goods for each.
Settle(gain) ==
    wealth' = [q \in Players |-> [gold  |-> wealth[q].gold + gain[q].gold,
                                  goods |-> wealth[q].goods + gain[q].goods]]

GainOf(p, gold, goods) ==
    [q \in Players |-> IF q = p THEN [gold |-> gold, goods |-> goods]
                                ELSE [gold |-> 0, goods |-> 0]]

\* What an offer holds: the goods of a sale, the gold of a purchase.
Stake(p, o, n) ==
    IF o.sale THEN GainOf(p, 0, n) ELSE GainOf(p, o.price * n, 0)

Without(ids) == [j \in DOMAIN contracts \ ids |-> contracts[j]]

Open(p, id, o, fee) ==
    /\ made[id] = 0
    /\ o.owner = p /\ o.amount > 0
    /\ fee \in FeeMin..FeeMax
    /\ wealth[p].gold >= fee + (IF o.sale THEN 0 ELSE o.price * o.amount)
    /\ wealth[p].goods >= IF o.sale THEN o.amount ELSE 0
    /\ Settle(GainOf(p, -fee - (IF o.sale THEN 0 ELSE o.price * o.amount),
                        IF o.sale THEN -o.amount ELSE 0))
    /\ contracts' = [j \in DOMAIN contracts \cup {id} |->
                        IF j = id THEN o ELSE contracts[j]]
    /\ made' = [made EXCEPT ![id] = o.amount]

Withdraw(id) ==
    /\ id \in DOMAIN contracts
    /\ Settle(Stake(contracts[id].owner, contracts[id], contracts[id].amount))
    /\ contracts' = Without({id})
    /\ UNCHANGED made

\* p takes n of the offer: goods one way, gold the other way.
Deal(p, id, n) ==
    LET o == contracts[id]
        buyer == IF o.sale THEN p ELSE o.owner
        seller == IF o.sale THEN o.owner ELSE p
        cost == o.price * n
    IN  /\ id \in DOMAIN contracts
        /\ n \in 1..o.amount
        /\ IF o.sale THEN wealth[p].gold >= cost ELSE wealth[p].goods >= n
        /\ Settle([q \in Players |->
             [gold  |-> (IF q = seller THEN cost ELSE 0)
                          - (IF q = p /\ o.sale THEN cost ELSE 0),
              goods |-> (IF q = buyer THEN n ELSE 0)
                          - (IF q = p /\ ~o.sale THEN n ELSE 0)]])
        /\ contracts' = IF n = o.amount THEN Without({id})
                        ELSE [contracts EXCEPT ![id].amount = @ - n]
        /\ UNCHANGED made

\* What the owners get back of the offers that lapse, back[id] of each.
Returned(back) ==
    LET gold == [i \in DOMAIN back |-> contracts[i].price * back[i]]
        owned(q, sale) == {i \in DOMAIN back : contracts[i].owner = q /\ contracts[i].sale = sale}
    IN  [q \in Players |-> [gold |-> Total(gold, owned(q, FALSE)), goods |-> Total(back, owned(q, TRUE))]]

Lapse(back) ==
    /\ DOMAIN back \subseteq DOMAIN contracts
    /\ \A i \in DOMAIN back : back[i] \in contracts[i].amount..made[i]
    /\ Settle(Returned(back))
    /\ contracts' = Without(DOMAIN back)
    /\ UNCHANGED made

Next ==
    \/ \E p \in Players, id \in OfferIds, fee \in FeeMin..FeeMax,
          sale \in BOOLEAN, price \in Prices, amount \in Amounts :
          Open(p, id, [owner |-> p, sale |-> sale, price |-> price, amount |-> amount], fee)
    \/ \E id \in OfferIds : Withdraw(id)
    \/ \E p \in Players, id \in OfferIds, n \in Amounts : Deal(p, id, n)
    \/ \E ids \in SUBSET DOMAIN contracts :
          \E back \in [ids -> UNION {0..made[i] : i \in ids}] : Lapse(back)

Spec == Init /\ [][Next]_escrowVars
=============================================================================
