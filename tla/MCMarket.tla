------------------------------ MODULE MCMarket ------------------------------
(***************************************************************************)
(* Market for TLC: one player starts with gold, the other with goods.      *)
(***************************************************************************)
EXTENDS Market

CONSTANTS ann, ben

TwoPlayers == {ann, ben}
RichAndStocked ==
    [p \in TwoPlayers |-> IF p = ann THEN [gold |-> 3, goods |-> 0]
                                     ELSE [gold |-> 1, goods |-> 2]]
=============================================================================
