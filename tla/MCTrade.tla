------------------------------- MODULE MCTrade -------------------------------
(* Trade.tla for TLC: no definition names a player, a place or an item, so     *)
(* those of each kind may be exchanged.                                        *)
EXTENDS Trade, TLC

Symmetry ==
    Permutations(Players) \cup Permutations(Places)
      \cup Permutations(Containers) \cup Permutations(Stackable)
==============================================================================
