----------------------------- MODULE MCCreatures -----------------------------
(***************************************************************************)
(* CreatureWorld for TLC: no place is in sight of another; monsters are    *)
(* interchangeable, and so are places.                                     *)
(***************************************************************************)
EXTENDS CreatureWorld, TLC

OutOfSight == {<<a, a>> : a \in Places}

\* Bound of the run: a state with a forgotten corpse is checked but not continued.
NobodyForgotten == Forgotten = {}

CreatureSymmetry == Permutations(Monsters) \cup Permutations(Places)
=============================================================================
