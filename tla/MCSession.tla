------------------------------ MODULE MCSession ------------------------------
(***************************************************************************)
(* The symmetry of Session for TLC: the clients are interchangeable.       *)
(***************************************************************************)
EXTENDS Session, TLC

ClientSymmetry == Permutations(Clients)
=============================================================================
