----------------------------- MODULE MCCommunity -----------------------------
(***************************************************************************)
(* Community for TLC: players and addresses are interchangeable.           *)
(***************************************************************************)
EXTENDS Community, TLC

CommunitySymmetry == Permutations(Players) \cup Permutations(Parties)
=============================================================================
