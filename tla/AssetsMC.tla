------------------------------ MODULE AssetsMC ------------------------------
(* Assets with finite sets of interchangeable clients. *)
EXTENDS Assets, TLC

Symmetry == Permutations(Starters) \union Permutations(Doctors)
=============================================================================
