------------------------------ MODULE TunnelMC ------------------------------
(* Tunnel with finite sets of interchangeable operations and process ids. *)
EXTENDS Tunnel, TLC

Symmetry == Permutations(Ops) \union Permutations(Pids)
=============================================================================
