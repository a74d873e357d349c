------------------------------ MODULE DaemonMC ------------------------------
(* Daemon for TLC: process ids are interchangeable. *)
EXTENDS Daemon, TLC

Symmetry == Permutations(Pids)
=============================================================================
