----------------------------- MODULE StateLockMC -----------------------------
(* StateLock with a finite set of interchangeable processes. *)
EXTENDS StateLock, TLC

Symmetry == Permutations(Procs)
=============================================================================
