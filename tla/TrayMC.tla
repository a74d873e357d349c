------------------------------- MODULE TrayMC -------------------------------
(* Tray with a finite set of interchangeable goroutines. *)
EXTENDS Tray, TLC

Symmetry == Permutations(Workers)
=============================================================================
