------------------------------- MODULE OpMutex -------------------------------
(***************************************************************************)
(* What the operation lock promises to Manager.Start and Manager.Stop: of  *)
(* the client processes (tray, command line, daemon) at most one at a time *)
(* is inside an operation.  StateLock shows that the lock file implements  *)
(* this, and Tunnel takes the lock with the atomicity stated here.         *)
(***************************************************************************)
CONSTANTS
  Procs,   (* client processes                       *)
  NoProc   (* no process: the mutex is free          *)

VARIABLE holder

Init == holder = NoProc

Enter(p) == holder = NoProc /\ holder' = p

(* The holder leaves: it released the lock, or it died. *)
Leave(p) == holder = p /\ holder' = NoProc

Next == \E p \in Procs : Enter(p) \/ Leave(p)

Spec == Init /\ [][Next]_holder
=============================================================================
