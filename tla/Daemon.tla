------------------------------- MODULE Daemon -------------------------------
(***************************************************************************)
(* internal/daemon/daemon.go: the supervisor, on top of Tunnel.            *)
(*                                                                         *)
(* The daemon starts the tunnel.  Then a ticker asks it to look at the     *)
(* status, and a tunnel that is not up is stopped and started again.  An   *)
(* interrupt cancels the context: what the daemon is doing is cut off, and *)
(* when it gets to its select it stops the tunnel, in a context of its     *)
(* own, and exits.                                                         *)
(*                                                                         *)
(* Its calls of Start and Stop are operations of Tunnel among those of     *)
(* other clients, and its context is the only one that is ever cancelled.  *)
(* Status takes no lock, so others may do anything between what the daemon *)
(* sees and what it does about it.                                         *)
(***************************************************************************)
EXTENDS Tunnel

CONSTANT MaxAccidents   (* bounds the accidents and the calls of others    *)

ASSUME DaemonAssumption ==
  /\ MaxAccidents \in Nat
  /\ {"cancel", "cmdfail", "blind"} \subseteq Faults

VARIABLES
  stage,      (* what Run is about: a call, the select, or its end         *)
  mine,       (* the operation of the call it waits for, or NoOp           *)
  asked,      (* the process was interrupted: its context is done          *)
  ok,         (* the operation has done all of its work                    *)
  torn,       (* an operation has begun over a script that still ran       *)
  accidents   (* how many have happened                                    *)

self == <<stage, mine, asked, ok, torn>>
all  == <<vars, self, accidents>>

Calls == {"start", "stop", "restart", "final"}

(* Mutant of After: the final Stop is tried until it succeeds. *)
AfterRetrying(call, good) == CASE call = "start"   -> IF good THEN "wait" ELSE "exited"
                               [] call = "stop"    -> "restart"
                               [] call = "restart" -> "wait"
                               [] call = "final"   -> IF good THEN "exited" ELSE "final"

(* What follows a call: only the first Start's result is looked at. *)
After(call, good) == CASE call = "start"   -> IF good THEN "wait" ELSE "exited"
                       [] call = "stop"    -> "restart"
                       [] call = "restart" -> "wait"
                       [] call = "final"   -> "exited"

Returns(good) ==
  /\ mine' = NoOp /\ ok' = good
  /\ stage' = After(stage, good)

Accident == accidents < MaxAccidents /\ accidents' = accidents + 1

DInit ==
  /\ Init
  /\ stage = "start" /\ mine = NoOp
  /\ asked = FALSE /\ ok = FALSE /\ torn = FALSE
  /\ accidents = 0

-----------------------------------------------------------------------------
(* The daemon's calls. *)

(* The final Stop has a context of its own. *)
CutOff == asked /\ stage # "final"

(* The lock was freed, by the interrupt or by hand, over a script that     *)
(* still runs when the next operation begins.                              *)
Torn == torn' = (torn \/ orphan # {})

Call ==
  /\ stage \in Calls /\ mine = NoOp /\ ~CutOff
  /\ \E p \in Ops : /\ IF stage \in {"start", "restart"} THEN StartBegin(p)
                       ELSE StopBegin(p)
                    /\ mine' = p
  /\ ok' = FALSE /\ Torn
  /\ UNCHANGED <<stage, asked, accidents>>

(* Refused by the lock; or the context is done, and wsl.exe is not run.    *)
CallFails ==
  /\ stage \in Calls /\ mine = NoOp
  /\ lock # NoOp \/ CutOff
  /\ Returns(FALSE)
  /\ UNCHANGED <<vars, asked, torn, accidents>>

(* The steps after which nothing of the operation can fail. *)
Completes(p) == /\ pc[p] \in {"stabilize", "stabilizing", "rmState"}
                /\ pc'[p] \in {"release", "terminate"}

(* A client whose context is done runs no further wsl.exe. *)
Work ==
  /\ mine # NoOp /\ Advance(mine)
  /\ CutOff => /\ pc[mine] \notin {"stabilize", "terminate"}
               /\ pc[mine] = "prepare" => pc'[mine] = "release"
  /\ IF pc[mine] = "prepare" /\ pc'[mine] = "release" /\ ~CutOff
     THEN Accident ELSE UNCHANGED accidents
  /\ IF pc[mine] = "release" THEN Returns(ok)
     ELSE ok' = (ok \/ Completes(mine)) /\ UNCHANGED <<stage, mine>>
  /\ UNCHANGED <<asked, torn>>

WorkAgain ==
  /\ mine # NoOp /\ ConfigureAgain(mine)
  /\ UNCHANGED <<self, accidents>>

WorkFails(unforced) ==
  /\ mine # NoOp /\ CommandFails(mine)
  /\ ok' = FALSE
  /\ IF unforced THEN Accident
     ELSE CutOff /\ pc[mine] \in {"stabilize", "terminate"} /\ UNCHANGED accidents
  /\ UNCHANGED <<stage, mine, asked, torn>>

(* wsl.exe is killed: the script ends where it is, or goes on for a while. *)
CutWork ==
  /\ mine # NoOp /\ CutOff /\ Cancel(mine)
  /\ Returns(FALSE)
  /\ UNCHANGED <<asked, torn, accidents>>

-----------------------------------------------------------------------------
(* The loop. *)

(* Mutant of Check: only a Status that fails is a reason to restart. *)
CheckError ==
  /\ stage = "wait"
  /\ asked
  /\ stage' = "stop"
  /\ UNCHANGED <<vars, mine, asked, ok, torn, accidents>>

(* The ticker fires, and status finds no process with the id in vm.pid; in *)
(* a context that is done it finds nothing at all.                         *)
Check ==
  /\ stage = "wait"
  /\ ~PidAlive \/ asked
  /\ stage' = "stop"
  /\ UNCHANGED <<vars, mine, asked, ok, torn, accidents>>

(* wsl.exe fails, however the tunnel is. *)
CheckFails ==
  /\ stage = "wait" /\ stage' = "stop"
  /\ Accident
  /\ UNCHANGED <<vars, mine, asked, ok, torn>>

(* When the context is done and the ticker has fired, select takes either. *)
Finish ==
  /\ stage = "wait" /\ asked
  /\ stage' = "final"
  /\ UNCHANGED <<vars, mine, asked, ok, torn, accidents>>

Interrupt ==
  /\ stage # "exited" /\ ~asked /\ asked' = TRUE
  /\ UNCHANGED <<vars, stage, mine, ok, torn, accidents>>

Killed ==
  /\ stage # "exited" /\ stage' = "exited"
  /\ IF mine = NoOp THEN UNCHANGED vars ELSE Crash(mine)
  /\ mine' = NoOp
  /\ Accident
  /\ UNCHANGED <<asked, ok, torn>>

-----------------------------------------------------------------------------
(* Other clients, scripts the daemon has lost, and the rest of the world.  *)
(* Others do not stop a tunnel that was never started.                     *)
OthersWork ==
  /\ \E p \in Ops \ {mine} : Advance(p) \/ ConfigureAgain(p)
  /\ UNCHANGED <<self, accidents>>

OthersCall ==
  /\ \E p \in Ops \ {mine} :
       StartBegin(p) \/ (routeDat # "absent" /\ StopBegin(p))
  /\ Torn
  /\ Accident
  /\ UNCHANGED <<stage, mine, asked, ok>>

OthersFail ==
  /\ \E p \in Ops \ {mine} : CommandFails(p) \/ Crash(p)
  /\ Accident
  /\ UNCHANGED self

(* The user cannot see whether the script of a dead client has ended. *)
World ==
  /\ ForwarderDies \/ PidReused \/ ProcExits \/ Terminate \/ Shutdown \/ UserUnlock
  /\ Accident
  /\ UNCHANGED self

DaemonStep == Call \/ CallFails \/ Work \/ CutWork \/ Check \/ WorkFails(FALSE)

DNext ==
  \/ DaemonStep \/ WorkAgain \/ WorkFails(TRUE) \/ CheckFails \/ Finish
  \/ Interrupt \/ Killed \/ OthersWork \/ OthersCall \/ OthersFail \/ World

DSpec == DInit /\ [][DNext]_all

(* The daemon and the scripts go on, and the ticker ticks.  Go's select    *)
(* chooses at random among what is ready, so it does not for ever choose   *)
(* the ticker when the context is done.                                    *)
DFairSpec ==
  /\ DSpec
  /\ WF_all(DaemonStep) /\ SF_all(Finish)
  /\ \A p \in Ops : WF_all(Advance(p) /\ p # mine /\ UNCHANGED <<self, accidents>>)

-----------------------------------------------------------------------------
(* The tunnel is up again after its forwarder has died, after another      *)
(* client has stopped it, after a restart that failed or was refused: as   *)
(* long as the daemon lives and is not interrupted, and no client has died *)
(* in an operation and left its lock.                                      *)
TunnelRecovers ==
  stage = "wait" /\ ~PidAlive ~> ForwarderUp \/ asked \/ stage = "exited" \/ lock = Stale

(* An interrupted daemon comes to its end, wherever it was. *)
InterruptEnds == asked ~> stage = "exited"

(* When the final Stop has succeeded nothing of the tunnel is left behind, *)
(* whatever other clients and the world have done, and wherever in a call  *)
(* or a script the interrupt came: the leftovers of a script that was cut  *)
(* off are undone with the rest.  What is not covered is a final Stop that *)
(* begins while a script that was cut off still runs.                      *)
FinalStopRestores ==
  stage = "final" /\ mine # NoOp /\ pc[mine] = "release" /\ ok /\ ~torn =>
    /\ "tunnel" \notin {Nameserver(etc), mnt}
    /\ ~block /\ ~iface /\ route \notin {"tunnel", "none"}
    /\ \A q \in Pids : proc[q] # "fwd"

(* A daemon whose first Start fails exits without a Stop; it does not lose *)
(* the resolv.conf that a later Stop will put back.  Nor does any restart, *)
(* where the user's is the link that a Stop without a backup makes: a      *)
(* plain file is lost when the daemon stops what is stopped already.  An   *)
(* interrupted call leaves the file in place or in the backup too, unless  *)
(* the next operation begins before its script has ended.                  *)
DaemonKeepsEtc == torn \/ EtcRecoverable
=============================================================================
