---------------------------- MODULE DaemonProofs ----------------------------
(***************************************************************************)
(* Proofs about the daemon among any number of other clients, with any     *)
(* bound on the accidents: what its final Stop leaves, and what becomes of *)
(* the user's resolv.conf next to it.                                      *)
(*                                                                         *)
(* Tunnel's own theorems leave out cancelled operations and lock files     *)
(* removed by hand.  A daemon is interrupted, so here the step lemmas      *)
(* behind them, which ask for orderly steps and nothing else, are carried  *)
(* on for as long as no operation begins over a script that still runs,    *)
(* which is what torn records.                                             *)
(***************************************************************************)
EXTENDS Daemon, TunnelRestoreProofs

(* A call of the daemon takes the lock as a Start or as a Stop. *)
LEMMA CallIsOperation ==
  ASSUME Call
  PROVE  \E p \in Ops : (StartBegin(p) \/ StopBegin(p)) /\ mine' = p
BY DEF Call

MineOK == mine \in Ops \union {NoOp} /\ torn \in BOOLEAN

(* The daemon waits for an operation or for nothing. *)
LEMMA MineStep ==
  ASSUME MineOK, [DNext]_all
  PROVE  MineOK'
<1> USE DEF MineOK
<1>1. CASE Call
  BY <1>1, CallIsOperation DEF Call, Torn
<1>2. CASE CallFails \/ CutWork
  BY <1>2 DEF CallFails, CutWork, Returns
<1>3. CASE Work
  BY <1>3 DEF Work, Returns
<1>4. CASE Check \/ CheckFails \/ Finish \/ Interrupt \/ Killed
  BY <1>4 DEF Check, CheckFails, Finish, Interrupt, Killed
<1>5. CASE WorkFails(TRUE) \/ WorkFails(FALSE)
  BY <1>5 DEF WorkFails
<1>6. CASE WorkAgain \/ OthersWork \/ OthersCall \/ OthersFail \/ World
           \/ UNCHANGED all
  BY <1>6 DEF WorkAgain, OthersWork, OthersCall, OthersFail, World, Torn, self, all
<1> QED
  BY <1>1, <1>2, <1>3, <1>4, <1>5, <1>6 DEF DNext, DaemonStep

(* A step of the daemon's system is one of Tunnel, or a stutter, so what   *)
(* steps of Tunnel keep is kept here.                                      *)
LEMMA DaemonStepIsTunnelStep ==
  ASSUME MineOK, [DNext]_all
  PROVE  [Next]_vars
<1> USE DEF Next, Operate, Environment
<1>1. CASE Call
  BY <1>1, CallIsOperation
<1>2. CASE CallFails \/ Check \/ CheckFails \/ Finish \/ Interrupt
  BY <1>2 DEF CallFails, Check, CheckFails, Finish, Interrupt
<1>3. ASSUME mine # NoOp PROVE mine \in Ops
  BY <1>3 DEF MineOK
<1>4. CASE Work \/ WorkAgain \/ CutWork
  BY <1>3, <1>4 DEF Work, WorkAgain, CutWork
<1>5. CASE WorkFails(TRUE) \/ WorkFails(FALSE)
  BY <1>3, <1>5 DEF WorkFails
<1>6. CASE Killed
  BY <1>3, <1>6 DEF Killed
<1>7. CASE OthersWork \/ OthersCall \/ OthersFail
  BY <1>7 DEF OthersWork, OthersCall, OthersFail
<1>8. CASE World \/ UNCHANGED all
  BY <1>8 DEF World, all
<1> QED
  BY <1>1, <1>2, <1>4, <1>5, <1>6, <1>7, <1>8 DEF DNext, DaemonStep

-----------------------------------------------------------------------------
(***************************************************************************)
(* What the final Stop leaves.  A Stop undoes everything where it is alone *)
(* (Undone of TunnelRestoreProofs), and operations are alone as long as    *)
(* each begins when the scripts before it have ended, which torn records.  *)
(* What is left is to carry that from the end of the script to the return  *)
(* of the call (Settled): while the daemon holds the lock nobody else      *)
(* takes a step.                                                           *)
(***************************************************************************)
FinalKept == HasEth0 /\ Faults \intersect {"shutdown", "unnoticed"} = {}

(* Nothing of the tunnel is there. *)
Clean ==
  /\ mnt # "tunnel" /\ etc # "tunnel" /\ ~block
  /\ route \notin {"tunnel", "none"} /\ ~iface
  /\ \A q \in Pids : proc[q] # "fwd"

(* The daemon waits only in a call, and for a client that is alive. *)
DaemonWaits ==
  mine # NoOp => /\ stage \in Calls /\ Waits(mine)
                 /\ stage = "final" => pc[mine] \in StopSteps \union {"terminate", "release"}

Alone   == ~torn => SaveInv /\ Undone
Settled == mine # NoOp /\ stage = "final" /\ ok /\ ~torn
             => pc[mine] \in {"terminate", "release"} /\ Clean

NoSlips == \A p \in Ops : slipped[p] = {}

BaseInv == MineOK /\ TypeInv /\ OrphansRun /\ LockIsItsClients
FinalInv == BaseInv /\ NoSlips /\ DaemonWaits /\ Alone /\ Settled

(* An operation that does not tear begins when nobody is active.           *)
LEMMA UntornBegins ==
  ASSUME BaseInv, NEW p \in Ops, StartBegin(p) \/ StopBegin(p), Torn, ~torn'
  PROVE  ~torn /\ \A q \in Ops : ~Active(q)
<1>1. ~torn /\ orphan = {}
  BY DEF Torn, BaseInv, MineOK
<1>2. lock = NoOp
  BY DEF StartBegin, StopBegin, Enter
<1> QED
  BY <1>1, <1>2, TunnelAssumption DEF BaseInv, LockIsItsClients, Waits

(* Only an operation that begins takes the lock.                           *)
LEMMA NoneBegins ==
  ASSUME lock' \in {lock, NoOp, Stale}, NEW q \in Ops, StartBegin(q) \/ StopBegin(q)
  PROVE  FALSE
BY TunnelAssumption DEF StartBegin, StopBegin, Enter

LEMMA KeepsLock ==
  ASSUME NEW p \in Ops,
         Advance(p) \/ ConfigureAgain(p) \/ CommandFails(p) \/ Crash(p) \/ Cancel(p)
  PROVE  lock' \in {lock, NoOp, Stale}
<1>1. CASE Advance(p)
  BY <1>1, AdvanceControl DEF Moves, Ends, Leaves, Step, ScriptEnds, TerminateDistro,
     DistroStops, AbortScripts
<1>2. CASE ConfigureAgain(p) \/ CommandFails(p) \/ Crash(p) \/ Cancel(p)
  BY <1>2 DEF ConfigureAgain, CommandFails, ScriptEnds, Crash, Cancel
<1> QED
  BY <1>1, <1>2

LEMMA WorldKeepsLock ==
  ASSUME World \/ UNCHANGED all
  PROVE  lock' \in {lock, NoOp, Stale}
BY DEF World, ForwarderDies, PidReused, ProcExits, Terminate, Shutdown, DistroStops,
   AbortScripts, UserUnlock, all, vars

(* A step that does not tear is an orderly one. *)
LEMMA UntornStep ==
  ASSUME BaseInv, [DNext]_all, ~torn'
  PROVE  [Orderly]_vars /\ ~torn
<1>1. [Next]_vars
  BY DaemonStepIsTunnelStep DEF BaseInv
<1>2. ASSUME lock' \in {lock, NoOp, Stale} PROVE [Orderly]_vars
  BY <1>1, <1>2, NoneBegins DEF Orderly
<1>3. ASSUME mine # NoOp PROVE mine \in Ops
  BY <1>3 DEF BaseInv, MineOK
<1>4. ASSUME NEW p \in Ops, StartBegin(p) \/ StopBegin(p), Torn
      PROVE  [Orderly]_vars /\ ~torn
  BY <1>1, <1>4, UntornBegins DEF Orderly
<1>5. CASE Call \/ OthersCall
  BY <1>4, <1>5 DEF Call, OthersCall
<1>6. CASE CallFails \/ Check \/ CheckFails \/ Finish \/ Interrupt
  <2>1. UNCHANGED vars /\ UNCHANGED torn
    BY <1>6 DEF CallFails, Check, CheckFails, Finish, Interrupt
  <2> QED
    BY <2>1
<1>7. CASE Work \/ WorkAgain \/ CutWork \/ WorkFails(TRUE) \/ WorkFails(FALSE)
  <2>1. lock' \in {lock, NoOp, Stale}
    BY <1>3, <1>7, KeepsLock DEF Work, WorkAgain, CutWork, WorkFails
  <2>2. ~torn
    BY <1>7 DEF Work, WorkAgain, CutWork, WorkFails, self
  <2> QED
    BY <1>2, <2>1, <2>2
<1>8. CASE Killed
  <2>1. lock' \in {lock, NoOp, Stale}
    BY <1>3, <1>8, KeepsLock DEF Killed, vars
  <2> QED
    BY <1>2, <1>8, <2>1 DEF Killed
<1>9. CASE OthersWork \/ OthersFail \/ World \/ UNCHANGED all
  <2>1. lock' \in {lock, NoOp, Stale}
    BY <1>9, KeepsLock, WorldKeepsLock DEF OthersWork, OthersFail
  <2>2. ~torn
    BY <1>9 DEF OthersWork, OthersFail, World, self, all
  <2> QED
    BY <1>2, <2>1, <2>2
<1> QED
  BY <1>5, <1>6, <1>7, <1>8, <1>9 DEF DNext, DaemonStep

(* What needs no operation to be alone. *)
LEMMA BaseStep ==
  ASSUME BaseInv, [DNext]_all
  PROVE  BaseInv'
<1>1. [Next]_vars
  BY DaemonStepIsTunnelStep DEF BaseInv
<1> QED
  BY <1>1, MineStep, TypeStep, ClientStep DEF BaseInv, ClientInv, TypeInv, TypeOK

(* As long as nothing is torn operations are alone next to a daemon too,   *)
(* and save nothing of the tunnel.                                         *)
LEMMA UntornSaves ==
  ASSUME BaseInv, SaveInv, [DNext]_all, ~torn'
  PROVE  SaveInv'
BY BaseStep, UntornStep, SaveStep DEF BaseInv

(* What no command slips on is nowhere recorded. *)
LEMMA NoSlipsStep ==
  ASSUME "unnoticed" \notin Faults, TypeInv, NoSlips, [Next]_vars
  PROVE  NoSlips'
<1> USE DEF NoSlips, TypeInv, TypeOK, ControlOK
<1>1. ASSUME NEW p \in Ops, Forgets(p) PROVE NoSlips'
  BY <1>1 DEF Forgets
<1>2. ASSUME UNCHANGED slipped PROVE NoSlips'
  BY <1>2
<1>3. ASSUME NEW next, AbortScripts(next) PROVE NoSlips'
  BY <1>3 DEF AbortScripts
<1>4. ASSUME NEW p \in Ops, NEW part, Slips(p, part) PROVE FALSE
  BY <1>4 DEF Slips
<1>5. ASSUME NEW p \in Ops, Advance(p) PROVE NoSlips'
  <2>1. CASE Prepare(p) \/ Probe(p) \/ SaveMnt(p) \/ SaveEtc(p) \/ WriteConf(p)
             \/ RemoveEtc(p) \/ WriteEtc(p) \/ CopyMnt(p) \/ AddLink(p) \/ Spawn(p)
             \/ Stabilize(p) \/ KillForwarder(p) \/ RestoreMnt(p) \/ RestoreEtc(p)
             \/ Release(p)
    BY <1>2, <2>1 DEF Prepare, Probe, SaveMnt, SaveEtc, WriteConf, RemoveEtc, WriteEtc,
       CopyMnt, AddLink, Spawn, Stabilize, KillForwarder, RestoreMnt, RestoreEtc,
       Release, locals
  <2>2. CASE SaveRoute(p) \/ Await(p) \/ Configure(p) \/ RemoveState(p)
    BY <1>1, <1>2, <2>2 DEF SaveRoute, Await, Configure, RemoveState, ScriptEnds, locals
  <2>3. CASE RestoreConf(p) \/ RestoreRoute(p) \/ DeleteLink(p)
    BY <1>2, <1>4, <2>3 DEF RestoreConf, RestoreRoute, DeleteLink, locals
  <2>4. CASE TerminateDistro(p)
    BY <1>3, <2>4 DEF TerminateDistro, DistroStops
  <2> QED
    BY <1>5, <2>1, <2>2, <2>3, <2>4 DEF Advance
<1>6. ASSUME NEW p \in Ops, StartBegin(p) \/ StopBegin(p) \/ Refused(p)
             \/ ConfigureAgain(p) \/ Crash(p)
      PROVE  NoSlips'
  BY <1>2, <1>6 DEF StartBegin, StopBegin, Enter, Refused, ConfigureAgain, Crash, vars,
     locals
<1>7. ASSUME NEW p \in Ops, CommandFails(p) \/ Cancel(p) PROVE NoSlips'
  BY <1>1, <1>2, <1>7 DEF CommandFails, Cancel, ScriptEnds, locals
<1>8. CASE UserUnlock \/ ForwarderDies \/ PidReused \/ ProcExits \/ EditEtc
           \/ UNCHANGED vars
  BY <1>2, <1>8 DEF UserUnlock, ForwarderDies, PidReused, ProcExits, EditEtc, vars, locals
<1>9. CASE Terminate \/ Shutdown
  BY <1>3, <1>9 DEF Terminate, Shutdown, DistroStops
<1> QED
  BY <1>5, <1>6, <1>7, <1>8, <1>9 DEF Next, Operate, Environment

LEMMA AloneStep ==
  ASSUME FinalKept, FinalInv, [DNext]_all
  PROVE  BaseInv' /\ NoSlips' /\ Alone'
<1> USE DEF FinalInv
<1>1. BaseInv' /\ NoSlips'
  BY BaseStep, DaemonStepIsTunnelStep, NoSlipsStep DEF BaseInv, FinalKept
<1>2. ASSUME ~torn' PROVE SaveInv' /\ Undone'
  <2>1. SaveInv /\ Undone /\ [Orderly]_vars
    BY <1>2, UntornStep DEF Alone
  <2> QED
    BY <1>2, <2>1, UntornSaves, UndoneStep DEF FinalKept
<1> QED
  BY <1>1, <1>2 DEF Alone

(* A step of another operation, or of the world, leaves the daemon's where *)
(* it is, or ends its script with the distro's.                            *)
LEMMA OthersLeaveMine ==
  ASSUME BaseInv, DaemonWaits, mine # NoOp,
         OthersWork \/ OthersCall \/ OthersFail \/ World \/ UNCHANGED all
  PROVE  /\ Waits(mine)' /\ UNCHANGED <<stage, mine, ok>>
         /\ pc'[mine] \in {pc[mine], Aborted(mine)}
<1> USE DEF BaseInv, DaemonWaits, TypeInv, TypeOK, ControlOK
<1>0. mine \in Ops /\ Waits(mine) /\ UNCHANGED <<stage, mine, ok>>
  BY DEF MineOK, OthersWork, OthersCall, OthersFail, World, self, all
<1>1. ASSUME NEW p \in Ops \ {mine}, Moves(p) \/ Ends(p) \/ Leaves(p)
      PROVE  Waits(mine)' /\ pc'[mine] = pc[mine]
  BY <1>0, <1>1 DEF Moves, Ends, Leaves, Step, ScriptEnds, Waits, Active
<1>2. ASSUME NEW p \in Ops \ {mine}, ConfigureAgain(p) \/ CommandFails(p)
      PROVE  Waits(mine)' /\ pc'[mine] = pc[mine]
  BY <1>0, <1>2 DEF ConfigureAgain, CommandFails, ScriptEnds, Waits, Active
<1>3. ASSUME NEW p \in Ops \ {mine}, StartBegin(p) \/ StopBegin(p) \/ Crash(p)
      PROVE  Waits(mine)' /\ pc'[mine] = pc[mine]
  BY <1>0, <1>3 DEF StartBegin, StopBegin, Enter, Crash, Waits, Active
<1>4. ASSUME NEW next, AbortScripts(next), next[mine] = Aborted(mine)
      PROVE  Waits(mine)' /\ pc'[mine] = Aborted(mine)
  BY <1>0, <1>4, AbortedIs DEF AbortScripts, Waits, Active
<1>5. ASSUME NEW p \in Ops \ {mine}, TerminateDistro(p)
      PROVE  Waits(mine)' /\ pc'[mine] = Aborted(mine)
  BY <1>0, <1>4, <1>5 DEF TerminateDistro, DistroStops
<1>6. CASE OthersWork
  BY <1>0, <1>1, <1>2, <1>5, <1>6, AdvanceControl DEF OthersWork
<1>7. CASE OthersCall \/ OthersFail
  BY <1>0, <1>2, <1>3, <1>7 DEF OthersCall, OthersFail
<1>8. CASE World
  <2>1. CASE ForwarderDies \/ PidReused \/ ProcExits
    BY <1>0, <2>1 DEF ForwarderDies, PidReused, ProcExits, Waits, Active
  <2>2. CASE Terminate \/ Shutdown
    BY <1>0, <1>4, <2>2 DEF Terminate, Shutdown, DistroStops
  <2>3. CASE UserUnlock
    BY <1>0, <2>3 DEF UserUnlock, Waits, Active
  <2> QED
    BY <1>8, <2>1, <2>2, <2>3 DEF World
<1>9. CASE UNCHANGED all
  BY <1>0, <1>9 DEF all, vars, Waits, Active
<1> QED
  BY <1>0, <1>6, <1>7, <1>8, <1>9

(* What a step of the daemon's own operation does to its place: a Stop     *)
(* goes on through its script, to the terminate, to the release.           *)
LEMMA MineMoves ==
  ASSUME BaseInv, DaemonWaits, mine # NoOp, UNCHANGED mine, pc[mine] # "release",
         Advance(mine) \/ ConfigureAgain(mine) \/ CommandFails(mine)
  PROVE  /\ Waits(mine)'
         /\ pc[mine] \in StopSteps \union {"terminate"}
              => pc'[mine] \in StopSteps \union {"terminate", "release"}
<1> USE DEF BaseInv, DaemonWaits, MineOK, TypeInv, TypeOK, ControlOK
<1>1. Waits(mine)'
  <2>1. CASE Moves(mine) \/ Ends(mine)
    BY <2>1 DEF Moves, Ends, Step, ScriptEnds, Waits, Active, ClientSteps
  <2>2. CASE TerminateDistro(mine)
    BY <2>2 DEF TerminateDistro, DistroStops, AbortScripts, Waits, Active
  <2>3. CASE ConfigureAgain(mine)
    BY <2>3 DEF ConfigureAgain, Waits, Active
  <2>4. CommandFails(mine) => Ends(mine)
    BY DEF CommandFails, Ends, Active, Unguarded, AfterStop, ClientSteps
  <2> QED
    BY <2>1, <2>2, <2>3, <2>4, AdvanceControl DEF Leaves
<1>2. ASSUME pc[mine] \in StopSteps \union {"terminate"}
      PROVE  pc'[mine] \in StopSteps \union {"terminate", "release"}
  <2> USE <1>2 DEF StopSteps, AfterStop
  <2>1. mine \notin orphan
    BY DEF Waits
  <2>2. CASE Advance(mine)
    BY <2>1, <2>2 DEF Advance, Prepare, Probe, SaveMnt, SaveEtc, SaveRoute, WriteConf,
       RemoveEtc, WriteEtc, CopyMnt, AddLink, Spawn, Await, Configure, Stabilize,
       KillForwarder, RestoreMnt, RestoreEtc, RestoreConf, RestoreRoute, DeleteLink,
       RemoveState, TerminateDistro, DistroStops, AbortScripts, Release, Step,
       ScriptEnds
  <2>3. CASE ConfigureAgain(mine) \/ CommandFails(mine)
    BY <2>1, <2>3 DEF ConfigureAgain, CommandFails, Unguarded, ScriptEnds
  <2> QED
    BY <2>2, <2>3
<1> QED
  BY <1>1, <1>2

LEMMA WaitsStep ==
  ASSUME BaseInv, DaemonWaits, [DNext]_all
  PROVE  DaemonWaits'
<1> USE DEF DaemonWaits
<1>1. CASE Call
  <2>1. PICK p \in Ops : /\ mine' = p /\ UNCHANGED stage /\ stage \in Calls
                         /\ IF stage \in {"start", "restart"} THEN StartBegin(p)
                            ELSE StopBegin(p)
    BY <1>1 DEF Call
  <2>2. p \notin orphan
    BY <2>1 DEF StartBegin, StopBegin, Enter, BaseInv, OrphansRun, InScript,
                ScriptSteps, StartSteps, StopSteps
  <2>3. Waits(p)' /\ (stage = "final" => pc'[p] = "kill")
    BY <2>1, <2>2 DEF StartBegin, StopBegin, Enter, Waits, Active, BaseInv, TypeInv,
                      TypeOK, ControlOK
  <2> QED
    BY <2>1, <2>3 DEF StopSteps
<1>2. CASE CallFails \/ CutWork \/ Killed
  BY <1>2 DEF CallFails, CutWork, Killed, Returns
<1>3. CASE Check \/ CheckFails \/ Finish
  BY <1>3 DEF Check, CheckFails, Finish, Calls
<1>4. CASE Interrupt
  BY <1>4 DEF Interrupt, vars, Waits, Active
<1>5. CASE WorkAgain \/ WorkFails(TRUE) \/ WorkFails(FALSE)
  <2>1. mine # NoOp /\ UNCHANGED <<stage, mine>>
        /\ (ConfigureAgain(mine) \/ CommandFails(mine))
    BY <1>5 DEF WorkAgain, WorkFails, self
  <2>2. pc[mine] # "release"
    BY <2>1 DEF ConfigureAgain, CommandFails, Unguarded
  <2> QED
    BY <2>1, <2>2, MineMoves
<1>6. CASE Work
  <2>1. CASE pc[mine] = "release"
    BY <1>6, <2>1 DEF Work, Returns
  <2>2. CASE pc[mine] # "release"
    BY <1>6, <2>2, MineMoves DEF Work, Returns
  <2> QED
    BY <2>1, <2>2
<1>7. CASE OthersWork \/ OthersCall \/ OthersFail \/ World \/ UNCHANGED all
  <2>1. CASE mine = NoOp
    BY <1>7, <2>1 DEF OthersWork, OthersCall, OthersFail, World, self, all
  <2>2. CASE mine # NoOp
    <3>1. pc[mine] \in StopSteps \union {"terminate", "release"}
            => Aborted(mine) \in StopSteps \union {"terminate", "release"}
      BY <2>2 DEF Aborted, AfterStop, Waits, StopSteps, StartSteps
    <3> QED
      BY <1>7, <2>2, <3>1, OthersLeaveMine
  <2> QED
    BY <2>1, <2>2
<1> QED
  BY <1>1, <1>2, <1>3, <1>4, <1>5, <1>6, <1>7 DEF DNext, DaemonStep

-----------------------------------------------------------------------------
(* While the daemon's operation is active nobody disturbs what it has left:*)
(* no other operation is, and the world brings nothing of the tunnel back. *)
LEMMA OthersKeepClean ==
  ASSUME FinalKept, FinalInv, mine # NoOp, ~torn, Clean,
         OthersWork \/ OthersCall \/ OthersFail \/ World \/ UNCHANGED all
  PROVE  Clean'
<1> USE DEF FinalInv, BaseInv, DaemonWaits, Alone, SaveInv
<1>0. mine \in Ops /\ Waits(mine) /\ lock = mine /\ lock # NoOp /\ lock # Stale
  BY TunnelAssumption DEF MineOK, LockIsItsClients
<1>1. ASSUME NEW p \in Ops \ {mine} PROVE ~Active(p)
  BY <1>0, <1>1 DEF Apart, OneActive, Waits
<1>2. ~OthersWork
  BY <1>1, AdvanceIsActive DEF OthersWork
<1>3. ~OthersCall /\ ~OthersFail
  BY <1>0, <1>1, AdvanceIsActive DEF OthersCall, OthersFail, StartBegin, StopBegin, Enter,
     Crash, Waits
<1>4. ~UserUnlock
  BY <1>0 DEF UserUnlock
<1>5. CASE World
  <2>1. CASE ForwarderDies \/ PidReused \/ ProcExits
    BY <2>1 DEF ForwarderDies, PidReused, ProcExits, conf, net, Clean, TypeInv, TypeOK,
       SystemOK
  <2>2. CASE Terminate
    BY <2>2 DEF Terminate, DistroStops, Regenerated, net, Clean
  <2> QED
    BY <1>4, <1>5, <2>1, <2>2 DEF World, FinalKept, Shutdown
<1>6. CASE UNCHANGED all
  BY <1>6 DEF all, vars, conf, net, fwd, Clean
<1> QED
  BY <1>2, <1>3, <1>4, <1>5, <1>6

LEMMA SettledStep ==
  ASSUME FinalKept, FinalInv, [DNext]_all
  PROVE  Settled'
<1> SUFFICES ASSUME mine' # NoOp, stage' = "final", ok', ~torn'
             PROVE  pc'[mine'] \in {"terminate", "release"} /\ Clean'
  BY DEF Settled
<1> USE DEF FinalInv, BaseInv, DaemonWaits
<1>0. ~torn
  BY UntornStep
<1>1. CASE Work
  <2>1. pc[mine] # "release" /\ UNCHANGED <<stage, mine>> /\ ok' = (ok \/ Completes(mine))
        /\ Advance(mine) /\ mine # NoOp
    BY <1>1 DEF Work, Returns
  <2>2. pc[mine] \in StopSteps \union {"terminate"} /\ mine \in Ops /\ mine \notin orphan
    BY <2>1 DEF MineOK, Waits
  <2>3. CASE RemoveState(mine)
    <3>1. pc'[mine] \in {"terminate", "release"}
      BY <2>2, <2>3 DEF RemoveState, ScriptEnds, AfterStop, TypeInv, TypeOK, ControlOK
    <3>2. Clean'
      BY <1>0, <2>2, <2>3 DEF RemoveState, Alone, Undone, NoSlips, Clean, conf, net, AfterKill,
         AfterMnt, AfterEtc, AfterConf, AfterRoute, AfterLink
    <3> QED
      BY <2>1, <3>1, <3>2
  <2>4. CASE ~RemoveState(mine)
    <3>1. pc[mine] # "rmState"
      BY <2>1, <2>2, <2>4 DEF Advance, Prepare, Probe, SaveMnt, SaveEtc, SaveRoute,
         WriteConf, RemoveEtc, WriteEtc, CopyMnt, AddLink, Spawn, Await, Configure,
         Stabilize, KillForwarder, RestoreMnt, RestoreEtc, RestoreConf, RestoreRoute,
         DeleteLink, TerminateDistro, Release, Step
    <3>2. ~Completes(mine)
      BY <2>2, <3>1 DEF Completes, StopSteps
    <3>3. pc[mine] = "terminate" /\ Clean
      BY <1>0, <2>1, <3>2 DEF Settled
    <3>4. TerminateDistro(mine)
      BY <2>1, <3>3 DEF Advance, Prepare, Probe, SaveMnt, SaveEtc, SaveRoute,
         WriteConf, RemoveEtc, WriteEtc, CopyMnt, AddLink, Spawn, Await, Configure,
         Stabilize, KillForwarder, RestoreMnt, RestoreEtc, RestoreConf, RestoreRoute,
         DeleteLink, RemoveState, Release, Step
    <3> QED
      BY <2>1, <2>2, <3>3, <3>4 DEF TerminateDistro, DistroStops, AbortScripts,
         Regenerated, net, Clean
  <2> QED
    BY <2>3, <2>4
<1>2. CASE Call \/ CallFails \/ CutWork \/ Killed \/ Check \/ CheckFails \/ Finish
  BY <1>2 DEF Call, CallFails, CutWork, Killed, Returns, Check, CheckFails, Finish, Calls
<1>3. CASE Interrupt
  BY <1>0, <1>3 DEF Interrupt, vars, conf, net, fwd, Clean, Settled
<1>4. CASE WorkFails(TRUE) \/ WorkFails(FALSE)
  BY <1>4 DEF WorkFails
<1>5. CASE WorkAgain
  <2>1. /\ UNCHANGED <<stage, mine>> /\ mine # NoOp
        /\ pc[mine] \in {"configure", "stabilizing"}
    BY <1>5 DEF WorkAgain, ConfigureAgain, self
  <2> QED
    BY <2>1 DEF StopSteps
<1>6. CASE OthersWork \/ OthersCall \/ OthersFail \/ World \/ UNCHANGED all
  <2>1. UNCHANGED <<stage, mine, ok>> /\ mine # NoOp
    BY <1>6 DEF OthersWork, OthersCall, OthersFail, World, self, all
  <2>2. pc[mine] \in {"terminate", "release"} /\ Clean
    BY <1>0, <2>1 DEF Settled
  <2>3. Aborted(mine) = pc[mine]
    BY <2>2 DEF Aborted, InScript, ScriptSteps, StartSteps, StopSteps
  <2> QED
    BY <1>0, <1>6, <2>1, <2>2, <2>3, OthersLeaveMine, OthersKeepClean
<1> QED
  BY <1>1, <1>2, <1>3, <1>4, <1>5, <1>6 DEF DNext, DaemonStep

(* When the final Stop has succeeded nothing of the tunnel is left behind, *)
(* for any number of other clients and of accidents, wherever the          *)
(* interrupt came, as long as no operation began over a script that still  *)
(* ran, eth0 has an address to guess a route from, WSL is not shut down    *)
(* underneath and no command of the stop script fails unnoticed.           *)
THEOREM FinalStopUndoesAll ==
  ASSUME FinalKept
  PROVE  DSpec => []FinalStopRestores
<1>1. DInit => FinalInv
  <2> SUFFICES ASSUME DInit PROVE FinalInv
    OBVIOUS
  <2>1. TypeInv /\ Apart /\ OrphansRun /\ LockIsItsClients
    BY TypeInit, LockInit DEF DInit
  <2>2. BaseInv /\ NoSlips /\ DaemonWaits /\ Settled
    BY <2>1 DEF DInit, Init, BaseInv, NoSlips, MineOK, DaemonWaits, Settled
  <2>3. SaveInv /\ Undone
    BY <2>1 DEF DInit, Init, SaveInv, BackupsNeverTunnel, Probed, Saving, Undone,
       AfterKill, AfterMnt, AfterEtc, AfterConf, AfterRoute, AfterLink
  <2> QED
    BY <2>2, <2>3 DEF FinalInv, Alone
<1>2. FinalInv /\ [DNext]_all => FinalInv'
  BY AloneStep, WaitsStep, SettledStep DEF FinalInv
<1>3. FinalInv => FinalStopRestores
  BY DEF FinalInv, Settled, Clean, FinalStopRestores, Nameserver
<1> QED
  BY <1>1, <1>2, <1>3, PTL DEF DSpec

-----------------------------------------------------------------------------
(***************************************************************************)
(* The user's resolv.conf next to a daemon.  That no operation loses it    *)
(* (Files and StageOf of TunnelRestoreProofs) needs operations that are    *)
(* alone, so it is carried on as long as none begins over a script that    *)
(* still runs: interrupts and hand-removed lock files are in, which        *)
(* Tunnel's own theorem must leave out.                                    *)
(***************************************************************************)
EtcAlone == ~torn => EtcInv

(* Whatever the daemon and other clients start, stop, retry and leave      *)
(* behind, the user's file is in place or in the backup until an operation *)
(* begins over a script that still runs.  FilesKept wants a link for it    *)
(* where Stop is called though nothing was saved, as the daemon's restart  *)
(* does.                                                                   *)
THEOREM DaemonKeepsUsersEtc ==
  ASSUME FilesKept
  PROVE  DSpec => []DaemonKeepsEtc
<1>1. DInit => BaseInv /\ EtcAlone
  <2> SUFFICES ASSUME DInit PROVE BaseInv /\ EtcAlone
    OBVIOUS
  <2>1. TypeInv /\ Apart /\ OrphansRun /\ LockIsItsClients
    BY TypeInit, LockInit DEF DInit
  <2>2. BaseInv
    BY <2>1 DEF DInit, BaseInv, MineOK
  <2>3. SaveInv
    BY <2>1 DEF DInit, Init, SaveInv, BackupsNeverTunnel, Probed, Saving
  <2>4. Files /\ \A p \in Ops : StageOf(p)
    BY DEF DInit, Init, FilesKept, Files, EtcKnown, EtcRecoverable, RouteAfterEtc,
       LinkSaved, StageOf, Replacing, StopSteps, AfterMnt, AfterEtc, AfterConf,
       AfterRoute, AfterLink
  <2> QED
    BY <2>2, <2>3, <2>4 DEF EtcAlone, EtcInv
<1>2. BaseInv /\ EtcAlone /\ [DNext]_all => (BaseInv /\ EtcAlone)'
  <2> SUFFICES ASSUME BaseInv, EtcAlone, [DNext]_all, ~torn'
               PROVE  EtcInv'
    BY BaseStep DEF EtcAlone
  <2>1. EtcInv /\ [Next]_vars /\ [Orderly]_vars
    BY UntornStep, DaemonStepIsTunnelStep DEF BaseInv, EtcAlone
  <2>2. SaveInv'
    BY <2>1, UntornSaves DEF EtcInv
  <2> QED
    BY <2>1, <2>2, FilesStep, StageStep DEF EtcInv
<1>3. EtcAlone => DaemonKeepsEtc
  BY DEF EtcAlone, EtcInv, Files, DaemonKeepsEtc
<1> QED
  BY <1>1, <1>2, <1>3, PTL DEF DSpec
=============================================================================
