------------------------ MODULE TunnelRestoreProofs -------------------------
(***************************************************************************)
(* Proofs that Tunnel never saves its own DNS or route as the user's, that *)
(* Stop leaves nothing of the tunnel, and that the user's resolv.conf and  *)
(* default route survive, for any number of operations.                    *)
(*                                                                         *)
(* The first two need that an operation is alone.  That the saved route is *)
(* not the tunnel's rests on what a start script found before it reads the *)
(* route: without a running forwarder it deleted the interface, and the    *)
(* route with it (Probed).  What Stop leaves is built up step by step      *)
(* (Undone).                                                               *)
(***************************************************************************)
EXTENDS TunnelProofs

Saving == {"saveMnt", "saveEtc", "saveRoute"}

(* A start script that found no forwarder has removed the tunnel's route. *)
Probed == \A p \in Ops : pc[p] \in Saving /\ ~running[p] => route # "tunnel"

SaveInv == TypeInv /\ Apart /\ BackupsNeverTunnel /\ Probed

(* An operation that takes a step of its own is active. *)
LEMMA AdvanceIsActive ==
  ASSUME NEW p \in Ops, Advance(p) \/ ConfigureAgain(p) \/ CommandFails(p)
  PROVE  Active(p)
<1>1. CASE Advance(p)
  BY <1>1, AdvanceControl
  DEF Moves, Ends, Leaves, Step, Active, TerminateDistro, ScriptSteps, StartSteps,
      StopSteps
<1>2. CASE ConfigureAgain(p) \/ CommandFails(p)
  BY <1>2 DEF ConfigureAgain, CommandFails, Active, Unguarded
<1> QED
  BY <1>1, <1>2

(* A script step that another operation has reached was not disturbed:     *)
(* while one of them is in a script no other takes a step of its own.      *)
LEMMA OnlyOneSteps ==
  ASSUME Apart, NEW p \in Ops, NEW q \in Ops, InScript(q),
         Advance(p) \/ ConfigureAgain(p) \/ CommandFails(p)
  PROVE  p = q
BY AdvanceIsActive
DEF Apart, OneActive, Active, InScript, ScriptSteps, StartSteps, StopSteps

(* Who is in a script after the step of another operation was before. *)
LEMMA OthersStay ==
  ASSUME TypeInv, NEW p \in Ops, NEW q \in Ops \ {p},
         Advance(p) \/ ConfigureAgain(p) \/ CommandFails(p), InScript(q)'
  PROVE  InScript(q)
<1> USE DEF TypeInv, TypeOK, ControlOK
<1>1. CASE TerminateDistro(p)
  BY <1>1, AbortedOutOfScript DEF TerminateDistro, DistroStops, AbortScripts, InScript
<1>2. CASE Moves(p) \/ Ends(p) \/ Leaves(p)
  BY <1>2 DEF Moves, Ends, Leaves, Step, ScriptEnds, InScript
<1>3. CASE ConfigureAgain(p)
  BY <1>3 DEF ConfigureAgain, InScript
<1>4. CASE CommandFails(p)
  BY <1>4 DEF CommandFails, ScriptEnds, InScript
<1> QED
  BY <1>1, <1>2, <1>3, <1>4, AdvanceControl

(* Nobody is in a script when the distro or WSL has stopped. *)
LEMMA NoScriptAfterAbort ==
  ASSUME TypeInv, (\E p \in Ops : TerminateDistro(p)) \/ Terminate \/ Shutdown,
         NEW q \in Ops
  PROVE  ~InScript(q)'
BY AbortedOutOfScript
DEF TerminateDistro, Terminate, Shutdown, DistroStops, AbortScripts, InScript,
    ScriptSteps, StartSteps, StopSteps

(* What may happen to an operation that is in a script after a step: it    *)
(* took the lock, it took the step itself, or nothing that operations do   *)
(* was done.                                                               *)
LEMMA ScriptCases ==
  ASSUME TypeInv, Apart, [Orderly]_vars, NEW q \in Ops, InScript(q)'
  PROVE  \/ StopBegin(q)
         \/ Advance(q) /\ ~TerminateDistro(q)
         \/ ConfigureAgain(q) \/ CommandFails(q)
         \/ /\ UNCHANGED <<pc, locals, etc, mnt, block, net, saved>>
            /\ proc' = proc \/ ForwarderDies \/ PidReused \/ ProcExits
<1> DEFINE Quiet == UNCHANGED <<pc, locals, etc, mnt, block, net, saved>>
<1>1. ASSUME NEW p \in Ops, Advance(p) \/ ConfigureAgain(p) \/ CommandFails(p)
      PROVE  p = q
  BY <1>1, OthersStay, OnlyOneSteps
<1>2. ASSUME NEW p \in Ops, StartBegin(p) \/ StopBegin(p)
      PROVE  StopBegin(q)
  <2>1. pc[q] = "idle" \/ UNCHANGED pc
    BY <1>2 DEF Orderly, Active, vars
  <2>2. p = q /\ ~StartBegin(p)
    BY <1>2, <2>1 DEF StartBegin, StopBegin, Enter, InScript, ScriptSteps,
                      StartSteps, StopSteps, TypeInv, TypeOK, ControlOK
  <2> QED
    BY <1>2, <2>2
<1>3. ASSUME NEW p \in Ops, Refused(p)
      PROVE  Quiet /\ proc' = proc
  BY <1>3 DEF Refused, vars, locals, conf, net, fwd, saved
<1>4. ASSUME NEW p \in Ops, Crash(p) \/ Cancel(p)
      PROVE  Quiet /\ proc' = proc
  <2>1. UNCHANGED pc
    <3>1. ASSUME ~UNCHANGED pc
          PROVE  Active(p) /\ p # q /\ InScript(q)
      BY <1>4, <3>1 DEF Crash, Cancel, Waits, InScript, ScriptSteps, StartSteps,
                        StopSteps, TypeInv, TypeOK, ControlOK
    <3> QED
      BY <3>1 DEF Apart, OneActive, Active, InScript, ScriptSteps, StartSteps, StopSteps
  <2>2. pc'[p] # "idle"
    BY <1>4, <2>1 DEF Crash, Cancel, Waits, Active
  <2> QED
    BY <1>4, <2>1, <2>2 DEF Crash, Cancel, locals, conf, net, fwd, saved, TypeInv,
                            TypeOK, ControlOK
<1>6. CASE UserUnlock \/ ForwarderDies \/ PidReused \/ ProcExits
  BY <1>6 DEF UserUnlock, ForwarderDies, PidReused, ProcExits, locals, conf, net,
              fwd, saved
<1>7. CASE UNCHANGED vars
  BY <1>7 DEF vars, locals, conf, net, fwd, saved
<1>8. ~EditEtc
  BY DEF EditEtc, Active, InScript, ScriptSteps, StartSteps, StopSteps
<1>9. ~(Terminate \/ Shutdown \/ TerminateDistro(q))
  BY NoScriptAfterAbort
<1> QED
  BY <1>1, <1>2, <1>3, <1>4, <1>6, <1>7, <1>8, <1>9
  DEF Orderly, Next, Operate, Environment

-----------------------------------------------------------------------------
(* Only the save steps write to the backups; Stop and a shutdown of WSL    *)
(* remove them.                                                            *)
LEMMA SavedChanges ==
  ASSUME [Next]_vars
  PROVE  \/ UNCHANGED saved
         \/ \E p \in Ops : SaveMnt(p) \/ SaveEtc(p) \/ SaveRoute(p)
         \/ bakEtc' = "absent" /\ bakMnt' = "absent" /\ routeDat' = "absent"
<1>1. ASSUME NEW p \in Ops, Advance(p)
      PROVE  \/ UNCHANGED saved
             \/ SaveMnt(p) \/ SaveEtc(p) \/ SaveRoute(p)
             \/ bakEtc' = "absent" /\ bakMnt' = "absent" /\ routeDat' = "absent"
  BY <1>1 DEF Advance, Prepare, Probe, WriteConf, RemoveEtc, WriteEtc, CopyMnt,
     AddLink, Spawn, Await, Configure, Stabilize, KillForwarder, RestoreMnt,
     RestoreEtc, RestoreConf, RestoreRoute, DeleteLink, RemoveState,
     TerminateDistro, DistroStops, Release, saved
<1>2. ASSUME NEW p \in Ops, StartBegin(p) \/ StopBegin(p) \/ Refused(p)
             \/ ConfigureAgain(p) \/ CommandFails(p) \/ Crash(p) \/ Cancel(p)
      PROVE  UNCHANGED saved
  BY <1>2 DEF StartBegin, StopBegin, Enter, Refused, ConfigureAgain, CommandFails,
     Crash, Cancel, vars
<1>3. CASE UserUnlock \/ ForwarderDies \/ PidReused \/ ProcExits \/ Terminate
           \/ EditEtc \/ UNCHANGED vars
  BY <1>3 DEF UserUnlock, ForwarderDies, PidReused, ProcExits, Terminate,
     DistroStops, EditEtc, vars
<1>4. CASE Shutdown
  BY <1>4 DEF Shutdown
<1> QED
  BY <1>1, <1>2, <1>3, <1>4 DEF Next, Operate, Environment

(* What is copied is not the tunnel's: SaveMnt and SaveEtc look at the      *)
(* nameserver first, and at saveRoute a tunnel route means a forwarder.    *)
LEMMA BackupsStep ==
  ASSUME SaveInv, [Next]_vars
  PROVE  BackupsNeverTunnel'
<1>1. ASSUME NEW p \in Ops, SaveMnt(p)
      PROVE  bakMnt' # "tunnel" /\ UNCHANGED <<bakEtc, routeDat>>
  BY <1>1 DEF SaveMnt, Copied, SaveInv, BackupsNeverTunnel
<1>2. ASSUME NEW p \in Ops, SaveEtc(p)
      PROVE  bakEtc' # "tunnel" /\ UNCHANGED <<bakMnt, routeDat>>
  <2>1. Nameserver(etc) # "tunnel" => etc # "tunnel"
    BY DEF Nameserver
  <2> QED
    BY <1>2, <2>1 DEF SaveEtc, Copied, SaveInv, BackupsNeverTunnel
<1>3. ASSUME NEW p \in Ops, SaveRoute(p)
      PROVE  routeDat' # "tunnel" /\ UNCHANGED <<bakEtc, bakMnt>>
  <2>1. route = "tunnel" => Reinstalled(p)
    BY <1>3 DEF SaveRoute, SaveInv, Probed, Saving, Reinstalled, ViaGateway, TypeInv,
                TypeOK, ControlOK
  <2> QED
    BY <1>3, <2>1 DEF SaveRoute, SaveInv, BackupsNeverTunnel
<1> QED
  BY <1>1, <1>2, <1>3, SavedChanges DEF saved, SaveInv, BackupsNeverTunnel

(* Between the probe and the saved route nobody installs the tunnel's. *)
LEMMA ProbedStep ==
  ASSUME SaveInv, [Orderly]_vars
  PROVE  Probed'
<1> SUFFICES ASSUME NEW q \in Ops, pc'[q] \in Saving, ~running'[q]
             PROVE  route' # "tunnel"
  BY DEF Probed
<1> USE DEF SaveInv, TypeInv, TypeOK, ControlOK, Saving
<1>1. CASE Probe(q)
  BY <1>1 DEF Probe, RouteWithoutLink
<1>2. CASE SaveMnt(q) \/ SaveEtc(q)
  BY <1>2 DEF SaveMnt, SaveEtc, Step, locals, net, Probed
<1>3. CASE Advance(q) /\ ~(Probe(q) \/ SaveMnt(q) \/ SaveEtc(q) \/ TerminateDistro(q))
  BY <1>3 DEF Advance, Prepare, SaveRoute, WriteConf, RemoveEtc, WriteEtc, CopyMnt,
     AddLink, Spawn, Await, Configure, Stabilize, KillForwarder, RestoreMnt,
     RestoreEtc, RestoreConf, RestoreRoute, DeleteLink, RemoveState, Release,
     Step, ScriptEnds, AfterStop
<1>4. CASE StopBegin(q) \/ ConfigureAgain(q) \/ CommandFails(q)
  BY <1>4 DEF StopBegin, Enter, ConfigureAgain, CommandFails, ScriptEnds, AfterStop
<1>5. CASE UNCHANGED <<pc, running, net>>
  BY <1>5 DEF net, Probed
<1>6. InScript(q)'
  BY DEF InScript, ScriptSteps, StartSteps
<1> QED
  BY <1>1, <1>2, <1>3, <1>4, <1>5, <1>6, ScriptCases DEF locals

(* Orderly steps keep all of it. *)
LEMMA SaveStep ==
  ASSUME SaveInv, [Orderly]_vars, OrphansRun'
  PROVE  SaveInv'
<1>1. [Next]_vars
  BY DEF Orderly
<1> QED
  BY <1>1, TypeStep, OrderlyStep, BackupsStep, ProbedStep
  DEF SaveInv, TypeInv, TypeOK

(* The invariant holds of every behaviour. *)
LEMMA SaveInvariance ==
  ASSUME LockKept
  PROVE  Spec => [](LockInv /\ SaveInv)
<1>1. Init => SaveInv
  BY TypeInit, LockInit
  DEF SaveInv, Init, BackupsNeverTunnel, Probed, Saving
<1>2. LockInv /\ LockInv' /\ SaveInv /\ [Next]_vars => SaveInv'
  BY LockIsOrderly, SaveStep DEF LockInv, Apart
<1> QED
  BY <1>1, <1>2, OperationsAlone, PTL DEF Spec

(* The tunnel's own DNS and route are never saved as if they were the      *)
(* user's, whatever leftovers of crashed and failed operations Start finds *)
(* when it decides what to save.                                           *)
THEOREM TunnelNeverSaved ==
  ASSUME LockKept
  PROVE  Spec => []BackupsNeverTunnel
<1>1. SaveInv => BackupsNeverTunnel
  BY DEF SaveInv
<1> QED
  BY SaveInvariance, <1>1, PTL

-----------------------------------------------------------------------------
(* The steps of Stop that come after each thing it undoes. *)
AfterLink  == {"rmState"}
AfterRoute == {"delLink"} \union AfterLink
AfterConf  == {"restoreRoute"} \union AfterRoute
AfterEtc   == {"restoreConf"} \union AfterConf
AfterMnt   == {"restoreEtc"} \union AfterEtc
AfterKill  == {"restoreMnt"} \union AfterMnt

(* What Stop has undone stays undone while its script runs, and what it    *)
(* has not undone it has failed to.                                        *)
Undone ==
  \A p \in Ops :
    /\ pc[p] \in AfterKill  => \A q \in Pids : proc[q] # "fwd"
    /\ pc[p] \in AfterMnt   => mnt # "tunnel"
    /\ pc[p] \in AfterEtc   => etc # "tunnel"
    /\ pc[p] \in AfterConf  => ~block \/ "block" \in slipped[p]
    /\ pc[p] \in AfterRoute => route \notin {"tunnel", "none"} \/ "route" \in slipped[p]
    /\ pc[p] \in AfterLink  => ~iface \/ "link" \in slipped[p]

(* Each step of Stop undoes its part and keeps the parts before it. *)
LEMMA UndoneStep ==
  ASSUME HasEth0, SaveInv, Undone, [Orderly]_vars
  PROVE  Undone'
<1> DEFINE Kept(p) ==
      /\ pc[p] \in AfterKill  => \A q \in Pids : proc[q] # "fwd"
      /\ pc[p] \in AfterMnt   => mnt # "tunnel"
      /\ pc[p] \in AfterEtc   => etc # "tunnel"
      /\ pc[p] \in AfterConf  => ~block \/ "block" \in slipped[p]
      /\ pc[p] \in AfterRoute => route \notin {"tunnel", "none"} \/ "route" \in slipped[p]
      /\ pc[p] \in AfterLink  => ~iface \/ "link" \in slipped[p]
<1> SUFFICES ASSUME NEW p \in Ops, pc'[p] \in AfterKill
             PROVE  Kept(p)'
  BY DEF Undone, AfterKill, AfterMnt, AfterEtc, AfterConf, AfterRoute, AfterLink
<1> USE DEF AfterKill, AfterMnt, AfterEtc, AfterConf, AfterRoute, AfterLink
<1> USE DEF SaveInv, TypeInv, TypeOK, ControlOK, SystemOK
<1>0. Kept(p)
  BY DEF Undone
<1> USE DEF locals, Slips
<1>1. CASE KillForwarder(p)
  BY <1>1 DEF KillForwarder, Step, NoForwarders
<1>2. CASE RestoreMnt(p)
  <2>1. bakMnt # "tunnel" /\ GuessedMnt # "tunnel"
    BY DEF BackupsNeverTunnel, GuessedMnt
  <2> QED
    BY <1>0, <1>2, <2>1 DEF RestoreMnt, Step, Copied, fwd
<1>3. CASE RestoreEtc(p)
  <2>1. bakEtc # "tunnel"
    BY DEF BackupsNeverTunnel
  <2> QED
    BY <1>0, <1>3, <2>1 DEF RestoreEtc, Step, Copied, fwd
<1>4. CASE RestoreConf(p)
  BY <1>0, <1>4 DEF RestoreConf, Step, fwd
<1>5. CASE RestoreRoute(p)
  <2>1. routeDat # "tunnel"
    BY DEF BackupsNeverTunnel
  <2> QED
    BY <1>0, <1>5, <2>1 DEF RestoreRoute, Step, fwd, conf
<1>6. CASE DeleteLink(p)
  BY <1>0, <1>6 DEF DeleteLink, Step, fwd, conf, net, RouteWithoutLink
<1>7. CASE StopBegin(p) \/ ConfigureAgain(p) \/ CommandFails(p)
  BY <1>7 DEF StopBegin, Enter, ConfigureAgain, CommandFails, ScriptEnds, AfterStop
<1>8. CASE Prepare(p) \/ Probe(p) \/ SaveMnt(p) \/ SaveEtc(p) \/ SaveRoute(p)
           \/ WriteConf(p) \/ RemoveEtc(p) \/ WriteEtc(p) \/ CopyMnt(p)
           \/ AddLink(p) \/ Spawn(p) \/ Await(p) \/ Configure(p) \/ Stabilize(p)
           \/ RemoveState(p) \/ Release(p)
  BY <1>8 DEF Prepare, Probe, SaveMnt, SaveEtc, SaveRoute, WriteConf, RemoveEtc,
     WriteEtc, CopyMnt, AddLink, Spawn, Await, Configure, Stabilize, RemoveState,
     Release, Step, ScriptEnds, AfterStop
<1>9. CASE /\ UNCHANGED <<pc, locals, etc, mnt, block, net, saved>>
           /\ proc' = proc \/ ForwarderDies \/ PidReused \/ ProcExits
  <2>1. (\A q \in Pids : proc[q] # "fwd") => \A q \in Pids : proc'[q] # "fwd"
    BY <1>9 DEF ForwarderDies, PidReused, ProcExits
  <2> QED
    BY <1>0, <1>9, <2>1 DEF net
<1>10. InScript(p)'
  BY DEF InScript, ScriptSteps, StopSteps
<1> QED
  BY <1>1, <1>2, <1>3, <1>4, <1>5, <1>6, <1>7, <1>8, <1>9, <1>10, ScriptCases
  DEF Advance

(* When Stop is about to delete $STATE nothing of the tunnel is left and   *)
(* there is a default route, whatever the operations before it left and    *)
(* whatever fails, dies or is terminated meanwhile.                        *)
THEOREM StopUndoesAll ==
  ASSUME LockKept
  PROVE  Spec => []StopLeavesNoTunnel
<1>1. Init => (HasEth0 => Undone)
  BY DEF Init, Undone, AfterKill, AfterMnt, AfterEtc, AfterConf, AfterRoute, AfterLink
<1>2. LockInv /\ SaveInv /\ (HasEth0 => Undone) /\ [Next]_vars => (HasEth0 => Undone)'
  BY UndoneStep, LockIsOrderly
<1>3. (HasEth0 => Undone) => StopLeavesNoTunnel
  BY DEF Undone, StopLeavesNoTunnel, AfterKill, AfterMnt, AfterEtc, AfterConf,
         AfterRoute, AfterLink, Nameserver
<1> QED
  BY SaveInvariance, <1>1, <1>2, <1>3, PTL DEF Spec

-----------------------------------------------------------------------------
(***************************************************************************)
(* Proofs that what is the user's survives, for any number of operations:  *)
(* /etc/resolv.conf is at every moment in place or in the backup, another  *)
(* network's default route and DNS are not touched, and the user's default *)
(* route is lost nowhere but where Start saves that there is none.         *)
(*                                                                         *)
(* RestoreKept names what this rests on: with any of the faults it leaves  *)
(* out, with a relative link, or with a blind Stop over a plain file, the  *)
(* code does lose the file.                                                *)
(*                                                                         *)
(* Why the backup is good when it is needed takes several parts of the     *)
(* state together: Start saves before it replaces, unless what it finds is *)
(* the tunnel's, and then the file was saved before (LinkSaved); Stop      *)
(* deletes the backup only after it has put it in place, and it can rely   *)
(* on a backup because route.dat is written after it (RouteAfterEtc).      *)
(***************************************************************************)

(* A Stop without a backup makes a link, so where the user's file is one   *)
(* even a Stop of what was never started loses nothing.                    *)
FilesKept ==
  /\ Faults \intersect {"copyfail", "shutdown", "edit"} = {}
  /\ OrigEtcs \subseteq {"link", "file"}
  /\ "blind" \in Faults => OrigEtcs \subseteq {"link"}

RestoreKept == LockKept /\ FilesKept

(* The steps of Start from the saved file to the replaced one. *)
Replacing == {"saveRoute", "writeConf", "rmEtc", "writeEtc", "copyMnt"}

(* Nothing but the user's own file is saved or restored. *)
EtcKnown ==
  /\ userEtc \in {"link", "file"}
  /\ bakEtc \in {"absent", userEtc}
  /\ etc \in {userEtc, "absent", "tunnel"}
  /\ "blind" \in Faults => userEtc = "link"

RouteAfterEtc == routeDat # "absent" => bakEtc = userEtc

(* Where the user's file is a link, the file it leads to is there, and     *)
(* when it is the tunnel's both files are saved.                           *)
LinkSaved ==
  userEtc = "link" =>
    /\ mnt # "absent"
    /\ mnt = "tunnel" => bakEtc = userEtc /\ bakMnt # "absent"

Files == EtcKnown /\ EtcRecoverable /\ RouteAfterEtc /\ LinkSaved

(* What an operation may rely on at each of its steps. *)
StageOf(p) ==
  /\ pc[p] \in Replacing => bakEtc = userEtc
  /\ pc[p] \in StopSteps /\ userEtc # "link" => bakEtc = userEtc
  /\ pc[p] \in {"saveEtc"} \union Replacing /\ userEtc = "link" => bakMnt # "absent"
  /\ pc[p] \in AfterMnt /\ userEtc = "link" => mnt # "tunnel"
  /\ pc[p] \in AfterEtc => etc = userEtc

EtcInv == SaveInv /\ Files /\ \A p \in Ops : StageOf(p)

fileVars == <<etc, mnt, bakEtc, bakMnt, routeDat>>

(* Nobody but the user changes what the user's file is. *)
LEMMA UserFixed ==
  ASSUME "edit" \notin Faults, [Next]_vars
  PROVE  UNCHANGED userEtc
<1>1. ASSUME NEW p \in Ops, Advance(p) PROVE UNCHANGED userEtc
  BY <1>1 DEF Advance, Prepare, Probe, SaveMnt, SaveEtc, SaveRoute, WriteConf,
     RemoveEtc, WriteEtc, CopyMnt, AddLink, Spawn, Await, Configure, Stabilize,
     KillForwarder, RestoreMnt, RestoreEtc, RestoreConf, RestoreRoute, DeleteLink,
     RemoveState, TerminateDistro, DistroStops, AbortScripts, Release, Step,
     ScriptEnds, user
<1>2. ASSUME NEW p \in Ops, StartBegin(p) \/ StopBegin(p) \/ Refused(p)
             \/ ConfigureAgain(p) \/ CommandFails(p) \/ Crash(p) \/ Cancel(p)
      PROVE  UNCHANGED userEtc
  BY <1>2 DEF StartBegin, StopBegin, Enter, Refused, ConfigureAgain, CommandFails,
     ScriptEnds, Crash, Cancel, vars, user
<1>3. CASE UserUnlock \/ ForwarderDies \/ PidReused \/ ProcExits \/ Terminate
           \/ Shutdown \/ UNCHANGED vars
  BY <1>3 DEF UserUnlock, ForwarderDies, PidReused, ProcExits, Terminate, Shutdown,
     DistroStops, AbortScripts, vars, user
<1> QED
  BY <1>1, <1>2, <1>3 DEF Next, Operate, Environment, EditEtc

(* The steps that change a resolv.conf, a backup or route.dat. *)
LEMMA FilesChange ==
  ASSUME FilesKept, [Next]_vars
  PROVE  \/ UNCHANGED fileVars
         \/ \E p \in Ops : \/ SaveMnt(p) \/ SaveEtc(p) \/ SaveRoute(p)
                           \/ RemoveEtc(p) \/ WriteEtc(p) \/ CopyMnt(p)
                           \/ RestoreMnt(p) \/ RestoreEtc(p) \/ RemoveState(p)
         \/ etc' = Regenerated /\ UNCHANGED <<mnt, saved>>
<1>1. ASSUME NEW p \in Ops, Advance(p)
      PROVE  \/ UNCHANGED fileVars
             \/ SaveMnt(p) \/ SaveEtc(p) \/ SaveRoute(p)
             \/ RemoveEtc(p) \/ WriteEtc(p) \/ CopyMnt(p)
             \/ RestoreMnt(p) \/ RestoreEtc(p) \/ RemoveState(p)
             \/ etc' = Regenerated /\ UNCHANGED <<mnt, saved>>
  BY <1>1 DEF Advance, Prepare, Probe, WriteConf, AddLink, Spawn, Await, Configure,
     Stabilize, KillForwarder, RestoreConf, RestoreRoute, DeleteLink,
     TerminateDistro, DistroStops, Release, saved, conf, fileVars
<1>2. ASSUME NEW p \in Ops, StartBegin(p) \/ StopBegin(p) \/ Refused(p)
             \/ ConfigureAgain(p) \/ CommandFails(p) \/ Crash(p) \/ Cancel(p)
      PROVE  UNCHANGED fileVars
  BY <1>2 DEF StartBegin, StopBegin, Enter, Refused, ConfigureAgain, CommandFails,
     Crash, Cancel, vars, saved, conf, fileVars
<1>3. CASE UserUnlock \/ ForwarderDies \/ PidReused \/ ProcExits \/ UNCHANGED vars
  BY <1>3 DEF UserUnlock, ForwarderDies, PidReused, ProcExits, vars, saved, conf,
     fileVars
<1>4. CASE Terminate
  BY <1>4 DEF Terminate, DistroStops
<1>5. ~Shutdown /\ ~EditEtc
  BY DEF FilesKept, Shutdown, EditEtc
<1> QED
  BY <1>1, <1>2, <1>3, <1>4, <1>5 DEF Next, Operate, Environment

(* Without "copyfail" a copy succeeds. *)
LEMMA CopySucceeds ==
  ASSUME FilesKept, NEW old, NEW new
  PROVE  Copied(old, new) = {new}
BY DEF FilesKept, Copied

(* When Start has been at the file it is in the backup: it was saved now,  *)
(* or was saved before and is not in place.                                *)
LEMMA SavedBySaveEtc ==
  ASSUME FilesKept, EtcInv, NEW p \in Ops, SaveEtc(p)
  PROVE  bakEtc' = userEtc
<1> USE DEF EtcInv, Files, EtcKnown, EtcRecoverable, LinkSaved
<1>1. bakEtc' \in IF /\ EtcExists /\ Nameserver(etc) # "tunnel" /\ ~BackupExists
                     /\ etc = "file" => bakEtc = "absent"
                  THEN {etc} ELSE {bakEtc}
  BY CopySucceeds DEF SaveEtc
<1>2. CASE etc = "file"
  BY <1>1, <1>2 DEF EtcExists, BackupExists, Nameserver
<1>3. CASE etc = "link"
  BY <1>1, <1>3 DEF EtcExists, BackupExists, Nameserver
<1>4. CASE etc \in {"absent", "tunnel"}
  BY <1>1, <1>4 DEF EtcExists, Nameserver
<1> QED
  BY <1>2, <1>3, <1>4

(* Stop puts the user's file back. *)
LEMMA RestoredByRestoreEtc ==
  ASSUME FilesKept, EtcInv, NEW p \in Ops, RestoreEtc(p)
  PROVE  etc' = userEtc
<1> USE DEF EtcInv, Files, EtcKnown
<1>1. bakEtc = userEtc \/ (userEtc = "link" /\ bakEtc = "absent")
  BY DEF RestoreEtc, Step, StageOf, StopSteps
<1>2. etc' = IF BackupExists /\ Nameserver(bakEtc) # "tunnel" THEN bakEtc ELSE "link"
  BY CopySucceeds DEF RestoreEtc
<1> QED
  BY <1>1, <1>2 DEF BackupExists, Nameserver

(* A backup of the file the link leads to is not the tunnel's, so what     *)
(* Stop writes there is not either.                                        *)
LEMMA RestoredByRestoreMnt ==
  ASSUME FilesKept, EtcInv, NEW p \in Ops, RestoreMnt(p), userEtc = "link"
  PROVE  mnt' \notin {"absent", "tunnel"}
<1>1. bakMnt # "tunnel"
  BY DEF EtcInv, SaveInv, BackupsNeverTunnel
<1>2. mnt' = IF bakMnt \notin {"absent", "tunnel"} THEN bakMnt ELSE GuessedMnt
  BY CopySucceeds DEF RestoreMnt
<1> QED
  BY <1>1, <1>2 DEF GuessedMnt, EtcInv, Files, LinkSaved

(* No step loses the file or breaks what its backup rests on. *)
LEMMA FilesStep ==
  ASSUME FilesKept, EtcInv, [Next]_vars
  PROVE  Files'
<1> USE DEF EtcInv, Files, EtcKnown, EtcRecoverable, RouteAfterEtc, LinkSaved
<1>0. UNCHANGED userEtc
  BY UserFixed DEF FilesKept
<1>1. ASSUME NEW p \in Ops, SaveMnt(p) PROVE Files'
  BY <1>0, <1>1, CopySucceeds DEF SaveMnt, conf
<1>2. ASSUME NEW p \in Ops, SaveEtc(p) PROVE Files'
  BY <1>0, <1>2, SavedBySaveEtc DEF SaveEtc, conf
<1>3. ASSUME NEW p \in Ops, SaveRoute(p) PROVE Files'
  <2>1. bakEtc = userEtc
    BY <1>3 DEF SaveRoute, StageOf, Replacing
  <2> QED
    BY <1>0, <1>3, <2>1 DEF SaveRoute, conf
<1>4. ASSUME NEW p \in Ops, RemoveEtc(p) \/ WriteEtc(p) \/ CopyMnt(p) PROVE Files'
  <2>1. bakEtc = userEtc /\ (userEtc = "link" => bakMnt # "absent")
    BY <1>4 DEF RemoveEtc, WriteEtc, CopyMnt, Step, StageOf, Replacing
  <2>2. CASE RemoveEtc(p) \/ WriteEtc(p)
    BY <1>0, <2>1, <2>2 DEF RemoveEtc, WriteEtc, saved
  <2>3. CASE CopyMnt(p)
    <3>1. mnt' = IF EtcExists THEN Nameserver(etc) ELSE mnt
      BY <2>3, CopySucceeds DEF CopyMnt
    <3>2. mnt' # "absent" \/ mnt' = mnt
      BY <3>1 DEF EtcExists
    <3> QED
      BY <1>0, <2>1, <2>3, <3>2 DEF CopyMnt, saved
  <2> QED
    BY <1>4, <2>2, <2>3
<1>5. ASSUME NEW p \in Ops, RestoreMnt(p) PROVE Files'
  BY <1>0, <1>5, RestoredByRestoreMnt DEF RestoreMnt, saved
<1>6. ASSUME NEW p \in Ops, RestoreEtc(p) PROVE Files'
  BY <1>0, <1>6, RestoredByRestoreEtc DEF RestoreEtc, saved
<1>7. ASSUME NEW p \in Ops, RemoveState(p) PROVE Files'
  <2>1. etc = userEtc /\ (userEtc = "link" => mnt # "tunnel")
    BY <1>7 DEF RemoveState, StageOf, AfterMnt, AfterEtc, AfterConf, AfterRoute, AfterLink
  <2> QED
    BY <1>0, <1>7, <2>1 DEF RemoveState, conf
<1>8. CASE etc' = Regenerated /\ UNCHANGED <<mnt, saved>>
  BY <1>0, <1>8 DEF Regenerated, saved
<1>9. CASE UNCHANGED fileVars
  BY <1>0, <1>9 DEF fileVars
<1> QED
  BY <1>1, <1>2, <1>3, <1>4, <1>5, <1>6, <1>7, <1>8, <1>9, FilesChange

(* Each step hands the next one what it relies on, and no other operation  *)
(* disturbs it.                                                            *)
LEMMA StageStep ==
  ASSUME FilesKept, EtcInv, [Orderly]_vars, NEW p \in Ops
  PROVE  StageOf(p)'
<1> USE DEF EtcInv, Replacing, StopSteps, AfterMnt, AfterEtc, AfterConf, AfterRoute,
            AfterLink
<1> USE DEF SaveInv, TypeInv, TypeOK, ControlOK
<1>0. StageOf(p) /\ UNCHANGED userEtc
  BY UserFixed DEF FilesKept, Orderly
<1>1. CASE pc'[p] \notin {"saveEtc"} \union Replacing \union StopSteps
  BY <1>1 DEF StageOf
<1>2. CASE StopBegin(p)
  BY <1>0, <1>2 DEF StopBegin, Enter, StageOf, Files, EtcKnown, RouteAfterEtc, saved
<1>3. CASE SaveMnt(p)
  <2>1. userEtc = "link" => bakMnt' # "absent"
    BY <1>3, CopySucceeds DEF SaveMnt, Files, LinkSaved
  <2> QED
    BY <1>0, <1>3, <2>1 DEF SaveMnt, Step, StageOf
<1>4. CASE SaveEtc(p)
  BY <1>0, <1>4, SavedBySaveEtc DEF SaveEtc, Step, StageOf
<1>5. CASE SaveRoute(p)
  BY <1>0, <1>5 DEF SaveRoute, Step, ScriptEnds, StageOf
<1>6. CASE WriteConf(p) \/ RemoveEtc(p) \/ WriteEtc(p) \/ CopyMnt(p) \/ AddLink(p)
  BY <1>0, <1>6 DEF WriteConf, RemoveEtc, WriteEtc, CopyMnt, AddLink, Step, StageOf,
     saved
<1>7. CASE KillForwarder(p)
  BY <1>0, <1>7 DEF KillForwarder, Step, StageOf, saved, conf
<1>8. CASE RestoreMnt(p)
  BY <1>0, <1>8, RestoredByRestoreMnt DEF RestoreMnt, Step, StageOf, saved
<1>9. CASE RestoreEtc(p)
  BY <1>0, <1>9, RestoredByRestoreEtc DEF RestoreEtc, Step, StageOf, saved
<1>10. CASE RestoreConf(p) \/ RestoreRoute(p) \/ DeleteLink(p)
  BY <1>0, <1>10 DEF RestoreConf, RestoreRoute, DeleteLink, Step, StageOf, saved, conf
<1>11. CASE Prepare(p) \/ Probe(p) \/ Spawn(p) \/ Await(p) \/ Configure(p)
            \/ Stabilize(p) \/ RemoveState(p) \/ Release(p) \/ ConfigureAgain(p)
            \/ CommandFails(p)
  <2>1. pc'[p] \notin {"saveEtc"} \union Replacing \union StopSteps
    BY <1>11 DEF Prepare, Probe, Spawn, Await, Configure, Stabilize, RemoveState,
       Release, ConfigureAgain, CommandFails, Step, ScriptEnds, AfterStop
  <2> QED
    BY <1>1, <2>1
<1>12. CASE UNCHANGED <<pc, locals, etc, mnt, block, net, saved>>
  BY <1>0, <1>12 DEF StageOf, saved
<1>13. InScript(p)' \/ pc'[p] \notin {"saveEtc"} \union Replacing \union StopSteps
  BY DEF InScript, ScriptSteps, StartSteps
<1> QED
  BY <1>1, <1>2, <1>3, <1>4, <1>5, <1>6, <1>7, <1>8, <1>9, <1>10, <1>11, <1>12,
     <1>13, ScriptCases
  DEF Advance

(* The user's /etc/resolv.conf is in place or in the backup, at every      *)
(* moment of every operation, whatever crashes, fails, dies or is          *)
(* terminated, and whatever route, gateway and configuration there is.     *)
THEOREM EtcNeverLost ==
  ASSUME RestoreKept
  PROVE  Spec => []EtcRecoverable
<1>1. LockKept /\ FilesKept
  BY DEF RestoreKept
<1>2. Init => Files /\ \A p \in Ops : StageOf(p)
  BY <1>1 DEF Init, FilesKept, Files, EtcKnown, EtcRecoverable, RouteAfterEtc, LinkSaved,
     StageOf, Replacing, StopSteps, AfterMnt, AfterEtc, AfterConf, AfterRoute, AfterLink
<1>3. LockInv /\ EtcInv /\ [Next]_vars => (Files /\ \A p \in Ops : StageOf(p))'
  BY <1>1, FilesStep, StageStep, LockIsOrderly
<1>4. EtcInv <=> SaveInv /\ (Files /\ \A p \in Ops : StageOf(p))
  BY DEF EtcInv
<1>5. EtcInv => EtcRecoverable
  BY DEF EtcInv, Files
<1> QED
  BY <1>1, <1>2, <1>3, <1>4, <1>5, SaveInvariance, PTL DEF Spec

-----------------------------------------------------------------------------
(***************************************************************************)
(* The default route.                                                      *)
(***************************************************************************)
RouteVars == <<route, routeDat>>

(* Without a shutdown of WSL nobody resets the route, and these steps are  *)
(* all that change it or its backup.                                       *)
LEMMA RouteChanges ==
  ASSUME "shutdown" \notin Faults, [Next]_vars
  PROVE  /\ UNCHANGED userRoute
         /\ \/ UNCHANGED RouteVars
            \/ \E p \in Ops : \/ Probe(p) \/ SaveRoute(p) \/ Configure(p)
                              \/ ConfigureAgain(p) \/ RestoreRoute(p)
                              \/ DeleteLink(p) \/ RemoveState(p)
<1> USE DEF user, net, saved, RouteVars
<1>1. ASSUME NEW p \in Ops, Advance(p)
      PROVE  /\ UNCHANGED userRoute
             /\ \/ UNCHANGED RouteVars
                \/ Probe(p) \/ SaveRoute(p) \/ Configure(p) \/ RestoreRoute(p)
                \/ DeleteLink(p) \/ RemoveState(p)
  BY <1>1 DEF Advance, Prepare, Probe, SaveMnt, SaveEtc, SaveRoute, WriteConf,
     RemoveEtc, WriteEtc, CopyMnt, AddLink, Spawn, Await, Configure, Stabilize,
     KillForwarder, RestoreMnt, RestoreEtc, RestoreConf, RestoreRoute, DeleteLink,
     RemoveState, TerminateDistro, DistroStops, AbortScripts, Release, Step, ScriptEnds
<1>2. ASSUME NEW p \in Ops, StartBegin(p) \/ StopBegin(p) \/ Refused(p)
             \/ CommandFails(p) \/ Crash(p) \/ Cancel(p)
      PROVE  UNCHANGED userRoute /\ UNCHANGED RouteVars
  BY <1>2 DEF StartBegin, StopBegin, Enter, Refused, CommandFails, ScriptEnds, Crash,
     Cancel, vars
<1>3. ASSUME NEW p \in Ops, ConfigureAgain(p)
      PROVE  UNCHANGED userRoute
  BY <1>3 DEF ConfigureAgain
<1>4. CASE UserUnlock \/ ForwarderDies \/ PidReused \/ ProcExits \/ Terminate
           \/ EditEtc \/ UNCHANGED vars
  BY <1>4 DEF UserUnlock, ForwarderDies, PidReused, ProcExits, Terminate, EditEtc,
     DistroStops, AbortScripts, vars
<1>5. ~Shutdown
  BY DEF Shutdown
<1> QED
  BY <1>1, <1>2, <1>3, <1>4, <1>5 DEF Next, Operate, Environment

(* The default route is one that Start refuses.  Start gets no further     *)
(* than the route, so the tunnel is nowhere, also where a Stop has deleted *)
(* that route and not yet, or not, put it back; or it has been replaced,   *)
(* and nothing brings it back.                                             *)
Early == {"idle", "prepare", "probe", "saveMnt", "saveEtc", "saveRoute", "terminate",
          "release"} \union StopSteps

Foreign == {"other", "blackhole"}

Untouched ==
  /\ \/ route \in Foreign /\ routeDat \in {"absent", route}
     \/ route = "none" /\ routeDat = "other"
  /\ ~block /\ "tunnel" \notin {etc, mnt, bakEtc, bakMnt}
  /\ \A q \in Pids : proc[q] # "fwd"
  /\ \A p \in Ops : pc[p] \in Early /\ ~running[p]

OtherGone == route \notin Foreign /\ routeDat # "other"

OtherInv == Untouched \/ OtherGone

(* What is gone does not come back. *)
LEMMA GoneStep ==
  ASSUME "shutdown" \notin Faults, OtherGone, [Next]_vars
  PROVE  OtherGone'
<1> USE DEF OtherGone, Foreign
<1>1. ASSUME NEW p \in Ops, Probe(p) \/ DeleteLink(p) PROVE OtherGone'
  BY <1>1 DEF Probe, DeleteLink, RouteWithoutLink, net, saved
<1>2. ASSUME NEW p \in Ops, SaveRoute(p) \/ RemoveState(p) PROVE OtherGone'
  BY <1>2 DEF SaveRoute, RemoveState, net
<1>3. ASSUME NEW p \in Ops, Configure(p) \/ ConfigureAgain(p) PROVE OtherGone'
  BY <1>3 DEF Configure, ConfigureAgain, InstallRoute, saved
<1>4. ASSUME NEW p \in Ops, RestoreRoute(p) PROVE OtherGone'
  BY <1>4 DEF RestoreRoute, RouteDeleted, saved
<1> QED
  BY <1>1, <1>2, <1>3, <1>4, RouteChanges DEF RouteVars

(* Where the script ends, or the distro, the operation is early again. *)
LEMMA EarlyEnds ==
  ASSUME TypeInv, Untouched, NEW p \in Ops, NEW next \in Early, ScriptEnds(p, next)
  PROVE  \A q \in Ops : pc'[q] \in Early /\ ~running'[q]
BY DEF TypeInv, TypeOK, ControlOK, Untouched, ScriptEnds, Forgets, Early

LEMMA EarlyAborts ==
  ASSUME TypeInv, Untouched, NEW q \in Ops
  PROVE  Aborted(q) \in Early
BY DEF Untouched, Aborted, AfterStop, Early

(* No step of an operation touches what belongs to the other network.      *)
LEMMA UntouchedAdvance ==
  ASSUME TypeInv, Untouched, NEW p \in Ops, Advance(p)
  PROVE  OtherInv'
<1> USE DEF TypeInv, TypeOK, ControlOK, Untouched, OtherInv, OtherGone, Foreign
<1> USE DEF locals, conf, net, fwd, saved, user
<1>1. CASE Prepare(p)
  BY <1>1 DEF Prepare, Step, Early
<1>2. CASE Probe(p)
  BY <1>2 DEF Probe, Step, Early, ForwarderUp, NoForwarders, RouteWithoutLink, SystemOK
<1>3. CASE SaveMnt(p) \/ SaveEtc(p)
  BY <1>3 DEF SaveMnt, SaveEtc, Copied, Step, Early
<1>4. CASE SaveRoute(p)
  <2>1. ~Reinstalled(p)
    BY DEF Reinstalled
  <2>2. CASE route = "none"
    BY <1>4, <2>1, <2>2 DEF SaveRoute
  <2>3. CASE route \in Foreign
    <3>1. RouteRefused(p)
      BY <2>1, <2>3 DEF RouteRefused, RouteOf, ViaGateway
    <3> QED
      BY <1>4, <2>1, <2>3, <3>1, EarlyEnds DEF SaveRoute, Early
  <2> QED
    BY <2>2, <2>3
<1>5. CASE KillForwarder(p)
  BY <1>5 DEF KillForwarder, NoForwarders, Step, Early, StopSteps
<1>6. CASE RestoreMnt(p)
  BY <1>6 DEF RestoreMnt, GuessedMnt, Copied, Step, Early, StopSteps
<1>7. CASE RestoreEtc(p)
  BY <1>7 DEF RestoreEtc, Copied, Step, Early, StopSteps
<1>8. CASE RestoreConf(p)
  BY <1>8 DEF RestoreConf, Slips, Step, Early, StopSteps
<1>9. CASE RestoreRoute(p)
  <2>1. /\ pc' = [pc EXCEPT ![p] = "delLink"]
        /\ UNCHANGED <<running, conf, proc, bakEtc, bakMnt, routeDat>>
    BY <1>9 DEF RestoreRoute, Slips, Step
  <2>2. \A q \in Ops : pc'[q] \in Early /\ ~running'[q]
    <3>1. "delLink" \in Early
      BY DEF Early, StopSteps
    <3> QED
      BY <2>1, <3>1
  <2>3. CASE routeDat = "other"
    <3>1. route' \in {"other", "none"}
      BY <1>9, <2>3 DEF RestoreRoute, RouteDeleted
    <3> QED
      BY <2>1, <2>2, <2>3, <3>1
  <2>4. CASE routeDat = "absent"
    <3>1. route' \in {route, "eth0"}
      BY <1>9, <2>4 DEF RestoreRoute, RouteDeleted
    <3> QED
      BY <2>1, <2>2, <2>4, <3>1
  <2>5. CASE routeDat = "blackhole"
    <3>1. route' \in {"eth0", "none"}
      BY <1>9, <2>5 DEF RestoreRoute, RouteDeleted
    <3> QED
      BY <2>1, <2>5, <3>1
  <2> QED
    BY <2>3, <2>4, <2>5
<1>10. CASE DeleteLink(p)
  BY <1>10 DEF DeleteLink, Slips, RouteWithoutLink, Step, Early, StopSteps
<1>11. CASE RemoveState(p)
  BY <1>11, EarlyEnds DEF RemoveState, AfterStop, Early
<1>12. CASE TerminateDistro(p)
  BY <1>12, EarlyAborts DEF TerminateDistro, DistroStops, AbortScripts, Regenerated, Early
<1>13. CASE Release(p)
  BY <1>13 DEF Release, Early
<1>14. pc[p] \in Early
  OBVIOUS
<1> QED
  BY <1>1, <1>2, <1>3, <1>4, <1>5, <1>6, <1>7, <1>8, <1>9, <1>10, <1>11, <1>12, <1>13,
     <1>14
  DEF Advance, WriteConf, RemoveEtc, WriteEtc, CopyMnt, AddLink, Spawn, Await,
      Configure, Stabilize, Step, Early, StopSteps

LEMMA UntouchedStep ==
  ASSUME "shutdown" \notin Faults, TypeInv, Untouched, [Next]_vars
  PROVE  OtherInv'
<1> USE DEF TypeInv, TypeOK, ControlOK, Untouched, OtherInv
<1> USE DEF locals, conf, net, fwd, saved, user
<1>1. ASSUME NEW p \in Ops, StartBegin(p) \/ StopBegin(p) \/ Refused(p)
      PROVE  OtherInv'
  BY <1>1 DEF StartBegin, StopBegin, Enter, Refused, vars, Early, StopSteps
<1>2. ASSUME NEW p \in Ops, ConfigureAgain(p) PROVE FALSE
  BY <1>2 DEF ConfigureAgain, Early, StopSteps
<1>3. ASSUME NEW p \in Ops, CommandFails(p) PROVE OtherInv'
  BY <1>3, EarlyEnds DEF CommandFails, AfterStop, Early
<1>4. ASSUME NEW p \in Ops, Crash(p) \/ Cancel(p) PROVE OtherInv'
  BY <1>4 DEF Crash, Cancel, Forgets, Early
<1>5. CASE UserUnlock \/ UNCHANGED vars
  BY <1>5 DEF UserUnlock, vars
<1>6. CASE ForwarderDies \/ PidReused \/ ProcExits
  BY <1>6 DEF ForwarderDies, PidReused, ProcExits, SystemOK
<1>7. CASE Terminate
  BY <1>7, EarlyAborts DEF Terminate, DistroStops, AbortScripts, Regenerated
<1>8. CASE EditEtc
  BY <1>8 DEF EditEtc
<1>9. ~Shutdown
  BY DEF Shutdown
<1> QED
  BY <1>1, <1>2, <1>3, <1>4, <1>5, <1>6, <1>7, <1>8, <1>9, UntouchedAdvance
  DEF Next, Operate, Environment

(* A Start that is refused for the default route it finds has not touched  *)
(* the DNS that goes with it, nor has any Stop or retry, even where        *)
(* scripts overlap or a Stop fails unnoticed, until WSL is shut down.      *)
THEOREM OtherNetworkIsRespected ==
  ASSUME "shutdown" \notin Faults
  PROVE  Spec => []OtherNetworkRespected
<1>1. Init => OtherInv
  BY TunnelAssumption DEF Init, OtherInv, Untouched, OtherGone, Foreign, Early
<1>2. TypeInv /\ OtherInv /\ [Next]_vars => OtherInv'
  BY GoneStep, UntouchedStep DEF OtherInv
<1>3. OtherInv => OtherNetworkRespected
  BY DEF OtherInv, Untouched, OtherGone, Foreign, OtherNetworkRespected, Nameserver
<1> QED
  BY <1>1, <1>2, <1>3, TypeInit, TypeStep, PTL DEF Spec

-----------------------------------------------------------------------------
(* The user's own default route.  Once Start has saved it the backup stays *)
(* until Stop has put it back, and the tunnel is the only other route.     *)
RouteKept == LockKept /\ Faults \intersect {"blind", "shutdown"} = {}

BehindRoute == {"writeConf", "rmEtc", "writeEtc", "copyMnt", "addLink", "spawn",
                "await", "configure", "stabilize", "stabilizing"} \union StopSteps

RouteStageOf(p) ==
  /\ pc[p] \in BehindRoute => routeDat = userRoute
  /\ pc[p] \in AfterRoute  => \/ route = userRoute
                              \/ route = "none" /\ "route" \in slipped[p]

RouteSaved ==
  /\ route \in {userRoute, "none", "tunnel"} /\ routeDat \in {"absent", userRoute}
  /\ userRoute \in {route, routeDat}
  /\ \A p \in Ops : RouteStageOf(p)

(* Once it is lost it stays so. *)
RouteGone == userRoute \notin {route, routeDat}

Recoverable == userRoute \in {"orig", "other"}

(* What an operation that has not ended does in a step: it begins, it goes *)
(* on by itself, or nothing happens to it but that its distro stops.       *)
LEMMA ActiveCases ==
  ASSUME TypeInv, Apart, [Orderly]_vars, NEW q \in Ops, Active(q)'
  PROVE  \/ StartBegin(q) \/ StopBegin(q)
         \/ Advance(q) \/ ConfigureAgain(q) \/ CommandFails(q)
         \/ pc'[q] = pc[q] /\ slipped'[q] = slipped[q] /\ UNCHANGED RouteVars
         \/ pc'[q] = Aborted(q) /\ UNCHANGED RouteVars
         \/ Shutdown
<1> USE DEF TypeInv, TypeOK, ControlOK, RouteVars, net, saved, locals
<1>1. ASSUME NEW p \in Ops \ {q}, Advance(p) \/ ConfigureAgain(p) \/ CommandFails(p)
      PROVE  FALSE
  <2>1. Active(p) /\ ~Active(q)
    BY <1>1, AdvanceIsActive DEF Apart, OneActive
  <2>2. StartBegin(q) \/ StopBegin(q)
    BY <2>1, BecomesActive DEF Apart, Orderly
  <2>3. UNCHANGED vars
    BY <2>1, <2>2 DEF Orderly
  <2> QED
    BY <2>1, <2>3 DEF vars, Active
<1>2. ASSUME NEW p \in Ops \ {q}, StartBegin(p) \/ StopBegin(p)
      PROVE  pc'[q] = pc[q] /\ UNCHANGED <<RouteVars, slipped>>
  BY <1>2 DEF StartBegin, StopBegin, Enter
<1>3. ASSUME NEW p \in Ops, Refused(p)
      PROVE  pc'[q] = pc[q] /\ UNCHANGED <<RouteVars, slipped>>
  BY <1>3 DEF Refused, vars
<1>4. ASSUME NEW p \in Ops, Crash(p) \/ Cancel(p)
      PROVE  /\ pc'[q] = pc[q] /\ UNCHANGED RouteVars
             /\ slipped'[q] = slipped[q]
  BY <1>4 DEF Crash, Cancel, Forgets, Active
<1>5. CASE UserUnlock \/ ForwarderDies \/ PidReused \/ ProcExits \/ EditEtc
           \/ UNCHANGED vars
  BY <1>5 DEF UserUnlock, ForwarderDies, PidReused, ProcExits, EditEtc, vars
<1>6. CASE Terminate
  BY <1>6 DEF Terminate, DistroStops, AbortScripts
<1> QED
  BY <1>1, <1>2, <1>3, <1>4, <1>5, <1>6 DEF Orderly, Next, Operate, Environment

(* What loses the route: a SaveRoute with no default route in place, or a  *)
(* RemoveState after the route was not put back.                           *)
Loses == \E p \in Ops : (SaveRoute(p) \/ RemoveState(p)) /\ route = "none"

(* Nothing else loses a route that is there or saved. *)
LEMMA RouteSteps ==
  ASSUME RouteKept, SaveInv, Recoverable, RouteSaved, [Next]_vars, ~Loses
  PROVE  /\ route' \in {userRoute, "none", "tunnel"} /\ routeDat' \in {"absent", userRoute}
         /\ userRoute \in {route', routeDat'}
<1> USE DEF RouteSaved, RouteStageOf, BehindRoute, StopSteps, AfterRoute, AfterLink,
            Recoverable, Loses
<1> DEFINE Kept == /\ route' \in {userRoute, "none", "tunnel"}
                   /\ routeDat' \in {"absent", userRoute}
                   /\ userRoute \in {route', routeDat'}
<1>1. ASSUME NEW p \in Ops, Probe(p) \/ DeleteLink(p) PROVE Kept
  BY <1>1 DEF Probe, DeleteLink, RouteWithoutLink, net, saved
<1>2. ASSUME NEW p \in Ops, SaveRoute(p) PROVE Kept
  <2>1. route = "tunnel" => Reinstalled(p)
    BY <1>2 DEF SaveRoute, SaveInv, Probed, Saving, Reinstalled, ViaGateway, TypeInv,
                TypeOK, ControlOK
  <2> QED
    BY <1>2, <2>1 DEF SaveRoute, net
<1>3. ASSUME NEW p \in Ops, Configure(p) \/ ConfigureAgain(p) PROVE Kept
  <2>1. routeDat = userRoute /\ route' = "tunnel" /\ UNCHANGED routeDat
    BY <1>3 DEF Configure, ConfigureAgain, InstallRoute, saved
  <2> QED
    BY <2>1
<1>4. ASSUME NEW p \in Ops, RestoreRoute(p) PROVE Kept
  BY <1>4 DEF RestoreRoute, RouteDeleted, Step, saved
<1>5. ASSUME NEW p \in Ops, RemoveState(p) PROVE Kept
  BY <1>5 DEF RemoveState, net
<1>6. CASE UNCHANGED RouteVars
  BY <1>6 DEF RouteVars
<1> QED
  BY <1>1, <1>2, <1>3, <1>4, <1>5, <1>6, RouteChanges DEF RouteKept

(* Where the saved route is needed it is there. *)
LEMMA RouteStageStep ==
  ASSUME RouteKept, SaveInv, OtherInv, Recoverable, RouteSaved, [Orderly]_vars,
         ~Loses, NEW q \in Ops
  PROVE  RouteStageOf(q)'
<1> SUFFICES ASSUME pc'[q] \in BehindRoute PROVE RouteStageOf(q)'
  BY DEF RouteStageOf, BehindRoute, StopSteps, AfterRoute, AfterLink
<1> USE DEF SaveInv, TypeInv, TypeOK, ControlOK, RouteSaved, RouteStageOf, Recoverable
<1> USE DEF BehindRoute, StopSteps, AfterRoute, AfterLink, saved, net, RouteVars
<1> USE DEF locals, Slips, Loses
<1>0. RouteStageOf(q) /\ UNCHANGED userRoute /\ ~Shutdown /\ Active(q)'
  BY RouteChanges DEF RouteKept, Shutdown, Active, Orderly
<1>1. CASE StartBegin(q) \/ StopBegin(q)
  BY <1>0, <1>1 DEF StartBegin, StopBegin, Enter, RouteKept
<1>2. CASE SaveRoute(q)
  <2>1. ~RouteRefused(q)
    BY <1>2 DEF SaveRoute, ScriptEnds
  <2>2. ~(route = "other" /\ running[q])
    BY DEF OtherInv, Untouched, OtherGone, Foreign
  <2>3. CASE Reinstalled(q)
    BY <1>0, <1>2, <2>1, <2>2, <2>3 DEF SaveRoute, Step, Reinstalled, ViaGateway
  <2>4. CASE ~Reinstalled(q)
    <3>1. route = userRoute
      BY <1>2, <2>4 DEF SaveRoute, Probed, Saving, Reinstalled, ViaGateway
    <3> QED
      BY <1>0, <1>2, <2>1, <2>4, <3>1 DEF SaveRoute, Step
  <2> QED
    BY <2>3, <2>4
<1>3. CASE WriteConf(q) \/ RemoveEtc(q) \/ WriteEtc(q) \/ CopyMnt(q) \/ AddLink(q)
           \/ Spawn(q) \/ Await(q) \/ Stabilize(q)
  BY <1>0, <1>3 DEF WriteConf, RemoveEtc, WriteEtc, CopyMnt, AddLink, Spawn, Await,
     Stabilize, Step, ScriptEnds
<1>4. CASE Configure(q) \/ ConfigureAgain(q)
  BY <1>0, <1>4 DEF Configure, ConfigureAgain, ScriptEnds
<1>5. CASE KillForwarder(q) \/ RestoreMnt(q) \/ RestoreEtc(q) \/ RestoreConf(q)
  BY <1>0, <1>5 DEF KillForwarder, RestoreMnt, RestoreEtc, RestoreConf, Step
<1>6. CASE RestoreRoute(q)
  BY <1>0, <1>6 DEF RestoreRoute, RouteDeleted, Step
<1>7. CASE DeleteLink(q)
  BY <1>0, <1>7 DEF DeleteLink, RouteWithoutLink, Step
<1>8. CASE Prepare(q) \/ Probe(q) \/ SaveMnt(q) \/ SaveEtc(q) \/ RemoveState(q)
           \/ TerminateDistro(q) \/ Release(q) \/ CommandFails(q)
  BY <1>8 DEF Prepare, Probe, SaveMnt, SaveEtc, RemoveState, TerminateDistro,
     DistroStops, AbortScripts, Release, CommandFails, Step, ScriptEnds, AfterStop
<1>9. CASE pc'[q] = pc[q] /\ slipped'[q] = slipped[q] /\ UNCHANGED RouteVars
  BY <1>0, <1>9
<1>10. CASE pc'[q] = Aborted(q) /\ UNCHANGED RouteVars
  BY <1>0, <1>10, AbortedOutOfScript DEF Aborted, AfterStop, ScriptSteps
<1> QED
  BY <1>0, <1>1, <1>2, <1>3, <1>4, <1>5, <1>6, <1>7, <1>8, <1>9, <1>10, ActiveCases
  DEF Advance

(* A lost route stays lost. *)
LEMMA RouteGoneStep ==
  ASSUME RouteKept, Recoverable, RouteGone, [Next]_vars
  PROVE  RouteGone'
<1> USE DEF RouteGone, Recoverable
<1>0. UNCHANGED userRoute
  BY RouteChanges DEF RouteKept
<1>1. ASSUME NEW p \in Ops, Probe(p) \/ DeleteLink(p) PROVE RouteGone'
  BY <1>0, <1>1 DEF Probe, DeleteLink, RouteWithoutLink, net, saved
<1>2. ASSUME NEW p \in Ops, SaveRoute(p) \/ RemoveState(p) PROVE RouteGone'
  BY <1>0, <1>2 DEF SaveRoute, RemoveState, net
<1>3. ASSUME NEW p \in Ops, Configure(p) \/ ConfigureAgain(p) PROVE RouteGone'
  BY <1>0, <1>3 DEF Configure, ConfigureAgain, InstallRoute, saved
<1>4. ASSUME NEW p \in Ops, RestoreRoute(p) PROVE RouteGone'
  BY <1>0, <1>4 DEF RestoreRoute, RouteDeleted, saved
<1> QED
  BY <1>0, <1>1, <1>2, <1>3, <1>4, RouteChanges DEF RouteVars, RouteKept

(* What loses the route leaves no copy of it. *)
LEMMA RouteLostStep ==
  ASSUME RouteKept, Recoverable, RouteSaved, [Next]_vars, Loses
  PROVE  RouteGone'
<1> USE DEF Recoverable, RouteGone, net
<1>0. UNCHANGED userRoute
  BY RouteChanges DEF RouteKept
<1>1. ASSUME NEW p \in Ops, SaveRoute(p), route = "none" PROVE RouteGone'
  BY <1>0, <1>1 DEF SaveRoute, Reinstalled, ViaGateway
<1>2. ASSUME NEW p \in Ops, RemoveState(p), route = "none" PROVE RouteGone'
  BY <1>0, <1>2 DEF RemoveState
<1> QED
  BY <1>1, <1>2 DEF Loses

(* The last copy of the user's default route is lost in two places only:   *)
(* where Start finds no default route and writes that to route.dat, and    *)
(* where Stop deletes $STATE although its ip route add has failed.  No     *)
(* other fault, no retry and no other step loses it, for any number of     *)
(* operations.                                                             *)
THEOREM RouteLostNowhereElse ==
  ASSUME RouteKept
  PROVE  Spec => RouteLostInTwoPlaces
<1> DEFINE Part == Recoverable => RouteSaved \/ RouteGone
<1> DEFINE Named == \/ \E p \in Ops : SaveRoute(p) /\ route = "none"
                    \/ \E p \in Ops : RemoveState(p) /\ "route" \in slipped[p]
<1>1. LockKept /\ "shutdown" \notin Faults
  BY DEF RouteKept
<1>2. Init => OtherInv /\ Part
  BY TunnelAssumption DEF Init, OtherInv, Untouched, OtherGone, Foreign, Early,
     Recoverable, RouteSaved, RouteStageOf, BehindRoute, StopSteps, AfterRoute, AfterLink
<1>3. SaveInv /\ OtherInv /\ [Next]_vars => OtherInv'
  BY <1>1, GoneStep, UntouchedStep DEF OtherInv, SaveInv
<1>4. LockInv /\ SaveInv /\ OtherInv /\ Part /\ [Next]_vars
        => /\ Part'
           /\ RouteRecoverable => RouteRecoverable' \/ Named
  <2> SUFFICES ASSUME LockInv, SaveInv, OtherInv, Part, [Next]_vars
               PROVE  /\ Part'
                      /\ RouteRecoverable => RouteRecoverable' \/ Named
    OBVIOUS
  <2>0. UNCHANGED userRoute /\ [Orderly]_vars
    BY <1>1, RouteChanges, LockIsOrderly
  <2>1. CASE ~Recoverable
    BY <2>0, <2>1 DEF Recoverable, RouteRecoverable
  <2>2. CASE Recoverable /\ RouteGone
    BY <2>0, <2>2, RouteGoneStep DEF Recoverable, RouteRecoverable, RouteGone
  <2>3. CASE Recoverable /\ RouteSaved /\ ~Loses
    BY <2>0, <2>3, RouteSteps, RouteStageStep
    DEF Recoverable, RouteSaved, RouteRecoverable
  <2>4. CASE Recoverable /\ RouteSaved /\ Loses
    <3>1. ASSUME NEW p \in Ops, RemoveState(p), route = "none"
          PROVE  "route" \in slipped[p]
      BY <2>4, <3>1 DEF RemoveState, Recoverable, RouteSaved, RouteStageOf, AfterRoute,
                        AfterLink
    <3>2. Named
      BY <2>4, <3>1 DEF Loses
    <3> QED
      BY <2>0, <2>4, <3>2, RouteLostStep
  <2> QED
    BY <2>1, <2>2, <2>3, <2>4
<1> QED
  BY <1>1, <1>2, <1>3, <1>4, SaveInvariance, PTL DEF Spec, RouteLostInTwoPlaces
=============================================================================
