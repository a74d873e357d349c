---------------------------- MODULE TunnelProofs ----------------------------
(***************************************************************************)
(* Proofs about Tunnel, for any number of operations and process ids: its  *)
(* types, and that an operation is alone while its script runs.  What this *)
(* means for the files and the route is in TunnelRestoreProofs.            *)
(*                                                                         *)
(* The steps of an operation are many, but to the control state (lock, pc, *)
(* orphan) they do one of three things: move on, end the script, release   *)
(* the lock.  The first lemmas say so, and the invariants about who runs   *)
(* are proved from them instead of from the steps.                         *)
(***************************************************************************)
EXTENDS Tunnel, TLAPS

control == <<lock, pc, orphan>>

(* A step from one place of an operation to another; a script step leads   *)
(* to a script step.                                                       *)
Moves(p) ==
  \E from, to \in Steps \ {"idle"} :
    /\ Step(p, from, to)
    /\ from \in ScriptSteps => to \in ScriptSteps

Ends(p) == Active(p) /\ \E next \in ClientSteps : ScriptEnds(p, next)

Leaves(p) ==
  /\ pc[p] = "release" /\ pc' = [pc EXCEPT ![p] = "idle"]
  /\ lock' = NoOp /\ UNCHANGED orphan

(* What the steps an operation takes by itself do to the control state. *)
LEMMA AdvanceControl ==
  ASSUME NEW p \in Ops, Advance(p)
  PROVE  Moves(p) \/ Ends(p) \/ Leaves(p) \/ TerminateDistro(p)
<1> USE DEF Moves, Ends, Active, Steps, ScriptSteps, StartSteps, StopSteps, ClientSteps
<1>1. CASE Prepare(p)
  BY <1>1 DEF Prepare
<1>2. CASE Probe(p) \/ SaveMnt(p) \/ SaveEtc(p)
  BY <1>2 DEF Probe, SaveMnt, SaveEtc
<1>3. CASE SaveRoute(p)
  BY <1>3 DEF SaveRoute
<1>4. CASE WriteConf(p) \/ RemoveEtc(p) \/ WriteEtc(p) \/ CopyMnt(p)
  BY <1>4 DEF WriteConf, RemoveEtc, WriteEtc, CopyMnt
<1>5. CASE AddLink(p) \/ Stabilize(p)
  BY <1>5 DEF AddLink, Stabilize
<1>6. CASE Spawn(p)
  BY <1>6 DEF Spawn
<1>7. CASE Await(p)
  BY <1>7 DEF Await
<1>8. CASE Configure(p)
  BY <1>8 DEF Configure
<1>9. CASE KillForwarder(p) \/ RestoreMnt(p) \/ RestoreEtc(p) \/ RestoreConf(p)
  BY <1>9 DEF KillForwarder, RestoreMnt, RestoreEtc, RestoreConf
<1>10. CASE RestoreRoute(p) \/ DeleteLink(p)
  BY <1>10 DEF RestoreRoute, DeleteLink
<1>11. CASE RemoveState(p)
  BY <1>11 DEF RemoveState, AfterStop
<1>12. CASE Release(p)
  BY <1>12 DEF Release, Leaves
<1> QED
  BY <1>1, <1>2, <1>3, <1>4, <1>5, <1>6, <1>7, <1>8, <1>9, <1>10, <1>11, <1>12
  DEF Advance

-----------------------------------------------------------------------------
(* TypeOK bounds the attempts, which needs to know where they are counted. *)
AttemptsOK ==
  \A p \in Ops :
    /\ pc[p] \notin {"spawn", "await", "configure"} => attempt[p] = 0
    /\ pc[p] = "spawn" => attempt[p] < MaxAttempts

TypeInv == TypeOK /\ AttemptsOK

(* Whatever an operation reads in a resolv.conf is one of the sources. *)
LEMMA NameserverType ==
  ASSUME mnt \in Sources
  PROVE  \A kind \in EtcKinds : Nameserver(kind) \in Sources
BY DEF Nameserver, Sources, EtcKinds

(* The initial states have the types, and no script has spawned anything. *)
LEMMA TypeInit == Init => TypeInv
<1> SUFFICES ASSUME Init PROVE TypeInv
  OBVIOUS
<1> USE TunnelAssumption
<1>1. ControlOK
  BY DEF Init, ControlOK, Steps, ClientSteps, MaxAttempts
<1>2. SystemOK
  BY DEF Init, SystemOK, EtcKinds, Sources, RouteKinds
<1>3. SavedOK
  BY DEF Init, SavedOK, EtcKinds, Sources
<1>4. AttemptsOK
  BY DEF Init, AttemptsOK, MaxAttempts
<1> QED
  BY <1>1, <1>2, <1>3, <1>4 DEF TypeInv, TypeOK

(* A step of the named operation alone keeps the control types, and the    *)
(* end of its script does; the attempts are those of no other operation.   *)
LEMMA StepKeepsTypes ==
  ASSUME TypeInv, NEW p \in Ops, NEW from \in Steps, NEW to \in Steps,
         Step(p, from, to), UNCHANGED attempt, running' \in [Ops -> BOOLEAN],
         slipped' \in [Ops -> SUBSET Undoings],
         from \in {"spawn", "await", "configure"}
           => to \in {"await", "configure"}
              \/ (to = "spawn" /\ attempt[p] < MaxAttempts)
  PROVE  ControlOK' /\ AttemptsOK'
<1>1. /\ pc' = [pc EXCEPT ![p] = to] /\ pc[p] = from
      /\ UNCHANGED <<lock, orphan, attempt>>
  BY DEF Step
<1>2. ControlOK'
  BY <1>1 DEF TypeInv, TypeOK, ControlOK
<1>3. ASSUME NEW q \in Ops
      PROVE  /\ pc'[q] \notin {"spawn", "await", "configure"} => attempt'[q] = 0
             /\ pc'[q] = "spawn" => attempt'[q] < MaxAttempts
  <2>1. CASE q = p
    <3>1. pc'[q] = to /\ attempt'[q] = attempt[p]
      BY <1>1, <2>1 DEF TypeInv, TypeOK, ControlOK
    <3>2. from \notin {"spawn", "await", "configure"} => attempt[p] = 0
      BY <1>1 DEF TypeInv, AttemptsOK
    <3> QED
      BY <3>1, <3>2 DEF MaxAttempts
  <2>2. CASE q # p
    BY <1>1, <2>2 DEF TypeInv, TypeOK, ControlOK, AttemptsOK
  <2> QED
    BY <2>1, <2>2
<1> QED
  BY <1>2, <1>3 DEF AttemptsOK

LEMMA EndKeepsTypes ==
  ASSUME TypeInv, NEW p \in Ops, NEW next \in ClientSteps, ScriptEnds(p, next)
  PROVE  ControlOK' /\ AttemptsOK'
BY DEF TypeInv, TypeOK, ControlOK, AttemptsOK, ScriptEnds, Forgets, MaxAttempts, Steps,
       ClientSteps

(* Every step an operation takes by itself keeps the types. *)
LEMMA AdvanceKeepsTypes ==
  ASSUME TypeInv, NEW p \in Ops, Advance(p), ~TerminateDistro(p)
  PROVE  TypeInv'
<1> USE TunnelAssumption
<1> USE DEF locals, conf, net, fwd, saved, user
<1>s. /\ SystemOK /\ SavedOK /\ running \in [Ops -> BOOLEAN]
      /\ slipped \in [Ops -> SUBSET Undoings]
  BY DEF TypeInv, TypeOK, ControlOK
<1>t. ControlOK' /\ AttemptsOK' /\ SystemOK' /\ SavedOK' => TypeInv'
  BY DEF TypeInv, TypeOK
<1>0. \A kind \in EtcKinds : Nameserver(kind) \in Sources
  BY <1>s, NameserverType DEF SystemOK
<1>a. NoForwarders \in [Pids -> {"free", "fwd", "user"}]
  BY <1>s DEF NoForwarders, SystemOK
<1>b. RouteWithoutLink \in RouteKinds
  BY <1>s DEF RouteWithoutLink, RouteKinds, SystemOK
<1>c. ASSUME NEW S, NEW old \in S, NEW new \in S
      PROVE  Copied(old, new) \subseteq S
  BY DEF Copied
<1>1. CASE Prepare(p)
  <2>1. UNCHANGED <<locals, conf, net, fwd, saved, user>>
    BY <1>s, <1>1 DEF Prepare, Step, SystemOK, SavedOK
  <2>2. ControlOK' /\ AttemptsOK'
    BY <1>s, <1>1, <2>1, StepKeepsTypes
    DEF Prepare, Steps, ScriptSteps, StartSteps, StopSteps, ClientSteps
  <2> QED
    BY <1>s, <1>t, <2>1, <2>2, Zenon DEF SystemOK, SavedOK
<1>2. CASE Probe(p)
  <2>1. ControlOK' /\ AttemptsOK'
    BY <1>s, <1>2, StepKeepsTypes
    DEF Probe, ForwarderUp, Steps, ScriptSteps, StartSteps, StopSteps, ClientSteps
  <2>2. SystemOK'
    BY <1>s, <1>2, <1>a, <1>b DEF Probe, SystemOK, SavedOK
  <2> QED
    BY <1>s, <1>t, <1>2, <2>1, <2>2, Zenon
    DEF Probe, Step, SystemOK, SavedOK
<1>3. CASE SaveMnt(p)
  <2>1. ControlOK' /\ AttemptsOK'
    BY <1>s, <1>3, StepKeepsTypes
    DEF SaveMnt, Steps, ScriptSteps, StartSteps, StopSteps, ClientSteps
  <2>2. bakMnt' \in Sources
    BY <1>s, <1>3, <1>c DEF SaveMnt, SystemOK, SavedOK
  <2> QED
    BY <1>s, <1>t, <1>3, <2>1, <2>2, Zenon
    DEF SaveMnt, Step, SystemOK, SavedOK
<1>4. CASE SaveEtc(p)
  <2>1. ControlOK' /\ AttemptsOK'
    BY <1>s, <1>4, StepKeepsTypes
    DEF SaveEtc, Steps, ScriptSteps, StartSteps, StopSteps, ClientSteps
  <2>2. bakEtc' \in EtcKinds
    BY <1>s, <1>4, <1>c DEF SaveEtc, SystemOK, SavedOK
  <2> QED
    BY <1>s, <1>t, <1>4, <2>1, <2>2, Zenon
    DEF SaveEtc, Step, SystemOK, SavedOK
<1>5. CASE SaveRoute(p)
  <2>1. ControlOK' /\ AttemptsOK'
    BY <1>s, <1>5, StepKeepsTypes, EndKeepsTypes
    DEF SaveRoute, Steps, ScriptSteps, StartSteps, StopSteps, ClientSteps
  <2>2. routeDat' \in RouteKinds \union {"absent"} /\ UNCHANGED user
    BY <1>s, <1>5 DEF SaveRoute, Step, ScriptEnds, SystemOK, SavedOK
  <2> QED
    BY <1>s, <1>t, <1>5, <2>1, <2>2, Zenon
    DEF SaveRoute, SystemOK, SavedOK
<1>6. CASE WriteConf(p)
  <2>1. ControlOK' /\ AttemptsOK'
    BY <1>s, <1>6, StepKeepsTypes
    DEF WriteConf, Steps, ScriptSteps, StartSteps, StopSteps, ClientSteps
  <2> QED
    BY <1>s, <1>t, <1>6, <2>1, Zenon
    DEF WriteConf, Step, SystemOK, SavedOK
<1>7. CASE RemoveEtc(p)
  <2>1. ControlOK' /\ AttemptsOK'
    BY <1>s, <1>7, StepKeepsTypes
    DEF RemoveEtc, Steps, ScriptSteps, StartSteps, StopSteps, ClientSteps
  <2> QED
    BY <1>s, <1>t, <1>7, <2>1, Zenon
    DEF RemoveEtc, Step, EtcKinds, SystemOK, SavedOK
<1>8. CASE WriteEtc(p)
  <2>1. ControlOK' /\ AttemptsOK'
    BY <1>s, <1>8, StepKeepsTypes
    DEF WriteEtc, Steps, ScriptSteps, StartSteps, StopSteps, ClientSteps
  <2>2. etc' \in EtcKinds /\ mnt' \in Sources
    BY <1>s, <1>8 DEF WriteEtc, SystemOK, EtcKinds, Sources
  <2> QED
    BY <1>s, <1>t, <1>8, <2>1, <2>2, Zenon
    DEF WriteEtc, Step, SystemOK, SavedOK
<1>9. CASE CopyMnt(p)
  <2>1. ControlOK' /\ AttemptsOK'
    BY <1>s, <1>9, StepKeepsTypes
    DEF CopyMnt, Steps, ScriptSteps, StartSteps, StopSteps, ClientSteps
  <2>2. mnt' \in Sources
    BY <1>s, <1>9, <1>0, <1>c DEF CopyMnt, SystemOK, SavedOK
  <2> QED
    BY <1>s, <1>t, <1>9, <2>1, <2>2, Zenon
    DEF CopyMnt, Step, SystemOK, SavedOK
<1>10. CASE AddLink(p)
  <2>1. ControlOK' /\ AttemptsOK'
    BY <1>s, <1>10, StepKeepsTypes
    DEF AddLink, Steps, ScriptSteps, StartSteps, StopSteps, ClientSteps
  <2> QED
    BY <1>s, <1>t, <1>10, <2>1, Zenon
    DEF AddLink, Step, SystemOK, SavedOK
<1>11. CASE Spawn(p)
  <2>1. ControlOK' /\ AttemptsOK'
    BY <1>11 DEF TypeInv, TypeOK, Spawn, Step, ControlOK, AttemptsOK, MaxAttempts,
                 Steps, ScriptSteps, StartSteps
  <2> QED
    BY <1>s, <1>t, <1>11, <2>1, Zenon
    DEF Spawn, Step, SystemOK, SavedOK
<1>12. CASE Await(p)
  <2>1. ControlOK' /\ AttemptsOK'
    BY <1>s, <1>12, StepKeepsTypes, EndKeepsTypes
    DEF Await, Steps, ScriptSteps, StartSteps, StopSteps, ClientSteps
  <2>2. SystemOK' /\ UNCHANGED user
    BY <1>s, <1>12, <1>a DEF Await, Step, ScriptEnds, SystemOK, SavedOK
  <2> QED
    BY <1>s, <1>t, <1>12, <2>1, <2>2, Zenon
    DEF Await, SystemOK, SavedOK
<1>13. CASE Configure(p)
  <2>1. ControlOK' /\ AttemptsOK'
    BY <1>s, <1>13, EndKeepsTypes
    DEF Configure, Steps, ScriptSteps, StartSteps, StopSteps, ClientSteps
  <2> QED
    BY <1>s, <1>t, <1>13, <2>1, Zenon
    DEF Configure, InstallRoute, ScriptEnds, RouteKinds, SystemOK, SavedOK
<1>14. CASE Stabilize(p)
  <2>1. ControlOK' /\ AttemptsOK'
    BY <1>s, <1>14, StepKeepsTypes
    DEF Stabilize, Steps, ScriptSteps, StartSteps, StopSteps, ClientSteps
  <2> QED
    BY <1>s, <1>t, <1>14, <2>1, Zenon
    DEF Stabilize, Step, SystemOK, SavedOK
<1>15. CASE KillForwarder(p)
  <2>1. ControlOK' /\ AttemptsOK'
    BY <1>s, <1>15, StepKeepsTypes
    DEF KillForwarder, Steps, ScriptSteps, StartSteps, StopSteps, ClientSteps
  <2>2. SystemOK'
    BY <1>s, <1>15, <1>a DEF KillForwarder, SystemOK, SavedOK
  <2> QED
    BY <1>s, <1>t, <1>15, <2>1, <2>2, Zenon
    DEF KillForwarder, Step, SystemOK, SavedOK
<1>16. CASE RestoreMnt(p)
  <2>1. ControlOK' /\ AttemptsOK'
    BY <1>s, <1>16, StepKeepsTypes
    DEF RestoreMnt, Steps, ScriptSteps, StartSteps, StopSteps, ClientSteps
  <2>2. GuessedMnt \in Sources
    BY <1>s DEF GuessedMnt, Sources, SystemOK
  <2>3. mnt' \in Sources
    BY <1>s, <1>16, <2>2, <1>c DEF RestoreMnt, SystemOK, SavedOK
  <2> QED
    BY <1>s, <1>t, <1>16, <2>1, <2>3, Zenon
    DEF RestoreMnt, Step, SystemOK, SavedOK
<1>17. CASE RestoreEtc(p)
  <2>1. ControlOK' /\ AttemptsOK'
    BY <1>s, <1>17, StepKeepsTypes
    DEF RestoreEtc, Steps, ScriptSteps, StartSteps, StopSteps, ClientSteps
  <2>2. etc' \in EtcKinds
    BY <1>s, <1>17 DEF RestoreEtc, Copied, EtcKinds, SystemOK, SavedOK
  <2> QED
    BY <1>s, <1>t, <1>17, <2>1, <2>2, Zenon
    DEF RestoreEtc, Step, SystemOK, SavedOK
<1>d. ASSUME NEW part \in Undoings, Slips(p, part)
      PROVE  /\ slipped' \in [Ops -> SUBSET Undoings] /\ UNCHANGED attempt
             /\ running' \in [Ops -> BOOLEAN]
  BY <1>s, <1>d DEF Slips
<1>18. CASE RestoreConf(p)
  <2>1. ControlOK' /\ AttemptsOK'
    BY <1>s, <1>d, <1>18, StepKeepsTypes
    DEF RestoreConf, Undoings, Steps, ScriptSteps, StartSteps, StopSteps, ClientSteps
  <2> QED
    BY <1>s, <1>t, <1>18, <2>1, Zenon
    DEF RestoreConf, Step, SystemOK, SavedOK
<1>19. CASE RestoreRoute(p)
  <2>1. ControlOK' /\ AttemptsOK'
    BY <1>s, <1>d, <1>19, StepKeepsTypes
    DEF RestoreRoute, Undoings, Steps, ScriptSteps, StartSteps, StopSteps, ClientSteps
  <2>2. route' \in RouteKinds
    BY <1>s, <1>19 DEF RestoreRoute, RouteDeleted, RouteKinds, SystemOK, SavedOK
  <2> QED
    BY <1>s, <1>t, <1>19, <2>1, <2>2, Zenon
    DEF RestoreRoute, Step, SystemOK, SavedOK
<1>20. CASE DeleteLink(p)
  <2>1. ControlOK' /\ AttemptsOK'
    BY <1>s, <1>d, <1>20, StepKeepsTypes
    DEF DeleteLink, Undoings, Steps, ScriptSteps, StartSteps, StopSteps, ClientSteps
  <2> QED
    BY <1>s, <1>t, <1>20, <2>1, <1>b, Zenon
    DEF DeleteLink, Step, SystemOK, SavedOK
<1>21. CASE RemoveState(p)
  <2>1. ControlOK' /\ AttemptsOK'
    BY <1>s, <1>21, EndKeepsTypes
    DEF RemoveState, AfterStop, Steps, ScriptSteps, StartSteps, StopSteps, ClientSteps
  <2>2. SavedOK'
    BY <1>s, <1>21 DEF RemoveState, ScriptEnds, SavedOK, EtcKinds, Sources
  <2> QED
    BY <1>s, <1>t, <1>21, <2>1, <2>2, Zenon DEF RemoveState, SystemOK
<1>22. CASE Release(p)
  <2>1. ControlOK' /\ AttemptsOK'
    BY <1>22 DEF TypeInv, TypeOK, Release, ControlOK, AttemptsOK, Steps
  <2> QED
    BY <1>s, <1>t, <1>22, <2>1, Zenon
    DEF Release, SystemOK, SavedOK
<1> QED
  BY <1>1, <1>2, <1>3, <1>4, <1>5, <1>6, <1>7, <1>8, <1>9, <1>10, <1>11, <1>12,
     <1>13, <1>14, <1>15, <1>16, <1>17, <1>18, <1>19, <1>20, <1>21, <1>22
  DEF Advance

(* Aborting the scripts keeps the types: the next step of each operation is *)
(* its own, that of a client, or none.                                     *)
LEMMA AbortKeepsTypes ==
  ASSUME TypeInv, NEW next \in [Ops -> Steps], AbortScripts(next),
         \A q \in Ops : next[q] \notin {"spawn", "await", "configure"}
  PROVE  ControlOK' /\ AttemptsOK'
BY DEF TypeInv, TypeOK, ControlOK, AttemptsOK, AbortScripts, MaxAttempts

(* What becomes of an operation whose distro stops is not a script step. *)
LEMMA AbortedOutOfScript ==
  ASSUME TypeInv, NEW q \in Ops
  PROVE  Aborted(q) \in Steps /\ Aborted(q) \notin ScriptSteps
BY DEF TypeInv, TypeOK, ControlOK, Aborted, InScript, Steps, ScriptSteps,
       StartSteps, StopSteps, ClientSteps, AfterStop

(* The distro going down keeps the types of everything else. *)
LEMMA DistroStopsKeepsTypes ==
  ASSUME TypeInv, NEW next \in [Ops -> Steps], DistroStops(next),
         \A q \in Ops : next[q] \notin ScriptSteps
  PROVE  TypeInv'
<1>1. AbortScripts(next)
  BY DEF DistroStops
<1>2. ControlOK' /\ AttemptsOK'
  BY <1>1, AbortKeepsTypes DEF ScriptSteps, StartSteps
<1>3. SystemOK' /\ SavedOK'
  BY <1>1 DEF TypeInv, TypeOK, SystemOK, SavedOK, DistroStops, AbortScripts,
              Regenerated, EtcKinds, net, saved, user
<1> QED
  BY <1>2, <1>3 DEF TypeInv, TypeOK

(* No step of anybody disturbs the types. *)
LEMMA TypeStep ==
  ASSUME TypeInv, [Next]_vars
  PROVE  TypeInv'
<1> USE TunnelAssumption
<1> USE DEF locals, conf, net, fwd, saved, user
<1>1. ASSUME NEW p \in Ops, StartBegin(p) \/ StopBegin(p)
      PROVE  TypeInv'
  BY <1>1 DEF StartBegin, StopBegin, Enter, TypeInv, TypeOK, ControlOK,
              SystemOK, SavedOK, AttemptsOK, Steps, ScriptSteps, StopSteps,
              ClientSteps
<1>2. CASE UNCHANGED vars
  BY <1>2 DEF vars, TypeInv, TypeOK, ControlOK, SystemOK, SavedOK, AttemptsOK
<1>3. ASSUME NEW p \in Ops, TerminateDistro(p)
      PROVE  TypeInv'
  <2> DEFINE next == [q \in Ops |-> IF q = p THEN "release" ELSE Aborted(q)]
  <2>1. next \in [Ops -> Steps] /\ \A q \in Ops : next[q] \notin ScriptSteps
    BY AbortedOutOfScript DEF Steps, ScriptSteps, StartSteps, StopSteps, ClientSteps
  <2>2. DistroStops(next)
    BY <1>3 DEF TerminateDistro
  <2> QED
    BY <2>1, <2>2, DistroStopsKeepsTypes
<1>4. ASSUME NEW p \in Ops, ConfigureAgain(p)
      PROVE  TypeInv'
  BY <1>4 DEF ConfigureAgain, InstallRoute, TypeInv, TypeOK, ControlOK,
              SystemOK, SavedOK, AttemptsOK, RouteKinds
<1>5. ASSUME NEW p \in Ops, CommandFails(p)
      PROVE  TypeInv'
  <2>1. \E next \in ClientSteps : ScriptEnds(p, next)
    BY <1>5 DEF CommandFails, AfterStop, ClientSteps
  <2>2. ControlOK' /\ AttemptsOK'
    BY <2>1, EndKeepsTypes
  <2>3. UNCHANGED user
    BY <2>1 DEF ScriptEnds
  <2> QED
    BY <1>5, <2>2, <2>3 DEF CommandFails, TypeInv, TypeOK, SystemOK, SavedOK
<1>6. ASSUME NEW p \in Ops, Crash(p) \/ Cancel(p)
      PROVE  TypeInv'
  <2>1. \/ pc' = pc /\ UNCHANGED locals
        \/ /\ pc' = [pc EXCEPT ![p] = "idle"]
           /\ (UNCHANGED locals /\ ~InScript(p)) \/ Forgets(p)
    BY <1>6 DEF Crash, Cancel
  <2>2. lock' \in {NoOp, Stale} /\ orphan' \subseteq Ops
    BY <1>6 DEF Crash, Cancel, TypeInv, TypeOK, ControlOK
  <2>3. ControlOK'
    <3>1. pc' \in [Ops -> Steps]
      BY <2>1 DEF TypeInv, TypeOK, ControlOK, Steps
    <3>2. CASE UNCHANGED locals
      BY <2>2, <3>1, <3>2 DEF TypeInv, TypeOK, ControlOK
    <3>3. CASE Forgets(p)
      BY <2>2, <3>1, <3>3 DEF Forgets, TypeInv, TypeOK, ControlOK, MaxAttempts
    <3> QED
      BY <2>1, <3>2, <3>3
  <2>4. ASSUME NEW q \in Ops
        PROVE  /\ pc'[q] \notin {"spawn", "await", "configure"} => attempt'[q] = 0
               /\ pc'[q] = "spawn" => attempt'[q] < MaxAttempts
    <3>1. CASE pc'[q] = pc[q] /\ attempt'[q] = attempt[q]
      BY <3>1 DEF TypeInv, AttemptsOK
    <3>2. CASE q = p /\ Forgets(p) /\ pc'[q] = "idle"
      BY <3>2 DEF Forgets, TypeInv, TypeOK, ControlOK
    <3>3. CASE q = p /\ ~InScript(p) /\ pc'[q] = "idle" /\ UNCHANGED attempt
      BY <3>3 DEF InScript, ScriptSteps, StartSteps, TypeInv, AttemptsOK
    <3> QED
      BY <2>1, <3>1, <3>2, <3>3 DEF Forgets, TypeInv, TypeOK, ControlOK
  <2> QED
    BY <1>6, <2>3, <2>4 DEF Crash, Cancel, TypeInv, TypeOK, SystemOK, SavedOK, AttemptsOK
<1>7. CASE UserUnlock \/ ForwarderDies \/ PidReused \/ ProcExits
  <2>1. lock' \in {lock, NoOp} /\ UNCHANGED <<pc, orphan, locals>>
    BY <1>7 DEF UserUnlock, ForwarderDies, PidReused, ProcExits
  <2>2. proc' \in [Pids -> {"free", "fwd", "user"}] /\ UNCHANGED vmPid
    BY <1>7 DEF UserUnlock, ForwarderDies, PidReused, ProcExits, TypeInv, TypeOK,
                SystemOK
  <2>3. UNCHANGED <<conf, net, saved, user>>
    BY <1>7 DEF UserUnlock, ForwarderDies, PidReused, ProcExits
  <2> QED
    BY <2>1, <2>2, <2>3 DEF TypeInv, TypeOK, ControlOK, SystemOK, SavedOK, AttemptsOK
<1>8. CASE Terminate
  <2> DEFINE next == [q \in Ops |-> Aborted(q)]
  <2>1. next \in [Ops -> Steps] /\ \A q \in Ops : next[q] \notin ScriptSteps
    BY AbortedOutOfScript
  <2>2. DistroStops(next)
    BY <1>8 DEF Terminate
  <2> QED
    BY <2>1, <2>2, DistroStopsKeepsTypes
<1>9. CASE Shutdown
  <2> DEFINE next == [q \in Ops |-> Aborted(q)]
  <2>1. next \in [Ops -> Steps] /\ \A q \in Ops : next[q] \notin ScriptSteps
    BY AbortedOutOfScript
  <2>2. AbortScripts(next)
    BY <1>9 DEF Shutdown
  <2>3. ControlOK' /\ AttemptsOK'
    BY <2>1, <2>2, AbortKeepsTypes DEF ScriptSteps, StartSteps
  <2>4. SystemOK'
    BY <1>9 DEF Shutdown, TypeInv, TypeOK, SystemOK, SavedOK, Regenerated,
                EtcKinds, Sources, RouteKinds
  <2>5. SavedOK'
    BY <1>9, <2>2 DEF Shutdown, AbortScripts, TypeInv, TypeOK, SavedOK, EtcKinds,
                      Sources
  <2> QED
    BY <2>3, <2>4, <2>5 DEF TypeInv, TypeOK
<1>10. CASE EditEtc
  BY <1>10 DEF EditEtc, TypeInv, TypeOK, ControlOK, SystemOK, SavedOK,
               AttemptsOK, EtcKinds
<1> QED
  BY <1>1, <1>2, <1>3, <1>4, <1>5, <1>6, <1>7, <1>8, <1>9, <1>10, AdvanceKeepsTypes
  DEF Next, Operate, Environment, Refused

(* Every variable keeps its type, and no start script spawns more than     *)
(* MaxAttempts forwarders, whatever happens around it.                     *)
THEOREM TypeCorrect == Spec => []TypeOK
<1>1. TypeInv /\ [Next]_vars => TypeInv'
  BY TypeStep
<1>2. TypeInv => TypeOK
  BY DEF TypeInv
<1> QED
  BY TypeInit, <1>1, <1>2, PTL DEF Spec

-----------------------------------------------------------------------------
(***************************************************************************)
(* Proofs that an operation of Tunnel is alone from AcquireLock to the end *)
(* of its script, for any number of operations, as long as no context is   *)
(* cancelled and no lock file is removed by hand: those two free the lock  *)
(* while a script goes on.                                                 *)
(*                                                                         *)
(* That scripts exclude each other is not inductive: an orphan runs        *)
(* without owning the lock.  What keeps the next operation out is the lock *)
(* file its client left behind, so the invariant relates the lock to       *)
(* whoever is active, client or orphan.                                    *)
(***************************************************************************)

(* An orphan is in a script: the steps of a client end with the client. *)
OrphansRun == \A p \in orphan : InScript(p)

ClientInv == ControlOK /\ OrphansRun /\ LockIsItsClients

(* What happens to the operations when their distro stops. *)
LEMMA AbortedIs ==
  ASSUME ControlOK, OrphansRun, NEW q \in Ops
  PROVE  /\ Aborted(q) \in Steps
         /\ Aborted(q) # "idle" <=> Waits(q)
<1> USE DEF ControlOK, Aborted, Waits, Active, InScript, Steps, ScriptSteps,
            StartSteps, StopSteps, ClientSteps, AfterStop
<1>1. CASE InScript(q)
  BY <1>1
<1>2. CASE ~InScript(q)
  BY <1>2 DEF OrphansRun
<1> QED
  BY <1>1, <1>2

(* Who takes a client step waits for itself. *)
LEMMA ClientWaits ==
  ASSUME OrphansRun, NEW p \in Ops, pc[p] \in ClientSteps
  PROVE  Waits(p)
BY DEF OrphansRun, Waits, Active, InScript, ScriptSteps, StartSteps, StopSteps,
       ClientSteps

(* Every step keeps the lock with its client. *)
LEMMA ClientStep ==
  ASSUME ClientInv, [Next]_vars
  PROVE  OrphansRun' /\ LockIsItsClients'
<1> USE TunnelAssumption DEF ClientInv
<1>1. ASSUME NEW p \in Ops, NEW to \in ScriptSteps \union ClientSteps, Enter(p, to)
      PROVE  OrphansRun' /\ LockIsItsClients'
  <2>1. p \notin orphan
    BY <1>1 DEF Enter, OrphansRun, InScript, ScriptSteps, StartSteps, StopSteps
  <2> QED
    BY <1>1, <2>1 DEF Enter, OrphansRun, LockIsItsClients, Waits, Active, InScript,
       ControlOK, ScriptSteps, StartSteps, StopSteps, ClientSteps
<1>2. ASSUME NEW p \in Ops, Moves(p)
      PROVE  OrphansRun' /\ LockIsItsClients'
  <2>1. PICK from \in Steps \ {"idle"}, to \in Steps \ {"idle"} :
          Step(p, from, to) /\ (from \in ScriptSteps => to \in ScriptSteps)
    BY <1>2 DEF Moves
  <2>2. /\ UNCHANGED <<lock, orphan>>
        /\ \A q \in Ops : Active(q)' <=> Active(q)
        /\ \A q \in Ops : InScript(q) => InScript(q)'
    BY <2>1 DEF Step, Active, InScript, ControlOK
  <2> QED
    BY <2>2 DEF OrphansRun, LockIsItsClients, Waits, ControlOK
<1>3. ASSUME NEW p \in Ops, Ends(p)
      PROVE  OrphansRun' /\ LockIsItsClients'
  <2>1. PICK next \in ClientSteps : ScriptEnds(p, next)
    BY <1>3 DEF Ends
  <2>2. /\ UNCHANGED lock /\ orphan' = orphan \ {p}
        /\ Active(p)' <=> p \notin orphan
        /\ \A q \in Ops \ {p} : pc'[q] = pc[q]
    BY <2>1 DEF ScriptEnds, Active, ControlOK, ClientSteps
  <2>3. OrphansRun'
    BY <2>2 DEF OrphansRun, InScript, ControlOK
  <2>4. \A q \in Ops : Waits(q)' <=> Waits(q)
    BY <1>3, <2>2 DEF Waits, Active, Ends
  <2> QED
    BY <2>2, <2>3, <2>4 DEF LockIsItsClients
<1>4. ASSUME NEW p \in Ops, Leaves(p)
      PROVE  OrphansRun' /\ LockIsItsClients'
  <2>1. Waits(p) /\ lock = p
    BY <1>4, ClientWaits DEF Leaves, ClientSteps, LockIsItsClients
  <2> QED
    BY <1>4, <2>1 DEF Leaves, OrphansRun, LockIsItsClients, Waits, Active, InScript,
       ControlOK
<1>5. ASSUME NEW next \in [Ops -> Steps], AbortScripts(next),
             \A q \in Ops : next[q] # "idle" <=> Waits(q)
      PROVE  OrphansRun' /\ LockIsItsClients'
  BY <1>5 DEF AbortScripts, OrphansRun, LockIsItsClients, Waits, Active
<1>6. CASE Terminate \/ Shutdown
  BY <1>5, <1>6, AbortedIs DEF Terminate, Shutdown, DistroStops
<1>7. ASSUME NEW p \in Ops, TerminateDistro(p)
      PROVE  OrphansRun' /\ LockIsItsClients'
  <2> DEFINE next == [q \in Ops |-> IF q = p THEN "release" ELSE Aborted(q)]
  <2>1. Waits(p)
    BY <1>7, ClientWaits DEF TerminateDistro, ClientSteps
  <2>2. next \in [Ops -> Steps] /\ \A q \in Ops : next[q] # "idle" <=> Waits(q)
    BY <2>1, AbortedIs DEF Steps, ClientSteps
  <2>3. AbortScripts(next)
    BY <1>7 DEF TerminateDistro, DistroStops
  <2> QED
    BY <1>5, <2>2, <2>3
<1>8. ASSUME NEW p \in Ops, Crash(p) \/ Cancel(p)
      PROVE  OrphansRun' /\ LockIsItsClients'
  <2>1. Waits(p) /\ lock = p /\ lock' \notin Ops
    BY <1>8 DEF Crash, Cancel, LockIsItsClients
  <2>2. ~Waits(p)' /\ \A q \in Ops \ {p} : Waits(q)' <=> Waits(q)
    BY <1>8 DEF Crash, Cancel, Waits, Active, ControlOK
  <2>3. OrphansRun'
    BY <1>8, <2>1 DEF Crash, Cancel, OrphansRun, InScript, Waits, ControlOK
  <2> QED
    BY <2>1, <2>2, <2>3 DEF LockIsItsClients
<1>9. CASE UserUnlock
  BY <1>9 DEF UserUnlock, OrphansRun, InScript, LockIsItsClients, Waits, Active
<1>10. ASSUME UNCHANGED control
       PROVE  OrphansRun' /\ LockIsItsClients'
  BY <1>10 DEF control, OrphansRun, LockIsItsClients, Waits, Active, InScript
<1>11. ASSUME NEW p \in Ops, Operate(p)
       PROVE  OrphansRun' /\ LockIsItsClients'
  <2>1. CASE StartBegin(p) \/ StopBegin(p)
    BY <1>1, <2>1 DEF StartBegin, StopBegin, ScriptSteps, StopSteps, ClientSteps
  <2>2. CASE Refused(p) \/ ConfigureAgain(p)
    BY <1>10, <2>2 DEF Refused, ConfigureAgain, vars, control
  <2>3. CASE Advance(p)
    BY <1>2, <1>3, <1>4, <1>7, <2>3, AdvanceControl
  <2>4. CASE CommandFails(p)
    <3>1. Ends(p)
      BY <2>4 DEF CommandFails, Ends, Active, Unguarded, AfterStop, ClientSteps
    <3> QED
      BY <1>3, <3>1
  <2> QED
    BY <1>11, <2>1, <2>2, <2>3, <2>4 DEF Operate
<1>12. CASE ForwarderDies \/ PidReused \/ ProcExits \/ EditEtc \/ UNCHANGED vars
  BY <1>10, <1>12 DEF ForwarderDies, PidReused, ProcExits, EditEtc, vars, control
<1> QED
  BY <1>6, <1>8, <1>9, <1>11, <1>12 DEF Next, Environment

(* A client that is inside an operation holds the lock, and a lock that is *)
(* not stale has a client that will release it, whatever is cancelled,     *)
(* dies or is removed by hand.                                             *)
THEOREM LockHasItsClient == Spec => []LockIsItsClients
<1>1. Init => OrphansRun /\ LockIsItsClients
  BY TunnelAssumption DEF Init, OrphansRun, LockIsItsClients, Waits, Active
<1>2. TypeInv /\ OrphansRun /\ LockIsItsClients /\ [Next]_vars
        => (TypeInv /\ OrphansRun /\ LockIsItsClients)'
  BY TypeStep, ClientStep DEF TypeInv, TypeOK, ClientInv
<1> QED
  BY <1>1, <1>2, TypeInit, PTL DEF Spec

-----------------------------------------------------------------------------
LockKept == "cancel" \notin Faults /\ "unlock" \notin Faults

OneActive == \A p, q \in Ops : Active(p) /\ Active(q) => p = q
Apart     == OneActive /\ OrphansRun

(* The file of a dead client is there for as long as its script runs. *)
StaleKept == orphan # {} => lock = Stale

LockInv == ClientInv /\ StaleKept /\ Apart

(* No operation is active while the lock is free. *)
LEMMA FreeMeansIdle ==
  ASSUME LockInv, lock = NoOp, NEW p \in Ops
  PROVE  ~Active(p)
BY TunnelAssumption
DEF LockInv, ClientInv, StaleKept, LockIsItsClients, Waits

(* Nobody becomes active but an operation that takes the lock. *)
LEMMA BecomesActive ==
  ASSUME ControlOK, OrphansRun, [Next]_vars, NEW q \in Ops, Active(q)', ~Active(q)
  PROVE  StartBegin(q) \/ StopBegin(q)
<1>1. ASSUME NEW p \in Ops, Moves(p) \/ Ends(p) \/ Leaves(p) PROVE FALSE
  <2>1. pc'[q] = pc[q] \/ (q = p /\ Active(p)) \/ pc'[q] = "idle"
    BY <1>1 DEF Moves, Ends, Leaves, Step, ScriptEnds, ControlOK, Active
  <2> QED
    BY <2>1 DEF Active
<1>2. ASSUME AbortScripts([p \in Ops |-> Aborted(p)]) PROVE FALSE
  BY <1>2, AbortedIs DEF AbortScripts, Active, Waits
<1>3. ASSUME NEW p \in Ops, TerminateDistro(p) PROVE FALSE
  BY <1>3, AbortedIs DEF TerminateDistro, DistroStops, AbortScripts, Active, Waits
<1>4. ASSUME UNCHANGED pc PROVE FALSE
  BY <1>4 DEF Active
<1>5. ASSUME NEW p \in Ops, Crash(p) \/ Cancel(p) PROVE FALSE
  BY <1>5 DEF Crash, Cancel, Active, ControlOK
<1>6. ASSUME NEW p \in Ops, CommandFails(p) PROVE FALSE
  <2>1. Ends(p)
    BY <1>6 DEF CommandFails, Ends, Active, Unguarded, AfterStop, ClientSteps
  <2> QED
    BY <1>1, <2>1
<1>7. ASSUME NEW p \in Ops, Advance(p) PROVE FALSE
  BY <1>1, <1>3, <1>7, AdvanceControl
<1>8. ASSUME NEW p \in Ops, StartBegin(p) \/ StopBegin(p)
      PROVE  StartBegin(q) \/ StopBegin(q)
  <2>1. p = q
    BY <1>8 DEF StartBegin, StopBegin, Enter, Active, ControlOK
  <2> QED
    BY <1>8, <2>1
<1>9. CASE \E p \in Ops : Refused(p) \/ ConfigureAgain(p)
  BY <1>4, <1>9 DEF Refused, ConfigureAgain, vars
<1>10. CASE UserUnlock \/ ForwarderDies \/ PidReused \/ ProcExits \/ EditEtc
            \/ UNCHANGED vars
  BY <1>4, <1>10 DEF UserUnlock, ForwarderDies, PidReused, ProcExits, EditEtc, vars
<1>11. CASE Terminate \/ Shutdown
  BY <1>2, <1>11 DEF Terminate, Shutdown, DistroStops
<1> QED
  BY <1>5, <1>6, <1>7, <1>8, <1>9, <1>10, <1>11 DEF Next, Operate, Environment

(* The steps of Tunnel but those that take the lock while a script whose   *)
(* lock was freed still runs.                                              *)
Orderly ==
  /\ Next
  /\ (\E p \in Ops : StartBegin(p) \/ StopBegin(p)) => \A q \in Ops : ~Active(q)

(* They keep the operations apart, whatever is cancelled or removed. *)
LEMMA OrderlyStep ==
  ASSUME ControlOK, Apart, [Orderly]_vars, OrphansRun'
  PROVE  Apart'
<1> SUFFICES ASSUME NEW p \in Ops, NEW q \in Ops, Active(p)', Active(q)'
             PROVE  p = q
  BY DEF Apart, OneActive
<1>1. [Next]_vars
  BY DEF Orderly
<1>2. CASE Active(p) /\ Active(q)
  BY <1>2 DEF Apart, OneActive
<1>3. ASSUME NEW a \in Ops, NEW b \in Ops, Active(a)', Active(b)', ~Active(a)
      PROVE  a = b
  <2>1. StartBegin(a) \/ StopBegin(a)
    BY <1>1, <1>3, BecomesActive DEF Apart
  <2>2. ~Active(b)
    BY <1>3, <2>1 DEF Orderly, vars, Active
  <2> QED
    BY <1>3, <2>1, <2>2 DEF StartBegin, StopBegin, Enter, Active, ControlOK
<1> QED
  BY <1>2, <1>3

(* Where nothing is cancelled or removed by hand every step is orderly,    *)
(* because a free lock means that nobody is active.                        *)
LEMMA LockIsOrderly ==
  ASSUME LockInv, [Next]_vars
  PROVE  [Orderly]_vars
<1>1. ASSUME NEW p \in Ops, StartBegin(p) \/ StopBegin(p) PROVE lock = NoOp
  BY <1>1 DEF StartBegin, StopBegin, Enter
<1> QED
  BY <1>1, FreeMeansIdle DEF Orderly

(* What frees the lock of a dead client, or makes an orphan beside one.    *)
LEMMA StaleStep ==
  ASSUME LockKept, LockInv, [Next]_vars
  PROVE  StaleKept'
<1> USE DEF LockInv, ClientInv, StaleKept, LockKept
<1>1. ASSUME UNCHANGED <<lock, orphan>> PROVE StaleKept'
  BY <1>1
<1>2. ASSUME NEW p \in Ops, StartBegin(p) \/ StopBegin(p) PROVE StaleKept'
  BY <1>2, TunnelAssumption DEF StartBegin, StopBegin, Enter
<1>3. ASSUME NEW p \in Ops, Moves(p) \/ Ends(p) PROVE StaleKept'
  BY <1>3 DEF Moves, Ends, Step, ScriptEnds
<1>4. ASSUME NEW p \in Ops, Leaves(p) PROVE StaleKept'
  <2>1. lock = p
    BY <1>4, ClientWaits DEF Leaves, ClientSteps, LockIsItsClients
  <2> QED
    BY <1>4, <2>1, TunnelAssumption DEF Leaves
<1>5. ASSUME NEW next, AbortScripts(next) PROVE StaleKept'
  BY <1>5 DEF AbortScripts
<1>6. ASSUME NEW p \in Ops, TerminateDistro(p) PROVE StaleKept'
  BY <1>5, <1>6 DEF TerminateDistro, DistroStops
<1>7. CASE Terminate \/ Shutdown
  BY <1>5, <1>7 DEF Terminate, Shutdown, DistroStops
<1>8. ASSUME NEW p \in Ops, Crash(p) PROVE StaleKept'
  BY <1>8 DEF Crash
<1>9. ASSUME NEW p \in Ops, CommandFails(p) PROVE StaleKept'
  <2>1. Ends(p)
    BY <1>9 DEF CommandFails, Ends, Active, Unguarded, AfterStop, ClientSteps
  <2> QED
    BY <1>3, <2>1
<1>10. ASSUME NEW p \in Ops, Refused(p) \/ ConfigureAgain(p) PROVE StaleKept'
  BY <1>1, <1>10 DEF Refused, ConfigureAgain, vars
<1>11. CASE ForwarderDies \/ PidReused \/ ProcExits \/ EditEtc \/ UNCHANGED vars
  BY <1>1, <1>11 DEF ForwarderDies, PidReused, ProcExits, EditEtc, vars
<1>12. ASSUME NEW p \in Ops, Advance(p) PROVE StaleKept'
  BY <1>3, <1>4, <1>6, <1>12, AdvanceControl
<1> QED
  BY <1>2, <1>7, <1>8, <1>9, <1>10, <1>11, <1>12
  DEF Next, Operate, Environment, Cancel, UserUnlock

(* So operations are alone in every behaviour. *)
LEMMA LockStep ==
  ASSUME LockKept, LockInv, [Next]_vars, ControlOK'
  PROVE  LockInv'
BY StaleStep, ClientStep, LockIsOrderly, OrderlyStep DEF LockInv, ClientInv, Apart

(* Initially nobody is active. *)
LEMMA LockInit == Init => OrphansRun /\ LockIsItsClients /\ StaleKept /\ Apart
BY TunnelAssumption
DEF Init, OrphansRun, LockIsItsClients, StaleKept, Apart, OneActive, Active, Waits

(* The two invariants together are one of the specification. *)
LEMMA OperationsAlone ==
  ASSUME LockKept
  PROVE  Spec => [](TypeInv /\ LockInv)
<1>1. Init => TypeInv /\ LockInv
  BY TypeInit, LockInit DEF LockInv, ClientInv, TypeInv, TypeOK
<1>2. TypeInv /\ LockInv /\ [Next]_vars => (TypeInv /\ LockInv)'
  BY TypeStep, LockStep DEF TypeInv, TypeOK
<1> QED
  BY <1>1, <1>2, PTL DEF Spec

(* The scripts of two operations never run at the same time, whatever dies *)
(* or fails: the file a dead client leaves keeps the next one out while    *)
(* its script still changes the network.                                   *)
THEOREM ScriptsNeverOverlap ==
  ASSUME LockKept
  PROVE  Spec => []ScriptsExclusive
<1>1. LockInv => ScriptsExclusive
  BY DEF LockInv, Apart, OneActive, ScriptsExclusive, Active, InScript, ScriptSteps,
         StartSteps, StopSteps
<1> QED
  BY OperationsAlone, <1>1, PTL

-----------------------------------------------------------------------------
(* The holder of the mutex is the active operation, and none without one. *)
LEMMA HolderIs ==
  ASSUME OneActive
  PROVE  /\ \A p \in Ops : Active(p) => Holder = p
         /\ (\A p \in Ops : ~Active(p)) => Holder = NoOp
BY DEF OneActive, Holder

LEMMA HolderIsNext ==
  ASSUME OneActive'
  PROVE  /\ \A p \in Ops : Active(p)' => Holder' = p
         /\ (\A p \in Ops : ~Active(p)') => Holder' = NoOp
BY DEF OneActive, Holder

(* Every step of the operations is a step of the mutex or a stutter. *)
LEMMA MutexStep ==
  ASSUME LockInv, LockInv', [Next]_vars
  PROVE  [Mutex!Next]_Holder
<1> USE HolderIs, HolderIsNext
<1> USE DEF LockInv, Apart
<1>1. CASE \E p \in Ops : Active(p)
  <2>1. PICK p \in Ops : Active(p)
    BY <1>1
  <2>2. lock # NoOp
    BY <2>1, FreeMeansIdle
  <2>3. \A q \in Ops : Active(q)' => Active(q)
    BY <2>2, BecomesActive DEF ClientInv, StartBegin, StopBegin, Enter
  <2>4. CASE Active(p)'
    BY <2>1, <2>4
  <2>5. CASE ~Active(p)'
    <3>1. \A q \in Ops : ~Active(q)'
      BY <2>1, <2>3, <2>5 DEF OneActive
    <3>2. Mutex!Leave(p)
      BY <2>1, <3>1 DEF Mutex!Leave
    <3> QED
      BY <3>2 DEF Mutex!Next
  <2> QED
    BY <2>4, <2>5
<1>2. CASE \A p \in Ops : ~Active(p)
  <2>1. Holder = NoOp
    BY <1>2
  <2>2. CASE \E p \in Ops : Active(p)'
    <3>1. PICK p \in Ops : Active(p)'
      BY <2>2
    <3>2. Mutex!Enter(p)
      BY <2>1, <3>1 DEF Mutex!Enter
    <3> QED
      BY <3>2 DEF Mutex!Next
  <2>3. CASE \A p \in Ops : ~Active(p)'
    BY <2>1, <2>3
  <2> QED
    BY <2>2, <2>3
<1> QED
  BY <1>1, <1>2

(* From AcquireLock to the end of its script an operation holds the mutex  *)
(* of OpMutex, also when its client dies on the way.                       *)
THEOREM OperationsImplementMutex ==
  ASSUME LockKept
  PROVE  Spec => ImplementsMutex
<1>1. Init => Mutex!Init
  BY DEF Init, Active, Holder, Mutex!Init
<1>2. LockInv /\ LockInv' /\ [Next]_vars => [Mutex!Next]_Holder
  BY MutexStep
<1> QED
  BY <1>1, <1>2, OperationsAlone, PTL DEF Spec, Mutex!Spec, ImplementsMutex
=============================================================================
