------------------------------- MODULE Tunnel -------------------------------
(***************************************************************************)
(* internal/network/manager.go: Manager.Start and Manager.Stop, with the   *)
(* shell scripts they run inside WSL, against everything that can happen   *)
(* around them.                                                            *)
(*                                                                         *)
(* An operation is one call of Start or Stop by some client process.  It   *)
(* takes the lock, runs its scripts through wsl.exe and releases the lock. *)
(* Its pc names the step it is about to take.  A script goes on inside WSL *)
(* when the client that waits for it dies or gives up: it is an orphan.    *)
(*                                                                         *)
(* What the scripts work on is the WSL network state shared by all         *)
(* distros: /etc/resolv.conf (etc), /mnt/wsl/resolv.conf (mnt), the tunnel *)
(* block in /etc/wsl.conf (block), the default route (route), the tunnel   *)
(* interface (iface) and the processes (proc).  $STATE holds vm.pid        *)
(* (vmPid) and the backups resolv.etc.orig, resolv.mnt.orig and route.dat. *)
(***************************************************************************)
EXTENDS Naturals

CONSTANTS
  Ops,                (* operations: calls of Start or Stop                *)
  Pids,               (* process ids inside WSL                            *)
  Faults,             (* what may happen around the scripts, see AllFaults *)
  OrigEtcs,           (* what /etc/resolv.conf may be before the tunnel    *)
  OrigRoutes,         (* what the default route may be before the tunnel   *)
  HasEth0,            (* eth0 has an IPv4 address to guess a gateway from  *)
  DisableAutoResolv,  (* Config.DisableAutoResolv                          *)
  TerminateOnStop,    (* Config.TerminateOnStop                            *)
  NoOp,               (* the lock is free                                  *)
  Stale,              (* the lock file of a client that died               *)
  NoPid               (* there is no vm.pid                                *)

(* "crash"     a client process dies (killed, or the tray is quit)         *)
(* "cancel"    the context of an operation is cancelled                    *)
(* "unlock"    the user removes a stale lock file, as lock.go:25 advises   *)
(* "cmdfail"   a command of the start or stabilize script fails            *)
(* "copyfail"  a copy of a resolv.conf fails, which the scripts ignore     *)
(* "unnoticed" a command that undoes the block, the route or the interface *)
(*             fails in the stop script, which has no set -e               *)
(* "die"       the forwarder process exits                                 *)
(* "reuse"     the id of a dead forwarder is given to another process      *)
(* "terminate" the distro is terminated (wsl --terminate)                  *)
(* "shutdown"  WSL is shut down (wsl --shutdown)                           *)
(* "blind"     Stop is called although nothing was saved                   *)
(* "edit"      the user changes /etc/resolv.conf while no tunnel is in it  *)
AllFaults == {"crash", "cancel", "unlock", "cmdfail", "copyfail", "unnoticed",
              "die", "reuse", "terminate", "shutdown", "blind", "edit"}

(* /etc/resolv.conf: a link to /mnt/wsl/resolv.conf, a relative link, a    *)
(* plain file of the user, or the plain file the tunnel writes.            *)
EtcKinds   == {"absent", "link", "rel", "file", "tunnel"}
(* Where the nameserver in a resolv.conf comes from.                       *)
Sources    == {"absent", "wsl", "user", "eth0", "tunnel"}
(* The default route: the one before the tunnel, the guessed one through   *)
(* eth0, another user-mode network with the tunnel's gateway address, a    *)
(* line that does not begin with "default", or the tunnel itself.          *)
RouteKinds == {"none", "orig", "eth0", "other", "blackhole", "tunnel"}

ASSUME TunnelAssumption ==
  /\ Faults \subseteq AllFaults
  /\ OrigEtcs \subseteq {"link", "rel", "file"}
  /\ OrigRoutes \subseteq {"none", "orig", "other", "blackhole"}
  /\ HasEth0 \in BOOLEAN /\ DisableAutoResolv \in BOOLEAN
  /\ TerminateOnStop \in BOOLEAN
  /\ NoOp \notin Ops /\ Stale \notin Ops /\ NoOp # Stale
  /\ NoPid \notin Pids

VARIABLES
  lock,      (* NoOp, Stale or the operation that holds the lock           *)
  pc,        (* the step each operation is about to take                   *)
  orphan,    (* operations whose script runs without its client            *)
  running,   (* FORWARDER_RUNNING of each start script                     *)
  attempt,   (* how many forwarders each start script has spawned          *)
  slipped,   (* what each stop script has failed to undo, unnoticed        *)
  etc, mnt, block,
  route, iface,
  proc,      (* each pid: "free", a forwarder "fwd", or another "user"     *)
  vmPid,
  bakEtc, bakMnt, routeDat,
  userEtc,   (* what the user's own /etc/resolv.conf is                    *)
  userRoute  (* what the default route is without the tunnel               *)

locals == <<running, attempt, slipped>>
conf   == <<etc, mnt, block>>
net    == <<route, iface>>
fwd    == <<proc, vmPid>>
saved  == <<bakEtc, bakMnt, routeDat>>
user   == <<userEtc, userRoute>>
vars   == <<lock, pc, orphan, locals, conf, net, fwd, saved, user>>

-----------------------------------------------------------------------------
(* The steps of an operation: those of the client, and those of the script *)
(* it waits for.                                                           *)
StartSteps == {"probe", "saveMnt", "saveEtc", "saveRoute", "writeConf",
               "rmEtc", "writeEtc", "copyMnt", "addLink", "spawn", "await",
               "configure", "stabilizing"}
StopSteps  == {"kill", "restoreMnt", "restoreEtc", "restoreConf",
               "restoreRoute", "delLink", "rmState"}
ScriptSteps == StartSteps \union StopSteps
ClientSteps == {"prepare", "stabilize", "terminate", "release"}
Steps       == ScriptSteps \union ClientSteps \union {"idle"}

(* Stop terminates the distro after its script, also when that failed. *)
AfterStop == IF TerminateOnStop THEN "terminate" ELSE "release"

Active(p)   == pc[p] # "idle"
InScript(p) == pc[p] \in ScriptSteps

(* One script step: only the named operation moves. *)
Step(p, from, to) ==
  /\ pc[p] = from
  /\ pc' = [pc EXCEPT ![p] = to]
  /\ UNCHANGED <<lock, orphan, user>>

(* What a script knows is gone with it. *)
Forgets(p) ==
  /\ running' = [running EXCEPT ![p] = FALSE]
  /\ attempt' = [attempt EXCEPT ![p] = 0]
  /\ slipped' = [slipped EXCEPT ![p] = {}]

(* The script of p is over: its client goes on at next, if it still waits. *)
ScriptEnds(p, next) ==
  /\ pc' = [pc EXCEPT ![p] = IF p \in orphan THEN "idle" ELSE next]
  /\ orphan' = orphan \ {p}
  /\ Forgets(p)
  /\ UNCHANGED <<lock, user>>

-----------------------------------------------------------------------------
(* What the shell's tests see. *)

(* The nameserver a program finds in a file of this kind. *)
Nameserver(kind) == CASE kind = "link"   -> mnt
                      [] kind = "tunnel" -> "tunnel"
                      [] kind = "absent" -> "absent"
                      [] OTHER           -> "user"

(* [ -e ] follows links; a relative link dangles once it is in $STATE.     *)
EtcExists    == Nameserver(etc) # "absent"
BackupExists == bakEtc # "rel" /\ Nameserver(bakEtc) # "absent"

(* The tunnel's address is the gateway of the route. *)
ViaGateway(r) == r \in {"tunnel", "other"}

(* kill -0 "$(cat vm.pid)": some process has that id. *)
PidAlive     == vmPid # NoPid /\ proc[vmPid] # "free"
ForwarderUp  == vmPid # NoPid /\ proc[vmPid] = "fwd"
NoForwarders == [q \in Pids |-> IF proc[q] = "fwd" THEN "free" ELSE proc[q]]

RouteWithoutLink == IF route = "tunnel" THEN "none" ELSE route

(* What a file may be after cp ... || true. *)
Copied(old, new) == {new} \union (IF "copyfail" \in Faults THEN {old} ELSE {})

-----------------------------------------------------------------------------
(* Before the first operation.  A link needs something to point to. *)
Init ==
  /\ lock = NoOp
  /\ pc = [p \in Ops |-> "idle"]
  /\ orphan = {}
  /\ running = [p \in Ops |-> FALSE]
  /\ attempt = [p \in Ops |-> 0]
  /\ slipped = [p \in Ops |-> {}]
  /\ userEtc \in OrigEtcs /\ etc = userEtc
  /\ mnt \in {"wsl", "absent"} /\ (etc = "link" => mnt = "wsl")
  /\ block = FALSE
  /\ userRoute \in OrigRoutes /\ route = userRoute
  /\ iface = FALSE
  /\ proc = [q \in Pids |-> "free"]
  /\ vmPid = NoPid
  /\ bakEtc = "absent" /\ bakMnt = "absent" /\ routeDat = "absent"

-----------------------------------------------------------------------------
(* Manager.Start.  AcquireLock either takes the lock or fails at once. *)

(* Mutant of Enter: the lock is taken without looking whether it is free.  *)
EnterLocked(p, to) ==
  /\ pc[p] = "idle"
  /\ lock' = p
  /\ pc' = [pc EXCEPT ![p] = to]
  /\ UNCHANGED <<orphan, locals, conf, net, fwd, saved, user>>

Enter(p, to) ==
  /\ pc[p] = "idle"
  /\ lock = NoOp
  /\ lock' = p
  /\ pc' = [pc EXCEPT ![p] = to]
  /\ UNCHANGED <<orphan, locals, conf, net, fwd, saved, user>>

StartBegin(p) == Enter(p, "prepare")

Refused(p) == pc[p] = "idle" /\ lock # NoOp /\ UNCHANGED vars

(* DistroExists, gvisor.Ensure and the path conversions: any of them may   *)
(* fail, and Start returns the error.                                      *)
Prepare(p) ==
  /\ \E to \in {"probe", "release"} : Step(p, "prepare", to)
  /\ UNCHANGED <<locals, conf, net, fwd, saved>>

(* Is the forwarder of an earlier Start still running?  If not, clean up.  *)
Probe(p) ==
  /\ Step(p, "probe", "saveMnt")
  /\ running' = [running EXCEPT ![p] = ForwarderUp]
  /\ UNCHANGED <<attempt, slipped, conf, saved>>
  /\ IF ForwarderUp
     THEN UNCHANGED <<net, fwd>>
     ELSE /\ proc' = NoForwarders /\ vmPid' = NoPid
          /\ iface' = FALSE /\ route' = RouteWithoutLink

(* Mutant of SaveMnt: the tunnel's own address is not looked for. *)
SaveMntUnchecked(p) ==
  /\ Step(p, "saveMnt", "saveEtc")
  /\ bakMnt' = IF mnt # "absent" /\ bakMnt = "absent" THEN mnt ELSE bakMnt
  /\ UNCHANGED <<locals, conf, net, fwd, bakEtc, routeDat>>

SaveMnt(p) ==
  /\ Step(p, "saveMnt", "saveEtc")
  /\ bakMnt' \in IF mnt \notin {"absent", "tunnel"} /\ bakMnt = "absent"
                 THEN Copied(bakMnt, mnt) ELSE {bakMnt}
  /\ UNCHANGED <<locals, conf, net, fwd, bakEtc, routeDat>>

(* Mutant of SaveEtc: the backup of an earlier Start is overwritten. *)
SaveEtcAgain(p) ==
  /\ Step(p, "saveEtc", "saveRoute")
  /\ bakEtc' = etc
  /\ UNCHANGED <<locals, conf, net, fwd, bakMnt, routeDat>>

(* cp -a keeps a link a link, and does not write a file through a backup   *)
(* that is a dangling link.                                                *)
SaveEtc(p) ==
  /\ Step(p, "saveEtc", "saveRoute")
  /\ bakEtc' \in IF /\ EtcExists /\ Nameserver(etc) # "tunnel"
                    /\ ~BackupExists
                    /\ etc = "file" => bakEtc = "absent"
                 THEN Copied(bakEtc, etc) ELSE {bakEtc}
  /\ UNCHANGED <<locals, conf, net, fwd, bakMnt, routeDat>>

(* Mutant of Reinstalled: the route is always saved. *)
NeverReinstalled(p) == FALSE

(* A running forwarder's route is not saved over the one it replaced.      *)
Reinstalled(p) == ViaGateway(route) /\ running[p]
RouteOf(p)     == IF Reinstalled(p) THEN routeDat ELSE route

(* Mutant of RouteRefused: exit 2 is missing. *)
RouteMalformed(p) == RouteOf(p) = "blackhole"

(* Exit 2: another user-mode network owns the default route; exit 3: the   *)
(* line is not a default route.                                            *)
RouteRefused(p) == \/ ViaGateway(RouteOf(p)) /\ ~running[p]
                   \/ RouteOf(p) = "blackhole"

SaveRoute(p) ==
  /\ pc[p] = "saveRoute"
  /\ routeDat' = IF Reinstalled(p) THEN routeDat ELSE route
  /\ IF RouteRefused(p)
     THEN ScriptEnds(p, "release")
     ELSE Step(p, "saveRoute", "writeConf") /\ UNCHANGED locals
  /\ UNCHANGED <<conf, net, fwd, bakEtc, bakMnt>>

(* The block that stops WSL from generating /etc/resolv.conf. *)
WriteConf(p) ==
  /\ Step(p, "writeConf", "rmEtc")
  /\ block' = (block \/ DisableAutoResolv)
  /\ UNCHANGED <<locals, etc, mnt, net, fwd, saved>>

RemoveEtc(p) ==
  /\ Step(p, "rmEtc", "writeEtc")
  /\ etc' = "absent"
  /\ UNCHANGED <<locals, mnt, block, net, fwd, saved>>

(* write_resolv_conf: the redirection follows a link that is there again.  *)
WriteEtc(p) ==
  /\ Step(p, "writeEtc", "copyMnt")
  /\ IF etc = "link"
     THEN mnt' = "tunnel" /\ etc' = etc
     ELSE etc' = "tunnel" /\ mnt' = mnt
  /\ UNCHANGED <<locals, block, net, fwd, saved>>

CopyMnt(p) ==
  /\ Step(p, "copyMnt", "addLink")
  /\ mnt' \in Copied(mnt, IF EtcExists THEN Nameserver(etc) ELSE mnt)
  /\ UNCHANGED <<locals, etc, block, net, fwd, saved>>

AddLink(p) ==
  /\ Step(p, "addLink", IF running[p] THEN "configure" ELSE "spawn")
  /\ iface' = TRUE
  /\ UNCHANGED <<locals, conf, route, fwd, saved>>

(* Mutant of Spawn: the attempts are not counted. *)
SpawnUncounted(p) ==
  /\ Step(p, "spawn", "await")
  /\ \E q \in Pids : /\ proc[q] = "free"
                     /\ proc' = [proc EXCEPT ![q] = "fwd"]
                     /\ vmPid' = q
  /\ UNCHANGED <<locals, conf, net, saved>>

(* nohup gvforwarder & echo $! > vm.pid *)
Spawn(p) ==
  /\ Step(p, "spawn", "await")
  /\ attempt' = [attempt EXCEPT ![p] = @ + 1]
  /\ \E q \in Pids : /\ proc[q] = "free"
                     /\ proc' = [proc EXCEPT ![q] = "fwd"]
                     /\ vmPid' = q
  /\ UNCHANGED <<running, slipped, conf, net, saved>>

(* The forwarder is given three seconds to fail. *)
MaxAttempts == 3

(* Mutant of Await: one attempt too many. *)
AwaitOnceMore(p) ==
  /\ pc[p] = "await"
  /\ IF PidAlive
     THEN Step(p, "await", "configure") /\ UNCHANGED <<locals, fwd>>
     ELSE /\ proc' = NoForwarders /\ vmPid' = NoPid
          /\ IF attempt[p] <= MaxAttempts
             THEN Step(p, "await", "spawn") /\ UNCHANGED locals
             ELSE ScriptEnds(p, "release")
  /\ UNCHANGED <<conf, net, saved>>

Await(p) ==
  /\ pc[p] = "await"
  /\ IF PidAlive
     THEN Step(p, "await", "configure") /\ UNCHANGED <<locals, fwd>>
     ELSE /\ proc' = NoForwarders /\ vmPid' = NoPid
          /\ IF attempt[p] < MaxAttempts
             THEN Step(p, "await", "spawn") /\ UNCHANGED locals
             ELSE ScriptEnds(p, "release")     \* exit 42
  /\ UNCHANGED <<conf, net, saved>>

(* configure_network *)
InstallRoute == iface' = TRUE /\ route' = "tunnel"

(* It is called seven times after a spawn and eleven times by the          *)
(* stabilize script; a call that is not the last one stays where it is.    *)
Configure(p) ==
  /\ InstallRoute
  /\ \/ pc[p] = "configure" /\ ScriptEnds(p, "stabilize")
     \/ pc[p] = "stabilizing" /\ ScriptEnds(p, "release")
  /\ UNCHANGED <<conf, fwd, saved>>

ConfigureAgain(p) ==
  /\ InstallRoute
  /\ pc[p] \in {"configure", "stabilizing"}
  /\ UNCHANGED <<lock, pc, orphan, locals, conf, fwd, saved, user>>

(* The stabilize script does nothing without a live vm.pid. *)
Stabilize(p) ==
  /\ Step(p, "stabilize", IF PidAlive THEN "stabilizing" ELSE "release")
  /\ UNCHANGED <<locals, conf, net, fwd, saved>>

(* set -e: a start script ends where a command fails that it does not      *)
(* guard with || true, and undoes nothing.  wsl.exe itself may fail to run *)
(* a script.                                                               *)
Unguarded == {"probe", "saveRoute", "writeConf", "rmEtc", "writeEtc", "addLink",
              "spawn", "configure", "stabilizing"}

CommandFails(p) ==
  /\ "cmdfail" \in Faults
  /\ \/ pc[p] \in Unguarded \union {"stabilize"} /\ ScriptEnds(p, "release")
     \/ pc[p] = "kill" /\ ScriptEnds(p, AfterStop)
     \/ pc[p] = "terminate" /\ ScriptEnds(p, "release")
  /\ UNCHANGED <<conf, net, fwd, saved>>

(* The deferred Release. *)
Release(p) ==
  /\ pc[p] = "release"
  /\ pc' = [pc EXCEPT ![p] = "idle"]
  /\ lock' = NoOp
  /\ UNCHANGED <<orphan, locals, conf, net, fwd, saved, user>>

-----------------------------------------------------------------------------
(* Manager.Stop. *)

(* Nothing looks whether there is something to restore: without "blind"    *)
(* the model leaves out a Stop that finds no route.dat.                    *)
StopBegin(p) ==
  /\ routeDat # "absent" \/ "blind" \in Faults
  /\ Enter(p, "kill")

(* Whatever process has the id in vm.pid is killed, and every forwarder. *)
KillForwarder(p) ==
  /\ Step(p, "kill", "restoreMnt")
  /\ proc' = [q \in Pids |-> IF q = vmPid THEN "free" ELSE NoForwarders[q]]
  /\ UNCHANGED <<locals, conf, net, vmPid, saved>>

(* Without a usable backup eth0's gateway is guessed to be the resolver. *)
GuessedMnt == IF HasEth0 THEN "eth0" ELSE mnt

RestoreMnt(p) ==
  /\ Step(p, "restoreMnt", "restoreEtc")
  /\ mnt' \in IF bakMnt \notin {"absent", "tunnel"}
              THEN Copied(GuessedMnt, bakMnt) ELSE {GuessedMnt}
  /\ UNCHANGED <<locals, etc, block, net, fwd, saved>>

(* The old file is removed before the backup is copied, and a failing copy *)
(* is not noticed.                                                         *)
RestoreEtc(p) ==
  /\ Step(p, "restoreEtc", "restoreConf")
  /\ etc' \in Copied("absent",
                     IF BackupExists /\ Nameserver(bakEtc) # "tunnel"
                     THEN bakEtc ELSE "link")
  /\ UNCHANGED <<locals, mnt, block, net, fwd, saved>>

(* What the stop script undoes, each by a command whose failure it ignores.*)
Undoings == {"block", "route", "link"}

Slips(p, part) ==
  /\ "unnoticed" \in Faults
  /\ slipped' = [slipped EXCEPT ![p] = @ \union {part}]
  /\ UNCHANGED <<running, attempt>>

(* awk ... && cp: where one of them fails the file stays as it is. *)
RestoreConf(p) ==
  /\ Step(p, "restoreConf", "restoreRoute")
  /\ \/ block' = FALSE /\ UNCHANGED locals
     \/ block' = block /\ Slips(p, "block")
  /\ UNCHANGED <<etc, mnt, net, fwd, saved>>

(* Mutant of RestoreRoute: the route in place is not deleted first, so a   *)
(* route that cannot be guessed leaves the tunnel's.                       *)
RestoreRouteOnly(p) ==
  /\ Step(p, "restoreRoute", "delLink")
  /\ route' = IF routeDat \in {"orig", "other", "tunnel"} THEN routeDat
              ELSE route
  /\ UNCHANGED <<locals, conf, iface, fwd, saved>>

(* The default route is deleted first, but only where one was saved. *)
RouteDeleted == IF routeDat # "absent" THEN "none" ELSE route

(* ip route del default; then the saved line, or a guess through eth0;     *)
(* where ip route add or replace fails there is nothing in its place.      *)
RestoreRoute(p) ==
  /\ Step(p, "restoreRoute", "delLink")
  /\ \/ /\ route' = IF routeDat \in {"orig", "eth0", "other", "tunnel"} THEN routeDat
                    ELSE IF HasEth0 THEN "eth0" ELSE RouteDeleted
        /\ UNCHANGED locals
     \/ route' = RouteDeleted /\ Slips(p, "route")
  /\ UNCHANGED <<conf, iface, fwd, saved>>

DeleteLink(p) ==
  /\ Step(p, "delLink", "rmState")
  /\ \/ iface' = FALSE /\ route' = RouteWithoutLink /\ UNCHANGED locals
     \/ UNCHANGED net /\ Slips(p, "link")
  /\ UNCHANGED <<conf, fwd, saved>>

(* rm -rf "$STATE", whatever became of the steps before. *)
RemoveState(p) ==
  /\ pc[p] = "rmState"
  /\ ScriptEnds(p, AfterStop)
  /\ vmPid' = NoPid
  /\ bakEtc' = "absent" /\ bakMnt' = "absent" /\ routeDat' = "absent"
  /\ UNCHANGED <<conf, net, proc>>

-----------------------------------------------------------------------------
(* wsl --terminate and wsl --shutdown, by Stop or by the user. *)

(* The scripts are gone with their distro.  A client that waits for one    *)
(* sees wsl.exe fail and goes on.                                          *)
Aborted(p) == IF ~InScript(p) THEN pc[p]
              ELSE IF p \in orphan THEN "idle"
              ELSE IF pc[p] \in StartSteps THEN "release"
              ELSE AfterStop

AbortScripts(next) ==
  /\ pc' = next
  /\ orphan' = {}
  /\ running' = [p \in Ops |-> FALSE]
  /\ attempt' = [p \in Ops |-> 0]
  /\ slipped' = [p \in Ops |-> {}]
  /\ UNCHANGED <<lock, user>>

(* When the distro comes up again WSL makes /etc/resolv.conf a link, unless *)
(* a generateResolvConf = false, ours or the user's, forbids it.           *)
Regenerated == IF userEtc = "link" /\ ~block THEN "link" ELSE etc

(* The network namespace and /mnt/wsl are those of the virtual machine,    *)
(* which goes on: the interface, the route and $STATE stay.                *)
DistroStops(next) ==
  /\ AbortScripts(next)
  /\ proc' = [q \in Pids |-> "free"]
  /\ etc' = Regenerated
  /\ UNCHANGED <<mnt, block, net, vmPid, saved>>

(* terminateOnStop *)
TerminateDistro(p) ==
  /\ pc[p] = "terminate"
  /\ DistroStops([q \in Ops |-> IF q = p THEN "release" ELSE Aborted(q)])

Terminate ==
  /\ "terminate" \in Faults
  /\ DistroStops([p \in Ops |-> Aborted(p)])

(* The virtual machine is gone and with it all but the distro's own files. *)
Shutdown ==
  /\ "shutdown" \in Faults
  /\ AbortScripts([p \in Ops |-> Aborted(p)])
  /\ proc' = [q \in Pids |-> "free"] /\ vmPid' = NoPid
  /\ iface' = FALSE /\ route' = userRoute
  /\ mnt' = "wsl" /\ etc' = Regenerated
  /\ bakEtc' = "absent" /\ bakMnt' = "absent" /\ routeDat' = "absent"
  /\ UNCHANGED block

-----------------------------------------------------------------------------
(* What else happens around the operations. *)

Waits(p) == Active(p) /\ p \notin orphan   \* its client is alive

(* The client dies and leaves its lock file; a script goes on. *)
Crash(p) ==
  /\ "crash" \in Faults
  /\ Waits(p)
  /\ lock' = Stale
  /\ IF InScript(p) THEN orphan' = orphan \union {p} /\ UNCHANGED pc
     ELSE pc' = [pc EXCEPT ![p] = "idle"] /\ UNCHANGED orphan
  /\ UNCHANGED <<locals, conf, net, fwd, saved, user>>

(* Mutant of Cancel: an operation that fails does not release the lock.    *)
CancelUnreleased(p) ==
  /\ "cancel" \in Faults
  /\ Waits(p) /\ InScript(p)
  /\ orphan' = orphan \union {p}
  /\ UNCHANGED <<lock, pc, locals, conf, net, fwd, saved, user>>

(* The context is cancelled: wsl.exe is killed and the deferred Release    *)
(* gives the lock back.  The script inside WSL goes on, or ends with       *)
(* wsl.exe wherever it is.                                                 *)
Cancel(p) ==
  /\ "cancel" \in Faults
  /\ Waits(p) /\ InScript(p)
  /\ lock' = NoOp
  /\ \/ orphan' = orphan \union {p} /\ UNCHANGED <<pc, locals>>
     \/ pc' = [pc EXCEPT ![p] = "idle"] /\ Forgets(p) /\ UNCHANGED orphan
  /\ UNCHANGED <<conf, net, fwd, saved, user>>

UserUnlock ==
  /\ "unlock" \in Faults
  /\ lock = Stale /\ lock' = NoOp
  /\ UNCHANGED <<pc, orphan, locals, conf, net, fwd, saved, user>>

ForwarderDies ==
  /\ "die" \in Faults
  /\ \E q \in Pids : proc[q] = "fwd" /\ proc' = [proc EXCEPT ![q] = "free"]
  /\ UNCHANGED <<lock, pc, orphan, locals, conf, net, vmPid, saved, user>>

(* One process at a time takes the id of a forwarder that is gone. *)
PidReused ==
  /\ "reuse" \in Faults
  /\ vmPid # NoPid /\ proc[vmPid] = "free"
  /\ \A q \in Pids : proc[q] # "user"
  /\ proc' = [proc EXCEPT ![vmPid] = "user"]
  /\ UNCHANGED <<lock, pc, orphan, locals, conf, net, vmPid, saved, user>>

ProcExits ==
  /\ \E q \in Pids : proc[q] = "user" /\ proc' = [proc EXCEPT ![q] = "free"]
  /\ UNCHANGED <<lock, pc, orphan, locals, conf, net, vmPid, saved, user>>

(* The user replaces an /etc/resolv.conf that is the user's own. *)
EditEtc ==
  /\ "edit" \in Faults
  /\ etc = userEtc /\ \A p \in Ops : ~Active(p)
  /\ \E new \in {"link", "file"} \ {etc} :
       /\ new = "link" => mnt # "absent"
       /\ etc' = new /\ userEtc' = new
  /\ UNCHANGED <<lock, pc, orphan, locals, mnt, block, net, fwd, saved, userRoute>>

-----------------------------------------------------------------------------
(* The steps an operation takes by itself, once it holds the lock. *)
Advance(p) ==
  \/ Prepare(p) \/ Probe(p) \/ SaveMnt(p) \/ SaveEtc(p) \/ SaveRoute(p)
  \/ WriteConf(p) \/ RemoveEtc(p) \/ WriteEtc(p) \/ CopyMnt(p) \/ AddLink(p)
  \/ Spawn(p) \/ Await(p) \/ Configure(p) \/ Stabilize(p)
  \/ KillForwarder(p) \/ RestoreMnt(p) \/ RestoreEtc(p) \/ RestoreConf(p)
  \/ RestoreRoute(p) \/ DeleteLink(p) \/ RemoveState(p)
  \/ TerminateDistro(p) \/ Release(p)

Operate(p) ==
  \/ StartBegin(p) \/ StopBegin(p) \/ Refused(p)
  \/ Advance(p) \/ ConfigureAgain(p) \/ CommandFails(p)

Environment ==
  \/ \E p \in Ops : Crash(p) \/ Cancel(p)
  \/ UserUnlock \/ ForwarderDies \/ PidReused \/ ProcExits
  \/ Terminate \/ Shutdown \/ EditEtc

Next == (\E p \in Ops : Operate(p)) \/ Environment

Spec == Init /\ [][Next]_vars

(* The scripts wait for nothing but short sleeps, so an operation that     *)
(* holds the lock goes on.  Nothing is assumed of the environment, and     *)
(* nobody is assumed to start an operation.                                *)
FairSpec == Spec /\ \A p \in Ops : WF_vars(Advance(p))

-----------------------------------------------------------------------------
(* Who is active: the operation, or its orphan. *)
Holder == IF \E p \in Ops : Active(p)
          THEN CHOOSE p \in Ops : Active(p) ELSE NoOp

Mutex == INSTANCE OpMutex WITH Procs <- Ops, NoProc <- NoOp, holder <- Holder

ControlOK ==
  /\ lock \in Ops \union {NoOp, Stale}
  /\ pc \in [Ops -> Steps]
  /\ orphan \subseteq Ops
  /\ running \in [Ops -> BOOLEAN]
  /\ attempt \in [Ops -> 0 .. MaxAttempts]
  /\ slipped \in [Ops -> SUBSET Undoings]

SystemOK ==
  /\ etc \in EtcKinds /\ mnt \in Sources /\ block \in BOOLEAN
  /\ route \in RouteKinds /\ iface \in BOOLEAN
  /\ proc \in [Pids -> {"free", "fwd", "user"}]
  /\ vmPid \in Pids \union {NoPid}

SavedOK ==
  /\ bakEtc \in EtcKinds /\ bakMnt \in Sources
  /\ routeDat \in RouteKinds \union {"absent"}
  /\ userEtc \in {"link", "rel", "file"}
  /\ userRoute \in {"none", "orig", "other", "blackhole"}

(* Types; no start script spawns more than MaxAttempts forwarders. *)
TypeOK == ControlOK /\ SystemOK /\ SavedOK

(* A client that is inside an operation holds the lock, and a lock that is *)
(* not stale has a client that will release it: cancelled operations and   *)
(* removed lock files, which let scripts overlap, neither let in a second  *)
(* client nor make the next one lose or leak its lock.                     *)
LockIsItsClients == \A p \in Ops : Waits(p) <=> lock = p

(* The scripts of two operations never run at the same time: none of them  *)
(* is written to share resolv.conf, vm.pid or the route with another.      *)
ScriptsExclusive == \A p, q \in Ops : InScript(p) /\ InScript(q) => p = q

(* From AcquireLock to the end of the script, also where the client died   *)
(* on the way, an operation is alone: the lock is the mutex of OpMutex.    *)
ImplementsMutex == Mutex!Spec

(* The user's /etc/resolv.conf is in place or in the backup, at every      *)
(* moment of every operation: no crash, failing command, dead forwarder or *)
(* terminated distro loses it, and when $STATE is gone it is in place.     *)
EtcRecoverable == etc = userEtc \/ bakEtc = userEtc

(* The same of the default route, where there is one that can be saved.    *)
RouteRecoverable ==
  userRoute \in {"orig", "other"} => userRoute \in {route, routeDat}

(* The last copy of the user's default route is lost in two places only:   *)
(* where Start finds no default route, because the forwarder of an earlier *)
(* Start is gone and its interface was deleted, and writes that to         *)
(* route.dat; and where Stop deletes $STATE after its own ip route add has *)
(* failed unnoticed.  No other fault, no retry and no step loses it.       *)
RouteLostInTwoPlaces ==
  [][RouteRecoverable =>
       \/ RouteRecoverable'
       \/ \E p \in Ops : SaveRoute(p) /\ route = "none"
       \/ \E p \in Ops : RemoveState(p) /\ "route" \in slipped[p]]_vars

(* The tunnel's own DNS and route are never saved as if they were the      *)
(* user's, however often Start runs over the leftovers of another one.     *)
BackupsNeverTunnel == "tunnel" \notin {bakEtc, bakMnt, routeDat}

(* Whatever state the operations before it left, an earlier Stop that      *)
(* failed unnoticed among them, when Stop is about to delete $STATE the    *)
(* tunnel's DNS and forwarders are gone, and so are block, interface and   *)
(* route, with another route in place, but for what this Stop itself has   *)
(* failed to undo.                                                         *)
StopLeavesNoTunnel ==
  \A p \in Ops : HasEth0 /\ pc[p] = "rmState" =>
    /\ "tunnel" \notin {Nameserver(etc), mnt}
    /\ \A q \in Pids : proc[q] # "fwd"
    /\ ~block \/ "block" \in slipped[p]
    /\ ~iface \/ "link" \in slipped[p]
    /\ route \notin {"tunnel", "none"} \/ "route" \in slipped[p]

(* A Start that is refused, because another user-mode network owns the     *)
(* default route (exit 2) or because what it finds is no default route     *)
(* (exit 3), has not touched the DNS that goes with that route; nor has    *)
(* any Stop that leaves the route in place.                                *)
OtherNetworkRespected ==
  route \in {"other", "blackhole"} => ~block /\ Nameserver(etc) # "tunnel"

(* An operation that holds the lock, or its orphaned script, comes to its  *)
(* end: no fault makes it wait or retry for ever.                          *)
OperationCompletes == \A p \in Ops : Active(p) ~> ~Active(p)
=============================================================================
