------------------------------ MODULE Commands ------------------------------
(***************************************************************************)
(* internal/cli, internal/config and internal/service: what the commands   *)
(* do with the config file they find, and what they leave to each other.   *)
(*                                                                         *)
(* A command reads the config file once, before it does anything, and      *)
(* works on with what it has read, the daemon for ever.  The file is       *)
(* edited by the user and written by init-config and by the tray, which    *)
(* empty it first.  So a tunnel may be started, watched and stopped by     *)
(* commands that read different files, or were given different flags.      *)
(*                                                                         *)
(* Start and Stop are one step each here, what they do to the default      *)
(* route is kept with the gateway and the interface as parameters; Tunnel  *)
(* has their steps, for one config.                                        *)
(***************************************************************************)
EXTENDS Naturals

CONSTANTS
  Procs,        (* processes of the command line, and the tray             *)
  May,          (* the commands each of them may run                       *)
  Files,        (* what the user may write into config.json                *)
  FlagSets,     (* the flags the user may give                             *)
  Ifaces, Gateways,
  Unset,        (* a field the file, or a flag the command line, leaves out *)
  Absent,       (* there is no config file                                 *)
  Broken        (* the config file does not parse: an empty one does not   *)

(* Config, as far as the commands differ in it; Defaults and SaveExample.  *)
Defaults == [distro |-> Unset, gateway |-> "127.1", iface |-> "wsl-tunneling"]
Example  == [Defaults EXCEPT !.distro = "Ubuntu"]

CommandNames == {"start", "stop", "restart", "status", "doctor", "daemon", "logs",
                 "install-service", "uninstall-service", "init-config"}

ASSUME CommandsAssumption ==
  /\ Files \subseteq [distro : {"Ubuntu", "Debian", Unset},
                      gateway : Gateways \union {"invalid", Unset},
                      iface : Ifaces \union {Unset}]
  /\ FlagSets \subseteq [distro : {"Debian", Unset}, iface : Ifaces \union {Unset}]
  /\ Defaults.gateway \in Gateways /\ Defaults.iface \in Ifaces
  /\ {"eth0", "none"} \cap Ifaces = {}
  /\ {"user", "guess", "none"} \cap Gateways = {}
  /\ Unset \notin Ifaces \union Gateways
  /\ {Absent, Broken} \cap (Files \union {Example}) = {} /\ Absent # Broken
  /\ May \in [Procs -> SUBSET CommandNames]

VARIABLES
  file,       (* config.json                                               *)
  missing,    (* there has been a time when it was not there               *)
  at,         (* the step each process is about to take, or "idle"         *)
  command, flags,
  cfg,        (* the config a command works with, Unset when it has none   *)
  code,       (* the exit code of a process that is "done", otherwise 9    *)
  touched,    (* the command has changed something                         *)
  fwd,        (* the interface of the running forwarder, or "none"         *)
  links,      (* the tunnel interfaces that exist                          *)
  route, saved   (* the default route, and the one in route.dat            *)

config  == <<file, missing>>
process == <<at, command, flags, cfg, code, touched>>
tunnel  == <<fwd, links, route, saved>>
vars    == <<config, process, tunnel>>

-----------------------------------------------------------------------------
(* Load and parseConfig. *)

(* Mutant of Over: a value that was not given overrides as well. *)
OverAlways(base, top) == [f \in DOMAIN base |-> IF f \in DOMAIN top THEN top[f] ELSE base[f]]

Over(base, top) ==
  [f \in DOMAIN base |-> IF f \in DOMAIN top /\ top[f] # Unset THEN top[f] ELSE base[f]]

Effective(content, given) ==
  Over(IF content = Absent THEN Defaults ELSE Over(Defaults, content), given)

(* Validate *)
Valid(c) == c.distro # Unset /\ c.gateway # "invalid"

-----------------------------------------------------------------------------
(* startScript and stopScript *)

UserRoute    == [via |-> "user", dev |-> "eth0"]
GuessedRoute == [via |-> "guess", dev |-> "eth0"]    \* eth0_gateway
NoRoute      == [via |-> "none", dev |-> "none"]
TunnelRoute(c) == [via |-> c.gateway, dev |-> c.iface]

RouteIfLinked(r, present) == IF r.dev \in present \union {"eth0"} THEN r ELSE NoRoute

(* Mutant of Keeps: route.dat is always written. *)
KeepsNothing(c) == FALSE

(* Without a running forwarder Start deletes the interface it is about to  *)
(* use; with one, a route through its own gateway is not saved.            *)
Remaining(c)     == IF fwd = "none" THEN links \ {c.iface} ELSE links
RemainingRoute(c) == RouteIfLinked(route, Remaining(c))
Keeps(c)         == fwd # "none" /\ route.via = c.gateway
Saves(c)         == IF Keeps(c) THEN saved ELSE RemainingRoute(c)
Owned(c)         == fwd = "none" /\ Saves(c).via = c.gateway      \* exit 2

StartTunnel(c) ==
  /\ saved' = Saves(c)
  /\ IF Owned(c)
     THEN links' = Remaining(c) /\ route' = RemainingRoute(c) /\ fwd' = fwd
     ELSE /\ links' = Remaining(c) \union {c.iface}
          /\ route' = TunnelRoute(c)
          /\ fwd' = IF fwd = "none" THEN c.iface ELSE fwd

StopTunnel(c) ==
  LET back == IF saved = NoRoute THEN GuessedRoute ELSE RouteIfLinked(saved, links)
  IN /\ fwd' = "none"
     /\ links' = links \ {c.iface}
     /\ route' = RouteIfLinked(back, links \ {c.iface})
     /\ saved' = NoRoute

-----------------------------------------------------------------------------
Init ==
  /\ file \in Files \union {Absent} /\ missing = (file = Absent)
  /\ at = [p \in Procs |-> "idle"]
  /\ command = [p \in Procs |-> "help"]
  /\ flags = [p \in Procs |-> Unset] /\ cfg = [p \in Procs |-> Unset]
  /\ code = [p \in Procs |-> 9] /\ touched = [p \in Procs |-> FALSE]
  /\ fwd = "none" /\ links = {} /\ route = UserRoute /\ saved = NoRoute

Goto(p, from, to) == at[p] = from /\ at' = [at EXCEPT ![p] = to]

Exit(p, from, n) ==
  /\ Goto(p, from, "done")
  /\ code' = [code EXCEPT ![p] = n]
  /\ flags' = [flags EXCEPT ![p] = Unset] /\ cfg' = [cfg EXCEPT ![p] = Unset]

Touch(p) == touched' = [touched EXCEPT ![p] = TRUE]

Forget(p) ==
  /\ Goto(p, "done", "idle")
  /\ command' = [command EXCEPT ![p] = "help"]
  /\ code' = [code EXCEPT ![p] = 9] /\ touched' = [touched EXCEPT ![p] = FALSE]
  /\ UNCHANGED <<config, flags, cfg, tunnel>>

-----------------------------------------------------------------------------
(* Run *)
Invoke(p, c, given) ==
  /\ Goto(p, "idle", "load")
  /\ command' = [command EXCEPT ![p] = c]
  /\ flags' = [flags EXCEPT ![p] = given]
  /\ UNCHANGED <<config, cfg, code, touched, tunnel>>

(* status, doctor and the daemon validate first; Start and Stop do it      *)
(* themselves; logs, the services and init-config never do.                *)
Tunnelling == {"start", "stop", "restart", "daemon"}
Checks     == {"status", "doctor", "daemon"}

Branch(p) == IF command[p] \in Checks THEN "check"
             ELSE IF command[p] = "init-config" THEN "save" ELSE "run"

(* The services, logs and init-config use none of what was loaded.         *)
Used(p, content) == IF command[p] \in Tunnelling \union Checks
                    THEN Effective(content, flags[p]) ELSE Unset

(* Mutant of Load: a file that does not parse counts as none. *)
LoadAnyway(p) ==
  /\ Goto(p, "load", Branch(p))
  /\ cfg' = [cfg EXCEPT ![p] = Used(p, IF file = Broken THEN Absent ELSE file)]
  /\ UNCHANGED <<config, command, flags, code, touched, tunnel>>

Load(p) ==
  /\ file # Broken
  /\ Goto(p, "load", Branch(p))
  /\ cfg' = [cfg EXCEPT ![p] = Used(p, file)]
  /\ UNCHANGED <<config, command, flags, code, touched, tunnel>>

(* init-config too, so it does not repair the file. *)
LoadFails(p) ==
  /\ file = Broken /\ Exit(p, "load", 2)
  /\ UNCHANGED <<config, command, touched, tunnel>>

Check(p) ==
  /\ at[p] = "check"
  /\ IF Valid(cfg[p]) THEN Goto(p, "check", "run") /\ UNCHANGED <<flags, cfg, code>>
     ELSE Exit(p, "check", 2)
  /\ UNCHANGED <<config, command, touched, tunnel>>

(* Save empties the file before it writes it. *)
Truncate(p) ==
  /\ Goto(p, "save", "write")
  /\ file' = Broken
  /\ Touch(p)
  /\ UNCHANGED <<missing, command, flags, cfg, code, tunnel>>

Write(p) ==
  /\ Exit(p, "write", 0)
  /\ file' = Example
  /\ UNCHANGED <<missing, command, touched, tunnel>>

(* The file cannot be made or emptied; or it cannot be written, and stays  *)
(* without its contents.                                                   *)
SaveFails(p) ==
  /\ \E step \in {"save", "write"} : Exit(p, step, 1)
  /\ UNCHANGED <<config, command, touched, tunnel>>

(* The tray's "Open config folder": Stat, then SaveExample. *)
OpenConfigFolder(p) ==
  /\ at[p] = "idle" /\ file = Absent
  /\ at' = [at EXCEPT ![p] = "save"]
  /\ command' = [command EXCEPT ![p] = "open"]
  /\ UNCHANGED <<config, flags, cfg, code, touched, tunnel>>

-----------------------------------------------------------------------------
(* Commands that do not touch the tunnel; status and doctor may fail.      *)
(* doctor downloads what is missing, see Assets.                           *)
Inspect(p) ==
  /\ \/ command[p] = "status" /\ UNCHANGED touched
     \/ command[p] = "doctor" /\ Touch(p)
  /\ \E n \in {0, 1} : Exit(p, "run", n)
  /\ UNCHANGED <<config, command, tunnel>>

(* logs fails without a log file; reg.exe may fail.  An uninstall that     *)
(* finds nothing installed deletes nothing.                                *)
Logs(p) ==
  /\ command[p] = "logs" /\ \E n \in {0, 1} : Exit(p, "run", n)
  /\ UNCHANGED <<config, command, touched, tunnel>>

Services(p) ==
  /\ command[p] \in {"install-service", "uninstall-service"}
  /\ \/ Exit(p, "run", 0) /\ Touch(p)
     \/ \E n \in {0, 1} : Exit(p, "run", n) /\ UNCHANGED touched
  /\ UNCHANGED <<config, command, tunnel>>

-----------------------------------------------------------------------------
(* Start and Stop.  restart and the daemon go on to Start after a Stop     *)
(* that failed; the daemon's loop is that of Daemon.                       *)
Starts(p) == at[p] = "again" \/ (at[p] = "run" /\ command[p] \in {"start", "daemon"})
Stops(p)  == at[p] \in {"final", "down"} \/ (at[p] = "run" /\ command[p] \in {"stop", "restart"})

(* A Start or Stop of p is over. *)
Ends(p, good) ==
  LET last == at[p] = "final" \/ command[p] \in {"start", "stop"}
              \/ (command[p] = "restart" /\ at[p] = "again")
              \/ (command[p] = "daemon" /\ at[p] = "run" /\ ~good)
      next == IF Stops(p) THEN "again" ELSE "serve"
  IN IF last THEN Exit(p, at[p], IF good THEN 0 ELSE 1)
     ELSE Goto(p, at[p], next) /\ UNCHANGED <<flags, cfg, code>>

(* Mutant of OpenLog: before Validate. *)
OpenLogFirst(p) ==
  /\ at[p] \in {"check", "run"} /\ command[p] = "daemon"
  /\ ~touched[p] /\ Touch(p)
  /\ UNCHANGED <<config, at, command, flags, cfg, code, tunnel>>

(* The daemon makes its directories and opens its log file first. *)
OpenLog(p) ==
  /\ at[p] = "run" /\ command[p] = "daemon"
  /\ ~touched[p] /\ Touch(p)
  /\ UNCHANGED <<config, at, command, flags, cfg, code, tunnel>>

Start(p) ==
  /\ Starts(p) /\ Valid(cfg[p]) /\ (command[p] = "daemon" => touched[p])
  /\ StartTunnel(cfg[p])
  /\ Ends(p, ~Owned(cfg[p])) /\ Touch(p)
  /\ UNCHANGED <<config, command>>

Stop(p) ==
  /\ Stops(p) /\ Valid(cfg[p])
  /\ StopTunnel(cfg[p])
  /\ Ends(p, TRUE) /\ Touch(p)
  /\ UNCHANGED <<config, command>>

(* An invalid config, a lock that is held, a distro that is not there:     *)
(* nothing is changed.                                                     *)
Fails(p) ==
  /\ Starts(p) \/ Stops(p)
  /\ Ends(p, FALSE)
  /\ UNCHANGED <<config, command, touched, tunnel>>

Supervise(p) ==
  /\ \/ fwd = "none" /\ Goto(p, "serve", "down")
     \/ Goto(p, "serve", "final")
  /\ UNCHANGED <<config, command, flags, cfg, code, touched, tunnel>>

-----------------------------------------------------------------------------
(* The user's editor writes the whole file, or removes it; a process is    *)
(* killed; the forwarder dies.                                             *)
Edit ==
  /\ \E new \in Files \union {Absent} : file' = new /\ missing' = (missing \/ new = Absent)
  /\ UNCHANGED <<process, tunnel>>

Killed(p) ==
  /\ at[p] \notin {"idle", "done"}
  /\ Exit(p, at[p], 9)
  /\ UNCHANGED <<config, command, touched, tunnel>>

ForwarderDies ==
  /\ fwd # "none" /\ fwd' = "none"
  /\ UNCHANGED <<config, process, links, route, saved>>

Work(p) ==
  \/ Load(p) \/ LoadFails(p) \/ Check(p) \/ Truncate(p) \/ Write(p) \/ SaveFails(p)
  \/ Forget(p) \/ Inspect(p) \/ (at[p] = "run" /\ Logs(p)) \/ (at[p] = "run" /\ Services(p))
  \/ OpenLog(p) \/ Start(p) \/ Stop(p) \/ Fails(p) \/ Supervise(p)

Next ==
  \/ \E p \in Procs :
       \/ \E c \in May[p], given \in FlagSets : Invoke(p, c, given)
       \/ OpenConfigFolder(p) \/ Work(p) \/ Killed(p)
  \/ Edit \/ ForwarderDies

Spec == Init /\ [][Next]_vars

-----------------------------------------------------------------------------
Configs == [distro : {"Ubuntu", "Debian", Unset},
            gateway : Gateways \union {"invalid"}, iface : Ifaces]
Routes  == {UserRoute, GuessedRoute, NoRoute} \union [via : Gateways, dev : Ifaces]

TypeOK ==
  /\ file \in Files \union {Absent, Broken, Example}
  /\ \A p \in Procs : cfg[p] # Unset => cfg[p] \in Configs
  /\ code \in [Procs -> {0, 1, 2, 9}] /\ touched \in [Procs -> BOOLEAN]
  /\ fwd \in Ifaces \union {"none"} /\ links \subseteq Ifaces
  /\ route \in Routes /\ saved \in Routes

(* Exit code 2 says that the command was not understood or its config is   *)
(* no good: such a command has changed nothing, whichever it was, and      *)
(* whatever others did to the config file in the meantime.                 *)
ExitTwoIsHarmless == \A p \in Procs : code[p] = 2 => ~touched[p]

(* No command works with settings nobody wrote: what it uses is a whole    *)
(* file and its flags, and the defaults only where there was no file; also *)
(* when it reads the file while another process writes it, or after that   *)
(* process died, or failed, in the middle.                                 *)
ConfigNotInvented ==
  \A p \in Procs :
    cfg[p] # Unset => \E v \in Files \union {Example} \union (IF missing THEN {Absent} ELSE {}) :
                        cfg[p] = Effective(v, flags[p])

(* The user's default route survives Starts and Stops by commands whose    *)
(* configs differ: only a Start that finds no forwarder, or whose gateway  *)
(* is not that of the tunnel in place (gatewayIp was edited while it was   *)
(* up), and only a Stop that finds nothing saved can lose it.              *)
RouteKnown == UserRoute \in {route, saved}
RouteLostOnlyByReconfiguring ==
  [][RouteKnown => \/ RouteKnown'
                   \/ \E p \in Procs :
                        \/ Start(p) /\ (fwd = "none" \/ cfg[p].gateway # route.via)
                        \/ Stop(p) /\ saved = NoRoute]_vars
=============================================================================
