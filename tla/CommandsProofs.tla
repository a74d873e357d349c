---------------------------- MODULE CommandsProofs ----------------------------
(***************************************************************************)
(* Proofs about Commands, for any number of processes, any files and flags *)
(* the user may give, and any gateways and interfaces.                     *)
(*                                                                         *)
(* What a command has done and what it works with follow from where it is: *)
(* up to the check it has changed nothing, and from the load to its exit   *)
(* it has the config it read, with the flags it was given (PlaceOf).       *)
(***************************************************************************)
EXTENDS Commands, TLAPS

Places == {"idle", "load", "check", "save", "write", "run", "again", "serve",
           "down", "final", "done"}

Types ==
  /\ at \in [Procs -> Places]
  /\ command \in [Procs -> CommandNames \union {"help", "open"}]
  /\ flags \in [Procs -> FlagSets \union {Unset}]
  /\ cfg \in [Procs -> Configs \union {Unset}]
  /\ TypeOK

(* A command that works with a config. *)
UsesConfig(p) ==
  \/ at[p] \in {"check", "again", "serve", "down", "final"}
  \/ at[p] = "run" /\ command[p] \in Tunnelling \union Checks

PlaceOf(p) ==
  /\ at[p] # "done" => code[p] = 9
  /\ at[p] \in {"idle", "load", "check", "save"} => ~touched[p]
  /\ at[p] \in {"idle", "load", "save", "write", "done"} => cfg[p] = Unset
  /\ at[p] = "load" => flags[p] \in FlagSets
  /\ UsesConfig(p) => cfg[p] \in Configs
  /\ code[p] = 2 => ~touched[p]

Control == Types /\ \A p \in Procs : PlaceOf(p)

(* What a command may have read. *)
Contents == Files \union {Example} \union (IF missing THEN {Absent} ELSE {})

(* That there is no file is history as soon as it is so. *)
MissingKnown == file = Absent => missing

ConfigInv == Control /\ MissingKnown /\ ConfigNotInvented

-----------------------------------------------------------------------------
(* Over keeps what is below it where nothing is given on top. *)
LEMMA EffectiveIsConfig ==
  ASSUME NEW content \in Files \union {Absent, Example}, NEW given \in FlagSets
  PROVE  Effective(content, given) \in Configs
<1> DEFINE Whole == [distro : {"Ubuntu", "Debian", Unset},
                     gateway : Gateways \union {"invalid"}, iface : Ifaces]
<1>1. Defaults \in Whole
  BY CommandsAssumption DEF Defaults
<1>2. ASSUME NEW base \in Whole, NEW top \in [distro : {"Ubuntu", "Debian", Unset},
                                     gateway : Gateways \union {"invalid", Unset},
                                     iface : Ifaces \union {Unset}]
      PROVE  Over(base, top) \in Whole
  BY <1>2 DEF Over
<1>3. ASSUME NEW base \in Whole
      PROVE  Over(base, given) \in Whole
  BY <1>3, CommandsAssumption DEF Over
<1>4. content # Absent => Over(Defaults, content) \in Whole
  BY <1>1, <1>2, CommandsAssumption DEF Example, Defaults
<1> QED
  BY <1>1, <1>3, <1>4 DEF Effective, Configs

-----------------------------------------------------------------------------
(* The tunnel keeps its types whatever config a Start or Stop is given.    *)
LEMMA TunnelTypes ==
  ASSUME TypeOK, NEW c \in Configs, Valid(c), StartTunnel(c) \/ StopTunnel(c)
  PROVE  /\ fwd' \in Ifaces \union {"none"} /\ links' \subseteq Ifaces
         /\ route' \in Routes /\ saved' \in Routes
<1>1. c.gateway \in Gateways /\ c.iface \in Ifaces
  BY DEF Valid, Configs
<1>2. TunnelRoute(c) \in Routes /\ GuessedRoute \in Routes /\ NoRoute \in Routes
  BY <1>1 DEF TunnelRoute, Routes
<1>3. \A s : \A r \in Routes : RouteIfLinked(r, s) \in Routes
  BY <1>2 DEF RouteIfLinked
<1>4. CASE StartTunnel(c)
  <2>1. RemainingRoute(c) \in Routes /\ Remaining(c) \subseteq Ifaces
    BY <1>3 DEF RemainingRoute, Remaining, TypeOK
  <2>2. Saves(c) \in Routes
    BY <2>1 DEF Saves, TypeOK
  <2> QED
    BY <1>1, <1>2, <1>4, <2>1, <2>2 DEF StartTunnel, TypeOK
<1>5. CASE StopTunnel(c)
  <2>1. (IF saved = NoRoute THEN GuessedRoute ELSE RouteIfLinked(saved, links)) \in Routes
    BY <1>2, <1>3 DEF TypeOK
  <2> QED
    BY <1>2, <1>3, <1>5, <2>1 DEF StopTunnel, TypeOK
<1> QED
  BY <1>4, <1>5

(* What a process does to its own place, config and exit code, and to      *)
(* nobody else's.                                                          *)
Moved(p) ==
  \E place \in Places \ {"done"} :
    at' = [at EXCEPT ![p] = place] /\ UNCHANGED <<flags, cfg, code>>
Exited(p) == \E n \in {0, 1, 9} : Exit(p, at[p], n)

(* Where a Start or Stop leads to. *)
LEMMA EndsMoves ==
  ASSUME NEW p \in Procs, NEW good \in BOOLEAN, Ends(p, good)
  PROVE  \/ at' = [at EXCEPT ![p] = "again"] /\ UNCHANGED <<flags, cfg, code>>
         \/ at' = [at EXCEPT ![p] = "serve"] /\ UNCHANGED <<flags, cfg, code>>
         \/ Exited(p)
BY DEF Ends, Goto, Exited

(* A Start or Stop has a config that is good enough for it. *)
LEMMA OperationHasConfig ==
  ASSUME Control, NEW p \in Procs, Starts(p) \/ Stops(p)
  PROVE  /\ cfg[p] \in Configs
         /\ at[p] \in {"run", "again", "down", "final"}
BY DEF Control, PlaceOf, UsesConfig, Starts, Stops, Tunnelling

LEMMA OperationControl ==
  ASSUME Control, NEW p \in Procs, Start(p) \/ Stop(p) \/ Fails(p)
  PROVE  Control'
<1> USE DEF Control
<1>1. cfg[p] \in Configs /\ at[p] \in {"run", "again", "down", "final"}
  BY OperationHasConfig DEF Start, Stop, Fails
<1>2. PICK good \in BOOLEAN : Ends(p, good)
  BY DEF Start, Stop, Fails
<1>3. /\ UNCHANGED <<config, command>>
      /\ touched' = [touched EXCEPT ![p] = TRUE] \/ UNCHANGED touched
  BY DEF Start, Stop, Fails, Touch
<1>4. /\ fwd' \in Ifaces \union {"none"} /\ links' \subseteq Ifaces
      /\ route' \in Routes /\ saved' \in Routes
  BY <1>1, TunnelTypes DEF Start, Stop, Fails, Types, TypeOK, tunnel
<1>5. CASE UNCHANGED <<flags, cfg, code>> /\ \E to \in {"again", "serve"} : at' = [at EXCEPT ![p] = to]
  <2>1. Types'
    BY <1>3, <1>4, <1>5 DEF Types, TypeOK, Places, config
  <2>2. \A q \in Procs : PlaceOf(q)'
    BY <1>1, <1>3, <1>5 DEF PlaceOf, UsesConfig, Types, TypeOK
  <2> QED
    BY <2>1, <2>2
<1>6. CASE Exited(p)
  <2>0. /\ at' \in [Procs -> Places] /\ code' \in [Procs -> {0, 1, 2, 9}]
        /\ flags' \in [Procs -> FlagSets \union {Unset}]
        /\ cfg' \in [Procs -> Configs \union {Unset}]
    BY <1>6 DEF Types, TypeOK, Places, Exited, Exit, Goto
  <2>1. Types'
    BY <1>3, <1>4, <2>0 DEF Types, TypeOK, config
  <2>2. \A q \in Procs : PlaceOf(q)'
    BY <1>1, <1>3, <1>6 DEF PlaceOf, UsesConfig, Types, TypeOK, Exited, Exit, Goto
  <2> QED
    BY <2>1, <2>2
<1> QED
  BY <1>2, <1>5, <1>6, EndsMoves

(* A command that exits with 2 was refused before it changed anything.     *)
LEMMA RefusedControl ==
  ASSUME Control, NEW p \in Procs, NEW from \in {"load", "check"}, at[p] = from,
         Exit(p, from, 2), UNCHANGED <<config, command, touched, tunnel>>
  PROVE  Control'
<1> USE DEF Control
<1>1. /\ at' \in [Procs -> Places] /\ code' \in [Procs -> {0, 1, 2, 9}]
      /\ flags' \in [Procs -> FlagSets \union {Unset}]
      /\ cfg' \in [Procs -> Configs \union {Unset}]
  BY DEF Types, TypeOK, Places, Exit, Goto
<1>2. Types'
  BY <1>1 DEF Types, TypeOK, config, tunnel
<1>3. \A q \in Procs : PlaceOf(q)'
  BY DEF PlaceOf, UsesConfig, Types, TypeOK, Exit, Goto
<1> QED
  BY <1>2, <1>3

(* The steps of one process that leave the tunnel alone. *)
LEMMA ProcessControl ==
  ASSUME Control, NEW p \in Procs,
         \/ \E c \in May[p], given \in FlagSets : Invoke(p, c, given)
         \/ OpenConfigFolder(p) \/ Load(p) \/ Check(p) \/ Truncate(p) \/ Forget(p)
         \/ OpenLog(p) \/ Supervise(p)
  PROVE  Control'
<1> USE DEF Control
<1>1. CASE \E c \in May[p], given \in FlagSets : Invoke(p, c, given)
  <2>1. PICK c \in May[p], given \in FlagSets : Invoke(p, c, given)
    BY <1>1
  <2>2. c \in CommandNames
    BY CommandsAssumption
  <2>3. Types'
    BY <2>1, <2>2 DEF Invoke, Goto, Types, TypeOK, Places, config, tunnel
  <2>4. \A q \in Procs : PlaceOf(q)'
    BY <2>1 DEF Invoke, Goto, Types, TypeOK, PlaceOf, UsesConfig
  <2> QED
    BY <2>3, <2>4
<1>2. CASE Load(p)
  <2>1. at[p] = "load" /\ flags[p] \in FlagSets
    BY <1>2 DEF Load, Goto, PlaceOf
  <2>2. Effective(file, flags[p]) \in Configs
    BY <1>2, <2>1, EffectiveIsConfig DEF Load, Types, TypeOK
  <2>3. Branch(p) \in {"check", "save", "run"}
    BY DEF Branch
  <2>4. Types'
    BY <1>2, <2>2, <2>3 DEF Load, Goto, Used, Types, TypeOK, Places, config, tunnel
  <2>5. ASSUME NEW q \in Procs PROVE PlaceOf(q)'
    <3>1. CASE q = p
      BY <1>2, <2>1, <2>2, <3>1
      DEF Load, Goto, Used, Branch, Types, TypeOK, PlaceOf, UsesConfig, Checks, Tunnelling
    <3>2. CASE q # p
      BY <1>2, <3>2 DEF Load, Goto, Types, TypeOK, PlaceOf, UsesConfig
    <3> QED
      BY <3>1, <3>2
  <2> QED
    BY <2>4, <2>5
<1>3. CASE Check(p) /\ Valid(cfg[p])
  <2>1. at[p] = "check" /\ cfg[p] \in Configs
    BY <1>3 DEF Check, PlaceOf, UsesConfig
  <2>2. Types'
    BY <1>3 DEF Check, Goto, Types, TypeOK, Places, config, tunnel
  <2>3. \A q \in Procs : PlaceOf(q)'
    BY <1>3, <2>1 DEF Check, Goto, Types, TypeOK, PlaceOf, UsesConfig
  <2> QED
    BY <2>2, <2>3
<1>4. CASE Check(p) /\ ~Valid(cfg[p])
  <2>1. Exit(p, "check", 2) /\ UNCHANGED <<config, command, touched, tunnel>>
        /\ at[p] = "check"
    BY <1>4 DEF Check
  <2> QED
    BY <2>1, RefusedControl
<1>5. CASE OpenConfigFolder(p) \/ Truncate(p) \/ Forget(p)
  <2>1. Types'
    BY <1>5 DEF OpenConfigFolder, Truncate, Forget, Goto, Touch, Types, TypeOK, Places,
       config, tunnel
  <2>2. \A q \in Procs : PlaceOf(q)'
    BY <1>5 DEF OpenConfigFolder, Truncate, Forget, Goto, Touch, Types, TypeOK, PlaceOf,
       UsesConfig, Tunnelling, Checks, config
  <2> QED
    BY <2>1, <2>2
<1>6. CASE OpenLog(p) \/ Supervise(p)
  <2>1. Types'
    BY <1>6 DEF OpenLog, Supervise, Goto, Touch, Types, TypeOK, Places, config, tunnel
  <2>2. \A q \in Procs : PlaceOf(q)'
    BY <1>6 DEF OpenLog, Supervise, Goto, Touch, Types, TypeOK, PlaceOf, UsesConfig
  <2> QED
    BY <2>1, <2>2
<1> QED
  BY <1>1, <1>2, <1>3, <1>4, <1>5, <1>6

(* Where a command comes to its end with a code that is not 2 it may have  *)
(* changed anything.                                                       *)
LEMMA ExitControl ==
  ASSUME Control, NEW p \in Procs, at[p] # "idle", Exited(p),
         touched' = [touched EXCEPT ![p] = TRUE] \/ UNCHANGED touched,
         file' \in Files \union {Absent, Broken, Example}, UNCHANGED <<command, tunnel>>
  PROVE  Control'
<1> USE DEF Control
<1>1. /\ at' \in [Procs -> Places] /\ code' \in [Procs -> {0, 1, 2, 9}]
      /\ flags' \in [Procs -> FlagSets \union {Unset}]
      /\ cfg' \in [Procs -> Configs \union {Unset}]
  BY DEF Types, TypeOK, Places, Exited, Exit, Goto
<1>2. Types'
  BY <1>1 DEF Types, TypeOK, tunnel
<1>3. \A q \in Procs : PlaceOf(q)'
  BY DEF PlaceOf, UsesConfig, Types, TypeOK, Exited, Exit, Goto
<1> QED
  BY <1>2, <1>3

(* Every step keeps each process where its config and its code say.        *)
LEMMA ControlStep ==
  ASSUME Control, [Next]_vars
  PROVE  Control'
<1> USE DEF Control
<1>1. ASSUME NEW p \in Procs, Write(p) \/ SaveFails(p) \/ Inspect(p) \/ Killed(p)
             \/ (at[p] = "run" /\ (Logs(p) \/ Services(p)))
      PROVE  Control'
  <2>1. Exited(p) /\ at[p] # "idle" /\ UNCHANGED <<command, tunnel>>
    BY <1>1 DEF Write, SaveFails, Inspect, Killed, Logs, Services, Exited, Exit, Goto
  <2>2. /\ touched' = [touched EXCEPT ![p] = TRUE] \/ UNCHANGED touched
        /\ file' \in {file, Example}
    BY <1>1 DEF Write, SaveFails, Inspect, Killed, Logs, Services, Touch, config
  <2> QED
    BY <2>1, <2>2, ExitControl DEF Types, TypeOK
<1>2. ASSUME NEW p \in Procs, LoadFails(p) PROVE Control'
  <2>1. Exit(p, "load", 2) /\ at[p] = "load"
        /\ UNCHANGED <<config, command, touched, tunnel>>
    BY <1>2 DEF LoadFails, Exit, Goto
  <2> QED
    BY <2>1, RefusedControl
<1>3. CASE Edit
  <2>1. Types'
    BY <1>3 DEF Edit, process, tunnel, Types, TypeOK
  <2>2. \A q \in Procs : PlaceOf(q)'
    BY <1>3 DEF Edit, process, PlaceOf, UsesConfig
  <2> QED
    BY <2>1, <2>2
<1>4. CASE ForwarderDies \/ UNCHANGED vars
  <2>1. Types'
    BY <1>4 DEF ForwarderDies, vars, config, process, tunnel, Types, TypeOK
  <2>2. \A q \in Procs : PlaceOf(q)'
    BY <1>4 DEF ForwarderDies, vars, process, PlaceOf, UsesConfig
  <2> QED
    BY <2>1, <2>2
<1> QED
  BY <1>1, <1>2, <1>3, <1>4, ProcessControl, OperationControl DEF Next, Work

LEMMA ControlInit ==
  ASSUME Init
  PROVE  Control
<1>1. UserRoute \in Routes /\ NoRoute \in Routes
  BY DEF Routes
<1>2. Types
  BY <1>1 DEF Init, Types, TypeOK, Places
<1>3. \A p \in Procs : PlaceOf(p)
  BY DEF Init, PlaceOf, UsesConfig
<1> QED
  BY <1>2, <1>3 DEF Control

(* Every variable keeps its type, and a command works with a whole config. *)
THEOREM CommandsTypeCorrect == Spec => []TypeOK
<1>1. Control /\ [Next]_vars => Control'
  BY ControlStep
<1>2. Control => TypeOK
  BY DEF Control, Types
<1> QED
  BY ControlInit, <1>1, <1>2, PTL DEF Spec

(* Exit code 2 says that nothing was changed, for any number of commands   *)
(* and tray processes, whatever they and the user do to the config file.   *)
THEOREM RefusalIsHarmless == Spec => []ExitTwoIsHarmless
<1>1. Control /\ [Next]_vars => Control'
  BY ControlStep
<1>2. Control => ExitTwoIsHarmless
  BY DEF Control, PlaceOf, ExitTwoIsHarmless
<1> QED
  BY ControlInit, <1>1, <1>2, PTL DEF Spec

-----------------------------------------------------------------------------
(* What a process works with changes only where it reads the file and      *)
(* where it exits.                                                         *)
LEMMA ConfigChanges ==
  ASSUME Control, [Next]_vars, NEW q \in Procs
  PROVE  \/ cfg'[q] = Unset
         \/ cfg'[q] = cfg[q] /\ flags'[q] = flags[q]
         \/ Load(q)
<1> USE DEF Control, Types
<1> DEFINE Goal == \/ cfg'[q] = Unset
                   \/ cfg'[q] = cfg[q] /\ flags'[q] = flags[q]
                   \/ Load(q)
<1>1. ASSUME NEW p \in Procs, NEW n, NEW from, Exit(p, from, n) PROVE Goal
  BY <1>1 DEF Exit
<1>2. ASSUME NEW p \in Procs, NEW good \in BOOLEAN, Ends(p, good) PROVE Goal
  BY <1>1, <1>2 DEF Ends
<1>3. ASSUME NEW p \in Procs, NEW c, NEW given, Invoke(p, c, given) PROVE Goal
  BY <1>3 DEF Invoke, Goto, PlaceOf
<1>4. ASSUME NEW p \in Procs, Work(p) \/ OpenConfigFolder(p) \/ Killed(p) PROVE Goal
  <2>1. CASE Load(p)
    BY <2>1 DEF Load
  <2>2. CASE LoadFails(p) \/ Check(p) \/ Write(p) \/ SaveFails(p) \/ Inspect(p)
             \/ Logs(p) \/ Services(p)
             \/ Killed(p)
    BY <1>1, <2>2 DEF LoadFails, Check, Write, SaveFails, Inspect, Logs, Services, Killed
  <2>3. CASE Truncate(p) \/ Forget(p) \/ OpenLog(p) \/ Supervise(p) \/ OpenConfigFolder(p)
    BY <2>3 DEF Truncate, Forget, OpenLog, Supervise, OpenConfigFolder
  <2>4. CASE Start(p) \/ Stop(p) \/ Fails(p)
    BY <1>2, <2>4 DEF Start, Stop, Fails
  <2> QED
    BY <1>4, <2>1, <2>2, <2>3, <2>4 DEF Work
<1>5. CASE Edit \/ ForwarderDies \/ UNCHANGED vars
  BY <1>5 DEF Edit, ForwarderDies, vars, process
<1> QED
  BY <1>3, <1>4, <1>5 DEF Next

(* The file is emptied and then written by init-config and the tray, and   *)
(* removed or written as a whole by the user.                              *)
LEMMA FileChanges ==
  ASSUME [Next]_vars
  PROVE  \/ UNCHANGED config
         \/ file' \in {Broken, Example} /\ UNCHANGED missing
         \/ Edit
<1>1. ASSUME NEW p \in Procs, Work(p) \/ OpenConfigFolder(p) \/ Killed(p)
             \/ \E c \in May[p], given \in FlagSets : Invoke(p, c, given)
      PROVE  UNCHANGED config \/ (file' \in {Broken, Example} /\ UNCHANGED missing)
  BY <1>1 DEF Work, Load, LoadFails, Check, Truncate, Write, SaveFails, Forget,
     Inspect, Logs, Services, OpenLog, Start, Stop, Fails, Supervise,
     OpenConfigFolder, Killed, Invoke
<1> QED
  BY <1>1 DEF Next, ForwarderDies, vars

(* A command works with a file as it was at one moment, or with the        *)
(* defaults when there was none, and with its own flags.                   *)
LEMMA ConfigStep ==
  ASSUME ConfigInv, [Next]_vars
  PROVE  MissingKnown' /\ ConfigNotInvented'
<1> USE DEF ConfigInv, MissingKnown, Contents
<1>1. missing => missing'
  BY FileChanges DEF config, Edit
<1>2. Contents \subseteq Contents'
  BY <1>1
<1>3. MissingKnown'
  BY FileChanges, CommandsAssumption DEF config, Edit
<1>4. ASSUME NEW q \in Procs, cfg'[q] # Unset
      PROVE  \E v \in Contents' : cfg'[q] = Effective(v, flags'[q])
  <2>1. CASE cfg'[q] = cfg[q] /\ flags'[q] = flags[q]
    BY <1>2, <1>4, <2>1 DEF ConfigNotInvented
  <2>2. CASE Load(q)
    <3>1. cfg'[q] = Effective(file, flags[q]) /\ flags'[q] = flags[q]
      BY <1>4, <2>2 DEF Load, Used, Control, Types
    <3>2. file \in Contents
      BY <2>2 DEF Load, Control, Types, TypeOK
    <3> QED
      BY <1>2, <3>1, <3>2
  <2> QED
    BY <1>4, <2>1, <2>2, ConfigChanges
<1> QED
  BY <1>3, <1>4 DEF ConfigNotInvented

(* No command works with settings nobody wrote, for any number of          *)
(* processes that write the file, or die in the middle of it.              *)
THEOREM ConfigIsSomeonesFile == Spec => []ConfigNotInvented
<1>1. Init => MissingKnown /\ ConfigNotInvented
  BY DEF Init, MissingKnown, ConfigNotInvented
<1>2. ConfigInv /\ [Next]_vars => ConfigInv'
  BY ControlStep, ConfigStep DEF ConfigInv
<1>3. ConfigInv => ConfigNotInvented
  BY DEF ConfigInv
<1>4. Init => ConfigInv
  BY <1>1, ControlInit DEF ConfigInv
<1> QED
  BY <1>2, <1>3, <1>4, PTL DEF Spec

-----------------------------------------------------------------------------
(* While the user's default route is in place, what is saved is that route *)
(* or nothing: a Start saves what it replaces, and a Stop forgets what it  *)
(* has put back.                                                           *)
OwnSaved == route = UserRoute => saved \in {UserRoute, NoRoute}

(* The tunnel is nobody's but of Starts, Stops and its forwarder.          *)
LEMMA RouteChanges ==
  ASSUME [Next]_vars
  PROVE  UNCHANGED <<route, saved>> \/ \E p \in Procs : Start(p) \/ Stop(p)
<1>1. ASSUME NEW p \in Procs, Work(p) \/ OpenConfigFolder(p) \/ Killed(p)
             \/ \E c \in May[p], given \in FlagSets : Invoke(p, c, given)
      PROVE  UNCHANGED <<route, saved>> \/ Start(p) \/ Stop(p)
  BY <1>1 DEF Work, Load, LoadFails, Check, Truncate, Write, SaveFails, Forget,
     Inspect, Logs, Services, OpenLog, Fails, Supervise, OpenConfigFolder, Killed, Invoke, tunnel
<1> QED
  BY <1>1 DEF Next, Edit, ForwarderDies, vars, tunnel

LEMMA OwnSavedStep ==
  ASSUME Control, OwnSaved, [Next]_vars
  PROVE  OwnSaved'
<1> USE DEF OwnSaved
<1>1. ASSUME NEW p \in Procs, Start(p) PROVE OwnSaved'
  <2>1. cfg[p] \in Configs /\ cfg[p].gateway \in Gateways
    BY <1>1, OperationHasConfig DEF Start, Valid, Configs
  <2>2. CASE Owned(cfg[p])
    <3>1. saved' = route'
      BY <1>1, <2>2 DEF Start, StartTunnel, Owned, Saves, Keeps
    <3> QED
      BY <3>1
  <2>3. CASE ~Owned(cfg[p])
    <3>1. route'.via \in Gateways
      BY <1>1, <2>1, <2>3 DEF Start, StartTunnel, TunnelRoute
    <3> QED
      BY <3>1, CommandsAssumption DEF UserRoute
  <2> QED
    BY <2>2, <2>3
<1>2. ASSUME NEW p \in Procs, Stop(p) PROVE OwnSaved'
  BY <1>2 DEF Stop, StopTunnel
<1>3. CASE UNCHANGED <<route, saved>>
  BY <1>3
<1> QED
  BY <1>1, <1>2, <1>3, RouteChanges

(* The excuses of RouteLostOnlyByReconfiguring. *)
Reconfigures(p) == \/ Start(p) /\ (fwd = "none" \/ cfg[p].gateway # route.via)
                   \/ Stop(p) /\ saved = NoRoute

LEMMA RouteStaysKnown ==
  ASSUME Control, OwnSaved, [Next]_vars, RouteKnown,
         ~(\E p \in Procs : Reconfigures(p))
  PROVE  RouteKnown'
<1> USE DEF RouteKnown
<1>1. ASSUME NEW p \in Procs, Start(p) PROVE RouteKnown'
  <2>1. Keeps(cfg[p])
    BY <1>1 DEF Reconfigures, Keeps
  <2>2. cfg[p].gateway \in Gateways
    BY <1>1, OperationHasConfig DEF Start, Valid, Configs
  <2>3. route # UserRoute
    BY <2>1, <2>2, CommandsAssumption DEF Keeps, UserRoute
  <2> QED
    BY <1>1, <2>1, <2>3 DEF Start, StartTunnel, Saves
<1>2. ASSUME NEW p \in Procs, Stop(p) PROVE RouteKnown'
  <2>1. saved = UserRoute
    BY <1>2 DEF Reconfigures, OwnSaved
  <2>2. \A present : RouteIfLinked(UserRoute, present) = UserRoute
    BY DEF RouteIfLinked, UserRoute
  <2> QED
    BY <1>2, <2>1, <2>2 DEF Stop, StopTunnel, Reconfigures
<1>3. CASE UNCHANGED <<route, saved>>
  BY <1>3
<1> QED
  BY <1>1, <1>2, <1>3, RouteChanges

(* Commands with any configs lose the user's default route nowhere but     *)
(* where the tunnel in place is not the one they are configured for.       *)
THEOREM RouteLostByReconfiguring == Spec => RouteLostOnlyByReconfiguring
<1>1. Init => OwnSaved
  BY DEF Init, OwnSaved
<1>2. Control /\ OwnSaved /\ [Next]_vars => Control' /\ OwnSaved'
  BY ControlStep, OwnSavedStep
<1>3. Control /\ OwnSaved /\ [Next]_vars
        => (RouteKnown => \/ RouteKnown'
                          \/ \E p \in Procs :
                               \/ Start(p) /\ (fwd = "none" \/ cfg[p].gateway # route.via)
                               \/ Stop(p) /\ saved = NoRoute)
  BY RouteStaysKnown DEF Reconfigures
<1> QED
  BY ControlInit, <1>1, <1>2, <1>3, PTL DEF Spec, RouteLostOnlyByReconfiguring
=============================================================================
