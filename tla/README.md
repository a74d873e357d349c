# A TLA+ model of wsl-tunneling

wsl-tunneling routes the traffic of WSL through a user-mode network (gvproxy on
Windows, gvforwarder inside WSL). It is a sequential program that drives shell
scripts, so what is hard in it is not an algorithm but what may happen between
two of its steps: a client that dies, a script that goes on without it, a
command that fails half-way, a forwarder that exits, a distro that is
terminated, a second Start over what the first one left. The question behind
most of the properties is one sentence of the program's README: it *saves the
previous WSL route, DNS, and WSL network config so Stop can restore them*.

All paths below are relative to the repository; `manager.go` is
`internal/network/manager.go`, and so on.

## 1. The system

| component | state it keeps | operations | talks to |
|---|---|---|---|
| operation lock, `state/lock.go` | the file `<StateDir>/wsl-tunneling.lock` | `AcquireLock`, `Release` | the file system |
| tunnel operations, `network/manager.go` | in WSL: `/etc/resolv.conf`, `/mnt/wsl/resolv.conf`, `/etc/wsl.conf`, default route, interface, forwarder processes; in `$STATE`: `vm.pid`, `resolv.etc.orig`, `resolv.mnt.orig`, `route.dat` | `Start`, `Stop`, `Status` | lock, assets, wsl client |
| gvisor assets, `gvisor/assets.go` | two cached binaries and their temporary files | `Ensure`, `download` | GitHub |
| tray, `tray/tray_windows.go` | busy and refreshing flags, what is shown, a cache file; a UI thread, a goroutine per operation and per refresh | menu clicks, refresh, ticker, quit, launch | tunnel operations, autostart, config |
| daemon, `daemon/daemon.go` | none (a loop) | `Run`: Start, then Status / Stop / Start on a ticker, Stop when cancelled | tunnel operations |
| command line, `cli/cli.go` | none | start, stop, restart, status, doctor, config, ... | everything |
| wsl client, `wsl/client.go` | none | runs a script through `wsl.exe`, bounded by a context; decodes output, converts paths | `wsl.exe` |
| autostart, `service/service.go` | a registry value | install, uninstall, query | registry |
| config, `config/config.go` | the config file | load, merge with defaults, validate, save | file system |
| DNS suffixes, `dns/` | none | reads suffixes from Windows, normalises them | PowerShell |
| process, main programs, build script | none | hides console windows; arguments; packaging | - |

How they interact. Three kinds of client process (tray, command line, daemon)
call `Manager.Start` and `Manager.Stop`. Both take the lock file or fail at
once; both run one or two bash scripts inside WSL through `wsl.exe` and wait for
them. The scripts change state that every distro of the WSL virtual machine
shares, and what they save and later restore is in `$STATE`. Status takes no
lock; nor does `doctor`, which downloads the same binaries as Start does.

What makes each part correct, and what is hard about it:

* **lock**: at most one client is inside an operation. Hard: Release is two
  system calls, a client may die, and the error message tells users to remove
  the file.
* **tunnel operations**: what was there before the first Start can be restored
  after any sequence of Starts, Stops and accidents; the tunnel's own values are
  never saved as the user's; a Stop leaves nothing behind; a Start that refuses
  (exit 2, exit 3) has harmed nothing; every operation ends. Hard: `set -e` with
  `|| true` here and there, scripts that survive their client, forwarder and
  client dying at any step, four places with different lifetimes (process,
  virtual machine, tmpfs, disk).
* **assets**: a file under its final name is whole, as nothing looks at it again.
  Hard: failures and deaths in a download, and two downloads of the same file.
* **tray**: one operation at a time; nothing is offered during it; what is shown
  comes to agree with the world. Hard: stale menus, refreshes that began before
  an operation and publish in the middle of it, refreshes that are skipped.
* **daemon**: the tunnel is up again after a failure, and down at the end. Hard:
  its Stop and Start may be refused by the lock or cut off by an interrupt, what
  Status saw may be over when Stop runs, and only the first Start's result counts.
* **commands and config**: a command works with one whole config that somebody
  wrote; commands with different configs do not lose the user's route; an exit
  code 2 means that nothing has been done. Hard: the file is edited, emptied and
  rewritten while it is read, and a tunnel outlives the config it was made with.
* **pure parts** (output decoding, path conversion, gateway arithmetic, choice of
  the release asset, suffix normalisation, the block in wsl.conf): right on all
  inputs.

`PROJECT.json` lists the hazards with the line at which each bites.

## 2. Modules

    OpMutex          what the operation lock promises: one holder
      ^      ^
      |      +---- StateLock      lock.go, call by call     StateLockProofs
      |
    Tunnel           Start and Stop, step by step           TunnelProofs
      ^                                                     TunnelRestoreProofs
      |
    Daemon           the supervisor on top of Tunnel        DaemonProofs
    Tray             the tray; the tunnel is one of three phases   TrayProofs
    Assets           Ensure and download                    AssetsProofs
    Commands         cli, config, service: who works with which config
                                                            CommandsProofs
    Conversions      the algorithms that keep no state      ConversionsProofs

Each `...MC` module extends its component with what TLC needs beside the cfg: a
symmetry set, or the values of CommandsMC's constants. OpMutex is
the interface between the lock and its users: StateLock is shown to implement
it, Tunnel takes the lock as one step, and the time from there to the end of the
script is shown to be a tenure of the same mutex. Daemon is built from Tunnel's
actions: the supervisor's calls are operations of Tunnel, so that it refines Tunnel by
construction, and its properties are about what the supervisor adds. Conversions has
no MC module, as its constants are numbers.

The proofs about Tunnel are in two modules: TunnelProofs has the types and who runs when
(lock, `pc`, `orphan`), TunnelRestoreProofs what that means for the files and the route.

### StateLock

`file` is the process that created the lock file, `stage` where each process is
in `AcquireLock .. Release`. `CreateExclusive` and `WritePid` are the two system
calls of AcquireLock, `CloseFile` and `RemovePath` those of Release. `Crash`
closes the handle and leaves the file; `UserRemoves` is the user who follows the
message of lock.go:25. `HandlePins` states the external fact the lock rests on:
on Windows, Go's `os.OpenFile` does not share deletion, so an open file cannot
be removed. With `HandlePins = FALSE` (POSIX) mutual exclusion is false.

### Tunnel

An operation of `Ops` is one call of Start or Stop by some client, and may be
called again after it has ended. `pc` names the step it is about to take; a step
is one statement of a script, or a few of which none can be observed between.
`orphan` holds operations whose script runs without its client. The files are
abstracted to where their nameserver comes from (`"wsl"`, `"user"`, `"eth0"`,
`"tunnel"`) and, for `/etc/resolv.conf`, to what kind of file it is: a link to
the file in `/mnt/wsl`, a relative link, the user's own file or the tunnel's.
The default route is the one before the tunnel, a guess through eth0, another
user-mode network (`"other"`, which has the tunnel's gateway address), a line
that does not begin with `default` (`"blackhole"`), or the tunnel's.

| steps | code |
|---|---|
| `Prepare` | manager.go:45-72, all that may fail before the script |
| `Probe` .. `SaveRoute` | startScript up to the last refusal: the forwarder test, the three backups, exits 2 and 3 |
| `WriteConf` .. `CopyMnt` | wsl.conf block and the two resolv.conf files |
| `AddLink`, `Spawn`, `Await`, `Configure` | interface, forwarder (three attempts, exit 42), route |
| `Stabilize`, `ConfigureAgain` | the stabilize script, its repetitions and those of the start script |
| `KillForwarder` .. `RemoveState`, `TerminateDistro` | stopScript and `terminateOnStop` |
| `CommandFails` | a command that `set -e` does not let fail |
| `Slips` in `RestoreConf`, `RestoreRoute`, `DeleteLink` | `awk && cp`, `ip route add ... \|\| true`, `ip link del ... \|\| true` of the stop script fail unnoticed (manager.go:321-325, 345, 352); `slipped` remembers which |
| `Release` | the deferred Release |

Around them the constant `Faults` switches on what may happen: see the comment
at `AllFaults`. The environment is modelled from how the code depends on it, and
each part is marked external in the map:

* deleting the interface removes the routes through it (Linux);
* a script inside WSL may outlive a `wsl.exe` that is killed, or end with it at
  whatever step it is at, and ends with its distro; `wsl --terminate` kills the
  distro's processes and keeps the virtual machine, with the interface, the route and
  `/mnt/wsl`; `wsl --shutdown` loses those and keeps the distro's disk;
* a starting distro makes `/etc/resolv.conf` a link, unless a
  `generateResolvConf = false`, the tunnel's or the user's, forbids it;
* there is one default route at a time.

### Tray

`work` is the stage of each operation goroutine, `fresh` the stage of the refresh
goroutine, `menu` the copy of the enabled items the open menu shows, `ui` a click
that has won the compare-and-swap on `busy` and has not started its goroutine.
`shown` is what the app holds under `a.mu`; `seen` is what the refresh has read
and not yet published. A refresh is up to seven separate steps with an operation
possible between any two; the last two are those of `os.WriteFile`, and a Quit
between them leaves a broken cache file, which is taken for none
(tray_windows.go:442). Of the tunnel three phases are kept: nothing of it is there,
it is up, or its forwarder is gone and its DNS or route is left.

### Assets

`dest` and `tmp` are the pieces each file holds, `stage`, `file` and `pos` where
each client is. Starters call Ensure inside the operation lock, doctors without.
Opening a temporary file truncates it for everybody who writes to it.

### Daemon

`stage` says which call `daemon.Run` is about to make or is waiting in (`"start"`,
`"stop"`, `"restart"`, `"final"`), or `"wait"` for the select; `mine` is the
operation of Tunnel its call runs as, `ok` whether that has done all of its work,
`asked` whether the process was interrupted.

| actions | code |
|---|---|
| `Call`, `CallFails`, `Work`, `WorkAgain`, `WorkFails`, `After` | one call of Start or Stop from the lock to its return, and what Run does next (daemon.go:15, 31, 36, 37) |
| `Check`, `CheckFails` | the ticker and Status (daemon.go:32-34) |
| `Interrupt`, `CutWork`, `CutOff` | the signal context of cli.go:205: wsl.exe is killed, or not run at all; the final Stop has a context of its own |
| `Finish` | the select takes the done context (daemon.go:29) |
| `Killed` | the daemon dies, with or without an operation under way |
| `OthersCall`, `OthersWork`, `OthersFail`, `World` | other clients, scripts without a client, accidents |

Every accident and every call of another client counts against `MaxAccidents`; the
daemon's own steps and an interrupt do not. Others do not stop a tunnel that was
never started (`routeDat` absent): that is the blind Stop of section 5. `torn`
records that an operation has begun while a script still ran whose lock was given
away, by the interrupt or by a user who removed the lock file of a dead client: from
then on two scripts may overlap. A script that was cut off and has ended by the time
the next operation begins, with `wsl.exe` or some steps later, does not count.

### Commands

`at` is where each process is between its command line and its exit code, `cfg` the
config it has read, `file` the config file. `Load` reads the file once; `Truncate`
and `Write` are the two effects of `os.WriteFile`, and `SaveFails` is Save's error,
before either or between them. Of the config the distro, the
gateway and the interface are kept: what two commands on one tunnel can differ in.
`StartTunnel` and `StopTunnel` are what the scripts do to the default route, the
interfaces and `route.dat`, in one step, with gateway and interface as parameters.
The daemon is a process that loads once and then starts and stops for ever.

### Conversions

Each action is one call of one algorithm with any of its bounded inputs, and `done`
the call with its result; the properties compare results with reference
definitions. Texts are sequences of whatever the algorithm tells apart: bytes
(wsl.exe's output), characters (paths), words (names of assets and executables),
lines (wsl.conf), whole suffixes. A loop over a text is a function from the number of
its turns to what it has made by then (`Kept`, `Awk`, `Split`, `Named`), so that
proofs can speak of the turns in between. Addresses have four digits of `W` bits and
arithmetic of twice their width, as the shell's 64 bits to an address's 32; `And` adds
up the bits two numbers share, and a shift is a product or a quotient with a power of 2.

## 3. What is checked

| run | what it asks | expected |
|---|---|---|
| StateLock | does the two-step lock exclude, and implement OpMutex, with crashes and hand removal? 4 processes | holds |
| TunnelFaults | crashes, failing commands, some of them unnoticed, dead forwarders, reused pids, terminated distros: is the user's resolv.conf still recoverable, where only can the route be lost, are the backups the user's, does Stop undo everything, is a refused Start harmless, are scripts alone, does every operation end? | holds |
| TunnelChaos | scripts overlap, because clients are cut off and lock files removed by hand; every Stop terminates its distro, WSL is shut down: does the lock still belong to the client that waits? | holds |
| Daemon | interrupts, a killed daemon, other clients, hand-removed locks: is the tunnel up again, does an interrupt end the daemon, what does its final Stop leave, is resolv.conf recoverable? | holds |
| TraySafe | stale menus, refreshes across operations, quit and relaunch: one operation, nothing offered meanwhile? | holds |
| TrayLive | does the display become what is there? | holds |
| AssetsStart | do failing and killed downloads leave only whole files under their final names? | holds |
| Commands | edited, emptied and half-written config files, commands with different configs: whose settings are used, is exit code 2 harmless, where can the route be lost? | holds |
| Conversions | do the stateless algorithms agree with their references on all bounded inputs? | holds |
| TunnelRouteLost | the forwarder dies and Start is run again: is the old route recoverable? | **violated** |
| DaemonBlindStop | another client stops the daemon's tunnel: is the user's resolv.conf left alone? | **violated** |
| AssetsDoctor | Start and doctor download at the same time | **violated** |

**Properties of Tunnel.** `EtcRecoverable` and `RouteRecoverable` relate the file
or route in place to its backup at every moment of every operation, so they say
that the order "save, then replace" and "restore, then delete the backup" holds
across failures, and that nothing overwrites a good backup. `BackupsNeverTunnel`
is the opposite danger: a Start over leftovers takes the tunnel's values for the
user's. `StopLeavesNoTunnel` is stated where Stop is about to delete `$STATE`,
whatever the operations before it left: the tunnel's DNS and its forwarders are gone,
and block, interface and route too, but for what this very Stop has failed to undo
without noticing (`slipped`); what an earlier Stop left is undone. Its theorem holds also
with blind Stops, edits, failing copies and shutdowns, which TunnelFaults leaves out
because `EtcRecoverable` and the route are false with them (section 5); failing copies
(`"copyfail"`) are in no run.
`OtherNetworkRespected`: exit 2 and exit 3 come before anything of the system is
changed, so while another network's route, or a line that is no default route, is in
place the DNS is not the tunnel's. `ImplementsMutex` and `ScriptsExclusive`: while a
script runs no other does, even when its client is dead. `RouteLostInTwoPlaces` is what
is true of the old route although `RouteRecoverable` is not: its last copy is lost only
by the statement that writes `route.dat` when there is no route, and by the deletion of
`$STATE` after an `ip route add` that failed. `OperationCompletes`: no fault makes an
operation, or its orphaned script, wait for ever.

**Properties of Daemon.** `TunnelRecovers`: a tunnel that is down comes up again, after
restarts that failed or were refused, and after the daemon has stopped a tunnel that
another client started between its Status and its Stop, unless the daemon is interrupted,
dies, or a dead client's lock keeps it out. `InterruptEnds`: wherever the interrupt
strikes, the daemon exits. `FinalStopRestores`: a final Stop that succeeds leaves nothing
of the tunnel, whatever the call or script the interrupt cut off had done by then, as
long as that script does not still run when the final Stop begins (then it may install
again what Stop has undone; see section 5). `DaemonKeepsEtc`: neither a first Start that
fails or is cut off nor any restart loses the user's resolv.conf, under the same
condition. Both are false of a supervisor whose operations undo too little or save too
often; the blind Stop of a plain resolv.conf is caught by `DaemonKeepsEtc` in
DaemonBlindStop, as Daemon has WSL's link, which a blind Stop makes again.

**Properties of Tray.** `OneOperation`, `NothingOfferedMeanwhile`: stale menus and
refreshes in flight against the compare-and-swap on `busy`. `DisplayConverges`: what is
shown becomes what is there. It says nothing of how long a stale cache, or a status read
before an operation, is shown until then.

**Properties of Commands.** `ConfigNotInvented`, `ExitTwoIsHarmless` and
`RouteLostOnlyByReconfiguring`: a Start whose gateway is not the one in place takes
the tunnel's own route for the user's, and nothing else but a Start over a dead
forwarder or a Stop with nothing saved loses it.

**Bounds.** Two operations that are called again and again give every sequence
of Starts and Stops, each with a second one refused, orphaned or running over the
leftovers of the first; operations carry no state from one call to the next, so a
third adds only one more refused client. Two process ids allow a dead forwarder
with a reused id next to a new forwarder; exclusive scripts need no third. Three
attempts (`MaxAttempts`) is the code's own bound. Four processes in StateLock are
a holder, one that is releasing, one that has just created the file and one that
is refused. Two goroutines in the tray: one shows its message box while the next
one runs, and busy admits no third. Three or four pieces of a download are
enough for a beginning, a middle and an end. The initial states of the Tunnel
runs are the kinds of resolv.conf and route named in their cfg. In Daemon two
operations are the daemon's call and either a call of another client or a script
the daemon has lost; two accidents are enough for a forwarder that dies and a
restart that fails, or a client that dies and a user who removes its lock. The
resolv.conf of Daemon is the link that WSL makes; the plain file is in
DaemonBlindStop. Commands has two terminals, one for the tunnel and one for
everything else, which may also start and stop it; two gateways and two interfaces
are the one in place and another. The run Conversions has addresses of eight bits with
every prefix, and inputs of up to four or five elements: enough for two duplicates
around another element, two assets of which the second fits better, a block between
two of the user's lines, two names in a list. `Short` bounds what is several texts at
once: the names of a list, or Windows' suffixes next to the config's. What the
properties of this run say of longer inputs is proved.

**Deadlock** is checked except in the Assets runs, where clients have nothing
left to do once both files are cached, in the Daemon runs, where the daemon exits and
the accidents are used up, and in Conversions, where a call returns and that is all.

**Fairness.** `Tunnel!FairSpec` has weak fairness of each operation's own next
step: the scripts wait for nothing but sleeps of fixed length and the client for
its script. Nothing is assumed of users and accidents, and nobody has to start an
operation. `ConfigureAgain` is not in `Advance`: how often it repeats is bounded
in the code (seven and eleven times), and that it ends is what the fairness of
`Configure` says.

`Daemon!DFairSpec` has weak fairness of the daemon's own steps (its calls, their
work, the ticker) and of the scripts that go on without it. `Finish` has strong
fairness, because when the context is done and the ticker has fired too, Go's select
takes one of them at random: it may take the ticker any number of times, in each of
which Status fails at once in the done context, but not for ever. A user never has
to interrupt the daemon, and no accident has to happen.

`Tray!FairSpec` has the ticker and those steps of the refresh goroutine that wait for no
other process (`OwnSteps`). It does not say that message boxes are dismissed, nor that
operations or the refresh's own queries end, as neither `wsl.exe` nor `reg.exe` has a
timeout: that a query never hangs for ever is a hypothesis of `DisplayConverges`, which
is about times when no operation runs and no query fails, as a query that fails again
and again keeps the display moving for ever. A `wsl.exe` that hangs in Status leaves
`refreshing` set, and what is shown as it was. TrayLive has one goroutine. The fairness of
Tunnel and Daemon does take it that a `wsl.exe` whose script has ended returns.

## 4. What is proved

Theorems are checked by TLAPS for any number of processes, operations and ids.

| theorem | statement | rests on |
|---|---|---|
| `StateLockProofs!LockExcludes`, `HolderIsSafe` | `MutualExclusion`; nobody takes the file from its holder | `HandlePins` |
| `StateLockProofs!LockImplementsMutex` | `Spec => Mutex!Spec` | `HandlePins` |
| `TunnelProofs!TypeCorrect` | types; at most three spawns | - |
| `TunnelProofs!LockHasItsClient` | `LockIsItsClients` | - |
| `TunnelProofs!ScriptsNeverOverlap` | `ScriptsExclusive` | no cancel, no unlock |
| `TunnelProofs!OperationsImplementMutex` | `Spec => Mutex!Spec` | no cancel, no unlock |
| `TunnelRestoreProofs!TunnelNeverSaved` | `BackupsNeverTunnel` | no cancel, no unlock |
| `TunnelRestoreProofs!StopUndoesAll` | `StopLeavesNoTunnel`, unnoticed failures included | no cancel, no unlock |
| `TunnelRestoreProofs!EtcNeverLost` | `EtcRecoverable` | `RestoreKept` |
| `TunnelRestoreProofs!OtherNetworkIsRespected` | `OtherNetworkRespected` | no shutdown |
| `TunnelRestoreProofs!RouteLostNowhereElse` | `Spec => RouteLostInTwoPlaces` | `RouteKept` |
| `DaemonProofs!FinalStopUndoesAll` | `FinalStopRestores` | `FinalKept` |
| `DaemonProofs!DaemonKeepsUsersEtc` | `DaemonKeepsEtc` | `FilesKept` |
| `CommandsProofs!CommandsTypeCorrect`, `RefusalIsHarmless` | types; `ExitTwoIsHarmless` | - |
| `CommandsProofs!ConfigIsSomeonesFile` | `ConfigNotInvented` | - |
| `CommandsProofs!RouteLostByReconfiguring` | `Spec => RouteLostOnlyByReconfiguring` | - |
| `ConversionsProofs!PathsStayAbsolute`, `AssetAlwaysBest`, `TrayIsAlwaysFound` | `PathsAreAbsolute`, `AssetIsBest`, `TrayIsFound` for inputs of any length | - |
| `ConversionsProofs!SuffixesAreAlwaysNormal`, `DistrosAreAlwaysRead`, `UserLinesAreAlwaysKept` | `SuffixesAreNormal`, `DistrosAreRead`, `UserLinesAreKept` for inputs of any length | - |
| `ConversionsProofs!GatewayIsAlwaysFirstHost` | `GatewayIsFirstHost` for digits of any width | - |
| `TrayProofs!TrayTypeCorrect`, `OneOperationAtATime`, `NothingOffered` | types; `OneOperation`; `NothingOfferedMeanwhile` | - |
| `AssetsProofs!AssetsTypeCorrect` | types | - |
| `AssetsProofs!CacheIsWhole` | `CachedIsWhole` | `AllLocked`: no doctors |

`FilesKept`: a backup can be copied back, `$STATE` outlives the tunnel (no shutdown), the
user does not edit the file meanwhile, and it is a file or an absolute link; only a link
where Stops may run blind, since what a blind Stop makes is a link. `RestoreKept` is
`FilesKept` where operations are alone (no cancel, no unlock). Client crashes, failing
commands, dying forwarders and terminated distros are allowed. A daemon restarts blindly
and is cancelled: next to it `FilesKept` is enough, and the property itself ends with
`torn`. `RouteKept`: operations are
alone, no Stop runs blind, no shutdown. `FinalKept`: there is an address on eth0 to
guess a gateway from, no shutdown, and no command of a stop script fails unnoticed;
cancelled contexts and hand-removed locks are allowed here.

The arguments:

* **Lock.** Mutual exclusion is not inductive: a process that has closed its
  handle is out but its file is there. The invariant is that a process with an
  open handle is the creator of the file at the path (`OpenIsAtPath`). The only
  step that could break it is a removal, which a pinned handle refuses.
* **Types.** The bound on spawns needs to know where attempts are counted
  (`AttemptsOK`): outside `spawn`, `await` and `configure` they are zero.
* **Control.** To the lock, `pc` and `orphan` the two dozen steps do one of three
  things: move on, end the script, release the lock (`AdvanceControl`). The
  lock invariants are proved from those three.
* **Exclusion.** A script whose client is dead does not hold the lock; the stale
  file does: over a script without a client the lock is stale (`StaleKept`), so nobody
  can begin another and at most one operation is active (`Apart`). That explains why a hand-removed lock
  file breaks exclusion, and the assumption of the theorem.
* **Backups.** That `route.dat` is never the tunnel's needs `Probed`: between the
  probe and the saved route a start script that found no forwarder has no tunnel
  route, since it deleted the interface and nobody else installs one meanwhile.
  `ScriptCases` states the "nobody else" once: of a step that leaves some
  operation in its script, either that operation took it or nothing that
  scripts work on has changed, but for processes that died.
* **Stop.** `Undone` lists what each step has undone and that it stays undone, or has
  slipped.
* **Restore.** That the backup is good when it is needed relates several files:
  what Start finds in `/etc/resolv.conf` is the tunnel's only if the user's was
  saved before (`LinkSaved`), and Stop, which goes by `route.dat`, may rely on
  the backup of the file because Start writes `route.dat` last (`RouteAfterEtc`).
* **Cache.** `CachedIsWhole` says nothing of the temporary file. `CopiedSoFar`
  follows what its one writer has written, `WholeToRename` takes over after Close.
* **Other network.** Without the lock: a start script that has found another
  network's route either sits before the steps that change DNS (`Untouched`) or the
  route is gone for good (`OtherGone`), since no script puts it back.
* **Route.** `RouteSaved` says where the old route is at each step (in place before
  `saveRoute`, in `route.dat` behind it), `RouteGone` that it was lost already; the
  step from one to the other is `SaveRoute` with no route.
* **Daemon.** Each of its steps is one of Tunnel's or changes nothing of it
  (`DaemonStepIsTunnelStep`, a lemma), so Tunnel's lemmas about steps are cited. But
  the daemon cancels contexts, and Tunnel's theorems about exclusion assume that
  nobody does. What they need is not the lock but what it is there for: that an
  operation begins only when no other is active (`Orderly`, a step), so that at most one
  ever is (`Apart`). Where the lock is kept that follows from it (`LockIsOrderly`, with
  `StaleKept`: the lock over a script without a client is stale); in Daemon it is true
  until an operation begins over a running script (`torn`), and what each step of Stop
  has undone till then stays undone.
  `DaemonKeepsEtc` goes the same way: the invariant of `EtcNeverLost` is carried on while
  nothing is torn (`EtcAlone`). A restart is a Stop with perhaps nothing to restore;
  where the user's file is a link, that the file behind it is not the tunnel's takes its
  part in the invariant (`EtcKnown`).
* **Commands.** Exit code 2 and the config a command has do not follow from each other
  but from where it is: up to the check nothing has been changed, from the load to the
  exit the config is there (`PlaceOf`). `ConfigNotInvented` needs one fact more, that a
  file which is absent is remembered as missing (`MissingKnown`): what a process has read
  stays something that was in the file, whatever replaces it. For the route, what is
  saved while the user's route is in place is the same route or none (`OwnSaved`), so no
  Stop puts an older one over it.
* **Conversions without loops.** A path is a prefix and a rest, `TrayName` takes away
  what `InsertAt` put in, and of the loops of findAsset the first that finds anything
  decides (`FoundIs`). Minima exist by the well-foundedness of the natural numbers
  (`MinIs`).
* **Loops.** The library's induction takes an operator, which the provers cannot
  instantiate. A set can be cited instead: `Induction` says that a set of numbers with
  the first, and with each its next, has all of them (otherwise it lacks a least one).
  What a loop has made after n turns is proved for the set of those n for which it
  holds. That the recursive function exists at all (`LoopExists`) goes the same way,
  with the turn of the loop as a table of functions.
* **DNS suffixes.** The invariant of the loop is the property itself, of the first n
  values: each suffix kept is the first with its name, and none is missing.
* **wsl.conf.** The text is the user's lines, the block and what follows, and awk's
  output is known in each part: all lines before the block (`AwkKeeps`), none of the
  block (`WithoutTheBlock`), all lines after it. What carries the argument is whether awk
  skips, which the property does not mention.
* **List of distros.** The text grows by a line for each name, `Split` recovers the
  lines because no name has a line break in it, and `Trim` takes away the carriage
  return and nothing else. With two bytes to a letter, decoding is a quotient and a
  remainder.
* **Gateway.** `And` with a number that has just the bits from k to below b is what a
  number leaves divided by 2^b, less what it leaves divided by 2^k (`AndIs`): that gives the
  network of a mask and the digits of an address; four digits together are the number
  again (`DigitsAre`). Adding one stays in the network unless that has one address.
* **Tray.** That `busy` is held exactly from the won compare-and-swap to its reset
  (`BusyInv`) is what makes the buttons right: a refresh decides what to offer while
  it holds `a.mu`, by the `busy` of that moment.

Every invariant, every action property and every refinement that a passing run checks
is a theorem. Only model-checked, for the sizes of the runs, is liveness
(`OperationCompletes`, `TunnelRecovers`, `InterruptEnds`, `DisplayConverges`), which
the prover does not handle.

## 5. What the models found

Listed in `PROJECT.json` with the lines they contradict:

1. **TunnelRouteLost.** After the forwarder died, Start deletes the interface and
   with it the default route, and then writes the empty route to `route.dat` over
   the one the first Start saved. Stop can only guess a gateway from eth0.
2. **DaemonBlindStop.** Stop without a backup links `/etc/resolv.conf` to
   `/mnt/wsl/resolv.conf`. When a user stops the tunnel from the tray or the command
   line while a daemon runs, the daemon finds no forwarder and stops it once more:
   the user's own file, which the first Stop had put back, is gone. A second stop or
   a restart does the same.
3. **AssetsDoctor.** Two downloads share one temporary file; `doctor` can truncate
   what Start has just completed, and Start installs the rest.

Limits of the code the models show when a cfg is changed, which have no run of
their own:

* `EtcRecoverable` with `"edit"` and `"cmdfail"`: the backup of a failed Start is kept
  (manager.go:160), the next Start replaces a file the user has changed since without
  saving it, and Stop puts the old one in its place.
* `EtcRecoverable` with `OrigEtcs = {"rel"}`: a relative link dangles in `$STATE`,
  and Stop does not find the backup.
* `EtcRecoverable` with `"shutdown"` and `OrigEtcs = {"file"}`: the backups are on
  the tmpfs `/mnt/wsl` by default, the replaced file is on the disk.
* `EtcRecoverable` with `"copyfail"`: Stop ignores that copying the backup failed,
  and deletes the backup.
* `ScriptsExclusive` with `"cancel"`: the lock is given back while the script runs.
* `TunnelRecovers` without `lock = Stale`: a client that died in an operation keeps
  the daemon out until the user removes the file; with `"reuse"` the daemon takes
  another process for the forwarder and never restarts it.
* `FinalStopRestores` without `~torn`: the Start script that the interrupt cut off
  still runs when the final Stop begins, and finishes after it.
* `FinalStopRestores` with `"unnoticed"`: the final Stop itself may fail to undo the
  block, the interface or the route, and Run returns no error.
* `InterruptEnds` says that the daemon exits, not that the tunnel is down: a final
  Stop that another client's lock refuses is not tried again (daemon.go:31).
* `DistrosAreRead` without its exception: a list whose first letter is above 255 is
  not taken for UTF-16 (client.go:125).
* `UserLinesAreKept` with the copy: lines added to wsl.conf while the tunnel is up are
  lost at Stop (manager.go:317).
* `TrayIsFound` for a name that begins with `cli-`: it is left as it is.
* After the forwarder died the tray offers only Start (tray_windows.go:527), though
  the tunnel's DNS is still in place; status takes any process with the id in
  `vm.pid` for the forwarder (manager.go:385).

## 6. What is not modelled

* Shell quoting, default paths, the wording of messages, tooltips and usage: no
  state and no control depends on them.
* Everything of Windows' windows, icons and message loop, and reg.exe's output; of
  the registry the one bit the tray reads. `process` and the two main functions have
  no state.
* Two state directories (`--state-dir`): clients with different ones do not exclude
  each other, by construction, and nothing that rests on the lock is claimed of them.
* A failure of the start script's own `ip link del ... || true` (manager.go:154): the
  interface of a dead forwarder is always deleted there.
* Where two scripts overlap, single statements of theirs (a test and the copy after
  it) interleave in ways the steps of Tunnel do not show, so only `LockIsItsClients`,
  which is about clients, is claimed there, and the Daemon properties about files
  exclude `torn`.
* In Commands operations are atomic and never overlap, and one that fails has done
  nothing; their steps, and failures in the middle, are in Tunnel.

## 7. Plan

1. **Tunnel**: two state directories, as a second lock over the same state; the
   statements of two overlapping scripts, one by one.
2. **Tray**: composed with Tunnel instead of its three phases.
