-------------------------------- MODULE Tray --------------------------------
(***************************************************************************)
(* internal/tray/tray_windows.go: the tray's menu, the goroutines that run *)
(* its operations, and the goroutine that refreshes what it shows.         *)
(*                                                                         *)
(* The UI thread owns the menu.  A click that wins a compare-and-swap on   *)
(* busy starts a goroutine (a worker) that runs Start, Stop or the         *)
(* start-on-boot toggle, clears busy, shows a message box and asks for a   *)
(* refresh.  A ticker asks for one too; refreshing keeps refreshes apart.  *)
(* A refresh reads the config, the tunnel's status and the registry one    *)
(* after the other, without any lock, and publishes each under a.mu.       *)
(*                                                                         *)
(* Of the tunnel only the phase is kept: "clean" (nothing of it is there), *)
(* "up" (forwarder and route are there) or "down" (it was started, its     *)
(* forwarder is gone and its DNS or route is left).  The command line and  *)
(* the daemon change the phase as well.                                    *)
(***************************************************************************)
CONSTANTS
  Workers,      (* goroutines that may run an operation at a time          *)
  StatusFails,  (* TRUE: Manager.Status and the registry query may fail    *)
  Closed,       (* no menu is open                                         *)
  NoCache       (* no cache file, or a broken one, which loadCache ignores *)

ASSUME TrayAssumption == Workers # {} /\ StatusFails \in BOOLEAN

Phases  == {"clean", "up", "down"}
Kinds   == {"start", "stop", "boot"}
Configs == {"valid", "incomplete", "unreadable"}

VARIABLES
  phase,        (* the tunnel                                              *)
  disk,         (* the config file                                         *)
  installed,    (* the registry entry for start on boot                    *)
  alive,        (* the tray process runs                                   *)
  ui,           (* "idle", or the kind whose click has just won busy       *)
  menu,         (* the open menu: the kinds it offers, or Closed           *)
  busy, refreshing,
  work,         (* the stage of each worker                                *)
  fresh,        (* the stage of the refresh                                *)
  seen,         (* what the refresh has read, and has not published yet    *)
  shown,        (* what the app holds under a.mu                           *)
  cache         (* tray-cache.json                                         *)

world == <<phase, disk, installed>>
vars  == <<world, alive, ui, menu, busy, refreshing, work, fresh, seen, shown, cache>>

(* "start" .. "boot" runs the operation, "install" and "uninstall" have    *)
(* read the registry, "done" has its result and still holds busy, "report" *)
(* shows a message box, "schedule" is about to ask for a refresh.          *)
Holding == Kinds \union {"install", "uninstall", "done"}
Stages  == Holding \union {"free", "report", "schedule"}
Refresh == {"none", "begin", "status", "apply", "boot", "applyBoot", "save", "write"}

(* running, configValid, the enabled menu items, bootChecked. *)
Nothing == [running |-> FALSE, valid |-> FALSE, enabled |-> {}, checked |-> FALSE]

(* Mutant of Enabled: Start is offered while the tunnel runs. *)
EnabledBoth(running, valid, isBusy) ==
  IF ~valid \/ isBusy THEN {}
  ELSE {"boot", "start"} \union (IF running THEN {"stop"} ELSE {})

(* applyActionStateLocked *)
Enabled(running, valid, isBusy) ==
  IF ~valid \/ isBusy THEN {}
  ELSE {"boot"} \union (IF running THEN {"stop"} ELSE {"start"})

Show(running, valid) ==
  shown' = [shown EXCEPT !.running = running, !.valid = valid,
                         !.enabled = Enabled(running, valid, busy)]

-----------------------------------------------------------------------------
Init ==
  /\ phase \in Phases /\ disk = "valid" /\ installed \in BOOLEAN
  /\ alive = TRUE
  /\ ui = "idle" /\ menu = Closed
  /\ busy = FALSE /\ refreshing = FALSE
  /\ work = [w \in Workers |-> "free"]
  /\ fresh = "none" /\ seen = "none"
  /\ shown = Nothing
  /\ cache = NoCache

-----------------------------------------------------------------------------
(* The UI thread. *)

(* showMenu takes a copy of the enabled items, and stays in the menu's own *)
(* message loop until the user picks one or closes it.                     *)
ShowMenu ==
  /\ alive /\ ui = "idle" /\ menu = Closed
  /\ menu' = shown.enabled
  /\ UNCHANGED <<world, alive, ui, busy, refreshing, work, fresh, seen, shown, cache>>

CloseMenu ==
  /\ menu # Closed /\ menu' = Closed
  /\ UNCHANGED <<world, alive, ui, busy, refreshing, work, fresh, seen, shown, cache>>

(* Mutant of Pick: busy is set without looking at it. *)
PickUnguarded(k) ==
  /\ menu # Closed /\ k \in menu
  /\ menu' = Closed
  /\ busy' = TRUE /\ ui' = k
  /\ UNCHANGED <<world, alive, refreshing, work, fresh, seen, shown, cache>>

(* runOperation and toggleStartOnBoot: the click loses when busy is set. *)
Pick(k) ==
  /\ menu # Closed /\ k \in menu
  /\ menu' = Closed
  /\ busy' = TRUE
  /\ ui' = IF busy THEN "idle" ELSE k
  /\ UNCHANGED <<world, alive, refreshing, work, fresh, seen, shown, cache>>

(* setBusy disables every operation, the toggle only itself; then the      *)
(* goroutine starts.                                                       *)
Begin(w) ==
  /\ ui # "idle" /\ ui' = "idle"
  /\ work[w] = "free" /\ work' = [work EXCEPT ![w] = ui]
  /\ shown' = [shown EXCEPT !.enabled = IF ui = "boot" THEN @ \ {"boot"} ELSE {}]
  /\ UNCHANGED <<world, alive, menu, busy, refreshing, fresh, seen, cache>>

-----------------------------------------------------------------------------
(* The goroutines of the operations. *)

Goto(w, from, to) ==
  work[w] = from /\ work' = [work EXCEPT ![w] = to]

(* Start may fail early, or after it has changed the DNS; it does nothing  *)
(* to a tunnel that is up.  Stop may fail, or leaves nothing.              *)
Outcomes(k) == CASE k = "start" /\ phase = "clean" -> {"clean", "up", "down"}
                 [] k = "start" /\ phase = "down"  -> {"up", "down"}
                 [] k = "start" /\ phase = "up"    -> {"up"}
                 [] k = "stop"                     -> {"clean", phase}

Operate(w) ==
  /\ \E k \in {"start", "stop"} : Goto(w, k, "done") /\ phase' \in Outcomes(k)
  /\ UNCHANGED <<disk, installed, alive, ui, menu, busy, refreshing, fresh, seen, shown, cache>>

(* The toggle asks the registry, then writes it; either may fail. *)
AskInstalled(w) ==
  /\ \/ Goto(w, "boot", IF installed THEN "uninstall" ELSE "install")
     \/ StatusFails /\ Goto(w, "boot", "done")
  /\ UNCHANGED <<world, alive, ui, menu, busy, refreshing, fresh, seen, shown, cache>>

SetInstalled(w) ==
  /\ \/ Goto(w, "install", "done")   /\ installed' \in {installed, TRUE}
     \/ Goto(w, "uninstall", "done") /\ installed' \in {installed, FALSE}
  /\ UNCHANGED <<phase, disk, alive, ui, menu, busy, refreshing, fresh, seen, shown, cache>>

(* busy is cleared before the message box and before the refresh.  A       *)
(* toggle that succeeds shows no box.                                      *)
EndOperation(w) ==
  /\ \E to \in {"report", "schedule"} : Goto(w, "done", to)
  /\ busy' = FALSE
  /\ UNCHANGED <<world, alive, ui, menu, refreshing, fresh, seen, shown, cache>>

Dismiss(w) ==
  /\ Goto(w, "report", "schedule")
  /\ UNCHANGED <<world, alive, ui, menu, busy, refreshing, fresh, seen, shown, cache>>

-----------------------------------------------------------------------------
(* The refresh. *)

(* scheduleRefresh: nothing while an operation or another refresh runs. *)
AskRefresh ==
  IF busy \/ refreshing THEN UNCHANGED <<refreshing, fresh>>
  ELSE refreshing' = TRUE /\ fresh' = "begin"

Schedule(w) ==
  /\ Goto(w, "schedule", "free")
  /\ AskRefresh
  /\ UNCHANGED <<world, alive, ui, menu, busy, seen, shown, cache>>

Tick ==
  /\ alive /\ AskRefresh
  /\ UNCHANGED <<world, alive, ui, menu, busy, work, seen, shown, cache>>

At(from, to) == fresh = from /\ fresh' = to

(* refreshAll gives up when an operation has begun; reloadConfig. *)
LoadConfig ==
  /\ IF busy THEN At("begin", "save") /\ UNCHANGED shown
     ELSE CASE disk = "unreadable" ->
                 /\ At("begin", "save")
                 /\ shown' = Nothing
            [] disk = "incomplete" ->
                 At("begin", "boot") /\ Show(FALSE, FALSE)
            [] disk = "valid" ->
                 At("begin", "status") /\ UNCHANGED shown
  /\ UNCHANGED <<world, alive, ui, menu, busy, refreshing, work, seen, cache>>

ReadStatus ==
  /\ At("status", "apply")
  /\ seen' \in {phase} \union (IF StatusFails THEN {"error"} ELSE {})
  /\ UNCHANGED <<world, alive, ui, menu, busy, refreshing, work, shown, cache>>

(* Mutant of ApplyStatus: it does not look at busy. *)
ApplyStatusAnyway ==
  /\ At("apply", "boot")
  /\ shown' = [shown EXCEPT !.running = seen = "up", !.valid = TRUE,
                            !.enabled = Enabled(seen = "up", TRUE, FALSE)]
  /\ seen' = "none"
  /\ UNCHANGED <<world, alive, ui, menu, busy, refreshing, work, cache>>

(* An operation may have begun or ended since the status was read. *)
ApplyStatus ==
  /\ At("apply", "boot")
  /\ Show(seen = "up", TRUE)
  /\ seen' = "none"
  /\ UNCHANGED <<world, alive, ui, menu, busy, refreshing, work, cache>>

ReadBoot ==
  /\ At("boot", "applyBoot")
  /\ seen' \in {IF installed THEN "installed" ELSE "missing"}
               \union (IF StatusFails THEN {"error"} ELSE {})
  /\ UNCHANGED <<world, alive, ui, menu, busy, refreshing, work, shown, cache>>

ApplyBoot ==
  /\ At("applyBoot", "save")
  /\ shown' = [shown EXCEPT !.enabled = Enabled(shown.running, shown.valid, busy),
                            !.checked = seen = "installed"]
  /\ seen' = "none"
  /\ UNCHANGED <<world, alive, ui, menu, busy, refreshing, work, cache>>

(* saveCache takes the hash of the config file as it is by now; then its   *)
(* os.WriteFile truncates the cache file before it writes it.              *)
SaveCache ==
  /\ At("save", "write") /\ cache' = NoCache /\ seen' = disk
  /\ UNCHANGED <<world, alive, ui, menu, busy, refreshing, work, shown>>

Content == [for |-> seen, running |-> shown.running, valid |-> shown.valid,
            checked |-> shown.checked]

(* Mutant of WriteCache: refreshing stays set. *)
WriteCacheOnly ==
  /\ At("write", "none") /\ seen' = "none" /\ cache' \in {Content, NoCache}
  /\ UNCHANGED <<world, alive, ui, menu, busy, refreshing, work, shown>>

(* Nobody looks at the error of a write.  Only a refresh changes what is   *)
(* written, and there is no other.                                         *)
WriteCache ==
  /\ At("write", "none") /\ seen' = "none" /\ cache' \in {Content, NoCache}
  /\ refreshing' = FALSE
  /\ UNCHANGED <<world, alive, ui, menu, busy, work, shown>>

-----------------------------------------------------------------------------
(* Quit closes the window at once: message loop, process and goroutines    *)
(* end, an operation wherever it is.                                       *)
Quit ==
  /\ alive /\ alive' = FALSE
  /\ ui' = "idle" /\ menu' = Closed
  /\ busy' = FALSE /\ refreshing' = FALSE
  /\ work' = [w \in Workers |-> "free"]
  /\ fresh' = "none" /\ seen' = "none"
  /\ shown' = Nothing
  /\ UNCHANGED <<world, cache>>

(* Run: a whole cache written for this config file fills the menu until    *)
(* the first refresh; main refuses a config file that does not parse.      *)
Launch ==
  /\ ~alive /\ disk # "unreadable" /\ alive' = TRUE
  /\ shown' = IF cache # NoCache /\ cache.for = disk
              THEN [running |-> cache.running, valid |-> cache.valid,
                    enabled |-> Enabled(cache.running, cache.valid, busy),
                    checked |-> cache.checked]
              ELSE Nothing
  /\ AskRefresh
  /\ UNCHANGED <<world, ui, menu, busy, work, seen, cache>>

(* The forwarder dies; the command line or the daemon starts or stops the  *)
(* tunnel, or toggles start on boot; the user edits the config file.       *)
WorldChanges ==
  /\ \/ /\ \/ phase = "up" /\ phase' = "down"
           \/ \E k \in {"start", "stop"} : phase' \in Outcomes(k)
        /\ UNCHANGED <<disk, installed>>
     \/ disk' \in Configs /\ UNCHANGED <<phase, installed>>
     \/ installed' \in BOOLEAN /\ UNCHANGED <<phase, disk>>
  /\ UNCHANGED <<alive, ui, menu, busy, refreshing, work, fresh, seen, shown, cache>>

Worker(w) == \/ Begin(w) \/ Operate(w) \/ AskInstalled(w) \/ SetInstalled(w)
             \/ EndOperation(w) \/ Dismiss(w) \/ Schedule(w)

(* The steps that wait for wsl.exe or reg.exe, and those that do not. *)
Queries   == ReadStatus \/ ReadBoot
OwnSteps  == LoadConfig \/ ApplyStatus \/ ApplyBoot \/ SaveCache \/ WriteCache
Refresher == Queries \/ OwnSteps

Next ==
  \/ ShowMenu \/ CloseMenu \/ (\E k \in Kinds : Pick(k))
  \/ \E w \in Workers : Worker(w)
  \/ Tick \/ Refresher \/ Quit \/ Launch \/ WorldChanges

Spec == Init /\ [][Next]_vars

(* Goroutines run and the ticker ticks.  The user need not dismiss a box,  *)
(* and neither an operation nor a query need end: wsl.exe has no timeout.  *)
FairSpec == Spec /\ WF_vars(Tick) /\ WF_vars(OwnSteps)

-----------------------------------------------------------------------------
TypeOK ==
  /\ phase \in Phases /\ disk \in Configs /\ installed \in BOOLEAN
  /\ alive \in BOOLEAN /\ ui \in Kinds \union {"idle"}
  /\ menu \in {Closed} \union SUBSET Kinds
  /\ busy \in BOOLEAN /\ refreshing \in BOOLEAN
  /\ work \in [Workers -> Stages] /\ fresh \in Refresh
  /\ seen \in Phases \union Configs \union {"none", "error", "installed", "missing"}
  /\ fresh = "write" => seen \in Configs
  /\ shown \in [running : BOOLEAN, valid : BOOLEAN,
                enabled : SUBSET Kinds, checked : BOOLEAN]
  /\ ~({"start", "stop"} \subseteq shown.enabled)
  /\ cache # NoCache => cache \in [for : Configs, running : BOOLEAN,
                                   valid : BOOLEAN, checked : BOOLEAN]

(* The tray runs one operation at a time, and busy says so: a click on an  *)
(* item of a menu that was opened before the operation began is lost.      *)
OneOperation ==
  /\ \A v, w \in Workers : work[v] \in Holding /\ work[w] \in Holding => v = w
  /\ busy = (ui # "idle" \/ \E w \in Workers : work[w] \in Holding)

(* While Start or Stop runs neither is offered, although a refresh that    *)
(* began before the operation publishes its result in the middle of it.    *)
NothingOfferedMeanwhile ==
  (\E w \in Workers : work[w] \in {"start", "stop"}) => shown.enabled = {}

(* When the world rests, every query ends and none fails any more, what    *)
(* the tray shows becomes what is there, even after a refresh that         *)
(* published a status read before an operation and made the refresh the    *)
(* operation asked for be skipped, or after one that failed.               *)
DisplayConverges ==
  \A ph \in Phases, b \in BOOLEAN :
    (/\ <>[](phase = ph /\ installed = b /\ disk = "valid" /\ alive /\ ~busy /\ seen # "error")
     /\ []<>(fresh \notin {"status", "boot"}))
      => <>[](shown.running = (ph = "up") /\ shown.checked = b)
=============================================================================
