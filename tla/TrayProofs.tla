----------------------------- MODULE TrayProofs -----------------------------
(***************************************************************************)
(* Proofs that the tray runs one operation at a time and offers nothing    *)
(* while Start or Stop runs, for any number of goroutines, failing queries *)
(* or not.                                                                 *)
(*                                                                         *)
(* busy is set on the UI thread and cleared by a goroutine, so the         *)
(* invariant speaks of the time between: a click that has won busy is the  *)
(* only operation there is, and no menu is open in which another click     *)
(* could take its place.                                                   *)
(***************************************************************************)
EXTENDS Tray, TLAPS

(* Who may show something, and what, is always one item or none of both. *)
LEMMA EnabledIs ==
  ASSUME NEW running \in BOOLEAN, NEW valid \in BOOLEAN, NEW isBusy \in BOOLEAN
  PROVE  /\ Enabled(running, valid, isBusy) \subseteq Kinds
         /\ ~({"start", "stop"} \subseteq Enabled(running, valid, isBusy))
         /\ isBusy => Enabled(running, valid, isBusy) = {}
BY DEF Enabled, Kinds

Shown == [running : BOOLEAN, valid : BOOLEAN, enabled : SUBSET Kinds, checked : BOOLEAN]

(* What a refresh publishes is well-formed. *)
LEMMA ShowType ==
  ASSUME TypeOK, NEW running \in BOOLEAN, NEW valid \in BOOLEAN, Show(running, valid)
  PROVE  /\ shown' \in Shown /\ ~({"start", "stop"} \subseteq shown'.enabled)
         /\ busy => shown'.enabled = {}
<1>1. shown'.enabled = Enabled(running, valid, busy)
  BY DEF Show, TypeOK
<1>2. shown' \in Shown
  BY <1>1, EnabledIs DEF Show, TypeOK, Shown
<1> QED
  BY <1>1, <1>2, EnabledIs DEF TypeOK

Seen == Phases \union Configs \union {"none", "error", "installed", "missing"}

(* What a step changes of the refresh and of what is shown keeps the types.*)
LEMMA RefreshTypes ==
  ASSUME TypeOK, UNCHANGED <<world, alive, ui, menu, busy>>,
         UNCHANGED cache, work' \in [Workers -> Stages],
         refreshing' \in BOOLEAN, fresh' \in Refresh, seen' \in Seen,
         fresh' = "write" => seen' \in Configs,
         shown' \in Shown, ~({"start", "stop"} \subseteq shown'.enabled)
  PROVE  TypeOK'
BY DEF TypeOK, world, Seen, Shown

LEMMA AskTypes ==
  ASSUME TypeOK, AskRefresh
  PROVE  /\ refreshing' \in BOOLEAN /\ fresh' \in Refresh
         /\ fresh' = fresh \/ fresh' = "begin"
BY DEF AskRefresh, TypeOK, Refresh

LEMMA AtTypes ==
  ASSUME NEW from \in Refresh, NEW to \in Refresh, At(from, to)
  PROVE  fresh' \in Refresh
BY DEF At

(* Every step of the UI thread, of an operation, of the refresh and of the *)
(* world keeps the types.                                                  *)
LEMMA TypeStep ==
  ASSUME TypeOK, [Next]_vars
  PROVE  TypeOK'
<1>0. /\ shown \in Shown /\ ~({"start", "stop"} \subseteq shown.enabled)
      /\ seen \in Seen /\ fresh \in Refresh /\ refreshing \in BOOLEAN
      /\ work \in [Workers -> Stages] /\ (fresh = "write" => seen \in Configs)
  BY DEF TypeOK, Shown, Seen
<1>1. CASE ShowMenu \/ CloseMenu \/ \E k \in Kinds : Pick(k)
  BY <1>1 DEF ShowMenu, CloseMenu, Pick, TypeOK, world
<1>2. ASSUME NEW w \in Workers, Worker(w) PROVE TypeOK'
  <2>1. CASE Begin(w)
    <3>1. work' \in [Workers -> Stages] /\ ui' = "idle"
      BY <2>1 DEF Begin, Stages, Holding, Kinds, TypeOK
    <3>2. shown' \in Shown /\ shown'.enabled \subseteq shown.enabled
      BY <1>0, <2>1 DEF Begin, Shown
    <3> QED
      BY <1>0, <2>1, <3>1, <3>2 DEF Begin, Shown, TypeOK, world
  <2>2. CASE Operate(w)
    <3>1. phase' \in Phases
      BY <2>2 DEF Operate, Outcomes, Goto, Phases, TypeOK
    <3> QED
      BY <2>2, <3>1 DEF Operate, Goto, Stages, Holding, TypeOK
  <2>3. CASE AskInstalled(w) \/ SetInstalled(w)
    BY <2>3 DEF AskInstalled, SetInstalled, Goto, Stages, Holding, TypeOK, world
  <2>4. CASE EndOperation(w) \/ Dismiss(w)
    BY <2>4 DEF EndOperation, Dismiss, Goto, Stages, TypeOK, world
  <2>5. CASE Schedule(w)
    <3>1. work' \in [Workers -> Stages]
      BY <1>0, <2>5 DEF Schedule, Goto, Stages
    <3> QED
      BY <1>0, <2>5, <3>1, AskTypes, RefreshTypes DEF Schedule
  <2> QED
    BY <1>2, <2>1, <2>2, <2>3, <2>4, <2>5 DEF Worker
<1>3. CASE Tick
  BY <1>0, <1>3, AskTypes, RefreshTypes DEF Tick
<1>4. CASE LoadConfig
  <2>0. UNCHANGED <<world, alive, ui, menu, busy, refreshing, work, seen, cache>>
    BY <1>4 DEF LoadConfig
  <2>1. CASE Show(FALSE, FALSE) /\ At("begin", "boot")
    BY <1>0, <2>0, <2>1, ShowType, RefreshTypes DEF At, Refresh
  <2>2. CASE shown' = Nothing /\ At("begin", "save")
    <3>1. shown' \in Shown /\ ~({"start", "stop"} \subseteq shown'.enabled)
      BY <2>2 DEF Nothing, Shown
    <3> QED
      BY <1>0, <2>0, <2>2, <3>1, RefreshTypes DEF At, Refresh
  <2>3. CASE UNCHANGED shown /\ (At("begin", "save") \/ At("begin", "status"))
    BY <1>0, <2>0, <2>3, RefreshTypes DEF At, Refresh
  <2> QED
    BY <1>4, <2>1, <2>2, <2>3 DEF LoadConfig, Configs, TypeOK
<1>5. CASE ReadStatus \/ ReadBoot
  <2>1. seen' \in Seen
    BY <1>5 DEF ReadStatus, ReadBoot, Seen, Phases, TypeOK
  <2> QED
    BY <1>0, <1>5, <2>1, RefreshTypes DEF ReadStatus, ReadBoot, At, Refresh
<1>6. CASE ApplyStatus
  <2>1. shown' \in Shown /\ ~({"start", "stop"} \subseteq shown'.enabled)
    BY <1>6, ShowType DEF ApplyStatus
  <2> QED
    BY <1>0, <1>6, <2>1, RefreshTypes DEF ApplyStatus, At, Refresh, Seen
<1>7. CASE ApplyBoot
  <2>1. shown'.enabled = Enabled(shown.running, shown.valid, busy)
        /\ busy \in BOOLEAN
    BY <1>0, <1>7 DEF ApplyBoot, TypeOK, Shown
  <2>2. shown' \in Shown /\ ~({"start", "stop"} \subseteq shown'.enabled)
    BY <1>0, <1>7, <2>1, EnabledIs DEF ApplyBoot, Shown
  <2> QED
    BY <1>0, <1>7, <2>2, RefreshTypes DEF ApplyBoot, At, Refresh, Seen
<1>8. CASE SaveCache
  BY <1>8 DEF SaveCache, At, Refresh, TypeOK, world
<1>9. CASE WriteCache
  <2>1. seen \in Configs
    BY <1>0, <1>9 DEF WriteCache, At
  <2>2. Content \in [for : Configs, running : BOOLEAN, valid : BOOLEAN, checked : BOOLEAN]
    BY <1>0, <2>1 DEF Content, Shown
  <2>3. cache' # NoCache => cache' = Content
    BY <1>9 DEF WriteCache
  <2> QED
    BY <1>9, <2>2, <2>3 DEF WriteCache, At, Refresh, TypeOK, world
<1>10. CASE Quit
  <2>1. shown' \in Shown /\ ~({"start", "stop"} \subseteq shown'.enabled)
    BY <1>10 DEF Quit, Nothing, Shown
  <2>2. fresh' = "none" /\ seen' = "none" /\ work' \in [Workers -> Stages]
    BY <1>10 DEF Quit, Stages
  <2> QED
    BY <1>10, <2>1, <2>2 DEF Quit, Refresh, TypeOK, world, Shown
<1>11. CASE Launch
  <2>1. shown' \in Shown /\ ~({"start", "stop"} \subseteq shown'.enabled)
    BY <1>11, EnabledIs DEF Launch, Nothing, Shown, TypeOK
  <2>2. /\ refreshing' \in BOOLEAN /\ fresh' \in Refresh
        /\ fresh' = fresh \/ fresh' = "begin"
    BY <1>11, AskTypes DEF Launch
  <2> QED
    BY <1>11, <2>1, <2>2 DEF Launch, TypeOK, world, Shown
<1>12. CASE WorldChanges
  <2>1. phase' \in Phases
    BY <1>12 DEF WorldChanges, Outcomes, Phases, TypeOK
  <2> QED
    BY <1>12, <2>1 DEF WorldChanges, TypeOK
<1>13. CASE UNCHANGED vars
  BY <1>13 DEF vars, TypeOK, world
<1> QED
  BY <1>1, <1>2, <1>3, <1>4, <1>5, <1>6, <1>7, <1>8, <1>9, <1>10, <1>11, <1>12, <1>13
  DEF Next, Refresher, Queries, OwnSteps

LEMMA TypeInit == Init => TypeOK
<1> SUFFICES ASSUME Init PROVE TypeOK
  OBVIOUS
<1>1. /\ shown \in Shown /\ ~({"start", "stop"} \subseteq shown.enabled)
      /\ work \in [Workers -> Stages]
  BY DEF Init, Nothing, Shown, Stages
<1> QED
  BY <1>1 DEF Init, TypeOK, Shown, Configs, Refresh

(* Every variable keeps its type, and Start and Stop are never offered at  *)
(* the same time.                                                          *)
THEOREM TrayTypeCorrect == Spec => []TypeOK
BY TypeInit, TypeStep, PTL DEF Spec

-----------------------------------------------------------------------------
AnyHolds == \E w \in Workers : work[w] \in Holding

(* A click that has won busy is alone, and no menu is open beside it. *)
ClickAlone == ui # "idle" => menu = Closed /\ ~AnyHolds

BusyInv == TypeOK /\ OneOperation /\ ClickAlone

(* A step of one goroutine from one stage to another that it holds busy in,*)
(* or from one to another that it does not.                                *)
LEMMA GotoKeeps ==
  ASSUME BusyInv, NEW w \in Workers, NEW from \in Stages, NEW to \in Stages,
         Goto(w, from, to), from \in Holding <=> to \in Holding,
         UNCHANGED <<busy, ui, menu>>
  PROVE  OneOperation' /\ ClickAlone'
<1>1. \A v \in Workers : work'[v] \in Holding <=> work[v] \in Holding
  BY DEF Goto, BusyInv, TypeOK
<1> QED
  BY <1>1 DEF BusyInv, OneOperation, ClickAlone, AnyHolds

(* busy passes from the click to its goroutine, and is cleared at its end. *)
LEMMA BusyStep ==
  ASSUME BusyInv, [Next]_vars
  PROVE  OneOperation' /\ ClickAlone'
<1> USE DEF BusyInv
<1>1. CASE ShowMenu \/ CloseMenu
  BY <1>1 DEF ShowMenu, CloseMenu, OneOperation, ClickAlone, AnyHolds
<1>2. ASSUME NEW k \in Kinds, Pick(k) PROVE OneOperation' /\ ClickAlone'
  <2>1. ui = "idle" /\ k # "idle" /\ UNCHANGED work
    BY <1>2 DEF Pick, ClickAlone, Kinds
  <2>2. busy = AnyHolds
    BY <2>1 DEF OneOperation, AnyHolds
  <2> QED
    BY <1>2, <2>1, <2>2 DEF Pick, OneOperation, ClickAlone, AnyHolds
<1>3. ASSUME NEW w \in Workers, Begin(w) PROVE OneOperation' /\ ClickAlone'
  <2>1. ui \in Holding /\ busy /\ ~AnyHolds /\ ui' = "idle" /\ UNCHANGED busy
    BY <1>3 DEF Begin, ClickAlone, OneOperation, TypeOK, Holding
  <2>2. work'[w] = ui /\ \A v \in Workers \ {w} : work'[v] = work[v]
    BY <1>3 DEF Begin, TypeOK
  <2> QED
    BY <2>1, <2>2 DEF OneOperation, ClickAlone, AnyHolds
<1>4. ASSUME NEW w \in Workers, EndOperation(w) PROVE OneOperation' /\ ClickAlone'
  <2>1. /\ work[w] \in Holding /\ work'[w] \notin Holding /\ busy' = FALSE
        /\ \A v \in Workers \ {w} : work'[v] = work[v]
        /\ UNCHANGED <<ui, menu>>
    BY <1>4 DEF EndOperation, Goto, TypeOK, Holding, Kinds
  <2>2. ui = "idle" /\ \A v \in Workers : work'[v] \notin Holding
    BY <2>1 DEF OneOperation, ClickAlone, AnyHolds
  <2> QED
    BY <2>1, <2>2 DEF OneOperation, ClickAlone, AnyHolds
<1>5. ASSUME NEW w \in Workers, Operate(w) \/ AskInstalled(w) \/ SetInstalled(w)
      PROVE  OneOperation' /\ ClickAlone'
  <2>1. PICK from \in Holding, to \in Holding : Goto(w, from, to)
    BY <1>5 DEF Operate, AskInstalled, SetInstalled, Holding, Kinds
  <2> QED
    BY <1>5, <2>1, GotoKeeps DEF Operate, AskInstalled, SetInstalled, Stages
<1>6. ASSUME NEW w \in Workers, Dismiss(w) \/ Schedule(w)
      PROVE  OneOperation' /\ ClickAlone'
  <2>1. PICK from \in {"report", "schedule"}, to \in {"schedule", "free"} :
          Goto(w, from, to)
    BY <1>6 DEF Dismiss, Schedule
  <2> QED
    BY <1>6, <2>1, GotoKeeps DEF Dismiss, Schedule, Stages, Holding, Kinds
<1>7. CASE Quit
  <2>1. \A w \in Workers : work'[w] \notin Holding
    BY <1>7 DEF Quit, Holding, Kinds
  <2> QED
    BY <1>7, <2>1 DEF Quit, OneOperation, ClickAlone, AnyHolds
<1>8. CASE Tick \/ Refresher \/ Launch \/ WorldChanges \/ UNCHANGED vars
  <2>1. UNCHANGED <<ui, menu, busy, work>>
    BY <1>8 DEF Tick, Refresher, Queries, OwnSteps, LoadConfig, ReadStatus,
       ApplyStatus, ReadBoot, ApplyBoot, SaveCache, WriteCache, Launch, WorldChanges,
       vars
  <2> QED
    BY <2>1 DEF OneOperation, ClickAlone, AnyHolds
<1> QED
  BY <1>1, <1>2, <1>3, <1>4, <1>5, <1>6, <1>7, <1>8 DEF Next, Worker

LEMMA BusyInvariance == Spec => []BusyInv
<1>1. Init => BusyInv
  BY TypeInit DEF Init, BusyInv, OneOperation, ClickAlone, AnyHolds, Holding, Kinds
<1>2. BusyInv /\ [Next]_vars => BusyInv'
  BY TypeStep, BusyStep DEF BusyInv
<1> QED
  BY <1>1, <1>2, PTL DEF Spec

(* The tray runs one operation at a time, and busy says so.                *)
THEOREM OneOperationAtATime == Spec => []OneOperation
<1>1. BusyInv => OneOperation
  BY DEF BusyInv
<1> QED
  BY BusyInvariance, <1>1, PTL

-----------------------------------------------------------------------------
(* Whatever a refresh publishes in the middle of an operation it offers    *)
(* nothing.                                                                *)
LEMMA OfferStep ==
  ASSUME BusyInv, NothingOfferedMeanwhile, [Next]_vars
  PROVE  NothingOfferedMeanwhile'
<1> DEFINE Runs == \E w \in Workers : work[w] \in {"start", "stop"}
<1> USE DEF BusyInv, NothingOfferedMeanwhile
<1>0. Runs => busy
  BY DEF OneOperation, Holding, Kinds
<1>1. ASSUME NEW w \in Workers, Begin(w) PROVE NothingOfferedMeanwhile'
  <2>1. CASE ui = "boot"
    <3>1. \A v \in Workers : work'[v] \in {"start", "stop"} => work[v] = work'[v]
      BY <1>1, <2>1 DEF Begin, TypeOK
    <3>2. shown'.enabled \subseteq shown.enabled
      BY <1>1, <2>1 DEF Begin, TypeOK
    <3> QED
      BY <3>1, <3>2
  <2>2. CASE ui # "boot"
    BY <1>1, <2>2 DEF Begin, TypeOK
  <2> QED
    BY <2>1, <2>2
<1>2. ASSUME NEW w \in Workers, Worker(w), ~Begin(w) PROVE NothingOfferedMeanwhile'
  <2>1. UNCHANGED shown
    BY <1>2 DEF Worker, Operate, AskInstalled, SetInstalled, EndOperation, Dismiss,
       Schedule
  <2>2. \A v \in Workers : work'[v] \in {"start", "stop"} => work[v] = work'[v]
    BY <1>2 DEF Worker, Operate, AskInstalled, SetInstalled, EndOperation, Dismiss,
       Schedule, Goto, TypeOK
  <2> QED
    BY <2>1, <2>2
<1>3. CASE LoadConfig \/ ApplyStatus \/ ApplyBoot
  <2>1. UNCHANGED work
    BY <1>3 DEF LoadConfig, ApplyStatus, ApplyBoot
  <2>2. CASE UNCHANGED shown
    BY <2>1, <2>2
  <2>3. CASE Show(FALSE, FALSE) \/ Show(seen = "up", TRUE)
    BY <1>0, <2>1, <2>3, ShowType
  <2>4. CASE shown' = Nothing
    BY <2>4 DEF Nothing
  <2>5. CASE ApplyBoot
    <3>1. shown'.enabled = Enabled(shown.running, shown.valid, busy)
      BY <2>5 DEF ApplyBoot, TypeOK
    <3> QED
      BY <1>0, <2>1, <3>1 DEF Enabled
  <2> QED
    BY <1>3, <2>2, <2>3, <2>4, <2>5 DEF LoadConfig, ApplyStatus, Configs, TypeOK
<1>4. CASE Quit
  BY <1>4 DEF Quit, Nothing
<1>5. CASE Launch
  <2>1. UNCHANGED work
    BY <1>5 DEF Launch
  <2>2. busy => shown'.enabled = {}
    BY <1>5 DEF Launch, Enabled, Nothing
  <2> QED
    BY <1>0, <2>1, <2>2
<1>6. CASE ShowMenu \/ CloseMenu \/ (\E k \in Kinds : Pick(k)) \/ Tick \/ ReadStatus
           \/ ReadBoot \/ SaveCache \/ WriteCache \/ WorldChanges \/ UNCHANGED vars
  <2>1. UNCHANGED <<work, shown>>
    BY <1>6 DEF ShowMenu, CloseMenu, Pick, Tick, ReadStatus, ReadBoot, SaveCache,
       WriteCache, WorldChanges, vars
  <2> QED
    BY <2>1
<1> QED
  BY <1>1, <1>2, <1>3, <1>4, <1>5, <1>6 DEF Next, Refresher, Queries,
     OwnSteps

(* While Start or Stop runs neither is offered, although a refresh that    *)
(* began before the operation publishes its result in the middle of it.    *)
THEOREM NothingOffered == Spec => []NothingOfferedMeanwhile
<1>1. Init => NothingOfferedMeanwhile
  BY DEF Init, NothingOfferedMeanwhile, Nothing
<1>2. BusyInv /\ NothingOfferedMeanwhile /\ [Next]_vars => NothingOfferedMeanwhile'
  BY OfferStep
<1> QED
  BY <1>1, <1>2, BusyInvariance, PTL DEF Spec
=============================================================================
