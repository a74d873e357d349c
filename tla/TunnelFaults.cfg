\* Crashes, failing commands, a dying forwarder, reused pids, terminated distros.
SPECIFICATION FairSpec
CONSTANTS
  Ops = {o1, o2}
  Pids = {q1, q2}
  Faults = {"crash", "cmdfail", "unnoticed", "die", "reuse", "terminate"}
  OrigEtcs = {"link", "file"}
  OrigRoutes = {"none", "orig", "other", "blackhole"}
  HasEth0 = TRUE
  DisableAutoResolv = TRUE
  TerminateOnStop = FALSE
  NoOp = NoOp
  Stale = Stale
  NoPid = NoPid
INVARIANT EtcRecoverable
INVARIANT OtherNetworkRespected
INVARIANT ScriptsExclusive
INVARIANT BackupsNeverTunnel
INVARIANT StopLeavesNoTunnel
PROPERTY ImplementsMutex
PROPERTY RouteLostInTwoPlaces
PROPERTY OperationCompletes
