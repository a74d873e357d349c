\* The daemon and one more client.
SPECIFICATION DFairSpec
CONSTANTS
  Ops = {o1, o2}
  Pids = {q1, q2}
  Faults = {"crash", "cancel", "unlock", "cmdfail", "die", "terminate", "blind"}
  OrigEtcs = {"link"}
  OrigRoutes = {"orig"}
  HasEth0 = TRUE
  DisableAutoResolv = TRUE
  TerminateOnStop = TRUE
  NoOp = NoOp
  Stale = Stale
  NoPid = NoPid
  MaxAccidents = 2
CHECK_DEADLOCK FALSE
INVARIANT FinalStopRestores
INVARIANT DaemonKeepsEtc
PROPERTY TunnelRecovers
PROPERTY InterruptEnds
