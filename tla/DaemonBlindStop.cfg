\* The daemon, a client that stops its tunnel, and a resolv.conf that is a plain file.
SPECIFICATION DSpec
CONSTANTS
  Ops = {o1, o2}
  Pids = {q1, q2}
  Faults = {"crash", "cancel", "cmdfail", "blind"}
  OrigEtcs = {"file"}
  OrigRoutes = {"orig"}
  HasEth0 = TRUE
  DisableAutoResolv = TRUE
  TerminateOnStop = TRUE
  NoOp = NoOp
  Stale = Stale
  NoPid = NoPid
  MaxAccidents = 1
INVARIANT DaemonKeepsEtc
SYMMETRY Symmetry
CHECK_DEADLOCK FALSE
