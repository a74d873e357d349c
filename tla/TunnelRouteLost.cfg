\* The forwarder dies and Start is run again.
SPECIFICATION Spec
CONSTANTS
  Ops = {o1, o2}
  Pids = {q1, q2}
  Faults = {"die"}
  OrigEtcs = {"link"}
  OrigRoutes = {"orig"}
  HasEth0 = TRUE
  DisableAutoResolv = TRUE
  TerminateOnStop = FALSE
  NoOp = NoOp
  Stale = Stale
  NoPid = NoPid
SYMMETRY Symmetry
INVARIANT RouteRecoverable
