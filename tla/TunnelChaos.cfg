\* Clients that are cut off and locks removed by hand, so that scripts overlap.
SPECIFICATION Spec
CONSTANTS
  Ops = {o1, o2}
  Pids = {q1, q2}
  Faults = {"crash", "cancel", "unlock", "die", "shutdown", "edit"}
  OrigEtcs = {"rel"}
  OrigRoutes = {"orig"}
  HasEth0 = FALSE
  DisableAutoResolv = FALSE
  TerminateOnStop = TRUE
  NoOp = NoOp
  Stale = Stale
  NoPid = NoPid
SYMMETRY Symmetry
INVARIANT TypeOK
INVARIANT LockIsItsClients
