\* Four processes: two late releases, the current holder and a newcomer.
SPECIFICATION Spec
CONSTANTS
  Procs = {p1, p2, p3, p4}
  NoProc = NoProc
  HandlePins = TRUE
INVARIANT MutualExclusion
PROPERTY HolderKeepsFile
PROPERTY ImplementsMutex
