\* Two operations can be on their way at a time: one reports, the next one runs.
SPECIFICATION Spec
CONSTANTS
  Workers = {w1, w2}
  StatusFails = TRUE
  Closed = Closed
  NoCache = NoCache
SYMMETRY Symmetry
INVARIANT TypeOK
INVARIANT OneOperation
INVARIANT NothingOfferedMeanwhile
