\* One goroutine; queries may fail, but not for ever where the display is to converge.
SPECIFICATION FairSpec
CONSTANTS
  Workers = {w1}
  StatusFails = TRUE
  Closed = Closed
  NoCache = NoCache
PROPERTY DisplayConverges
