\* Start and doctor at the same time.
SPECIFICATION Spec
CONSTANTS
  Starters = {s1}
  Doctors = {d1}
  Size = 3
CHECK_DEADLOCK FALSE
INVARIANT CachedIsWhole
