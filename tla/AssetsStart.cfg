\* Start alone, three clients in turn: each may fail or die anywhere.
SPECIFICATION Spec
CONSTANTS
  Starters = {s1, s2, s3}
  Doctors = {}
  Size = 4
CHECK_DEADLOCK FALSE
INVARIANT TypeOK
INVARIANT CachedIsWhole
