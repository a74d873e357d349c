\* Addresses of 8 bits, with every prefix.  A call returns and is over.
SPECIFICATION Spec
CONSTANTS
  W = 2
  Size = 4
  Short = 2
CHECK_DEADLOCK FALSE
INVARIANT GatewayIsFirstHost
INVARIANT SuffixesAreNormal
INVARIANT AssetIsBest
INVARIANT DistrosAreRead
INVARIANT PathsAreAbsolute
INVARIANT TrayIsFound
INVARIANT UserLinesAreKept
