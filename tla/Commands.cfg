\* Two processes, two gateways and two interfaces; every command.
SPECIFICATION Spec
CONSTANTS
  p1 = p1
  p2 = p2
  Procs = {p1, p2}
  May <- Roles
  Files <- SomeFiles
  FlagSets <- SomeFlags
  Ifaces <- Names
  Gateways <- Addrs
  Unset = Unset
  Absent = Absent
  Broken = Broken
INVARIANT TypeOK
INVARIANT ExitTwoIsHarmless
INVARIANT ConfigNotInvented
PROPERTY RouteLostOnlyByReconfiguring
