SPECIFICATION FairSpec
CONSTANTS
  s1 = s1
  s2 = s2
  Servers = {s1, s2}
  Queue = s1
  MaxRegistrations = 3
  MaxCrashes = 2
  MaxLate = 1
  MaxOthers = 1
INVARIANTS TypeOK CleanExit
PROPERTIES ExitEnds
CHECK_DEADLOCK FALSE
