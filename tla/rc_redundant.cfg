SPECIFICATION FairSpec
CONSTANTS
  m1 = m1
  t1 = t1
  c1 = c1
  c2 = c2
  Facilities = {m1}
  Tools = {}
  Calculators = {c1, c2}
  Groups = {0, 1}
  useTheseGroups <- OverlappingGroups
  Values = {"positive"}
  Limit = 2
  AcceptWindow = 1
  ResponseWindow = 1
  SupportsExtraData = FALSE
  StartTime = 2
  MaxTime = 5
  MaxId = 1
  MaxCrashes = 1
  LastCrashTime = 3
  MaxSaves = 1
INVARIANTS TypeOK ConfirmedOnce OneCompletion FashionIsTrue WindowsRespected FinalOutputReachesChain
PROPERTIES ImplementsLifecycle RequestsComplete
CHECK_DEADLOCK FALSE
