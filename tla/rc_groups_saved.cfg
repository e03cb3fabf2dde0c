SPECIFICATION Spec
CONSTANTS
  m1 = m1
  t1 = t1
  c1 = c1
  c2 = c2
  Facilities = {m1}
  Tools = {}
  Calculators = {c1, c2}
  Groups = {0, 1}
  useTheseGroups <- SplitGroups
  Values = {"positive"}
  Limit = 2
  AcceptWindow = 0
  ResponseWindow = 0
  SupportsExtraData = TRUE
  StartTime = 1
  MaxTime = 2
  MaxId = 2
  MaxCrashes = 1
  LastCrashTime = 2
  MaxSaves = 1
INVARIANTS ServedRequestsKnown
CHECK_DEADLOCK FALSE
