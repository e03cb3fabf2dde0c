SPECIFICATION MainSpec
CONSTANTS
  m1 = m1
  t1 = t1
  c1 = c1
  Facilities = {m1}
  Self = m1
  Tools = {t1}
  Calculators = {c1}
  Groups = {0}
  useTheseGroups <- AllGroups
  Values = {"negative"}
  Limit = 1
  AcceptWindow = 0
  ResponseWindow = 0
  SupportsExtraData = FALSE
  StartTime = 1
  MaxTime = 2
  MaxId = 2
  MaxKeys = 1
  MaxOthers = 1
  MaxCrashes = 1
  LastCrashTime = 1
  MaxSaves = 1
INVARIANTS MainTypeOK UniqueIds AnswersAreOneStory
PROPERTIES FacilityRespectsLimit
CHECK_DEADLOCK FALSE
