SPECIFICATION FairSpec
CONSTANTS
  s1 = s1
  s2 = s2
  op = op
  none = none
  Servers = {s1, s2}
  Operator = op
  Nobody = none
  OperatorActs = TRUE
  QuietStart = TRUE
  MaxLog = 3
  MaxCrashes = 2
  MaxLost = 1
INVARIANTS TypeOK MutualExclusion LockVersionCoversPast OwnerSeesLatestData
PROPERTIES LockoutFree ImplementsFifoLock
CHECK_DEADLOCK FALSE
