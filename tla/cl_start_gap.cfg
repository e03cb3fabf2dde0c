SPECIFICATION FairSpec
CONSTANTS
  s1 = s1
  s2 = s2
  op = op
  none = none
  Servers = {s1, s2}
  Operator = op
  Nobody = none
  OperatorActs = FALSE
  QuietStart = FALSE
  MaxLog = 3
  MaxCrashes = 0
  MaxLost = 0
PROPERTIES TurnIsSeen
CHECK_DEADLOCK FALSE
