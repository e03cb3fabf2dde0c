SPECIFICATION Spec
CONSTANTS
  u1 = u1
  u2 = u2
  x = x
  y = y
  k = k
  none = none
  Users = {u1, u2}
  Names = {k}
  Values = {x, y}
  InitialValue = x
  Backends = {"table", "list", "rocks"}
  MaxVersion = 2
  MaxCrashes = 1
SYMMETRY Symmetry
INVARIANTS TypeOK CopyIsDatabase SubscribersAgree
PROPERTIES ReplacesWhatUserSaw
CHECK_DEADLOCK FALSE
