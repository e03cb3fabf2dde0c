SPECIFICATION Spec
CONSTANTS
  p1 = p1
  p2 = p2
  Programs = {p1, p2}
  Parts <- AllParts
  Amounts = {6}
  StartAmount = 10
  PendingLimit = 2
  SupportsExtraData = TRUE
  MaxLength = 4
  MaxRestarts = 1
SYMMETRY Symmetry
INVARIANTS TypeOK StateIsFold PendingIsLimited
PROPERTIES ImplementsBank
CHECK_DEADLOCK FALSE
