SPECIFICATION Spec
CONSTANTS
  s1 = s1
  s2 = s2
  c1 = c1
  c2 = c2
  A = A
  B = B
  Servers = {s1, s2}
  Clients = {c1, c2}
  AccountNames = {A, B}
  Amounts = {1}
  Half = 8
  PENDING_TRANSFER_SIZE_LIMIT = 2
  LockChoices = {"None"}
  Transports = {"queue"}
  CommandTypes = {"inject", "close"}
  UnlockedCommands = {"inject", "close"}
  InitialAmounts <- OneEach
  MaxCommands = 4
  MaxBroadcasts = 0
SYMMETRY Symmetry
INVARIANTS TotalIsSum
CHECK_DEADLOCK FALSE
