SPECIFICATION Spec
CONSTANTS
  s1 = s1
  s2 = s2
  c1 = c1
  c2 = c2
  A = A
  B = B
  Servers = {s1, s2}
  Clients = {c1, c2}
  AccountNames = {A, B}
  Amounts = {1}
  Half = 8
  PENDING_TRANSFER_SIZE_LIMIT = 2
  LockChoices = {"None", "Compound", "Local"}
  Transports = {"queue", "broadcast"}
  CommandTypes = {"transfer", "process", "inject", "close"}
  UnlockedCommands = {"transfer", "inject"}
  InitialAmounts <- OneEach
  MaxCommands = 4
  MaxBroadcasts = 2
SYMMETRY Symmetry
INVARIANTS TypeOK TotalIsSum
PROPERTIES ActsOnWhatClientSaw CarriedOutOnce ImplementsBank
CHECK_DEADLOCK FALSE
