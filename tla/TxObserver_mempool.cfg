\* Mempool snapshots of a transaction and its replacement, between blocks.
CONSTANTS
  None = None
  Chains <- MCChains
  o = o
  r = r
  Forks = {0}
  MinHeight = 1
  MaxHeight = 4
  Txs = {o, r}
  Contents = {{}, {o}, {r}}
  SlotOf <- OneSlot
  Tracked = {o}
  Thresholds = {2}
  Confirmations = 2
  Retention = 2
  ReorgDepth = 2
  WithReceipts = {}
  Every <- NoPolls
  PollsFail = FALSE
  Reorgs = TRUE
  InOrder = TRUE
  Pools <- AllPools
  CapsChanges <- NoChanges
  MaxAdopts = 3
  MaxHandOuts = 4
  MaxRestarts = 0
  MaxRecords = 1
  MaxInFlight = 0
SPECIFICATION Spec
INVARIANTS TerminalTold 
PROPERTIES  TerminalAnchored
CHECK_DEADLOCK FALSE
