\* Blocks only: reorgs, blocks handed out of order, restarts of the source.
CONSTANTS
  None = None
  Chains <- MCChains
  o = o
  Forks = {0}
  MinHeight = 1
  MaxHeight = 4
  Txs = {o}
  Contents = {{}, {o}}
  SlotOf <- OneSlot
  Tracked = {o}
  Thresholds = {2}
  Confirmations = 2
  Retention = 1
  ReorgDepth = 2
  WithReceipts = {}
  Every <- NoPolls
  PollsFail = FALSE
  Reorgs = TRUE
  InOrder = FALSE
  Pools <- NoPools
  CapsChanges <- OnlyProbe
  MaxAdopts = 3
  MaxHandOuts = 4
  MaxRestarts = 1
  MaxRecords = 1
  MaxInFlight = 0
SPECIFICATION Spec
INVARIANTS ConfirmedOnce SeenInRing
PROPERTIES VanishedNamesSeen
CHECK_DEADLOCK FALSE
