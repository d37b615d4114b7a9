\* Every poll, the receipts of a block awaited, records dropped and tracked again.
CONSTANTS
  None = None
  Chains <- MCChains
  o = o
  Forks = {0}
  MinHeight = 1
  MaxHeight = 3
  Txs = {o}
  Contents = {{}, {o}}
  SlotOf <- OneSlot
  Tracked = {o}
  Thresholds = {2}
  Confirmations = 2
  Retention = 1
  ReorgDepth = 2
  WithReceipts = {o}
  Every <- AllPolls
  PollsFail = TRUE
  Reorgs = TRUE
  InOrder = FALSE
  Pools <- NoPools
  CapsChanges <- NoChanges
  MaxAdopts = 2
  MaxHandOuts = 3
  MaxRestarts = 0
  MaxRecords = 2
  MaxInFlight = 1
SPECIFICATION Spec
INVARIANTS ViewsAgree
PROPERTIES StoppedIsFinal
CHECK_DEADLOCK FALSE
