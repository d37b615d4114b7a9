\* A group and the helpers over a tracker that misses blocks: what stays mined ends them.
CONSTANTS
  None = None
  Chains <- MCChains
  o = o
  q = q
  r = r
  Forks = {0}
  MinHeight = 1
  MaxHeight = 3
  Txs = {o, q, r}
  Contents = {{}, {o}, {q}}
  SlotOf <- TwoSlots
  Tracked = {o, q}
  Thresholds = {2}
  Confirmations = 2
  Retention = 3
  ReorgDepth = 2
  WithReceipts = {o}
  Every <- StatusPoll
  PollsFail = FALSE
  Reorgs = TRUE
  InOrder = TRUE
  Pools <- Rival
  CapsChanges <- NoChanges
  MaxAdopts = 2
  MaxHandOuts = 3
  MaxRestarts = 0
  MaxRecords = 1
  MaxInFlight = 0
  Uses <- AllUses
  Shared = {o}
  Needed = 1
  TimeoutBlocks = 2
  Reverts = {o}
SPECIFICATION FairSpec
PROPERTIES Settles
CHECK_DEADLOCK FALSE
