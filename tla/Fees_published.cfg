\* Blocks of two forks in any order, three mempools, four configurations.
CONSTANTS
  None = None
  Ids <- MCIds
  Wad = 8
  DecayCap = 4
  LivenessBlocks = 1
  Blocks <- MCBlocks
  BaseFeeOf <- MCBaseFeeOf
  TxsOf <- MCTxsOf
  Pools <- MCPools
  FeeHistories <- MCFeeHistories
  Window = 2
  Configs <- MixedConfigs
SPECIFICATION Spec
INVARIANTS TiersAscend InverseRank BumpOutbids
CHECK_DEADLOCK FALSE
