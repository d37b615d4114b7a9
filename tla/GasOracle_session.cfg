\* Two consumers, a tab, a reorganising node with fetches that fail: listening and the ring.
CONSTANTS
  None = None
  Chains <- MCChains
  Consumers = {c1, c2}
  Options <- MixedOptions
  Window = 2
  FetchFails = TRUE
  Slots = {s1, s2}
  MaxAdopts = 2
  MaxHandOuts = 3
  MaxStarts = 1
  MaxPolls = 1
  Forks = {0, 1}
  MinHeight = 1
  MaxHeight = 3
SPECIFICATION Spec
INVARIANTS TypeOK ListensWhenWanted QuietWhenUnwanted RingWhole ReorgReal
PROPERTIES BridgeJoins
SYMMETRY Symmetry
CHECK_DEADLOCK FALSE
