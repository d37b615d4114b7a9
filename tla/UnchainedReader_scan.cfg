CONSTANTS
  q1 = q1
  q2 = q2
  k1 = k1
  k2 = k2
  None = None
  Queries = {q1, q2}
  Chunks = {k1, k2}
  Manifests <- TwoManifests
  Address = 2
  BlockRange <- Range23
  BitsOf <- Bits
  Limit <- OneSlotEach
  MaxRetries = 1
  Answers = {"whole", "garbled"}
  Abortable = {q1}
SPECIFICATION FairSpec
INVARIANTS Complete LanesBusy
PROPERTIES QueryEnds
CHECK_DEADLOCK FALSE
