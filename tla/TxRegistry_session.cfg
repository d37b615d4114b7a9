CONSTANTS
  c1 = c1
  c2 = c2
  b1 = b1
  h1 = h1
  h2 = h2
  None = None
  Hashes = {h1}
  Consumers = {c1, c2}
  Bulks = {b1}
  Callback <- OwnCallbacks
  Durable = {c1}
  Ids <- NoIds
  Iterating = {c2}
  Matches <- MatchAll
  AutoTrack = {b1}
  MaxBulk = 1
  Legacy <- Leftover
  Final = 2
  Polled = {h1}
  Receipts = {h1}
  Patient = TRUE
  Prompt = TRUE
  Tidy = TRUE
  MaxLives = 2
  MaxParked = 1
  MaxQueued = 1
SPECIFICATION Spec
INVARIANTS  OneStream DurableKept 
CHECK_DEADLOCK FALSE
