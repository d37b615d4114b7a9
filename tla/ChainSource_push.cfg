\* One session: adaptive with the mempool stream and without, and at intervals with
\* pollOnce(); polls, pushes and failed subscribes overlapping, garbled block numbers.
CONSTANTS
  None = None
  MaxHeight = 2
  Forks = {f1, f2}
  GarbledForks = {f2}
  Txs = {a}
  Resident = {}
  Options <- EveryPush
  Shapes = {"subscription", "unavailable"}
  Slots = {s1, s2}
  TimerIds = {t1, t2}
  RetryCap = 2
  MaxHeads = 2
  MaxStarts = 1
  MaxPolls <- PollsAtIntervals
SPECIFICATION Spec
INVARIANTS NoRepeat GateSound   
PROPERTIES FeedSpec
SYMMETRY Symmetry
CHECK_DEADLOCK FALSE
