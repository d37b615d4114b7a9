\* HTTP polling, adaptive, with a live chain: stop() and start() at any moment.
CONSTANTS
  None = None
  MaxHeight = 2
  Forks = {f1}
  GarbledForks = {}
  Txs = {}
  Resident = {}
  Options <- NoMempool
  Shapes = {"unavailable"}
  Slots = {s1, s2}
  TimerIds = {t1, t2}
  RetryCap = 0
  MaxHeads = 2
  MaxStarts = 2
  MaxPolls <- NoPolls
SPECIFICATION FairSpec
PROPERTIES Quiesces CatchesUp
CHECK_DEADLOCK FALSE
