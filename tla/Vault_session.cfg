CONSTANTS
  None = None
  Accounts = {a, b}
  Slots = {h1, h2}
  Backends = {"memory", "redis"}
  NonceTtl = 1
  SessionTtl = 0
  MaxNow = 1
  MaxNonces = 2
  MaxSessions = 2
  MaxNotes = 1
  MaxDerivations = 2
  MaxResends = 1
  MaxRestarts = 1
SPECIFICATION Spec
INVARIANTS StoredReadable
PROPERTIES LedgerSpec
SYMMETRY Symmetry
CHECK_DEADLOCK FALSE
