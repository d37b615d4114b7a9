SPECIFICATION Spec
CONSTANTS
  None = None
  Sent = {s}
  Watched = {h}
  Manual = {"confirmed"}
  MaxItems = 1
  Retention = 0
  WithReceipts = FALSE
  Resumes = TRUE
  AnswersFirst = TRUE
  MaxStores = 2
  MaxWork = 3
  MaxNow = 1
INVARIANTS WatchersOwned RemovedStays 
PROPERTIES EvictsSettledFirst
CHECK_DEADLOCK FALSE
