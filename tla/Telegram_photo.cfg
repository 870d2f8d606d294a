SPECIFICATION FairSpec
CONSTANTS
  Processors = {p}
  Writers = {w}
  Kinds = {"other", "task", "note", "image", "captioned", "lookup", "pick", "status", "next", "all", "reset"}
  KeepLast = 1
  Blocks = 3
  PageSize = 2
  Fit = 2
  MaxUpdates = 2
  MaxFailures = 1
  MaxDeliveries = 0
INVARIANTS StoredIsAcknowledged
CHECK_DEADLOCK FALSE
