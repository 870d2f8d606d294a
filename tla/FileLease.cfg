SPECIFICATION FairSpec
CONSTANTS
  p1 = p1
  p2 = p2
  p3 = p3
  NoFile = NoFile
  Pids = {p1, p2, p3}
  MaxCrashes = 2
  MaxErrors = 1
  CleansUp = TRUE
PROPERTIES
  ImplementsLeaseUntilCrash
  StaleLockIsRecovered
