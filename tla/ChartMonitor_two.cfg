SPECIFICATION FairSpec
CONSTANTS
  Servers = {a, b}
  Slots = {k1}
  Watches = {w1}
  Patterns = {p1}
  WatchLimit = 1
  MaxControls = 1
  MaxPolls = 2
  MaxErrors = 0
  MaxFileErrors = 0
  MaxCrashes = 1
  Free = Free
  Dead = Dead
  Nobody = Nobody
  Tick = Tick
  Kept = Kept
INVARIANTS KnownIsAccountedFor
PROPERTIES ImplementsLeaseUntilCrash RunningIsPolled
