SPECIFICATION FairSpec
CONSTANTS
  Servers = {a}
  Slots = {k1, k2}
  Watches = {w1}
  Patterns = {p1}
  WatchLimit = 1
  MaxControls = 0
  MaxPolls = 0
  MaxErrors = 0
  MaxFileErrors = 0
  MaxCrashes = 0
  Free = Free
  Dead = Dead
  Nobody = Nobody
  Tick = Tick
  Kept = Kept
PROPERTIES RunningIsPolled
