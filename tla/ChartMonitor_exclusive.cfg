SPECIFICATION Spec
CONSTANTS
  Servers = {a, b}
  Slots = {k1}
  Watches = {w1}
  Patterns = {p1}
  WatchLimit = 1
  MaxControls = 2
  MaxPolls = 2
  MaxErrors = 0
  MaxFileErrors = 0
  MaxCrashes = 0
  Free = Free
  Dead = Dead
  Nobody = Nobody
  Tick = Tick
  Kept = Kept
INVARIANTS PollingIsExclusive
SYMMETRY ServerSymmetry
