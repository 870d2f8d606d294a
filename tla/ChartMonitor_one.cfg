SPECIFICATION Spec
CONSTANTS
  Servers = {a}
  Slots = {k1, k2}
  Watches = {w1, w2}
  Patterns = {p1}
  WatchLimit = 1
  MaxControls = 2
  MaxPolls = 2
  MaxErrors = 1
  MaxFileErrors = 1
  MaxCrashes = 0
  Free = Free
  Dead = Dead
  Nobody = Nobody
  Tick = Tick
  Kept = Kept
INVARIANTS NoLostUpdate PollerIsArmed
PROPERTIES KnownIsNotRespooled
SYMMETRY RequestSymmetry
