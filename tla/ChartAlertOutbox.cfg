SPECIFICATION FairSpec
CONSTANTS
  d1 = d1
  d2 = d2
  e1 = e1
  e2 = e2
  w1 = w1
  w2 = w2
  NoEvent = NoEvent
  Events = {e1, e2}
  Dispatchers = {d1, d2}
  Writers = {w1}
  MaxSpoolFiles = 1
  Limit = 1
  MaxCrashes = 1
INVARIANTS
  AttemptedOnce
  StatusIsTrue
  SpoolNeverBlocks
PROPERTIES
  NothingIsLost
  ImplementsOneShot
  EveryEventIsSettled
