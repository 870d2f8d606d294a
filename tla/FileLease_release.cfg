SPECIFICATION Spec
CONSTANTS
  p1 = p1
  p2 = p2
  p3 = p3
  NoFile = NoFile
  Pids = {p1, p2, p3}
  MaxCrashes = 1
  MaxErrors = 0
  CleansUp = TRUE
PROPERTIES
  ReleaseIsOwn
