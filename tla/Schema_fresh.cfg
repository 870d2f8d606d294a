SPECIFICATION Spec
CONSTANTS
  old = old
  web = web
  cli = cli
  Procs = {old, web, cli}
  Supports <- MCSupports
  Adds = {3, 5}
  Statements = 2
  Initial = {0}
  Together = TRUE
  MaxFailures = 0
INVARIANTS RerunSucceeds
CHECK_DEADLOCK FALSE
