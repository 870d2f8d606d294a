SPECIFICATION FairSpec
CONSTANTS
  old = old
  web = web
  cli = cli
  Procs = {old, web, cli}
  Supports <- MCSupports
  Adds = {3, 5}
  Statements = 2
  Initial = {0, 1, 2, 4}
  Together = FALSE
  MaxFailures = 2
INVARIANTS VersionTellsSchema RerunSucceeds
PROPERTIES SchemaBecomesCurrent
CHECK_DEADLOCK FALSE
