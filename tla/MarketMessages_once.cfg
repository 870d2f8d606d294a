SPECIFICATION FairSpec
CONSTANTS
  Loop = loop
  Others = {task}
  Slots = {mood}
  MaxNotices = 3
  Page = 2
  Attempts = 2
  MaxFaults = 1
  MaxRepeats = 1
INVARIANTS OneAlertPerNumber

CHECK_DEADLOCK FALSE
