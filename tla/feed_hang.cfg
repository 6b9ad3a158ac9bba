\* Three matches, of which the watcher may hold two, and nothing else goes wrong.
SPECIFICATION FairSpec
CONSTANTS
  MaxId = 3
  MaxTracked = 1
  MaxHeld = 2
  BatchLimit = 2
  MaxBirths = 3
  MaxDeletes = 0
  MaxFailures = 0
  MaxRestarts = 0
CHECK_DEADLOCK FALSE
PROPERTIES HeldIsReleased
