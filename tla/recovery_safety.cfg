SPECIFICATION Spec
CONSTANTS
  Horizon = 3
  MaxMessages = 2
  Locks = 1
  Drops = 0
  Disconnects = 1
  Fetches = 1
  Crashes = 0
  Reloads = 2
  Edits = 2
  Ages = 0
CHECK_DEADLOCK FALSE
INVARIANTS LiveNotForgotten NoRetroactive
