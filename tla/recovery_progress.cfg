SPECIFICATION FairSpec
CONSTANTS
  Horizon = 3
  MaxMessages = 3
  Locks = 1
  Drops = 1
  Disconnects = 0
  Fetches = 1
  Crashes = 1
  Reloads = 0
  Edits = 0
  Ages = 1
CHECK_DEADLOCK FALSE
PROPERTIES TakenIsDecided
