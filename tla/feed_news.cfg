\* Matches in two rows; the watcher takes one new row at a time, may hold one and
\* compares one, so that each of its caps is met.
SPECIFICATION FairSpec
CONSTANTS
  MaxId = 2
  MaxTracked = 1
  MaxHeld = 1
  BatchLimit = 1
  MaxBirths = 3
  MaxDeletes = 1
  MaxFailures = 1
  MaxRestarts = 1
CHECK_DEADLOCK FALSE
INVARIANTS HistoryIsNotNews
PROPERTIES ToldOnce NewsIsPublished OutcomeIsShown
