\* A history and a queue of two events, against the 200 and 100 of the code: an
\* eviction, a gap and a replay then need few events.
SPECIFICATION FairSpec
CONSTANTS
  Publisher = {"loop", "thread"}
  HistorySize = 2
  QueueSize = 2
  MaxEvents = 4
  MaxDrops = 2
  MaxRestarts = 1
CHECK_DEADLOCK FALSE
PROPERTIES NothingIsSkipped
