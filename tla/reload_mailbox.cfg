SPECIFICATION FairSpec
CONSTANTS
  Sources = {"s1", "s2"}
  Rules = {"r1", "r2", "r2target"}
  Recipients = {"p1"}
  Hashed <- MCHashed
  Budget <- MCBudget
  Edits = 2
  Locks = 1
  Refusals = 1
  Disconnects = 1
  Crashes = 1
CHECK_DEADLOCK FALSE
INVARIANTS NoticeIsHonest ReloadOwnsTheRow
PROPERTIES RequestIsServed RequestIsSettled
