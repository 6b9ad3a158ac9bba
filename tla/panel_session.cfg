SPECIFICATION Spec
CONSTANTS
  Tabs = {tabA, tabB}
  Writes = {save, erase}
  MaxSessions = 2
  MaxFaults = 1
  tabA = tabA
  tabB = tabB
  save = save
  erase = erase
CHECK_DEADLOCK FALSE
SYMMETRY Interchangeable
INVARIANTS AppliedAtMostOnce WaitersHaveAPrompt
