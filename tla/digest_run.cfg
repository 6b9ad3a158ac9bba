\* Two recipients and a digest of one match: a second pending match overflows.
SPECIFICATION FairSpec
CONSTANTS
  Recipient = {"p1", "p2"}
  TopN = 1
  Days = 2
  MaxId = 2
  MaxBirths = 2
  Faults = 1
  Deletions = 1
  Edits = 1
INVARIANTS ItemAtMostOnce OneDigestADay SentIsHonest BlockedStaysPending
PROPERTIES QueueIsTaken
