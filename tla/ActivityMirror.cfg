SPECIFICATION FairSpec
CONSTANTS
  MaxActivities = 3
  Overlap = 1
  RingSize = 1
  MaxPages = 2
  MaxFaults = 2
  Faults = {"crash", "unread", "lost", "response", "comments"}
INVARIANTS
  NothingSkipped
PROPERTIES
  MirroredInTheEnd
CHECK_DEADLOCK FALSE
