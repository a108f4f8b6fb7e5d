\* Two heads and one fault.
SPECIFICATION FairSpec
CONSTANTS
  MaxHeads = 2
  MaxFaults = 1
INVARIANTS
  LadderInOrder
  MergeCardNeedsBothVerdicts
PROPERTIES
  MergedEndsDone
  HeadsReachTheirEnd
\* The issue is done.
CHECK_DEADLOCK FALSE
