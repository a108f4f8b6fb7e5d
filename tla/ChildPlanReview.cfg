SPECIFICATION FairSpec
CONSTANTS
  MaxPlans = 2
  MaxRevs = 3
  MaxFaults = 1
  Faults = {"crash", "lost", "response", "history", "drift", "replan", "fail", "pause", "cancel", "run", "override", "edit"}
INVARIANTS
  DecidedStaysDecided
PROPERTIES
  DecidedOnce ImplementsPlanGate ReviewSettles
CHECK_DEADLOCK FALSE
