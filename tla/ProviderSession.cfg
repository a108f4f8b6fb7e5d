SPECIFICATION FairSpec
CONSTANTS
  MaxSessions = 4
  MaxIntents = 5
  ResumeAttempts = 2
  MaxDrops = 1
  MaxFaults = 1
  Faults = {"crash", "lost", "response", "list", "disk", "handle", "handle_read", "envelope", "lookup"}
INVARIANTS
  OneTaskSession LiveSessionKnown
PROPERTIES
  NoTaskSessionBesidePr CreatedIsAdopted
