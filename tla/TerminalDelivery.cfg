SPECIFICATION Spec
CONSTANTS
  MaxHeads = 2
  MaxQuestions = 0
  MaxFaults = 2
  Faults = {"crash", "response", "unread", "late_wake", "late_push"}
INVARIANTS
  MessagesSentOnce
  NoConfirmationBesidePr
CHECK_DEADLOCK FALSE
