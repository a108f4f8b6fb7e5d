SPECIFICATION FairSpec
CONSTANTS
  MaxHeads = 1
  MaxQuestions = 1
  MaxFaults = 1
  Faults = {"crash", "lost", "response", "unread", "late_rule", "late_run"}
PROPERTIES
  TerminalWorkSettles
CHECK_DEADLOCK FALSE
