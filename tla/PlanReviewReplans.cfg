SPECIFICATION Spec
CONSTANTS
  MaxPlans = 2
  MaxRevs = 4
  MaxFaults = 2
  Faults = {"crash", "canonical"}
  Verdicts = {"approved", "override"}
  SpontaneousReplans = TRUE
  ReplansAfterApproval = TRUE
INVARIANTS
  StartupNeverConflicts
PROPERTIES
  ReadPlanIsReviewed
