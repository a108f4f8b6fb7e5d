SPECIFICATION FairSpec
CONSTANTS
  MaxPlans = 2
  MaxRevs = 3
  MaxFaults = 1
  Faults = {"crash", "request_lost", "response_lost", "activities", "list"}
  Verdicts = {"approved", "rejected", "override", "superseded", "cancelled", "expired"}
  SpontaneousReplans = FALSE
  ReplansAfterApproval = FALSE
INVARIANTS
  ApproveOncePerRevision ApprovalNeedsBothVerdicts ReceiptsAreTrue
  NeverApprovedAndRevised
PROPERTIES
  ImplementsPlanGate
  PlanIsSettledOrUndecided
