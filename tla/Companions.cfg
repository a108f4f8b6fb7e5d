CONSTANTS
  Approvals = {1, 2}
  MaxUpdates = 1
  MaxFaults = 1
  Projects = {1, 2}
  MaxIssues = 3
  MaxEvents = 1
SPECIFICATION Spec
INVARIANTS
  CardsAreHonest
  OneIssuePerFile
PROPERTIES
  OperatorIsServed
  ContractReachesBoard
CHECK_DEADLOCK FALSE
