\* One slot in each lane, one move of the user or pause, one fault.
SPECIFICATION FairDispatchSpec
CONSTANTS
  Tasks <- MCTasks
  Managed <- MCManaged
  Finished = {"x"}
  Requires <- MCRequires
  Files <- MCFiles
  Symbols <- MCSymbols
  SideEffects = {}
  NonInterfering = {}
  Exclusive = {}
  Local = {"b"}
  Priority <- MCPriority
  Slots <- MCSlots
  MaxMoves = 1
  MaxFailures = 1
PROPERTIES
  StartsAlone
  DependenciesFirst
  AuthorizedTaskRuns
CHECK_DEADLOCK FALSE
