SPECIFICATION Spec
CONSTANTS
  e1 = e1
  e2 = e2
  Executions = {e1, e2}
  NoExecution = NoExecution
  Flow <- ContractFlow
  IsContract = TRUE
INVARIANTS
  SuccessIsClean
  LockReleased
  StartedExplained
  EntryIsLive
  CancelledInTime
SYMMETRY Symmetry
CHECK_DEADLOCK FALSE
