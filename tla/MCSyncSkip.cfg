SPECIFICATION Spec
CONSTANTS
  e1 = e1
  e2 = e2
  Executions = {e1}
  NoExecution = NoExecution
  Flow <- SecondAudit
  IsContract = TRUE
INVARIANT StepFailureFails
CHECK_DEADLOCK FALSE
