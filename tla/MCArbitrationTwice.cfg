SPECIFICATION Spec
CONSTANTS
  Requests <- MCRequests
  Outputs <- MCOutputs
  Kind <- MCKind
  NewMode <- MCNewMode
  Levels <- MCLevels
  ReadErrors = FALSE
INVARIANTS
  ResumeRestoresPriorMode
