SPECIFICATION Spec
CONSTANTS
  Levels = {1, 2}
  Steps <- TwoSteps
  MaxBytes = 4
  MaxLead = 2
  MaxRetraces = 1
INVARIANT MaskedDark
CHECK_DEADLOCK FALSE
