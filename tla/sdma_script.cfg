SPECIFICATION Spec
CONSTANTS
  Levels = {1, 2}
  Steps <- TwoSteps
  MaxBytes = 4
  MaxLead = 2
  MaxRetraces = 1
PROPERTY PlaybackSpec
INVARIANT PositionNearPath
INVARIANT PauseKeepsPower
INVARIANT GlitchOnlyFirst
PROPERTY LeadExact
CHECK_DEADLOCK FALSE
