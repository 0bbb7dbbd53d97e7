CONSTANTS
  p1 = p1
  p2 = p2
  Procs = {p1, p2}
  Faults = {x}
  MaxBytes = 2
  MaxWaypoint = 1
  StepFreq = 2
  RampDelta = 1
  DecelSteps = 0
  Renotify = 1
  SupplyMayFail = FALSE
  Commands <- RunnerCommands
SPECIFICATION Spec
INVARIANT DirectionAgrees
INVARIANT RetraceDark
INVARIANT MailboxTruth
INVARIANT RailUp
CHECK_DEADLOCK FALSE
