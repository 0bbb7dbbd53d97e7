CONSTANTS
  p1 = p1
  p2 = p2
  Procs = {p1, p2}
  Faults = {x}
  MaxBytes = 1
  MaxWaypoint = 1
  StepFreq = 2
  RampDelta = 2
  DecelSteps = 0
  Renotify = 1
  SupplyMayFail = FALSE
  Commands <- SplitCommands
SPECIFICATION FairSpec
INVARIANT Inv
INVARIANT EmissionGate
INVARIANT FaultLatched
PROPERTY LifecycleSpec
PROPERTY RunEnds
PROPERTY DecelEnds
PROPERTY FaultStops
CHECK_DEADLOCK FALSE
