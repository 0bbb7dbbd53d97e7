CONSTANTS
  Drivers = {"cnc"}
  MaxTries = 1
  Files = {f1}
  Tasks = {t1}
  MaxRuns = 0
SPECIFICATION Spec
INVARIANT IrqsReadHeldPins
CHECK_DEADLOCK FALSE
