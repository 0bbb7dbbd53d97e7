CONSTANTS
  Drivers = {"cnc"}
  MaxTries = 2
  Files = {f1, f2}
  Tasks = {t1}
  MaxRuns = 2
SYMMETRY FileSymmetry
CONSTRAINT Defined
SPECIFICATION Spec
INVARIANT Inv
INVARIANT DeadmanStops
INVARIANT SafeWhenGone
PROPERTY OwnTrips
CHECK_DEADLOCK FALSE
