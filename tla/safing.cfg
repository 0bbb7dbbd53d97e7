CONSTANTS
  Drivers = {"pic", "head", "thermal"}
  MaxTries = 1
  Callers = {"chain", "core"}
  Duties = {1, 2, 3}
  HeaterDutyMax = 2
  Values = {1}
  MaxQueue = 2
  MaxStores = 1
  MaxTrips = 1
SPECIFICATION Spec
INVARIANT Inv
INVARIANT HandlersOnLiveDrivers
INVARIANT StaysSafe
INVARIANT LedShowsLast
PROPERTY WriteTruth
PROPERTY TripsEnd
CHECK_DEADLOCK FALSE
