CONSTANTS
  Writers = {w1}
  Targets = {120, 300}
  Speeds = {0, 6}
  Periods = {0, 1, 2}
  Levels = {220}
  MaxTunes = 2
  MaxStores = 3
SPECIFICATION Spec
INVARIANT CounterInRange
INVARIANT NothingOnFreedData
INVARIANT RestsNearWanted
 
PROPERTY PulsesOn
