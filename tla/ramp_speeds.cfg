CONSTANTS
  Word = 1000000000
  Freqs <- SomeFreqs
  Rates <- SomeRates
SPECIFICATION Spec
INVARIANT Inv
INVARIANT TailNearBudget
PROPERTY SpeedNeverJumps
CHECK_DEADLOCK FALSE
