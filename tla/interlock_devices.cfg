CONSTANTS
  Devices = {d1, d2}
SPECIFICATION InterlockSpec
INVARIANT LatestReadingRules
PROPERTY UnregisterBlocks
