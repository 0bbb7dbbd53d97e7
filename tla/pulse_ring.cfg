CONSTANTS
  p1 = p1
  p2 = p2
  Procs = {p1, p2}
  Size = 4
  Word = 8
  Gap = 1
  Tails = {0, 1}
  MaxTotal = 9
  MaxWrite = 2
  Failing = {"fetch", "copy", "publish", "clear"}
  Preempt = FALSE
SPECIFICATION Spec
SYMMETRY Symmetry
INVARIANT Inv
INVARIANT PlaysGenuine
INVARIANT UnplayedKept
INVARIANT HistoryFloor
CHECK_DEADLOCK FALSE
