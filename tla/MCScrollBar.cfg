SPECIFICATION ScrollBarSpec
CONSTANTS
  Threads = {w1, w2}
  None = none
  WheelDelta = 6
  Deltas <- MCDeltas
  LinesPer <- MCLinesPer
INVARIANTS
  MutualExclusion
  OwnDeltasOnly
  NeverBackwards
