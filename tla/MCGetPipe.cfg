SPECIFICATION PipeSpec
CONSTANTS
  Capacity = 4
  BufSize = 3
  MaxOutput = 8
INVARIANTS
  OverflowNeverReturns
  AllReceived
PROPERTIES
  ReturnsIfFits
CHECK_DEADLOCK FALSE
