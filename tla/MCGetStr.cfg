SPECIFICATION GetStrSpec
CONSTANTS
  Chars <- MCChars
  Terminators <- MCTerminators
  Nul = NUL
  Junk = junk
  MinChunk = 2
  MaxStream = 7
INVARIANTS
  RoomForNul
  TextInPlace
  LineComplete
