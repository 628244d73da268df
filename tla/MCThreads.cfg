SPECIFICATION Spec
CONSTANTS
  first = first
  second = second
  sleeper = sleeper
  worker = worker
  other = other
  NoThread = NoThread
  Program <- MCProgram
  Thread <- MCThread
  ProgramOf <- MCProgramOf
  Millis <- MCMillis
  PerMilli = 2
  IntMax = 3
  MaxSemaphores = 2
  MaxFaults = 1
INVARIANTS
  PermitKept
  OneInside
PROPERTIES
  SleepsLongEnough
  JoinReturns
CHECK_DEADLOCK FALSE
