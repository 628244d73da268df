SPECIFICATION Spec
CONSTANTS
  MaxMessages = 2
  MaxEvents = 3
  Directory = {1, 2}
  Edits <- MCEdits
INVARIANTS
  ErrorsPrinted
  VerdictIsMakes
  LinkedUpToDate
  ForceRebuilds
PROPERTIES
  NoNeedlessCompile
  Completes
