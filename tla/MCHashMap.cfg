SPECIFICATION Spec
CONSTANTS
  Keys <- MCKeys
  StartSizes <- MCStartSizes
  Data = {d1, d2}
  Other = d2
  Null = null
CONSTRAINT
  OneReplaced
INVARIANTS
  CountIsActive
PROPERTIES
  IsDictionary
  InsertReturns
