SPECIFICATION Spec
CONSTANTS
  Depth = 3
  Public <- MCPublic
  Private <- MCPrivate
  Initialised <- MCInitialised
  External <- MCExternal
  Params <- MCParams
  IntBits = 3
  CharBits = 2
  PtrBits = 4
  nova_null = 5
  Junk = junk
  Null = null
  MaxWrites = 2
INVARIANTS
  FieldsKeepValues
  CodeSeesFields
  ArgumentsArrive
