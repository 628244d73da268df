SPECIFICATION SpecAny
CONSTANTS
  Keys <- MCKeysAny
  StartSizes <- MCStartSizesAny
  Data = {d1, d2}
  Other = d2
  Null = null
PROPERTIES
  GetReturnsElement
