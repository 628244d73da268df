SPECIFICATION Spec
CONSTANTS
  Types <- MCTypes
  SuperTypes <- MCSuperTypes
  MaxContexts = 3
  MaxCalls = 1
INVARIANTS
  LiveBodiesOnChain
  HandlerNotReentered
PROPERTIES
  OnlyLeftBodiesGoWrong
  ThrowFindsInnermost
