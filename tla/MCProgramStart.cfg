SPECIFICATION MCSpec
CONSTANTS
  N = 3
  NumBlocks <- MCNumBlocks
  HasMaps <- MCHasMaps
INVARIANTS
  OnceOnly
  AllRunAtMain
  LinkedBeforeUserCode
PROPERTIES
  DependenciesFirst
  RunsStaticBlocks
  ReachesMain
