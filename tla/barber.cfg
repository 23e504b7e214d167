SPECIFICATION FairSpec
CONSTANTS
  N = 3
  Q = 2
  MaxCalls = 4
INVARIANTS TypeOK DestroyedUnused LogOrder
PROPERTIES RefusedOnlyWhenFull EveryoneLeaves
CHECK_DEADLOCK FALSE
