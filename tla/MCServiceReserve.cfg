SPECIFICATION FairSpec
CONSTANTS
  g1 = g1 g2 = g2 d1 = d1 d2 = d2 a = a b = b
  Generators <- MCTwo
  Deleters <- MCOneDeleter
  Closer = closer
  Ids <- MCOneId
  Prompts <- MCAll
  MaxPending = 3
  StreamCapacity = 1
  Steps = 1
  Outputs = 1
  MayFail = FALSE
INVARIANTS DisconnectReleases
CHECK_DEADLOCK FALSE
