SPECIFICATION FairSpec
CONSTANTS
  g1 = g1 g2 = g2 d1 = d1 d2 = d2 a = a b = b
  Generators <- MCOne
  Deleters <- MCTwoDeleters
  Closer = closer
  Ids <- MCOneId
  Prompts <- MCValid
  MaxPending = 1
  StreamCapacity = 1
  Steps = 1
  Outputs = 1
  MayFail = TRUE
PROPERTIES NothingHangs
CHECK_DEADLOCK FALSE
