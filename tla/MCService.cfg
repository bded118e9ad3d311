SPECIFICATION FairSpec
CONSTANTS
  g1 = g1 g2 = g2 d1 = d1 d2 = d2 a = a b = b
  Generators <- MCTwo
  Deleters <- MCOneDeleter
  Closer = closer
  Ids <- MCTwoIds
  Prompts <- MCAccepted
  MaxPending = 2
  StreamCapacity = 1
  Steps = 4
  Outputs = 3
  MayFail = TRUE
INVARIANTS StreamsMatchEngine OpenUntilTerminal WorkIsReserved DisconnectReleases
PROPERTIES ReadersAreServed
CHECK_DEADLOCK FALSE
