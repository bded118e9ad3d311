CONSTANTS
  Zero = 0
  World = 2
  Layers = 3
  SizeOf <- MCSize
  Paths <- MCPaths
  SameRoutes = TRUE
  MicroBatches = 1
  Updates = 1
  Checkpointing <- Booleans
SPECIFICATION Spec
CHECK_DEADLOCK FALSE
INVARIANT NormCountsOnce
