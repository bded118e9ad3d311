CONSTANTS
  Zero = 0
  World = 2
  Layers = 3
  SizeOf <- MCSize
  Paths <- MCPaths
  SameRoutes = FALSE
  MicroBatches = 1
  Updates = 1
  Checkpointing <- Booleans
SPECIFICATION Spec
CHECK_DEADLOCK FALSE
INVARIANT LayersUseCurrentWeights
