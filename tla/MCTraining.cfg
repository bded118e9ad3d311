SPECIFICATION FairSpec
CONSTANTS
  DataLen = 5
  BatchSize = 2
  Epochs = 2
  Accumulation = 2
  UpdatesPerRollout = 2
  Trainers = {"pretrain", "dpo", "grpo"}
  WorldSize = 2
  SaveInterval = 1
  LogInterval = 3
  Targets = {3, 100}
  MaxCrashes = 2
  None = None
  Torn = Torn
INVARIANTS WindowsFollowThePlan OptimizersMatchModel MeansMatchLog RolloutsAreWhole
PROPERTIES StaysRecoverable TrainingCompletes
CHECK_DEADLOCK FALSE
