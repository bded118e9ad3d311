SPECIFICATION Spec
CONSTANTS
  DataLen = 5
  BatchSize = 2
  Epochs = 2
  Accumulation = 2
  UpdatesPerRollout = 2
  Trainers = {"grpo"}
  WorldSize = 1
  SaveInterval = 1
  LogInterval = 3
  Targets = {100}
  MaxCrashes = 1
  None = None
  Torn = Torn
INVARIANTS FollowsThePlan
CHECK_DEADLOCK FALSE
