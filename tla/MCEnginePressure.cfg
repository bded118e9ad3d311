SPECIFICATION Spec
CONSTANTS
  NumBlocks = 4
  BlockSize = 1
  EnablePrefixCache = TRUE
  NoKey = NoKey
  Ids = {r1, r2, r3}
  NoId = NoId
  MaxModelLen = 4
  MaxNumSeqs = 3
  NumDraftTokens = 0
  EnableChunkedPrefill = TRUE
  MaxPrefillChunk = 2
  MaxPrefillTokens = 0
  ShortPreemption = FALSE
  SwitchAge = 0
  SwitchCooldown = 0
  SwitchFactor = 4
  a = a
  b = b
  x = x
  s1 = s1
  OutTokens = {x, Stop}
  Stop = Stop
  Budgets = {1, 3}
  MaxArrivals = 4
  Workloads <- PressureWork
INVARIANTS PagesOnlyForRunning ComputedMatchesCache
PROPERTIES StepHasWork
SYMMETRY IdSymmetry
CHECK_DEADLOCK FALSE
