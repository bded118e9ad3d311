SPECIFICATION FairSpec
CONSTANTS
  NumBlocks = 4
  BlockSize = 2
  EnablePrefixCache = TRUE
  NoKey = NoKey
  Ids = {r1, r2, r3}
  NoId = NoId
  MaxModelLen = 8
  MaxNumSeqs = 3
  NumDraftTokens = 2
  EnableChunkedPrefill = FALSE
  MaxPrefillChunk = 0
  MaxPrefillTokens = 0
  ShortPreemption = TRUE
  SwitchAge = 1
  SwitchCooldown = 2
  SwitchFactor = 1
  a = a
  b = b
  x = x
  s1 = s1
  OutTokens = {x, Stop}
  Stop = Stop
  Budgets = {8}
  MaxArrivals = 3
  Workloads <- SwitchWork
INVARIANTS BatchReady
PROPERTIES HeadNotBypassed WorkloadDrains
CHECK_DEADLOCK FALSE
