\* Three blocks for two requests of up to three tokens.
CONSTANTS
  a = a
  b = b
  r1 = r1
  r2 = r2
  target = target
  draft = draft
  NumBlocks = 3
  NoKey = NoKey
  BlockSize = 2
  MaxSlice = 2
  EnablePrefixCache = TRUE
  Requests = {r1, r2}
  Tokens = {a, b}
  Salts = {"s"}
  Prompts <- MCPrompts
  Storages = {target, draft}
  MaxModelLen = 3
  MaxBatch = 2
SYMMETRY MCSymmetry
SPECIFICATION MCSpec
INVARIANTS OwnershipExact PublishedExact MCChainsExact
PROPERTIES WritesArePrivate ImplementsKVStore
