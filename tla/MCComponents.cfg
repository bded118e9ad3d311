\* Four blocks for two sequences; the constants of the other parts are in MCComponents.
CONSTANTS
  NumBlocks = 4
  NoKey = NoKey
  Owners = {o1, o2}
  Keys = {k1, k2, k3}
  c1 = c1
  c2 = c2
  c3 = c3
  NoOne = NoOne
SPECIFICATION PartsSpec
INVARIANTS
  TypeOK FreeIsUnused RefCountsHolders IndexMatchesKeys UncachedFirst
  SharesAreFair
  LayersUseCurrentWeights GradientsCountOnce TokensComeHome NoRankIsStranded
  RolloutsFromCreditedPolicy
  DraftingFollowsTarget PenaltiesSeeHistory GraphsReplayTheBatch
  KernelsMatchEquations ExamplesTeachCompletions
PROPERTIES EvictOnlyUnderPressure NobodyStarves
