---------------------------- MODULE MCComponents ----------------------------
(***************************************************************************)
(* The components that run on their own, side by side: part names the one  *)
(* a behaviour is about, the variables of the others keep an idle value.   *)
(* Their constants:                                                        *)
(*   block pool  two sequences, three prefixes and four blocks: a shared   *)
(*               block, a duplicate prefix, and a reservation that evicts  *)
(*               one prefix and keeps another;                             *)
(*   rotation    three candidates and one to three tokens a step;          *)
(*   sharding    two ranks, three layers (one that needs padding), paths   *)
(*               that skip a layer, two micro-batches, two updates;        *)
(*   grids       each wrapper, two tokens, two experts a rank;             *)
(*   rollouts    two prompts of two completions, two updates on each;      *)
(*   drafting    two requests, prompts of one chunk, two drafts;           *)
(*   histories   two addresses, so that the second request reuses one, and *)
(*               room for one history less than the batch;                 *)
(*   graphs      one size, batches below and above it, two contexts.       *)
(***************************************************************************)
EXTENDS BlockManager, SequencesExt

CONSTANTS c1, c2, c3, NoOne

VARIABLES
  part,
  ids, gone, steps, last, order, demands, budget, counts,                   \* rotation
  route, todo, waiting, calls, prefetches, result, version, read, grads, norm, \* sharding
  wrapper, tp, ep, routes, local,                                           \* grids
  phase, launched, paused, error, policy, sent, request, rollout, server,   \* rollouts
  tokens, computed, kv, rng, draws,                                         \* drafting
  object, histories, seen,                                                  \* histories
  entries, rejected, batch, wrote, held,                                    \* graphs
  attempt                                                                   \* the rest

Rotation == INSTANCE FairRotation WITH
  Candidates <- {c1, c2, c3}, MinDemand <- 1, MaxDemand <- 2, MaxBudget <- 3

Sharding == INSTANCE FullySharded WITH
  Zero <- 0, World <- 2, Layers <- 3, SizeOf <- [l \in 0 .. 3 |-> IF l = 1 THEN 2 ELSE 3],
  Paths <- {<<1, 2, 3>>, <<1, 2>>, <<1, 3>>}, SameRoutes <- TRUE,
  MicroBatches <- 2, Updates <- 2, Checkpointing <- BOOLEAN

Grids == INSTANCE ModelParallel WITH
  Zero <- 0, Grids <- {<<"tp", 2, 1>>, <<"ep", 1, 2>>, <<"tp_ep", 2, 2>>}, Tokens <- 2, LocalExperts <- 2

Rollouts == INSTANCE RolloutSync WITH
  Prompts <- 2, NumGenerations <- 2, UpdatesPerRollout <- 2, MaxVersion <- 4

Drafting == INSTANCE SpeculativeDecoding WITH
  Requests <- {1, 2}, PromptLen <- 2, Chunk <- 2, Tokens <- {0, 1}, Stop <- 1,
  NumDraftTokens <- 2, MaxModelLen <- 6

Histories == INSTANCE TokenHistories WITH
  Addresses <- {1, 2}, Tokens <- {0, 1},
  Policies <- {[penalties |-> p, stops |-> {1}, min |-> 1] : p \in BOOLEAN},
  MaxHistories <- 1, MaxOutputs <- 3, read <- seen

Graphs == INSTANCE DecodeGraphs WITH
  Sizes <- {2}, Slots <- {1, 2}, Tokens <- {1}, MinContext <- 1, ContextLimit <- 2,
  MaxGraphs <- 2, Reserve <- 4, Estimate <- [s \in {1, 2} |-> s], Rows <- 2

\* Batches of three, one more than the largest size.
WideGraphs == INSTANCE DecodeGraphs WITH
  Sizes <- {2}, Slots <- {1, 2, 3}, Tokens <- {1}, MinContext <- 1, ContextLimit <- 1,
  MaxGraphs <- 2, Reserve <- 4, Estimate <- [s \in {1, 2} |-> s], Rows <- 3

\* Tiles that do and do not divide the lengths; scores of both signs.
Attention == INSTANCE FlashAttention WITH
  Lengths <- {1, 4}, Tiles <- {2, 3}, MinTile <- 2, Features <- {-1, 2}, Spread <- 7

\* Two tiles of two tokens; two drafts of two tokens, one of three.
Sampling == INSTANCE SamplingKernels WITH
  Vocab <- 4, Block <- 2, Weights <- {0, 1, 2}, TopPParts <- 3, Shapes <- {<<2, 2>>, <<3, 1>>}, Mass <- 2

\* Slices before, across and behind a block of two; decodes below and above LongContext.
Packed == INSTANCE PackedForward WITH
  Requests <- 2, StartPositions <- {0, 1, 4}, SliceLengths <- {1, 3},
  ScoreOf <- {[n \in 0 .. 8 |-> (n * n) % 3], [n \in 0 .. 8 |-> 4 - (n % 5)]},
  Spread <- 6, BlockSize <- 2, PrefillTile <- 2, PrefillKeys <- 3, DecodeKeys <- 1,
  DecodePartition <- 2, LongContext <- 4

\* A vocabulary of a whole and a cut tile; four tokens for three experts.
Kernels == INSTANCE TrainingKernels WITH
  Rows <- 2, Vocabulary <- 3, VocabularyTile <- 2, Logits <- {0, 3}, Tokens <- 4,
  Experts <- 3, BlockM <- 2, Values <- {-1, 0, 2}, Spread <- 7

\* Chats of up to three messages, windows and prompts that keep all, some and next to none of them.
Examples == INSTANCE TrainingExamples WITH
  Messages <- {[role |-> r, tools |-> FALSE, thinks |-> FALSE, calls |-> 0] :
                 r \in {"system", "user", "assistant", "tool"}}
              \cup {[role |-> "system", tools |-> TRUE, thinks |-> FALSE, calls |-> 0],
                    [role |-> "assistant", tools |-> FALSE, thinks |-> TRUE, calls |-> 1]},
  MaxMessages <- 3, SequenceLengths <- {2, 6}, PromptLimits <- {2, 11}, MaxText <- 6,
  PromptLengths <- {1, 3}, MaxNewTokens <- 3, ContextLength <- 5

-----------------------------------------------------------------------------
rotationVars == <<ids, gone, steps, last, order, demands, budget, counts>>
shardingVars == <<route, todo, waiting, calls, prefetches, result, version, read, grads, norm>>
gridVars == <<wrapper, tp, ep, routes, local>>
rolloutVars == <<phase, launched, paused, error, policy, sent, request, rollout, server>>
draftingVars == <<tokens, computed, kv, rng, draws>>
historyVars == <<object, histories, seen>>
graphVars == <<entries, rejected, batch, wrote, held>>

(* Each part starts in its own initial states, the others are idle.        *)

Idle == 0

PoolInit == IF part = "pool" THEN Init ELSE pool = EmptyPool /\ holds = [o \in Owners |-> {}]

RotationInit ==
  IF part = "rotation" THEN Rotation!Init
  ELSE /\ ids = Idle /\ gone = Idle /\ steps = Idle /\ last = Idle
       /\ order = Idle /\ demands = Idle /\ budget = Idle /\ counts = Idle

ShardingInit ==
  IF part = "sharding" THEN Sharding!Init
  ELSE /\ route = Idle /\ todo = Idle /\ waiting = Idle /\ calls = Idle /\ prefetches = Idle
       /\ result = Idle /\ version = Idle /\ read = Idle /\ grads = Idle /\ norm = Idle

GridsInit ==
  IF part = "grids" THEN Grids!Init
  ELSE wrapper = Idle /\ tp = Idle /\ ep = Idle /\ routes = Idle /\ local = Idle

RolloutsInit ==
  IF part = "rollouts" THEN Rollouts!Init
  ELSE /\ phase = Idle /\ launched = Idle /\ paused = Idle /\ error = Idle /\ policy = Idle
       /\ sent = Idle /\ request = Idle /\ rollout = Idle /\ server = Idle

DraftingInit ==
  IF part = "drafting" THEN Drafting!Init
  ELSE tokens = Idle /\ computed = Idle /\ kv = Idle /\ rng = Idle /\ draws = Idle

HistoriesInit ==
  IF part = "histories" THEN Histories!Init ELSE object = Idle /\ histories = Idle /\ seen = Idle

GraphsInit ==
  IF part \in {"graphs", "wide graphs"} THEN Graphs!Init
  ELSE entries = Idle /\ rejected = Idle /\ batch = Idle /\ wrote = Idle /\ held = Idle

AttemptInit ==
  CASE part = "attention" -> Attention!Init
    [] part = "sampling" -> Sampling!Init
    [] part = "packed" -> Packed!Init
    [] part = "kernels" -> Kernels!Init
    [] part = "examples" -> Examples!Init
    [] OTHER -> attempt = Idle

Parts ==
  {"pool", "rotation", "sharding", "grids", "rollouts", "drafting", "histories", "graphs", "wide graphs",
   "attention", "sampling", "packed", "kernels", "examples"}

PartsInit ==
  /\ part \in Parts
  /\ PoolInit /\ RotationInit /\ ShardingInit /\ GridsInit /\ RolloutsInit
  /\ DraftingInit /\ HistoriesInit /\ GraphsInit /\ AttemptInit

-----------------------------------------------------------------------------
\* The variables of the other parts stay as they are.
Others(p) ==
  /\ UNCHANGED part
  /\ p # "pool" => UNCHANGED vars
  /\ p # "rotation" => UNCHANGED rotationVars
  /\ p # "sharding" => UNCHANGED shardingVars
  /\ p # "grids" => UNCHANGED gridVars
  /\ p # "rollouts" => UNCHANGED rolloutVars
  /\ p # "drafting" => UNCHANGED draftingVars
  /\ p # "histories" => UNCHANGED historyVars
  /\ p # "graphs" => UNCHANGED graphVars
  /\ p # "attempt" => UNCHANGED attempt

PartsNext ==
  \/ part = "pool" /\ Next /\ Others("pool")
  \/ part = "rotation" /\ Rotation!Next /\ Others("rotation")
  \/ part = "sharding" /\ Sharding!Next /\ Others("sharding")
  \/ part = "grids" /\ Grids!Next /\ Others("grids")
  \/ part = "rollouts" /\ Rollouts!Next /\ Others("rollouts")
  \/ part = "drafting" /\ Drafting!Next /\ Others("drafting")
  \/ part = "histories" /\ Histories!Next /\ Others("histories")
  \/ part = "graphs" /\ Graphs!Next /\ Others("graphs")
  \/ part = "wide graphs" /\ WideGraphs!Next /\ Others("graphs")
  \/ part = "attention" /\ Attention!Next /\ Others("attempt")
  \/ part = "sampling" /\ Sampling!Next /\ Others("attempt")
  \/ part = "packed" /\ Packed!Next /\ Others("attempt")
  \/ part = "kernels" /\ Kernels!Next /\ Others("attempt")
  \/ part = "examples" /\ Examples!Next /\ Others("attempt")

allVars ==
  <<part, vars, rotationVars, shardingVars, gridVars, rolloutVars, draftingVars, historyVars, graphVars, attempt>>

\* The steps of the scheduler follow one another forever.
PartsSpec ==
  /\ PartsInit /\ [][PartsNext]_allVars
  /\ []<>(part # "rotation" \/ steps = 0) /\ []<>(part # "rotation" \/ steps = 1)

-----------------------------------------------------------------------------
(* The properties of the parts, each stated in its own module.             *)

\* What fair_chunks gives out is as equal as the demands allow.
SharesAreFair == part = "rotation" => Rotation!SharesAreFair

\* rotate_after serves every candidate that stays again and again.
NobodyStarves == \A c \in {c1, c2, c3} : []<>(part # "rotation" \/ c \notin ToSet(ids) \/ c \in Rotation!GivenTo)

\* Every layer computes with the parameters of the last update, prefetched or not.
LayersUseCurrentWeights == part = "sharding" => Sharding!LayersUseCurrentWeights

\* Every contribution to a gradient is averaged once, and in tensor and expert
\* parallel jobs counted once by the clipped norm.
GradientsCountOnce ==
  /\ part = "sharding" => Sharding!GradientsCountOnce
  /\ part = "grids" => Grids!GradientsCountOnce /\ Grids!NormCountsOnce

\* A token dispatched to another rank's expert returns to its own place.
TokensComeHome == part = "grids" => Grids!TokensComeHome

\* No rank waits in a collective another rank never calls.
NoRankIsStranded ==
  /\ part = "sharding" => Sharding!NoRankIsStranded
  /\ part = "grids" => Grids!NoRankIsStranded

\* A rollout is credited to the prompts and the policy it was sampled with.
RolloutsFromCreditedPolicy == part = "rollouts" => Rollouts!RolloutsFromCreditedPolicy

\* Target and draft hold the KV of what was emitted, and no draw is used twice.
DraftingFollowsTarget == part = "drafting" => Drafting!BothModelsFollow /\ Drafting!DrawsAreFresh

\* Penalties and stops are those of the request's own tokens.
PenaltiesSeeHistory == part = "histories" => Histories!PenaltiesSeeHistory

\* A replayed graph does for a batch what the model would, in bounded memory.
GraphsReplayTheBatch ==
  /\ part = "graphs" => Graphs!GraphsReplayTheBatch /\ Graphs!GraphsFitReserve
  /\ part = "wide graphs" => WideGraphs!GraphsReplayTheBatch /\ WideGraphs!GraphsFitReserve

\* The kernels compute what the equations they replace define.
KernelsMatchEquations ==
  /\ part = "attention" => Attention!TilesMatchAttention
  /\ part = "packed" => Packed!BatchingIsInvisible
  /\ part = "sampling" => Sampling!SamplerFollowsDistribution /\ Sampling!SpeculationIsExact
  /\ part = "kernels" => Kernels!KernelsMatchEquations

\* Labels and scored actions are the tokens that follow what the model was shown.
ExamplesTeachCompletions ==
  part = "examples" => Examples!ExamplesTeachCompletions /\ Examples!ActionsAreScoredInContext

=============================================================================
