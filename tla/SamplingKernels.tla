---------------------------- MODULE SamplingKernels ----------------------------
(***************************************************************************)
(* Drawing tokens on the device, with weights as integers: the tiled       *)
(* sorted sampler and the distribution of the same policy                  *)
(* (kernels/sampling.py), and the rejection rule of the speculative        *)
(* decoder (speculative/sampling.py). An attempt is one call.              *)
(***************************************************************************)
EXTENDS Integers, SequencesExt, FiniteSetsExt

CONSTANTS Vocab,        (* tokens of the sorted sampler: 0 .. Vocab - 1      *)
          Block,        (* TILE                                             *)
          Weights,      (* of a token; 0 is a masked one                    *)
          TopPParts,    (* top_p in fractions of this                       *)
          Shapes,       (* <<tokens, drafts>> of the rejection rule         *)
          Mass          (* of a distribution given to the rejection rule    *)

VARIABLE attempt

Distribution(n) == {d \in [0 .. n - 1 -> 0 .. Mass] : FoldFunction(+, 0, d) = Mass}

SortedAttempts ==
  [kind : {"sorted"}, weight : {w \in [0 .. Vocab - 1 -> Weights] : \E t \in 0 .. Vocab - 1 : w[t] > 0},
   topK : 1 .. Vocab, topP : 1 .. TopPParts]

VerifyAttempts ==
  UNION {[kind : {"verify"}, target : [0 .. shape[2] -> Distribution(shape[1])],
          draft : [0 .. shape[2] - 1 -> Distribution(shape[1])]] : shape \in Shapes}

SumOver(f(_), S) == FoldSet(LAMBDA x, sum : sum + f(x), 0, S)
Below(n) == 0 .. n - 1

-----------------------------------------------------------------------------
(* _prepare_sorted: ids by falling weight, cumulative weights per tile.    *)

Sorted(c) ==
  SortSeq([i \in 1 .. Vocab |-> i - 1],
          LAMBDA t, u : c.weight[t] > c.weight[u] \/ (c.weight[t] = c.weight[u] /\ t < u))
Ids(c) == [i \in Below(Vocab) |-> Sorted(c)[i + 1]]

\* Weights in sorted order; those past top_k count as nothing.
Value(c, i) == IF i < c.topK THEN c.weight[Sorted(c)[i + 1]] ELSE 0

Tiles == (Vocab + Block - 1) \div Block
Indices(tile) == {i \in tile * Block .. (tile + 1) * Block - 1 : i < Vocab}

\* CDF within the tile, and the cumulative sums of whole tiles.
CDF(c, i) == SumOver(LAMBDA j : Value(c, j), {j \in Indices(i \div Block) : j <= i})
Prefix(c, tile) == SumOver(LAMBDA j : Value(c, j), UNION {Indices(t) : t \in 0 .. tile})
Before(c, tile) == IF tile = 0 THEN 0 ELSE Prefix(c, tile - 1)
Total(c) == Prefix(c, Tiles - 1)

-----------------------------------------------------------------------------
(* _select and _distribution_limits.                                       *)

FirstTile(c, Reached(_)) == Min({t \in Below(Tiles) : Reached(Prefix(c, t))} \cup {Tiles - 1})

\* Mutation: the weight of the tiles before is left out.
CutoffInTile(c) ==
  IF c.topP = TopPParts THEN Vocab - 1
  ELSE LET reached(mass) == mass * TopPParts >= c.topP * Total(c)
           tile == FirstTile(c, reached)
           end == Min({(tile + 1) * Block, Vocab}) - 1
       IN  Min({i \in Indices(tile) : reached(CDF(c, i))} \cup {end})

\* The last sorted token top_p keeps.
Cutoff(c) ==
  IF c.topP = TopPParts THEN Vocab - 1
  ELSE LET reached(mass) == mass * TopPParts >= c.topP * Total(c)
           tile == FirstTile(c, reached)
           end == Min({(tile + 1) * Block, Vocab}) - 1
       IN  Min({i \in Indices(tile) : reached(CDF(c, i) + Before(c, tile))} \cup {end})

KeptMass(c) ==
  IF c.topP = TopPParts THEN Total(c) ELSE CDF(c, Cutoff(c)) + Before(c, Cutoff(c) \div Block)

\* The token of a target, draw * mass.
Select(c, target) ==
  LET passed(mass) == mass > target
      tile == FirstTile(c, passed)
      rising == {i \in Indices(tile) : CDF(c, i) > (IF i % Block = 0 THEN 0 ELSE CDF(c, i - 1))}
      last == Max(rising \cup {tile * Block})
      chosen == Min({i \in Indices(tile) : passed(CDF(c, i) + Before(c, tile))} \cup {last})
  IN  Ids(c)[Min({chosen, Cutoff(c)})]

\* _materialize_distribution: a token's share of the kept mass.
Probability(c, token) ==
  LET i == CHOOSE i \in Below(Vocab) : Ids(c)[i] = token
  IN  IF i <= Cutoff(c) /\ i < c.topK THEN c.weight[token] ELSE 0

-----------------------------------------------------------------------------
(* verify() of one request: K proposals, K + 1 draws out of Mass each.     *)

Drafts(c) == Cardinality(DOMAIN c.draft)
Size(c) == Cardinality(DOMAIN c.target[0])

Accepted(c, proposals, draws) ==
  LET passes(k) == draws[k] * c.draft[k][proposals[k]] < c.target[k][proposals[k]] * Mass
  IN  Cardinality({k \in Below(Drafts(c)) : \A j \in 0 .. k : passes(j)})

\* Mutation: the token behind the accepted ones is drawn from the target.
ResidualOfTarget(c, accepted) == c.target[accepted]

\* (p - q)+ of the first rejected row, or the last row of the target.
Residual(c, accepted) ==
  [t \in Below(Size(c)) |->
     LET q == IF accepted < Drafts(c) THEN c.draft[accepted][t] ELSE 0
     IN  Max({0, c.target[accepted][t] - q})]

\* categorical(): the first token whose cumulative probability exceeds the target.
Categorical(weights, draw) ==
  LET cdf(t) == SumOver(LAMBDA u : weights[u], 0 .. t)
      n == Cardinality(DOMAIN weights)
  IN  Min({t \in Below(n) : cdf(t) * Mass > draw * cdf(n - 1)} \cup {n - 1})

Emitted(c, proposals, draws) ==
  LET accepted == Accepted(c, proposals, draws)
  IN  [k \in 0 .. accepted |->
         IF k < accepted THEN proposals[k] ELSE Categorical(Residual(c, accepted), draws[Drafts(c)])]

-----------------------------------------------------------------------------
Init == attempt \in SortedAttempts \cup VerifyAttempts
Next == UNCHANGED attempt
Spec == Init /\ [][Next]_attempt

-----------------------------------------------------------------------------
\* "the production sampler's exact cutoff policy": the sampler draws each token as
\* often as the distribution given to the speculative decoder says, and that keeps
\* no more than the heaviest top_k tokens and of those the fewest that reach top_p.
SamplerFollowsDistribution ==
  LET c == attempt
      heavier(t) == {u \in Below(Vocab) : c.weight[u] > c.weight[t] \/ (c.weight[u] = c.weight[t] /\ u < t)}
      top == {t \in Below(Vocab) : Cardinality(heavier(t)) < c.topK}
      mass(S) == SumOver(LAMBDA t : c.weight[t], S)
      kept == {t \in top : mass(heavier(t)) * TopPParts < c.topP * mass(top)}
  IN  c.kind = "sorted" =>
        /\ KeptMass(c) = mass(kept)
        /\ \A t \in Below(Vocab) :
             /\ Probability(c, t) = (IF t \in kept THEN c.weight[t] ELSE 0)
             /\ Cardinality({d \in Below(KeptMass(c)) : Select(c, d) = t}) = Probability(c, t)

\* "the standard speculative rejection rule": whatever the draft proposes with, a
\* sequence is emitted as often as the target would have drawn it, where the rows
\* before its last token were accepted.
SpeculationIsExact ==
  LET c == attempt
      k == Drafts(c)
      proposed(p) == FoldFunction(LAMBDA a, b : a * b, 1, [i \in Below(k) |-> c.draft[i][p[i]]])
      draws == [0 .. k -> Below(Mass)]
      begins(s, e) == Len(s) <= Cardinality(DOMAIN e) /\ \A i \in 1 .. Len(s) : e[i - 1] = s[i]
      drawn(s) == SumOver(LAMBDA p : proposed(p) * Cardinality({d \in draws : begins(s, Emitted(c, p, d))}),
                          [Below(k) -> Below(Size(c))])
      wanted(s) == FoldFunction(LAMBDA a, b : a * b, 1,
        [i \in 0 .. k |-> IF i + 1 < Len(s) THEN Min({c.target[i][s[i + 1]], c.draft[i][s[i + 1]]})
                          ELSE IF i + 1 = Len(s) THEN c.target[i][s[i + 1]] ELSE Mass])
  IN  c.kind = "verify" =>
        \A s \in BoundedSeq(Below(Size(c)), k + 1) \ {<<>>} : drawn(s) = wanted(s) * Mass ^ k

=============================================================================
