---------------------------- MODULE OnlineSoftmax ----------------------------
(* The recurrence of the attention kernels: a running maximum, the sum of   *)
(* the weights seen, and the weight of each value. Powers of two stand for  *)
(* exp, so that rescaling is exact; a value is kept as its weight.          *)
EXTENDS Integers, FiniteSetsExt, SequencesExt

CONSTANT Spread   (* bits kept below the maximum; smaller weights underflow *)

NegativeInfinity == -1000000

\* exp(x), scaled by 2^Spread.
Exp(x) == IF x < -Spread THEN 0 ELSE 2 ^ (x + Spread)
Scaled(a, b) == (a * b) \div 2 ^ Spread

\* Loads with a bounds check: zero outside.
Load(f, i) == IF i \in DOMAIN f THEN f[i] ELSE 0

NoKeys == [m |-> NegativeInfinity, l |-> 0, o |-> <<>>]

\* Mutation: what was accumulated is not rescaled to the new maximum.
WithoutRescale(acc, scores) ==
  LET m == Max({acc.m} \cup {scores[j] : j \in DOMAIN scores})
      p == [j \in DOMAIN scores |-> Exp(scores[j] - m)]
  IN  [m |-> m, l |-> acc.l + FoldFunction(+, 0, p),
       o |-> [j \in DOMAIN acc.o \cup DOMAIN p |-> Load(acc.o, j) + Load(p, j)]]

\* The update with one tile: its keys, with their scores.
Online(acc, scores) ==
  LET m == Max({acc.m} \cup {scores[j] : j \in DOMAIN scores})
      p == [j \in DOMAIN scores |-> Exp(scores[j] - m)]
      rescale == Exp(acc.m - m)
  IN  [m |-> m, l |-> Scaled(rescale, acc.l) + FoldFunction(+, 0, p),
       o |-> [j \in DOMAIN acc.o \cup DOMAIN p |-> Scaled(rescale, Load(acc.o, j)) + Load(p, j)]]

\* All tiles of a loop, each a function from its keys to their scores.
Streamed(tiles) == FoldLeft(Online, NoKeys, tiles)

-----------------------------------------------------------------------------
\* Softmax as it is defined, over the keys of scores.
Softmax(scores) ==
  LET m == Max({scores[j] : j \in DOMAIN scores})
  IN  [j \in DOMAIN scores |-> Exp(scores[j] - m)]

\* The accumulator holds the softmax of scores, and nothing else has weight.
Holds(acc, scores) ==
  LET p == Softmax(scores)
  IN  /\ acc.l = FoldFunction(+, 0, p)
      /\ \A j \in DOMAIN acc.o \cup DOMAIN p : Load(acc.o, j) = Load(p, j)

=============================================================================
