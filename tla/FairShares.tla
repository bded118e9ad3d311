------------------------------ MODULE FairShares ------------------------------
(***************************************************************************)
(* The two pure algorithms of scheduling/scheduler.py that make a shared   *)
(* token budget fair: fair_chunks divides one step's budget, rotate_after  *)
(* decides who comes first in the next step.                               *)
(***************************************************************************)
EXTENDS Lists

Least(a, b) == IF a < b THEN a ELSE b
Most(a, b) == IF a > b THEN a ELSE b

Total(counts) == Loop(LAMBDA sum, i : sum + counts[i], 0, Len(counts))

-----------------------------------------------------------------------------
(* fair_chunks: rounds of capped equal shares until the budget or the      *)
(* demands are used up.  A round is a record of counts, of the budget left *)
(* and of the candidates still active, in order.                           *)

\* One candidate's turn in a round with the given share.
Served(demands, share, round, i) ==
  LET count == Least(demands[i] - round.counts[i], Least(share, round.budget))
  IN  [round EXCEPT !.counts[i] = @ + count, !.budget = @ - count]

\* The active candidates take their turns.
AllServed(demands, share, round) ==
  Loop(LAMBDA acc, k : Served(demands, share, acc, round.active[k]), round, Len(round.active))

\* Those that want more stay active.
Dealt(demands, share, round) ==
  LET next == AllServed(demands, share, round)
  IN  [next EXCEPT !.active = Kept(@, {i \in 1 .. Len(demands) : next.counts[i] < demands[i]})]

\* Mutation: the first candidates take what they ask for.
RoundGreedy(demands, round) ==
  IF round.active = <<>> \/ round.budget = 0 THEN round ELSE Dealt(demands, round.budget, round)

Round(demands, round) ==
  IF round.active = <<>> \/ round.budget = 0 THEN round
  ELSE Dealt(demands, Most(1, round.budget \div Len(round.active)), round)

\* A round that changes anything uses at least one token or retires a
\* candidate without demand, so budget + 1 rounds are enough.
FairChunks(demands, budget) ==
  LET ids   == [i \in 1 .. Len(demands) |-> i]
      start == [counts |-> [i \in 1 .. Len(demands) |-> 0], budget |-> budget, active |-> ids]
  IN  Loop(LAMBDA round, k : Round(demands, round), start, budget + 1).counts

-----------------------------------------------------------------------------
(* rotate_after: the candidates behind the one served last come first.     *)

\* Mutation: the candidate served last comes first again.
RotateAtLast(ids, last) ==
  IF last \notin ToSet(ids) THEN ids
  ELSE LET at == (CHOOSE i \in 1 .. Len(ids) : ids[i] = last) - 1
       IN  SubSeq(ids, at + 1, Len(ids)) \o SubSeq(ids, 1, at)

RotateAfter(ids, last) ==
  IF last \notin ToSet(ids) THEN ids
  ELSE LET offset == CHOOSE i \in 1 .. Len(ids) : ids[i] = last
       IN  SubSeq(ids, offset + 1, Len(ids)) \o SubSeq(ids, 1, offset)

=============================================================================
