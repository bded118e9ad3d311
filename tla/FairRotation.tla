---------------------------- MODULE FairRotation ----------------------------
(***************************************************************************)
(* What fair_chunks and rotate_after promise together (the use schedule()  *)
(* makes of them for running prefills): a queue of candidates, each with   *)
(* some demand in every step, shares a budget that may be smaller than     *)
(* their number; candidates finish and new ones join at the back.          *)
(***************************************************************************)
EXTENDS FairShares, FiniteSets

CONSTANTS Candidates,
          MinDemand,    (* 1: every candidate wants something; drafts may want 0 *)
          MaxDemand,    (* bound: tokens one candidate asks for in a step  *)
          MaxBudget,    (* bound: tokens of a step                          *)
          NoOne

VARIABLES ids,       (* the candidates, in admission order                  *)
          gone,      (* who has left since the last step                    *)
          steps,     (* number of steps, modulo 2                           *)
          last,      (* _last_prefill_id                                    *)
          order,     (* the order in which the last step considered them    *)
          demands, budget, counts   (* what that step divided, and the result *)

vars == <<ids, gone, steps, last, order, demands, budget, counts>>

Init ==
  /\ ids = <<>> /\ gone = {} /\ steps = 0 /\ last = NoOne
  /\ order = <<>> /\ demands = <<>> /\ budget = 0 /\ counts = <<>>

\* A request preempted in a step is not admitted again in that step, and a
\* new request does not take the id of one that has just left.
Join(c) ==
  /\ c \notin ToSet(ids) /\ c \notin gone
  /\ ids' = Append(ids, c)
  /\ UNCHANGED <<gone, steps, last, order, demands, budget, counts>>

\* A candidate leaves: it is done, preempted or cancelled.
Leave(c) ==
  /\ c \in ToSet(ids)
  /\ ids' = Remove(ids, c) /\ gone' = gone \cup {c}
  /\ UNCHANGED <<steps, last, order, demands, budget, counts>>

\* The candidates a step gave something to.
GivenTo == {order[i] : i \in {i \in 1 .. Len(order) : counts[i] > 0}}

Step(d, b) ==
  /\ Len(d) = Len(ids)
  /\ order' = RotateAfter(ids, last)
  /\ demands' = d /\ budget' = b
  /\ counts' = FairChunks(d, b)
  /\ last' = LET given == {i \in 1 .. Len(order') : counts'[i] > 0}
             IN  IF given = {} THEN last
                 ELSE order'[CHOOSE i \in given : \A j \in given : j <= i]
  /\ gone' = {} /\ steps' = 1 - steps
  /\ UNCHANGED ids

Steps ==
  \E d \in [1 .. Len(ids) -> MinDemand .. MaxDemand], b \in 1 .. MaxBudget : Step(d, b)

Next ==
  \/ \E c \in Candidates : Join(c)
  \/ \E c \in Candidates : Leave(c)
  \/ Steps

Spec == Init /\ [][Next]_vars

\* Steps follow one another forever.
FairSpec == Spec /\ []<>(steps = 0) /\ []<>(steps = 1)

-----------------------------------------------------------------------------
\* "Capped equal shares, redistributing unused shares from short prompts.
\* Remainder tokens follow candidate order": nothing is left over while someone
\* wants it, nobody gets more than it asked for, and whoever got less than it
\* asked for is at most one token behind anyone, and only behind earlier ones.
SharesAreFair ==
  /\ Total(counts) = Least(budget, Total(demands))
  /\ \A i \in 1 .. Len(counts) : counts[i] \in 0 .. demands[i]
  /\ \A i, j \in 1 .. Len(counts) :
       counts[i] < demands[i] => counts[j] <= counts[i] + (IF j < i THEN 1 ELSE 0)

\* "rotates running prefills between steps, so a budget smaller than their count
\* cannot starve a tail": whoever stays a candidate is served again and again,
\* also when the one served last has left and the rotation starts over.
NobodyStarves == \A c \in Candidates : []<>(c \notin ToSet(ids) \/ c \in GivenTo)

=============================================================================
