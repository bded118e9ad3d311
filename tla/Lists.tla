-------------------------------- MODULE Lists --------------------------------
(* The two forms of Python code that most modules translate: a for loop and *)
(* a list comprehension with a condition.                                   *)
EXTENDS Integers, SequencesExt

\* A for loop: the value after n passes, of which the i-th makes op(value, i)
\* of the value before it.
Loop(op(_, _), start, n) ==
  LET after[i \in 0 .. n] == IF i = 0 THEN start ELSE op(after[i - 1], i)
  IN  after[n]

\* [x for x in list if x in keep]
Kept(list, keep) ==
  Loop(LAMBDA kept, i : IF list[i] \in keep THEN Append(kept, list[i]) ELSE kept, <<>>, Len(list))

=============================================================================
