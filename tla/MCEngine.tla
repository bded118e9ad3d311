------------------------------ MODULE MCEngine ------------------------------
(* Instances of Engine for TLC: what requests ask for in each run.          *)
EXTENDS Engine, TLC

CONSTANTS a, b, x, s1

Work(prompt, max) == [prompt |-> prompt, max |-> max, salt |-> s1]

\* Shared and unshared prefixes, short and long outputs.
PressureWork == {Work(<<a>>, 3), Work(<<a, a>>, 2), Work(<<b, a, a>>, 1)}

\* A long request, a short one that may not find room beside it, a long prompt
\* that does not fit the rest of a budget, and one that ends on arrival.
SwitchWork == {Work(<<a>>, 7), Work(<<b>>, 1), Work(<<a, b, a, b, a, b>>, 0), Work(<<a, b, a, b, a, b>>, 1)}

IdSymmetry == Permutations(Ids)
=============================================================================
