---------------------------- MODULE SharedProofs ----------------------------
(***************************************************************************)
(* What the proofs share about operators without state: natural numbers    *)
(* (least elements, induction, division with remainder), the for loops and *)
(* comprehensions of lists, totals, and fair_chunks, whose division of a   *)
(* step's token budget is fair for every list of demands and every budget. *)
(***************************************************************************)
EXTENDS FairShares, Integers, WellFoundedInduction, SequenceTheorems, TLAPS

-----------------------------------------------------------------------------
(* Induction.  The sets stand for the predicates that the induction         *)
(* theorems of the library are stated for.                                  *)

LEMMA LeastNatural ==
  ASSUME NEW T \in SUBSET Nat, T # {}
  PROVE  \E n \in T : \A m \in T : n <= m
<1> DEFINE R == OpToRel(<, Nat)
<1>1. \A x, y \in Nat : <<x, y>> \in R <=> x < y
  BY DEF OpToRel
<1>2. IsWellFoundedOn(R, Nat)
  BY NatLessThanWellFounded
<1> HIDE DEF R
<1>3. PICK n \in T : \A m \in T : ~(<<m, n>> \in R)
  BY <1>2, WFMin
<1>4. ASSUME NEW m \in T PROVE n <= m
  <2>1. m \in Nat /\ n \in Nat /\ ~(<<m, n>> \in R)
    BY <1>3
  <2>2. ~(m < n)
    BY <2>1, <1>1
  <2> QED BY <2>1, <2>2
<1> QED BY <1>4

LEMMA Induction ==
  ASSUME NEW T, 0 \in T, \A n \in Nat : n \in T => n + 1 \in T
  PROVE  Nat \subseteq T
<1> SUFFICES ASSUME Nat \ T # {} PROVE FALSE
  OBVIOUS
<1>1. PICK n \in Nat \ T : \A m \in Nat \ T : n <= m
  BY LeastNatural
<1>2. n - 1 \in Nat /\ n - 1 \notin Nat \ T /\ (n - 1) + 1 = n
  BY <1>1
<1> QED BY <1>1, <1>2

\* The i-th of n passes takes the values in S[i - 1] to values in S[i].
PassesKeep(n, step, S) ==
  \A i \in 1 .. n : \A x \in S[i - 1] : step[i][x] \in S[i]

\* The values of a loop of n such passes.
PassesFrom(start, n, step, S, h) ==
  /\ h = [i \in 0 .. n |-> h[i]] /\ h[0] = start
  /\ \A i \in 1 .. n : h[i] = step[i][h[i - 1]]
  /\ \A i \in 0 .. n : h[i] \in S[i]

LEMMA PassesExist ==
  ASSUME NEW n \in Nat, NEW S, NEW step, PassesKeep(n, step, S), NEW start \in S[0]
  PROVE  \E h : PassesFrom(start, n, step, S, h)
<1> USE DEF PassesKeep, PassesFrom
<1> DEFINE Upto(k, h) == /\ h[0] = start
                         /\ \A i \in 1 .. k : h[i] = step[i][h[i - 1]]
                         /\ \A i \in 0 .. k : h[i] \in S[i]
           T == {k \in Nat : k <= n => \E h : Upto(k, h)}
<1>1. 0 \in T
  <2>1. Upto(0, [i \in 0 .. 0 |-> start])
    OBVIOUS
  <2> QED BY <2>1
<1>2. ASSUME NEW k \in Nat, k \in T PROVE k + 1 \in T
  <2> SUFFICES ASSUME k + 1 <= n PROVE \E h : Upto(k + 1, h)
    OBVIOUS
  <2>1. PICK h : Upto(k, h)
    BY <1>2
  <2> DEFINE g == [i \in 0 .. k + 1 |-> IF i <= k THEN h[i] ELSE step[k + 1][h[k]]]
  <2>2. /\ \A i \in 0 .. k : g[i] = h[i]
        /\ g[k + 1] = step[k + 1][h[k]]
    OBVIOUS
  <2>3. h[k] \in S[k] /\ k + 1 \in 1 .. n /\ (k + 1) - 1 = k
    BY <2>1
  <2>4. g[k + 1] \in S[k + 1]
    BY <2>2, <2>3
  <2> HIDE DEF g
  <2>5. ASSUME NEW i \in 1 .. k + 1 PROVE g[i] = step[i][g[i - 1]]
    <3>1. CASE i = k + 1
      BY <2>2, <2>3, <3>1
    <3>2. CASE i # k + 1
      <4>1. i \in 1 .. k /\ i \in 0 .. k /\ i - 1 \in 0 .. k
        BY <3>2
      <4> QED BY <2>1, <2>2, <4>1
    <3> QED BY <3>1, <3>2
  <2>6. ASSUME NEW i \in 0 .. k + 1 PROVE g[i] \in S[i]
    <3>1. i = k + 1 \/ i \in 0 .. k
      OBVIOUS
    <3> QED BY <2>1, <2>2, <2>4, <3>1
  <2>7. g[0] = start
    BY <2>1, <2>2
  <2> QED BY <2>5, <2>6, <2>7
<1>3. n \in T
  BY <1>1, <1>2, Induction
<1>4. PICK h : Upto(n, h)
  BY <1>3
<1> DEFINE g == [i \in 0 .. n |-> h[i]]
<1>5. /\ \A i \in 0 .. n : g[i] = h[i] /\ g[i] \in S[i]
      /\ g[0] = start
      /\ \A i \in 1 .. n : g[i] = step[i][g[i - 1]]
  <2>1. \A i \in 1 .. n : i \in 0 .. n /\ i - 1 \in 0 .. n
    OBVIOUS
  <2> QED BY <1>4, <2>1
<1>6. g = [i \in 0 .. n |-> g[i]]
  BY <1>5
<1> QED BY <1>5, <1>6

\* Values that each pass takes from S[i - 1] to S[i] stay in the sets.
LEMMA PassesStay ==
  ASSUME NEW n \in Nat, NEW S, NEW g, g[0] \in S[0],
         \A i \in 1 .. n : g[i - 1] \in S[i - 1] => g[i] \in S[i]
  PROVE  \A i \in 0 .. n : g[i] \in S[i]
<1> DEFINE T == {i \in Nat : i <= n => g[i] \in S[i]}
<1>1. 0 \in T
  OBVIOUS
<1>2. ASSUME NEW i \in Nat, i \in T PROVE i + 1 \in T
  <2> SUFFICES ASSUME i + 1 <= n PROVE g[i + 1] \in S[i + 1]
    OBVIOUS
  <2>1. i + 1 \in 1 .. n /\ (i + 1) - 1 = i /\ g[i] \in S[i]
    BY <1>2
  <2> QED BY <2>1
<1>3. Nat \subseteq T
  BY <1>1, <1>2, Induction
<1> QED BY <1>3

-----------------------------------------------------------------------------
(* Division.                                                                *)

\* A larger multiple of s is larger by at least s.
LEMMA OneStepMore ==
  ASSUME NEW a \in Int, NEW b \in Int, NEW s \in Nat \ {0}, a > b
  PROVE  a * s >= b * s + s
<1>1. PICK d \in Nat : a = b + 1 + d
  <2>1. a - b - 1 \in Nat /\ a = b + 1 + (a - b - 1)
    OBVIOUS
  <2> QED BY <2>1
<1>2. a * s = b * s + s + d * s
  BY <1>1
<1>3. d * s >= 0
  OBVIOUS
<1> QED BY <1>2, <1>3

\* Quotient and remainder give the number back.
LEMMA QuotientAndRemainder ==
  ASSUME NEW n \in Nat, NEW s \in Nat \ {0}
  PROVE  /\ n \div s \in Nat /\ n % s \in 0 .. s - 1
         /\ n = (n \div s) * s + (n % s)
<1>1. n % s \in 0 .. s - 1 /\ n \div s \in Nat
  OBVIOUS
<1>2. n = s * (n \div s) + (n % s)
  OBVIOUS
<1> QED BY <1>1, <1>2

\* Only one quotient leaves a remainder below s.
LEMMA QuotientIsUnique ==
  ASSUME NEW a \in Nat, NEW s \in Nat \ {0}, NEW k \in 0 .. s - 1
  PROVE  (a * s + k) \div s = a /\ (a * s + k) % s = k
<1> DEFINE n == a * s + k
           q == n \div s
<1>1. n \in Nat
  OBVIOUS
<1>2. q \in Nat /\ n % s \in 0 .. s - 1 /\ n = q * s + (n % s)
  BY <1>1, QuotientAndRemainder
<1> HIDE DEF q, n
<1>3. n = a * s + k
  BY DEF n
<1>4. ~(a > q)
  BY <1>2, <1>3, OneStepMore
<1>5. ~(q > a)
  BY <1>2, <1>3, OneStepMore
<1>6. q = a
  BY <1>2, <1>4, <1>5
<1> QED BY <1>2, <1>3, <1>6 DEF q, n

\* An index into a whole of w parts of s elements lies in part n \div s.
LEMMA PartOf ==
  ASSUME NEW w \in Nat, NEW s \in Nat \ {0}, NEW n \in 0 .. w * s - 1
  PROVE  /\ n \div s \in 0 .. w - 1 /\ n % s \in 0 .. s - 1
         /\ (n \div s) * s + (n % s) = n
<1>1. w * s \in Nat /\ n \in Nat
  OBVIOUS
<1>2. n \div s \in Nat /\ n % s \in 0 .. s - 1 /\ n = (n \div s) * s + (n % s)
  BY <1>1, QuotientAndRemainder
<1>3. n < w * s
  BY <1>1
<1>4. ~(n \div s >= w)
  <2> SUFFICES ASSUME n \div s >= w PROVE FALSE
    OBVIOUS
  <2>1. (n \div s) * s >= w * s
    <3>1. CASE n \div s = w
      BY <3>1, <1>1
    <3>2. CASE n \div s > w
      <4>1. (n \div s) * s >= w * s + s
        BY <1>2, <3>2, OneStepMore
      <4>2. (n \div s) * s \in Int
        BY <1>2
      <4> QED BY <4>1, <4>2, <1>1
    <3> QED BY <3>1, <3>2, <1>2
  <2>2. (n \div s) * s \in Int
    BY <1>2
  <2> QED BY <2>1, <2>2, <1>1, <1>2, <1>3
<1> QED BY <1>2, <1>4

\* The number of parts of n that cover m, the last of them perhaps not full.
LEMMA CoveringParts ==
  ASSUME NEW m \in Nat \ {0}, NEW n \in Nat \ {0}
  PROVE  LET q == (m + n - 1) \div n
         IN  q \in Nat \ {0} /\ m <= q * n /\ (q - 1) * n < m
<1> DEFINE t == m + n - 1
           q == t \div n
<1>1. t \in Nat
  OBVIOUS
<1>2. q \in Nat /\ t % n \in 0 .. n - 1 /\ t = q * n + (t % n)
  BY <1>1, QuotientAndRemainder
<1>3. t = m + n - 1
  OBVIOUS
<1> HIDE DEF t, q
<1>4. (q - 1) * n = q * n - n /\ q * n \in Nat
  BY <1>2
<1>5. m <= q * n /\ (q - 1) * n < m
  BY <1>2, <1>3, <1>4
<1>6. q # 0
  BY <1>5
<1> QED BY <1>2, <1>5, <1>6 DEF t, q

-----------------------------------------------------------------------------
(* List comprehensions.                                                     *)

\* What is in a list, and lists without repetitions.
Listed(list, x) == \E i \in 1 .. Len(list) : list[i] = x

DistinctList(list) ==
  \A i, j \in 1 .. Len(list) : list[i] = list[j] => i = j

\* One pass of a list comprehension.
KeptNext(list, keep, kept, i) == IF list[i] \in keep THEN Append(kept, list[i]) ELSE kept

\* The passes of a list comprehension.
LEMMA KeptPasses ==
  ASSUME NEW list, NEW keep, Len(list) \in Nat
  PROVE  \E h : /\ h[0] = <<>>
                /\ \A i \in 1 .. Len(list) : h[i] = KeptNext(list, keep, h[i - 1], i)
                /\ h[Len(list)] = Kept(list, keep)
<1> DEFINE Passes(n, g) ==
             g = [i \in 0 .. n |-> IF i = 0 THEN <<>> ELSE KeptNext(list, keep, g[i - 1], i)]
           T == {n \in Nat : \E g : Passes(n, g)}
<1>1. 0 \in T
  <2>1. Passes(0, [i \in 0 .. 0 |-> <<>>])
    OBVIOUS
  <2> QED BY <2>1
<1>2. ASSUME NEW n \in Nat, n \in T PROVE n + 1 \in T
  <2>1. PICK g : Passes(n, g)
    BY <1>2
  <2> DEFINE f == [i \in 0 .. n + 1 |-> IF i <= n THEN g[i] ELSE KeptNext(list, keep, g[n], n + 1)]
  <2> HIDE DEF KeptNext
  <2>2. Passes(n + 1, f)
    BY <2>1
  <2> HIDE DEF f, Passes
  <2> QED BY <2>2
<1>3. Len(list) \in T
  <2> HIDE DEF T
  <2> QED BY <1>1, <1>2, Induction
<1>4. \E g : Passes(Len(list), g)
  BY <1>3
<1> DEFINE g == CHOOSE g : Passes(Len(list), g)
<1>5. Passes(Len(list), g)
  BY <1>4, Zenon
<1>6. Kept(list, keep) = g[Len(list)]
  BY Zenon DEF Kept, Loop, KeptNext
<1> HIDE DEF g
<1>7. g[0] = <<>> /\ \A i \in 1 .. Len(list) : g[i] = KeptNext(list, keep, g[i - 1], i)
  BY <1>5
<1> QED BY <1>6, <1>7

\* The elements of a list that stay keep their order.
InOrderOf(kept, list) ==
  \A a, b \in 1 .. Len(kept) : a < b =>
    \E p, q \in 1 .. Len(list) : p < q /\ list[p] = kept[a] /\ list[q] = kept[b]

\* What a list comprehension has kept of the first i elements.
KeptOf(S, list, keep, i, kept) ==
  /\ kept \in Seq(S) /\ Len(kept) <= i
  /\ \A a \in 1 .. Len(kept) : kept[a] \in keep /\ \E p \in 1 .. i : list[p] = kept[a]
  /\ \A p \in 1 .. i : list[p] \in keep => \E a \in 1 .. Len(kept) : list[p] = kept[a]
  /\ \A a, b \in 1 .. Len(kept) : a < b =>
       \E p, q \in 1 .. i : p < q /\ list[p] = kept[a] /\ list[q] = kept[b]

\* An element that is left out.
LEMMA KeepNot ==
  ASSUME NEW S, NEW list, NEW keep, NEW i \in Nat, NEW kept, KeptOf(S, list, keep, i, kept),
         list[i + 1] \notin keep
  PROVE  KeptOf(S, list, keep, i + 1, kept)
<1>1. kept \in Seq(S) /\ Len(kept) <= i /\ Len(kept) \in Nat
  BY DEF KeptOf
<1>2. Len(kept) <= i + 1
  BY <1>1
<1>3. \A p \in 1 .. i : p \in 1 .. i + 1
  OBVIOUS
<1>4. \A p \in 1 .. i + 1 : p = i + 1 \/ p \in 1 .. i
  OBVIOUS
<1>5. \A a \in 1 .. Len(kept) : kept[a] \in keep /\ \E p \in 1 .. i + 1 : list[p] = kept[a]
  BY <1>3 DEF KeptOf
<1>6. \A p \in 1 .. i + 1 : list[p] \in keep => \E a \in 1 .. Len(kept) : list[p] = kept[a]
  BY <1>4 DEF KeptOf
<1>7. \A a, b \in 1 .. Len(kept) : a < b =>
        \E p, q \in 1 .. i + 1 : p < q /\ list[p] = kept[a] /\ list[q] = kept[b]
  BY <1>3 DEF KeptOf
<1> QED BY <1>1, <1>2, <1>5, <1>6, <1>7 DEF KeptOf

\* An element that is kept.
LEMMA KeepOne ==
  ASSUME NEW S, NEW list, NEW keep, NEW i \in Nat, NEW kept, KeptOf(S, list, keep, i, kept),
         list[i + 1] \in S, list[i + 1] \in keep
  PROVE  KeptOf(S, list, keep, i + 1, Append(kept, list[i + 1]))
<1> DEFINE x == list[i + 1]
           longer == Append(kept, x)
           k == Len(kept)
<1>1. kept \in Seq(S) /\ k <= i /\ k \in Nat /\ x \in S
  BY DEF KeptOf
<1>2. /\ longer \in Seq(S) /\ Len(longer) = k + 1
      /\ \A a \in 1 .. k : longer[a] = kept[a]
      /\ longer[k + 1] = x
  <2> HIDE DEF x
  <2> QED BY <1>1
<1> HIDE DEF longer, k
<1>3. /\ k + 1 <= i + 1 /\ i + 1 \in 1 .. i + 1 /\ k + 1 \in 1 .. k + 1
      /\ \A p \in 1 .. i : p \in 1 .. i + 1 /\ p < i + 1
      /\ \A p \in 1 .. i + 1 : p = i + 1 \/ p \in 1 .. i
      /\ \A a \in 1 .. k : a \in 1 .. k + 1
      /\ \A a \in 1 .. k + 1 : a = k + 1 \/ a \in 1 .. k
  BY <1>1
<1>4. /\ \A a \in 1 .. k : kept[a] \in keep /\ \E p \in 1 .. i : list[p] = kept[a]
      /\ \A p \in 1 .. i : list[p] \in keep => \E a \in 1 .. k : list[p] = kept[a]
      /\ \A a, b \in 1 .. k : a < b =>
           \E p, q \in 1 .. i : p < q /\ list[p] = kept[a] /\ list[q] = kept[b]
  BY DEF KeptOf, k
<1>5. ASSUME NEW a \in 1 .. k + 1
      PROVE  longer[a] \in keep /\ \E p \in 1 .. i + 1 : list[p] = longer[a]
  <2>1. CASE a = k + 1
    BY <1>2, <1>3, <2>1 DEF x
  <2>2. CASE a \in 1 .. k
    <3>1. PICK p \in 1 .. i : list[p] = kept[a]
      BY <1>4, <2>2
    <3>2. longer[a] = kept[a] /\ kept[a] \in keep /\ p \in 1 .. i + 1
      BY <1>2, <1>3, <1>4, <2>2
    <3> QED BY <3>1, <3>2
  <2> QED BY <1>3, <2>1, <2>2
<1>6. ASSUME NEW p \in 1 .. i + 1, list[p] \in keep
      PROVE  \E a \in 1 .. k + 1 : list[p] = longer[a]
  <2>1. CASE p = i + 1
    BY <1>2, <1>3, <2>1 DEF x
  <2>2. CASE p \in 1 .. i
    <3>1. PICK a \in 1 .. k : list[p] = kept[a]
      BY <1>4, <1>6, <2>2
    <3> QED BY <1>2, <1>3, <3>1
  <2> QED BY <1>3, <2>1, <2>2
<1>7. ASSUME NEW a \in 1 .. k + 1, NEW b \in 1 .. k + 1, a < b
      PROVE  \E p, q \in 1 .. i + 1 : p < q /\ list[p] = longer[a] /\ list[q] = longer[b]
  <2>1. a \in 1 .. k
    BY <1>1, <1>7
  <2>2. CASE b = k + 1
    <3>1. PICK p \in 1 .. i : list[p] = kept[a]
      BY <1>4, <2>1
    <3>2. p \in 1 .. i + 1 /\ p < i + 1 /\ list[p] = longer[a] /\ list[i + 1] = longer[b]
      BY <1>2, <1>3, <2>1, <2>2, <3>1 DEF x
    <3> QED BY <1>3, <3>2
  <2>3. CASE b \in 1 .. k
    <3>1. PICK p \in 1 .. i, q \in 1 .. i : p < q /\ list[p] = kept[a] /\ list[q] = kept[b]
      BY <1>4, <1>7, <2>1, <2>3
    <3>2. longer[a] = kept[a] /\ longer[b] = kept[b] /\ p \in 1 .. i + 1 /\ q \in 1 .. i + 1
      BY <1>2, <1>3, <2>1, <2>3
    <3> QED BY <3>1, <3>2
  <2> QED BY <1>3, <2>2, <2>3
<1>8. KeptOf(S, list, keep, i + 1, longer)
  <2>1. Len(longer) <= i + 1
    BY <1>2, <1>3
  <2> QED BY <1>2, <1>5, <1>6, <1>7, <2>1 DEF KeptOf
<1> QED BY <1>8 DEF longer, x

\* A list comprehension keeps exactly the elements it is to keep, in order.
LEMMA KeptFacts ==
  ASSUME NEW S, NEW list \in Seq(S), NEW keep
  PROVE  LET kept == Kept(list, keep)
         IN  /\ kept \in Seq(S) /\ Len(kept) <= Len(list)
             /\ \A x : Listed(kept, x) <=> Listed(list, x) /\ x \in keep
             /\ InOrderOf(kept, list)
             /\ DistinctList(list) => DistinctList(kept)
<1> DEFINE n == Len(list)
<1>0. n \in Nat /\ \A i \in 1 .. n : list[i] \in S
  OBVIOUS
<1>1. PICK h : /\ h[0] = <<>>
               /\ \A i \in 1 .. n : h[i] = KeptNext(list, keep, h[i - 1], i)
               /\ h[n] = Kept(list, keep)
  BY <1>0, KeptPasses, Zenon
<1> HIDE DEF n
<1> DEFINE T == {i \in Nat : i <= n => KeptOf(S, list, keep, i, h[i])}
<1>2. 0 \in T
  <2>1. <<>> \in Seq(S) /\ Len(<<>>) = 0 /\ 1 .. 0 = {}
    OBVIOUS
  <2>2. KeptOf(S, list, keep, 0, <<>>)
    BY <2>1 DEF KeptOf
  <2> QED BY <1>1, <2>2
<1>3. ASSUME NEW i \in Nat, i \in T PROVE i + 1 \in T
  <2> SUFFICES ASSUME i + 1 <= n PROVE KeptOf(S, list, keep, i + 1, h[i + 1])
    OBVIOUS
  <2>1. i + 1 \in 1 .. n /\ (i + 1) - 1 = i /\ i <= n
    BY <1>0
  <2>2. KeptOf(S, list, keep, i, h[i])
    BY <1>3, <2>1
  <2>3. h[i + 1] = KeptNext(list, keep, h[i], i + 1)
    BY <1>1, <2>1
  <2>4. list[i + 1] \in S
    BY <1>0, <2>1
  <2>5. CASE list[i + 1] \notin keep
    <3>1. h[i + 1] = h[i]
      BY <2>3, <2>5 DEF KeptNext
    <3> QED BY <2>2, <2>5, <3>1, KeepNot
  <2>6. CASE list[i + 1] \in keep
    <3>1. h[i + 1] = Append(h[i], list[i + 1])
      BY <2>3, <2>6 DEF KeptNext
    <3> QED BY <2>2, <2>4, <2>6, <3>1, KeepOne
  <2> QED BY <2>5, <2>6
<1>4. n \in T
  <2> HIDE DEF T
  <2> QED BY <1>0, <1>2, <1>3, Induction
<1>5. /\ h[n] \in Seq(S) /\ Len(h[n]) <= n
      /\ \A a \in 1 .. Len(h[n]) : h[n][a] \in keep /\ \E p \in 1 .. n : list[p] = h[n][a]
      /\ \A p \in 1 .. n : list[p] \in keep => \E a \in 1 .. Len(h[n]) : list[p] = h[n][a]
      /\ \A a, b \in 1 .. Len(h[n]) : a < b =>
           \E p, q \in 1 .. n : p < q /\ list[p] = h[n][a] /\ list[q] = h[n][b]
  <2>1. KeptOf(S, list, keep, n, h[n])
    BY <1>0, <1>4
  <2> QED BY <2>1 DEF KeptOf
<1> DEFINE kept == h[n]
<1> HIDE DEF kept
<1>6. /\ \A a \in 1 .. Len(kept) : kept[a] \in keep /\ \E p \in 1 .. n : list[p] = kept[a]
      /\ \A p \in 1 .. n : list[p] \in keep => \E a \in 1 .. Len(kept) : list[p] = kept[a]
      /\ \A a, b \in 1 .. Len(kept) : a < b =>
           \E p, q \in 1 .. n : p < q /\ list[p] = kept[a] /\ list[q] = kept[b]
  BY <1>5 DEF kept
<1>7. kept \in Seq(S) /\ Len(kept) \in Nat /\ Len(kept) <= Len(list)
  BY <1>0, <1>5 DEF kept, n
<1>8. DistinctList(list) => DistinctList(kept)
  <2> SUFFICES ASSUME DistinctList(list), NEW a \in 1 .. Len(kept), NEW b \in 1 .. Len(kept),
                      kept[a] = kept[b], a # b
               PROVE  FALSE
    BY DEF DistinctList
  <2>1. ASSUME NEW c \in 1 .. Len(kept), NEW d \in 1 .. Len(kept), c < d, kept[c] = kept[d]
        PROVE  FALSE
    <3>1. PICK p \in 1 .. n, q \in 1 .. n : p < q /\ list[p] = kept[c] /\ list[q] = kept[d]
      BY <1>6, <2>1
    <3>2. p = q
      BY <2>1, <3>1 DEF DistinctList, n
    <3> QED BY <3>1, <3>2
  <2>2. a < b \/ b < a
    BY <1>7
  <2> QED BY <2>1, <2>2
<1>9. ASSUME NEW x PROVE Listed(kept, x) <=> Listed(list, x) /\ x \in keep
  <2>1. ASSUME Listed(kept, x) PROVE Listed(list, x) /\ x \in keep
    <3>1. PICK a \in 1 .. Len(kept) : kept[a] = x
      BY <2>1 DEF Listed
    <3>2. kept[a] \in keep /\ \E p \in 1 .. n : list[p] = kept[a]
      BY <1>6
    <3> QED BY <3>1, <3>2 DEF Listed, n
  <2>2. ASSUME Listed(list, x), x \in keep PROVE Listed(kept, x)
    <3>1. PICK p \in 1 .. n : list[p] = x
      BY <2>2 DEF Listed, n
    <3>2. \E a \in 1 .. Len(kept) : list[p] = kept[a]
      BY <1>6, <2>2, <3>1
    <3> QED BY <3>1, <3>2 DEF Listed
  <2> QED BY <2>1, <2>2
<1>10. InOrderOf(kept, list)
  BY <1>6 DEF InOrderOf, n
<1> QED BY <1>1, <1>7, <1>8, <1>9, <1>10 DEF kept

-----------------------------------------------------------------------------
(* Sums.                                                                    *)

TotalNext(counts, sum, i) == sum + counts[i]

\* The passes of a sum.
LEMMA TotalPasses ==
  ASSUME NEW counts, Len(counts) \in Nat
  PROVE  \E h : /\ h[0] = 0
                /\ \A i \in 1 .. Len(counts) : h[i] = TotalNext(counts, h[i - 1], i)
                /\ h[Len(counts)] = Total(counts)
<1> DEFINE Passes(n, g) ==
             g = [i \in 0 .. n |-> IF i = 0 THEN 0 ELSE TotalNext(counts, g[i - 1], i)]
           T == {n \in Nat : \E g : Passes(n, g)}
<1>1. 0 \in T
  <2>1. Passes(0, [i \in 0 .. 0 |-> 0])
    OBVIOUS
  <2> QED BY <2>1
<1>2. ASSUME NEW n \in Nat, n \in T PROVE n + 1 \in T
  <2>1. PICK g : Passes(n, g)
    BY <1>2
  <2> DEFINE f == [i \in 0 .. n + 1 |-> IF i <= n THEN g[i] ELSE TotalNext(counts, g[n], n + 1)]
  <2> HIDE DEF TotalNext
  <2>2. Passes(n + 1, f)
    BY <2>1
  <2> HIDE DEF f, Passes
  <2> QED BY <2>2
<1>3. Len(counts) \in T
  <2> HIDE DEF T
  <2> QED BY <1>1, <1>2, Induction
<1>4. \E g : Passes(Len(counts), g)
  BY <1>3
<1> DEFINE g == CHOOSE g : Passes(Len(counts), g)
<1>5. Passes(Len(counts), g)
  BY <1>4, Zenon
<1>6. Total(counts) = g[Len(counts)]
  BY Zenon DEF Total, Loop, TotalNext
<1> HIDE DEF g
<1>7. g[0] = 0 /\ \A i \in 1 .. Len(counts) : g[i] = TotalNext(counts, g[i - 1], i)
  BY <1>5
<1> QED BY <1>6, <1>7

\* The partial sums of a list of numbers.
PartialSums(counts, h) ==
  /\ h[0] = 0 /\ h[Len(counts)] = Total(counts)
  /\ \A i \in 0 .. Len(counts) : h[i] \in Nat
  /\ \A i \in Nat : i + 1 <= Len(counts) => h[i + 1] = h[i] + counts[i + 1]

LEMMA PartialSumsExist ==
  ASSUME NEW counts \in Seq(Nat)
  PROVE  \E h : PartialSums(counts, h)
<1> DEFINE n == Len(counts)
<1>1. PICK h : /\ h[0] = 0
               /\ \A i \in 1 .. n : h[i] = TotalNext(counts, h[i - 1], i)
               /\ h[n] = Total(counts)
  BY TotalPasses
<1> DEFINE T == {i \in Nat : i <= n => h[i] \in Nat}
<1>2. \A i \in Nat : i + 1 <= n => h[i + 1] = h[i] + counts[i + 1] /\ counts[i + 1] \in Nat
  <2> TAKE i \in Nat
  <2> HAVE i + 1 <= n
  <2>1. i + 1 \in 1 .. n /\ (i + 1) - 1 = i
    OBVIOUS
  <2> QED BY <1>1, <2>1 DEF TotalNext
<1>3. 0 \in T
  BY <1>1
<1>4. ASSUME NEW i \in Nat, i \in T PROVE i + 1 \in T
  <2> SUFFICES ASSUME i + 1 <= n PROVE h[i + 1] \in Nat
    OBVIOUS
  <2> QED BY <1>2, <1>4
<1>5. Nat \subseteq T
  <2> HIDE DEF T
  <2> QED BY <1>3, <1>4, Induction
<1>6. \A i \in 0 .. n : h[i] \in Nat
  BY <1>5
<1> QED BY <1>1, <1>2, <1>6 DEF PartialSums

\* A sum is a number, and larger parts have a larger sum.
LEMMA TotalGrows ==
  ASSUME NEW c \in Seq(Nat), NEW d \in Seq(Nat), Len(c) = Len(d),
         \A i \in 1 .. Len(c) : c[i] <= d[i]
  PROVE  Total(c) \in Nat /\ Total(d) \in Nat /\ Total(c) <= Total(d)
<1>1. PICK h : PartialSums(c, h)
  BY PartialSumsExist
<1>2. PICK g : PartialSums(d, g)
  BY PartialSumsExist
<1> DEFINE n == Len(c)
           T == {i \in Nat : i <= n => h[i] <= g[i]}
<1>3. 0 \in T
  BY <1>1, <1>2 DEF PartialSums
<1>4. ASSUME NEW i \in Nat, i \in T PROVE i + 1 \in T
  <2> SUFFICES ASSUME i + 1 <= n PROVE h[i + 1] <= g[i + 1]
    OBVIOUS
  <2>1. i \in 0 .. n /\ i + 1 \in 1 .. n
    OBVIOUS
  <2>2. c[i + 1] <= d[i + 1] /\ c[i + 1] \in Nat /\ d[i + 1] \in Nat
    BY <2>1
  <2>3. h[i] \in Nat /\ g[i] \in Nat /\ h[i] <= g[i]
    BY <1>1, <1>2, <1>4, <2>1 DEF PartialSums
  <2>4. h[i + 1] = h[i] + c[i + 1] /\ g[i + 1] = g[i] + d[i + 1]
    BY <1>1, <1>2, <2>1 DEF PartialSums
  <2> QED BY <2>2, <2>3, <2>4
<1>5. n \in T /\ n \in Nat
  <2>1. n \in Nat
    OBVIOUS
  <2> HIDE DEF T, n
  <2> QED BY <2>1, <1>3, <1>4, Induction
<1> QED BY <1>1, <1>2, <1>5 DEF PartialSums

LEMMA TotalIsNatural == \A c \in Seq(Nat) : Total(c) \in Nat
<1> TAKE c \in Seq(Nat)
<1>1. \A i \in 1 .. Len(c) : c[i] \in Nat /\ c[i] <= c[i]
  OBVIOUS
<1> QED BY <1>1, TotalGrows

\* The k-th term of the one sum is ck, of the other dk; the others are equal.
LEMMA OneMoreTerm ==
  ASSUME NEW i \in Nat, NEW k \in Nat, NEW ck \in Nat, NEW dk \in Nat,
         NEW h \in Nat, NEW g \in Nat, g = IF i < k THEN h ELSE h + dk - ck,
         NEW c \in Nat, NEW d \in Nat, i + 1 # k => d = c, i + 1 = k => c = ck /\ d = dk
  PROVE  g + d = IF i + 1 < k THEN h + c ELSE h + c + dk - ck
<1>1. CASE i + 1 = k
  BY <1>1
<1>2. CASE i + 1 < k
  BY <1>2
<1>3. CASE k < i + 1
  BY <1>3
<1> QED BY <1>1, <1>2, <1>3

\* Changing one part of a sum changes the sum by as much.
LEMMA TotalChanged ==
  ASSUME NEW c \in Seq(Nat), NEW d \in Seq(Nat), Len(c) = Len(d),
         NEW k \in 1 .. Len(c), \A i \in 1 .. Len(c) : i # k => d[i] = c[i]
  PROVE  Total(d) = Total(c) + d[k] - c[k]
<1>0. /\ Len(c) \in Nat
      /\ \A i \in 1 .. Len(c) : c[i] \in Nat
      /\ \A i \in 1 .. Len(c) : d[i] \in Nat
  OBVIOUS
<1>1. PICK h : PartialSums(c, h)
  BY PartialSumsExist
<1>2. PICK g : PartialSums(d, g)
  BY PartialSumsExist
<1> DEFINE n == Len(c)
           Moved(i) == IF i < k THEN h[i] ELSE h[i] + d[k] - c[k]
           T == {i \in Nat : i <= n => g[i] = Moved(i)}
<1>3. 0 \in T
  <2>1. h[0] = 0 /\ g[0] = 0 /\ 0 < k
    BY <1>1, <1>2 DEF PartialSums
  <2> QED BY <2>1
<1>4. ASSUME NEW i \in Nat, i \in T PROVE i + 1 \in T
  <2> HIDE DEF Moved
  <2> SUFFICES ASSUME i + 1 <= n PROVE g[i + 1] = Moved(i + 1)
    OBVIOUS
  <2>1. i \in 0 .. n /\ i + 1 \in 1 .. n
    OBVIOUS
  <2>2. c[i + 1] \in Nat /\ d[i + 1] \in Nat /\ c[k] \in Nat /\ d[k] \in Nat
    BY <1>0, <2>1
  <2>3. h[i] \in Nat /\ g[i] \in Nat
    BY <1>1, <1>2, <2>1 DEF PartialSums
  <2>4. g[i] = IF i < k THEN h[i] ELSE h[i] + d[k] - c[k]
    BY <1>4, <2>1 DEF Moved
  <2>5. h[i + 1] = h[i] + c[i + 1] /\ g[i + 1] = g[i] + d[i + 1]
    BY <1>1, <1>2, <2>1 DEF PartialSums
  <2>6. /\ i + 1 # k => d[i + 1] = c[i + 1]
        /\ i + 1 = k => c[i + 1] = c[k] /\ d[i + 1] = d[k]
    BY <2>1
  <2>7. k \in Nat
    OBVIOUS
  <2>8. g[i] + d[i + 1] = IF i + 1 < k THEN h[i] + c[i + 1] ELSE h[i] + c[i + 1] + d[k] - c[k]
    <3> DEFINE hi == h[i]
               gi == g[i]
               a  == c[i + 1]
               b  == d[i + 1]
               ck == c[k]
               dk == d[k]
    <3>1. /\ i \in Nat /\ k \in Nat /\ hi \in Nat /\ gi \in Nat /\ a \in Nat /\ b \in Nat /\ ck \in Nat /\ dk \in Nat
          /\ gi = IF i < k THEN hi ELSE hi + dk - ck
          /\ i + 1 # k => b = a
          /\ i + 1 = k => a = ck /\ b = dk
      BY <2>2, <2>3, <2>4, <2>6, <2>7
    <3> HIDE DEF hi, gi, a, b, ck, dk
    <3>2. gi + b = IF i + 1 < k THEN hi + a ELSE hi + a + dk - ck
      BY <3>1, OneMoreTerm
    <3> QED BY <3>2 DEF hi, gi, a, b, ck, dk
  <2> QED BY <2>5, <2>8 DEF Moved
<1>5. n \in T /\ n \in Nat
  <2>1. n \in Nat
    BY <1>0
  <2> HIDE DEF T, n
  <2> QED BY <2>1, <1>3, <1>4, Induction
<1> QED BY <1>1, <1>2, <1>5 DEF PartialSums

\* The sum of nothing but zeros.
LEMMA TotalOfZeros ==
  ASSUME NEW c \in Seq(Nat), \A i \in 1 .. Len(c) : c[i] = 0
  PROVE  Total(c) = 0
<1>1. PICK h : PartialSums(c, h)
  BY PartialSumsExist
<1> DEFINE n == Len(c)
           T == {i \in Nat : i <= n => h[i] = 0}
<1>2. 0 \in T
  BY <1>1 DEF PartialSums
<1>3. ASSUME NEW i \in Nat, i \in T PROVE i + 1 \in T
  <2> SUFFICES ASSUME i + 1 <= n PROVE h[i + 1] = 0
    OBVIOUS
  <2>1. c[i + 1] = 0 /\ h[i] = 0 /\ h[i + 1] = h[i] + c[i + 1]
    BY <1>1, <1>3 DEF PartialSums
  <2> QED BY <2>1
<1>4. n \in T /\ n \in Nat
  <2>1. n \in Nat
    OBVIOUS
  <2> HIDE DEF T, n
  <2> QED BY <2>1, <1>2, <1>3, Induction
<1> QED BY <1>1, <1>4 DEF PartialSums

\* The sum of nothing but ones.
LEMMA TotalOfOnes ==
  ASSUME NEW c \in Seq(Nat), \A i \in 1 .. Len(c) : c[i] = 1
  PROVE  Total(c) = Len(c)
<1>1. PICK h : PartialSums(c, h)
  BY PartialSumsExist
<1> DEFINE n == Len(c)
           T == {i \in Nat : i <= n => h[i] = i}
<1>2. 0 \in T
  BY <1>1 DEF PartialSums
<1>3. ASSUME NEW i \in Nat, i \in T PROVE i + 1 \in T
  <2> SUFFICES ASSUME i + 1 <= n PROVE h[i + 1] = i + 1
    OBVIOUS
  <2>1. c[i + 1] = 1 /\ h[i] = i /\ h[i + 1] = h[i] + c[i + 1]
    BY <1>1, <1>3 DEF PartialSums
  <2> QED BY <2>1
<1>4. n \in T /\ n \in Nat
  <2>1. n \in Nat
    OBVIOUS
  <2> HIDE DEF T, n
  <2> QED BY <2>1, <1>2, <1>3, Induction
<1> QED BY <1>1, <1>4 DEF PartialSums

\* Terms that are at least one, and terms that are at most one, not all of them one.
LEMMA TotalAtLeastLength ==
  ASSUME NEW c \in Seq(Nat), \A i \in 1 .. Len(c) : c[i] >= 1
  PROVE  Total(c) \in Nat /\ Len(c) <= Total(c)
<1> DEFINE n == Len(c)
           ones == [i \in 1 .. n |-> 1]
<1>1. n \in Nat /\ Total(c) \in Nat
  BY TotalIsNatural
<1>2. ones \in Seq(Nat) /\ Len(ones) = n /\ \A i \in 1 .. Len(ones) : ones[i] = 1
  BY <1>1
<1>3. \A i \in 1 .. Len(ones) : ones[i] <= c[i]
  <2> TAKE i \in 1 .. Len(ones)
  <2>1. i \in 1 .. Len(c) /\ c[i] \in Nat /\ c[i] >= 1
    BY <1>2
  <2> QED BY <1>2, <2>1
<1> HIDE DEF ones
<1>4. Total(ones) = n
  BY <1>2, TotalOfOnes
<1>5. Total(ones) <= Total(c)
  BY <1>2, <1>3, TotalGrows
<1> QED BY <1>1, <1>4, <1>5

LEMMA TotalBelowLength ==
  ASSUME NEW c \in Seq(Nat), \A i \in 1 .. Len(c) : c[i] <= 1, NEW k \in 1 .. Len(c), c[k] = 0
  PROVE  Total(c) \in Nat /\ Total(c) < Len(c)
<1> DEFINE n == Len(c)
           d == [c EXCEPT ![k] = 1]
           ones == [i \in 1 .. n |-> 1]
<1>1. n \in Nat /\ Total(c) \in Nat
  BY TotalIsNatural
<1>2. ones \in Seq(Nat) /\ Len(ones) = n /\ \A i \in 1 .. Len(ones) : ones[i] = 1
  BY <1>1
<1>3. d \in Seq(Nat) /\ Len(d) = n /\ d[k] = 1 /\ \A i \in 1 .. Len(c) : i # k => d[i] = c[i]
  OBVIOUS
<1> HIDE DEF d, ones
<1>4. Total(d) = Total(c) + d[k] - c[k]
  BY <1>3, TotalChanged
<1>5. \A i \in 1 .. Len(d) : d[i] <= ones[i]
  <2> TAKE i \in 1 .. Len(d)
  <2>1. i \in 1 .. Len(c) /\ ones[i] = 1 /\ c[i] \in Nat /\ c[i] <= 1
    BY <1>2, <1>3
  <2>2. i = k => d[i] = 1
    BY <1>3
  <2>3. i # k => d[i] = c[i]
    BY <1>3, <2>1
  <2>4. i = k \/ i # k
    OBVIOUS
  <2> HIDE DEF n
  <2> QED BY <2>1, <2>2, <2>3, <2>4
<1>6. Total(d) <= Total(ones) /\ Total(d) \in Nat
  BY <1>2, <1>3, <1>5, TotalGrows
<1>7. Total(ones) = n
  BY <1>2, TotalOfOnes
<1> QED BY <1>1, <1>3, <1>4, <1>6, <1>7

\* One part more.
LEMMA TotalAppended ==
  ASSUME NEW c \in Seq(Nat), NEW x \in Nat
  PROVE  Total(Append(c, x)) = Total(c) + x
<1> DEFINE d == Append(c, x)
<1>0. d \in Seq(Nat) /\ Len(d) = Len(c) + 1 /\ d[Len(c) + 1] = x /\ \A i \in 1 .. Len(c) : d[i] = c[i]
  OBVIOUS
<1> HIDE DEF d
<1>1. PICK h : PartialSums(c, h)
  BY PartialSumsExist
<1>2. PICK g : PartialSums(d, g)
  BY <1>0, PartialSumsExist
<1> DEFINE n == Len(c)
           T == {i \in Nat : i <= n => g[i] = h[i]}
<1>3. 0 \in T
  BY <1>1, <1>2 DEF PartialSums
<1>4. ASSUME NEW i \in Nat, i \in T PROVE i + 1 \in T
  <2> SUFFICES ASSUME i + 1 <= n PROVE g[i + 1] = h[i + 1]
    OBVIOUS
  <2>1. h[i + 1] = h[i] + c[i + 1] /\ g[i + 1] = g[i] + d[i + 1] /\ g[i] = h[i] /\ d[i + 1] = c[i + 1]
    BY <1>0, <1>1, <1>2, <1>4 DEF PartialSums
  <2> QED BY <2>1
<1>5. n \in T /\ n \in Nat
  <2>1. n \in Nat
    BY <1>0
  <2> HIDE DEF T, n
  <2> QED BY <2>1, <1>3, <1>4, Induction
<1>6. g[n + 1] = g[n] + x
  BY <1>0, <1>2, <1>5 DEF PartialSums
<1> QED BY <1>0, <1>1, <1>2, <1>5, <1>6 DEF PartialSums, d

-----------------------------------------------------------------------------
(* fair_chunks.                                                             *)

ServedNext(demands, share, round, next, k) == Served(demands, share, next, round.active[k])

\* The turns of a round.
ServedRun(demands, share, round, h) ==
  /\ h[0] = round
  /\ \A i \in 1 .. Len(round.active) : h[i] = ServedNext(demands, share, round, h[i - 1], i)
  /\ h[Len(round.active)] = AllServed(demands, share, round)

LEMMA ServedPasses ==
  ASSUME NEW demands, NEW share, NEW round, Len(round.active) \in Nat
  PROVE  \E h : ServedRun(demands, share, round, h)
<1> DEFINE Passes(n, g) ==
             g = [i \in 0 .. n |-> IF i = 0 THEN round ELSE ServedNext(demands, share, round, g[i - 1], i)]
           T == {n \in Nat : \E g : Passes(n, g)}
<1>1. 0 \in T
  <2>1. Passes(0, [i \in 0 .. 0 |-> round])
    OBVIOUS
  <2> QED BY <2>1
<1>2. ASSUME NEW n \in Nat, n \in T PROVE n + 1 \in T
  <2>1. PICK g : Passes(n, g)
    BY <1>2
  <2> DEFINE f == [i \in 0 .. n + 1 |-> IF i <= n THEN g[i] ELSE ServedNext(demands, share, round, g[n], n + 1)]
  <2> HIDE DEF ServedNext
  <2>2. Passes(n + 1, f)
    BY <2>1
  <2> HIDE DEF f, Passes
  <2> QED BY <2>2
<1>3. Len(round.active) \in T
  <2> HIDE DEF T
  <2> QED BY <1>1, <1>2, Induction
<1>4. \E g : Passes(Len(round.active), g)
  BY <1>3
<1> DEFINE g == CHOOSE g : Passes(Len(round.active), g)
<1>5. Passes(Len(round.active), g)
  BY <1>4, Zenon
<1>6. AllServed(demands, share, round) = g[Len(round.active)]
  BY Zenon DEF AllServed, Loop, ServedNext
<1> DEFINE n == Len(round.active)
<1> HIDE DEF g, n
<1>7. n \in Nat /\ Passes(n, g)
  BY <1>5 DEF n
<1>8. g[0] = round /\ \A i \in 1 .. n : g[i] = ServedNext(demands, share, round, g[i - 1], i)
  BY <1>7
<1>9. ServedRun(demands, share, round, g)
  BY <1>6, <1>8 DEF n, ServedRun
<1> QED BY <1>9

Increasing(list) == \A p, q \in 1 .. Len(list) : p < q => list[p] < list[q]

RoundShape(demands, x) ==
  /\ x = [counts |-> x.counts, budget |-> x.budget, active |-> x.active]
  /\ x.counts \in Seq(Nat) /\ Len(x.counts) = Len(demands)
  /\ x.budget \in Nat
  /\ x.active \in Seq(1 .. Len(demands)) /\ Increasing(x.active)

\* x is what the first m turns of a round make of start, in which every active
\* candidate had as much as the level.  Who got less than its share was left
\* with nothing, as everyone behind it.
Dealing(demands, share, level, start, x, m) ==
  LET active == start.active
      Due(p) == Least(demands[active[p]], level + share)
      Got(p) == x.counts[active[p]]
  IN  /\ RoundShape(demands, x) /\ x.active = active
      /\ Total(x.counts) + x.budget = Total(start.counts) + start.budget
      /\ x.budget <= start.budget
      /\ \A i \in 1 .. Len(demands) : ~Listed(active, i) => x.counts[i] = start.counts[i]
      /\ \A p \in 1 .. Len(active) : p > m => Got(p) = level
      /\ \A p \in 1 .. m : /\ level <= Got(p) /\ Got(p) <= Due(p)
                           /\ Got(p) < Due(p) => share = 1 /\ x.budget = 0
                           /\ x.budget = start.budget => Got(p) = level
      /\ \A p, q \in 1 .. m : p < q /\ Got(p) < Due(p) => Got(q) = level
      /\ share = 1 \/ x.budget >= share * (Len(active) - m)

\* Every active candidate has as much as the level, everyone else what it asked
\* for, which is no more.
Level(demands, x, level) ==
  \A i \in 1 .. Len(demands) :
    IF Listed(x.active, i) THEN x.counts[i] = level /\ level <= demands[i]
    ELSE x.counts[i] = demands[i] /\ demands[i] <= level

\* One more turn.
LEMMA DealingOne ==
  ASSUME NEW demands \in Seq(Nat), NEW share \in Nat \ {0}, NEW level \in Nat,
         NEW start, start.budget \in Nat, Level(demands, start, level),
         NEW m \in Nat, m + 1 <= Len(start.active),
         NEW x, Dealing(demands, share, level, start, x, m)
  PROVE  Dealing(demands, share, level, start, Served(demands, share, x, start.active[m + 1]), m + 1)
<1> DEFINE active == start.active
           n == Len(active)
           k == active[m + 1]
           count == Least(demands[k] - x.counts[k], Least(share, x.budget))
           y == Served(demands, share, x, k)
           Due(p) == Least(demands[active[p]], level + share)
<1>1. /\ RoundShape(demands, x) /\ x.active = active
      /\ Total(x.counts) + x.budget = Total(start.counts) + start.budget
      /\ x.budget <= start.budget
      /\ \A i \in 1 .. Len(demands) : ~Listed(active, i) => x.counts[i] = start.counts[i]
      /\ \A p \in 1 .. n : p > m => x.counts[active[p]] = level
      /\ share = 1 \/ x.budget >= share * (n - m)
  BY DEF Dealing
<1>2. ASSUME NEW p \in 1 .. m
      PROVE  /\ level <= x.counts[active[p]] /\ x.counts[active[p]] <= Due(p)
             /\ x.counts[active[p]] < Due(p) => share = 1 /\ x.budget = 0
             /\ x.budget = start.budget => x.counts[active[p]] = level
  BY DEF Dealing
<1>3. \A p, q \in 1 .. m : p < q /\ x.counts[active[p]] < Due(p) => x.counts[active[q]] = level
  BY DEF Dealing
<1>4. /\ x = [counts |-> x.counts, budget |-> x.budget, active |-> x.active]
      /\ x.counts \in Seq(Nat) /\ Len(x.counts) = Len(demands) /\ x.budget \in Nat
      /\ active \in Seq(1 .. Len(demands)) /\ Increasing(active)
  BY <1>1 DEF RoundShape
<1>5. n \in Nat /\ \A p \in 1 .. n : active[p] \in 1 .. Len(demands)
  <2>1. active \in Seq(1 .. Len(demands))
    BY <1>4
  <2> HIDE DEF active
  <2>2. Len(active) \in Nat
    BY <2>1, LenProperties
  <2>3. \A p \in 1 .. Len(active) : active[p] \in 1 .. Len(demands)
    BY <2>1, ElementOfSeq
  <2> QED BY <2>2, <2>3
<1>6. /\ n \in Nat /\ m + 1 \in 1 .. n /\ k \in 1 .. Len(demands) /\ Listed(active, k)
      /\ demands[k] \in Nat /\ level <= demands[k] /\ x.counts[k] = level
  <2>1. n \in Nat /\ m + 1 \in 1 .. n
    BY <1>5
  <2>2. k \in 1 .. Len(demands) /\ Listed(active, k)
    BY <1>5, <2>1 DEF Listed
  <2>3. demands[k] \in Nat
    BY <2>2
  <2> QED BY <1>1, <2>1, <2>2, <2>3 DEF Level
<1> HIDE DEF active
<1>7. /\ count \in Nat /\ count <= share /\ count <= x.budget
      /\ level + count <= Due(m + 1)
      /\ level + count < Due(m + 1) => count = x.budget /\ x.budget < share
  <2>1. /\ demands[k] \in Nat /\ level <= demands[k] /\ x.budget \in Nat
        /\ count = Least(demands[k] - level, Least(share, x.budget))
        /\ Due(m + 1) = Least(demands[k], level + share)
    BY <1>4, <1>6
  <2> HIDE DEF count, Due, k
  <2> DEFINE d == demands[k]
             b == x.budget
  <2>2. d \in Nat /\ level <= d /\ b \in Nat /\ count = Least(d - level, Least(share, b))
    BY <2>1
  <2> HIDE DEF d, b
  <2>3. /\ count \in Nat /\ count <= share /\ count <= b
        /\ level + count <= Least(d, level + share)
        /\ level + count < Least(d, level + share) => count = b /\ b < share
    BY <2>2 DEF Least
  <2> QED BY <2>1, <2>3 DEF d, b
<1> HIDE DEF count, k
<1>8. /\ y = [counts |-> y.counts, budget |-> y.budget, active |-> y.active]
      /\ y.counts = [x.counts EXCEPT ![k] = @ + count]
      /\ y.budget = x.budget - count /\ y.active = active
  <2>1. y = [x EXCEPT !.counts[k] = @ + count, !.budget = @ - count]
    BY DEF Served, count
  <2> HIDE DEF y
  <2> QED BY <1>1, <1>4, <2>1
<1> HIDE DEF y
<1>9. /\ y.counts \in Seq(Nat) /\ Len(y.counts) = Len(demands)
      /\ y.counts[k] = level + count
      /\ \A i \in 1 .. Len(demands) : i # k => y.counts[i] = x.counts[i]
  <2>1. x.counts[k] + count \in Nat
    <3> HIDE DEF Due, n
    <3> QED BY <1>6, <1>7
  <2>2. y.counts \in Seq(Nat) /\ Len(y.counts) = Len(x.counts)
    BY <1>4, <1>6, <1>8, <2>1
  <2>3. \A i \in 1 .. Len(x.counts) : y.counts[i] = IF i = k THEN x.counts[k] + count ELSE x.counts[i]
    BY <1>4, <1>8
  <2> QED BY <1>4, <1>6, <2>2, <2>3
<1>10. /\ x.budget \in Nat /\ start.budget \in Nat /\ x.budget <= start.budget
       /\ y.budget \in Nat /\ y.budget = x.budget - count /\ y.budget <= x.budget
       /\ count \in Nat /\ count <= x.budget
  <2>1. y.budget = x.budget - count
    BY <1>8
  <2>2. x.budget \in Nat /\ x.budget <= start.budget
    BY <1>1, <1>4
  <2> HIDE DEF count, Due
  <2> QED BY <1>7, <2>1, <2>2
<1>11. RoundShape(demands, y)
  BY <1>4, <1>8, <1>9, <1>10 DEF RoundShape
<1>12. Total(y.counts) + y.budget = Total(start.counts) + start.budget
  <2>1. Len(x.counts) = Len(y.counts) /\ k \in 1 .. Len(x.counts) /\ x.counts \in Seq(Nat) /\ y.counts \in Seq(Nat)
        /\ \A i \in 1 .. Len(x.counts) : i # k => y.counts[i] = x.counts[i]
    BY <1>4, <1>6, <1>9
  <2>2. Total(y.counts) = Total(x.counts) + y.counts[k] - x.counts[k]
    BY <2>1, TotalChanged
  <2>3. Total(x.counts) \in Nat /\ Total(x.counts) + x.budget = Total(start.counts) + start.budget
    BY <1>1, <2>1, TotalIsNatural
  <2>4. x.counts[k] = level /\ y.counts[k] = level + count
    BY <1>6, <1>9
  <2> HIDE DEF Due
  <2> QED BY <1>10, <2>2, <2>3, <2>4
<1>13. \A p \in 1 .. n : p # m + 1 => active[p] # k /\ y.counts[active[p]] = x.counts[active[p]]
  <2> TAKE p \in 1 .. n
  <2> HAVE p # m + 1
  <2>1. active[p] \in 1 .. Len(demands)
    BY <1>5
  <2>2. active[p] # active[m + 1]
    <3>1. p < m + 1 \/ m + 1 < p
      BY <1>6
    <3>2. active[p] \in Int /\ active[m + 1] \in Int
      BY <1>6, <2>1 DEF k
    <3>3. active[p] < active[m + 1] \/ active[m + 1] < active[p]
      BY <1>4, <1>6, <3>1 DEF Increasing
    <3> QED BY <3>2, <3>3
  <2> QED BY <1>9, <2>1, <2>2 DEF k
<1>14. ASSUME NEW p \in 1 .. m + 1, p # m + 1
       PROVE  p \in 1 .. m /\ y.counts[active[p]] = x.counts[active[p]]
  <2>1. p \in 1 .. n /\ p \in 1 .. m
    BY <1>6, <1>14
  <2> QED BY <1>13, <1>14, <2>1
<1>15. \A i \in 1 .. Len(demands) : ~Listed(active, i) => y.counts[i] = start.counts[i]
  BY <1>1, <1>6, <1>9
<1>16. ASSUME NEW p \in 1 .. n, p > m + 1
       PROVE  y.counts[active[p]] = level
  <2>1. p # m + 1 /\ p > m
    BY <1>16
  <2> QED BY <1>1, <1>13, <2>1
<1>17. share = 1 \/ (/\ x.budget >= share * (n - (m + 1)) + share
                     /\ share * (n - (m + 1)) \in Nat)
  <2>1. n - m = (n - (m + 1)) + 1 /\ n - (m + 1) \in Nat
    BY <1>6
  <2>2. \A j \in Nat : share * (j + 1) = share * j + share /\ share * j \in Nat
    OBVIOUS
  <2>3. share * (n - m) = share * (n - (m + 1)) + share /\ share * (n - (m + 1)) \in Nat
    BY <2>1, <2>2
  <2>4. share = 1 \/ x.budget >= share * (n - m)
    BY <1>1
  <2> QED BY <2>3, <2>4
<1> DEFINE rest == share * (n - (m + 1))
<1>18. share = 1 \/ (x.budget >= rest + share /\ rest \in Nat)
  BY <1>17
<1> HIDE DEF rest
<1>19. share = 1 \/ y.budget >= rest
  BY <1>7, <1>10, <1>18
<1>20. level + count < Due(m + 1) => share = 1 /\ y.budget = 0
  <2> SUFFICES ASSUME level + count < Due(m + 1) PROVE share = 1 /\ y.budget = 0
    OBVIOUS
  <2>1. count = x.budget /\ x.budget < share
    BY <1>7
  <2> QED BY <1>10, <1>18, <2>1
<1>21. ASSUME NEW p \in 1 .. m + 1
       PROVE  /\ level <= y.counts[active[p]] /\ y.counts[active[p]] <= Due(p)
              /\ y.counts[active[p]] < Due(p) => share = 1 /\ y.budget = 0
              /\ y.budget = start.budget => y.counts[active[p]] = level
  <2>1. CASE p = m + 1
    <3>1. y.counts[active[p]] = level + count
      BY <1>9, <2>1 DEF k
    <3>2. level <= level + count /\ (y.budget = start.budget => level + count = level)
      BY <1>10
    <3> QED BY <1>7, <1>20, <2>1, <3>1, <3>2
  <2>2. CASE p # m + 1
    <3>1. p \in 1 .. m /\ y.counts[active[p]] = x.counts[active[p]]
      BY <1>14, <2>2
    <3>2. /\ x.budget = 0 => y.budget = 0
          /\ y.budget = start.budget => x.budget = start.budget
      BY <1>10
    <3> HIDE DEF Due
    <3> QED BY <1>2, <3>1, <3>2
  <2> QED BY <2>1, <2>2
<1>22. ASSUME NEW p \in 1 .. m + 1, NEW q \in 1 .. m + 1, p < q, y.counts[active[p]] < Due(p)
       PROVE  y.counts[active[q]] = level
  <2>1. p \in 1 .. m /\ y.counts[active[p]] = x.counts[active[p]]
    <3>1. p # m + 1
      BY <1>22
    <3> QED BY <1>14, <3>1
  <2>2. share = 1 /\ x.budget = 0
    BY <1>2, <1>22, <2>1
  <2>3. CASE q = m + 1
    <3>1. count = 0
      BY <1>10, <2>2
    <3> QED BY <1>9, <2>3, <3>1 DEF k
  <2>4. CASE q # m + 1
    <3>1. q \in 1 .. m /\ y.counts[active[q]] = x.counts[active[q]]
      BY <1>14, <2>4
    <3> QED BY <1>3, <1>22, <2>1, <3>1
  <2> QED BY <2>3, <2>4
<1>23. y.budget <= start.budget /\ y.active = active
  BY <1>8, <1>10
<1> HIDE DEF n
<1> QED BY <1>11, <1>12, <1>15, <1>16, <1>19, <1>21, <1>22, <1>23 DEF Dealing, rest, active, n, k, y

\* Whoever got less than it asked for is at most one token behind anyone, and
\* only behind earlier ones.
Fair(demands, counts) ==
  \A i, j \in 1 .. Len(counts) :
    counts[i] < demands[i] => counts[j] <= counts[i] + (IF j < i THEN 1 ELSE 0)

Wanting(demands, counts) == {i \in 1 .. Len(demands) : counts[i] < demands[i]}

\* Everyone who is active can have the share.
EnoughFor(share, x) == share = 1 \/ x.budget >= share * Len(x.active)

\* What all turns of a round make of it.
LEMMA AllServedOK ==
  ASSUME NEW demands \in Seq(Nat), NEW share \in Nat \ {0}, NEW level \in Nat,
         NEW x, RoundShape(demands, x), Level(demands, x, level),
         EnoughFor(share, x)
  PROVE  Dealing(demands, share, level, x, AllServed(demands, share, x), Len(x.active))
<1> DEFINE n == Len(x.active)
<1>1. n \in Nat /\ x.budget \in Nat
  BY DEF RoundShape
<1>2. PICK h : /\ h[0] = x
               /\ \A k \in 1 .. n : h[k] = ServedNext(demands, share, x, h[k - 1], k)
               /\ h[n] = AllServed(demands, share, x)
  <2>1. Len(x.active) \in Nat
    BY <1>1
  <2>2. PICK h : ServedRun(demands, share, x, h)
    BY <2>1, ServedPasses
  <2> QED BY <2>2 DEF ServedRun
<1> DEFINE T == {m \in Nat : m <= n => Dealing(demands, share, level, x, h[m], m)}
<1>3. 0 \in T
  <2>1. \A p \in 1 .. n : x.counts[x.active[p]] = level
    <3> TAKE p \in 1 .. n
    <3>1. x.active[p] \in 1 .. Len(demands) /\ Listed(x.active, x.active[p])
      <4>1. x.active \in Seq(1 .. Len(demands))
        BY DEF RoundShape
      <4>2. x.active[p] \in 1 .. Len(demands)
        BY <4>1, ElementOfSeq
      <4> QED BY <4>2 DEF Listed
    <3> QED BY <3>1 DEF Level
  <2>2. share = 1 \/ x.budget >= share * (n - 0)
    <3>1. n - 0 = n
      BY <1>1
    <3> QED BY <3>1 DEF EnoughFor
  <2>3. 1 .. 0 = {}
    OBVIOUS
  <2>4. Dealing(demands, share, level, x, x, 0)
    BY <1>1, <2>1, <2>2, <2>3 DEF Dealing
  <2> QED BY <1>2, <2>4
<1>4. ASSUME NEW m \in Nat, m \in T PROVE m + 1 \in T
  <2> SUFFICES ASSUME m + 1 <= n PROVE Dealing(demands, share, level, x, h[m + 1], m + 1)
    OBVIOUS
  <2>1. Dealing(demands, share, level, x, h[m], m)
    BY <1>1, <1>4
  <2>2. m + 1 \in 1 .. n /\ (m + 1) - 1 = m
    BY <1>1
  <2>3. h[m + 1] = Served(demands, share, h[m], x.active[m + 1])
    BY <1>2, <2>2 DEF ServedNext
  <2>4. Dealing(demands, share, level, x, Served(demands, share, h[m], x.active[m + 1]), m + 1)
    BY <1>1, <2>1, DealingOne
  <2> QED BY <2>3, <2>4
<1>5. n \in T
  <2> HIDE DEF T, n
  <2> QED BY <1>1, <1>3, <1>4, Induction
<1> QED BY <1>1, <1>2, <1>5

\* What a round makes of x: unless it ends with the budget used up and shared
\* fairly, it raises the level, and it uses something or satisfies everybody.
DealtFrom(demands, share, level, x, y) ==
  /\ RoundShape(demands, y)
  /\ Total(y.counts) + y.budget = Total(x.counts) + x.budget
  /\ \A i \in 1 .. Len(demands) : y.counts[i] <= demands[i]
  /\ \A i \in 1 .. Len(demands) : ~Listed(y.active, i) => y.counts[i] = demands[i]
  /\ y.budget > 0 => Level(demands, y, level + share)
  /\ y.budget = 0 => Fair(demands, y.counts)
  /\ y.budget < x.budget \/ y.active = <<>>

LEMMA DealtOK ==
  ASSUME NEW demands \in Seq(Nat), NEW share \in Nat \ {0}, NEW level \in Nat,
         NEW x, RoundShape(demands, x), Level(demands, x, level), x.budget > 0,
         EnoughFor(share, x)
  PROVE  DealtFrom(demands, share, level, x, Dealt(demands, share, x))
<1> DEFINE z == AllServed(demands, share, x)
           active == x.active
           n == Len(active)
           N == Len(demands)
           y == Dealt(demands, share, x)
           kept == Kept(active, Wanting(demands, z.counts))
           Due(p) == Least(demands[active[p]], level + share)
<1>1. Dealing(demands, share, level, x, z, n)
  BY AllServedOK
<1> HIDE DEF z
<1>2. /\ x.budget \in Nat /\ active \in Seq(1 .. N) /\ Increasing(active) /\ n \in Nat /\ N \in Nat
      /\ x.counts \in Seq(Nat) /\ Len(x.counts) = N
  BY DEF RoundShape
<1>3. /\ z = [counts |-> z.counts, budget |-> z.budget, active |-> z.active]
      /\ z.counts \in Seq(Nat) /\ Len(z.counts) = N /\ z.budget \in Nat /\ z.active = active
  BY <1>1 DEF Dealing, RoundShape
<1>4. /\ Total(z.counts) + z.budget = Total(x.counts) + x.budget
      /\ z.budget <= x.budget
      /\ \A i \in 1 .. N : ~Listed(active, i) => z.counts[i] = x.counts[i]
  BY <1>1 DEF Dealing
<1>5. ASSUME NEW p \in 1 .. n
      PROVE  /\ level <= z.counts[active[p]] /\ z.counts[active[p]] <= Due(p)
             /\ z.counts[active[p]] < Due(p) => share = 1 /\ z.budget = 0
             /\ z.budget = x.budget => z.counts[active[p]] = level
  BY <1>1 DEF Dealing
<1>6. \A p, q \in 1 .. n : p < q /\ z.counts[active[p]] < Due(p) => z.counts[active[q]] = level
  BY <1>1 DEF Dealing
<1>7. /\ y = [counts |-> y.counts, budget |-> y.budget, active |-> y.active]
      /\ y.counts = z.counts /\ y.budget = z.budget /\ y.active = kept
  <2>1. y = [z EXCEPT !.active = Kept(@, Wanting(demands, z.counts))]
    BY DEF Dealt, Wanting, z
  <2> HIDE DEF y
  <2> QED BY <1>3, <2>1
<1> HIDE DEF y
<1>8. /\ kept \in Seq(1 .. N) /\ InOrderOf(kept, active)
      /\ \A i : Listed(kept, i) <=> Listed(active, i) /\ i \in Wanting(demands, z.counts)
  <2> HIDE DEF active, N
  <2> QED BY <1>2, KeptFacts
<1> HIDE DEF kept
<1>9. Increasing(kept)
  <2> SUFFICES ASSUME NEW a \in 1 .. Len(kept), NEW b \in 1 .. Len(kept), a < b PROVE kept[a] < kept[b]
    BY DEF Increasing
  <2>1. PICK p \in 1 .. n, q \in 1 .. n : p < q /\ active[p] = kept[a] /\ active[q] = kept[b]
    BY <1>8 DEF InOrderOf
  <2> QED BY <1>2, <2>1 DEF Increasing
<1>10. RoundShape(demands, y)
  BY <1>3, <1>7, <1>8, <1>9 DEF RoundShape
\* The candidates of the round, and the others.
<1>11. ASSUME NEW i \in 1 .. N, ~Listed(active, i)
       PROVE  z.counts[i] = demands[i] /\ demands[i] <= level
  BY <1>4, <1>11 DEF Level
<1>12. ASSUME NEW i \in 1 .. N, Listed(active, i)
       PROVE  \E p \in 1 .. n : i = active[p]
  BY <1>12 DEF Listed
<1>13. ASSUME NEW p \in 1 .. n
       PROVE  /\ active[p] \in 1 .. N /\ demands[active[p]] \in Nat /\ z.counts[active[p]] \in Nat
              /\ Due(p) \in Nat /\ Due(p) <= demands[active[p]] /\ Due(p) <= level + share
              /\ Due(p) < demands[active[p]] => Due(p) = level + share
              /\ Due(p) = level => demands[active[p]] = level
  <2>1. active[p] \in 1 .. N
    <3> HIDE DEF active, N
    <3> QED BY <1>2
  <2>2. demands[active[p]] \in Nat /\ z.counts[active[p]] \in Nat
    <3>1. \A i \in 1 .. N : demands[i] \in Nat /\ z.counts[i] \in Nat
      BY <1>3
    <3> HIDE DEF N
    <3> QED BY <2>1, <3>1
  <2> QED BY <2>1, <2>2 DEF Least
<1>14. ASSUME NEW i \in 1 .. N PROVE z.counts[i] <= demands[i] /\ z.counts[i] \in Nat /\ demands[i] \in Nat
  <2>1. z.counts[i] \in Nat /\ demands[i] \in Nat
    BY <1>3
  <2>2. CASE ~Listed(active, i)
    BY <1>11, <2>1, <2>2
  <2>3. CASE Listed(active, i)
    <3>1. PICK p \in 1 .. n : i = active[p]
      BY <1>12, <2>3
    <3>2. z.counts[active[p]] <= Due(p) /\ Due(p) <= demands[active[p]] /\ Due(p) \in Nat
      BY <1>5, <1>13
    <3> HIDE DEF Due
    <3> QED BY <2>1, <3>1, <3>2
  <2> QED BY <2>1, <2>2, <2>3
<1>15. ASSUME NEW i \in 1 .. N, ~Listed(kept, i)
       PROVE  z.counts[i] = demands[i]
  <2>1. CASE ~Listed(active, i)
    BY <1>11, <2>1
  <2>2. CASE Listed(active, i)
    <3>1. ~(z.counts[i] < demands[i])
      BY <1>8, <1>15, <2>2 DEF Wanting
    <3> QED BY <1>14, <3>1
  <2> QED BY <2>1, <2>2
\* With something left of the budget everybody got its share.
<1>16. ASSUME z.budget > 0, NEW p \in 1 .. n
       PROVE  z.counts[active[p]] = Due(p)
  <2>1. /\ z.counts[active[p]] <= Due(p) /\ ~(z.counts[active[p]] < Due(p))
        /\ z.counts[active[p]] \in Nat /\ Due(p) \in Nat
    <3> HIDE DEF Due
    <3>1. z.budget # 0
      BY <1>16
    <3> QED BY <1>5, <1>13, <3>1
  <2> HIDE DEF Due
  <2> QED BY <2>1
<1>17. ASSUME z.budget > 0 PROVE Level(demands, y, level + share)
  <2> SUFFICES ASSUME NEW i \in 1 .. N
               PROVE  IF Listed(kept, i) THEN z.counts[i] = level + share /\ level + share <= demands[i]
                      ELSE z.counts[i] = demands[i] /\ demands[i] <= level + share
    BY <1>7 DEF Level
  <2>1. CASE Listed(kept, i)
    <3>1. Listed(active, i) /\ z.counts[i] < demands[i]
      BY <1>8, <2>1 DEF Wanting
    <3>2. PICK p \in 1 .. n : i = active[p]
      BY <1>12, <3>1
    <3>3. z.counts[i] = Due(p) /\ (Due(p) < demands[i] => Due(p) = level + share)
      BY <1>13, <1>16, <1>17, <3>2
    <3> HIDE DEF Due
    <3>4. z.counts[i] = level + share /\ level + share < demands[i] /\ demands[i] \in Nat
      BY <1>14, <3>1, <3>3
    <3> QED BY <2>1, <3>4
  <2>2. CASE ~Listed(kept, i)
    <3>1. z.counts[i] = demands[i] /\ demands[i] \in Nat
      BY <1>14, <1>15, <2>2
    <3>2. demands[i] <= level + share
      <4>1. CASE ~Listed(active, i)
        <5>1. demands[i] <= level
          BY <1>11, <4>1
        <5> QED BY <3>1, <5>1
      <4>2. CASE Listed(active, i)
        <5>1. PICK p \in 1 .. n : i = active[p]
          BY <1>12, <4>2
        <5>2. z.counts[i] = Due(p) /\ Due(p) <= level + share
          BY <1>13, <1>16, <1>17, <5>1
        <5> HIDE DEF Due
        <5> QED BY <3>1, <5>2
      <4> QED BY <4>1, <4>2
    <3> QED BY <2>2, <3>1, <3>2
  <2> QED BY <2>1, <2>2
<1>18. ASSUME z.budget = 0 PROVE Fair(demands, y.counts)
  <2> SUFFICES ASSUME NEW i \in 1 .. N, NEW j \in 1 .. N, z.counts[i] < demands[i]
               PROVE  z.counts[j] <= z.counts[i] + (IF j < i THEN 1 ELSE 0)
    BY <1>3, <1>7 DEF Fair
  <2>0. z.counts[i] \in Nat /\ z.counts[j] \in Nat /\ demands[i] \in Nat /\ demands[j] \in Nat
    BY <1>14
  <2>1. Listed(active, i)
    BY <1>11, <2>0
  <2>2. PICK p \in 1 .. n : i = active[p]
    BY <1>12, <2>1
  <2>3. level <= z.counts[i] /\ z.counts[i] <= Due(p) /\ Due(p) \in Nat
        /\ (z.counts[i] < Due(p) => share = 1)
        /\ (Due(p) < demands[i] => Due(p) = level + share)
    BY <1>5, <1>13, <2>2
  <2>4. ~Listed(active, j) => z.counts[j] <= level
    BY <1>11
  <2>5. ASSUME NEW q \in 1 .. n, j = active[q]
        PROVE  z.counts[j] <= level + share
    <3>1. z.counts[j] <= Due(q) /\ Due(q) \in Nat /\ Due(q) <= level + share
      BY <1>5, <1>13, <2>5
    <3> HIDE DEF Due
    <3> QED BY <2>0, <3>1
  <2>6. z.counts[j] <= level + share
    <3>1. CASE ~Listed(active, j)
      BY <2>0, <2>4, <3>1
    <3>2. CASE Listed(active, j)
      <4>1. PICK q \in 1 .. n : j = active[q]
        BY <1>12, <3>2
      <4> QED BY <2>5, <4>1
    <3> QED BY <3>1, <3>2
  <2>7. /\ z.counts[j] <= z.counts[i] + 1
        /\ z.counts[i] = Due(p) => z.counts[j] <= z.counts[i]
        /\ z.counts[j] <= level => z.counts[j] <= z.counts[i]
    <3> DEFINE ci == z.counts[i]
               cj == z.counts[j]
               di == demands[i]
               du == Due(p)
    <3>1. /\ ci \in Nat /\ cj \in Nat /\ di \in Nat /\ du \in Nat /\ level \in Nat /\ share \in Nat
          /\ ci < di /\ level <= ci /\ ci <= du /\ cj <= level + share
      BY <2>0, <2>3, <2>6
    <3>2. (ci < du => share = 1) /\ (du < di => du = level + share)
      BY <2>3
    <3> HIDE DEF ci, cj, di, du
    <3>3. cj <= ci + 1 /\ (ci = du => cj <= ci) /\ (cj <= level => cj <= ci)
      BY <3>1, <3>2
    <3> QED BY <3>3 DEF ci, cj, du
  <2>8. CASE j < i
    BY <2>7, <2>8
  <2>9. CASE ~(j < i)
    <3> SUFFICES z.counts[j] <= z.counts[i]
      BY <2>0, <2>9
    <3>1. CASE z.counts[i] = Due(p)
      BY <2>7, <3>1
    <3>2. CASE ~Listed(active, j)
      BY <2>4, <2>7, <3>2
    <3>3. CASE z.counts[i] # Due(p) /\ Listed(active, j)
      <4>1. PICK q \in 1 .. n : j = active[q]
        BY <1>12, <3>3
      <4>2. z.counts[i] < Due(p)
        <5> HIDE DEF Due
        <5> QED BY <2>0, <2>3, <3>3
      <4>3. CASE p < q
        <5>1. z.counts[j] = level
          BY <1>6, <2>2, <4>1, <4>2, <4>3
        <5> QED BY <2>0, <2>7, <5>1
      <4>4. CASE p = q
        BY <2>0, <2>2, <4>1, <4>4
      <4>5. CASE q < p
        <5>1. j < i
          BY <1>2, <2>2, <4>1, <4>5 DEF Increasing
        <5> QED BY <2>9, <5>1
      <4> QED BY <4>3, <4>4, <4>5
    <3> QED BY <3>1, <3>2, <3>3
  <2> QED BY <2>8, <2>9
<1>19. z.budget < x.budget \/ kept = <<>>
  <2> SUFFICES ASSUME ~(z.budget < x.budget) PROVE kept = <<>>
    OBVIOUS
  <2>1. z.budget = x.budget /\ z.budget > 0
    BY <1>2, <1>3, <1>4
  <2>2. ASSUME NEW a \in 1 .. Len(kept) PROVE FALSE
    <3> DEFINE i == kept[a]
    <3>1. Listed(kept, i)
      BY DEF Listed
    <3>2. Listed(active, i) /\ i \in 1 .. N /\ z.counts[i] < demands[i]
      BY <1>8, <3>1 DEF Wanting
    <3>3. PICK p \in 1 .. n : i = active[p]
      BY <1>12, <3>2
    <3>4. z.counts[i] = level /\ z.counts[i] = Due(p) /\ (Due(p) = level => demands[i] = level)
      BY <1>5, <1>13, <1>16, <2>1, <3>3
    <3> HIDE DEF i, Due
    <3> QED BY <1>14, <3>2, <3>4
  <2>3. Len(kept) \in Nat
    BY <1>8
  <2>4. Len(kept) = 0
    BY <2>2, <2>3
  <2> QED BY <1>8, <2>4
<1>20. DealtFrom(demands, share, level, x, y)
  BY <1>4, <1>7, <1>10, <1>14, <1>15, <1>17, <1>18, <1>19 DEF DealtFrom
<1> QED BY <1>20 DEF y

RoundNext(demands, x, k) == Round(demands, x)

ChunksStart(demands, budget) ==
  [counts |-> [i \in 1 .. Len(demands) |-> 0], budget |-> budget,
   active |-> [i \in 1 .. Len(demands) |-> i]]

ChunksEnd(demands, budget) ==
  Loop(LAMBDA round, k : Round(demands, round), ChunksStart(demands, budget), budget + 1)

\* The rounds of fair_chunks.
LEMMA RoundPasses ==
  ASSUME NEW demands, NEW budget, (budget + 1) \in Nat
  PROVE  \E h : /\ h[0] = ChunksStart(demands, budget)
                /\ \A i \in 1 .. (budget + 1) : h[i] = RoundNext(demands, h[i - 1], i)
                /\ h[(budget + 1)] = ChunksEnd(demands, budget)
<1> DEFINE Passes(n, g) ==
             g = [i \in 0 .. n |-> IF i = 0 THEN ChunksStart(demands, budget) ELSE RoundNext(demands, g[i - 1], i)]
           T == {n \in Nat : \E g : Passes(n, g)}
<1>1. 0 \in T
  <2>1. Passes(0, [i \in 0 .. 0 |-> ChunksStart(demands, budget)])
    OBVIOUS
  <2> QED BY <2>1
<1>2. ASSUME NEW n \in Nat, n \in T PROVE n + 1 \in T
  <2>1. PICK g : Passes(n, g)
    BY <1>2
  <2> DEFINE f == [i \in 0 .. n + 1 |-> IF i <= n THEN g[i] ELSE RoundNext(demands, g[n], n + 1)]
  <2> HIDE DEF RoundNext
  <2>2. Passes(n + 1, f)
    BY <2>1
  <2> HIDE DEF f, Passes
  <2> QED BY <2>2
<1>3. (budget + 1) \in T
  <2> HIDE DEF T
  <2> QED BY <1>1, <1>2, Induction
<1>4. \E g : Passes((budget + 1), g)
  BY <1>3
<1> DEFINE g == CHOOSE g : Passes((budget + 1), g)
<1>5. Passes((budget + 1), g)
  BY <1>4, Zenon
<1>6. ChunksEnd(demands, budget) = g[(budget + 1)]
  BY Zenon DEF ChunksEnd, Loop, RoundNext
<1> DEFINE n == (budget + 1)
<1> HIDE DEF g, n
<1>7. n \in Nat /\ Passes(n, g)
  BY <1>5 DEF n
<1>8. g[0] = ChunksStart(demands, budget) /\ \A i \in 1 .. n : g[i] = RoundNext(demands, g[i - 1], i)
  BY <1>7
<1> QED BY <1>6, <1>8 DEF n


\* What holds between two rounds, of which k are over.
BetweenRounds(demands, budget, x, k) ==
  /\ RoundShape(demands, x)
  /\ Total(x.counts) + x.budget = budget
  /\ \A i \in 1 .. Len(demands) : x.counts[i] <= demands[i]
  /\ \A i \in 1 .. Len(demands) : ~Listed(x.active, i) => x.counts[i] = demands[i]
  /\ x.budget > 0 => \E level \in Nat : Level(demands, x, level)
  /\ x.budget = 0 => Fair(demands, x.counts)
  /\ x.active = <<>> \/ x.budget = 0 \/ x.budget + k <= budget

\* One more round.
LEMMA RoundOK ==
  ASSUME NEW demands \in Seq(Nat), NEW budget \in Nat, NEW k \in Nat,
         NEW x, BetweenRounds(demands, budget, x, k)
  PROVE  BetweenRounds(demands, budget, Round(demands, x), k + 1)
<1>1. CASE x.active = <<>> \/ x.budget = 0
  <2>1. Round(demands, x) = x
    BY <1>1 DEF Round
  <2>2. x.active = <<>> \/ x.budget = 0 \/ x.budget + (k + 1) <= budget
    BY <1>1
  <2> QED BY <2>1, <2>2 DEF BetweenRounds
<1>2. CASE ~(x.active = <<>> \/ x.budget = 0)
  <2> DEFINE n == Len(x.active)
             share == Most(1, x.budget \div n)
             y == Dealt(demands, share, x)
  <2>1. Round(demands, x) = y
    BY <1>2 DEF Round
  <2>2. /\ RoundShape(demands, x) /\ x.budget \in Nat /\ x.budget > 0
        /\ x.active \in Seq(1 .. Len(demands)) /\ n \in Nat \ {0}
    <3>1. RoundShape(demands, x)
      BY DEF BetweenRounds
    <3>2. x.budget \in Nat /\ x.budget > 0 /\ x.active \in Seq(1 .. Len(demands)) /\ x.active # <<>>
      BY <1>2, <3>1 DEF RoundShape
    <3> QED BY <3>1, <3>2
  <2>3. PICK level \in Nat : Level(demands, x, level)
    BY <2>2 DEF BetweenRounds
  <2>4. share \in Nat \ {0} /\ (share = 1 \/ x.budget >= share * n)
    <3> DEFINE b == x.budget
               q == b \div n
    <3>1. b \in Nat /\ n \in Nat \ {0}
      BY <2>2
    <3> HIDE DEF b, n
    <3>2. q \in Nat /\ b % n \in Nat /\ b = q * n + (b % n)
      <4>1. b \div n \in Nat /\ b % n \in 0 .. n - 1 /\ b = (b \div n) * n + (b % n)
        BY <3>1, QuotientAndRemainder
      <4>2. b % n \in Nat
        BY <3>1, <4>1
      <4> QED BY <4>1, <4>2
    <3>3. share = Most(1, q)
      BY DEF b
    <3> DEFINE m == q * n
    <3>4. m <= b
      <4>1. m \in Nat
        BY <3>1, <3>2
      <4> HIDE DEF m, q
      <4> QED BY <3>2, <4>1 DEF m
    <3> HIDE DEF q, m
    <3> HIDE DEF share
    <3>5. CASE q > 1
      <4>1. share = q
        BY <3>2, <3>3, <3>5 DEF Most
      <4> QED BY <3>1, <3>2, <3>4, <3>5, <4>1 DEF m, b
    <3>6. CASE ~(q > 1)
      <4>1. share = 1
        BY <3>2, <3>3, <3>6 DEF Most
      <4> QED BY <4>1
    <3> QED BY <3>5, <3>6
  <2> HIDE DEF share, y, n
  <2>5. /\ RoundShape(demands, y)
        /\ Total(y.counts) + y.budget = Total(x.counts) + x.budget
        /\ \A i \in 1 .. Len(demands) : y.counts[i] <= demands[i]
        /\ \A i \in 1 .. Len(demands) : ~Listed(y.active, i) => y.counts[i] = demands[i]
        /\ y.budget > 0 => Level(demands, y, level + share)
        /\ y.budget = 0 => Fair(demands, y.counts)
        /\ y.budget < x.budget \/ y.active = <<>>
    <3>1. EnoughFor(share, x)
      BY <2>4 DEF n, EnoughFor
    <3>2. DealtFrom(demands, share, level, x, Dealt(demands, share, x))
      BY <2>2, <2>3, <2>4, <3>1, DealtOK
    <3> QED BY <3>2 DEF DealtFrom, y
  <2>6. y.budget \in Nat
    BY <2>5 DEF RoundShape
  <2>7. /\ Total(x.counts) + x.budget = budget
        /\ x.budget + k <= budget
    BY <1>2 DEF BetweenRounds
  <2>8. y.active = <<>> \/ y.budget = 0 \/ y.budget + (k + 1) <= budget
    BY <2>2, <2>5, <2>6, <2>7
  <2>9. y.budget > 0 => \E l \in Nat : Level(demands, y, l)
    BY <2>4, <2>5
  <2> QED BY <2>1, <2>5, <2>7, <2>8, <2>9 DEF BetweenRounds
<1> QED BY <1>1, <1>2

\* The start of fair_chunks.
LEMMA ChunksStartOK ==
  ASSUME NEW demands \in Seq(Nat), NEW budget \in Nat
  PROVE  BetweenRounds(demands, budget, ChunksStart(demands, budget), 0)
<1> DEFINE x == ChunksStart(demands, budget)
           N == Len(demands)
<1>1. N \in Nat /\ \A i \in 1 .. N : demands[i] \in Nat
  OBVIOUS
<1>2. /\ x = [counts |-> x.counts, budget |-> x.budget, active |-> x.active]
      /\ x.counts = [i \in 1 .. N |-> 0] /\ x.budget = budget /\ x.active = [i \in 1 .. N |-> i]
  BY DEF ChunksStart
<1> HIDE DEF x, N
<1>3. x.counts \in Seq(Nat) /\ Len(x.counts) = N /\ \A i \in 1 .. N : x.counts[i] = 0
  <2> DEFINE s == [i \in 1 .. N |-> 0]
  <2>1. s \in [1 .. N -> Nat] /\ DOMAIN s = 1 .. N /\ \A i \in 1 .. N : s[i] = 0
    OBVIOUS
  <2> HIDE DEF s
  <2>2. s \in Seq(Nat)
    BY <1>1, <2>1, SeqDef
  <2>3. Len(s) = N
    <3>1. Len(s) \in Nat /\ DOMAIN s = 1 .. Len(s)
      BY <2>2, LenProperties
    <3> QED BY <1>1, <2>1, <3>1
  <2>4. x.counts = s
    BY <1>2 DEF s
  <2> QED BY <2>1, <2>2, <2>3, <2>4
<1>4. x.active \in Seq(1 .. N) /\ Len(x.active) = N /\ \A i \in 1 .. N : x.active[i] = i
  <2>1. [i \in 1 .. N |-> i] \in Seq(1 .. N) /\ Len([i \in 1 .. N |-> i]) = N
    <3> DEFINE s == [i \in 1 .. N |-> i]
    <3>1. s \in [1 .. N -> 1 .. N] /\ DOMAIN s = 1 .. N
      OBVIOUS
    <3> HIDE DEF s
    <3>2. s \in Seq(1 .. N)
      BY <1>1, <3>1, SeqDef
    <3>3. Len(s) = N
      <4>1. Len(s) \in Nat /\ DOMAIN s = 1 .. Len(s)
        BY <3>2, LenProperties
      <4> QED BY <1>1, <3>1, <4>1
    <3> QED BY <3>2, <3>3 DEF s
  <2> QED BY <1>2, <2>1
<1>5. \A i \in 1 .. N : Listed(x.active, i)
  BY <1>4 DEF Listed
<1>6. RoundShape(demands, x)
  BY <1>2, <1>3, <1>4 DEF RoundShape, Increasing, N
<1>7. Total(x.counts) = 0
  BY <1>3, TotalOfZeros
<1>8. Level(demands, x, 0)
  BY <1>1, <1>3, <1>5 DEF Level, N
<1>9. Fair(demands, x.counts)
  BY <1>3 DEF Fair
<1>10. x.budget > 0 => \E level \in Nat : Level(demands, x, level)
  BY <1>8
<1>11. Total(x.counts) + x.budget = budget /\ x.budget + 0 <= budget
  BY <1>2, <1>7
<1>12. /\ \A i \in 1 .. N : x.counts[i] <= demands[i]
       /\ \A i \in 1 .. N : ~Listed(x.active, i) => x.counts[i] = demands[i]
  <2>1. \A i \in 1 .. N : x.counts[i] = 0 /\ demands[i] \in Nat
    BY <1>1, <1>3
  <2>2. \A i \in 1 .. N : x.counts[i] <= demands[i]
    BY <2>1
  <2> QED BY <1>5, <2>2, Zenon
<1>13. BetweenRounds(demands, budget, x, 0)
  BY <1>6, <1>9, <1>10, <1>11, <1>12 DEF BetweenRounds, N
<1> QED BY <1>13 DEF x

\* fair_chunks: nothing is left over while someone wants it, nobody gets more
\* than it asked for, and whoever got less than it asked for is at most one token
\* behind anyone, and only behind earlier candidates.
THEOREM ChunksAreFair ==
  ASSUME NEW demands \in Seq(Nat), NEW budget \in Nat
  PROVE  LET counts == FairChunks(demands, budget)
         IN  /\ counts \in Seq(Nat) /\ Len(counts) = Len(demands)
             /\ Total(counts) = Least(budget, Total(demands))
             /\ \A i \in 1 .. Len(counts) : counts[i] \in 0 .. demands[i]
             /\ Fair(demands, counts)
<1> DEFINE end == ChunksEnd(demands, budget)
           n == budget + 1
<1>1. FairChunks(demands, budget) = end.counts
  BY DEF FairChunks, ChunksEnd, ChunksStart
<1>2. PICK h : /\ h[0] = ChunksStart(demands, budget)
               /\ \A k \in 1 .. n : h[k] = RoundNext(demands, h[k - 1], k)
               /\ h[n] = end
  <2>1. budget + 1 \in Nat
    OBVIOUS
  <2> QED BY <2>1, RoundPasses, Zenon
<1> DEFINE T == {k \in Nat : k <= n => BetweenRounds(demands, budget, h[k], k)}
<1>3. 0 \in T
  BY <1>2, ChunksStartOK
<1>4. ASSUME NEW k \in Nat, k \in T PROVE k + 1 \in T
  <2> SUFFICES ASSUME k + 1 <= n PROVE BetweenRounds(demands, budget, h[k + 1], k + 1)
    OBVIOUS
  <2>1. BetweenRounds(demands, budget, h[k], k)
    BY <1>4
  <2>2. k + 1 \in 1 .. n /\ (k + 1) - 1 = k
    OBVIOUS
  <2>3. h[k + 1] = Round(demands, h[k])
    BY <1>2, <2>2 DEF RoundNext
  <2> QED BY <2>1, <2>3, RoundOK
<1>5. n \in T
  <2>1. n \in Nat
    OBVIOUS
  <2> HIDE DEF T, n
  <2> QED BY <2>1, <1>3, <1>4, Induction
<1> HIDE DEF end
<1>6. BetweenRounds(demands, budget, end, budget + 1)
  BY <1>2, <1>5
<1> DEFINE counts == end.counts
<1>7. /\ counts \in Seq(Nat) /\ Len(counts) = Len(demands) /\ end.budget \in Nat
      /\ end.active \in Seq(1 .. Len(demands))
  BY <1>6 DEF BetweenRounds, RoundShape
<1>8. /\ Total(counts) + end.budget = budget
      /\ \A i \in 1 .. Len(demands) : counts[i] <= demands[i]
      /\ \A i \in 1 .. Len(demands) : ~Listed(end.active, i) => counts[i] = demands[i]
      /\ end.budget = 0 => Fair(demands, counts)
      /\ end.active = <<>> \/ end.budget = 0 \/ end.budget + (budget + 1) <= budget
  BY <1>6 DEF BetweenRounds
<1> HIDE DEF counts
<1>9. end.active = <<>> \/ end.budget = 0
  BY <1>7, <1>8
<1>10. Total(counts) \in Nat /\ Total(demands) \in Nat /\ Total(counts) <= Total(demands)
  BY <1>7, <1>8, TotalGrows
<1>11. \A i \in 1 .. Len(counts) : counts[i] \in Nat /\ demands[i] \in Nat
  BY <1>7
<1>12. CASE end.budget = 0
  <2>1. Total(counts) = Least(budget, Total(demands))
    BY <1>8, <1>10, <1>12 DEF Least
  <2> QED BY <1>1, <1>7, <1>8, <1>11, <1>12, <2>1 DEF counts
<1>13. CASE end.active = <<>>
  <2>1. \A i \in 1 .. Len(counts) : counts[i] = demands[i]
    BY <1>7, <1>8, <1>13 DEF Listed
  <2>2. counts = demands
    BY <1>7, <2>1, SeqEqual
  <2>3. Total(counts) = Least(budget, Total(demands))
    BY <1>7, <1>8, <1>10, <2>2 DEF Least
  <2>4. Fair(demands, counts)
    BY <1>11, <2>1 DEF Fair
  <2> QED BY <1>1, <1>7, <1>8, <1>11, <2>3, <2>4 DEF counts
<1> QED BY <1>9, <1>12, <1>13

\* A budget with a token for everyone who wants one leaves nobody without.
LEMMA EveryoneIsServed ==
  ASSUME NEW demands \in Seq(Nat), NEW budget \in Nat,
         \A i \in 1 .. Len(demands) : demands[i] >= 1, Len(demands) <= budget,
         NEW k \in 1 .. Len(demands)
  PROVE  FairChunks(demands, budget)[k] > 0
<1> DEFINE counts == FairChunks(demands, budget)
           n == Len(demands)
<1>1. /\ counts \in Seq(Nat) /\ Len(counts) = n
      /\ Total(counts) = Least(budget, Total(demands)) /\ Fair(demands, counts)
  BY ChunksAreFair
<1> HIDE DEF counts
<1>2. /\ counts[k] \in Nat
      /\ \A i \in 1 .. Len(counts) : counts[i] \in Nat
      /\ \A i \in 1 .. n : demands[i] \in Nat /\ demands[i] >= 1
  <2>1. counts \in Seq(Nat) /\ Len(counts) = Len(demands)
    BY <1>1
  <2>2. \A i \in 1 .. Len(counts) : counts[i] \in Nat
    BY <2>1
  <2>3. \A i \in 1 .. n : demands[i] \in Nat
    OBVIOUS
  <2> QED BY <2>1, <2>2, <2>3
<1> SUFFICES ASSUME counts[k] = 0 PROVE FALSE
  BY <1>2 DEF counts
<1>3. \A i \in 1 .. Len(counts) : counts[i] <= 1
  <2> TAKE i \in 1 .. Len(counts)
  <2> DEFINE m == Len(counts)
  <2>0. m = n
    BY <1>1
  <2>1. k \in 1 .. m /\ demands[k] \in Nat /\ demands[k] >= 1 /\ counts[i] \in Nat
    BY <1>2, <2>0
  <2> DEFINE e == IF i < k THEN 1 ELSE 0
             a == counts[i]
             b == demands[k]
  <2>2. counts[k] < b => a <= counts[k] + e
    <3>1. Fair(demands, counts) /\ i \in 1 .. Len(counts) /\ k \in 1 .. Len(counts)
      BY <1>1, <2>1
    <3> QED BY <3>1, Zenon DEF Fair
  <2>3. a \in Nat /\ b \in Nat /\ b >= 1 /\ e \in {0, 1} /\ (0 < b => a <= 0 + e)
    BY <2>1, <2>2
  <2> HIDE DEF a, b, e
  <2>4. a <= 1
    BY <2>3
  <2> QED BY <2>4 DEF a
<1>4. Total(counts) \in Nat /\ Total(counts) < n
  BY <1>1, <1>3, TotalBelowLength
<1>5. Total(demands) \in Nat /\ n <= Total(demands) /\ n \in Nat
  BY TotalAtLeastLength
<1>6. n <= Least(budget, Total(demands))
  BY <1>5 DEF Least
<1> QED BY <1>1, <1>4, <1>5, <1>6

=============================================================================
