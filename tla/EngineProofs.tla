----------------------------- MODULE EngineProofs -----------------------------
(***************************************************************************)
(* What holds of the engine for every workload, every size of the pool and *)
(* every setting of the scheduler: only running requests hold pages        *)
(* (PagesAreForRunning), the cache has exactly the tokens the scheduler    *)
(* counts as computed (ProgressIsCached), a batch that is out still fits   *)
(* its limits and its pages (BatchesAreReady), nobody who waits is passed  *)
(* over (HeadsAreNotBypassed), and while a request is left a step has      *)
(* something to do (StepsHaveWork).                                        *)
(*                                                                         *)
(* They follow from EngineInv.  None of them is inductive: that a commit   *)
(* leaves a request's tokens in step with its cache rests on the pages     *)
(* reserved when its slice was chosen still being its own, although        *)
(* requests chosen later may have preempted others for their pages.  So    *)
(* the proof carries, through every loop of schedule() and of step(), what *)
(* is true between two passes:                                             *)
(*   Steady   each request is waiting without pages or running with them,  *)
(*            but for the guest a lookup is giving pages to; its cached    *)
(*            tokens are the first `computed' of its tokens, not all;      *)
(*   ItemsOK  each entry of the batch is the next slice of a running       *)
(*            request that owns the pages for it;                          *)
(*   Onward   the budget is what it was, and a running request is as it    *)
(*            was unless this step has preempted it; who waits keeps his   *)
(*            place in the queue until he is chosen (Patient).             *)
(* Between two calls the scheduler is Quiet: Steady, with an empty batch,  *)
(* nobody preempted in this step, no one blocked and a budget.             *)
(***************************************************************************)
EXTENDS Engine, KVTablesProofs

-----------------------------------------------------------------------------
(***************************************************************************)
(* What holds of a scheduler at every moment of a step: of each request    *)
(* its place in the queues, its table, and its progress in the cache.      *)
(***************************************************************************)

Request == [prompt : Seq(Vocabulary), out : Seq(OutTokens), max : Nat, salt : Salts,
            computed : Nat, status : {"waiting", "running"}]

RequestOK(q) == q \in Request /\ q.prompt # <<>> /\ NumTokens(q) <= MaxModelLen

\* The table of a request holds what is counted as computed, of its tokens and
\* of those it has been given and not yet taken over; less than all of them.
CachedOK(q, given, kv, r) ==
  /\ given \in Seq(OutTokens)
  /\ q.computed < NumTokens(q) + Len(given)
  /\ IF r \in Live(kv) THEN kv.states[r].tokens = SubSeq(TokenIds(q) \o given, 1, q.computed)
     ELSE q.computed = 0

\* A request is in the queue its status names, and has a table if it runs or
\* is a guest: one that waits and is being looked up.
Standing(s, r, guests, given) ==
  /\ Listed(s.waiting, r) <=> r \in DOMAIN s.req /\ s.req[r].status = "waiting"
  /\ Listed(s.running, r) <=> r \in DOMAIN s.req /\ s.req[r].status = "running"
  /\ r \in Live(s.kv) <=> r \in DOMAIN s.req /\ (s.req[r].status = "running" \/ r \in guests)
  /\ r \in DOMAIN s.req => RequestOK(s.req[r]) /\ CachedOK(s.req[r], given[r], s.kv, r)

Shape(s) ==
  s = [req |-> s.req, waiting |-> s.waiting, running |-> s.running, kv |-> s.kv,
       lastDecode |-> s.lastDecode, lastPrefill |-> s.lastPrefill, budget |-> s.budget,
       steps |-> s.steps, age |-> s.age, idle |-> s.idle, displaced |-> s.displaced,
       items |-> s.items, preempted |-> s.preempted, blocked |-> s.blocked]

Queue(list) == list \in Seq(Ids) /\ DistinctList(list)

Frame(s) ==
  /\ Shape(s)
  /\ DOMAIN s.req \subseteq Ids /\ s.req = [x \in DOMAIN s.req |-> s.req[x]]
  /\ Queue(s.waiting) /\ Queue(s.running) /\ Live(s.kv) \subseteq Ids
  /\ TablesOK(s.kv, Vocabulary, Salts)

Steady(s, guests, given) == Frame(s) /\ \A x \in Ids : Standing(s, x, guests, given)

\* Between two schedulers nothing has changed for anyone but r.
OthersKept(s, t, r) ==
  \A x \in Ids : x # r =>
    /\ Listed(t.waiting, x) <=> Listed(s.waiting, x)
    /\ Listed(t.running, x) <=> Listed(s.running, x)
    /\ x \in DOMAIN t.req <=> x \in DOMAIN s.req
    /\ x \in Live(t.kv) <=> x \in Live(s.kv)
    /\ x \in DOMAIN s.req => t.req[x] = s.req[x]
    /\ x \in Live(s.kv) => /\ t.kv.states[x] = s.kv.states[x]
                           /\ \A n \in Nat : Own(s.kv, x, n) => Own(t.kv, x, n)

\* So it is enough to see to r.
LEMMA SteadyStep ==
  ASSUME NEW s, NEW guests, NEW given, Steady(s, guests, given), NEW r,
         NEW t, Frame(t), OthersKept(s, t, r),
         NEW after, \A x \in Ids : x # r => (x \in after <=> x \in guests),
         NEW given2, \A x \in Ids : x # r => given2[x] = given[x],
         r \in Ids => Standing(t, r, after, given2)
  PROVE  Steady(t, after, given2)
<1> SUFFICES ASSUME NEW x \in Ids, x # r PROVE Standing(t, x, after, given2)
  BY DEF Steady
<1>1. Standing(s, x, guests, given)
  BY DEF Steady
<1>2. /\ x \in after <=> x \in guests
      /\ given2[x] = given[x]
  OBVIOUS
<1>3. /\ Listed(t.waiting, x) <=> Listed(s.waiting, x)
      /\ Listed(t.running, x) <=> Listed(s.running, x)
      /\ x \in DOMAIN t.req <=> x \in DOMAIN s.req
      /\ x \in Live(t.kv) <=> x \in Live(s.kv)
      /\ x \in DOMAIN s.req => t.req[x] = s.req[x]
      /\ x \in Live(s.kv) => t.kv.states[x] = s.kv.states[x]
  BY DEF OthersKept
<1>4. CASE x \in DOMAIN s.req
  <2>1. t.req[x] = s.req[x] /\ x \in DOMAIN t.req
    BY <1>3, <1>4
  <2>2. CachedOK(s.req[x], given[x], s.kv, x) => CachedOK(t.req[x], given2[x], t.kv, x)
    BY <1>2, <1>3, <2>1, Zenon DEF CachedOK
  <2> QED BY <1>1, <1>2, <1>3, <1>4, <2>1, <2>2 DEF Standing
<1>5. CASE x \notin DOMAIN s.req
  BY <1>1, <1>3, <1>5 DEF Standing
<1> QED BY <1>4, <1>5

-----------------------------------------------------------------------------
(* Queues.                                                                  *)

LEMMA QueueAppend ==
  ASSUME NEW list, Queue(list), NEW r \in Ids, ~Listed(list, r)
  PROVE  /\ Queue(Append(list, r)) /\ Len(Append(list, r)) = Len(list) + 1 /\ Len(list) \in Nat
         /\ \A x : Listed(Append(list, r), x) <=> Listed(list, x) \/ x = r
<1> DEFINE new == Append(list, r)
<1>1. /\ list \in Seq(Ids) /\ Len(list) \in Nat /\ new \in Seq(Ids) /\ Len(new) = Len(list) + 1
      /\ new[Len(list) + 1] = r /\ \A i \in 1 .. Len(list) : new[i] = list[i]
  BY DEF Queue
<1> HIDE DEF new
<1>2. \A i \in 1 .. Len(new) : i \in 1 .. Len(list) \/ i = Len(list) + 1
  BY <1>1
<1>3. \A i \in 1 .. Len(list) : i \in 1 .. Len(new)
  BY <1>1
<1>4. Len(list) + 1 \in 1 .. Len(new)
  BY <1>1
<1>5. \A x : Listed(new, x) <=> Listed(list, x) \/ x = r
  BY <1>1, <1>2, <1>3, <1>4 DEF Listed
<1>6. DistinctList(new)
  <2>1. \A i \in 1 .. Len(list) : new[i] # r
    BY <1>1 DEF Listed
  <2>2. DistinctList(list)
    BY DEF Queue
  <2> SUFFICES ASSUME NEW i \in 1 .. Len(new), NEW j \in 1 .. Len(new), new[i] = new[j]
               PROVE  i = j
    BY DEF DistinctList
  <2>3. CASE i \in 1 .. Len(list) /\ j \in 1 .. Len(list)
    BY <1>1, <2>2, <2>3 DEF DistinctList
  <2>4. CASE ~(i \in 1 .. Len(list) /\ j \in 1 .. Len(list))
    BY <1>1, <1>2, <2>1, <2>4
  <2> QED BY <2>3, <2>4
<1> QED BY <1>1, <1>5, <1>6 DEF Queue, new

LEMMA QueueKept ==
  ASSUME NEW list, Queue(list), NEW keep
  PROVE  /\ Queue(Kept(list, keep)) /\ Len(Kept(list, keep)) <= Len(list)
         /\ Len(list) \in Nat /\ Len(Kept(list, keep)) \in Nat
         /\ \A x : Listed(Kept(list, keep), x) <=> Listed(list, x) /\ x \in keep
<1>1. list \in Seq(Ids) /\ DistinctList(list)
  BY DEF Queue
<1>2. /\ Kept(list, keep) \in Seq(Ids) /\ Len(Kept(list, keep)) <= Len(list)
      /\ \A x : Listed(Kept(list, keep), x) <=> Listed(list, x) /\ x \in keep
      /\ DistinctList(Kept(list, keep))
  BY <1>1, KeptFacts
<1> QED BY <1>1, <1>2 DEF Queue

LEMMA QueueWithout ==
  ASSUME NEW list, Queue(list), NEW r, NEW kept, kept = Kept(list, Ids \ {r})
  PROVE  /\ Queue(kept) /\ Len(kept) <= Len(list) /\ Len(list) \in Nat /\ Len(kept) \in Nat
         /\ \A x : Listed(kept, x) <=> Listed(list, x) /\ x # r
<1>1. \A x : Listed(list, x) => x \in Ids
  <2>1. \A i \in 1 .. Len(list) : list[i] \in Ids
    BY DEF Queue
  <2> QED BY <2>1 DEF Listed
<1> QED BY <1>1, QueueKept

\* A request of the queue that is not r's is not r.
LEMMA QueueElements ==
  ASSUME NEW list, Queue(list)
  PROVE  /\ \A i \in 1 .. Len(list) : list[i] \in Ids /\ Listed(list, list[i])
         /\ \A x : Listed(list, x) => x \in Ids
         /\ Len(list) \in Nat
         /\ \A x : Listed(list, x) <=> x \in ToSet(list)
         /\ IsInjective(list)
<1>1. list \in Seq(Ids) /\ Len(list) \in Nat /\ DOMAIN list = 1 .. Len(list)
  BY DEF Queue
<1>2. \A i \in 1 .. Len(list) : list[i] \in Ids
  BY <1>1
<1>3. ToSet(list) = {list[i] : i \in DOMAIN list}
  BY DEF ToSet
<1>4. IsInjective(list)
  <2>1. DistinctList(list)
    BY DEF Queue
  <2> QED BY <1>1, <2>1 DEF IsInjective, DistinctList
<1> QED BY <1>1, <1>2, <1>3, <1>4 DEF Listed

\* Who comes before whom.
Before(list, x, y) == \E i, j \in 1 .. Len(list) : i < j /\ list[i] = x /\ list[j] = y

LEMMA BeforeAppended ==
  ASSUME NEW list, Queue(list), NEW r \in Ids
  PROVE  \A x, y : Before(list, x, y) => Before(Append(list, r), x, y)
<1> DEFINE new == Append(list, r)
<1>1. Len(new) = Len(list) + 1 /\ Len(list) \in Nat /\ \A i \in 1 .. Len(list) : new[i] = list[i]
  BY DEF Queue
<1> HIDE DEF new
<1>2. \A i \in 1 .. Len(list) : i \in 1 .. Len(new)
  BY <1>1
<1>3. \A x, y : Before(list, x, y) => Before(new, x, y)
  BY <1>1, <1>2 DEF Before
<1> QED BY <1>3 DEF new

LEMMA BeforeKept ==
  ASSUME NEW list, Queue(list), NEW keep, NEW kept, kept = Kept(list, keep)
  PROVE  \A x, y : Before(list, x, y) /\ x \in keep /\ y \in keep => Before(kept, x, y)
<1>1. list \in Seq(Ids) /\ DistinctList(list) /\ Len(list) \in Nat
  BY DEF Queue
<1>2. /\ kept \in Seq(Ids) /\ Len(kept) \in Nat
      /\ \A x : Listed(kept, x) <=> Listed(list, x) /\ x \in keep
      /\ InOrderOf(kept, list)
  BY <1>1, KeptFacts
<1> SUFFICES ASSUME NEW x, NEW y, Before(list, x, y), x \in keep, y \in keep
             PROVE  Before(kept, x, y)
  OBVIOUS
<1>3. PICK i \in 1 .. Len(list), j \in 1 .. Len(list) : i < j /\ list[i] = x /\ list[j] = y
  BY DEF Before
<1>4. Listed(kept, x) /\ Listed(kept, y)
  BY <1>2, <1>3 DEF Listed
<1>5. PICK a \in 1 .. Len(kept) : kept[a] = x
  BY <1>4 DEF Listed
<1>6. PICK b \in 1 .. Len(kept) : kept[b] = y
  BY <1>4 DEF Listed
<1>7. a # b
  BY <1>1, <1>3, <1>5, <1>6 DEF DistinctList
<1>8. ~(b < a)
  <2> SUFFICES ASSUME b < a PROVE FALSE
    OBVIOUS
  <2>1. PICK p \in 1 .. Len(list), q \in 1 .. Len(list) : p < q /\ list[p] = y /\ list[q] = x
    BY <1>2, <1>5, <1>6, SMTT(30) DEF InOrderOf
  <2>2. p = j /\ q = i
    BY <1>1, <1>3, <2>1 DEF DistinctList
  <2> QED BY <1>3, <2>1, <2>2
<1>9. a < b
  BY <1>7, <1>8
<1> QED BY <1>5, <1>6, <1>9 DEF Before

\* Nobody has begun to run.
NoneAdmitted(s, t) == \A x : Listed(t.running, x) => Listed(s.running, x)

-----------------------------------------------------------------------------
(* Requests that leave, and requests that go back to the queue.             *)

\* A cache in which only r's table has changed, and nobody has lost a page.
OthersCached(kv, q, r) ==
  /\ TablesOK(q, Vocabulary, Salts)
  /\ \A x : x # r => /\ x \in Live(q) <=> x \in Live(kv)
                     /\ x \in Live(kv) => /\ q.states[x] = kv.states[x]
                                          /\ \A n \in Nat : Own(kv, x, n) => Own(q, x, n)

LEMMA ReleasedKeepsOthers ==
  ASSUME NEW kv, TablesOK(kv, Vocabulary, Salts), NEW r
  PROVE  OthersCached(kv, ReleasedRequest(kv, r), r) /\ r \notin Live(ReleasedRequest(kv, r))
<1> DEFINE q == ReleasedRequest(kv, r)
<1>1. CASE r \notin Live(kv)
  <2>1. q = kv
    BY <1>1 DEF ReleasedRequest
  <2> QED BY <1>1, <2>1 DEF OthersCached
<1>2. CASE r \in Live(kv)
  <2>1. TablesOK(q, Vocabulary, Salts) /\ q.states = WithoutState(kv, r)
    BY <1>2, ReleasedRequestOK
  <2>2. /\ Live(q) = Live(kv) \ {r}
        /\ \A x \in Live(q) : q.states[x] = kv.states[x]
    BY <2>1 DEF WithoutState, Live
  <2>3. \A x \in Live(kv), n \in Nat : x # r /\ Own(kv, x, n) => Own(q, x, n)
    BY OwnAfterRelease
  <2> HIDE DEF q
  <2> QED BY <2>1, <2>2, <2>3 DEF OthersCached, q
<1> QED BY <1>1, <1>2

\* Finished: r is gone, nothing else has changed.
LEMMA FinishedOK ==
  ASSUME NEW s, NEW given, Steady(s, {}, given), NEW r,
         NEW given2, \A x \in Ids : x # r => given2[x] = given[x],
         NEW t, t = Finished(s, r)
  PROVE  /\ Steady(t, {}, given2) /\ OthersKept(s, t, r)
         /\ DOMAIN t.req = DOMAIN s.req \ {r}
         /\ Len(t.running) <= Len(s.running) /\ Len(s.running) \in Nat /\ Len(t.running) \in Nat
         /\ t.budget = s.budget /\ t.items = s.items /\ t.preempted = s.preempted
         /\ t.blocked = s.blocked /\ NoneAdmitted(s, t)
<1>1. Frame(s)
  BY DEF Steady
<1>a. Queue(s.running) /\ Queue(s.waiting) /\ TablesOK(s.kv, Vocabulary, Salts) /\ Shape(s)
  BY <1>1 DEF Frame
<1>2. /\ Shape(t)
      /\ t.req = [x \in DOMAIN s.req \ {r} |-> s.req[x]]
      /\ t.running = Kept(s.running, Ids \ {r}) /\ t.waiting = Kept(s.waiting, Ids \ {r})
      /\ t.kv = ReleasedRequest(s.kv, r)
      /\ t.budget = s.budget /\ t.items = s.items /\ t.preempted = s.preempted
      /\ t.blocked = s.blocked
  BY <1>a, Zenon DEF Finished, Shape
<1>b. t.running = Kept(s.running, Ids \ {r}) /\ t.waiting = Kept(s.waiting, Ids \ {r})
  BY <1>2
<1>3. /\ Queue(t.running) /\ Len(t.running) <= Len(s.running)
      /\ Len(s.running) \in Nat /\ Len(t.running) \in Nat
      /\ \A x : Listed(t.running, x) <=> Listed(s.running, x) /\ x # r
  BY <1>a, <1>b, QueueWithout, Zenon
<1>4. /\ Queue(t.waiting)
      /\ \A x : Listed(t.waiting, x) <=> Listed(s.waiting, x) /\ x # r
  BY <1>a, <1>b, QueueWithout, Zenon
<1>5. OthersCached(s.kv, t.kv, r) /\ r \notin Live(t.kv)
  BY <1>a, <1>2, ReleasedKeepsOthers
<1>6. /\ DOMAIN t.req = DOMAIN s.req \ {r} /\ \A x \in DOMAIN t.req : t.req[x] = s.req[x]
      /\ t.req = [x \in DOMAIN t.req |-> t.req[x]]
  BY <1>2
<1>7. Frame(t)
  BY <1>1, <1>2, <1>3, <1>4, <1>5, <1>6, Zenon DEF Frame, OthersCached
<1>8. OthersKept(s, t, r)
  BY <1>3, <1>4, <1>5, <1>6 DEF OthersKept, OthersCached
<1>9. Standing(t, r, {}, given2)
  BY <1>3, <1>4, <1>5, <1>6 DEF Standing
<1>10. Steady(t, {}, given2)
  BY <1>7, <1>8, <1>9, SteadyStep
<1> QED BY <1>2, <1>3, <1>6, <1>8, <1>10, Zenon DEF NoneAdmitted

\* The tokens of a request.
LEMMA TokenFacts ==
  ASSUME NEW q, RequestOK(q)
  PROVE  /\ q.prompt \in Seq(Vocabulary) /\ q.out \in Seq(Vocabulary) /\ q.out \in Seq(OutTokens)
         /\ TokenIds(q) \in Seq(Vocabulary) /\ Len(TokenIds(q)) = NumTokens(q)
         /\ NumTokens(q) \in Nat /\ NumTokens(q) >= 1 /\ TokenIds(q) # <<>>
         /\ Len(q.prompt) \in Nat /\ Len(q.out) \in Nat /\ Len(q.prompt) >= 1
         /\ q.computed \in Nat /\ q.max \in Nat /\ q.salt \in Salts
         /\ q.status \in {"waiting", "running"}
<1>1. /\ q.prompt \in Seq(Vocabulary) /\ q.out \in Seq(OutTokens) /\ q.computed \in Nat
      /\ q.max \in Nat /\ q.salt \in Salts /\ q.status \in {"waiting", "running"}
      /\ q.prompt # <<>>
  BY DEF RequestOK, Request
<1>2. OutTokens \subseteq Vocabulary
  BY DEF Vocabulary
<1>3. q.out \in Seq(Vocabulary)
  <2>1. \A i \in 1 .. Len(q.out) : q.out[i] \in Vocabulary
    BY <1>1, <1>2
  <2> HIDE DEF Vocabulary
  <2> QED BY <1>1, <2>1, SeqDef
<1>4. Len(q.prompt) \in Nat /\ Len(q.prompt) >= 1 /\ Len(q.out) \in Nat
  BY <1>1
<1>5. /\ TokenIds(q) \in Seq(Vocabulary) /\ Len(TokenIds(q)) = Len(q.prompt) + Len(q.out)
  BY <1>1, <1>3, <1>4, PrefixOfConcat DEF TokenIds
<1>6. NumTokens(q) = Len(q.prompt) + Len(q.out)
  BY DEF NumTokens
<1>7. NumTokens(q) \in Nat /\ NumTokens(q) >= 1
  <2> DEFINE m == Len(q.prompt)
             n == Len(q.out)
  <2>1. m \in Nat /\ n \in Nat /\ m >= 1 /\ NumTokens(q) = m + n
    BY <1>4, <1>6
  <2> HIDE DEF m, n
  <2> QED BY <2>1
<1>8. TokenIds(q) # <<>>
  <2>1. Len(TokenIds(q)) # 0
    <3> DEFINE m == NumTokens(q)
    <3>1. Len(TokenIds(q)) = m /\ m \in Nat /\ m >= 1
      BY <1>5, <1>6, <1>7, Zenon
    <3> HIDE DEF m
    <3>2. m # 0
      BY <3>1
    <3> QED BY <3>1, <3>2, Zenon
  <2>2. Len(<<>>) = 0
    OBVIOUS
  <2> QED BY <2>1, <2>2, Zenon
<1>9. Len(TokenIds(q)) = NumTokens(q)
  BY <1>5, <1>6
<1> QED BY <1>1, <1>3, <1>4, <1>5, <1>7, <1>8, <1>9, Zenon

\* A request whose progress and status have changed.
WithProgress(q, computed, status) == [q EXCEPT !.computed = computed, !.status = status]

LEMMA ProgressFacts ==
  ASSUME NEW q, RequestOK(q), NEW c, c \in Nat, NEW status \in {"waiting", "running"},
         NEW p, p = WithProgress(q, c, status)
  PROVE  /\ RequestOK(p) /\ p.computed = c /\ p.status = status
         /\ TokenIds(p) = TokenIds(q) /\ NumTokens(p) = NumTokens(q)
         /\ p.prompt = q.prompt /\ p.out = q.out /\ p.max = q.max /\ p.salt = q.salt
<1>1. q \in Request
  BY DEF RequestOK
<1>2. /\ p \in Request /\ p.computed = c /\ p.status = status
      /\ p.prompt = q.prompt /\ p.out = q.out /\ p.max = q.max /\ p.salt = q.salt
  BY <1>1, Zenon DEF WithProgress, Request
<1>3. TokenIds(p) = TokenIds(q) /\ NumTokens(p) = NumTokens(q)
  BY <1>2 DEF TokenIds, NumTokens
<1> QED BY <1>2, <1>3 DEF RequestOK

\* One request of a scheduler has changed.
LEMMA RequestReplaced ==
  ASSUME NEW f, f = [x \in DOMAIN f |-> f[x]], NEW r \in DOMAIN f, NEW p, NEW g, g = [f EXCEPT ![r] = p]
  PROVE  /\ DOMAIN g = DOMAIN f /\ g[r] = p /\ g = [x \in DOMAIN g |-> g[x]]
         /\ \A x : x # r /\ x \in DOMAIN f => g[x] = f[x]
BY Zenon

\* Preempted: r waits again and has no table, nothing else has changed.
LEMMA PreemptedOK ==
  ASSUME NEW s, NEW guests, NEW given, Steady(s, guests, given),
         NEW r \in DOMAIN s.req, r \notin guests, s.req[r].status = "running",
         NEW t, t = Preempted(s, r)
  PROVE  /\ Steady(t, guests, given) /\ OthersKept(s, t, r)
         /\ DOMAIN t.req = DOMAIN s.req
         /\ Len(t.running) <= Len(s.running) /\ Len(s.running) \in Nat /\ Len(t.running) \in Nat
         /\ t.budget = s.budget /\ t.items = s.items /\ t.preempted = s.preempted
         /\ t.blocked = s.blocked /\ t.waiting = Append(s.waiting, r)
         /\ t.req[r].status = "waiting"
<1> DEFINE p == WithProgress(s.req[r], 0, "waiting")
<1>1. Frame(s)
  BY DEF Steady
<1>2. /\ Queue(s.running) /\ Queue(s.waiting) /\ TablesOK(s.kv, Vocabulary, Salts) /\ Shape(s)
      /\ r \in Ids /\ s.req = [x \in DOMAIN s.req |-> s.req[x]]
  BY <1>1 DEF Frame
<1>3. Standing(s, r, guests, given)
  BY <1>2 DEF Steady
<1>4. RequestOK(s.req[r]) /\ CachedOK(s.req[r], given[r], s.kv, r) /\ ~Listed(s.waiting, r)
  BY <1>3 DEF Standing
<1>5. /\ Shape(t)
      /\ t.req = [s.req EXCEPT ![r] = p]
      /\ t.running = Kept(s.running, Ids \ {r}) /\ t.waiting = Append(s.waiting, r)
      /\ t.kv = ReleasedRequest(s.kv, r)
      /\ t.budget = s.budget /\ t.items = s.items /\ t.preempted = s.preempted
      /\ t.blocked = s.blocked
  BY <1>2, ZenonT(30) DEF Preempted, Shape, WithProgress
<1>6. t.running = Kept(s.running, Ids \ {r}) /\ t.waiting = Append(s.waiting, r) /\ t.kv = ReleasedRequest(s.kv, r)
  BY <1>5
<1>7. /\ Queue(t.running) /\ Len(t.running) <= Len(s.running)
      /\ Len(s.running) \in Nat /\ Len(t.running) \in Nat
      /\ \A x : Listed(t.running, x) <=> Listed(s.running, x) /\ x # r
  BY <1>2, <1>6, QueueWithout, Zenon
<1>8. /\ Queue(t.waiting) /\ \A x : Listed(t.waiting, x) <=> Listed(s.waiting, x) \/ x = r
  BY <1>2, <1>4, <1>6, QueueAppend
<1>9. OthersCached(s.kv, t.kv, r) /\ r \notin Live(t.kv)
  BY <1>2, <1>6, ReleasedKeepsOthers
<1>10. /\ RequestOK(p) /\ p.computed = 0 /\ p.status = "waiting" /\ NumTokens(p) = NumTokens(s.req[r])
  BY <1>4, ProgressFacts
<1> HIDE DEF p
<1>11. /\ DOMAIN t.req = DOMAIN s.req /\ t.req[r] = p /\ t.req = [x \in DOMAIN t.req |-> t.req[x]]
       /\ \A x : x # r /\ x \in DOMAIN s.req => t.req[x] = s.req[x]
  BY <1>2, <1>5, RequestReplaced
<1>12. Frame(t)
  BY <1>1, <1>5, <1>7, <1>8, <1>9, <1>11 DEF Frame, OthersCached
<1>13. OthersKept(s, t, r)
  BY <1>7, <1>8, <1>9, <1>11 DEF OthersKept, OthersCached
<1>14. CachedOK(p, given[r], t.kv, r)
  <2>1. given[r] \in Seq(OutTokens) /\ Len(given[r]) \in Nat
    BY <1>4 DEF CachedOK
  <2>2. NumTokens(p) \in Nat /\ NumTokens(p) >= 1
    BY <1>10, TokenFacts
  <2>3. p.computed < NumTokens(p) + Len(given[r])
    BY <1>10, <2>1, <2>2
  <2> QED BY <1>9, <1>10, <2>1, <2>3 DEF CachedOK
<1>15. Standing(t, r, guests, given)
  BY <1>7, <1>8, <1>9, <1>10, <1>11, <1>14 DEF Standing
<1>16. Steady(t, guests, given)
  BY <1>12, <1>13, <1>15, SteadyStep
<1> QED BY <1>5, <1>7, <1>10, <1>11, <1>13, <1>16

NoneGiven == [x \in Ids |-> <<>>]

LEMMA NothingGiven ==
  ASSUME NEW T, NEW tokens \in Seq(T)
  PROVE  tokens \o <<>> = tokens /\ Len(<<>>) = 0 /\ <<>> \in Seq(T)
<1>1. <<>> \in Seq(T) /\ Len(<<>>) = 0
  OBVIOUS
<1>2. tokens \o <<>> \in Seq(T) /\ Len(tokens \o <<>>) = Len(tokens) /\ Len(tokens) \in Nat
  BY <1>1
<1>3. \A i \in 1 .. Len(tokens) : (tokens \o <<>>)[i] = tokens[i]
  BY <1>1
<1> QED BY <1>1, <1>2, <1>3, SeqEqual

\* One that waits for no lookup's result has nothing cached.
LEMMA WaitingFacts ==
  ASSUME NEW s, NEW guests, NEW given, Steady(s, guests, given),
         NEW r \in DOMAIN s.req, s.req[r].status = "waiting", r \notin guests
  PROVE  r \notin Live(s.kv) /\ s.req[r].computed = 0
<1>1. r \in Ids
  BY DEF Steady, Frame
<1>2. Standing(s, r, guests, given)
  BY <1>1 DEF Steady
<1>3. r \notin Live(s.kv)
  BY <1>2 DEF Standing
<1> QED BY <1>2, <1>3 DEF Standing, CachedOK

\* What a table holds is counted.
LEMMA ComputedFacts ==
  ASSUME NEW s, NEW guests, NEW given, Steady(s, guests, given), NEW r \in Live(s.kv),
         given[r] = <<>>
  PROVE  /\ r \in DOMAIN s.req /\ r \in Ids /\ RequestOK(s.req[r])
         /\ s.req[r].computed \in Nat /\ NumTokens(s.req[r]) \in Nat
         /\ s.req[r].computed < NumTokens(s.req[r])
         /\ s.kv.states[r].tokens = SubSeq(TokenIds(s.req[r]), 1, s.req[r].computed)
         /\ Computed(s.kv, r) = s.req[r].computed /\ Len(s.kv.states[r].tokens) = s.req[r].computed
<1> DEFINE q == s.req[r]
           c == q.computed
           n == NumTokens(q)
<1>1. r \in Ids
  BY DEF Steady, Frame
<1>2. Standing(s, r, guests, given)
  BY <1>1 DEF Steady
<1>3. r \in DOMAIN s.req /\ RequestOK(q) /\ CachedOK(q, given[r], s.kv, r)
  BY <1>2 DEF Standing
<1> HIDE DEF q
<1>4. /\ c \in Nat /\ n \in Nat /\ TokenIds(q) \in Seq(Vocabulary) /\ Len(TokenIds(q)) = n
  BY <1>3, TokenFacts
<1>5. TokenIds(q) \o given[r] = TokenIds(q) /\ Len(given[r]) = 0
  BY <1>4, NothingGiven
<1>6. s.kv.states[r].tokens = SubSeq(TokenIds(q), 1, c)
  BY <1>3, <1>5 DEF CachedOK
<1>7. c < n + Len(given[r])
  BY <1>3 DEF CachedOK
<1>8. c < n
  <2> HIDE DEF c, n
  <2> QED BY <1>4, <1>5, <1>7
<1>9. c \in 0 .. Len(TokenIds(q))
  <2> HIDE DEF c, n
  <2> QED BY <1>4, <1>8
<1>10. Len(s.kv.states[r].tokens) = c
  BY <1>4, <1>6, <1>9, PrefixFacts
<1> QED BY <1>1, <1>3, <1>4, <1>6, <1>8, <1>10 DEF Computed, q

\* A waiting request is looked up: it becomes a guest, nothing else has changed.
LEMMA AttachedToOK ==
  ASSUME NEW s, NEW given, Steady(s, {}, given),
         NEW r \in DOMAIN s.req, s.req[r].status = "waiting", given[r] = <<>>,
         NEW t, t = AttachedTo(s, r)
  PROVE  /\ Steady(t, {r}, given) /\ OthersKept(s, t, r)
         /\ DOMAIN t.req = DOMAIN s.req /\ r \in Live(t.kv) /\ t.req[r].status = "waiting"
         /\ t.running = s.running /\ t.waiting = s.waiting
         /\ t.budget = s.budget /\ t.items = s.items /\ t.preempted = s.preempted
         /\ t.blocked = s.blocked
<1> DEFINE q == s.req[r]
           kv == Attached(s.kv, r, TokenIds(q), q.salt)
           p == WithProgress(q, Computed(kv, r), "waiting")
           n == HitBlocks(s.kv, TokenIds(q), q.salt)
<1>1. Frame(s)
  BY DEF Steady
<1>2. /\ Queue(s.running) /\ Queue(s.waiting) /\ TablesOK(s.kv, Vocabulary, Salts) /\ Shape(s)
      /\ r \in Ids /\ s.req = [x \in DOMAIN s.req |-> s.req[x]] /\ Live(s.kv) \subseteq Ids
  BY <1>1 DEF Frame
<1>3. Standing(s, r, {}, given)
  BY <1>2 DEF Steady
<1>4. /\ RequestOK(q) /\ CachedOK(q, given[r], s.kv, r) /\ r \notin Live(s.kv) /\ Listed(s.waiting, r)
      /\ ~Listed(s.running, r)
  BY <1>3 DEF Standing
<1>5. /\ TokenIds(q) \in Seq(Vocabulary) /\ TokenIds(q) # <<>> /\ q.salt \in Salts
      /\ Len(TokenIds(q)) = NumTokens(q) /\ NumTokens(q) \in Nat /\ q \in Request
  <2> HIDE DEF q
  <2> QED BY <1>4, TokenFacts DEF RequestOK
<1>6. /\ Shape(t) /\ t.req = [s.req EXCEPT ![r] = [@ EXCEPT !.computed = Computed(kv, r)]] /\ t.kv = kv
      /\ t.running = s.running /\ t.waiting = s.waiting
      /\ t.budget = s.budget /\ t.items = s.items /\ t.preempted = s.preempted
      /\ t.blocked = s.blocked
  <2> HIDE DEF kv
  <2>1. t = [s EXCEPT !.kv = kv, !.req[r].computed = Computed(kv, r)]
    BY <1>4 DEF AttachedTo, kv, q
  <2> QED BY <1>2, <2>1, Zenon DEF Shape
<1>7. [q EXCEPT !.computed = Computed(kv, r)] = p
  <2> HIDE DEF q, kv
  <2> QED BY <1>5, Zenon DEF WithProgress, Request, q
<1>8. /\ TablesOK(kv, Vocabulary, Salts) /\ n \in Nat /\ End(n) < Len(TokenIds(q))
      /\ Live(kv) = Live(s.kv) \cup {r} /\ \A x \in Live(s.kv) : kv.states[x] = s.kv.states[x]
      /\ kv.states[r].tokens = SubSeq(TokenIds(q), 1, End(n))
  <2> HIDE DEF q
  <2> QED BY <1>2, <1>4, <1>5, AttachedOK DEF kv, n
<1>9. \A x \in Live(s.kv), k \in Nat : Own(s.kv, x, k) => Own(kv, x, k)
  <2> HIDE DEF q
  <2> QED BY <1>2, <1>4, <1>5, OwnAfterAttach DEF kv
<1> HIDE DEF kv, n
<1>10. OthersCached(s.kv, t.kv, r) /\ r \in Live(t.kv) /\ Live(t.kv) \subseteq Ids
  BY <1>2, <1>6, <1>8, <1>9 DEF OthersCached
<1>11. Computed(kv, r) = End(n) /\ End(n) \in Nat /\ End(n) < NumTokens(q)
  <2>1. End(n) \in Nat
    BY <1>8, EndFacts
  <2>2. End(n) < NumTokens(q)
    BY <1>5, <1>8
  <2> HIDE DEF q
  <2>3. End(n) \in 0 .. Len(TokenIds(q))
    BY <1>5, <1>8, <2>1
  <2> QED BY <1>5, <1>8, <2>1, <2>2, <2>3, PrefixFacts DEF Computed
<1>12. /\ RequestOK(p) /\ p.computed = End(n) /\ p.status = "waiting" /\ NumTokens(p) = NumTokens(q)
       /\ TokenIds(p) = TokenIds(q)
  <2> HIDE DEF q
  <2> DEFINE e == End(n)
  <2>1. p = WithProgress(q, e, "waiting") /\ e \in Nat /\ RequestOK(q) /\ "waiting" \in {"waiting", "running"}
    BY <1>4, <1>11
  <2> HIDE DEF p, e
  <2>2. /\ RequestOK(p) /\ p.computed = e /\ p.status = "waiting" /\ NumTokens(p) = NumTokens(q)
        /\ TokenIds(p) = TokenIds(q)
    BY <2>1, ProgressFacts
  <2> QED BY <2>2 DEF e
<1>13. t.req = [s.req EXCEPT ![r] = p]
  <2>1. t.req = [s.req EXCEPT ![r] = [q EXCEPT !.computed = Computed(kv, r)]]
    BY <1>6
  <2> QED BY <1>7, <2>1
<1> HIDE DEF p
<1>14. /\ DOMAIN t.req = DOMAIN s.req /\ t.req[r] = p /\ t.req = [x \in DOMAIN t.req |-> t.req[x]]
       /\ \A x : x # r /\ x \in DOMAIN s.req => t.req[x] = s.req[x]
  BY <1>2, <1>13, RequestReplaced
<1>15. Frame(t)
  BY <1>1, <1>6, <1>10, <1>14 DEF Frame, OthersCached
<1>16. OthersKept(s, t, r)
  BY <1>6, <1>10, <1>14 DEF OthersKept, OthersCached
<1>17. CachedOK(p, given[r], t.kv, r)
  <2>1. TokenIds(p) \o given[r] = TokenIds(p) /\ Len(given[r]) = 0 /\ given[r] \in Seq(OutTokens)
    BY <1>5, <1>12, NothingGiven
  <2>2. p.computed < NumTokens(p) + Len(given[r])
    BY <1>5, <1>11, <1>12, <2>1
  <2> QED BY <1>6, <1>8, <1>10, <1>12, <2>1, <2>2 DEF CachedOK
<1>18. Standing(t, r, {r}, given)
  BY <1>4, <1>6, <1>10, <1>12, <1>14, <1>17 DEF Standing
<1>19. Steady(t, {r}, given)
  BY <1>15, <1>16, <1>18, SteadyStep
<1> QED BY <1>6, <1>10, <1>12, <1>14, <1>16, <1>19

\* A waiting request loses its table, if it has one; nothing else has changed.
LEMMA DetachedOK ==
  ASSUME NEW s, NEW guests, NEW given, Steady(s, guests, given),
         NEW r \in DOMAIN s.req, guests \subseteq {r}, s.req[r].status = "waiting",
         NEW t, t = Detached(s, r)
  PROVE  /\ Steady(t, {}, given) /\ OthersKept(s, t, r)
         /\ DOMAIN t.req = DOMAIN s.req /\ t.req[r].status = "waiting"
         /\ t.running = s.running /\ t.waiting = s.waiting
         /\ t.budget = s.budget /\ t.items = s.items /\ t.preempted = s.preempted
         /\ t.blocked = s.blocked
<1> DEFINE p == WithProgress(s.req[r], 0, "waiting")
<1>1. Frame(s)
  BY DEF Steady
<1>2. /\ Queue(s.running) /\ Queue(s.waiting) /\ TablesOK(s.kv, Vocabulary, Salts) /\ Shape(s)
      /\ r \in Ids /\ s.req = [x \in DOMAIN s.req |-> s.req[x]] /\ Live(s.kv) \subseteq Ids
  BY <1>1 DEF Frame
<1>3. Standing(s, r, guests, given)
  BY <1>2 DEF Steady
<1>4. /\ RequestOK(s.req[r]) /\ CachedOK(s.req[r], given[r], s.kv, r)
      /\ Listed(s.waiting, r) /\ ~Listed(s.running, r)
  BY <1>3 DEF Standing
<1>5. /\ Shape(t)
      /\ t.req = [s.req EXCEPT ![r] = [@ EXCEPT !.computed = 0]]
      /\ t.running = s.running /\ t.waiting = s.waiting
      /\ t.kv = ReleasedRequest(s.kv, r)
      /\ t.budget = s.budget /\ t.items = s.items /\ t.preempted = s.preempted
      /\ t.blocked = s.blocked
  BY <1>2, Zenon DEF Detached, Shape
<1>6. [s.req[r] EXCEPT !.computed = 0] = p
  <2>1. s.req[r] \in Request
    BY <1>4 DEF RequestOK
  <2> QED BY <2>1, Zenon DEF WithProgress, Request
<1>7. t.req = [s.req EXCEPT ![r] = p]
  BY <1>5, <1>6
<1>8. t.running = s.running /\ t.waiting = s.waiting /\ t.kv = ReleasedRequest(s.kv, r)
  BY <1>5
<1>9. OthersCached(s.kv, t.kv, r) /\ r \notin Live(t.kv)
  BY <1>2, <1>8, ReleasedKeepsOthers
<1>10. /\ RequestOK(p) /\ p.computed = 0 /\ p.status = "waiting" /\ NumTokens(p) = NumTokens(s.req[r])
  BY <1>4, ProgressFacts
<1> HIDE DEF p
<1>11. /\ DOMAIN t.req = DOMAIN s.req /\ t.req[r] = p /\ t.req = [x \in DOMAIN t.req |-> t.req[x]]
       /\ \A x : x # r /\ x \in DOMAIN s.req => t.req[x] = s.req[x]
  BY <1>2, <1>7, RequestReplaced
<1>12. Frame(t)
  BY <1>1, <1>5, <1>8, <1>9, <1>11 DEF Frame, OthersCached
<1>13. OthersKept(s, t, r)
  BY <1>8, <1>9, <1>11 DEF OthersKept, OthersCached
<1>14. CachedOK(p, given[r], t.kv, r)
  <2>1. given[r] \in Seq(OutTokens) /\ Len(given[r]) \in Nat
    BY <1>4 DEF CachedOK
  <2>2. NumTokens(p) \in Nat /\ NumTokens(p) >= 1
    BY <1>10, TokenFacts
  <2>3. p.computed < NumTokens(p) + Len(given[r])
    BY <1>10, <2>1, <2>2
  <2> QED BY <1>9, <1>10, <2>1, <2>3 DEF CachedOK
<1>15. Standing(t, r, {}, given)
  BY <1>4, <1>8, <1>9, <1>10, <1>11, <1>14 DEF Standing
<1>16. Steady(t, {}, given)
  BY <1>12, <1>13, <1>15, SteadyStep
<1> QED BY <1>5, <1>10, <1>11, <1>13, <1>16

LEMMA CountTo ==
  ASSUME NEW n, n \in Nat
  PROVE  IsFiniteSet(1 .. n) /\ Cardinality(1 .. n) = n
<1>1. 1 \in Int /\ n \in Int
  OBVIOUS
<1>2. IsFiniteSet(1 .. n) /\ Cardinality(1 .. n) = IF 1 > n THEN 0 ELSE n - 1 + 1
  BY <1>1, FS_Interval
<1>3. (IF 1 > n THEN 0 ELSE n - 1 + 1) = n
  OBVIOUS
<1> QED BY <1>2, <1>3

\* In a pool that one request has to itself every context fits: its tail is
\* shared with nobody, and the pages it does not have are free.
LEMMA PoolOfOne ==
  ASSUME NEW kv, TablesOK(kv, Vocabulary, Salts), NEW r \in Live(kv), Live(kv) \subseteq {r},
         NEW end \in Nat, end <= MaxModelLen
  PROVE  CanReserve(kv, r, end)
<1> DEFINE blocks == kv.states[r].blocks
           free == kv.pool.free
           l == Len(blocks)
           m == Len(free)
           d == CeilDiv(end)
<1>1. /\ kv.states[r] \in StateType(Vocabulary, Salts)
      /\ PoolOK(kv.pool, Salts \X Seq(Vocabulary)) /\ CountsOK(kv)
  BY DEF TablesOK, StatesOK
<1>2. /\ blocks \in Seq(Blocks) /\ free \in Seq(Blocks) /\ l \in Nat /\ m \in Nat
      /\ FreeSet(kv.pool) = {b \in Blocks : kv.pool.refCounts[b] = 0}
  <2>1. blocks \in Seq(Blocks) /\ free \in Seq(Blocks)
    BY <1>1 DEF StateType, PoolOK, PoolType
  <2>2. FreeSet(kv.pool) = {b \in Blocks : kv.pool.refCounts[b] = 0}
    BY <1>1 DEF PoolOK, FreeOK
  <2> QED BY <2>1, <2>2
<1>3. \A b \in Blocks : /\ Using(kv, b) \subseteq {r} /\ IsFiniteSet(Using(kv, b))
                        /\ kv.pool.refCounts[b] = Cardinality(Using(kv, b))
                        /\ Cardinality(Using(kv, b)) \in Nat /\ Cardinality(Using(kv, b)) <= 1
  <2> TAKE b \in Blocks
  <2> DEFINE U == Using(kv, b)
  <2>1. U \subseteq {r} /\ kv.pool.refCounts[b] = Cardinality(U)
    BY <1>1 DEF Using, CountsOK
  <2> HIDE DEF U
  <2>2. IsFiniteSet({r}) /\ Cardinality({r}) = 1
    BY FS_Singleton, Zenon
  <2>3. IsFiniteSet(U) /\ Cardinality(U) <= 1
    BY <2>1, <2>2, FS_Subset
  <2>4. Cardinality(U) \in Nat
    BY <2>3, FS_CardinalityType
  <2> QED BY <2>1, <2>3, <2>4 DEF U
<1>4. ~CopyTail(kv, r, end)
  <2> SUFFICES ASSUME CopyTail(kv, r, end) PROVE FALSE
    OBVIOUS
  <2> DEFINE i == TailIndex(kv, r)
             b == blocks[i]
  <2>1. Computed(kv, r) % BlockSize # 0 /\ kv.pool.refCounts[b] > 1
    BY DEF CopyTail
  <2>2. i \in 1 .. l
    BY <2>1, TailFacts
  <2>3. b \in Blocks
    BY <1>2, <2>2
  <2> HIDE DEF b
  <2> QED BY <1>3, <2>1, <2>3
<1>5. \A b \in Blocks : (\E i \in 1 .. l : blocks[i] = b) \/ (\E i \in 1 .. m : free[i] = b)
  <2> SUFFICES ASSUME NEW b \in Blocks, ~ \E i \in 1 .. l : blocks[i] = b
               PROVE  \E i \in 1 .. m : free[i] = b
    OBVIOUS
  <2>1. Using(kv, b) = {}
    BY DEF Using, Listed
  <2>2. kv.pool.refCounts[b] = 0
    BY <1>3, <2>1, FS_EmptySet
  <2>3. b \in FreeSet(kv.pool)
    BY <1>2, <2>2
  <2> QED BY <2>3 DEF FreeSet
<1> HIDE DEF blocks, free, l, m
<1>6. NumBlocks <= l + m
  <2> DEFINE all == [i \in 1 .. l + m |-> IF i <= l THEN blocks[i] ELSE free[i - l]]
             n == l + m
  <2>1. n \in Nat
    BY <1>2
  <2>2. \A i \in 1 .. n : all[i] \in Blocks
    <3> TAKE i \in 1 .. n
    <3>1. CASE i <= l
      <4>1. i \in 1 .. Len(blocks)
        BY <3>1 DEF l
      <4> QED BY <1>2, <3>1, <4>1
    <3>2. CASE ~(i <= l)
      <4>1. i - l \in 1 .. m
        BY <1>2, <3>2
      <4>2. free[i - l] \in Blocks
        BY <1>2, <4>1 DEF m
      <4> QED BY <3>2, <4>2
    <3> QED BY <3>1, <3>2
  <2>3. \A b \in Blocks : \E i \in 1 .. n : all[i] = b
    <3> TAKE b \in Blocks
    <3>1. ASSUME NEW i \in 1 .. l, blocks[i] = b PROVE \E j \in 1 .. n : all[j] = b
      <4>1. i \in 1 .. n /\ i <= l
        BY <1>2
      <4>2. all[i] = b
        BY <3>1, <4>1
      <4> HIDE DEF all
      <4> QED BY <4>1, <4>2
    <3>2. ASSUME NEW i \in 1 .. m, free[i] = b PROVE \E j \in 1 .. n : all[j] = b
      <4>1. l + i \in 1 .. n /\ ~(l + i <= l) /\ (l + i) - l = i
        BY <1>2
      <4>2. all[l + i] = b
        BY <3>2, <4>1
      <4> HIDE DEF all
      <4> QED BY <4>1, <4>2
    <3> QED BY <1>5, <3>1, <3>2
  <2>4. all = [i \in 1 .. n |-> all[i]]
    OBVIOUS
  <2> HIDE DEF all, n
  <2>5. all \in Surjection(1 .. n, Blocks)
    BY <2>2, <2>3, <2>4 DEF Surjection
  <2>6. IsFiniteSet(1 .. n) /\ Cardinality(1 .. n) = n
    BY <2>1, CountTo
  <2>7. Cardinality(Blocks) <= n
    BY <2>5, <2>6, FS_Surjection
  <2>8. Cardinality(Blocks) = NumBlocks
    <3>1. 0 \in Int /\ NumBlocks - 1 \in Int /\ NumBlocks > 0
      BY NumBlocksAssumption
    <3>2. Cardinality(0 .. NumBlocks - 1) = IF 0 > NumBlocks - 1 THEN 0 ELSE (NumBlocks - 1) - 0 + 1
      BY <3>1, FS_Interval, Zenon
    <3> QED BY <3>1, <3>2, NumBlocksAssumption DEF Blocks
  <2> QED BY <2>7, <2>8 DEF n
<1>7. d \in Nat /\ d <= NumBlocks
  <2>1. d \in Nat /\ \A i \in Nat \ {0} : i <= d <=> End(i - 1) < end
    BY CeilDivFacts
  <2>2. NumBlocks \in Nat /\ BlockSize \in Nat /\ MaxModelLen \in Nat /\ end <= NumBlocks * BlockSize
    BY NumBlocksAssumption, BlockSizeAssumption, LimitsAssumption, PoolFitsContext
  <2>3. NumBlocks + 1 \in Nat \ {0} /\ (NumBlocks + 1) - 1 = NumBlocks
    BY <2>2
  <2>4. End(NumBlocks) = NumBlocks * BlockSize
    BY DEF End
  <2>5. ~(NumBlocks + 1 <= d)
    <3>1. ~(End(NumBlocks) < end)
      BY <2>2, <2>4
    <3> QED BY <2>1, <2>3, <3>1
  <2> HIDE DEF d
  <2> QED BY <2>1, <2>2, <2>5
<1>8. Needed(kv, r, end) <= m
  <2>1. Needed(kv, r, end) = IF d - l > 0 THEN d - l ELSE 0
    BY DEF Needed, l, blocks
  <2>2. NumBlocks \in Nat
    BY NumBlocksAssumption
  <2> HIDE DEF d
  <2> QED BY <1>2, <1>6, <1>7, <2>1, <2>2
<1>9. Needed(kv, r, end) \in Int
  <2>1. Needed(kv, r, end) = IF d - l > 0 THEN d - l ELSE 0
    BY DEF Needed, l, blocks
  <2> HIDE DEF d
  <2> QED BY <1>2, <1>7, <2>1
<1>10. Demand(kv, r, end) <= Len(kv.pool.free)
  BY <1>4, <1>8, <1>9 DEF Demand, m, free
<1> QED BY <1>10 DEF CanReserve, CanAllocate

Reserving(s, r, end) == [s EXCEPT !.kv = Reserved(@, r, end)]

\* Pages are reserved for a request with a table: it alone is changed, and owns them.
LEMMA ReservationOK ==
  ASSUME NEW s, NEW guests, NEW given, Steady(s, guests, given), NEW r \in Live(s.kv),
         given[r] = <<>>, NEW end \in Nat, CanReserve(s.kv, r, end),
         NEW t, t = Reserving(s, r, end)
  PROVE  /\ Steady(t, guests, given) /\ OthersKept(s, t, r)
         /\ t.req = s.req /\ r \in Live(t.kv)
         /\ \A n : n \in Nat /\ s.req[r].computed + n = end => Own(t.kv, r, n)
         /\ t.running = s.running /\ t.waiting = s.waiting
         /\ t.budget = s.budget /\ t.items = s.items /\ t.preempted = s.preempted
         /\ t.blocked = s.blocked
<1> DEFINE q == Reserved(s.kv, r, end)
<1>1. Frame(s)
  BY DEF Steady
<1>2. /\ TablesOK(s.kv, Vocabulary, Salts) /\ Shape(s) /\ Live(s.kv) \subseteq Ids
  BY <1>1 DEF Frame
<1>3. r \in Ids /\ r \in DOMAIN s.req /\ Len(s.kv.states[r].tokens) = s.req[r].computed
  BY ComputedFacts
<1>4. Standing(s, r, guests, given)
  BY <1>3 DEF Steady
<1>5. /\ TablesOK(q, Vocabulary, Salts) /\ Live(q) = Live(s.kv)
      /\ \A x \in Live(s.kv) \ {r} : q.states[x] = s.kv.states[x]
      /\ q.states[r].tokens = s.kv.states[r].tokens
      /\ \A n \in Nat : Len(s.kv.states[r].tokens) + n = end => Own(q, r, n)
      /\ \A x \in Live(s.kv) \ {r}, n \in Nat : Own(s.kv, x, n) => Own(q, x, n)
  <2>1. q = Reserved(s.kv, r, end)
    OBVIOUS
  <2> HIDE DEF q
  <2> DEFINE kv == s.kv
  <2>2. TablesOK(kv, Vocabulary, Salts) /\ r \in Live(kv) /\ CanReserve(kv, r, end) /\ q = Reserved(kv, r, end)
    BY <1>2, <2>1
  <2> HIDE DEF kv
  <2>3. /\ TablesOK(q, Vocabulary, Salts) /\ Live(q) = Live(kv)
        /\ \A x \in Live(kv) \ {r} : q.states[x] = kv.states[x]
        /\ q.states[r].tokens = kv.states[r].tokens
        /\ \A n \in Nat : Len(kv.states[r].tokens) + n = end => Own(q, r, n)
    BY <2>2, ReservedOK
  <2>4. \A x \in Live(kv) \ {r}, n \in Nat : Own(kv, x, n) => Own(q, x, n)
    BY <2>2, ReservedOK
  <2> QED BY <2>3, <2>4 DEF kv
<1> HIDE DEF q
<1>6. t = [s EXCEPT !.kv = q]
  BY DEF q, Reserving
<1>7. /\ Shape(t) /\ t.req = s.req /\ t.kv = q /\ t.running = s.running /\ t.waiting = s.waiting
      /\ t.budget = s.budget /\ t.items = s.items /\ t.preempted = s.preempted
      /\ t.blocked = s.blocked
  BY <1>2, <1>6 DEF Shape
<1>8. OthersKept(s, t, r)
  BY <1>5, <1>7 DEF OthersKept
<1>9. Frame(t)
  BY <1>1, <1>5, <1>7 DEF Frame
<1>10. CachedOK(s.req[r], given[r], t.kv, r)
  BY <1>3, <1>4, <1>5, <1>7, Zenon DEF CachedOK, Standing
<1>11. Standing(t, r, guests, given)
  BY <1>4, <1>5, <1>7, <1>10 DEF Standing
<1>12. Steady(t, guests, given)
  BY <1>8, <1>9, <1>11, SteadyStep
<1> QED BY <1>3, <1>5, <1>7, <1>8, <1>12

-----------------------------------------------------------------------------
(* The batch under construction.                                            *)

Item == [rid : Ids, start : Nat, count : Nat \ {0}, phase : {"decode", "prefill"},
         sample : BOOLEAN, drafts : Nat]

\* An entry's slice continues the cached tokens of a running request, which owns
\* the pages for it and for its drafts; only a decode has drafts.
ItemOK(s, item) ==
  LET q == s.req[item.rid]
  IN  /\ item.rid \in Live(s.kv) /\ item.rid \in DOMAIN s.req /\ q.status = "running"
      /\ item.start = q.computed
      /\ item.start + item.count <= NumTokens(q)
      /\ item.sample <=> item.start + item.count = NumTokens(q)
      /\ item.start + item.count + item.drafts <= MaxModelLen
      /\ item.phase = "decode" => ~IsPrefill(q)
      /\ item.drafts > 0 => item.phase = "decode"
      /\ Own(s.kv, item.rid, item.count + item.drafts)

Chosen(items, r) == \E i \in 1 .. Len(items) : items[i].rid = r

\* Entries are only added.
LEMMA ChosenGrows ==
  ASSUME NEW S, NEW items, items \in Seq(S), NEW item, item \in S, NEW new, new = Append(items, item)
  PROVE  Chosen(new, item.rid) /\ \A x : Chosen(items, x) => Chosen(new, x)
<1>1. /\ Len(items) \in Nat /\ Len(new) = Len(items) + 1 /\ new[Len(items) + 1] = item
      /\ \A i \in 1 .. Len(items) : new[i] = items[i]
  OBVIOUS
<1>2. /\ Len(items) + 1 \in 1 .. Len(new)
      /\ \A i \in 1 .. Len(items) : i \in 1 .. Len(new)
  BY <1>1
<1> QED BY <1>1, <1>2 DEF Chosen

ItemsOK(s, items) ==
  /\ items \in Seq(Item)
  /\ \A i \in 1 .. Len(items) : ItemOK(s, items[i])
  /\ \A i, j \in 1 .. Len(items) : items[i].rid = items[j].rid => i = j

\* Nothing that requests, queues and cache consist of has changed.
SameBooks(s, t) ==
  /\ Shape(t)
  /\ t.req = s.req /\ t.waiting = s.waiting /\ t.running = s.running /\ t.kv = s.kv

LEMMA SameBooksOK ==
  ASSUME NEW s, NEW t, SameBooks(s, t)
  PROVE  /\ \A guests, given : Steady(s, guests, given) => Steady(t, guests, given)
         /\ \A x, r : OthersKept(x, s, r) => OthersKept(x, t, r)
         /\ \A items : ItemsOK(s, items) => ItemsOK(t, items)
<1>1. \A guests, given : Steady(s, guests, given) => Steady(t, guests, given)
  BY DEF SameBooks, Steady, Frame, Standing
<1>2. \A x, r : OthersKept(x, s, r) => OthersKept(x, t, r)
  BY DEF SameBooks, OthersKept
<1>3. \A item : ItemOK(s, item) <=> ItemOK(t, item)
  BY DEF SameBooks, ItemOK
<1> QED BY <1>1, <1>2, <1>3 DEF ItemsOK

LEMMA ItemKept ==
  ASSUME NEW s, NEW t, NEW r, OthersKept(s, t, r), NEW item \in Item, ItemOK(s, item), item.rid # r
  PROVE  ItemOK(t, item)
<1> DEFINE x == item.rid
<1>1. x \in Ids /\ item.count + item.drafts \in Nat /\ x # r
  BY DEF Item
<1>2. x \in Live(s.kv) /\ x \in DOMAIN s.req /\ Own(s.kv, x, item.count + item.drafts)
  BY DEF ItemOK
<1>3. /\ x \in Live(t.kv) /\ x \in DOMAIN t.req /\ t.req[x] = s.req[x]
      /\ Own(t.kv, x, item.count + item.drafts)
  BY <1>1, <1>2 DEF OthersKept
<1> QED BY <1>3 DEF ItemOK

LEMMA ItemsKept ==
  ASSUME NEW s, NEW t, NEW r, OthersKept(s, t, r), NEW items, ItemsOK(s, items), ~Chosen(items, r)
  PROVE  ItemsOK(t, items)
<1> SUFFICES ASSUME NEW i \in 1 .. Len(items) PROVE ItemOK(t, items[i])
  BY DEF ItemsOK
<1>1. ItemOK(s, items[i]) /\ items[i].rid # r /\ items[i] \in Item
  <2>1. items \in Seq(Item)
    BY DEF ItemsOK
  <2> QED BY <2>1 DEF ItemsOK, Chosen
<1> QED BY <1>1, ItemKept

\* Who has been chosen stays chosen; who waits is chosen or waits on, behind
\* nobody it was ahead of.
Patient(s, t) ==
  /\ \A x : Chosen(s.items, x) => Chosen(t.items, x)
  /\ \A x \in DOMAIN s.req : s.req[x].status = "waiting" =>
       \/ Chosen(t.items, x)
       \/ t.req[x].status = "waiting" /\ (x \in t.preempted => x \in s.preempted)
  /\ \A x, y : Before(s.waiting, x, y) =>
       Chosen(t.items, x) \/ Chosen(t.items, y) \/ Before(t.waiting, x, y)

\* What no selection of a request undoes: a running request runs on or has been
\* preempted in this step, and the waiting ones keep their places.
Onward(s, t) ==
  /\ t.budget = s.budget /\ DOMAIN t.req = DOMAIN s.req
  /\ s.preempted \subseteq t.preempted
  /\ \A x \in DOMAIN s.req :
       s.req[x].status = "running" => t.req[x] = s.req[x] \/ x \in t.preempted
  /\ Patient(s, t)

LEMMA OnwardIsReflexive ==
  ASSUME NEW s, NEW t, t.budget = s.budget, t.preempted = s.preempted, t.items = s.items,
         t.req = s.req, t.waiting = s.waiting
  PROVE  Onward(s, t)
BY DEF Onward, Patient

LEMMA OnwardIsTransitive ==
  ASSUME NEW s, NEW t, NEW u, Onward(s, t), Onward(t, u)
  PROVE  Onward(s, u)
<1>1. Patient(s, t) /\ Patient(t, u) /\ DOMAIN t.req = DOMAIN s.req
  BY DEF Onward
<1>2. \A x : Chosen(s.items, x) => Chosen(u.items, x)
  BY <1>1 DEF Patient
<1>3. \A x \in DOMAIN s.req : s.req[x].status = "waiting" =>
        \/ Chosen(u.items, x)
        \/ u.req[x].status = "waiting" /\ (x \in u.preempted => x \in s.preempted)
  BY <1>1 DEF Patient
<1>4. \A x, y : Before(s.waiting, x, y) =>
        Chosen(u.items, x) \/ Chosen(u.items, y) \/ Before(u.waiting, x, y)
  BY <1>1 DEF Patient
<1>5. Patient(s, u)
  BY <1>2, <1>3, <1>4 DEF Patient
<1> QED BY <1>5 DEF Onward

LEMMA OnwardFromOthers ==
  ASSUME NEW s, NEW guests, NEW given, Steady(s, guests, given), NEW t, NEW r, OthersKept(s, t, r),
         t.budget = s.budget, DOMAIN t.req = DOMAIN s.req, t.items = s.items,
         s.preempted \subseteq t.preempted, t.preempted \subseteq s.preempted \cup {r},
         r \in DOMAIN s.req /\ s.req[r].status = "running"
           => t.req[r] = s.req[r] \/ r \in t.preempted,
         r \in DOMAIN s.req /\ s.req[r].status = "waiting"
           => t.req[r].status = "waiting" /\ t.preempted = s.preempted,
         \A x, y : Before(s.waiting, x, y) => Before(t.waiting, x, y)
  PROVE  Onward(s, t)
<1>1. DOMAIN s.req \subseteq Ids
  BY DEF Steady, Frame
<1>2. \A x \in DOMAIN s.req : x # r => t.req[x] = s.req[x]
  BY <1>1 DEF OthersKept
<1>3. Patient(s, t)
  BY <1>2 DEF Patient
<1> QED BY <1>2, <1>3 DEF Onward

\* A request is preempted to make room.
LEMMA PressureOK ==
  ASSUME NEW s, NEW guests, NEW given, Steady(s, guests, given),
         NEW r \in DOMAIN s.req, r \notin guests, s.req[r].status = "running",
         NEW t, t = PressurePreempted(s, r)
  PROVE  /\ Steady(t, guests, given) /\ OthersKept(s, t, r) /\ Onward(s, t)
         /\ Len(t.running) <= Len(s.running) /\ Len(s.running) \in Nat /\ Len(t.running) \in Nat
         /\ t.items = s.items /\ t.req[r].status = "waiting"
<1> DEFINE u == Preempted(s, r)
<1>1. /\ Steady(u, guests, given) /\ OthersKept(s, u, r)
      /\ DOMAIN u.req = DOMAIN s.req
      /\ Len(u.running) <= Len(s.running) /\ Len(s.running) \in Nat /\ Len(u.running) \in Nat
      /\ u.budget = s.budget /\ u.items = s.items /\ u.preempted = s.preempted
      /\ u.blocked = s.blocked /\ u.waiting = Append(s.waiting, r)
      /\ u.req[r].status = "waiting"
  <2>1. u = Preempted(s, r)
    OBVIOUS
  <2> HIDE DEF u
  <2> QED BY <2>1, PreemptedOK
<1>2. Shape(u)
  BY <1>1 DEF Steady, Frame
<1> HIDE DEF u
<1>3. t = [u EXCEPT !.preempted = @ \cup {r}]
  BY DEF PressurePreempted, u
<1>4. /\ SameBooks(u, t) /\ t.budget = u.budget /\ t.items = u.items
      /\ t.preempted = u.preempted \cup {r} /\ t.blocked = u.blocked
  BY <1>2, <1>3, Zenon DEF Shape, SameBooks
<1>5. Steady(t, guests, given) /\ OthersKept(s, t, r)
  BY <1>1, <1>4, SameBooksOK
<1>6. Onward(s, t)
  <2>1. DOMAIN t.req = DOMAIN s.req /\ t.budget = s.budget /\ t.blocked = s.blocked
    BY <1>1, <1>4 DEF SameBooks
  <2>2. /\ s.preempted \subseteq t.preempted /\ r \in t.preempted
        /\ t.preempted \subseteq s.preempted \cup {r} /\ t.items = s.items
    BY <1>1, <1>4
  <2>3. Queue(s.waiting) /\ r \in Ids
    BY DEF Steady, Frame
  <2>4. t.waiting = Append(s.waiting, r)
    BY <1>1, <1>4 DEF SameBooks
  <2>5. \A x, y : Before(s.waiting, x, y) => Before(t.waiting, x, y)
    BY <2>3, <2>4, BeforeAppended
  <2> QED BY <1>5, <2>1, <2>2, <2>5, OnwardFromOthers
<1> QED BY <1>1, <1>4, <1>5, <1>6 DEF SameBooks

\* The entry made for a request.
NewItem(s, r, count, phase) ==
  [rid |-> r, start |-> s.req[r].computed, count |-> count, phase |-> phase,
   sample |-> s.req[r].computed + count = NumTokens(s.req[r]), drafts |-> 0]

\* One more entry.
LEMMA ItemAppended ==
  ASSUME NEW s, NEW items, ItemsOK(s, items), NEW item \in Item, ItemOK(s, item),
         ~Chosen(items, item.rid)
  PROVE  ItemsOK(s, Append(items, item))
<1> DEFINE new == Append(items, item)
<1>1. /\ items \in Seq(Item) /\ Len(items) \in Nat /\ new \in Seq(Item)
      /\ Len(new) = Len(items) + 1
      /\ new[Len(items) + 1] = item /\ \A i \in 1 .. Len(items) : new[i] = items[i]
  BY DEF ItemsOK
<1> HIDE DEF new
<1>2. \A i \in 1 .. Len(new) : i \in 1 .. Len(items) \/ i = Len(items) + 1
  BY <1>1
<1>3. \A i \in 1 .. Len(new) : ItemOK(s, new[i])
  BY <1>1, <1>2 DEF ItemsOK
<1>4. ASSUME NEW i \in 1 .. Len(new), NEW j \in 1 .. Len(new), new[i].rid = new[j].rid
      PROVE  i = j
  <2>1. CASE i \in 1 .. Len(items) /\ j \in 1 .. Len(items)
    BY <1>1, <1>4, <2>1, Zenon DEF ItemsOK
  <2>2. CASE i = Len(items) + 1 /\ j \in 1 .. Len(items)
    BY <1>1, <1>4, <2>2 DEF Chosen
  <2>3. CASE j = Len(items) + 1 /\ i \in 1 .. Len(items)
    BY <1>1, <1>4, <2>3 DEF Chosen
  <2> QED BY <1>2, <2>1, <2>2, <2>3
<1> QED BY <1>1, <1>3, <1>4, Zenon DEF ItemsOK, new

\* The guest of a lookup is the request itself, as long as it waits.
GuestOf(s, r) == {x \in {r} : s.req[x].status = "waiting"}

\* A request that owns the pages for its slice joins the batch, and the running ones.
LEMMA WithItemOK ==
  ASSUME NEW s, NEW r \in Live(s.kv), Steady(s, GuestOf(s, r), NoneGiven),
         ItemsOK(s, s.items), ~Chosen(s.items, r),
         NEW count \in Nat \ {0}, Own(s.kv, r, count),
         s.req[r].computed + count <= NumTokens(s.req[r]),
         NEW phase \in {"decode", "prefill"}, phase = "decode" => ~IsPrefill(s.req[r]),
         NEW t, t = WithItem(s, r, count, phase)
  PROVE  /\ Steady(t, {}, NoneGiven) /\ Onward(s, t) /\ ItemsOK(t, t.items)
         /\ t.items = Append(s.items, NewItem(s, r, count, phase))
         /\ Len(s.running) \in Nat /\ Len(t.running) \in Nat
         /\ Len(t.running) <= Len(s.running) + (IF s.req[r].status = "waiting" THEN 1 ELSE 0)
<1> DEFINE item == NewItem(s, r, count, phase)
           guests == GuestOf(s, r)
<1>1. Frame(s)
  BY DEF Steady
<1>2. /\ Queue(s.running) /\ Queue(s.waiting) /\ TablesOK(s.kv, Vocabulary, Salts) /\ Shape(s)
      /\ s.req = [x \in DOMAIN s.req |-> s.req[x]] /\ Live(s.kv) \subseteq Ids
  BY <1>1 DEF Frame
<1>3. r \in Ids /\ NoneGiven[r] = <<>>
  BY <1>2 DEF NoneGiven
<1>4. /\ r \in DOMAIN s.req /\ RequestOK(s.req[r])
      /\ s.req[r].computed \in Nat /\ NumTokens(s.req[r]) \in Nat
  BY <1>3, ComputedFacts
<1>5. Standing(s, r, guests, NoneGiven)
  BY <1>3 DEF Steady
<1>6. s.req[r].status \in {"waiting", "running"} /\ NumTokens(s.req[r]) <= MaxModelLen
  BY <1>4, TokenFacts DEF RequestOK
<1>7. item \in Item /\ item.rid = r /\ item.count = count /\ item.drafts = 0 /\ item.phase = phase
      /\ item.start = s.req[r].computed /\ (item.sample <=> s.req[r].computed + count = NumTokens(s.req[r]))
  BY <1>3, <1>4, Zenon DEF NewItem, Item
<1>8. \A t2 : /\ r \in Live(t2.kv) /\ r \in DOMAIN t2.req /\ t2.req[r].status = "running"
              /\ t2.req[r].computed = s.req[r].computed /\ NumTokens(t2.req[r]) = NumTokens(s.req[r])
              /\ IsPrefill(t2.req[r]) = IsPrefill(s.req[r]) /\ t2.kv = s.kv
              => ItemOK(t2, item)
  <2> TAKE t2
  <2> HIDE DEF item
  <2> SUFFICES ASSUME /\ r \in Live(t2.kv) /\ r \in DOMAIN t2.req /\ t2.req[r].status = "running"
                      /\ t2.req[r].computed = s.req[r].computed /\ NumTokens(t2.req[r]) = NumTokens(s.req[r])
                      /\ IsPrefill(t2.req[r]) = IsPrefill(s.req[r]) /\ t2.kv = s.kv
               PROVE  ItemOK(t2, item)
    OBVIOUS
  <2>1. count + 0 = count /\ count \in Nat
    OBVIOUS
  <2>2. Own(t2.kv, item.rid, item.count + item.drafts)
    BY <1>7, <2>1
  <2>3. item.start + item.count + item.drafts <= MaxModelLen
    <3>1. s.req[r].computed + count + 0 <= MaxModelLen
      BY <1>4, <1>6, LimitsAssumption
    <3> QED BY <1>7, <3>1
  <2>4. ~(item.drafts > 0)
    BY <1>7
  <2> QED BY <1>7, <2>2, <2>3, <2>4 DEF ItemOK
<1>9. CASE s.req[r].status # "waiting"
  <2>1. t = [s EXCEPT !.items = Append(@, item)]
    BY <1>9 DEF WithItem, NewItem
  <2> HIDE DEF item
  <2>2. SameBooks(s, t) /\ t.items = Append(s.items, item)
        /\ t.budget = s.budget /\ t.blocked = s.blocked /\ t.preempted = s.preempted
    BY <1>2, <2>1, Zenon DEF Shape, SameBooks
  <2>3. guests = {}
    BY <1>9 DEF GuestOf
  <2>4. Steady(t, {}, NoneGiven) /\ ItemsOK(t, s.items)
    BY <2>2, <2>3, SameBooksOK
  <2>5. ItemOK(t, item)
    <3>1. s.req[r].status = "running"
      BY <1>6, <1>9
    <3>2. t.req = s.req /\ t.kv = s.kv
      BY <2>2 DEF SameBooks
    <3> QED BY <1>4, <1>8, <3>1, <3>2
  <2>6. ItemsOK(t, t.items)
    BY <1>7, <2>2, <2>4, <2>5, ItemAppended
  <2>7. Onward(s, t)
    <3>1. t.req = s.req /\ t.waiting = s.waiting
      BY <2>2 DEF SameBooks
    <3>2. \A x : Chosen(s.items, x) => Chosen(t.items, x)
      <4>1. s.items \in Seq(Item)
        BY DEF ItemsOK
      <4> QED BY <1>7, <2>2, <4>1, ChosenGrows, Zenon
    <3>3. Patient(s, t)
      BY <2>2, <3>1, <3>2 DEF Patient
    <3> QED BY <2>2, <3>1, <3>3 DEF Onward
  <2>8. Len(s.running) \in Nat /\ t.running = s.running
    BY <1>2, <2>2, QueueElements DEF SameBooks
  <2> QED BY <1>9, <2>2, <2>4, <2>6, <2>7, <2>8 DEF item
<1>10. CASE s.req[r].status = "waiting"
  <2> DEFINE p == WithProgress(s.req[r], s.req[r].computed, "running")
  <2>1. t = [[s EXCEPT !.items = Append(@, item)] EXCEPT
               !.waiting = Kept(@, Ids \ {r}), !.running = Append(@, r),
               !.age[r] = 0, !.req[r].status = "running"]
    BY <1>10 DEF WithItem, NewItem
  <2> HIDE DEF item
  <2>2. /\ Shape(t) /\ t.req = [s.req EXCEPT ![r] = [@ EXCEPT !.status = "running"]]
        /\ t.waiting = Kept(s.waiting, Ids \ {r}) /\ t.running = Append(s.running, r) /\ t.kv = s.kv
        /\ t.items = Append(s.items, item)
        /\ t.budget = s.budget /\ t.blocked = s.blocked /\ t.preempted = s.preempted
    BY <1>2, <2>1, ZenonT(30) DEF Shape
  <2>3. [s.req[r] EXCEPT !.status = "running"] = p
    <3>1. s.req[r] \in Request
      BY <1>4 DEF RequestOK
    <3> QED BY <3>1, Zenon DEF WithProgress, Request
  <2>4. t.req = [s.req EXCEPT ![r] = p]
    BY <2>2, <2>3
  <2>5. /\ RequestOK(p) /\ p.computed = s.req[r].computed /\ p.status = "running"
        /\ NumTokens(p) = NumTokens(s.req[r]) /\ TokenIds(p) = TokenIds(s.req[r])
        /\ p.prompt = s.req[r].prompt
    <3> DEFINE q == s.req[r]
               c == q.computed
    <3>1. /\ "running" \in {"waiting", "running"} /\ p = WithProgress(q, c, "running")
          /\ RequestOK(q) /\ c \in Nat
      BY <1>4
    <3> HIDE DEF p, q, c
    <3>2. /\ RequestOK(p) /\ p.computed = c /\ p.status = "running"
          /\ NumTokens(p) = NumTokens(q) /\ TokenIds(p) = TokenIds(q) /\ p.prompt = q.prompt
      BY <3>1, ProgressFacts
    <3> QED BY <3>2 DEF q, c
  <2> HIDE DEF p
  <2>6. /\ DOMAIN t.req = DOMAIN s.req /\ t.req[r] = p /\ t.req = [x \in DOMAIN t.req |-> t.req[x]]
        /\ \A x : x # r /\ x \in DOMAIN s.req => t.req[x] = s.req[x]
    BY <1>2, <1>4, <2>4, RequestReplaced
  <2>7. t.waiting = Kept(s.waiting, Ids \ {r}) /\ t.running = Append(s.running, r) /\ t.kv = s.kv
    BY <2>2
  <2>8. Listed(s.waiting, r) /\ ~Listed(s.running, r)
    BY <1>4, <1>5, <1>10 DEF Standing
  <2>9. /\ Queue(t.waiting) /\ \A x : Listed(t.waiting, x) <=> Listed(s.waiting, x) /\ x # r
    BY <1>2, <2>7, QueueWithout, Zenon
  <2>10. /\ Queue(t.running) /\ \A x : Listed(t.running, x) <=> Listed(s.running, x) \/ x = r
         /\ Len(t.running) = Len(s.running) + 1 /\ Len(s.running) \in Nat
    BY <1>2, <1>3, <2>7, <2>8, QueueAppend
  <2>11. Frame(t)
    BY <1>1, <2>2, <2>6, <2>7, <2>9, <2>10 DEF Frame
  <2>12. OthersKept(s, t, r)
    BY <2>6, <2>7, <2>9, <2>10, Zenon DEF OthersKept
  <2>13. CachedOK(p, NoneGiven[r], t.kv, r)
    <3>1. CachedOK(s.req[r], NoneGiven[r], s.kv, r)
      BY <1>4, <1>5 DEF Standing
    <3> QED BY <2>5, <2>7, <3>1, Zenon DEF CachedOK
  <2>14. Standing(t, r, {}, NoneGiven)
    BY <1>4, <2>5, <2>6, <2>7, <2>9, <2>10, <2>13, Zenon DEF Standing
  <2>15. \A x \in Ids : x # r => (x \in {} <=> x \in guests)
    BY DEF GuestOf
  <2>16. Steady(t, {}, NoneGiven)
    <3> HIDE DEF guests
    <3> QED BY <2>11, <2>12, <2>14, <2>15, SteadyStep DEF guests
  <2>17. ItemsOK(t, s.items)
    BY <2>12, ItemsKept
  <2>18. IsPrefill(p) = IsPrefill(s.req[r])
    BY <2>5 DEF IsPrefill
  <2>19. ItemOK(t, item)
    BY <1>4, <1>8, <2>5, <2>6, <2>7, <2>18
  <2>20. ItemsOK(t, t.items)
    BY <1>7, <2>2, <2>17, <2>19, ItemAppended
  <2>21. Onward(s, t)
    <3>1. Chosen(t.items, r) /\ \A x : Chosen(s.items, x) => Chosen(t.items, x)
      <4> DEFINE old == s.items
                 new == t.items
                 entry == item
      <4>1. old \in Seq(Item)
        BY DEF ItemsOK
      <4>2. entry \in Item /\ entry.rid = r /\ new = Append(old, entry)
        BY <1>7, <2>2
      <4> HIDE DEF old, new, entry
      <4>3. Chosen(new, entry.rid) /\ \A x : Chosen(old, x) => Chosen(new, x)
        BY <4>1, <4>2, ChosenGrows, Zenon
      <4>4. Chosen(new, r) /\ \A x : Chosen(old, x) => Chosen(new, x)
        BY <4>2, <4>3
      <4> QED BY <4>4 DEF old, new
    <3>2. \A x, y : Before(s.waiting, x, y) => x = r \/ y = r \/ Before(t.waiting, x, y)
      <4> SUFFICES ASSUME NEW x, NEW y, Before(s.waiting, x, y), x # r, y # r
                   PROVE  Before(t.waiting, x, y)
        OBVIOUS
      <4>1. x \in Ids \ {r} /\ y \in Ids \ {r}
        BY <1>2, QueueElements DEF Before
      <4> QED BY <1>2, <2>7, <4>1, BeforeKept
    <3>3. Patient(s, t)
      BY <2>2, <2>6, <3>1, <3>2, Zenon DEF Patient
    <3> QED BY <1>10, <2>2, <2>6, <3>3 DEF Onward
  <2> QED BY <1>10, <2>2, <2>10, <2>16, <2>20, <2>21 DEF item
<1> QED BY <1>9, <1>10, Zenon

EvictNext(victims, t, i) == PressurePreempted(t, victims[i])

EvictRun(s, victims, k, h) ==
  /\ h[0] = s
  /\ \A i \in 1 .. k : h[i] = EvictNext(victims, h[i - 1], i)
  /\ h[k] = EvictedAll(s, victims, k)

\* The passes of a pressure preemption.
LEMMA EvictPasses ==
  ASSUME NEW s, NEW victims, NEW k, k \in Nat
  PROVE  \E h : EvictRun(s, victims, k, h)
<1> DEFINE Passes(n, g) ==
             g = [i \in 0 .. n |-> IF i = 0 THEN s ELSE EvictNext(victims, g[i - 1], i)]
           T == {n \in Nat : \E g : Passes(n, g)}
<1>1. 0 \in T
  <2>1. Passes(0, [i \in 0 .. 0 |-> s])
    OBVIOUS
  <2> QED BY <2>1, Zenon
<1>2. ASSUME NEW n \in Nat, n \in T PROVE n + 1 \in T
  <2>1. PICK g : Passes(n, g)
    BY <1>2
  <2> DEFINE f == [i \in 0 .. n + 1 |-> IF i <= n THEN g[i] ELSE EvictNext(victims, g[n], n + 1)]
  <2> HIDE DEF EvictNext
  <2>2. Passes(n + 1, f)
    BY <2>1
  <2> HIDE DEF f, Passes
  <2> QED BY <2>2
<1>3. k \in T
  <2> HIDE DEF T
  <2> QED BY <1>1, <1>2, Induction
<1>4. \E g : Passes(k, g)
  BY <1>3
<1> DEFINE g == CHOOSE g : Passes(k, g)
<1>5. Passes(k, g)
  BY <1>4, Zenon
<1>6. EvictedAll(s, victims, k) = g[k]
  BY Zenon DEF EvictedAll, Loop, EvictNext
<1> DEFINE n == k
<1> HIDE DEF g, n
<1>7. n \in Nat /\ Passes(n, g)
  BY <1>5 DEF n
<1>8. g[0] = s /\ \A i \in 1 .. n : g[i] = EvictNext(victims, g[i - 1], i)
  BY <1>7
<1>9. EvictRun(s, victims, k, g)
  BY <1>6, <1>8 DEF n, EvictRun
<1> QED BY <1>9

\* Whom r may push out: running requests that are not in the batch.
VictimsOK(s, r, victims) ==
  /\ Queue(victims)
  /\ \A i \in 1 .. Len(victims) :
       /\ victims[i] # r /\ ~Chosen(s.items, victims[i])
       /\ victims[i] \in DOMAIN s.req /\ s.req[victims[i]].status = "running"

LEMMA EvictableOK ==
  ASSUME NEW s, NEW guests, NEW given, Steady(s, guests, given), NEW r
  PROVE  /\ VictimsOK(s, r, Evictable(s, r))
         /\ \A x : Listed(Evictable(s, r), x) <=> Listed(s.running, x) /\ x \in Ids \ (Selected(s) \cup {r})
<1> DEFINE keep == Ids \ (Selected(s) \cup {r})
           list == Kept(s.running, keep)
           victims == Reverse(list)
<1>1. Queue(s.running)
  BY DEF Steady, Frame
<1> HIDE DEF keep
<1>2. Queue(list) /\ \A x : Listed(list, x) <=> Listed(s.running, x) /\ x \in keep
  BY <1>1, QueueKept
<1>3. Evictable(s, r) = victims
  BY DEF Evictable, keep
<1> HIDE DEF list
<1>4. victims \in Seq(Ids) /\ DistinctList(victims) /\ \A x : Listed(victims, x) <=> Listed(list, x)
  BY <1>2, ReverseList DEF Queue
<1> HIDE DEF victims
<1>5. Queue(victims)
  BY <1>4 DEF Queue
<1>6. ASSUME NEW i \in 1 .. Len(victims)
      PROVE  /\ victims[i] # r /\ ~Chosen(s.items, victims[i])
             /\ victims[i] \in DOMAIN s.req /\ s.req[victims[i]].status = "running"
  <2> DEFINE x == victims[i]
  <2>1. x \in Ids /\ Listed(victims, x)
    BY <1>5, QueueElements
  <2> HIDE DEF x
  <2>2. Listed(s.running, x) /\ x \in keep
    BY <1>2, <1>4, <2>1
  <2>3. Standing(s, x, guests, given)
    BY <2>1 DEF Steady
  <2>4. x # r /\ ~Chosen(s.items, x)
    BY <2>2 DEF keep, Selected, Chosen
  <2> QED BY <2>2, <2>3, <2>4 DEF Standing, x
<1>7. \A x : Listed(victims, x) <=> Listed(s.running, x) /\ x \in keep
  BY <1>2, <1>4
<1> QED BY <1>3, <1>5, <1>6, <1>7 DEF VictimsOK, keep

\* After k victims.
EvictedTo(s, r, victims, k, t) ==
  /\ Steady(t, GuestOf(s, r), NoneGiven)
  /\ ItemsOK(t, s.items) /\ t.items = s.items
  /\ Onward(s, t)
  /\ Len(t.running) \in Nat /\ Len(s.running) \in Nat /\ Len(t.running) <= Len(s.running)
  /\ r \in Live(t.kv) /\ t.req[r] = s.req[r]
  /\ \A j \in 1 .. Len(victims) :
       j > k => victims[j] \in DOMAIN t.req /\ t.req[victims[j]].status = "running"
  /\ \A j \in 1 .. Len(victims) : j <= k => t.req[victims[j]].status = "waiting"

LEMMA EvictOne ==
  ASSUME NEW s, NEW r \in Live(s.kv), r \in DOMAIN s.req, NEW victims, VictimsOK(s, r, victims),
         NEW k, k \in Nat, k + 1 <= Len(victims),
         NEW t, EvictedTo(s, r, victims, k, t),
         NEW u, u = EvictNext(victims, t, k + 1)
  PROVE  EvictedTo(s, r, victims, k + 1, u)
<1> DEFINE x == victims[k + 1]
<1>1. Queue(victims) /\ Len(victims) \in Nat
  BY QueueElements DEF VictimsOK
<1>2. k + 1 \in 1 .. Len(victims) /\ k + 1 > k
  BY <1>1
<1>3. /\ x # r /\ ~Chosen(s.items, x) /\ x \in DOMAIN t.req /\ t.req[x].status = "running"
      /\ x \notin GuestOf(s, r) /\ x \in Ids
  <2>1. x # r /\ ~Chosen(s.items, x) /\ x \in DOMAIN t.req /\ t.req[x].status = "running"
    BY <1>2 DEF VictimsOK, EvictedTo
  <2>2. x \in Ids
    BY <1>1, <1>2, QueueElements
  <2> QED BY <2>1, <2>2 DEF GuestOf
<1>4. \A j \in 1 .. Len(victims) : j > k + 1 => victims[j] # x /\ j > k
  <2> TAKE j \in 1 .. Len(victims)
  <2>1. j > k + 1 => j # k + 1 /\ j > k
    BY <1>1, <1>2
  <2> QED BY <1>1, <1>2, <2>1 DEF Queue, DistinctList
<1> HIDE DEF x
<1>5. u = PressurePreempted(t, x)
  BY DEF EvictNext, x
<1>6. /\ Steady(u, GuestOf(s, r), NoneGiven) /\ OthersKept(t, u, x) /\ Onward(t, u)
      /\ Len(u.running) <= Len(t.running) /\ Len(t.running) \in Nat /\ Len(u.running) \in Nat
      /\ u.items = t.items /\ u.req[x].status = "waiting"
  <2>1. Steady(t, GuestOf(s, r), NoneGiven)
    BY DEF EvictedTo
  <2> QED BY <1>3, <1>5, <2>1, PressureOK
<1>7. ItemsOK(u, s.items)
  BY <1>3, <1>6, ItemsKept DEF EvictedTo
<1>8. Onward(s, u)
  BY <1>6, OnwardIsTransitive DEF EvictedTo
<1>9. Len(u.running) <= Len(s.running)
  <2>1. Len(t.running) <= Len(s.running) /\ Len(s.running) \in Nat
    BY DEF EvictedTo
  <2> QED BY <1>6, <2>1
<1>10. r \in Live(u.kv) /\ u.req[r] = s.req[r]
  <2>1. r \in Live(t.kv) /\ t.req[r] = s.req[r] /\ DOMAIN t.req = DOMAIN s.req
    BY DEF EvictedTo, Onward
  <2>2. r \in Ids /\ r \in DOMAIN t.req
    <3>1. DOMAIN t.req \subseteq Ids
      BY DEF EvictedTo, Steady, Frame
    <3> QED BY <2>1, <3>1
  <2> QED BY <1>3, <1>6, <2>1, <2>2 DEF OthersKept
<1>11. \A j \in 1 .. Len(victims) :
         j > k + 1 => victims[j] \in DOMAIN u.req /\ u.req[victims[j]].status = "running"
  <2> TAKE j \in 1 .. Len(victims)
  <2> SUFFICES ASSUME j > k + 1 PROVE victims[j] \in DOMAIN u.req /\ u.req[victims[j]].status = "running"
    OBVIOUS
  <2> DEFINE y == victims[j]
  <2>1. y # x /\ y \in DOMAIN t.req /\ t.req[y].status = "running" /\ y \in Ids
    BY <1>1, <1>4, QueueElements, Zenon DEF EvictedTo
  <2> HIDE DEF y
  <2>2. y \in DOMAIN u.req /\ u.req[y].status = "running"
    BY <1>6, <2>1 DEF OthersKept
  <2> QED BY <2>2 DEF y
<1>12. Len(s.running) \in Nat /\ s.items = u.items
  BY <1>6 DEF EvictedTo
<1>13. \A j \in 1 .. Len(victims) : j <= k + 1 => u.req[victims[j]].status = "waiting"
  <2> SUFFICES ASSUME NEW j \in 1 .. Len(victims), j <= k + 1 PROVE u.req[victims[j]].status = "waiting"
    OBVIOUS
  <2>1. CASE j = k + 1
    BY <1>6, <2>1 DEF x
  <2>2. CASE j # k + 1
    <3> DEFINE y == victims[j]
    <3>1. j <= k /\ k + 1 \in 1 .. Len(victims)
      BY <1>1, <1>2, <2>2
    <3>2. y # x /\ y \in Ids
      BY <1>1, <2>2, <3>1, QueueElements DEF Queue, DistinctList, x
    <3>3. t.req[y].status = "waiting"
      BY <3>1 DEF EvictedTo
    <3>4. y \in DOMAIN t.req
      <4>1. y \in DOMAIN s.req /\ DOMAIN t.req = DOMAIN s.req
        BY DEF VictimsOK, EvictedTo, Onward
      <4> QED BY <4>1
    <3> HIDE DEF y
    <3>5. u.req[y] = t.req[y]
      BY <1>6, <3>2, <3>4 DEF OthersKept
    <3> QED BY <3>3, <3>5 DEF y
  <2> QED BY <2>1, <2>2
<1> QED BY <1>6, <1>7, <1>8, <1>9, <1>10, <1>11, <1>12, <1>13 DEF EvictedTo

LEMMA EvictedAllOK ==
  ASSUME NEW s, NEW r \in Live(s.kv), r \in DOMAIN s.req, Steady(s, GuestOf(s, r), NoneGiven),
         ItemsOK(s, s.items), NEW victims, VictimsOK(s, r, victims),
         NEW k, k \in 0 .. Len(victims)
  PROVE  EvictedTo(s, r, victims, k, EvictedAll(s, victims, k))
<1>1. k \in Nat /\ Len(victims) \in Nat /\ k <= Len(victims)
  BY QueueElements DEF VictimsOK
<1>2. PICK h : EvictRun(s, victims, k, h)
  BY <1>1, EvictPasses, Zenon
<1>3. h[0] = s /\ h[k] = EvictedAll(s, victims, k)
  BY <1>2 DEF EvictRun
<1> DEFINE T == {i \in Nat : i <= k => EvictedTo(s, r, victims, i, h[i])}
<1>4. 0 \in T
  <2>1. Len(s.running) \in Nat
    BY QueueElements DEF Steady, Frame
  <2>2. Onward(s, s)
    BY OnwardIsReflexive
  <2>3. \A j \in 1 .. Len(victims) : victims[j] \in DOMAIN s.req /\ s.req[victims[j]].status = "running"
    BY DEF VictimsOK
  <2>4. \A j \in 1 .. Len(victims) : ~(j <= 0)
    OBVIOUS
  <2>5. EvictedTo(s, r, victims, 0, s)
    BY <2>1, <2>2, <2>3, <2>4 DEF EvictedTo
  <2> QED BY <1>3, <2>5
<1>5. ASSUME NEW i \in Nat, i \in T PROVE i + 1 \in T
  <2> SUFFICES ASSUME i + 1 <= k PROVE EvictedTo(s, r, victims, i + 1, h[i + 1])
    OBVIOUS
  <2>1. i + 1 \in 1 .. k /\ (i + 1) - 1 = i /\ i <= k /\ i + 1 <= Len(victims)
    BY <1>1
  <2>2. EvictedTo(s, r, victims, i, h[i])
    BY <1>5, <2>1
  <2>3. h[i + 1] = EvictNext(victims, h[i], i + 1)
    BY <1>2, <2>1 DEF EvictRun
  <2> QED BY <2>1, <2>2, <2>3, EvictOne, Zenon
<1>6. k \in T
  <2> HIDE DEF T
  <2> QED BY <1>1, <1>4, <1>5, Induction, Zenon
<1>7. EvictedTo(s, r, victims, k, h[k])
  BY <1>1, <1>6
<1> QED BY <1>3, <1>7

\* With nobody selected before r, everyone else has given up his pages at the end.
LEMMA OthersEvicted ==
  ASSUME NEW s, NEW r, Steady(s, GuestOf(s, r), NoneGiven), s.items = <<>>,
         NEW victims, victims = Evictable(s, r),
         NEW t, EvictedTo(s, r, victims, Len(victims), t)
  PROVE  Live(t.kv) \subseteq {r}
<1> SUFFICES ASSUME NEW x \in Live(t.kv), x # r PROVE FALSE
  OBVIOUS
<1>1. x \in Ids /\ Standing(t, x, GuestOf(s, r), NoneGiven)
  BY DEF EvictedTo, Steady, Frame
<1>2. x \notin GuestOf(s, r)
  BY DEF GuestOf
<1>3. x \in DOMAIN t.req /\ t.req[x].status = "running"
  BY <1>1, <1>2 DEF Standing
<1>4. x \in DOMAIN s.req /\ Patient(s, t) /\ t.items = <<>>
  BY <1>3 DEF EvictedTo, Onward
<1>5. ~Chosen(t.items, x)
  BY <1>4 DEF Chosen
<1>6. s.req[x].status # "waiting"
  BY <1>3, <1>4, <1>5 DEF Patient
<1>7. Standing(s, x, GuestOf(s, r), NoneGiven)
  BY <1>1 DEF Steady
<1>8. Listed(s.running, x)
  <2>1. s.req[x] \in Request
    BY <1>4, <1>7 DEF Standing, RequestOK
  <2>2. s.req[x].status = "running"
    BY <1>6, <2>1 DEF Request
  <2> QED BY <1>4, <1>7, <2>2 DEF Standing
<1>9. x \notin Selected(s) \cup {r}
  BY DEF Selected
<1>10. Listed(victims, x)
  BY <1>1, <1>8, <1>9, EvictableOK
<1>11. PICK j \in 1 .. Len(victims) : victims[j] = x
  BY <1>10 DEF Listed
<1>12. Len(victims) \in Nat
  BY <1>11, EvictableOK, QueueElements DEF VictimsOK
<1>13. t.req[x].status = "waiting"
  <2>1. j <= Len(victims)
    BY <1>12
  <2> QED BY <1>11, <2>1 DEF EvictedTo
<1> QED BY <1>3, <1>13

\* What selecting r for at most `want' tokens may have done.
SelectedFrom(s, t, r, want, phase) ==
  /\ Steady(t, {}, NoneGiven) /\ Onward(s, t) /\ ItemsOK(t, t.items)
  /\ \/ t.items = s.items
     \/ \E item \in Item : /\ t.items = Append(s.items, item)
                           /\ item.rid = r /\ item.count <= want /\ item.phase = phase
                           /\ item.drafts = 0
  /\ Len(s.running) \in Nat /\ Len(t.running) \in Nat
  /\ Len(t.running) <= Len(s.running) + (IF s.req[r].status = "waiting" THEN 1 ELSE 0)

LEMMA SomeVictims ==
  ASSUME NEW s, NEW r, NEW count, NEW end, NEW n \in Nat, NEW victims,
         NEW enough, enough = {k \in 0 .. n : CanReserve(EvictedAll(s, victims, k).kv, r, end)},
         enough # {}
  PROVE  LET least == CHOOSE k \in enough : \A j \in enough : k <= j
         IN  least \in 0 .. n /\ CanReserve(EvictedAll(s, victims, least).kv, r, end)
<1>1. PICK some \in enough : TRUE
  OBVIOUS
<1>2. enough \subseteq Nat
  OBVIOUS
<1>3. \E m \in enough : \A j \in enough : m <= j
  BY <1>1, <1>2, LeastNatural
<1> DEFINE least == CHOOSE k \in enough : \A j \in enough : k <= j
<1>4. least \in enough
  BY <1>3, Zenon
<1> HIDE DEF least
<1> QED BY <1>4 DEF least

\* Room is made, or the request gives up; the first of a batch need not.
LEMMA WithRoomOK ==
  ASSUME NEW s, NEW r \in Live(s.kv), Steady(s, GuestOf(s, r), NoneGiven),
         ItemsOK(s, s.items), ~Chosen(s.items, r),
         NEW count \in Nat \ {0}, s.req[r].computed + count <= NumTokens(s.req[r]),
         NEW phase \in {"decode", "prefill"}, phase = "decode" => ~IsPrefill(s.req[r]),
         NEW t, t = WithRoom(s, r, count, phase)
  PROVE  SelectedFrom(s, t, r, count, phase) /\ (s.items = <<>> => t.items # <<>>)
<1> DEFINE end == s.req[r].computed + count
           victims == Evictable(s, r)
           enough == {k \in 0 .. Len(victims) : CanReserve(EvictedAll(s, victims, k).kv, r, end)}
           least == CHOOSE k \in enough : \A j \in enough : k <= j
           u == EvictedAll(s, victims, least)
           v == Reserving(u, r, end)
           w == EvictedAll(s, victims, Len(victims))
<1>1. /\ enough # {} => t = WithItem(v, r, count, phase)
      /\ enough = {} /\ r \in ToSet(s.running) => t = PressurePreempted(w, r)
      /\ enough = {} /\ r \notin ToSet(s.running) => t = Detached(w, r)
  BY DEF WithRoom, Reserving
<1>2. VictimsOK(s, r, victims)
  BY EvictableOK
<1>3. Len(victims) \in Nat
  <2> HIDE DEF victims
  <2> QED BY <1>2, QueueElements DEF VictimsOK
<1>4. NoneGiven[r] = <<>> /\ r \in Ids
  <2>1. r \in Ids
    BY DEF Steady, Frame
  <2> QED BY <2>1 DEF NoneGiven
<1>5. /\ r \in DOMAIN s.req /\ RequestOK(s.req[r]) /\ s.req[r].computed \in Nat /\ end \in Nat
  <2>1. /\ r \in DOMAIN s.req /\ RequestOK(s.req[r]) /\ s.req[r].computed \in Nat
    BY <1>4, ComputedFacts
  <2> QED BY <2>1
<1>6. s.req[r].status \in {"waiting", "running"}
  BY <1>5, TokenFacts
<1> HIDE DEF victims, end
<1>7. Len(victims) \in 0 .. Len(victims)
  BY <1>3
<1>8. EvictedTo(s, r, victims, Len(victims), w)
  BY <1>2, <1>5, <1>7, EvictedAllOK
<1>9. enough # {} => least \in 0 .. Len(victims) /\ CanReserve(u.kv, r, end)
  BY <1>3, SomeVictims, ZenonT(30)
<1>10. enough # {} => EvictedTo(s, r, victims, least, u)
  <2> HIDE DEF least, enough
  <2> QED BY <1>2, <1>5, <1>9, EvictedAllOK DEF u
<1>11. CASE enough # {}
  <2> HIDE DEF enough, least, u
  <2>1. /\ Steady(u, GuestOf(s, r), NoneGiven) /\ ItemsOK(u, s.items) /\ u.items = s.items
        /\ Onward(s, u)
        /\ Len(u.running) \in Nat /\ Len(s.running) \in Nat /\ Len(u.running) <= Len(s.running)
        /\ r \in Live(u.kv) /\ u.req[r] = s.req[r]
    BY <1>10, <1>11 DEF EvictedTo
  <2>2. v = Reserving(u, r, end) /\ CanReserve(u.kv, r, end)
    BY <1>9, <1>11
  <2> HIDE DEF v
  <2>3. /\ Steady(v, GuestOf(s, r), NoneGiven) /\ OthersKept(u, v, r)
        /\ v.req = u.req /\ r \in Live(v.kv)
        /\ \A n : n \in Nat /\ u.req[r].computed + n = end => Own(v.kv, r, n)
        /\ v.running = u.running /\ v.waiting = u.waiting /\ v.budget = u.budget /\ v.items = u.items
        /\ v.preempted = u.preempted /\ v.blocked = u.blocked
    BY <1>4, <1>5, <2>1, <2>2, ReservationOK
  <2>4. GuestOf(v, r) = GuestOf(s, r)
    BY <2>1, <2>3 DEF GuestOf
  <2>5. Own(v.kv, r, count)
    BY <2>1, <2>3 DEF end
  <2>6. ItemsOK(v, v.items) /\ ~Chosen(v.items, r)
    <3>1. ItemsOK(v, s.items)
      BY <2>1, <2>3, ItemsKept
    <3> QED BY <2>1, <2>3, <3>1
  <2>7. /\ v.req[r] = s.req[r] /\ v.req[r].computed + count <= NumTokens(v.req[r])
        /\ (phase = "decode" => ~IsPrefill(v.req[r]))
    BY <2>1, <2>3
  <2>8. t = WithItem(v, r, count, phase)
    BY <1>1, <1>11
  <2>9. /\ Steady(t, {}, NoneGiven) /\ Onward(v, t) /\ ItemsOK(t, t.items)
        /\ t.items = Append(v.items, NewItem(v, r, count, phase))
        /\ Len(v.running) \in Nat /\ Len(t.running) \in Nat
        /\ Len(t.running) <= Len(v.running) + (IF v.req[r].status = "waiting" THEN 1 ELSE 0)
    BY <2>3, <2>4, <2>5, <2>6, <2>7, <2>8, WithItemOK, Zenon
  <2>10. Onward(u, v)
    BY <2>3, OnwardIsReflexive
  <2>11. Onward(s, t)
    BY <2>1, <2>9, <2>10, OnwardIsTransitive
  <2>12. \E item \in Item : /\ t.items = Append(s.items, item)
                            /\ item.rid = r /\ item.count <= count /\ item.phase = phase
                            /\ item.drafts = 0
    <3> DEFINE item == NewItem(v, r, count, phase)
    <3>1. item \in Item /\ item.rid = r /\ item.count = count /\ item.phase = phase /\ item.drafts = 0
      BY <1>4, <1>5, <2>7 DEF NewItem, Item
    <3>2. t.items = Append(s.items, item)
      BY <2>1, <2>3, <2>9
    <3>3. item.count <= count
      BY <3>1
    <3> HIDE DEF item
    <3> QED BY <3>1, <3>2, <3>3
  <2>13. Len(t.running) <= Len(s.running) + (IF s.req[r].status = "waiting" THEN 1 ELSE 0)
    <3> DEFINE x == IF s.req[r].status = "waiting" THEN 1 ELSE 0
               m == Len(s.running)
               n == Len(u.running)
               k == Len(t.running)
    <3>1. k <= n + x
      BY <2>3, <2>7, <2>9, Zenon
    <3>2. x \in {0, 1} /\ m \in Nat /\ n \in Nat /\ k \in Nat /\ n <= m
      BY <2>1, <2>9
    <3> HIDE DEF x, m, n, k
    <3>3. k <= m + x
      BY <3>1, <3>2
    <3> QED BY <3>3, Zenon DEF x, m, k
  <2>14. s.items = <<>> => t.items # <<>>
    BY <2>12
  <2> QED BY <2>1, <2>9, <2>11, <2>12, <2>13, <2>14, Zenon DEF SelectedFrom
<1>12. ASSUME s.items = <<>> PROVE enough # {}
  <2> HIDE DEF w
  <2>1. victims = Evictable(s, r)
    BY DEF victims
  <2>2. Live(w.kv) \subseteq {r} /\ TablesOK(w.kv, Vocabulary, Salts) /\ r \in Live(w.kv)
    BY <1>8, <1>12, <2>1, OthersEvicted, Zenon DEF EvictedTo, Steady, Frame
  <2>3. end <= MaxModelLen
    <3>1. NumTokens(s.req[r]) \in Nat /\ NumTokens(s.req[r]) <= MaxModelLen
      BY <1>5, TokenFacts DEF RequestOK
    <3>2. end <= NumTokens(s.req[r])
      BY DEF end
    <3> QED BY <1>5, <3>1, <3>2, LimitsAssumption
  <2>4. CanReserve(w.kv, r, end)
    BY <1>5, <2>2, <2>3, PoolOfOne
  <2> QED BY <1>7, <2>4 DEF w
<1>13. CASE enough = {}
  <2> HIDE DEF enough, w
  <2>1. /\ Steady(w, GuestOf(s, r), NoneGiven) /\ ItemsOK(w, s.items) /\ w.items = s.items
        /\ Onward(s, w)
        /\ Len(w.running) \in Nat /\ Len(s.running) \in Nat /\ Len(w.running) <= Len(s.running)
        /\ r \in Live(w.kv) /\ w.req[r] = s.req[r] /\ r \in DOMAIN w.req
    BY <1>5, <1>8 DEF EvictedTo, Onward
  <2>2. s.req[r].status = "running" <=> r \in ToSet(s.running)
    <3>1. Standing(s, r, GuestOf(s, r), NoneGiven) /\ Queue(s.running)
      BY <1>4 DEF Steady, Frame
    <3>2. Listed(s.running, r) <=> r \in ToSet(s.running)
      BY <3>1, QueueElements
    <3> QED BY <1>5, <3>1, <3>2 DEF Standing
  <2>3. s.items # <<>>
    BY <1>12, <1>13
  <2>4. CASE s.req[r].status = "running"
    <3>1. GuestOf(s, r) = {}
      BY <2>4 DEF GuestOf
    <3>2. t = PressurePreempted(w, r)
      BY <1>1, <1>13, <2>2, <2>4
    <3>3. /\ Steady(t, {}, NoneGiven) /\ OthersKept(w, t, r) /\ Onward(w, t)
          /\ Len(t.running) <= Len(w.running) /\ Len(t.running) \in Nat
          /\ t.items = w.items
      BY <2>1, <2>4, <3>1, <3>2, PressureOK
    <3>4. ItemsOK(t, t.items)
      BY <2>1, <3>3, ItemsKept
    <3>5. Onward(s, t)
      BY <2>1, <3>3, OnwardIsTransitive
    <3>6. Len(t.running) <= Len(s.running) + (IF s.req[r].status = "waiting" THEN 1 ELSE 0)
      BY <2>1, <2>4, <3>3
    <3> QED BY <2>1, <2>3, <3>3, <3>4, <3>5, <3>6, Zenon DEF SelectedFrom
  <2>5. CASE s.req[r].status = "waiting"
    <3>1. GuestOf(s, r) \subseteq {r}
      BY DEF GuestOf
    <3>2. t = Detached(w, r)
      BY <1>1, <1>13, <2>2, <2>5
    <3>3. /\ Steady(t, {}, NoneGiven) /\ OthersKept(w, t, r)
          /\ DOMAIN t.req = DOMAIN w.req /\ t.req[r].status = "waiting"
          /\ t.running = w.running /\ t.waiting = w.waiting
          /\ t.budget = w.budget /\ t.items = w.items /\ t.preempted = w.preempted
          /\ t.blocked = w.blocked
      BY <2>1, <2>5, <3>1, <3>2, DetachedOK
    <3>4. ItemsOK(t, t.items)
      BY <2>1, <3>3, ItemsKept
    <3>5. Onward(w, t)
      BY <2>1, <2>5, <3>3, OnwardFromOthers
    <3>6. Onward(s, t)
      BY <2>1, <3>5, OnwardIsTransitive
    <3>7. Len(t.running) <= Len(s.running) + (IF s.req[r].status = "waiting" THEN 1 ELSE 0)
      BY <2>1, <2>5, <3>3
    <3> QED BY <2>1, <2>3, <3>3, <3>4, <3>6, <3>7, Zenon DEF SelectedFrom
  <2> QED BY <1>6, <2>4, <2>5
<1> QED BY <1>11, <1>13

LEMMA LeastFacts ==
  ASSUME NEW a, a \in Int, NEW b, b \in Int
  PROVE  /\ Least(a, b) \in Int /\ Least(a, b) <= a /\ Least(a, b) <= b
         /\ Least(a, b) = a \/ Least(a, b) = b
BY DEF Least

LEMMA MostFacts ==
  ASSUME NEW a, a \in Int, NEW b, b \in Int
  PROVE  /\ Most(a, b) \in Int /\ Most(a, b) >= a /\ Most(a, b) >= b
         /\ Most(a, b) = a \/ Most(a, b) = b
BY DEF Most

\* What is left to do for a request.
LEMMA RemainingFacts ==
  ASSUME NEW q, RequestOK(q)
  PROVE  /\ Remaining(q) \in Int /\ Remaining(q) <= MaxModelLen - NumTokens(q)
         /\ AdmissionEnd(q) \in Nat /\ AdmissionEnd(q) <= MaxModelLen
<1> DEFINE n == NumTokens(q)
           m == q.max
           l == Len(q.out)
           x == Remaining(q)
           y == IF x # 0 THEN 1 ELSE 0
<1>1. n \in Nat /\ m \in Nat /\ l \in Nat /\ MaxModelLen \in Nat
  BY TokenFacts, LimitsAssumption
<1>2. x = Least(m - l, MaxModelLen - n)
  BY DEF Remaining
<1>3. AdmissionEnd(q) = Least(MaxModelLen, n + y)
  BY DEF AdmissionEnd
<1> HIDE DEF n, m, l, x
<1>4. m - l \in Int /\ MaxModelLen - n \in Int
  BY <1>1
<1>5. x \in Int /\ x <= MaxModelLen - n
  BY <1>2, <1>4, LeastFacts
<1>6. n + y \in Nat
  BY <1>1
<1> HIDE DEF y
<1>7. AdmissionEnd(q) \in Nat /\ AdmissionEnd(q) <= MaxModelLen
  BY <1>1, <1>3, <1>6 DEF Least
<1> QED BY <1>5, <1>7 DEF n, x

\* The same selection, seen from before a lookup and a reservation.
LEMMA SelectedFromEarlier ==
  ASSUME NEW s, NEW v, NEW t, NEW r, NEW want, NEW phase, NEW count,
         count \in Nat, want \in Nat, count <= want,
         SelectedFrom(v, t, r, count, phase), Onward(s, v), v.items = s.items,
         v.running = s.running, v.req[r].status = s.req[r].status
  PROVE  SelectedFrom(s, t, r, want, phase)
<1>1. Onward(s, t)
  BY OnwardIsTransitive DEF SelectedFrom
<1>2. \/ t.items = s.items
      \/ \E item \in Item : /\ t.items = Append(s.items, item)
                            /\ item.rid = r /\ item.count <= want /\ item.phase = phase
                            /\ item.drafts = 0
  <2>1. CASE t.items = v.items
    BY <2>1
  <2>2. ASSUME NEW item \in Item, t.items = Append(v.items, item),
               item.rid = r, item.count <= count, item.phase = phase, item.drafts = 0
        PROVE  item.count <= want
    <3>1. item.count \in Nat
      BY DEF Item
    <3> QED BY <2>2, <3>1
  <2> QED BY <2>1, <2>2 DEF SelectedFrom
<1> QED BY <1>1, <1>2, Zenon DEF SelectedFrom

\* A batch that has begun stays begun.
LEMMA SelectedMore ==
  ASSUME NEW s, ItemsOK(s, s.items), s.items # <<>>, NEW t, NEW r, NEW want, NEW phase,
         SelectedFrom(s, t, r, want, phase)
  PROVE  t.items # <<>>
<1> DEFINE old == s.items
           new == t.items
<1>1. old \in Seq(Item) /\ old # <<>> /\ (new = old \/ \E item \in Item : new = Append(old, item))
  BY DEF ItemsOK, SelectedFrom
<1> HIDE DEF old, new
<1>2. new # <<>>
  BY <1>1
<1> QED BY <1>2 DEF new

\* Nothing was selected.
LEMMA SelectedNothing ==
  ASSUME NEW s, NEW t, NEW r, NEW want, NEW phase,
         Steady(t, {}, NoneGiven), Onward(s, t), ItemsOK(t, s.items), t.items = s.items,
         Len(s.running) \in Nat, Len(t.running) \in Nat, Len(t.running) <= Len(s.running)
  PROVE  SelectedFrom(s, t, r, want, phase)
<1> DEFINE x == IF s.req[r].status = "waiting" THEN 1 ELSE 0
           m == Len(s.running)
           n == Len(t.running)
<1>1. n <= m + x
  <2>1. x \in {0, 1}
    OBVIOUS
  <2> HIDE DEF x, m, n
  <2>2. m \in Nat /\ n \in Nat /\ n <= m
    BY DEF m, n
  <2> QED BY <2>1, <2>2
<1> QED BY <1>1, Zenon DEF SelectedFrom

\* With nothing selected yet, r runs or has the pool to itself.
Starts(s, r) ==
  /\ s.items = <<>> /\ r \notin s.preempted
  /\ s.req[r].status = "running" \/ s.running = <<>>

LEMMA AppendedOK ==
  ASSUME NEW s, Steady(s, {}, NoneGiven), ItemsOK(s, s.items),
         NEW r \in DOMAIN s.req, ~Chosen(s.items, r),
         NEW want, want \in Nat \ {0}, NEW phase \in {"decode", "prefill"},
         phase = "decode" => r \in s.preempted \/ (s.req[r].status = "running" /\ ~IsPrefill(s.req[r])),
         NEW t, t = Appended(s, r, want, phase)
  PROVE  SelectedFrom(s, t, r, want, phase) /\ (Starts(s, r) => t.items # <<>>)
<1>1. r \in Ids /\ NoneGiven[r] = <<>> /\ Len(s.running) \in Nat
  <2>1. r \in Ids /\ Queue(s.running)
    BY DEF Steady, Frame
  <2> QED BY <2>1, QueueElements DEF NoneGiven
<1>2. Standing(s, r, {}, NoneGiven)
  BY <1>1 DEF Steady
<1>3. RequestOK(s.req[r]) /\ s.req[r].status \in {"waiting", "running"}
  BY <1>2, TokenFacts DEF Standing
<1>4. CASE r \in s.preempted
  <2>1. t = s
    BY <1>4 DEF Appended
  <2>2. Onward(s, s)
    BY OnwardIsReflexive
  <2>3. Len(s.running) <= Len(s.running)
    BY <1>1
  <2>4. ~Starts(s, r)
    BY <1>4 DEF Starts
  <2>5. SelectedFrom(s, t, r, want, phase)
    BY <1>1, <2>1, <2>2, <2>3, SelectedNothing
  <2> QED BY <2>4, <2>5
<1> DEFINE hit == AttachedTo(s, r)
           count == Least(want, NumTokens(hit.req[r]) - hit.req[r].computed)
           end == AdmissionEnd(hit.req[r])
<1>5. ASSUME r \notin s.preempted
      PROVE  /\ hit.req[r].status # "waiting" => t = WithRoom(hit, r, count, phase)
             /\ hit.req[r].status = "waiting" =>
                  IF CanReserve(hit.kv, r, end) THEN t = WithRoom(Reserving(hit, r, end), r, count, phase)
                  ELSE t = Detached(hit, r)
  BY <1>5 DEF Appended, Reserving
<1>6. ASSUME NEW guests, Steady(hit, guests, NoneGiven), r \in Live(hit.kv)
      PROVE  /\ count \in Nat \ {0} /\ count <= want
             /\ hit.req[r].computed + count <= NumTokens(hit.req[r])
             /\ RequestOK(hit.req[r])
  <2> DEFINE n == NumTokens(hit.req[r])
             c == hit.req[r].computed
  <2> HIDE DEF hit
  <2>1. c \in Nat /\ n \in Nat /\ c < n /\ RequestOK(hit.req[r])
    BY <1>1, <1>6, ComputedFacts
  <2>2. count = Least(want, n - c)
    OBVIOUS
  <2> HIDE DEF n, c, count
  <2>3. count \in Nat \ {0} /\ count <= want /\ c + count <= n
    BY <2>1, <2>2 DEF Least
  <2> QED BY <2>1, <2>3 DEF n, c
<1> HIDE DEF count, end
<1>7. CASE r \notin s.preempted /\ s.req[r].status = "running"
  <2>1. r \in Live(s.kv)
    BY <1>2, <1>7 DEF Standing
  <2>2. hit = s
    BY <2>1 DEF AttachedTo
  <2> HIDE DEF hit
  <2>3. GuestOf(s, r) = {}
    BY <1>7 DEF GuestOf
  <2>4. /\ count \in Nat \ {0} /\ count <= want
        /\ s.req[r].computed + count <= NumTokens(s.req[r])
    BY <1>6, <2>1, <2>2
  <2>5. t = WithRoom(s, r, count, phase)
    BY <1>5, <1>7, <2>2
  <2>6. phase = "decode" => ~IsPrefill(s.req[r])
    BY <1>7
  <2>7. SelectedFrom(s, t, r, count, phase) /\ (s.items = <<>> => t.items # <<>>)
    BY <2>1, <2>3, <2>4, <2>5, <2>6, WithRoomOK, Zenon
  <2>8. Onward(s, s)
    BY OnwardIsReflexive
  <2>9. SelectedFrom(s, t, r, want, phase)
    BY <2>4, <2>7, <2>8, SelectedFromEarlier
  <2> QED BY <2>7, <2>9 DEF Starts
<1>8. CASE r \notin s.preempted /\ s.req[r].status = "waiting"
  <2>1. /\ Steady(hit, {r}, NoneGiven) /\ OthersKept(s, hit, r)
        /\ DOMAIN hit.req = DOMAIN s.req /\ r \in Live(hit.kv) /\ hit.req[r].status = "waiting"
        /\ hit.running = s.running /\ hit.waiting = s.waiting
        /\ hit.budget = s.budget /\ hit.items = s.items /\ hit.preempted = s.preempted
        /\ hit.blocked = s.blocked
    <3> DEFINE none == NoneGiven
    <3>1. hit = AttachedTo(s, r) /\ s.req[r].status = "waiting" /\ none[r] = <<>> /\ Steady(s, {}, none)
      BY <1>1, <1>8
    <3> HIDE DEF hit, none
    <3>2. Steady(hit, {r}, none) /\ OthersKept(s, hit, r)
      BY <3>1, AttachedToOK
    <3>3. /\ DOMAIN hit.req = DOMAIN s.req /\ r \in Live(hit.kv) /\ hit.req[r].status = "waiting"
          /\ hit.running = s.running /\ hit.waiting = s.waiting
          /\ hit.budget = s.budget /\ hit.items = s.items /\ hit.preempted = s.preempted
          /\ hit.blocked = s.blocked
      BY <3>1, <3>2, AttachedToOK
    <3> QED BY <3>2, <3>3 DEF none
  <2> HIDE DEF hit
  <2>2. GuestOf(hit, r) = {r}
    BY <2>1 DEF GuestOf
  <2>3. /\ count \in Nat \ {0} /\ count <= want
        /\ hit.req[r].computed + count <= NumTokens(hit.req[r]) /\ RequestOK(hit.req[r])
    BY <1>6, <2>1
  <2>4. end \in Nat /\ end <= MaxModelLen
    BY <2>3, RemainingFacts DEF end
  <2>5. ItemsOK(hit, s.items)
    BY <2>1, ItemsKept
  <2>6. Onward(s, hit)
    BY <1>8, <2>1, OnwardFromOthers
  <2>7. phase = "prefill"
    BY <1>8
  <2>8. CASE CanReserve(hit.kv, r, end)
    <3> DEFINE v == Reserving(hit, r, end)
    <3>1. v = Reserving(hit, r, end)
      OBVIOUS
    <3> HIDE DEF v
    <3>2. /\ Steady(v, {r}, NoneGiven) /\ OthersKept(hit, v, r)
          /\ v.req = hit.req /\ r \in Live(v.kv)
          /\ v.running = hit.running /\ v.waiting = hit.waiting /\ v.budget = hit.budget /\ v.items = hit.items
          /\ v.preempted = hit.preempted /\ v.blocked = hit.blocked
      BY <1>1, <2>1, <2>4, <2>8, <3>1, ReservationOK
    <3>3. GuestOf(v, r) = {r}
      BY <2>1, <3>2 DEF GuestOf
    <3>4. ItemsOK(v, v.items) /\ ~Chosen(v.items, r)
      <4>1. ItemsOK(v, s.items)
        BY <2>5, <3>2, ItemsKept
      <4> QED BY <2>1, <3>2, <4>1
    <3>5. t = WithRoom(v, r, count, phase)
      BY <1>5, <1>8, <2>1, <2>8, <3>1
    <3>6. v.req[r].computed + count <= NumTokens(v.req[r])
      BY <2>3, <3>2
    <3>7. SelectedFrom(v, t, r, count, phase) /\ (v.items = <<>> => t.items # <<>>)
      BY <2>3, <2>7, <3>2, <3>3, <3>4, <3>5, <3>6, WithRoomOK, Zenon
    <3>8. Onward(hit, v)
      BY <3>2, OnwardIsReflexive
    <3>9. Onward(s, v)
      BY <2>6, <3>8, OnwardIsTransitive
    <3>10. SelectedFrom(s, t, r, want, phase)
      BY <1>8, <2>1, <2>3, <3>2, <3>7, <3>9, SelectedFromEarlier
    <3>11. Starts(s, r) => v.items = <<>>
      BY <2>1, <3>2 DEF Starts
    <3> QED BY <3>7, <3>10, <3>11
  <2>9. CASE ~CanReserve(hit.kv, r, end)
    <3>1. t = Detached(hit, r)
      BY <1>5, <1>8, <2>1, <2>9
    <3>2. /\ Steady(t, {}, NoneGiven) /\ OthersKept(hit, t, r)
          /\ DOMAIN t.req = DOMAIN hit.req /\ t.req[r].status = "waiting"
          /\ t.running = hit.running /\ t.waiting = hit.waiting
          /\ t.budget = hit.budget /\ t.items = hit.items /\ t.preempted = hit.preempted
          /\ t.blocked = hit.blocked
      BY <2>1, <3>1, DetachedOK
    <3>3. ItemsOK(t, s.items)
      BY <2>5, <3>2, ItemsKept
    <3>4. Onward(hit, t)
      BY <2>1, <3>2, OnwardFromOthers
    <3>5. Onward(s, t)
      BY <2>6, <3>4, OnwardIsTransitive
    <3>6. Len(s.running) <= Len(s.running)
      BY <1>1
    <3>7. SelectedFrom(s, t, r, want, phase)
      BY <1>1, <2>1, <3>2, <3>3, <3>5, <3>6, SelectedNothing
    <3>8. ASSUME Starts(s, r) PROVE FALSE
      <4>1. hit.running = <<>>
        BY <1>8, <2>1, <3>8 DEF Starts
      <4>2. ASSUME NEW x \in Live(hit.kv) PROVE x \in {r}
        <5>1. x \in Ids /\ Standing(hit, x, {r}, NoneGiven)
          BY <2>1, <4>2, Zenon DEF Steady, Frame
        <5>2. ~Listed(hit.running, x)
          BY <4>1 DEF Listed
        <5> QED BY <4>2, <5>1, <5>2 DEF Standing
      <4>3. Live(hit.kv) \subseteq {r} /\ TablesOK(hit.kv, Vocabulary, Salts) /\ r \in Live(hit.kv)
        BY <2>1, <4>2 DEF Steady, Frame
      <4>4. CanReserve(hit.kv, r, end)
        BY <2>4, <4>3, PoolOfOne
      <4> QED BY <2>9, <4>4
    <3> QED BY <3>7, <3>8
  <2> QED BY <2>8, <2>9
<1> QED BY <1>3, <1>4, <1>7, <1>8

\* A request preempted in this step is not selected again.
LEMMA AppendedSkipped ==
  ASSUME NEW s, NEW r, r \in s.preempted, NEW want, NEW phase
  PROVE  Appended(s, r, want, phase) = s
BY DEF Appended

\* Noting whom was served last makes no difference to what was selected.
LEMMA SelectedSame ==
  ASSUME NEW s, NEW t, NEW r, NEW want, NEW phase, SelectedFrom(s, t, r, want, phase),
         NEW u, SameBooks(t, u), u.items = t.items, u.budget = t.budget, u.preempted = t.preempted
  PROVE  SelectedFrom(s, u, r, want, phase)
<1>1. Steady(u, {}, NoneGiven) /\ ItemsOK(u, u.items)
  BY SameBooksOK DEF SelectedFrom
<1>2. u.req = t.req /\ u.running = t.running /\ u.waiting = t.waiting
  BY DEF SameBooks
<1>3. Onward(s, u)
  <2>1. Onward(t, u)
    BY <1>2, OnwardIsReflexive
  <2> QED BY <2>1, OnwardIsTransitive DEF SelectedFrom
<1> QED BY <1>1, <1>2, <1>3, Zenon DEF SelectedFrom

\* A rotation has the same elements.
LEMMA RotateOK ==
  ASSUME NEW list, Queue(list), NEW last, NEW new, new = RotateAfter(list, last)
  PROVE  Queue(new) /\ Len(new) = Len(list) /\ \A x : Listed(new, x) <=> Listed(list, x)
<1> DEFINE k == CHOOSE i \in 1 .. Len(list) : list[i] = last
           n == Len(list)
<1>1. list \in Seq(Ids) /\ n \in Nat /\ DistinctList(list)
  BY DEF Queue
<1>2. CASE last \notin ToSet(list)
  <2>1. new = list
    BY <1>2 DEF RotateAfter
  <2> QED BY <2>1
<1>3. CASE last \in ToSet(list)
  <2>1. k \in 1 .. n
    <3>1. \E i \in 1 .. Len(list) : list[i] = last
      BY <1>1, <1>3, QueueElements DEF Listed
    <3> QED BY <3>1
  <2>2. new = SubSeq(list, k + 1, n) \o SubSeq(list, 1, k)
    BY <1>3, Zenon DEF RotateAfter
  <2> HIDE DEF k
  <2> DEFINE a == SubSeq(list, k + 1, n)
             b == SubSeq(list, 1, k)
             j == n - k
  <2>3. /\ a \in Seq(Ids) /\ Len(a) = j /\ j \in Nat /\ k \in Nat /\ k <= n
        /\ \A i \in 1 .. j : a[i] = list[k + i]
    BY <1>1, <2>1
  <2>4. /\ b \in Seq(Ids) /\ Len(b) = k /\ \A i \in 1 .. k : b[i] = list[i]
    BY <1>1, <2>1
  <2> HIDE DEF a, b, n
  <2>5. new \in Seq(Ids) /\ Len(new) = j + k
    BY <2>2, <2>3, <2>4, SMTT(30) DEF a, b
  <2>6. \A i \in 1 .. j : new[i] = list[k + i]
    BY <2>2, <2>3, <2>4 DEF a, b
  <2>7. \A i \in j + 1 .. n : new[i] = list[i - j]
    <3>1. n = j + k
      BY <1>1, <2>3
    <3>2. \A i \in j + 1 .. j + k : (a \o b)[i] = b[i - j] /\ i - j \in 1 .. k
      BY <2>3, <2>4
    <3> QED BY <2>2, <2>3, <2>4, <3>1, <3>2, Zenon DEF a, b
  <2>8. Len(new) = n
    BY <1>1, <2>3, <2>5
  <2> HIDE DEF j
  <2>9. n \in Nat /\ j \in Nat /\ k \in 1 .. n /\ n = j + k
    BY <1>1, <2>1, <2>3 DEF j
  <2> DEFINE At(i) == IF i <= j THEN k + i ELSE i - j
  <2>10. \A i \in 1 .. n : At(i) \in 1 .. n /\ new[i] = list[At(i)]
    <3>1. \A i \in 1 .. n : i \in 1 .. j \/ i \in j + 1 .. n
      BY <2>9
    <3>2. \A i \in 1 .. j : At(i) \in 1 .. n /\ new[i] = list[At(i)]
      BY <2>6, <2>9
    <3>3. \A i \in j + 1 .. n : At(i) \in 1 .. n /\ new[i] = list[At(i)]
      BY <2>7, <2>9
    <3> QED BY <3>1, <3>2, <3>3
  <2>11. \A i, m \in 1 .. n : At(i) = At(m) => i = m
    BY <2>9
  <2>12. \A m \in 1 .. n : \E i \in 1 .. n : At(i) = m
    <3> TAKE m \in 1 .. n
    <3>1. CASE m > k
      <4>1. m - k \in 1 .. n /\ At(m - k) = m
        BY <2>9, <3>1
      <4> QED BY <4>1
    <3>2. CASE ~(m > k)
      <4>1. m + j \in 1 .. n /\ At(m + j) = m
        BY <2>9, <3>2
      <4> QED BY <4>1
    <3> QED BY <3>1, <3>2
  <2> HIDE DEF At
  <2>13. DistinctList(new)
    <3> SUFFICES ASSUME NEW i \in 1 .. n, NEW m \in 1 .. n, new[i] = new[m] PROVE i = m
      BY <2>8 DEF DistinctList
    <3>1. list[At(i)] = list[At(m)] /\ At(i) \in 1 .. n /\ At(m) \in 1 .. n
      BY <2>10
    <3>2. At(i) = At(m)
      BY <1>1, <3>1 DEF DistinctList, n
    <3> QED BY <2>11, <3>2
  <2>14. \A x : Listed(new, x) => Listed(list, x)
    BY <2>8, <2>10 DEF Listed, n
  <2>15. ASSUME NEW x, Listed(list, x) PROVE Listed(new, x)
    <3>1. PICK m \in 1 .. n : list[m] = x
      BY <2>15 DEF Listed, n
    <3>2. PICK i \in 1 .. n : At(i) = m
      BY <2>12
    <3> QED BY <2>8, <2>10, <3>1, <3>2 DEF Listed
  <2> QED BY <2>5, <2>8, <2>13, <2>14, <2>15 DEF Queue, n
<1> QED BY <1>2, <1>3

-----------------------------------------------------------------------------
(* What the batch costs.                                                    *)

Phases == {"decode", "prefill"}
Cost(item, phases) == IF item.phase \in phases THEN item.count + item.drafts ELSE 0
Costs(items, phases) == [i \in 1 .. Len(items) |-> Cost(items[i], phases)]
Used(items, phases) == Total(Costs(items, phases))

LEMMA CostsFacts ==
  ASSUME NEW items, items \in Seq(Item), NEW phases
  PROVE  /\ Costs(items, phases) \in Seq(Nat) /\ Len(Costs(items, phases)) = Len(items)
         /\ Len(items) \in Nat /\ \A i \in 1 .. Len(items) : items[i] \in Item
         /\ \A i \in 1 .. Len(items) : Costs(items, phases)[i] = Cost(items[i], phases)
         /\ Used(items, phases) \in Nat
<1>1. Len(items) \in Nat /\ \A i \in 1 .. Len(items) : items[i] \in Item
  OBVIOUS
<1>2. \A item \in Item : Cost(item, phases) \in Nat
  BY DEF Item, Cost
<1>3. \A i \in 1 .. Len(items) : Cost(items[i], phases) \in Nat
  BY <1>1, <1>2
<1> DEFINE n == Len(items)
           c == Costs(items, phases)
<1>4. c = [i \in 1 .. n |-> Cost(items[i], phases)] /\ n \in Nat /\ \A i \in 1 .. n : Cost(items[i], phases) \in Nat
  BY <1>1, <1>3 DEF Costs
<1> HIDE DEF c, n
<1>5. c \in Seq(Nat) /\ Len(c) = n /\ \A i \in 1 .. n : c[i] = Cost(items[i], phases)
  BY <1>4
<1>6. Total(c) \in Nat
  BY <1>5, TotalIsNatural
<1> QED BY <1>1, <1>5, <1>6 DEF c, n, Used

LEMMA UsedAppended ==
  ASSUME NEW items, items \in Seq(Item), NEW item, item \in Item, NEW phases,
         NEW new, new = Append(items, item)
  PROVE  /\ new \in Seq(Item)
         /\ Cost(item, phases) \in Nat
         /\ Used(new, phases) = Used(items, phases) + Cost(item, phases)
<1> DEFINE c == Costs(items, phases)
           d == Costs(new, phases)
           x == Cost(item, phases)
<1>1. /\ new \in Seq(Item) /\ Len(new) = Len(items) + 1 /\ Len(items) \in Nat
      /\ new[Len(items) + 1] = item /\ \A i \in 1 .. Len(items) : new[i] = items[i]
  OBVIOUS
<1>2. /\ c \in Seq(Nat) /\ Len(c) = Len(items) /\ \A i \in 1 .. Len(items) : c[i] = Cost(items[i], phases)
  BY CostsFacts
<1>3. /\ d \in Seq(Nat) /\ Len(d) = Len(new) /\ \A i \in 1 .. Len(new) : d[i] = Cost(new[i], phases)
  BY <1>1, CostsFacts, Zenon
<1>4. x \in Nat
  BY DEF Item, Cost
<1> HIDE DEF c, d, x
<1>5. /\ Append(c, x) \in Seq(Nat) /\ Len(Append(c, x)) = Len(c) + 1
      /\ Append(c, x)[Len(c) + 1] = x /\ \A i \in 1 .. Len(c) : Append(c, x)[i] = c[i]
  BY <1>2, <1>4
<1>6. \A i \in 1 .. Len(new) : d[i] = Append(c, x)[i]
  <2> TAKE i \in 1 .. Len(new)
  <2>1. CASE i = Len(items) + 1
    BY <1>1, <1>2, <1>3, <1>5, <2>1, Zenon DEF x
  <2>2. CASE i \in 1 .. Len(items)
    <3>1. d[i] = Cost(new[i], phases)
      BY <1>3
    <3> QED BY <1>1, <1>2, <1>5, <2>2, <3>1
  <2>3. i = Len(items) + 1 \/ i \in 1 .. Len(items)
    BY <1>1
  <2> QED BY <2>1, <2>2, <2>3, Zenon
<1>7. d = Append(c, x)
  BY <1>1, <1>2, <1>3, <1>5, <1>6, SeqEqual, Zenon
<1>8. Total(d) = Total(c) + x
  BY <1>2, <1>4, <1>7, TotalAppended
<1> QED BY <1>1, <1>4, <1>8 DEF Used, c, d, x

LEMMA BudgetLeftIs ==
  ASSUME NEW s, s.items \in Seq(Item)
  PROVE  BudgetLeft(s) = s.budget - Used(s.items, Phases) /\ Used(s.items, Phases) \in Nat
<1>1. Len(s.items) \in Nat /\ \A i \in 1 .. Len(s.items) : s.items[i] \in Item
  OBVIOUS
<1>2. \A item \in Item : item.phase \in Phases
  BY DEF Item, Phases
<1>3. \A i \in 1 .. Len(s.items) : s.items[i].phase \in Phases
  BY <1>1, <1>2
<1>4. [i \in 1 .. Len(s.items) |-> s.items[i].count + s.items[i].drafts] = Costs(s.items, Phases)
  BY <1>3 DEF Costs, Cost
<1>5. Used(s.items, Phases) \in Nat
  BY CostsFacts
<1> QED BY <1>4, <1>5 DEF BudgetLeft, Used

\* Entries of another phase cost nothing.
LEMMA NoneUsed ==
  ASSUME NEW items, items \in Seq(Item), NEW phases,
         \A i \in 1 .. Len(items) : items[i].phase \notin phases
  PROVE  Used(items, phases) = 0
<1>1. /\ Costs(items, phases) \in Seq(Nat) /\ Len(Costs(items, phases)) = Len(items)
      /\ \A i \in 1 .. Len(items) : Costs(items, phases)[i] = Cost(items[i], phases)
  BY CostsFacts
<1>2. \A i \in 1 .. Len(items) : Cost(items[i], phases) = 0
  BY DEF Cost
<1> QED BY <1>1, <1>2, TotalOfZeros DEF Used

LEMMA ChosenAppended ==
  ASSUME NEW items, items \in Seq(Item), NEW item, item \in Item,
         NEW new, new = Append(items, item)
  PROVE  /\ \A x : Chosen(new, x) => Chosen(items, x) \/ x = item.rid
         /\ \A i \in 1 .. Len(new) : new[i] = item \/ \E j \in 1 .. Len(items) : new[i] = items[j]
<1>1. /\ Len(new) = Len(items) + 1 /\ Len(items) \in Nat
      /\ new[Len(items) + 1] = item /\ \A i \in 1 .. Len(items) : new[i] = items[i]
  OBVIOUS
<1>2. \A i \in 1 .. Len(new) : i = Len(items) + 1 \/ i \in 1 .. Len(items)
  BY <1>1
<1>3. \A i \in 1 .. Len(new) : new[i] = item \/ \E j \in 1 .. Len(items) : new[i] = items[j]
  BY <1>1, <1>2
<1>4. \A x : Chosen(new, x) => Chosen(items, x) \/ x = item.rid
  BY <1>3 DEF Chosen
<1> QED BY <1>3, <1>4

-----------------------------------------------------------------------------
(* Decodes.                                                                 *)

DecodeNext(decodes, t, i) == DecodeAppended(t, decodes[i])

\* The first k decodes have been considered.
DecodesAppended(s, decodes, k) == Loop(LAMBDA t, i : DecodeAppended(t, decodes[i]), s, k)

DecodeRun(s, decodes, k, h) ==
  /\ h[0] = s
  /\ \A i \in 1 .. k : h[i] = DecodeNext(decodes, h[i - 1], i)
  /\ h[k] = DecodesAppended(s, decodes, k)

\* The passes of the decodes.
LEMMA DecodePasses ==
  ASSUME NEW s, NEW decodes, NEW k, k \in Nat
  PROVE  \E h : DecodeRun(s, decodes, k, h)
<1> DEFINE Passes(n, g) ==
             g = [i \in 0 .. n |-> IF i = 0 THEN s ELSE DecodeNext(decodes, g[i - 1], i)]
           T == {n \in Nat : \E g : Passes(n, g)}
<1>1. 0 \in T
  <2>1. Passes(0, [i \in 0 .. 0 |-> s])
    OBVIOUS
  <2> QED BY <2>1, Zenon
<1>2. ASSUME NEW n \in Nat, n \in T PROVE n + 1 \in T
  <2>1. PICK g : Passes(n, g)
    BY <1>2
  <2> DEFINE f == [i \in 0 .. n + 1 |-> IF i <= n THEN g[i] ELSE DecodeNext(decodes, g[n], n + 1)]
  <2> HIDE DEF DecodeNext
  <2>2. Passes(n + 1, f)
    BY <2>1
  <2> HIDE DEF f, Passes
  <2> QED BY <2>2
<1>3. k \in T
  <2> HIDE DEF T
  <2> QED BY <1>1, <1>2, Induction
<1>4. \E g : Passes(k, g)
  BY <1>3
<1> DEFINE g == CHOOSE g : Passes(k, g)
<1>5. Passes(k, g)
  BY <1>4, Zenon
<1>6. DecodesAppended(s, decodes, k) = g[k]
  BY Zenon DEF DecodesAppended, Loop, DecodeNext
<1> DEFINE n == k
<1> HIDE DEF g, n
<1>7. n \in Nat /\ Passes(n, g)
  BY <1>5 DEF n
<1>8. g[0] = s /\ \A i \in 1 .. n : g[i] = DecodeNext(decodes, g[i - 1], i)
  BY <1>7
<1>9. DecodeRun(s, decodes, k, g)
  BY <1>6, <1>8 DEF n, DecodeRun
<1> QED BY <1>9

\* Running requests whose prompt is computed.
DecodesOf(s, decodes) ==
  /\ Queue(decodes)
  /\ \A i \in 1 .. Len(decodes) :
       /\ decodes[i] \in DOMAIN s.req /\ s.req[decodes[i]].status = "running"
       /\ ~IsPrefill(s.req[decodes[i]])

OnlyDecodes(items) == \A i \in 1 .. Len(items) : items[i].phase = "decode"

\* Nothing has happened in this step.
Untouched(s) == s.items = <<>> /\ s.preempted = {}

DecodesTo(s, decodes, k, t) ==
  /\ Steady(t, {}, NoneGiven) /\ ItemsOK(t, t.items) /\ Onward(s, t)
  /\ OnlyDecodes(t.items) /\ Used(t.items, Phases) <= k
  /\ \A x : Chosen(t.items, x) => \E i \in 1 .. k : decodes[i] = x
  /\ Len(s.running) \in Nat /\ Len(t.running) \in Nat /\ Len(t.running) <= Len(s.running)
  /\ Untouched(s) => (k = 0 /\ t = s) \/ t.items # <<>>

\* A decode that was or was not selected.
LEMMA DecodeAppendedOK ==
  ASSUME NEW s, Steady(s, {}, NoneGiven), ItemsOK(s, s.items),
         NEW r \in DOMAIN s.req, ~Chosen(s.items, r),
         r \in s.preempted \/ (s.req[r].status = "running" /\ ~IsPrefill(s.req[r])),
         NEW t, t = DecodeAppended(s, r)
  PROVE  /\ SelectedFrom(s, t, r, 1, "decode")
         /\ Len(s.running) \in Nat /\ Len(t.running) \in Nat /\ Len(t.running) <= Len(s.running)
         /\ Starts(s, r) => t.items # <<>>
<1> DEFINE u == Appended(s, r, 1, "decode")
<1>1. t = IF r \in Selected(u) THEN [u EXCEPT !.lastDecode = r] ELSE u
  BY DEF DecodeAppended
<1>2. SelectedFrom(s, u, r, 1, "decode") /\ (Starts(s, r) => u.items # <<>>)
  <2>1. u = Appended(s, r, 1, "decode") /\ 1 \in Nat \ {0} /\ "decode" \in {"decode", "prefill"}
    OBVIOUS
  <2> HIDE DEF u
  <2> QED BY <2>1, AppendedOK
<1>3. r \in s.preempted => u = s
  BY AppendedSkipped
<1> HIDE DEF u
<1>4. Shape(u)
  BY <1>2 DEF SelectedFrom, Steady, Frame
<1>5. /\ SameBooks(u, t) /\ t.items = u.items /\ t.budget = u.budget /\ t.preempted = u.preempted
      /\ t.running = u.running
  <2>1. CASE r \in Selected(u)
    <3>1. t = [u EXCEPT !.lastDecode = r]
      BY <1>1, <2>1
    <3> QED BY <1>4, <3>1 DEF Shape, SameBooks
  <2>2. CASE r \notin Selected(u)
    BY <1>1, <1>4, <2>2 DEF SameBooks
  <2> QED BY <2>1, <2>2
<1>6. SelectedFrom(s, t, r, 1, "decode")
  BY <1>2, <1>5, SelectedSame
<1>7. Len(s.running) \in Nat /\ Len(t.running) \in Nat
  BY <1>6 DEF SelectedFrom
<1>8. Len(t.running) <= Len(s.running)
  <2>1. CASE r \in s.preempted
    BY <1>3, <1>5, <1>7, <2>1
  <2>2. CASE s.req[r].status = "running"
    <3>1. Len(t.running) <= Len(s.running) + 0
      BY <1>6, <2>2 DEF SelectedFrom
    <3> QED BY <1>7, <3>1
  <2> QED BY <2>1, <2>2
<1> QED BY <1>2, <1>5, <1>6, <1>7, <1>8

LEMMA DecodeOne ==
  ASSUME NEW s, NEW decodes, DecodesOf(s, decodes),
         NEW k, k \in Nat, k + 1 <= Len(decodes),
         NEW t, DecodesTo(s, decodes, k, t),
         NEW u, u = DecodeNext(decodes, t, k + 1)
  PROVE  DecodesTo(s, decodes, k + 1, u)
<1> DEFINE r == decodes[k + 1]
<1>1. Queue(decodes) /\ Len(decodes) \in Nat /\ k + 1 \in 1 .. Len(decodes)
  BY QueueElements DEF DecodesOf
<1>2. r \in DOMAIN s.req /\ s.req[r].status = "running" /\ ~IsPrefill(s.req[r])
  BY <1>1 DEF DecodesOf
<1>3. ~Chosen(t.items, r)
  <2> SUFFICES ASSUME Chosen(t.items, r) PROVE FALSE
    OBVIOUS
  <2>1. PICK i \in 1 .. k : decodes[i] = r
    BY DEF DecodesTo
  <2>2. i \in 1 .. Len(decodes) /\ i # k + 1
    BY <1>1
  <2> QED BY <1>1, <2>1, <2>2 DEF Queue, DistinctList
<1> HIDE DEF r
<1>4. /\ Steady(t, {}, NoneGiven) /\ ItemsOK(t, t.items) /\ Onward(s, t)
      /\ OnlyDecodes(t.items) /\ Used(t.items, Phases) <= k
      /\ Len(s.running) \in Nat /\ Len(t.running) \in Nat /\ Len(t.running) <= Len(s.running)
  BY DEF DecodesTo
<1>5. r \in DOMAIN t.req /\ (r \in t.preempted \/ (t.req[r].status = "running" /\ ~IsPrefill(t.req[r])))
  BY <1>2, <1>4 DEF Onward
<1>6. u = DecodeAppended(t, r)
  BY DEF DecodeNext, r
<1>7. /\ SelectedFrom(t, u, r, 1, "decode")
      /\ Len(t.running) \in Nat /\ Len(u.running) \in Nat /\ Len(u.running) <= Len(t.running)
      /\ Starts(t, r) => u.items # <<>>
  BY <1>3, <1>4, <1>5, <1>6, DecodeAppendedOK
<1>8. Steady(u, {}, NoneGiven) /\ ItemsOK(u, u.items) /\ Onward(s, u)
  <2>1. Steady(u, {}, NoneGiven) /\ ItemsOK(u, u.items) /\ Onward(t, u)
    BY <1>7 DEF SelectedFrom
  <2> QED BY <1>4, <2>1, OnwardIsTransitive
<1>9. t.items \in Seq(Item) /\ Used(t.items, Phases) \in Nat
  <2>1. t.items \in Seq(Item)
    BY <1>4 DEF ItemsOK
  <2> QED BY <2>1, CostsFacts
<1>10. /\ OnlyDecodes(u.items) /\ Used(u.items, Phases) <= k + 1
       /\ \A x : Chosen(u.items, x) => Chosen(t.items, x) \/ x = r
  <2>1. CASE u.items = t.items
    <3>1. Used(u.items, Phases) <= k + 1
      <4> DEFINE n == Used(t.items, Phases)
      <4>1. Used(u.items, Phases) = n /\ n <= k /\ n \in Nat
        BY <1>4, <1>9, <2>1, Zenon
      <4> HIDE DEF n
      <4> QED BY <4>1
    <3> QED BY <1>4, <2>1, <3>1
  <2>2. ASSUME NEW item, item \in Item, u.items = Append(t.items, item),
               item.rid = r, item.count <= 1, item.phase = "decode", item.drafts = 0
        PROVE  /\ OnlyDecodes(u.items) /\ Used(u.items, Phases) <= k + 1
               /\ \A x : Chosen(u.items, x) => Chosen(t.items, x) \/ x = r
    <3>1. Cost(item, Phases) <= 1 /\ Cost(item, Phases) \in Nat
      <4>1. item.count \in Nat /\ item.drafts = 0 /\ item.phase \in Phases
        BY <2>2 DEF Item, Phases
      <4> DEFINE n == item.count
      <4>2. n \in Nat /\ n <= 1
        BY <2>2, <4>1
      <4>3. Cost(item, Phases) = n + 0
        BY <4>1, Zenon DEF Cost
      <4> HIDE DEF n
      <4> QED BY <4>2, <4>3
    <3>2. Used(u.items, Phases) = Used(t.items, Phases) + Cost(item, Phases)
      BY <1>9, <2>2, UsedAppended, SMTT(30)
    <3>3. Used(u.items, Phases) <= k + 1
      BY <1>4, <1>9, <3>1, <3>2
    <3>4. /\ \A x : Chosen(u.items, x) => Chosen(t.items, x) \/ x = r
          /\ \A i \in 1 .. Len(u.items) :
               u.items[i] = item \/ \E j \in 1 .. Len(t.items) : u.items[i] = t.items[j]
      <4> DEFINE new == u.items
                 old == t.items
      <4>1. old \in Seq(Item) /\ new = Append(old, item) /\ item \in Item /\ item.rid = r
        BY <1>9, <2>2
      <4> HIDE DEF new, old
      <4>2. \A x : Chosen(new, x) => Chosen(old, x) \/ x = item.rid
        BY <4>1, ChosenAppended, Zenon
      <4>3. \A i \in 1 .. Len(new) : new[i] = item \/ \E j \in 1 .. Len(old) : new[i] = old[j]
        BY <4>1, ChosenAppended
      <4> QED BY <4>1, <4>2, <4>3 DEF new, old
    <3>5. OnlyDecodes(u.items)
      <4> DEFINE new == u.items
                 old == t.items
      <4>1. \A i \in 1 .. Len(old) : old[i].phase = "decode"
        BY <1>4, Zenon DEF OnlyDecodes
      <4>2. /\ \A i \in 1 .. Len(new) : new[i] = item \/ \E j \in 1 .. Len(old) : new[i] = old[j]
            /\ item.phase = "decode"
        BY <2>2, <3>4, Zenon
      <4> HIDE DEF new, old
      <4>3. \A i \in 1 .. Len(new) : new[i].phase = "decode"
        BY <4>1, <4>2, Zenon
      <4> QED BY <4>3, Zenon DEF OnlyDecodes, new
    <3> QED BY <3>3, <3>4, <3>5
  <2> QED BY <1>7, <2>1, <2>2, Zenon DEF SelectedFrom
<1>11. \A x : Chosen(u.items, x) => \E i \in 1 .. k + 1 : decodes[i] = x
  <2> TAKE x
  <2> SUFFICES ASSUME Chosen(u.items, x) PROVE \E i \in 1 .. k + 1 : decodes[i] = x
    OBVIOUS
  <2>1. \A i \in 1 .. k : i \in 1 .. k + 1
    OBVIOUS
  <2>2. k + 1 \in 1 .. k + 1
    OBVIOUS
  <2>3. Chosen(t.items, x) => \E i \in 1 .. k : decodes[i] = x
    BY DEF DecodesTo
  <2> QED BY <1>10, <2>1, <2>2, <2>3 DEF r
<1>12. Len(u.running) <= Len(s.running)
  BY <1>4, <1>7
<1>13. Untouched(s) => u.items # <<>>
  <2>1. CASE t.items # <<>>
    BY <1>4, <1>7, <2>1, SelectedMore
  <2>2. CASE t.items = <<>>
    <3> SUFFICES ASSUME Untouched(s) PROVE Starts(t, r)
      BY <1>7
    <3>1. t = s
      BY <2>2 DEF DecodesTo
    <3> QED BY <1>2, <3>1 DEF Untouched, Starts
  <2> QED BY <2>1, <2>2
<1> QED BY <1>4, <1>7, <1>8, <1>10, <1>11, <1>12, <1>13 DEF DecodesTo

\* What the scheduler is like while a step selects requests.
Selecting(s, t) ==
  /\ Steady(t, {}, NoneGiven) /\ ItemsOK(t, t.items) /\ Onward(s, t)
  /\ Used(t.items, Phases) \in Nat /\ Used(t.items, Phases) <= t.budget
  /\ Len(s.running) \in Nat /\ Len(t.running) \in Nat
  /\ \A x : Chosen(t.items, x) => x \in DOMAIN s.req /\ s.req[x].status = "running"

LEMMA DecodesAppendedOK ==
  ASSUME NEW s, Steady(s, {}, NoneGiven), s.items = <<>>,
         NEW decodes, DecodesOf(s, decodes), NEW k, k \in 0 .. Len(decodes)
  PROVE  DecodesTo(s, decodes, k, DecodesAppended(s, decodes, k))
<1>1. k \in Nat /\ Len(decodes) \in Nat /\ k <= Len(decodes)
  BY QueueElements DEF DecodesOf
<1>2. PICK h : DecodeRun(s, decodes, k, h)
  BY <1>1, DecodePasses, Zenon
<1>3. h[0] = s /\ h[k] = DecodesAppended(s, decodes, k)
  BY <1>2 DEF DecodeRun
<1> DEFINE T == {i \in Nat : i <= k => DecodesTo(s, decodes, i, h[i])}
<1>4. 0 \in T
  <2>1. Len(s.running) \in Nat /\ Len(s.running) <= Len(s.running)
    <3>1. Len(s.running) \in Nat
      BY QueueElements DEF Steady, Frame
    <3> QED BY <3>1
  <2>2. Onward(s, s)
    BY OnwardIsReflexive
  <2>3. s.items \in Seq(Item) /\ Len(s.items) = 0
    OBVIOUS
  <2>4. \A i \in 1 .. Len(s.items) : FALSE
    BY <2>3
  <2>5. ItemsOK(s, s.items) /\ OnlyDecodes(s.items) /\ \A x : ~Chosen(s.items, x)
    BY <2>3, <2>4 DEF ItemsOK, OnlyDecodes, Chosen
  <2>6. Used(s.items, Phases) = 0
    BY <2>3, <2>4, NoneUsed, Zenon
  <2>7. DecodesTo(s, decodes, 0, s)
    BY <2>1, <2>2, <2>5, <2>6 DEF DecodesTo
  <2> QED BY <1>3, <2>7
<1>5. ASSUME NEW i \in Nat, i \in T PROVE i + 1 \in T
  <2> SUFFICES ASSUME i + 1 <= k PROVE DecodesTo(s, decodes, i + 1, h[i + 1])
    OBVIOUS
  <2>1. i + 1 \in 1 .. k /\ (i + 1) - 1 = i /\ i <= k /\ i + 1 <= Len(decodes)
    BY <1>1
  <2>2. DecodesTo(s, decodes, i, h[i])
    BY <1>5, <2>1
  <2>3. h[i + 1] = DecodeNext(decodes, h[i], i + 1)
    BY <1>2, <2>1 DEF DecodeRun
  <2> QED BY <2>1, <2>2, <2>3, DecodeOne, Zenon
<1>6. k \in T
  <2> HIDE DEF T
  <2> QED BY <1>1, <1>4, <1>5, Induction
<1>7. DecodesTo(s, decodes, k, h[k])
  BY <1>1, <1>6
<1> QED BY <1>3, <1>7

AllFilling(s) == \A x \in DOMAIN s.req : s.req[x].status = "running" => IsPrefill(s.req[x])

\* The decodes of a step; if there are none, everyone who runs has a prompt to compute.
LEMMA WithDecodesOK ==
  ASSUME NEW s, Steady(s, {}, NoneGiven), s.items = <<>>, s.budget \in Nat,
         NEW t, t = WithDecodes(s)
  PROVE  /\ Selecting(s, t) /\ OnlyDecodes(t.items) /\ Len(t.running) <= Len(s.running)
         /\ Untouched(s) /\ s.budget # 0 => (t = s /\ AllFilling(s)) \/ t.items # <<>>
<1> DEFINE keep == {r \in DOMAIN s.req : ~IsPrefill(s.req[r])}
           list == Kept(s.running, keep)
           decodes == RotateAfter(list, s.lastDecode)
           k == Least(s.budget, Len(decodes))
<1>1. t = DecodesAppended(s, decodes, k)
  BY Zenon DEF WithDecodes, DecodesAppended
<1>2. Queue(s.running)
  BY DEF Steady, Frame
<1> HIDE DEF keep
<1>3. Queue(list) /\ \A x : Listed(list, x) <=> Listed(s.running, x) /\ x \in keep
  BY <1>2, QueueKept
<1> HIDE DEF list
<1>4. Queue(decodes) /\ \A x : Listed(decodes, x) <=> Listed(list, x)
  BY <1>3, RotateOK
<1> HIDE DEF decodes
<1>5. DecodesOf(s, decodes)
  <2> SUFFICES ASSUME NEW i \in 1 .. Len(decodes)
               PROVE  /\ decodes[i] \in DOMAIN s.req /\ s.req[decodes[i]].status = "running"
                      /\ ~IsPrefill(s.req[decodes[i]])
    BY <1>4 DEF DecodesOf
  <2> DEFINE x == decodes[i]
  <2>1. x \in Ids /\ Listed(decodes, x)
    BY <1>4, QueueElements
  <2> HIDE DEF x
  <2>2. Listed(s.running, x) /\ x \in keep
    BY <1>3, <1>4, <2>1
  <2>3. Standing(s, x, {}, NoneGiven)
    BY <2>1 DEF Steady
  <2>4. x \in DOMAIN s.req /\ s.req[x].status = "running" /\ ~IsPrefill(s.req[x])
    BY <2>2, <2>3 DEF Standing, keep
  <2> QED BY <2>4 DEF x
<1>6. k \in 0 .. Len(decodes) /\ k \in Nat /\ k <= s.budget /\ (k = 0 => Len(decodes) = 0 \/ s.budget = 0)
  <2>1. Len(decodes) \in Nat
    BY <1>4, QueueElements
  <2> DEFINE n == Len(decodes)
  <2> HIDE DEF n
  <2>2. n \in Nat /\ k = Least(s.budget, n)
    BY <2>1 DEF n
  <2>3. k \in 0 .. n /\ k \in Nat /\ k <= s.budget /\ (k = 0 => n = 0 \/ s.budget = 0)
    BY <2>2 DEF Least
  <2> QED BY <2>3 DEF n
<1> HIDE DEF k
<1>7. DecodesTo(s, decodes, k, t)
  BY <1>1, <1>5, <1>6, DecodesAppendedOK
<1>8. Used(t.items, Phases) \in Nat
  <2>1. t.items \in Seq(Item)
    BY <1>7 DEF DecodesTo, ItemsOK
  <2> QED BY <2>1, CostsFacts
<1>9. t.budget = s.budget /\ Used(t.items, Phases) <= k
  BY <1>7 DEF DecodesTo, Onward
<1>10. Used(t.items, Phases) <= t.budget
  BY <1>6, <1>8, <1>9
<1>11. \A x : Chosen(t.items, x) => x \in DOMAIN s.req /\ s.req[x].status = "running"
  <2> SUFFICES ASSUME NEW x, Chosen(t.items, x) PROVE x \in DOMAIN s.req /\ s.req[x].status = "running"
    OBVIOUS
  <2>1. PICK i \in 1 .. k : decodes[i] = x
    BY <1>7 DEF DecodesTo
  <2>2. i \in 1 .. Len(decodes)
    <3>1. Len(decodes) \in Nat
      BY <1>4, QueueElements
    <3> QED BY <1>6, <3>1
  <2> QED BY <1>5, <2>1, <2>2 DEF DecodesOf
<1>12. ASSUME Untouched(s), s.budget # 0, t.items = <<>> PROVE t = s /\ AllFilling(s)
  <2>1. k = 0 /\ t = s
    BY <1>7, <1>12 DEF DecodesTo
  <2>2. Len(decodes) = 0
    BY <1>6, <1>12, <2>1
  <2>3. ASSUME NEW x \in DOMAIN s.req, s.req[x].status = "running", ~IsPrefill(s.req[x]) PROVE FALSE
    <3>1. x \in Ids
      BY DEF Steady, Frame
    <3>2. Listed(s.running, x) /\ x \in keep
      BY <2>3, <3>1 DEF Steady, Standing, keep
    <3>3. Listed(decodes, x)
      BY <1>3, <1>4, <3>2
    <3> QED BY <2>2, <3>3 DEF Listed
  <2> QED BY <2>1, <2>3 DEF AllFilling
<1> QED BY <1>7, <1>8, <1>10, <1>11, <1>12 DEF DecodesTo, Selecting

-----------------------------------------------------------------------------
(* Drafts.                                                                  *)

DraftNext(counts, t, i) == Drafted(t, i, counts[i])

\* The first k entries have been considered.
DraftsAppended(s, counts, k) == Loop(LAMBDA t, i : Drafted(t, i, counts[i]), s, k)

DraftRun(s, counts, k, h) ==
  /\ h[0] = s
  /\ \A i \in 1 .. k : h[i] = DraftNext(counts, h[i - 1], i)
  /\ h[k] = DraftsAppended(s, counts, k)

\* The passes of the drafts.
LEMMA DraftPasses ==
  ASSUME NEW s, NEW counts, NEW k, k \in Nat
  PROVE  \E h : DraftRun(s, counts, k, h)
<1> DEFINE Passes(n, g) ==
             g = [i \in 0 .. n |-> IF i = 0 THEN s ELSE DraftNext(counts, g[i - 1], i)]
           T == {n \in Nat : \E g : Passes(n, g)}
<1>1. 0 \in T
  <2>1. Passes(0, [i \in 0 .. 0 |-> s])
    OBVIOUS
  <2> QED BY <2>1, Zenon
<1>2. ASSUME NEW n \in Nat, n \in T PROVE n + 1 \in T
  <2>1. PICK g : Passes(n, g)
    BY <1>2
  <2> DEFINE f == [i \in 0 .. n + 1 |-> IF i <= n THEN g[i] ELSE DraftNext(counts, g[n], n + 1)]
  <2> HIDE DEF DraftNext
  <2>2. Passes(n + 1, f)
    BY <2>1
  <2> HIDE DEF f, Passes
  <2> QED BY <2>2
<1>3. k \in T
  <2> HIDE DEF T
  <2> QED BY <1>1, <1>2, Induction
<1>4. \E g : Passes(k, g)
  BY <1>3
<1> DEFINE g == CHOOSE g : Passes(k, g)
<1>5. Passes(k, g)
  BY <1>4, Zenon
<1>6. DraftsAppended(s, counts, k) = g[k]
  BY Zenon DEF DraftsAppended, Loop, DraftNext
<1> DEFINE n == k
<1> HIDE DEF g, n
<1>7. n \in Nat /\ Passes(n, g)
  BY <1>5 DEF n
<1>8. g[0] = s /\ \A i \in 1 .. n : g[i] = DraftNext(counts, g[i - 1], i)
  BY <1>7
<1>9. DraftRun(s, counts, k, g)
  BY <1>6, <1>8 DEF n, DraftRun
<1> QED BY <1>9

\* What drafts leave as it is.
SameButDrafts(s, t) ==
  /\ t.req = s.req /\ t.running = s.running /\ t.waiting = s.waiting
  /\ t.budget = s.budget /\ t.preempted = s.preempted
  /\ Len(t.items) = Len(s.items)
  /\ \A i \in 1 .. Len(s.items) : t.items[i].rid = s.items[i].rid

Drafting(s) ==
  Steady(s, {}, NoneGiven) /\ ItemsOK(s, s.items) /\ OnlyDecodes(s.items)

\* Nobody drafts beyond the context limit.
LEMMA DraftFits ==
  ASSUME NEW q, RequestOK(q), NEW n, n \in Nat, n <= NumTokens(q),
         NEW count, count \in Nat, count > 0, count <= DraftDemand(q)
  PROVE  n + count <= MaxModelLen
<1> DEFINE m == NumTokens(q)
           x == Remaining(q)
<1>1. /\ x \in Int /\ x <= MaxModelLen - m /\ m \in Nat /\ MaxModelLen \in Nat
      /\ NumDraftTokens \in Nat
  BY RemainingFacts, TokenFacts, LimitsAssumption
<1>2. count <= Least(NumDraftTokens, Most(0, x - 1)) /\ n <= m
  BY DEF DraftDemand
<1> HIDE DEF m, x
<1>3. count <= Most(0, x - 1)
  <2>1. Most(0, x - 1) \in Int
    BY <1>1 DEF Most
  <2> QED BY <1>1, <1>2, <2>1 DEF Least
<1>4. count <= x - 1
  BY <1>1, <1>3 DEF Most
<1> QED BY <1>1, <1>2, <1>4

\* The drafts of one entry change.
Redrafted(items, i, count) == [items EXCEPT ![i] = [@ EXCEPT !.drafts = count]]

LEMMA ItemsRedrafted ==
  ASSUME NEW s, NEW items, ItemsOK(s, items), OnlyDecodes(items), NEW i \in 1 .. Len(items),
         NEW count, count \in Nat, NEW item, item = items[i],
         NEW t, t.req = s.req, OthersKept(s, t, item.rid), item.rid \in Live(t.kv),
         Own(t.kv, item.rid, item.count + count),
         item.start + item.count + count <= MaxModelLen,
         NEW new, new = Redrafted(items, i, count)
  PROVE  /\ ItemsOK(t, new) /\ OnlyDecodes(new) /\ Len(new) = Len(items)
         /\ \A j \in 1 .. Len(items) : new[j].rid = items[j].rid
         /\ Used(new, Phases) <= Used(items, Phases) + count
<1> DEFINE p == [item EXCEPT !.drafts = count]
           c == Costs(items, Phases)
           d == Costs(new, Phases)
<1>1. items \in Seq(Item) /\ Len(items) \in Nat /\ item \in Item /\ ItemOK(s, item)
  <2>1. items \in Seq(Item)
    BY DEF ItemsOK
  <2> QED BY <2>1 DEF ItemsOK
<1>2. /\ p \in Item /\ p.rid = item.rid /\ p.start = item.start /\ p.count = item.count
      /\ p.phase = item.phase /\ p.sample = item.sample /\ p.drafts = count
  BY <1>1, Zenon DEF Item
<1>3. new = [items EXCEPT ![i] = p]
  BY DEF Redrafted
<1> HIDE DEF p
<1>4. /\ new \in Seq(Item) /\ Len(new) = Len(items) /\ new[i] = p
      /\ \A j \in 1 .. Len(items) : j # i => new[j] = items[j]
  BY <1>1, <1>2, <1>3
<1>5. item.phase = "decode"
  BY DEF OnlyDecodes
<1>6. ItemOK(t, p)
  BY <1>1, <1>2, <1>5 DEF ItemOK
<1>7. \A j \in 1 .. Len(items) : j # i => items[j].rid # item.rid /\ items[j] \in Item /\ ItemOK(s, items[j])
  BY <1>1 DEF ItemsOK
<1>8. \A j \in 1 .. Len(items) : ItemOK(t, new[j])
  <2> TAKE j \in 1 .. Len(items)
  <2>1. CASE j = i
    BY <1>4, <1>6, <2>1
  <2>2. CASE j # i
    <3>1. items[j].rid # item.rid /\ items[j] \in Item /\ ItemOK(s, items[j]) /\ new[j] = items[j]
      BY <1>4, <1>7, <2>2
    <3> QED BY <3>1, ItemKept
  <2> QED BY <2>1, <2>2
<1>9. \A j \in 1 .. Len(items) : new[j].rid = items[j].rid
  BY <1>2, <1>4
<1>10. ItemsOK(t, new)
  BY <1>4, <1>8, <1>9 DEF ItemsOK
<1>11. OnlyDecodes(new)
  BY <1>2, <1>4, <1>5 DEF OnlyDecodes
<1>12. /\ c \in Seq(Nat) /\ Len(c) = Len(items) /\ \A j \in 1 .. Len(items) : c[j] = Cost(items[j], Phases)
  BY <1>1, CostsFacts
<1>13. /\ d \in Seq(Nat) /\ Len(d) = Len(items) /\ \A j \in 1 .. Len(items) : d[j] = Cost(new[j], Phases)
  <2>1. new \in Seq(Item) /\ Len(new) = Len(items)
    BY <1>4
  <2>2. d \in Seq(Nat) /\ Len(d) = Len(new) /\ \A j \in 1 .. Len(new) : d[j] = Cost(new[j], Phases)
    BY <2>1, CostsFacts
  <2> QED BY <2>1, <2>2
<1> HIDE DEF c, d
<1>14. Total(d) = Total(c) + d[i] - c[i]
  <2>1. \A j \in 1 .. Len(c) : j # i => d[j] = c[j]
    BY <1>4, <1>12, <1>13
  <2>2. i \in 1 .. Len(c)
    BY <1>12
  <2> QED BY <1>12, <1>13, <2>1, <2>2, TotalChanged
<1>15. d[i] = item.count + count /\ c[i] = item.count + item.drafts /\ item.count \in Nat /\ item.drafts \in Nat
  <2>1. item.count \in Nat /\ item.drafts \in Nat
    BY <1>1, Zenon DEF Item
  <2>2. p.phase = "decode" /\ p.count = item.count /\ p.drafts = count
    BY <1>2, <1>5
  <2>3. Cost(p, Phases) = item.count + count /\ Cost(item, Phases) = item.count + item.drafts
    BY <1>5, <2>2 DEF Cost, Phases
  <2>4. d[i] = Cost(p, Phases) /\ c[i] = Cost(item, Phases)
    BY <1>4, <1>12, <1>13
  <2> QED BY <2>1, <2>3, <2>4
<1>16. Total(c) \in Nat
  BY <1>12, TotalIsNatural
<1>17. Total(d) <= Total(c) + count
  BY <1>14, <1>15, <1>16, SMTT(30)
<1> QED BY <1>4, <1>9, <1>10, <1>11, <1>17 DEF Used, c, d

LEMMA DraftedOK ==
  ASSUME NEW s, Drafting(s), NEW i \in 1 .. Len(s.items),
         NEW count, count \in Nat, count <= DraftDemand(s.req[s.items[i].rid]),
         NEW t, t = Drafted(s, i, count)
  PROVE  Drafting(t) /\ SameButDrafts(s, t) /\ Used(t.items, Phases) <= Used(s.items, Phases) + count
<1> DEFINE item == s.items[i]
           r == item.rid
           end == item.start + item.count + count
           v == Reserving(s, r, end)
<1>1. s.items \in Seq(Item) /\ item \in Item /\ ItemOK(s, item) /\ Used(s.items, Phases) \in Nat
  <2>1. s.items \in Seq(Item)
    BY DEF Drafting, ItemsOK
  <2>2. item \in Item /\ ItemOK(s, item)
    BY <2>1 DEF Drafting, ItemsOK
  <2> QED BY <2>1, <2>2, CostsFacts
<1>2. CASE count > 0 /\ CanReserve(s.kv, r, end)
  <2>1. t = [v EXCEPT !.items[i].drafts = count]
    BY <1>2 DEF Drafted, Reserving
  <2>2. /\ r \in Live(s.kv) /\ r \in DOMAIN s.req /\ item.start = s.req[r].computed
        /\ item.start + item.count <= NumTokens(s.req[r])
        /\ item.start \in Nat /\ item.count \in Nat /\ end \in Nat /\ item.count + count \in Nat
        /\ item.start + (item.count + count) = end /\ r \in Ids
    <3> DEFINE a == item.start
               n == item.count
    <3>1. a \in Nat /\ n \in Nat /\ r \in Ids
      BY <1>1, Zenon DEF Item
    <3>2. /\ r \in Live(s.kv) /\ r \in DOMAIN s.req /\ a = s.req[r].computed
          /\ a + n <= NumTokens(s.req[r])
      BY <1>1, Zenon DEF ItemOK
    <3>3. end = a + n + count
      OBVIOUS
    <3> HIDE DEF a, n, r, end
    <3>4. end \in Nat /\ n + count \in Nat /\ a + (n + count) = end
      BY <3>1, <3>3
    <3> QED BY <3>1, <3>2, <3>4, Zenon DEF a, n
  <2>3. v = Reserving(s, r, end) /\ item = s.items[i] /\ r = item.rid
    OBVIOUS
  <2> HIDE DEF v, end, item, r
  <2>4. NoneGiven[r] = <<>>
    BY <2>2, Zenon DEF NoneGiven
  <2>5. CanReserve(s.kv, r, end) /\ Steady(s, {}, NoneGiven)
    <3>1. Steady(s, {}, NoneGiven)
      BY Zenon DEF Drafting
    <3> QED BY <1>2, <3>1, Zenon
  <2>6. /\ Steady(v, {}, NoneGiven) /\ OthersKept(s, v, r)
        /\ v.req = s.req /\ r \in Live(v.kv)
        /\ \A n : n \in Nat /\ s.req[r].computed + n = end => Own(v.kv, r, n)
        /\ v.running = s.running /\ v.waiting = s.waiting
        /\ v.budget = s.budget /\ v.items = s.items /\ v.preempted = s.preempted
    <3>1. /\ r \in Live(s.kv) /\ end \in Nat /\ NoneGiven[r] = <<>>
          /\ CanReserve(s.kv, r, end) /\ Steady(s, {}, NoneGiven) /\ v = Reserving(s, r, end)
      BY <2>2, <2>3, <2>4, <2>5, Zenon
    <3> QED BY <3>1, ReservationOK
  <2>7. Own(v.kv, r, item.count + count)
    <3> DEFINE n == item.count + count
    <3>1. n \in Nat /\ s.req[r].computed + n = end
      BY <2>2, Zenon
    <3> HIDE DEF n
    <3> QED BY <2>6, <3>1, Zenon DEF n
  <2>8. end <= MaxModelLen
    <3> DEFINE n == item.start + item.count
               q == s.req[r]
    <3>1. RequestOK(q) /\ n \in Nat /\ n <= NumTokens(q) /\ count > 0 /\ count <= DraftDemand(q)
      <4>1. Standing(s, r, {}, NoneGiven)
        BY <2>2, <2>5 DEF Steady
      <4>2. RequestOK(q)
        BY <2>2, <4>1 DEF Standing
      <4>3. n \in Nat /\ n <= NumTokens(q)
        BY <2>2, SMTT(30)
      <4>4. count > 0 /\ count <= DraftDemand(q)
        BY <1>2, <2>3
      <4> QED BY <4>2, <4>3, <4>4
    <3> HIDE DEF n, q
    <3>2. n + count <= MaxModelLen
      BY <3>1, DraftFits, Zenon
    <3> QED BY <3>2 DEF n, end
  <2> DEFINE new == Redrafted(v.items, i, count)
  <2>9. /\ Shape(t) /\ t.req = v.req /\ t.waiting = v.waiting /\ t.running = v.running /\ t.kv = v.kv
        /\ t.budget = v.budget /\ t.preempted = v.preempted /\ t.items = new
    <3>1. Shape(v)
      BY <2>6 DEF Steady, Frame
    <3> QED BY <2>1, <3>1 DEF Shape, Redrafted
  <2>10. new = Redrafted(s.items, i, count)
    BY <2>6
  <2> HIDE DEF new
  <2>11. /\ ItemsOK(v, new) /\ OnlyDecodes(new) /\ Len(new) = Len(s.items)
         /\ \A j \in 1 .. Len(s.items) : new[j].rid = s.items[j].rid
         /\ Used(new, Phases) <= Used(s.items, Phases) + count
    <3> DEFINE items == s.items
    <3>1. /\ ItemsOK(s, items) /\ OnlyDecodes(items) /\ i \in 1 .. Len(items) /\ item = items[i]
          /\ new = Redrafted(items, i, count)
      BY <2>3, <2>10, Zenon DEF Drafting
    <3> HIDE DEF items
    <3>2. item.start + item.count + count <= MaxModelLen
      BY <2>8 DEF end
    <3>3. v.req = s.req /\ OthersKept(s, v, item.rid) /\ item.rid \in Live(v.kv)
      BY <2>3, <2>6, Zenon
    <3>4. /\ ItemsOK(v, new) /\ OnlyDecodes(new) /\ Len(new) = Len(items)
          /\ \A j \in 1 .. Len(items) : new[j].rid = items[j].rid
          /\ Used(new, Phases) <= Used(items, Phases) + count
      <4>1. Own(v.kv, item.rid, item.count + count)
        BY <2>3, <2>7, Zenon
      <4> QED BY <3>1, <3>2, <3>3, <4>1, ItemsRedrafted
    <3> QED BY <3>4 DEF items
  <2>12. SameBooks(v, t)
    BY <2>9 DEF SameBooks
  <2>13. Steady(t, {}, NoneGiven) /\ ItemsOK(t, new)
    BY <2>6, <2>11, <2>12, SameBooksOK
  <2> QED BY <2>6, <2>9, <2>11, <2>13 DEF Drafting, SameButDrafts
<1>3. CASE ~(count > 0 /\ CanReserve(s.kv, r, end))
  <2>1. t = s
    BY <1>3 DEF Drafted
  <2>2. Used(s.items, Phases) <= Used(s.items, Phases) + count
    BY <1>1
  <2> QED BY <2>1, <2>2 DEF SameButDrafts
<1> QED BY <1>2, <1>3

\* The first k entries have their drafts; g are the partial sums of counts.
DraftsTo(s, g, k, t) ==
  /\ Drafting(t) /\ SameButDrafts(s, t)
  /\ Used(t.items, Phases) <= Used(s.items, Phases) + g[k]

LEMMA DraftOne ==
  ASSUME NEW s, Drafting(s), NEW counts, counts \in Seq(Nat), Len(counts) = Len(s.items),
         \A i \in 1 .. Len(counts) : counts[i] <= DraftDemand(s.req[s.items[i].rid]),
         NEW g, PartialSums(counts, g),
         NEW k, k \in Nat, k + 1 <= Len(counts),
         NEW t, DraftsTo(s, g, k, t),
         NEW u, u = DraftNext(counts, t, k + 1)
  PROVE  DraftsTo(s, g, k + 1, u)
<1> DEFINE i == k + 1
           count == counts[k + 1]
<1>1. Len(counts) \in Nat /\ i \in 1 .. Len(counts) /\ count \in Nat
  OBVIOUS
<1>2. i \in 1 .. Len(s.items) /\ i \in 1 .. Len(t.items) /\ t.req = s.req /\ t.items[i].rid = s.items[i].rid
  BY <1>1 DEF DraftsTo, SameButDrafts
<1>3. count <= DraftDemand(t.req[t.items[i].rid])
  BY <1>1, <1>2
<1>4. u = Drafted(t, i, count)
  BY DEF DraftNext
<1>5. Drafting(u) /\ SameButDrafts(t, u) /\ Used(u.items, Phases) <= Used(t.items, Phases) + count
  <2> HIDE DEF i, count
  <2>1. Drafting(t)
    BY DEF DraftsTo
  <2> QED BY <1>1, <1>2, <1>3, <1>4, <2>1, DraftedOK, Zenon
<1>6. g[k] \in Nat /\ g[k + 1] = g[k] + count
  <2>1. k \in 0 .. Len(counts)
    BY <1>1
  <2> QED BY <2>1 DEF PartialSums
<1>7. Used(u.items, Phases) <= Used(s.items, Phases) + g[k + 1]
  <2> DEFINE a == Used(s.items, Phases)
             b == Used(t.items, Phases)
             c == Used(u.items, Phases)
  <2>1. a \in Nat /\ b \in Nat /\ c \in Nat
    <3>1. s.items \in Seq(Item) /\ t.items \in Seq(Item) /\ u.items \in Seq(Item)
      BY <1>5 DEF DraftsTo, Drafting, ItemsOK
    <3> QED BY <3>1, CostsFacts, Zenon
  <2>2. b <= a + g[k] /\ c <= b + count
    BY <1>5 DEF DraftsTo
  <2> HIDE DEF a, b, c, count
  <2>3. c <= a + g[k + 1]
    BY <1>1, <1>6, <2>1, <2>2, SMTT(30)
  <2> QED BY <2>3 DEF a, c
<1>8. SameButDrafts(s, u)
  BY <1>5 DEF DraftsTo, SameButDrafts
<1> QED BY <1>5, <1>7, <1>8 DEF DraftsTo

LEMMA DraftsAppendedOK ==
  ASSUME NEW s, Drafting(s), NEW counts, counts \in Seq(Nat), Len(counts) = Len(s.items),
         \A i \in 1 .. Len(counts) : counts[i] <= DraftDemand(s.req[s.items[i].rid]),
         NEW t, t = DraftsAppended(s, counts, Len(counts))
  PROVE  Drafting(t) /\ SameButDrafts(s, t) /\ Used(t.items, Phases) <= Used(s.items, Phases) + Total(counts)
<1> DEFINE k == Len(counts)
<1>1. k \in Nat
  OBVIOUS
<1>2. PICK g : PartialSums(counts, g)
  BY PartialSumsExist
<1> HIDE DEF k
<1>3. PICK h : DraftRun(s, counts, k, h)
  BY <1>1, DraftPasses, Zenon
<1>4. h[0] = s /\ h[k] = t
  BY <1>3 DEF DraftRun, k
<1> DEFINE T == {i \in Nat : i <= k => DraftsTo(s, g, i, h[i])}
<1>5. 0 \in T
  <2>1. g[0] = 0
    BY <1>2 DEF PartialSums
  <2>2. Used(s.items, Phases) \in Nat
    <3>1. s.items \in Seq(Item)
      BY DEF Drafting, ItemsOK
    <3> QED BY <3>1, CostsFacts
  <2>3. Used(s.items, Phases) <= Used(s.items, Phases) + g[0]
    BY <2>1, <2>2
  <2>4. DraftsTo(s, g, 0, s)
    BY <2>3 DEF DraftsTo, SameButDrafts
  <2> QED BY <1>4, <2>4
<1>6. ASSUME NEW i \in Nat, i \in T PROVE i + 1 \in T
  <2> SUFFICES ASSUME i + 1 <= k PROVE DraftsTo(s, g, i + 1, h[i + 1])
    OBVIOUS
  <2>1. i + 1 \in 1 .. k /\ (i + 1) - 1 = i /\ i <= k /\ i + 1 <= Len(counts)
    BY <1>1 DEF k
  <2>2. DraftsTo(s, g, i, h[i])
    BY <1>6, <2>1
  <2>3. h[i + 1] = DraftNext(counts, h[i], i + 1)
    BY <1>3, <2>1 DEF DraftRun
  <2> QED BY <1>2, <2>1, <2>2, <2>3, DraftOne, Zenon
<1>7. k \in T
  <2> HIDE DEF T
  <2> QED BY <1>1, <1>5, <1>6, Induction, Zenon
<1>8. DraftsTo(s, g, k, h[k])
  BY <1>1, <1>7
<1>9. g[k] = Total(counts)
  BY <1>2 DEF PartialSums, k
<1> QED BY <1>4, <1>8, <1>9 DEF DraftsTo

\* The drafts of a step.
LEMMA WithDraftsOK ==
  ASSUME NEW s, Drafting(s), s.budget \in Nat, Used(s.items, Phases) <= s.budget,
         NEW t, t = WithDrafts(s)
  PROVE  /\ Drafting(t) /\ SameButDrafts(s, t) /\ Used(t.items, Phases) <= s.budget
         /\ s.items = <<>> => t = s
<1>1. s.items \in Seq(Item) /\ Len(s.items) \in Nat
  BY DEF Drafting, ItemsOK
<1>2. \A i \in 1 .. Len(s.items) : DraftDemand(s.req[s.items[i].rid]) \in Nat
  <2> SUFFICES ASSUME NEW i \in 1 .. Len(s.items)
               PROVE  DraftDemand(s.req[s.items[i].rid]) \in Nat
    BY Zenon
  <2> DEFINE q == s.req[s.items[i].rid]
  <2>1. RequestOK(q)
    <3>1. ItemOK(s, s.items[i]) /\ s.items[i].rid \in Ids
      <4>1. ItemOK(s, s.items[i])
        BY DEF Drafting, ItemsOK
      <4>2. s.items[i] \in Item
        BY <1>1
      <4> QED BY <4>1, <4>2 DEF Item
    <3>2. Standing(s, s.items[i].rid, {}, NoneGiven)
      BY <3>1 DEF Drafting, Steady
    <3> QED BY <3>1, <3>2 DEF ItemOK, Standing
  <2> HIDE DEF q
  <2> DEFINE x == Remaining(q)
  <2>2. x \in Int /\ NumDraftTokens \in Nat
    BY <2>1, RemainingFacts, LimitsAssumption
  <2>3. DraftDemand(q) = Least(NumDraftTokens, Most(0, x - 1))
    BY DEF DraftDemand
  <2> HIDE DEF x
  <2>4. DraftDemand(q) \in Nat
    BY <2>2, <2>3 DEF Least, Most
  <2> QED BY <2>4 DEF q
<1> DEFINE demands == [i \in 1 .. Len(s.items) |-> DraftDemand(s.req[s.items[i].rid])]
           left == BudgetLeft(s)
           counts == FairChunks(demands, left)
<1>3. left = s.budget - Used(s.items, Phases) /\ Used(s.items, Phases) \in Nat
  BY <1>1, BudgetLeftIs
<1>4. CASE NumDraftTokens = 0
  <2>1. t = s
    BY <1>4 DEF WithDrafts
  <2> QED BY <2>1 DEF SameButDrafts
<1>5. CASE NumDraftTokens # 0
  <2>1. t = DraftsAppended(s, counts, Len(s.items))
    BY <1>5, Zenon DEF WithDrafts, DraftsAppended
  <2>2. left \in Nat
    BY <1>3
  <2>3. demands \in Seq(Nat) /\ Len(demands) = Len(s.items)
    BY <1>1, <1>2
  <2>4. \A i \in 1 .. Len(s.items) : demands[i] = DraftDemand(s.req[s.items[i].rid]) /\ demands[i] \in Nat
    BY <1>2
  <2> HIDE DEF demands, left
  <2>5. /\ counts \in Seq(Nat) /\ Len(counts) = Len(demands)
        /\ Total(counts) = Least(left, Total(demands))
        /\ \A i \in 1 .. Len(counts) : counts[i] \in 0 .. demands[i]
    BY <2>2, <2>3, ChunksAreFair
  <2>6. Total(counts) <= left /\ Total(counts) \in Nat
    <3>1. Total(demands) \in Nat
      BY <2>3, TotalIsNatural
    <3> QED BY <2>2, <2>5, <3>1 DEF Least
  <2> HIDE DEF counts
  <2>7. \A i \in 1 .. Len(counts) : counts[i] <= DraftDemand(s.req[s.items[i].rid])
    <3> TAKE i \in 1 .. Len(counts)
    <3>1. counts[i] <= demands[i] /\ i \in 1 .. Len(s.items)
      BY <2>3, <2>4, <2>5, SMTT(30)
    <3> QED BY <2>4, <3>1
  <2>8. t = DraftsAppended(s, counts, Len(counts)) /\ Len(counts) = Len(s.items)
    BY <2>1, <2>3, <2>5
  <2>9. Drafting(t) /\ SameButDrafts(s, t) /\ Used(t.items, Phases) <= Used(s.items, Phases) + Total(counts)
    BY <2>5, <2>7, <2>8, DraftsAppendedOK
  <2>10. Used(t.items, Phases) <= s.budget
    <3>1. Used(t.items, Phases) \in Nat
      <4>1. t.items \in Seq(Item)
        BY <2>9 DEF Drafting, ItemsOK
      <4> QED BY <4>1, CostsFacts
    <3> QED BY <1>3, <2>6, <2>9, <3>1
  <2>11. s.items = <<>> => t = s
    <3> SUFFICES ASSUME s.items = <<>> PROVE t = s
      OBVIOUS
    <3>1. t = DraftsAppended(s, counts, 0)
      BY <2>1
    <3>2. DraftsAppended(s, counts, 0) = s
      <4>1. PICK h : DraftRun(s, counts, 0, h)
        BY DraftPasses, Zenon
      <4> QED BY <4>1 DEF DraftRun
    <3> QED BY <3>1, <3>2
  <2> QED BY <2>9, <2>10, <2>11
<1> QED BY <1>4, <1>5

-----------------------------------------------------------------------------
(* Prefills.                                                                *)

PrefillNext(candidates, counts, t, i) == PrefillAppended(t, candidates[i], counts[i])

\* The first k candidates have been considered.
PrefillsAppended(s, candidates, counts, k) ==
  Loop(LAMBDA t, i : PrefillAppended(t, candidates[i], counts[i]), s, k)

PrefillRun(s, candidates, counts, k, h) ==
  /\ h[0] = s
  /\ \A i \in 1 .. k : h[i] = PrefillNext(candidates, counts, h[i - 1], i)
  /\ h[k] = PrefillsAppended(s, candidates, counts, k)

\* The passes of the prefills.
LEMMA PrefillPasses ==
  ASSUME NEW s, NEW candidates, NEW counts, NEW k, k \in Nat
  PROVE  \E h : PrefillRun(s, candidates, counts, k, h)
<1> DEFINE Passes(n, g) ==
             g = [i \in 0 .. n |-> IF i = 0 THEN s ELSE PrefillNext(candidates, counts, g[i - 1], i)]
           T == {n \in Nat : \E g : Passes(n, g)}
<1>1. 0 \in T
  <2>1. Passes(0, [i \in 0 .. 0 |-> s])
    OBVIOUS
  <2> QED BY <2>1, Zenon
<1>2. ASSUME NEW n \in Nat, n \in T PROVE n + 1 \in T
  <2>1. PICK g : Passes(n, g)
    BY <1>2
  <2> DEFINE f == [i \in 0 .. n + 1 |-> IF i <= n THEN g[i] ELSE PrefillNext(candidates, counts, g[n], n + 1)]
  <2> HIDE DEF PrefillNext
  <2>2. Passes(n + 1, f)
    BY <2>1
  <2> HIDE DEF f, Passes
  <2> QED BY <2>2
<1>3. k \in T
  <2> HIDE DEF T
  <2> QED BY <1>1, <1>2, Induction
<1>4. \E g : Passes(k, g)
  BY <1>3
<1> DEFINE g == CHOOSE g : Passes(k, g)
<1>5. Passes(k, g)
  BY <1>4, Zenon
<1>6. PrefillsAppended(s, candidates, counts, k) = g[k]
  BY Zenon DEF PrefillsAppended, Loop, PrefillNext
<1> DEFINE n == k
<1> HIDE DEF g, n
<1>7. n \in Nat /\ Passes(n, g)
  BY <1>5 DEF n
<1>8. g[0] = s /\ \A i \in 1 .. n : g[i] = PrefillNext(candidates, counts, g[i - 1], i)
  BY <1>7
<1>9. PrefillRun(s, candidates, counts, k, g)
  BY <1>6, <1>8 DEF n, PrefillRun
<1> QED BY <1>9

\* A prefill that was or was not selected.
LEMMA PrefillAppendedOK ==
  ASSUME NEW s, Steady(s, {}, NoneGiven), ItemsOK(s, s.items),
         NEW r \in DOMAIN s.req, ~Chosen(s.items, r), NEW count, count \in Nat,
         NEW t, t = PrefillAppended(s, r, count)
  PROVE  /\ SelectedFrom(s, t, r, count, "prefill")
         /\ Len(s.running) \in Nat /\ Len(t.running) \in Nat /\ Len(t.running) <= Len(s.running) + 1
         /\ r \in s.preempted \/ s.req[r].status = "running" => Len(t.running) <= Len(s.running)
         /\ s.blocked => t = s
         /\ ~s.blocked /\ count > 0 /\ s.req[r].status = "waiting" => Chosen(t.items, r) \/ t.blocked
         /\ count = 0 => t = s
         /\ ~s.blocked /\ count > 0 /\ Starts(s, r) => t.items # <<>>
<1> DEFINE u == Appended(s, r, count, "prefill")
<1>1. CASE s.blocked \/ count = 0
  <2>1. t = s
    BY <1>1 DEF PrefillAppended
  <2>2. Onward(s, s)
    BY OnwardIsReflexive
  <2>3. Len(s.running) \in Nat
    BY QueueElements DEF Steady, Frame
  <2>4. Len(s.running) <= Len(s.running) /\ Len(s.running) <= Len(s.running) + 1
    BY <2>3
  <2>5. SelectedFrom(s, s, r, count, "prefill")
    BY <2>2, <2>3, <2>4, SelectedNothing
  <2>6. ~(~s.blocked /\ count > 0)
    BY <1>1
  <2> QED BY <2>1, <2>3, <2>4, <2>5, <2>6
<1>2. CASE ~(s.blocked \/ count = 0)
  <2>1. t = IF r \in Selected(u) THEN [u EXCEPT !.lastPrefill = r]
            ELSE [u EXCEPT !.blocked = s.req[r].status = "waiting"]
    BY <1>2 DEF PrefillAppended
  <2>2. SelectedFrom(s, u, r, count, "prefill") /\ (Starts(s, r) => u.items # <<>>)
    <3>1. u = Appended(s, r, count, "prefill") /\ count \in Nat \ {0} /\ "prefill" \in {"decode", "prefill"}
          /\ "prefill" # "decode"
      BY <1>2
    <3> HIDE DEF u
    <3> QED BY <3>1, AppendedOK
  <2>3. r \in s.preempted => u = s
    BY AppendedSkipped
  <2> HIDE DEF u
  <2>4. Shape(u)
    BY <2>2 DEF SelectedFrom, Steady, Frame
  <2>5. /\ SameBooks(u, t) /\ t.items = u.items /\ t.budget = u.budget /\ t.preempted = u.preempted
        /\ t.running = u.running
    <3>1. CASE r \in Selected(u)
      <4>1. t = [u EXCEPT !.lastPrefill = r]
        BY <2>1, <3>1
      <4> QED BY <2>4, <4>1 DEF Shape, SameBooks
    <3>2. CASE r \notin Selected(u)
      <4> DEFINE w == s.req[r].status = "waiting"
      <4>1. t = [u EXCEPT !.blocked = w]
        BY <2>1, <3>2
      <4> HIDE DEF w
      <4> QED BY <2>4, <4>1 DEF Shape, SameBooks
    <3> QED BY <3>1, <3>2
  <2>6. SelectedFrom(s, t, r, count, "prefill")
    BY <2>2, <2>5, SelectedSame
  <2>7. Len(s.running) \in Nat /\ Len(t.running) \in Nat
    BY <2>6 DEF SelectedFrom
  <2>8. Len(t.running) <= Len(s.running) + 1
    <3> DEFINE x == IF s.req[r].status = "waiting" THEN 1 ELSE 0
               m == Len(s.running)
               n == Len(t.running)
    <3>1. n <= m + x
      BY <2>6, Zenon DEF SelectedFrom
    <3>2. x \in {0, 1} /\ m \in Nat /\ n \in Nat
      BY <2>7
    <3> HIDE DEF x, m, n
    <3>3. n <= m + 1
      BY <3>1, <3>2
    <3> QED BY <3>3 DEF m, n
  <2>9. r \in s.preempted => Len(t.running) <= Len(s.running)
    BY <2>3, <2>5, <2>7
  <2>10. ASSUME s.req[r].status = "running" PROVE Len(t.running) <= Len(s.running)
    <3>1. Len(t.running) <= Len(s.running) + 0
      BY <2>6, <2>10 DEF SelectedFrom
    <3> QED BY <2>7, <3>1
  <2>11. ASSUME s.req[r].status = "waiting" PROVE Chosen(t.items, r) \/ t.blocked
    <3>1. CASE r \in Selected(u)
      <4>1. Chosen(u.items, r)
        BY <3>1 DEF Selected, Chosen
      <4> QED BY <2>5, <4>1
    <3>2. CASE r \notin Selected(u)
      <4>1. t = [u EXCEPT !.blocked = TRUE]
        BY <2>1, <2>11, <3>2, Zenon
      <4> QED BY <2>4, <4>1 DEF Shape
    <3> QED BY <3>1, <3>2
  <2>12. ~s.blocked /\ count # 0
    BY <1>2
  <2> QED BY <2>2, <2>5, <2>6, <2>7, <2>8, <2>9, <2>10, <2>11, <2>12
<1> QED BY <1>1, <1>2

\* Whom a step may prefill: first p running requests, then waiting ones.
CandidatesOf(s, candidates, p) ==
  /\ Queue(candidates) /\ p \in Nat
  /\ \A i \in 1 .. Len(candidates) :
       /\ candidates[i] \in DOMAIN s.req /\ ~Chosen(s.items, candidates[i])
       /\ i <= p => s.req[candidates[i]].status = "running"
       /\ i > p => s.req[candidates[i]].status = "waiting"

\* There are tokens for the waiting ones.
PositiveAfter(counts, p) == \A i \in 1 .. Len(counts) : i > p => counts[i] > 0

\* Of the waiting ones among the first k, all up to the first that was blocked
\* have been chosen, and nobody behind it.
InTurn(candidates, p, k, t) ==
  /\ \A i \in 1 .. k : i > p => Chosen(t.items, candidates[i]) \/ t.blocked
  /\ \A i, j \in 1 .. k :
       p < i /\ i < j /\ Chosen(t.items, candidates[j]) => Chosen(t.items, candidates[i])

\* The first k candidates have been considered; g are the partial sums of counts.
PrefillsTo(s, candidates, p, g, k, t) ==
  /\ Steady(t, {}, NoneGiven) /\ ItemsOK(t, t.items) /\ Onward(s, t)
  /\ Used(t.items, Phases) <= Used(s.items, Phases) + g[k]
  /\ Used(t.items, {"prefill"}) <= g[k]
  /\ \A x : Chosen(t.items, x) => Chosen(s.items, x) \/ \E i \in 1 .. k : candidates[i] = x
  /\ Len(s.running) \in Nat /\ Len(t.running) \in Nat
  /\ Len(t.running) <= Len(s.running) + Most(0, k - p)
  /\ InTurn(candidates, p, k, t)

\* Whoever gets tokens first runs, or nobody does.
MayBegin(s, p, counts) ==
  /\ Untouched(s) /\ ~s.blocked
  /\ \/ Len(counts) >= 1 /\ counts[1] > 0 /\ (p > 0 \/ s.running = <<>>)
     \/ Len(counts) <= p /\ \E i \in 1 .. Len(counts) : counts[i] > 0

\* The batch has begun, unless none of the first k candidates has got tokens.
Underway(s, p, counts, k, t) ==
  MayBegin(s, p, counts) => (t = s /\ \A i \in 1 .. k : counts[i] = 0) \/ t.items # <<>>

LEMMA UsedAfterSelection ==
  ASSUME NEW s, NEW t, NEW r, NEW want, want \in Nat, NEW phase, SelectedFrom(s, t, r, want, phase),
         ItemsOK(s, s.items), NEW phases
  PROVE  /\ Used(s.items, phases) \in Nat /\ Used(t.items, phases) \in Nat
         /\ Used(t.items, phases) <= Used(s.items, phases) + want
         /\ \A x : Chosen(t.items, x) => Chosen(s.items, x) \/ x = r
<1>1. s.items \in Seq(Item) /\ t.items \in Seq(Item)
  BY DEF SelectedFrom, ItemsOK
<1>2. Used(s.items, phases) \in Nat /\ Used(t.items, phases) \in Nat
  BY <1>1, CostsFacts
<1>3. CASE t.items = s.items
  <2>1. Used(s.items, phases) <= Used(s.items, phases) + want
    BY <1>2
  <2> QED BY <1>2, <1>3, <2>1
<1>4. ASSUME NEW item, item \in Item, t.items = Append(s.items, item),
             item.rid = r, item.count <= want, item.phase = phase, item.drafts = 0
      PROVE  /\ Used(t.items, phases) <= Used(s.items, phases) + want
             /\ \A x : Chosen(t.items, x) => Chosen(s.items, x) \/ x = r
  <2> DEFINE old == s.items
             new == t.items
             c == Cost(item, phases)
  <2>1. old \in Seq(Item) /\ new = Append(old, item) /\ item \in Item /\ item.rid = r
    BY <1>1, <1>4
  <2>2. c \in Nat /\ c <= want
    <3>1. item.count \in Nat /\ item.count <= want /\ item.drafts = 0
      BY <1>4 DEF Item
    <3> QED BY <3>1 DEF Cost
  <2> HIDE DEF old, new, c
  <2>3. Used(new, phases) = Used(old, phases) + c
    BY <2>1, UsedAppended, ZenonT(30) DEF c
  <2>4. \A x : Chosen(new, x) => Chosen(old, x) \/ x = item.rid
    BY <2>1, ChosenAppended, Zenon
  <2>5. Used(new, phases) \in Nat /\ Used(old, phases) \in Nat
    BY <1>2 DEF new, old
  <2>6. Used(new, phases) <= Used(old, phases) + want
    BY <2>2, <2>3, <2>5
  <2> QED BY <2>1, <2>4, <2>6 DEF new, old
<1> QED BY <1>2, <1>3, <1>4 DEF SelectedFrom

\* One more candidate, chosen or blocked: nobody is passed over.
LEMMA InTurnNext ==
  ASSUME NEW candidates, Queue(candidates), NEW p, p \in Nat,
         NEW k, k \in Nat, k + 1 <= Len(candidates), NEW r, r = candidates[k + 1],
         NEW t, InTurn(candidates, p, k, t), ~Chosen(t.items, r),
         NEW u, t.blocked => u = t,
         \A x : Chosen(t.items, x) => Chosen(u.items, x),
         \A x : Chosen(u.items, x) => Chosen(t.items, x) \/ x = r,
         ~t.blocked /\ k + 1 > p => Chosen(u.items, r) \/ u.blocked
  PROVE  InTurn(candidates, p, k + 1, u)
<1>1. Len(candidates) \in Nat /\ \A i \in 1 .. k + 1 : i \in 1 .. k \/ i = k + 1
  BY QueueElements
<1>2. \A i \in 1 .. k : candidates[i] # r
  <2> SUFFICES ASSUME NEW i \in 1 .. k, candidates[i] = r PROVE FALSE
    OBVIOUS
  <2>1. i \in 1 .. Len(candidates) /\ k + 1 \in 1 .. Len(candidates) /\ i # k + 1
    BY <1>1
  <2> QED BY <2>1 DEF Queue, DistinctList
<1>3. ASSUME NEW i \in 1 .. k + 1, i > p
      PROVE  Chosen(u.items, candidates[i]) \/ u.blocked
  <2>1. CASE i \in 1 .. k
    BY <1>3, <2>1 DEF InTurn
  <2>2. CASE i = k + 1
    BY <1>3, <2>2
  <2> QED BY <1>1, <2>1, <2>2
<1>4. ASSUME NEW i \in 1 .. k + 1, NEW j \in 1 .. k + 1, p < i, i < j, Chosen(u.items, candidates[j])
      PROVE  Chosen(u.items, candidates[i])
  <2>1. i \in 1 .. k
    BY <1>4
  <2>2. CASE j \in 1 .. k
    <3>1. Chosen(t.items, candidates[j])
      BY <1>2, <1>4, <2>2
    <3>2. Chosen(t.items, candidates[i])
      BY <1>4, <2>1, <2>2, <3>1 DEF InTurn
    <3> QED BY <3>2
  <2>3. CASE j = k + 1
    <3>1. ~t.blocked
      BY <1>4, <2>3
    <3>2. Chosen(t.items, candidates[i])
      BY <1>4, <2>1, <3>1 DEF InTurn
    <3> QED BY <3>2
  <2> QED BY <1>1, <2>2, <2>3
<1> QED BY <1>3, <1>4 DEF InTurn

LEMMA PrefillOne ==
  ASSUME NEW s, NEW candidates, NEW p, CandidatesOf(s, candidates, p),
         NEW counts, counts \in Seq(Nat), Len(counts) <= Len(candidates),
         PositiveAfter(counts, p),
         NEW g, PartialSums(counts, g),
         NEW k, k \in Nat, k + 1 <= Len(counts),
         Used(s.items, Phases) \in Nat,
         NEW t, PrefillsTo(s, candidates, p, g, k, t), Underway(s, p, counts, k, t),
         NEW u, u = PrefillNext(candidates, counts, t, k + 1)
  PROVE  PrefillsTo(s, candidates, p, g, k + 1, u) /\ Underway(s, p, counts, k + 1, u)
<1> DEFINE r == candidates[k + 1]
           count == counts[k + 1]
<1>1. /\ Queue(candidates) /\ Len(candidates) \in Nat /\ k + 1 \in 1 .. Len(candidates) /\ p \in Nat
      /\ Len(counts) \in Nat
  BY QueueElements DEF CandidatesOf
<1>2. /\ r \in DOMAIN s.req /\ ~Chosen(s.items, r)
      /\ k + 1 <= p => s.req[r].status = "running"
      /\ k + 1 > p => s.req[r].status = "waiting"
  BY <1>1 DEF CandidatesOf
<1>3. ~Chosen(t.items, r)
  <2> SUFFICES ASSUME Chosen(t.items, r) PROVE FALSE
    OBVIOUS
  <2>1. PICK i \in 1 .. k : candidates[i] = r
    BY <1>2, Zenon DEF PrefillsTo
  <2>2. i \in 1 .. Len(candidates) /\ i # k + 1
    BY <1>1
  <2> QED BY <1>1, <2>1, <2>2 DEF Queue, DistinctList
<1>4. count \in Nat
  BY <1>1
<1>17. k + 1 > p => count > 0
  <2>1. k + 1 \in 1 .. Len(counts)
    BY <1>1
  <2> QED BY <2>1 DEF PositiveAfter, count
<1>5. u = PrefillAppended(t, r, count)
  BY DEF PrefillNext
<1> HIDE DEF r, count
<1>6. /\ Steady(t, {}, NoneGiven) /\ ItemsOK(t, t.items) /\ Onward(s, t)
      /\ Len(s.running) \in Nat /\ Len(t.running) \in Nat
      /\ Len(t.running) <= Len(s.running) + Most(0, k - p)
  BY DEF PrefillsTo
<1>7. r \in DOMAIN t.req
  BY <1>2, <1>6 DEF Onward
<1>8. /\ SelectedFrom(t, u, r, count, "prefill")
      /\ Len(u.running) \in Nat /\ Len(u.running) <= Len(t.running) + 1
      /\ r \in t.preempted \/ t.req[r].status = "running" => Len(u.running) <= Len(t.running)
      /\ t.blocked => u = t
      /\ ~t.blocked /\ count > 0 /\ t.req[r].status = "waiting" => Chosen(u.items, r) \/ u.blocked
      /\ count = 0 => u = t
      /\ ~t.blocked /\ count > 0 /\ Starts(t, r) => u.items # <<>>
  BY <1>3, <1>4, <1>5, <1>6, <1>7, PrefillAppendedOK, Zenon
<1>9. Steady(u, {}, NoneGiven) /\ ItemsOK(u, u.items) /\ Onward(s, u)
  <2>1. Steady(u, {}, NoneGiven) /\ ItemsOK(u, u.items) /\ Onward(t, u)
    BY <1>8 DEF SelectedFrom
  <2> QED BY <1>6, <2>1, OnwardIsTransitive
<1>10. g[k] \in Nat /\ g[k + 1] = g[k] + count
  <2>1. k \in 0 .. Len(counts)
    BY <1>1
  <2> QED BY <2>1 DEF PartialSums, count
<1>11. \A phases : /\ Used(t.items, phases) \in Nat /\ Used(u.items, phases) \in Nat
                   /\ Used(u.items, phases) <= Used(t.items, phases) + count
  BY <1>4, <1>6, <1>8, UsedAfterSelection, Zenon
<1>12. Used(u.items, Phases) <= Used(s.items, Phases) + g[k + 1]
  <2> DEFINE a == Used(s.items, Phases)
             b == Used(t.items, Phases)
             c == Used(u.items, Phases)
  <2>1. a \in Nat /\ b \in Nat /\ c \in Nat /\ c <= b + count
    BY <1>11
  <2>2. b <= a + g[k]
    BY DEF PrefillsTo
  <2> DEFINE x == g[k]
             y == g[k + 1]
             z == count
  <2>3. x \in Nat /\ z \in Nat /\ y = x + z /\ b <= a + x /\ c <= b + z
    BY <1>4, <1>10, <2>1, <2>2
  <2> HIDE DEF a, b, c, x, y, z
  <2>4. c <= a + y
    BY <2>1, <2>3
  <2> QED BY <2>4 DEF a, c, y
<1>13. Used(u.items, {"prefill"}) <= g[k + 1]
  <2> DEFINE b == Used(t.items, {"prefill"})
             c == Used(u.items, {"prefill"})
  <2>1. b \in Nat /\ c \in Nat /\ c <= b + count
    BY <1>11
  <2>2. b <= g[k]
    BY DEF PrefillsTo
  <2> DEFINE x == g[k]
             y == g[k + 1]
             z == count
  <2>3. x \in Nat /\ z \in Nat /\ y = x + z /\ b <= x /\ c <= b + z
    BY <1>4, <1>10, <2>1, <2>2
  <2> HIDE DEF b, c, x, y, z
  <2>4. c <= y
    BY <2>1, <2>3
  <2> QED BY <2>4 DEF c, y
<1>14. \A x : Chosen(u.items, x) => Chosen(s.items, x) \/ \E i \in 1 .. k + 1 : candidates[i] = x
  <2> TAKE x
  <2>1. Chosen(u.items, x) => Chosen(t.items, x) \/ x = r
    BY <1>4, <1>6, <1>8, UsedAfterSelection, Zenon
  <2>2. Chosen(t.items, x) => Chosen(s.items, x) \/ \E i \in 1 .. k : candidates[i] = x
    BY DEF PrefillsTo
  <2>3. \A i \in 1 .. k : i \in 1 .. k + 1
    OBVIOUS
  <2>4. k + 1 \in 1 .. k + 1
    OBVIOUS
  <2> QED BY <2>1, <2>2, <2>3, <2>4 DEF r
<1>15. Len(u.running) <= Len(s.running) + Most(0, (k + 1) - p)
  <2> DEFINE a == Len(s.running)
             b == Len(t.running)
             c == Len(u.running)
  <2>1. a \in Nat /\ b \in Nat /\ c \in Nat /\ c <= b + 1 /\ b <= a + Most(0, k - p)
    BY <1>6, <1>8
  <2>2. k + 1 <= p => c <= b
    <3>1. k + 1 <= p => r \in t.preempted \/ t.req[r].status = "running"
      BY <1>2, <1>6 DEF Onward
    <3> QED BY <1>8, <3>1
  <2> HIDE DEF a, b, c
  <2>3. CASE k + 1 <= p
    <3>1. Most(0, k - p) = 0 /\ Most(0, (k + 1) - p) = 0
      BY <1>1, <2>3 DEF Most
    <3>2. c <= a + Most(0, (k + 1) - p)
      BY <2>1, <2>2, <2>3, <3>1
    <3> QED BY <3>2 DEF a, c
  <2>4. CASE ~(k + 1 <= p)
    <3>1. Most(0, k - p) = k - p /\ Most(0, (k + 1) - p) = (k + 1) - p
      BY <1>1, <2>4 DEF Most
    <3>2. c <= a + ((k + 1) - p)
      BY <1>1, <2>1, <3>1
    <3> QED BY <3>1, <3>2 DEF a, c
  <2> QED BY <2>3, <2>4
<1>16. InTurn(candidates, p, k + 1, u)
  <2>1. k + 1 > p => t.req[r].status = "waiting"
    BY <1>2, <1>3, <1>6 DEF Onward, Patient
  <2>2. ~t.blocked /\ k + 1 > p => Chosen(u.items, r) \/ u.blocked
    BY <1>8, <1>17, <2>1
  <2>3. \A x : Chosen(t.items, x) => Chosen(u.items, x)
    BY <1>8 DEF SelectedFrom, Onward, Patient
  <2>4. \A x : Chosen(u.items, x) => Chosen(t.items, x) \/ x = r
    BY <1>4, <1>6, <1>8, UsedAfterSelection, Zenon
  <2>5. /\ InTurn(candidates, p, k, t) /\ Queue(candidates) /\ p \in Nat /\ k + 1 <= Len(candidates)
        /\ r = candidates[k + 1] /\ (t.blocked => u = t)
    BY <1>1, <1>8 DEF PrefillsTo, r
  <2> QED BY <1>3, <2>2, <2>3, <2>4, <2>5, InTurnNext, Zenon
<1>18. Underway(s, p, counts, k + 1, u)
  <2> SUFFICES ASSUME MayBegin(s, p, counts), u.items = <<>>
               PROVE  u = s /\ \A i \in 1 .. k + 1 : counts[i] = 0
    BY Zenon DEF Underway
  <2>1. t.items = <<>>
    BY <1>6, <1>8, SelectedMore, Zenon
  <2>2. t = s /\ \A i \in 1 .. k : counts[i] = 0
    BY <2>1, Zenon DEF Underway
  <2>3. ASSUME count > 0 PROVE FALSE
    <3>1. k + 1 <= p \/ s.running = <<>>
      <4>1. CASE Len(counts) <= p
        BY <1>1, <4>1
      <4>2. CASE Len(counts) >= 1 /\ counts[1] > 0 /\ (p > 0 \/ s.running = <<>>)
        <5>1. k = 0
          BY <2>2, <4>2
        <5> QED BY <1>1, <4>2, <5>1
      <4> QED BY <4>1, <4>2 DEF MayBegin
    <3>2. Starts(t, r) /\ ~t.blocked
      BY <1>2, <2>2, <3>1 DEF MayBegin, Untouched, Starts
    <3> QED BY <1>8, <2>3, <3>2
  <2>4. count = 0
    BY <1>4, <2>3
  <2>5. \A i \in 1 .. k + 1 : i \in 1 .. k \/ i = k + 1
    OBVIOUS
  <2> QED BY <1>8, <2>2, <2>4, <2>5, Zenon DEF count
<1> QED BY <1>6, <1>8, <1>9, <1>12, <1>13, <1>14, <1>15, <1>16, <1>18 DEF PrefillsTo

LEMMA PrefillsAppendedOK ==
  ASSUME NEW s, Drafting(s), NEW candidates, NEW p, CandidatesOf(s, candidates, p),
         NEW counts, counts \in Seq(Nat), Len(counts) <= Len(candidates),
         PositiveAfter(counts, p),
         NEW t, t = PrefillsAppended(s, candidates, counts, Len(counts))
  PROVE  /\ Steady(t, {}, NoneGiven) /\ ItemsOK(t, t.items) /\ Onward(s, t)
         /\ Used(t.items, Phases) <= Used(s.items, Phases) + Total(counts)
         /\ Used(t.items, {"prefill"}) <= Total(counts)
         /\ Len(s.running) \in Nat /\ Len(t.running) \in Nat
         /\ Len(t.running) <= Len(s.running) + Most(0, Len(counts) - p)
         /\ InTurn(candidates, p, Len(counts), t)
         /\ \A x : Chosen(t.items, x) =>
              Chosen(s.items, x) \/ \E i \in 1 .. Len(counts) : candidates[i] = x
         /\ MayBegin(s, p, counts) => t.items # <<>>
<1> DEFINE k == Len(counts)
<1>1. k \in Nat
  OBVIOUS
<1>2. PICK g : PartialSums(counts, g)
  BY PartialSumsExist
<1> HIDE DEF k
<1>3. PICK h : PrefillRun(s, candidates, counts, k, h)
  BY <1>1, PrefillPasses, Zenon
<1>4. h[0] = s /\ h[k] = t
  BY <1>3 DEF PrefillRun, k
<1>5. s.items \in Seq(Item) /\ Used(s.items, Phases) \in Nat
  <2>1. s.items \in Seq(Item)
    BY DEF Drafting, ItemsOK
  <2> QED BY <2>1, CostsFacts
<1> DEFINE T == {i \in Nat : i <= k => PrefillsTo(s, candidates, p, g, i, h[i]) /\ Underway(s, p, counts, i, h[i])}
<1>6. 0 \in T
  <2>1. g[0] = 0
    BY <1>2 DEF PartialSums
  <2>2. Used(s.items, Phases) <= Used(s.items, Phases) + g[0]
    BY <1>5, <2>1
  <2>3. Used(s.items, {"prefill"}) <= g[0]
    <3>1. \A i \in 1 .. Len(s.items) : s.items[i].phase \notin {"prefill"}
      BY DEF Drafting, OnlyDecodes
    <3>2. Used(s.items, {"prefill"}) = 0
      BY <1>5, <3>1, NoneUsed, Zenon
    <3> QED BY <2>1, <3>2
  <2>4. Len(s.running) \in Nat
    BY QueueElements DEF Drafting, Steady, Frame
  <2>5. Len(s.running) <= Len(s.running) + Most(0, 0 - p)
    <3>1. Most(0, 0 - p) = 0
      BY DEF Most, CandidatesOf
    <3> QED BY <2>4, <3>1
  <2>6. Onward(s, s)
    BY OnwardIsReflexive
  <2>8. InTurn(candidates, p, 0, s)
    BY DEF InTurn
  <2>7. PrefillsTo(s, candidates, p, g, 0, s)
    BY <2>2, <2>3, <2>4, <2>5, <2>6, <2>8 DEF PrefillsTo, Drafting
  <2>9. Underway(s, p, counts, 0, s)
    BY DEF Underway
  <2> QED BY <1>4, <2>7, <2>9
<1>7. ASSUME NEW i \in Nat, i \in T PROVE i + 1 \in T
  <2> SUFFICES ASSUME i + 1 <= k
               PROVE  PrefillsTo(s, candidates, p, g, i + 1, h[i + 1]) /\ Underway(s, p, counts, i + 1, h[i + 1])
    OBVIOUS
  <2>1. i + 1 \in 1 .. k /\ (i + 1) - 1 = i /\ i <= k /\ i + 1 <= Len(counts)
    BY <1>1 DEF k
  <2>2. PrefillsTo(s, candidates, p, g, i, h[i]) /\ Underway(s, p, counts, i, h[i])
    BY <1>7, <2>1
  <2>3. h[i + 1] = PrefillNext(candidates, counts, h[i], i + 1)
    BY <1>3, <2>1 DEF PrefillRun
  <2> QED BY <1>2, <1>5, <2>1, <2>2, <2>3, PrefillOne, Zenon
<1>8. k \in T
  <2> HIDE DEF T
  <2> QED BY <1>1, <1>6, <1>7, Induction
<1>9. PrefillsTo(s, candidates, p, g, k, t) /\ Underway(s, p, counts, k, t)
  BY <1>1, <1>4, <1>8
<1>10. g[k] = Total(counts)
  BY <1>2 DEF PartialSums, k
<1>11. MayBegin(s, p, counts) => t.items # <<>>
  <2>1. MayBegin(s, p, counts) => \E i \in 1 .. k : counts[i] > 0
    <3>1. Len(counts) >= 1 => 1 \in 1 .. k
      BY DEF k
    <3> QED BY <3>1 DEF MayBegin, k
  <2>2. \A i \in 1 .. k : counts[i] = 0 => ~(counts[i] > 0)
    OBVIOUS
  <2> QED BY <1>9, <2>1, <2>2 DEF Underway
<1> QED BY <1>9, <1>10, <1>11 DEF PrefillsTo, k

HitNext(prefills, t, i) == AttachedTo(t, prefills[i])
HitsAttached(s, prefills, k) == Loop(LAMBDA t, i : AttachedTo(t, prefills[i]), s, k)

HitRun(s, prefills, k, h) ==
  /\ h[0] = s
  /\ \A i \in 1 .. k : h[i] = HitNext(prefills, h[i - 1], i)
  /\ h[k] = HitsAttached(s, prefills, k)

\* The passes of the lookups.
LEMMA HitPasses ==
  ASSUME NEW s, NEW prefills, NEW k, k \in Nat
  PROVE  \E h : HitRun(s, prefills, k, h)
<1> DEFINE Passes(n, g) ==
             g = [i \in 0 .. n |-> IF i = 0 THEN s ELSE HitNext(prefills, g[i - 1], i)]
           T == {n \in Nat : \E g : Passes(n, g)}
<1>1. 0 \in T
  <2>1. Passes(0, [i \in 0 .. 0 |-> s])
    OBVIOUS
  <2> QED BY <2>1, Zenon
<1>2. ASSUME NEW n \in Nat, n \in T PROVE n + 1 \in T
  <2>1. PICK g : Passes(n, g)
    BY <1>2
  <2> DEFINE f == [i \in 0 .. n + 1 |-> IF i <= n THEN g[i] ELSE HitNext(prefills, g[n], n + 1)]
  <2> HIDE DEF HitNext
  <2>2. Passes(n + 1, f)
    BY <2>1
  <2> HIDE DEF f, Passes
  <2> QED BY <2>2
<1>3. k \in T
  <2> HIDE DEF T
  <2> QED BY <1>1, <1>2, Induction
<1>4. \E g : Passes(k, g)
  BY <1>3
<1> DEFINE g == CHOOSE g : Passes(k, g)
<1>5. Passes(k, g)
  BY <1>4, Zenon
<1>6. HitsAttached(s, prefills, k) = g[k]
  BY Zenon DEF HitsAttached, Loop, HitNext
<1> DEFINE n == k
<1> HIDE DEF g, n
<1>7. n \in Nat /\ Passes(n, g)
  BY <1>5 DEF n
<1>8. g[0] = s /\ \A i \in 1 .. n : g[i] = HitNext(prefills, g[i - 1], i)
  BY <1>7
<1>9. HitRun(s, prefills, k, g)
  BY <1>6, <1>8 DEF n, HitRun
<1> QED BY <1>9

\* Running requests have a table already.
LEMMA HitsChangeNothing ==
  ASSUME NEW s, NEW prefills, NEW k, k \in Nat, \A i \in 1 .. k : prefills[i] \in Live(s.kv)
  PROVE  HitsAttached(s, prefills, k) = s
<1>1. PICK h : HitRun(s, prefills, k, h)
  BY HitPasses
<1> DEFINE T == {i \in Nat : i <= k => h[i] = s}
<1>2. 0 \in T
  BY <1>1 DEF HitRun
<1>3. ASSUME NEW i \in Nat, i \in T PROVE i + 1 \in T
  <2> SUFFICES ASSUME i + 1 <= k PROVE h[i + 1] = s
    OBVIOUS
  <2>1. i + 1 \in 1 .. k /\ (i + 1) - 1 = i /\ h[i] = s
    BY <1>3
  <2>2. h[i + 1] = HitNext(prefills, h[i], i + 1)
    BY <1>1, <2>1 DEF HitRun
  <2>3. prefills[i + 1] \in Live(s.kv)
    BY <2>1
  <2> QED BY <2>1, <2>2, <2>3 DEF HitNext, AttachedTo
<1>4. k \in T
  <2> HIDE DEF T
  <2> QED BY <1>2, <1>3, Induction
<1> QED BY <1>1, <1>4 DEF HitRun

\* Prompts under way, in some order.
PrefillsOf(s, prefills) ==
  /\ Queue(prefills)
  /\ \A x : Listed(prefills, x) =>
       x \in DOMAIN s.req /\ s.req[x].status = "running" /\ IsPrefill(s.req[x]) /\ x \in Live(s.kv)

LEMMA FillingOK ==
  ASSUME NEW s, Steady(s, {}, NoneGiven),
         NEW filling, filling = Kept(s.running, {r \in DOMAIN s.req : IsPrefill(s.req[r])}),
         NEW prefills, prefills = filling \/ prefills = RotateAfter(filling, s.lastPrefill)
  PROVE  /\ PrefillsOf(s, prefills)
         /\ \A x \in DOMAIN s.req : Listed(s.running, x) /\ IsPrefill(s.req[x]) => Listed(prefills, x)
<1> DEFINE keep == {r \in DOMAIN s.req : IsPrefill(s.req[r])}
<1>1. Queue(s.running)
  BY DEF Steady, Frame
<1>2. filling = Kept(s.running, keep)
  OBVIOUS
<1> HIDE DEF keep
<1>3. Queue(filling) /\ \A x : Listed(filling, x) <=> Listed(s.running, x) /\ x \in keep
  BY <1>1, <1>2, QueueKept
<1>4. Queue(prefills) /\ \A x : Listed(prefills, x) <=> Listed(filling, x)
  <2>1. CASE prefills = filling
    BY <1>3, <2>1
  <2>2. CASE prefills = RotateAfter(filling, s.lastPrefill)
    <3>1. Queue(prefills)
      BY <1>3, <2>2, RotateOK
    <3>2. \A x : Listed(prefills, x) <=> Listed(filling, x)
      BY <1>3, <2>2, RotateOK
    <3> QED BY <3>1, <3>2
  <2> QED BY <2>1, <2>2
<1>5. ASSUME NEW x, Listed(prefills, x)
      PROVE  x \in DOMAIN s.req /\ s.req[x].status = "running" /\ IsPrefill(s.req[x]) /\ x \in Live(s.kv)
  <2>1. Listed(s.running, x) /\ x \in keep
    BY <1>3, <1>4, <1>5
  <2>2. x \in Ids
    BY <1>1, <2>1, QueueElements
  <2>3. Standing(s, x, {}, NoneGiven)
    BY <2>2 DEF Steady
  <2> QED BY <2>1, <2>3 DEF Standing, keep
<1>6. \A x \in DOMAIN s.req : Listed(s.running, x) /\ IsPrefill(s.req[x]) => Listed(prefills, x)
  BY <1>3, <1>4 DEF keep
<1> QED BY <1>4, <1>5, <1>6 DEF PrefillsOf

Joined(prefills, waiting, m) == prefills \o SubSeq(waiting, 1, m)

\* The candidates are no two the same, and none of them is in the batch.
LEMMA CandidatesOK ==
  ASSUME NEW s, Drafting(s), NEW prefills, PrefillsOf(s, prefills),
         NEW waiting, Queue(waiting), \A x : Listed(waiting, x) => Listed(s.waiting, x),
         NEW m, m \in 0 .. Len(waiting),
         NEW candidates, candidates = Joined(prefills, waiting, m)
  PROVE  /\ CandidatesOf(s, candidates, Len(prefills)) /\ Len(candidates) = Len(prefills) + m
         /\ \A i \in 1 .. m : candidates[Len(prefills) + i] = waiting[i]
<1> DEFINE p == Len(prefills)
           first == SubSeq(waiting, 1, m)
<1>1. /\ prefills \in Seq(Ids) /\ waiting \in Seq(Ids) /\ p \in Nat /\ Queue(prefills)
      /\ DistinctList(prefills) /\ DistinctList(waiting)
  BY DEF PrefillsOf, Queue
<1>2. /\ first \in Seq(Ids) /\ Len(first) = m /\ m \in Nat /\ \A i \in 1 .. m : first[i] = waiting[i]
      /\ \A i \in 1 .. m : i \in 1 .. Len(waiting)
  BY <1>1, PrefixFacts
<1> HIDE DEF first
<1>3. /\ candidates \in Seq(Ids) /\ Len(candidates) = p + m
      /\ \A i \in 1 .. p : candidates[i] = prefills[i]
      /\ \A i \in 1 .. m : candidates[p + i] = first[i]
  BY <1>1, <1>2 DEF first, Joined
<1> HIDE DEF p
<1>4. \A i \in 1 .. p + m : i \in 1 .. p \/ (i - p \in 1 .. m /\ p + (i - p) = i /\ ~(i <= p))
  BY <1>1, <1>2
<1>5. \A i \in 1 .. p :
        /\ candidates[i] \in Ids /\ candidates[i] \in DOMAIN s.req
        /\ s.req[candidates[i]].status = "running" /\ IsPrefill(s.req[candidates[i]])
  <2> TAKE i \in 1 .. p
  <2>1. prefills[i] \in Ids /\ Listed(prefills, prefills[i])
    BY <1>1, QueueElements DEF p
  <2> QED BY <1>3, <2>1 DEF PrefillsOf
<1>6. \A i \in 1 .. p + m : ~(i \in 1 .. p) =>
        /\ candidates[i] \in Ids /\ candidates[i] \in DOMAIN s.req
        /\ s.req[candidates[i]].status = "waiting" /\ candidates[i] = waiting[i - p]
        /\ i - p \in 1 .. Len(waiting)
  <2> SUFFICES ASSUME NEW i \in 1 .. p + m, ~(i \in 1 .. p)
               PROVE  /\ candidates[i] \in Ids /\ candidates[i] \in DOMAIN s.req
                      /\ s.req[candidates[i]].status = "waiting" /\ candidates[i] = waiting[i - p]
                      /\ i - p \in 1 .. Len(waiting)
    OBVIOUS
  <2> DEFINE j == i - p
  <2>1. j \in 1 .. m /\ p + j = i
    BY <1>4
  <2> HIDE DEF j
  <2>2. candidates[i] = waiting[j] /\ j \in 1 .. Len(waiting)
    BY <1>2, <1>3, <2>1
  <2> DEFINE x == waiting[j]
  <2>3. x \in Ids /\ Listed(s.waiting, x)
    BY <2>2, QueueElements
  <2> HIDE DEF x
  <2>4. Standing(s, x, {}, NoneGiven)
    BY <2>3 DEF Drafting, Steady
  <2>5. x \in DOMAIN s.req /\ s.req[x].status = "waiting"
    BY <2>3, <2>4 DEF Standing
  <2> QED BY <2>2, <2>3, <2>5 DEF x, j
<1>7. DistinctList(candidates)
  <2> SUFFICES ASSUME NEW i \in 1 .. p + m, NEW j \in 1 .. p + m, candidates[i] = candidates[j]
               PROVE  i = j
    BY <1>3 DEF DistinctList
  <2>1. CASE i \in 1 .. p /\ j \in 1 .. p
    <3>1. prefills[i] = prefills[j]
      BY <1>3, <2>1
    <3> QED BY <1>1, <2>1, <3>1 DEF DistinctList, p
  <2>2. CASE ~(i \in 1 .. p) /\ ~(j \in 1 .. p)
    <3>1. waiting[i - p] = waiting[j - p] /\ i - p \in 1 .. Len(waiting) /\ j - p \in 1 .. Len(waiting)
      BY <1>6, <2>2
    <3>2. i - p = j - p
      BY <1>1, <3>1, Zenon DEF DistinctList
    <3> QED BY <1>1, <1>2, <3>2 DEF p
  <2>3. CASE i \in 1 .. p /\ ~(j \in 1 .. p)
    BY <1>5, <1>6, <2>3
  <2>4. CASE ~(i \in 1 .. p) /\ j \in 1 .. p
    BY <1>5, <1>6, <2>4
  <2> QED BY <2>1, <2>2, <2>3, <2>4
<1>8. \A i \in 1 .. p + m : ~Chosen(s.items, candidates[i])
  <2> SUFFICES ASSUME NEW i \in 1 .. p + m, Chosen(s.items, candidates[i]) PROVE FALSE
    OBVIOUS
  <2>1. PICK k \in 1 .. Len(s.items) : s.items[k].rid = candidates[i]
    BY DEF Chosen
  <2>2. ItemOK(s, s.items[k]) /\ s.items[k].phase = "decode"
    BY DEF Drafting, ItemsOK, OnlyDecodes
  <2>3. s.req[candidates[i]].status = "running" /\ ~IsPrefill(s.req[candidates[i]])
    BY <2>1, <2>2 DEF ItemOK
  <2> QED BY <1>5, <1>6, <2>3
<1>9. \A i \in 1 .. Len(candidates) :
        /\ candidates[i] \in DOMAIN s.req /\ ~Chosen(s.items, candidates[i])
        /\ i <= p => s.req[candidates[i]].status = "running"
        /\ i > p => s.req[candidates[i]].status = "waiting"
  <2> TAKE i \in 1 .. Len(candidates)
  <2>1. i \in 1 .. p + m
    BY <1>3
  <2>2. (i <= p => i \in 1 .. p) /\ (i > p => ~(i \in 1 .. p))
    BY <1>1
  <2> QED BY <1>5, <1>6, <1>8, <2>1, <2>2
<1>10. \A i \in 1 .. m : candidates[p + i] = waiting[i]
  BY <1>2, <1>3
<1> QED BY <1>1, <1>3, <1>7, <1>9, <1>10 DEF CandidatesOf, Queue, p

\* What the prefills may use.
LEMMA PrefillBudgetFacts ==
  ASSUME NEW s, s.items \in Seq(Item), s.budget \in Nat, Used(s.items, Phases) <= s.budget
  PROVE  /\ PrefillBudget(s) \in Nat
         /\ Used(s.items, Phases) + PrefillBudget(s) <= s.budget
         /\ MaxPrefillTokens # 0 => PrefillBudget(s) <= MaxPrefillTokens
<1> DEFINE x == BudgetLeft(s)
           u == Used(s.items, Phases)
<1>1. x = s.budget - u /\ u \in Nat /\ u <= s.budget /\ MaxPrefillTokens \in Nat
  BY BudgetLeftIs, LimitsAssumption
<1>2. PrefillBudget(s) = IF MaxPrefillTokens = 0 THEN x ELSE Least(x, MaxPrefillTokens)
  BY DEF PrefillBudget
<1> HIDE DEF x, u
<1>3. x \in Nat /\ u + x <= s.budget
  BY <1>1
<1>4. /\ PrefillBudget(s) \in Nat /\ PrefillBudget(s) <= x
      /\ MaxPrefillTokens # 0 => PrefillBudget(s) <= MaxPrefillTokens
  BY <1>1, <1>2, <1>3 DEF Least
<1>5. u + PrefillBudget(s) <= s.budget
  BY <1>1, <1>3, <1>4
<1> QED BY <1>4, <1>5 DEF u

\* What set_token_budget accepts: one token, or a whole prompt where prompts are not cut.
BudgetOK(b) == b \in Nat \ {0} /\ (~EnableChunkedPrefill => b >= MaxModelLen)

\* Before anything is selected the prefills may use as much.
LEMMA WholeBudget ==
  ASSUME NEW s, s.items = <<>>, BudgetOK(s.budget)
  PROVE  BudgetOK(PrefillBudget(s))
<1> DEFINE x == BudgetLeft(s)
           u == Used(s.items, Phases)
           b == s.budget
<1>1. s.items \in Seq(Item) /\ \A i \in 1 .. Len(s.items) : FALSE
  OBVIOUS
<1>2. u = 0
  BY <1>1, NoneUsed, Zenon
<1>3. x = b - u
  BY <1>1, BudgetLeftIs, Zenon
<1>4. PrefillBudget(s) = IF MaxPrefillTokens = 0 THEN x ELSE Least(x, MaxPrefillTokens)
  BY DEF PrefillBudget
<1>5. BudgetOK(b)
  OBVIOUS
<1> HIDE DEF x, u, b
<1>6. x = b /\ b \in Nat \ {0}
  BY <1>2, <1>3, <1>5 DEF BudgetOK
<1>7. MaxPrefillTokens \in Nat /\ MaxModelLen \in Nat
  BY LimitsAssumption
<1>8. ~EnableChunkedPrefill => MaxPrefillTokens = 0 \/ MaxPrefillTokens >= MaxModelLen
  BY UnchunkedAssumption
<1> QED BY <1>4, <1>5, <1>6, <1>7, <1>8 DEF BudgetOK, Least

LEMMA TodoFacts ==
  ASSUME NEW s, Steady(s, {}, NoneGiven), NEW r \in DOMAIN s.req
  PROVE  Todo(s, r) \in Nat \ {0} /\ Todo(s, r) <= MaxModelLen
<1> DEFINE q == s.req[r]
<1>1. r \in Ids /\ NoneGiven[r] = <<>>
  BY DEF Steady, Frame, NoneGiven
<1>2. Standing(s, r, {}, NoneGiven)
  BY <1>1 DEF Steady
<1>3. RequestOK(q) /\ CachedOK(q, NoneGiven[r], s.kv, r)
  BY <1>2 DEF Standing
<1> HIDE DEF q
<1>4. q.computed \in Nat /\ NumTokens(q) \in Nat /\ q.computed < NumTokens(q) + 0
  <2>1. Len(<<>>) = 0
    OBVIOUS
  <2> QED BY <1>1, <1>3, <2>1, TokenFacts DEF CachedOK
<1>5. NumTokens(q) - q.computed \in Nat \ {0} /\ NumTokens(q) - q.computed <= MaxModelLen
  <2>1. NumTokens(q) <= MaxModelLen /\ MaxModelLen \in Nat
    BY <1>3, LimitsAssumption DEF RequestOK
  <2> QED BY <1>4, <2>1
<1> QED BY <1>5 DEF Todo, q

\* The shares of the prefills fit their budget.
SharesOK(s, candidates, counts) ==
  /\ counts \in Seq(Nat) /\ Len(counts) <= Len(candidates)
  /\ Total(counts) <= PrefillBudget(s)

LEMMA ChunksOK ==
  ASSUME NEW s, Steady(s, {}, NoneGiven), PrefillBudget(s) \in Nat,
         NEW candidates, candidates \in Seq(DOMAIN s.req)
  PROVE  /\ SharesOK(s, candidates, Chunks(s, candidates))
         /\ Len(candidates) <= PrefillBudget(s) =>
              \A i \in 1 .. Len(Chunks(s, candidates)) : Chunks(s, candidates)[i] > 0
         /\ Len(Chunks(s, candidates)) = Len(candidates)
         /\ PrefillBudget(s) # 0 /\ Len(candidates) # 0 =>
              \E i \in 1 .. Len(Chunks(s, candidates)) : Chunks(s, candidates)[i] > 0
<1> DEFINE b == PrefillBudget(s)
           n == Len(candidates)
           Demand1(i) == IF MaxPrefillChunk = 0 THEN Least(Todo(s, candidates[i]), PrefillBudget(s))
                         ELSE Least(Todo(s, candidates[i]), MaxPrefillChunk)
           demands == [i \in 1 .. n |-> Demand1(i)]
           counts == FairChunks(demands, b)
<1>1. n \in Nat /\ MaxPrefillChunk \in Nat
  BY LimitsAssumption
<1>2. \A i \in 1 .. n : Demand1(i) \in Nat /\ (b # 0 => Demand1(i) >= 1)
  <2> TAKE i \in 1 .. n
  <2>1. candidates[i] \in DOMAIN s.req
    OBVIOUS
  <2> DEFINE x == Todo(s, candidates[i])
  <2>2. x \in Nat \ {0}
    BY <2>1, TodoFacts
  <2>3. Demand1(i) = IF MaxPrefillChunk = 0 THEN Least(x, b) ELSE Least(x, MaxPrefillChunk)
    OBVIOUS
  <2>4. b \in Nat /\ i >= 1 /\ i <= n
    BY <1>1
  <2> HIDE DEF x, b, n, Demand1
  <2> QED BY <1>1, <2>2, <2>3, <2>4 DEF Least
<1>3. Chunks(s, candidates) = counts
  BY DEF Chunks
<1> HIDE DEF Demand1, n
<1>4. /\ demands \in Seq(Nat) /\ Len(demands) = n
      /\ b # 0 => \A i \in 1 .. Len(demands) : demands[i] >= 1
  <2> HIDE DEF b
  <2> QED BY <1>1, <1>2
<1> HIDE DEF demands, b
<1>5. /\ counts \in Seq(Nat) /\ Len(counts) = Len(demands) /\ Total(counts) = Least(b, Total(demands))
  <2>1. b \in Nat
    BY DEF b
  <2> QED BY <1>4, <2>1, ChunksAreFair
<1>6. Total(counts) <= b
  <2>1. Total(demands) \in Nat /\ b \in Nat
    BY <1>4, TotalIsNatural DEF b
  <2> QED BY <1>5, <2>1 DEF Least
<1>8. n <= b => \A i \in 1 .. Len(counts) : counts[i] > 0
  <2> SUFFICES ASSUME n <= b, NEW i \in 1 .. Len(counts) PROVE counts[i] > 0
    OBVIOUS
  <2>1. i \in 1 .. Len(demands) /\ b \in Nat
    BY <1>5 DEF b
  <2>2. b # 0
    BY <1>1, <1>4, <2>1
  <2> QED BY <1>4, <2>1, <2>2, EveryoneIsServed, Zenon
<1>9. ASSUME b # 0, n # 0 PROVE \E i \in 1 .. Len(counts) : counts[i] > 0
  <2>1. Total(demands) \in Nat /\ n <= Total(demands)
    BY <1>4, <1>9, TotalAtLeastLength
  <2>2. Total(counts) # 0
    <3>1. b \in Nat
      BY DEF b
    <3> QED BY <1>1, <1>5, <1>9, <2>1, <3>1 DEF Least
  <2> HIDE DEF counts
  <2>3. \E i \in 1 .. Len(counts) : counts[i] # 0
    BY <1>5, <2>2, TotalOfZeros, Zenon
  <2> QED BY <1>5, <2>3
<1> HIDE DEF counts
<1>7. Len(counts) <= Len(candidates) /\ Len(counts) = Len(candidates)
  BY <1>1, <1>4, <1>5 DEF n
<1> QED BY <1>3, <1>5, <1>6, <1>7, <1>8, <1>9 DEF SharesOK, b, n

\* A set of numbers up to n has a largest.
LEMMA GreatestUpTo ==
  ASSUME NEW n \in Nat, NEW S, S \subseteq 0 .. n, S # {}
  PROVE  \E k \in S : \A j \in S : j <= k
<1> DEFINE D == {n - k : k \in S}
<1>1. D \subseteq Nat /\ D # {}
  <2>1. \A k \in S : n - k \in Nat
    OBVIOUS
  <2>2. D \subseteq Nat
    BY <2>1
  <2>3. PICK k \in S : TRUE
    BY Zenon
  <2>4. n - k \in D
    OBVIOUS
  <2> QED BY <2>2, <2>4
<1>2. \E d \in D : \A e \in D : d <= e
  <2> HIDE DEF D
  <2> QED BY <1>1, LeastNatural
<1>3. PICK d \in D : \A e \in D : d <= e
  BY <1>2
<1>4. PICK k \in S : d = n - k
  OBVIOUS
<1>5. ASSUME NEW j \in S PROVE j <= k
  <2>1. n - j \in D
    OBVIOUS
  <2>2. n - k <= n - j
    BY <1>3, <1>4, <2>1, Zenon
  <2>3. j \in Nat /\ k \in Nat
    OBVIOUS
  <2> QED BY <2>2, <2>3
<1> QED BY <1>5

LEMMA WholePromptsOK ==
  ASSUME NEW s, Steady(s, {}, NoneGiven), PrefillBudget(s) \in Nat,
         NEW candidates, candidates \in Seq(DOMAIN s.req)
  PROVE  /\ SharesOK(s, candidates, WholePrompts(s, candidates))
         /\ \A i \in 1 .. Len(WholePrompts(s, candidates)) : WholePrompts(s, candidates)[i] > 0
         /\ PrefillBudget(s) >= MaxModelLen /\ Len(candidates) # 0 => Len(WholePrompts(s, candidates)) >= 1
<1> DEFINE b == PrefillBudget(s)
           n == Len(candidates)
           todo == [i \in 1 .. n |-> Todo(s, candidates[i])]
           fits == {k \in 0 .. n : Total(SubSeq(todo, 1, k)) <= b}
           k == CHOOSE k \in fits : \A j \in fits : j <= k
           counts == SubSeq(todo, 1, k)
<1>1. n \in Nat
  OBVIOUS
<1>2. \A i \in 1 .. n : Todo(s, candidates[i]) \in Nat \ {0} /\ Todo(s, candidates[i]) <= MaxModelLen
  <2> TAKE i \in 1 .. n
  <2>1. candidates[i] \in DOMAIN s.req
    OBVIOUS
  <2> QED BY <2>1, TodoFacts
<1>3. todo \in Seq(Nat) /\ Len(todo) = n /\ \A i \in 1 .. n : todo[i] > 0 /\ todo[i] <= MaxModelLen
  <2> HIDE DEF n
  <2> QED BY <1>1, <1>2 DEF n
<1>4. WholePrompts(s, candidates) = counts
  BY DEF WholePrompts
<1> HIDE DEF todo
<1>5. 0 \in fits
  <2>1. SubSeq(todo, 1, 0) \in Seq(Nat) /\ Len(SubSeq(todo, 1, 0)) = 0
    BY <1>3
  <2>2. \A i \in 1 .. Len(SubSeq(todo, 1, 0)) : SubSeq(todo, 1, 0)[i] = 0
    BY <2>1
  <2>3. Total(SubSeq(todo, 1, 0)) = 0
    BY <2>1, <2>2, TotalOfZeros, Zenon
  <2> QED BY <1>1, <2>3
<1>6. fits \subseteq 0 .. n /\ fits # {}
  BY <1>5
<1>13. b >= MaxModelLen /\ n # 0 => 1 \in fits
  <2> SUFFICES ASSUME b >= MaxModelLen, n # 0 PROVE Total(SubSeq(todo, 1, 1)) <= b
    BY <1>1
  <2> DEFINE one == SubSeq(todo, 1, 1)
  <2>1. 1 \in 1 .. n
    BY <1>1
  <2>2. one \in Seq(Nat) /\ Len(one) = 1 /\ one[1] = todo[1] /\ todo[1] \in Nat
    BY <1>3, <2>1
  <2> HIDE DEF one
  <2>3. Total(one) = todo[1]
    <3>1. PICK g : PartialSums(one, g)
      BY <2>2, PartialSumsExist
    <3>2. 0 \in 0 .. Len(one) /\ 1 \in 1 .. Len(one) /\ 1 - 1 = 0
      BY <2>2
    <3>3. g[0] = 0 /\ g[1] = g[0] + todo[1] /\ g[1] = Total(one)
      BY <2>2, <3>1, <3>2 DEF PartialSums
    <3> QED BY <2>2, <3>3
  <2>4. todo[1] <= MaxModelLen /\ MaxModelLen \in Nat /\ b \in Nat
    BY <1>3, <2>1, LimitsAssumption
  <2> HIDE DEF b
  <2>5. Total(one) <= b
    BY <2>2, <2>3, <2>4
  <2> QED BY <2>5 DEF one
<1> HIDE DEF fits
<1>7. \E m \in fits : \A j \in fits : j <= m
  <2> HIDE DEF n
  <2> QED BY <1>1, <1>6, GreatestUpTo, Zenon
<1>8. k \in fits /\ \A j \in fits : j <= k
  BY <1>7, Zenon
<1> HIDE DEF k
<1>9. k \in 0 .. n /\ Total(counts) <= b
  BY <1>8 DEF fits
<1>10. counts \in Seq(Nat) /\ Len(counts) = k /\ \A i \in 1 .. k : counts[i] = todo[i]
  BY <1>3, <1>9, PrefixFacts
<1>12. \A i \in 1 .. Len(counts) : counts[i] > 0
  <2> HIDE DEF counts
  <2> TAKE i \in 1 .. Len(counts)
  <2>1. i \in 1 .. k /\ i \in 1 .. n
    BY <1>1, <1>9, <1>10
  <2> QED BY <1>3, <1>10, <2>1, Zenon
<1>14. b >= MaxModelLen /\ n # 0 => Len(counts) >= 1
  BY <1>8, <1>9, <1>10, <1>13
<1>11. Len(counts) <= n
  BY <1>1, <1>9, <1>10
<1> HIDE DEF counts
<1> QED BY <1>4, <1>9, <1>10, <1>11, <1>12, <1>14 DEF SharesOK

LEMMA AdmissionFacts ==
  ASSUME NEW s, NEW prefills, Len(s.running) \in Nat, Len(s.running) <= MaxNumSeqs,
         Len(prefills) \in Nat, PrefillBudget(s) \in Nat
  PROVE  /\ AdmissionCount(s, prefills) \in Nat
         /\ Len(s.running) + AdmissionCount(s, prefills) <= MaxNumSeqs
         /\ EnableChunkedPrefill =>
              AdmissionCount(s, prefills) <= Most(0, PrefillBudget(s) - Len(prefills))
         /\ Len(s.running) = 0 /\ Len(prefills) = 0 /\ PrefillBudget(s) # 0 => AdmissionCount(s, prefills) # 0
<1> DEFINE m == Len(s.running)
           p == Len(prefills)
           b == PrefillBudget(s)
           x == Most(0, b - p)
<1>1. m \in Nat /\ p \in Nat /\ b \in Nat /\ MaxNumSeqs \in Nat \ {0} /\ m <= MaxNumSeqs
  BY LimitsAssumption
<1>2. AdmissionCount(s, prefills) = IF EnableChunkedPrefill THEN Least(MaxNumSeqs - m, x) ELSE MaxNumSeqs - m
  BY DEF AdmissionCount
<1> HIDE DEF m, p, b
<1>3. x \in Nat /\ (p = 0 /\ b # 0 => x # 0)
  BY <1>1 DEF Most
<1> HIDE DEF x
<1>4. /\ AdmissionCount(s, prefills) \in Nat /\ m + AdmissionCount(s, prefills) <= MaxNumSeqs
      /\ EnableChunkedPrefill => AdmissionCount(s, prefills) <= x
      /\ m = 0 /\ p = 0 /\ b # 0 => AdmissionCount(s, prefills) # 0
  BY <1>1, <1>2, <1>3 DEF Least
<1> QED BY <1>4 DEF m, x, b, p

\* Of the requests that wait and may be admitted, one that runs in the end has
\* nobody who was ahead of it still waiting.
NobodyPassed(s, t) ==
  \A x, y : /\ Before(s.waiting, x, y) /\ x \notin s.preempted /\ y \notin s.preempted
            /\ Listed(t.running, y)
            => ~Listed(t.waiting, x)

\* A position in a list without repetitions is the only one.
LEMMA BeforePosition ==
  ASSUME NEW list, Queue(list), NEW x, NEW y, Before(list, x, y),
         NEW j \in 1 .. Len(list), list[j] = y
  PROVE  \E i \in 1 .. Len(list) : i < j /\ list[i] = x
<1>1. PICK a \in 1 .. Len(list), b \in 1 .. Len(list) : a < b /\ list[a] = x /\ list[b] = y
  BY DEF Before
<1>2. b = j
  BY <1>1 DEF Queue, DistinctList
<1> QED BY <1>1, <1>2

\* After p others, the candidates are the first m that wait and may be admitted.
Offered(s, candidates, p, waiting, m) ==
  /\ waiting = Kept(s.waiting, Ids \ s.preempted)
  /\ m \in 0 .. Len(waiting) /\ Len(candidates) = p + m
  /\ \A i \in 1 .. m : candidates[p + i] = waiting[i]

\* Of the first n candidates some have been chosen, the waiting ones in turn.
TakenInTurn(s, candidates, p, n, t) ==
  /\ n \in Nat /\ n <= Len(candidates) /\ InTurn(candidates, p, n, t)
  /\ \A x : Chosen(t.items, x) => Chosen(s.items, x) \/ \E i \in 1 .. n : candidates[i] = x

\* Who was waiting and runs has been chosen, in turn.
LEMMA ChosenInTurn ==
  ASSUME NEW s, Drafting(s), NEW t, Steady(t, {}, NoneGiven), Onward(s, t), ItemsOK(t, t.items),
         NEW candidates, NEW p, CandidatesOf(s, candidates, p),
         NEW waiting, NEW m, Offered(s, candidates, p, waiting, m),
         NEW n, TakenInTurn(s, candidates, p, n, t)
  PROVE  NobodyPassed(s, t)
<1> SUFFICES ASSUME NEW x, NEW y, Before(s.waiting, x, y), x \notin s.preempted, y \notin s.preempted,
                    Listed(t.running, y), Listed(t.waiting, x)
             PROVE  FALSE
  BY DEF NobodyPassed
<1>1. Queue(s.waiting) /\ Steady(s, {}, NoneGiven) /\ ItemsOK(s, s.items) /\ Queue(t.running)
  BY DEF Drafting, Steady, Frame
<1>2. Listed(s.waiting, x) /\ Listed(s.waiting, y) /\ x \in Ids /\ y \in Ids
  BY <1>1, QueueElements, Zenon DEF Before, Listed
<1>3. Standing(s, y, {}, NoneGiven) /\ Standing(t, y, {}, NoneGiven) /\ Standing(t, x, {}, NoneGiven)
  BY <1>1, <1>2 DEF Steady
<1>4. /\ y \in DOMAIN s.req /\ s.req[y].status = "waiting" /\ t.req[y].status = "running"
      /\ t.req[x].status = "waiting"
  BY <1>2, <1>3 DEF Standing
<1>5. Chosen(t.items, y)
  <2>1. "running" # "waiting"
    OBVIOUS
  <2> QED BY <1>4, <2>1 DEF Onward, Patient
<1>6. ~Chosen(s.items, y)
  <2> SUFFICES ASSUME NEW k \in 1 .. Len(s.items), s.items[k].rid = y PROVE FALSE
    BY DEF Chosen
  <2>1. ItemOK(s, s.items[k])
    BY <1>1 DEF ItemsOK
  <2> QED BY <1>4, <2>1 DEF ItemOK
<1>7. PICK k \in 1 .. n : candidates[k] = y
  BY <1>5, <1>6 DEF TakenInTurn
<1>20. Queue(waiting) /\ Len(waiting) \in Nat
  <2>1. Queue(waiting)
    BY <1>1, QueueKept DEF Offered
  <2> QED BY <2>1, QueueElements
<1>8. /\ p \in Nat /\ Len(candidates) \in Nat /\ k \in 1 .. Len(candidates) /\ m \in Nat
      /\ m <= Len(waiting) /\ Len(candidates) = p + m /\ n \in Nat /\ n <= Len(candidates)
  <2>1. p \in Nat /\ Len(candidates) \in Nat
    BY QueueElements DEF CandidatesOf
  <2>2. n \in Nat /\ n <= Len(candidates) /\ m \in 0 .. Len(waiting) /\ Len(candidates) = p + m
    BY DEF Offered, TakenInTurn
  <2> QED BY <1>20, <2>1, <2>2
<1>9. k > p
  <2> SUFFICES ASSUME k <= p PROVE FALSE
    BY <1>8
  <2>1. s.req[y].status = "running"
    BY <1>7, <1>8 DEF CandidatesOf
  <2> QED BY <1>4, <2>1
<1> DEFINE j == k - p
<1>10. j \in 1 .. m /\ p + j = k
  BY <1>8, <1>9
<1> HIDE DEF j
<1>12. j \in 1 .. Len(waiting) /\ waiting[j] = y
  <2>1. candidates[p + j] = waiting[j]
    BY <1>10, Zenon DEF Offered
  <2> QED BY <1>7, <1>8, <1>10, <1>20, <2>1
<1>13. Before(waiting, x, y)
  <2> DEFINE keep == Ids \ s.preempted
  <2>1. x \in keep /\ y \in keep /\ waiting = Kept(s.waiting, keep)
    BY <1>2 DEF Offered
  <2> HIDE DEF keep
  <2> QED BY <1>1, <2>1, BeforeKept
<1>14. PICK i \in 1 .. Len(waiting) : i < j /\ waiting[i] = x
  BY <1>12, <1>13, <1>20, BeforePosition
<1>15. i \in 1 .. m /\ candidates[p + i] = x
  <2>1. i \in 1 .. m
    BY <1>8, <1>10, <1>14, <1>20
  <2> QED BY <1>14, <2>1, Zenon DEF Offered
<1>16. /\ p + i \in 1 .. n /\ p < p + i /\ p + i < k
  BY <1>8, <1>10, <1>14, <1>15
<1>17. Chosen(t.items, candidates[p + i])
  <2> DEFINE a == p + i
  <2>1. a \in 1 .. n /\ k \in 1 .. n /\ p < a /\ a < k /\ Chosen(t.items, candidates[k])
    BY <1>5, <1>7, <1>16
  <2> HIDE DEF a
  <2>2. Chosen(t.items, candidates[a])
    BY <2>1 DEF TakenInTurn, InTurn
  <2> QED BY <2>2 DEF a
<1>18. PICK c \in 1 .. Len(t.items) : t.items[c].rid = x
  BY <1>15, <1>17 DEF Chosen
<1>19. ItemOK(t, t.items[c])
  BY DEF ItemsOK
<1> QED BY <1>4, <1>18, <1>19 DEF ItemOK

\* What schedule() has arrived at: the batch fits the budgets and the limits.
BatchMade(s, t) ==
  /\ Steady(t, {}, NoneGiven) /\ ItemsOK(t, t.items)
  /\ t.budget = s.budget
  /\ Used(t.items, Phases) <= t.budget
  /\ MaxPrefillTokens # 0 => Used(t.items, {"prefill"}) <= MaxPrefillTokens
  /\ Len(t.running) \in Nat /\ Len(t.running) <= MaxNumSeqs
  /\ NobodyPassed(s, t)

\* Nothing is selected, there is somebody to select, and nobody who decodes.
PrefillsOnly(s) ==
  /\ Untouched(s) /\ ~s.blocked /\ BudgetOK(s.budget)
  /\ DOMAIN s.req # {} /\ AllFilling(s)

\* Then there is a first candidate, who runs or has the pool to himself.
LEMMA SomebodyFirst ==
  ASSUME NEW s, Steady(s, {}, NoneGiven), PrefillsOnly(s), NEW prefills, PrefillsOf(s, prefills),
         \A x \in DOMAIN s.req : Listed(s.running, x) /\ IsPrefill(s.req[x]) => Listed(prefills, x),
         NEW waiting, waiting = Kept(s.waiting, Ids \ s.preempted),
         NEW m \in Nat, m = Least(AdmissionCount(s, prefills), Len(waiting))
  PROVE  (Len(prefills) > 0 \/ s.running = <<>>) /\ Len(prefills) + m > 0
<1>1. /\ Queue(s.running) /\ Queue(s.waiting) /\ Queue(prefills) /\ Len(prefills) \in Nat
      /\ s.preempted = {}
  BY QueueElements DEF Steady, Frame, PrefillsOf, PrefillsOnly, Untouched
<1>2. Queue(waiting) /\ Len(waiting) \in Nat /\ \A x : Listed(waiting, x) <=> Listed(s.waiting, x) /\ x \in Ids
  <2>1. Ids \ s.preempted = Ids
    BY <1>1
  <2>2. waiting = Kept(s.waiting, Ids)
    BY <2>1, Zenon
  <2> QED BY <1>1, <2>2, QueueKept
<1>3. ASSUME s.running # <<>> PROVE Len(prefills) > 0
  <2> DEFINE x == s.running[1]
  <2>1. Len(s.running) \in Nat /\ Len(s.running) # 0
    BY <1>1, <1>3 DEF Queue
  <2>2. 1 \in 1 .. Len(s.running)
    BY <2>1
  <2>3. x \in Ids /\ Listed(s.running, x)
    BY <1>1, <2>2, QueueElements
  <2> HIDE DEF x
  <2>4. x \in DOMAIN s.req /\ s.req[x].status = "running"
    BY <2>3 DEF Steady, Standing
  <2>5. IsPrefill(s.req[x])
    BY <2>4 DEF PrefillsOnly, AllFilling
  <2>6. PICK i \in 1 .. Len(prefills) : prefills[i] = x
    BY <2>3, <2>4, <2>5 DEF Listed
  <2> QED BY <1>1, <2>6
<1>4. ASSUME s.running = <<>> PROVE Len(prefills) + m > 0
  <2>1. \A x : ~Listed(s.running, x) /\ Len(s.running) = 0
    BY <1>4 DEF Listed
  <2>2. PICK x \in DOMAIN s.req : TRUE
    BY DEF PrefillsOnly
  <2>3. x \in Ids
    BY DEF Steady, Frame
  <2>4. Standing(s, x, {}, NoneGiven)
    BY <2>3 DEF Steady
  <2>5. s.req[x].status \in {"waiting", "running"}
    BY <2>4, TokenFacts DEF Standing
  <2>6. Listed(waiting, x)
    BY <1>2, <2>1, <2>3, <2>4, <2>5, Zenon DEF Standing
  <2>7. Len(waiting) # 0
    BY <2>6 DEF Listed
  <2> DEFINE b == PrefillBudget(s)
             a == AdmissionCount(s, prefills)
  <2>8. b \in Nat \ {0}
    BY WholeBudget DEF PrefillsOnly, Untouched, BudgetOK
  <2>9. MaxNumSeqs \in Nat
    BY LimitsAssumption
  <2>10. a \in Nat /\ (Len(prefills) = 0 => a # 0)
    <3>1. Len(s.running) = 0 /\ Len(s.running) \in Nat /\ Len(s.running) <= MaxNumSeqs
      BY <2>1, <2>9
    <3> QED BY <1>1, <2>8, <3>1, AdmissionFacts
  <2>11. m = Least(a, Len(waiting))
    OBVIOUS
  <2> HIDE DEF a
  <2> QED BY <1>1, <1>2, <2>7, <2>10, <2>11 DEF Least
<1>5. Len(prefills) + m > 0
  <2>1. CASE s.running = <<>>
    BY <1>4, <2>1
  <2>2. CASE s.running # <<>>
    <3>1. Len(prefills) > 0
      BY <1>3, <2>2
    <3> QED BY <1>1, <3>1
  <2> QED BY <2>1, <2>2
<1> QED BY <1>3, <1>5

\* The prefills of a step.
LEMMA WithPrefillsOK ==
  ASSUME NEW s, Drafting(s), s.budget \in Nat, Used(s.items, Phases) <= s.budget,
         Len(s.running) \in Nat, Len(s.running) <= MaxNumSeqs,
         NEW t, t = WithPrefills(s)
  PROVE  /\ BatchMade(s, t)
         /\ PrefillsOnly(s) \/ s.items # <<>> => t.items # <<>>
<1> DEFINE filling == Kept(s.running, {r \in DOMAIN s.req : IsPrefill(s.req[r])})
           prefills == IF EnableChunkedPrefill THEN RotateAfter(filling, s.lastPrefill) ELSE filling
           waiting == Kept(s.waiting, Ids \ s.preempted)
           admitted == AdmissionCount(s, prefills)
           m == Least(admitted, Len(waiting))
           candidates == Joined(prefills, waiting, m)
           hit == HitsAttached(s, prefills, Len(prefills))
           counts == IF EnableChunkedPrefill THEN Chunks(hit, candidates) ELSE WholePrompts(hit, candidates)
<1>1. t = PrefillsAppended(hit, candidates, counts, Len(counts))
  BY Zenon DEF WithPrefills, PrefillsAppended, HitsAttached, Joined
<1>2. Steady(s, {}, NoneGiven) /\ Queue(s.waiting)
  BY DEF Drafting, Steady, Frame
<1>3. /\ PrefillsOf(s, prefills)
      /\ \A x \in DOMAIN s.req : Listed(s.running, x) /\ IsPrefill(s.req[x]) => Listed(prefills, x)
  <2>1. prefills = filling \/ prefills = RotateAfter(filling, s.lastPrefill)
    OBVIOUS
  <2> DEFINE f == filling
             p == prefills
  <2>2. f = Kept(s.running, {r \in DOMAIN s.req : IsPrefill(s.req[r])})
        /\ (p = f \/ p = RotateAfter(f, s.lastPrefill))
    BY <2>1
  <2> HIDE DEF f, p
  <2>3. /\ PrefillsOf(s, p)
        /\ \A x \in DOMAIN s.req : Listed(s.running, x) /\ IsPrefill(s.req[x]) => Listed(p, x)
    BY <1>2, <2>2, FillingOK, Zenon
  <2> QED BY <2>3 DEF p
<1> HIDE DEF prefills
<1>4. Queue(waiting) /\ (\A x : Listed(waiting, x) => Listed(s.waiting, x)) /\ Len(waiting) \in Nat
  BY <1>2, QueueKept
<1> HIDE DEF waiting
<1>5. /\ PrefillBudget(s) \in Nat
      /\ Used(s.items, Phases) + PrefillBudget(s) <= s.budget
      /\ MaxPrefillTokens # 0 => PrefillBudget(s) <= MaxPrefillTokens
      /\ Used(s.items, Phases) \in Nat
  <2>1. s.items \in Seq(Item)
    BY DEF Drafting, ItemsOK
  <2> QED BY <2>1, PrefillBudgetFacts, CostsFacts
<1>6. Len(prefills) \in Nat /\ \A i \in 1 .. Len(prefills) : Listed(prefills, prefills[i])
  BY <1>3, QueueElements DEF PrefillsOf
<1>7. /\ admitted \in Nat /\ Len(s.running) + admitted <= MaxNumSeqs
      /\ EnableChunkedPrefill => admitted <= Most(0, PrefillBudget(s) - Len(prefills))
  BY <1>5, <1>6, AdmissionFacts
<1> HIDE DEF admitted
<1>8. m \in 0 .. Len(waiting) /\ m \in Nat /\ m <= admitted
  <2> DEFINE n == Len(waiting)
  <2>1. n \in Nat /\ m = Least(admitted, n)
    BY <1>4
  <2> HIDE DEF n, m
  <2>2. m \in 0 .. n /\ m \in Nat /\ m <= admitted
    BY <1>7, <2>1 DEF Least
  <2> QED BY <2>2 DEF n
<1>20. PrefillsOnly(s) => (Len(prefills) > 0 \/ s.running = <<>>) /\ Len(prefills) + m > 0
  <2>1. m = Least(AdmissionCount(s, prefills), Len(waiting)) /\ waiting = Kept(s.waiting, Ids \ s.preempted)
    BY DEF admitted, waiting
  <2> HIDE DEF m
  <2> QED BY <1>2, <1>3, <1>8, <2>1, SomebodyFirst, Zenon
<1> HIDE DEF m
<1>9. /\ CandidatesOf(s, candidates, Len(prefills)) /\ Len(candidates) = Len(prefills) + m
      /\ \A i \in 1 .. m : candidates[Len(prefills) + i] = waiting[i]
  <2>1. candidates = Joined(prefills, waiting, m)
    OBVIOUS
  <2> HIDE DEF candidates
  <2> QED BY <1>3, <1>4, <1>8, <2>1, CandidatesOK, SMTT(30)
<1> HIDE DEF candidates
<1>10. hit = s
  <2>1. \A i \in 1 .. Len(prefills) : prefills[i] \in Live(s.kv)
    BY <1>3, <1>6 DEF PrefillsOf
  <2> QED BY <1>6, <2>1, HitsChangeNothing
<1> HIDE DEF hit
<1>11. candidates \in Seq(DOMAIN s.req)
  <2>1. candidates \in Seq(Ids) /\ \A i \in 1 .. Len(candidates) : candidates[i] \in DOMAIN s.req
    BY <1>9 DEF CandidatesOf, Queue
  <2> QED BY <2>1, SeqDef
<1>12. /\ SharesOK(s, candidates, counts) /\ PositiveAfter(counts, Len(prefills))
       /\ PrefillsOnly(s) => MayBegin(s, Len(prefills), counts)
  <2> DEFINE chunks == Chunks(s, candidates)
             whole == WholePrompts(s, candidates)
             n == Len(candidates)
             p == Len(prefills)
             b == PrefillBudget(s)
  <2>1. /\ SharesOK(s, candidates, chunks) /\ (n <= b => \A i \in 1 .. Len(chunks) : chunks[i] > 0)
        /\ Len(chunks) = n /\ (b # 0 /\ n # 0 => \E i \in 1 .. Len(chunks) : chunks[i] > 0)
    BY <1>2, <1>5, <1>11, ChunksOK
  <2>2. /\ SharesOK(s, candidates, whole) /\ \A i \in 1 .. Len(whole) : whole[i] > 0
        /\ b >= MaxModelLen /\ n # 0 => Len(whole) >= 1
    BY <1>2, <1>5, <1>11, WholePromptsOK
  <2>3. /\ (EnableChunkedPrefill /\ counts = chunks) \/ (~EnableChunkedPrefill /\ counts = whole)
        /\ n = p + m /\ p \in Nat /\ b \in Nat
        /\ EnableChunkedPrefill => admitted <= Most(0, b - p)
    BY <1>5, <1>6, <1>7, <1>9, <1>10
  <2> HIDE DEF chunks, whole, n, p, b, counts
  <2>4. ASSUME ~EnableChunkedPrefill PROVE SharesOK(s, candidates, counts) /\ PositiveAfter(counts, p)
    BY <2>2, <2>3, <2>4 DEF PositiveAfter
  <2>5. ASSUME EnableChunkedPrefill, m > 0
        PROVE  SharesOK(s, candidates, counts) /\ PositiveAfter(counts, p)
    <3>1. n <= b
      BY <1>7, <1>8, <2>3, <2>5 DEF Most
    <3> QED BY <2>1, <2>3, <2>5, <3>1 DEF PositiveAfter
  <2>6. ASSUME EnableChunkedPrefill, ~(m > 0)
        PROVE  SharesOK(s, candidates, counts) /\ PositiveAfter(counts, p)
    <3>1. Len(chunks) <= p /\ Len(chunks) \in Nat
      <4>1. chunks \in Seq(Nat) /\ Len(chunks) <= n
        BY <2>1 DEF SharesOK, n
      <4> QED BY <1>8, <2>3, <2>6, <4>1
    <3>2. PositiveAfter(chunks, p)
      BY <2>3, <3>1 DEF PositiveAfter
    <3> QED BY <2>1, <2>3, <2>6, <3>2
  <2>7. SharesOK(s, candidates, counts) /\ PositiveAfter(counts, p)
    BY <1>8, <2>4, <2>5, <2>6
  <2>8. ASSUME PrefillsOnly(s) PROVE MayBegin(s, p, counts)
    <3>1. (p > 0 \/ s.running = <<>>) /\ n > 0
      BY <1>20, <2>3, <2>8 DEF p
    <3>2. BudgetOK(b) /\ Untouched(s) /\ ~s.blocked
      BY <2>8, WholeBudget DEF PrefillsOnly, Untouched, b
    <3>3. CASE ~EnableChunkedPrefill
      <4>1. Len(whole) >= 1 /\ Len(whole) \in Nat
        <5>1. b >= MaxModelLen
          BY <3>2, <3>3 DEF BudgetOK
        <5>2. whole \in Seq(Nat)
          BY <2>2 DEF SharesOK
        <5> QED BY <2>2, <3>1, <5>1, <5>2
      <4>2. 1 \in 1 .. Len(whole)
        BY <4>1
      <4>3. counts = whole /\ whole[1] > 0
        BY <2>2, <2>3, <3>3, <4>2
      <4> QED BY <3>1, <3>2, <4>1, <4>3 DEF MayBegin
    <3>4. CASE EnableChunkedPrefill /\ n <= b
      <4>1. Len(chunks) >= 1 /\ 1 \in 1 .. Len(chunks)
        BY <1>8, <2>1, <2>3, <3>1
      <4>2. counts = chunks /\ chunks[1] > 0
        BY <2>1, <2>3, <3>4, <4>1
      <4> QED BY <3>1, <3>2, <4>1, <4>2 DEF MayBegin
    <3>5. CASE EnableChunkedPrefill /\ ~(n <= b)
      <4>1. m = 0
        BY <1>7, <1>8, <2>3, <3>5 DEF Most
      <4>2. counts = chunks /\ Len(chunks) = p
        BY <2>1, <2>3, <3>5, <4>1
      <4>3. \E i \in 1 .. Len(chunks) : chunks[i] > 0
        BY <2>1, <3>1, <3>2 DEF BudgetOK
      <4> QED BY <2>3, <3>2, <4>2, <4>3 DEF MayBegin
    <3> QED BY <3>3, <3>4, <3>5
  <2> QED BY <2>7, <2>8 DEF p
<1> HIDE DEF counts
<1>13. /\ counts \in Seq(Nat) /\ Len(counts) <= Len(candidates) /\ Total(counts) <= PrefillBudget(s)
       /\ PositiveAfter(counts, Len(prefills))
       /\ PrefillsOnly(s) => MayBegin(s, Len(prefills), counts)
  BY <1>12 DEF SharesOK
<1>14. /\ Steady(t, {}, NoneGiven) /\ ItemsOK(t, t.items) /\ Onward(s, t)
       /\ Used(t.items, Phases) <= Used(s.items, Phases) + Total(counts)
       /\ Used(t.items, {"prefill"}) <= Total(counts)
       /\ Len(s.running) \in Nat /\ Len(t.running) \in Nat
       /\ Len(t.running) <= Len(s.running) + Most(0, Len(counts) - Len(prefills))
       /\ InTurn(candidates, Len(prefills), Len(counts), t)
       /\ \A x : Chosen(t.items, x) =>
            Chosen(s.items, x) \/ \E i \in 1 .. Len(counts) : candidates[i] = x
       /\ MayBegin(s, Len(prefills), counts) => t.items # <<>>
  <2> DEFINE p == Len(prefills)
  <2>1. /\ CandidatesOf(s, candidates, p) /\ t = PrefillsAppended(s, candidates, counts, Len(counts))
        /\ PositiveAfter(counts, p)
    BY <1>1, <1>9, <1>10, <1>13
  <2> HIDE DEF p
  <2>2. /\ Steady(t, {}, NoneGiven) /\ ItemsOK(t, t.items) /\ Onward(s, t)
        /\ Used(t.items, Phases) <= Used(s.items, Phases) + Total(counts)
        /\ Used(t.items, {"prefill"}) <= Total(counts)
        /\ Len(s.running) \in Nat /\ Len(t.running) \in Nat
        /\ Len(t.running) <= Len(s.running) + Most(0, Len(counts) - p)
        /\ InTurn(candidates, p, Len(counts), t)
        /\ \A x : Chosen(t.items, x) =>
             Chosen(s.items, x) \/ \E i \in 1 .. Len(counts) : candidates[i] = x
    BY <1>13, <2>1, PrefillsAppendedOK
  <2>3. MayBegin(s, p, counts) => t.items # <<>>
    BY <1>13, <2>1, PrefillsAppendedOK
  <2> QED BY <2>2, <2>3 DEF p
<1>15. t.budget = s.budget
  BY <1>14 DEF Onward
<1>16. /\ Used(t.items, Phases) \in Nat /\ Used(t.items, {"prefill"}) \in Nat /\ Total(counts) \in Nat
  <2>1. t.items \in Seq(Item)
    BY <1>14 DEF ItemsOK
  <2> QED BY <1>13, <2>1, CostsFacts, TotalIsNatural, Zenon
<1>17. /\ Used(t.items, Phases) <= t.budget
       /\ MaxPrefillTokens # 0 => Used(t.items, {"prefill"}) <= MaxPrefillTokens
  <2> DEFINE a == Used(s.items, Phases)
             b == Used(t.items, Phases)
             c == Used(t.items, {"prefill"})
             d == Total(counts)
             e == PrefillBudget(s)
  <2>1. a \in Nat /\ b \in Nat /\ c \in Nat /\ d \in Nat /\ e \in Nat /\ MaxPrefillTokens \in Nat
    BY <1>5, <1>16, LimitsAssumption
  <2>2. b <= a + d /\ c <= d /\ d <= e /\ a + e <= s.budget
    BY <1>5, <1>13, <1>14
  <2>3. MaxPrefillTokens # 0 => e <= MaxPrefillTokens
    BY <1>5
  <2> HIDE DEF a, b, c, d, e
  <2>4. b <= s.budget /\ (MaxPrefillTokens # 0 => c <= MaxPrefillTokens)
    BY <2>1, <2>2, <2>3
  <2> QED BY <1>15, <2>4 DEF b, c
<1>18. Len(t.running) <= MaxNumSeqs
  <2> DEFINE a == Len(s.running)
             b == Len(t.running)
             n == Len(counts)
             p == Len(prefills)
             c == Len(candidates)
  <2>1. a \in Nat /\ b \in Nat /\ n \in Nat /\ p \in Nat /\ c \in Nat /\ n <= c /\ c = p + m
    BY <1>6, <1>8, <1>9, <1>11, <1>13, <1>14
  <2>2. b <= a + Most(0, n - p) /\ a + admitted <= MaxNumSeqs
    BY <1>7, <1>14
  <2> HIDE DEF a, b, c, n, p
  <2>3. Most(0, n - p) <= m /\ Most(0, n - p) \in Nat
    BY <1>8, <2>1 DEF Most
  <2> DEFINE x == Most(0, n - p)
  <2>4. x \in Nat /\ x <= m /\ b <= a + x
    BY <2>2, <2>3
  <2> HIDE DEF x
  <2>5. b <= MaxNumSeqs
    BY <1>7, <1>8, <2>1, <2>2, <2>4, LimitsAssumption
  <2> QED BY <2>5 DEF b
<1>19. NobodyPassed(s, t)
  <2> DEFINE p == Len(prefills)
             n == Len(counts)
  <2>1. CandidatesOf(s, candidates, p) /\ Offered(s, candidates, p, waiting, m)
    BY <1>8, <1>9, Zenon DEF Offered, waiting
  <2>2. TakenInTurn(s, candidates, p, n, t)
    BY <1>13, <1>14 DEF TakenInTurn
  <2> HIDE DEF p, n
  <2> QED BY <1>14, <2>1, <2>2, ChosenInTurn
<1>21. s.items # <<>> => t.items # <<>>
  <2> SUFFICES ASSUME s.items # <<>> PROVE t.items # <<>>
    OBVIOUS
  <2> DEFINE old == s.items
             x == old[1].rid
  <2>1. old \in Seq(Item) /\ old # <<>>
    BY DEF Drafting, ItemsOK
  <2> HIDE DEF old
  <2>2. 1 \in 1 .. Len(old)
    BY <2>1
  <2>3. Chosen(old, x)
    BY <2>2 DEF Chosen
  <2> HIDE DEF x
  <2>4. Chosen(t.items, x)
    BY <1>14, <2>3 DEF Onward, Patient, old
  <2> QED BY <2>4 DEF Chosen
<1> QED BY <1>13, <1>14, <1>15, <1>17, <1>18, <1>19, <1>21 DEF BatchMade

-----------------------------------------------------------------------------
(* After the batch is made.                                                 *)

DetachNext(waiting, t, i) == Detached(t, waiting[i])
Detaching(s, k) == Loop(LAMBDA t, i : Detached(t, s.waiting[i]), s, k)

DetachRun(s, k, h) ==
  /\ h[0] = s
  /\ \A i \in 1 .. k : h[i] = DetachNext(s.waiting, h[i - 1], i)
  /\ h[k] = Detaching(s, k)

\* The passes of the detachment.
LEMMA DetachPasses ==
  ASSUME NEW s, NEW k, k \in Nat
  PROVE  \E h : DetachRun(s, k, h)
<1> DEFINE Passes(n, g) ==
             g = [i \in 0 .. n |-> IF i = 0 THEN s ELSE DetachNext(s.waiting, g[i - 1], i)]
           T == {n \in Nat : \E g : Passes(n, g)}
<1>1. 0 \in T
  <2>1. Passes(0, [i \in 0 .. 0 |-> s])
    OBVIOUS
  <2> QED BY <2>1, Zenon
<1>2. ASSUME NEW n \in Nat, n \in T PROVE n + 1 \in T
  <2>1. PICK g : Passes(n, g)
    BY <1>2
  <2> DEFINE f == [i \in 0 .. n + 1 |-> IF i <= n THEN g[i] ELSE DetachNext(s.waiting, g[n], n + 1)]
  <2> HIDE DEF DetachNext
  <2>2. Passes(n + 1, f)
    BY <2>1
  <2> HIDE DEF f, Passes
  <2> QED BY <2>2
<1>3. k \in T
  <2> HIDE DEF T
  <2> QED BY <1>1, <1>2, Induction
<1>4. \E g : Passes(k, g)
  BY <1>3
<1> DEFINE g == CHOOSE g : Passes(k, g)
<1>5. Passes(k, g)
  BY <1>4, Zenon
<1>6. Detaching(s, k) = g[k]
  BY Zenon DEF Detaching, Loop, DetachNext
<1> DEFINE n == k
<1> HIDE DEF g, n
<1>7. n \in Nat /\ Passes(n, g)
  BY <1>5 DEF n
<1>8. g[0] = s /\ \A i \in 1 .. n : g[i] = DetachNext(s.waiting, g[i - 1], i)
  BY <1>7
<1>9. DetachRun(s, k, g)
  BY <1>6, <1>8 DEF n, DetachRun
<1> QED BY <1>9

\* The first k waiting requests have no table.
DetachedTo(s, t) ==
  /\ Steady(t, {}, NoneGiven) /\ ItemsOK(t, s.items)
  /\ t.items = s.items /\ t.budget = s.budget /\ t.running = s.running /\ t.waiting = s.waiting

LEMMA DetachOne ==
  ASSUME NEW s, NEW i \in 1 .. Len(s.waiting), NEW t, DetachedTo(s, t),
         NEW u, u = Detached(t, s.waiting[i])
  PROVE  DetachedTo(s, u)
<1> DEFINE r == s.waiting[i]
<1>1. Steady(t, {}, NoneGiven) /\ Queue(t.waiting) /\ t.waiting = s.waiting
  BY DEF DetachedTo, Steady, Frame
<1>2. r \in Ids /\ Listed(t.waiting, r)
  BY <1>1, QueueElements
<1> HIDE DEF r
<1>3. Standing(t, r, {}, NoneGiven)
  BY <1>1, <1>2 DEF Steady
<1>4. r \in DOMAIN t.req /\ t.req[r].status = "waiting"
  BY <1>2, <1>3 DEF Standing
<1>5. u = Detached(t, r)
  BY DEF r
<1>6. /\ Steady(u, {}, NoneGiven) /\ OthersKept(t, u, r)
      /\ u.running = t.running /\ u.waiting = t.waiting
      /\ u.budget = t.budget /\ u.items = t.items
  BY <1>1, <1>4, <1>5, DetachedOK
<1>7. ~Chosen(s.items, r)
  <2> SUFFICES ASSUME NEW k \in 1 .. Len(s.items), s.items[k].rid = r PROVE FALSE
    BY DEF Chosen
  <2>1. ItemOK(t, s.items[k])
    BY DEF DetachedTo, ItemsOK
  <2> QED BY <1>4, <2>1 DEF ItemOK
<1>8. ItemsOK(u, s.items)
  BY <1>6, <1>7, ItemsKept DEF DetachedTo
<1> QED BY <1>6, <1>8 DEF DetachedTo

LEMMA WaitersDetachedOK ==
  ASSUME NEW z, NEW s, BatchMade(z, s), NEW t, t = WaitersDetached(s)
  PROVE  BatchMade(z, t) /\ t.items = s.items
<1> DEFINE k == Len(s.waiting)
<1>1. k \in Nat
  BY QueueElements DEF BatchMade, Steady, Frame
<1>2. t = Detaching(s, k)
  BY Zenon DEF WaitersDetached, Detaching
<1> HIDE DEF k
<1>3. PICK h : DetachRun(s, k, h)
  BY <1>1, DetachPasses
<1>4. h[0] = s /\ h[k] = t
  BY <1>2, <1>3 DEF DetachRun
<1> DEFINE T == {i \in Nat : i <= k => DetachedTo(s, h[i])}
<1>5. 0 \in T
  BY <1>4 DEF BatchMade, DetachedTo
<1>6. ASSUME NEW i \in Nat, i \in T PROVE i + 1 \in T
  <2> SUFFICES ASSUME i + 1 <= k PROVE DetachedTo(s, h[i + 1])
    OBVIOUS
  <2>1. i + 1 \in 1 .. k /\ (i + 1) - 1 = i /\ i <= k /\ i + 1 \in 1 .. Len(s.waiting)
    BY <1>1 DEF k
  <2>2. DetachedTo(s, h[i])
    BY <1>6, <2>1
  <2>3. h[i + 1] = DetachNext(s.waiting, h[i], i + 1)
    BY <1>3, <2>1 DEF DetachRun
  <2>4. h[i + 1] = Detached(h[i], s.waiting[i + 1])
    BY <2>3 DEF DetachNext
  <2> QED BY <2>1, <2>2, <2>4, DetachOne
<1>7. k \in T
  <2> HIDE DEF T
  <2> QED BY <1>1, <1>5, <1>6, Induction
<1>8. DetachedTo(s, t)
  BY <1>1, <1>4, <1>7
<1>9. NobodyPassed(z, t)
  BY <1>8 DEF BatchMade, DetachedTo, NobodyPassed
<1> QED BY <1>8, <1>9 DEF BatchMade, DetachedTo

-----------------------------------------------------------------------------
(* schedule() as a whole.                                                   *)

\* Between two steps, and before the batch is begun.
Quiet(s) ==
  /\ Steady(s, {}, NoneGiven) /\ s.items = <<>> /\ s.preempted = {} /\ s.blocked = FALSE
  /\ BudgetOK(s.budget)
  /\ Len(s.running) \in Nat /\ Len(s.running) <= MaxNumSeqs

LEMMA QuietSame ==
  ASSUME NEW s, Quiet(s), NEW t, SameBooks(s, t), t.items = s.items, t.budget = s.budget,
         t.preempted = s.preempted, t.blocked = s.blocked
  PROVE  Quiet(t)
<1>1. Steady(t, {}, NoneGiven) /\ t.running = s.running
  BY SameBooksOK DEF Quiet, SameBooks
<1> QED BY <1>1 DEF Quiet

LEMMA TickedOK ==
  ASSUME NEW s, Quiet(s)
  PROVE  /\ Quiet(Ticked(s)) /\ Ticked(s).budget = s.budget /\ Ticked(s).waiting = s.waiting
         /\ Ticked(s).req = s.req
<1> DEFINE t == Ticked(s)
           age == [r \in Ids |-> IF r \in ToSet(s.waiting) THEN Least(SwitchAge, s.age[r] + 1) ELSE 0]
           idle == Least(SwitchCooldown, s.idle + 1)
           steps == (s.steps + 1) % 2
<1>1. Shape(s)
  BY DEF Quiet, Steady, Frame
<1>2. t = [s EXCEPT !.steps = steps, !.idle = idle, !.age = age]
  BY <1>1 DEF Ticked, Shape
<1> HIDE DEF t, age, idle, steps
<1>3. /\ SameBooks(s, t) /\ t.items = s.items /\ t.budget = s.budget /\ t.waiting = s.waiting
      /\ t.preempted = s.preempted /\ t.blocked = s.blocked
  BY <1>1, <1>2, Zenon DEF Shape, SameBooks
<1>4. Quiet(t)
  BY <1>3, QuietSame
<1> QED BY <1>3, <1>4 DEF t, SameBooks

LEMMA AfterSwitchOK ==
  ASSUME NEW s, Quiet(s), NEW t \in AfterSwitch(s)
  PROVE  /\ Quiet(t) /\ t.budget = s.budget /\ DOMAIN t.req = DOMAIN s.req
         /\ \A x, y : Before(s.waiting, x, y) => Before(t.waiting, x, y)
<1>1. CASE t = s
  BY <1>1
<1>2. ASSUME NEW r \in SwitchVictims(s), t = [Preempted(s, r) EXCEPT !.displaced = @ \cup {r}, !.idle = 0]
      PROVE  /\ Quiet(t) /\ t.budget = s.budget /\ DOMAIN t.req = DOMAIN s.req
             /\ \A x, y : Before(s.waiting, x, y) => Before(t.waiting, x, y)
  <2> DEFINE u == Preempted(s, r)
  <2>1. r \in ToSet(s.running)
    BY DEF SwitchVictims
  <2>2. Queue(s.running) /\ Queue(s.waiting) /\ Steady(s, {}, NoneGiven)
    BY DEF Quiet, Steady, Frame
  <2>3. Listed(s.running, r) /\ r \in Ids
    BY <2>1, <2>2, QueueElements
  <2>4. Standing(s, r, {}, NoneGiven)
    BY <2>2, <2>3 DEF Steady
  <2>5. r \in DOMAIN s.req /\ s.req[r].status = "running"
    BY <2>3, <2>4 DEF Standing
  <2>6. /\ Steady(u, {}, NoneGiven) /\ Len(u.running) <= Len(s.running)
        /\ Len(s.running) \in Nat /\ Len(u.running) \in Nat
        /\ u.budget = s.budget /\ u.items = s.items /\ u.preempted = s.preempted
        /\ u.blocked = s.blocked /\ u.waiting = Append(s.waiting, r) /\ DOMAIN u.req = DOMAIN s.req
    <3>1. u = Preempted(s, r) /\ r \notin {}
      OBVIOUS
    <3> HIDE DEF u
    <3> QED BY <2>2, <2>5, <3>1, PreemptedOK
  <2> HIDE DEF u
  <2>7. Quiet(u)
    <3>1. Len(u.running) <= MaxNumSeqs
      BY <2>6, LimitsAssumption DEF Quiet
    <3> QED BY <2>6, <3>1 DEF Quiet
  <2>8. Shape(u)
    BY <2>6 DEF Steady, Frame
  <2>9. t = [u EXCEPT !.displaced = @ \cup {r}, !.idle = 0]
    BY <1>2 DEF u
  <2>10. /\ SameBooks(u, t) /\ t.items = u.items /\ t.budget = u.budget
         /\ t.preempted = u.preempted /\ t.blocked = u.blocked /\ t.waiting = u.waiting
         /\ t.req = u.req
    BY <2>8, <2>9, Zenon DEF Shape, SameBooks
  <2>11. Quiet(t)
    BY <2>7, <2>10, QuietSame
  <2>12. \A x, y : Before(s.waiting, x, y) => Before(Append(s.waiting, r), x, y)
    BY <2>2, <2>3, BeforeAppended
  <2> QED BY <2>6, <2>10, <2>11, <2>12
<1>3. t = s \/ \E r \in SwitchVictims(s) : t = [Preempted(s, r) EXCEPT !.displaced = @ \cup {r}, !.idle = 0]
  BY Zenon DEF AfterSwitch
<1> QED BY <1>1, <1>2, <1>3, Zenon

\* One schedule(): with a request left, the batch is not empty.
LEMMA ScheduledOK ==
  ASSUME NEW s, Quiet(s), NEW t \in Scheduled(s)
  PROVE  BatchMade(s, t) /\ (DOMAIN s.req # {} => t.items # <<>>)
<1> DEFINE T == Ticked(s)
<1>1. Quiet(T) /\ T.budget = s.budget /\ T.waiting = s.waiting /\ T.req = s.req
  BY TickedOK
<1>2. PICK u \in AfterSwitch(T) :
        t = LET w == WithDrafts(WithDecodes(u))
            IN  IF PrefillBudget(w) = 0 THEN w ELSE WaitersDetached(WithPrefills(w))
  BY DEF Scheduled
<1> HIDE DEF T
<1>3. /\ Quiet(u) /\ u.budget = s.budget /\ DOMAIN u.req = DOMAIN s.req
      /\ \A a, b : Before(s.waiting, a, b) => Before(u.waiting, a, b)
  BY <1>1, AfterSwitchOK
<1> DEFINE v == WithDecodes(u)
           w == WithDrafts(v)
           x == WithPrefills(w)
<1>4. /\ Selecting(u, v) /\ OnlyDecodes(v.items) /\ Len(v.running) <= Len(u.running)
      /\ v.items # <<>> \/ (v = u /\ AllFilling(u))
  <2>1. v = WithDecodes(u)
    OBVIOUS
  <2> HIDE DEF v
  <2>2. Steady(u, {}, NoneGiven) /\ u.items = <<>> /\ u.budget \in Nat /\ u.budget # 0 /\ Untouched(u)
    BY <1>3 DEF Quiet, BudgetOK, Untouched
  <2>3. Selecting(u, v) /\ OnlyDecodes(v.items) /\ Len(v.running) <= Len(u.running)
    BY <2>1, <2>2, WithDecodesOK
  <2>4. v.items # <<>> \/ (v = u /\ AllFilling(u))
    BY <2>1, <2>2, WithDecodesOK
  <2> QED BY <2>3, <2>4
<1>5. w = WithDrafts(v) /\ x = WithPrefills(w)
      /\ t = IF PrefillBudget(w) = 0 THEN w ELSE WaitersDetached(x)
  BY <1>2
<1> HIDE DEF v, w, x
<1>6. Drafting(v) /\ v.budget = s.budget /\ v.budget \in Nat /\ Used(v.items, Phases) <= v.budget
  BY <1>3, <1>4 DEF Selecting, Onward, Drafting, Quiet, BudgetOK
<1>7. Drafting(w) /\ SameButDrafts(v, w) /\ Used(w.items, Phases) <= v.budget /\ (v.items = <<>> => w = v)
  BY <1>5, <1>6, WithDraftsOK
<1>8. w.budget = s.budget /\ w.budget \in Nat /\ Used(w.items, Phases) <= w.budget /\ w.running = v.running
  BY <1>6, <1>7 DEF SameButDrafts
<1>9. Len(w.running) \in Nat /\ Len(w.running) <= MaxNumSeqs
  <2>1. Len(v.running) \in Nat /\ Len(u.running) \in Nat /\ Len(u.running) <= MaxNumSeqs /\ MaxNumSeqs \in Nat
    BY <1>3, <1>4, LimitsAssumption DEF Selecting, Quiet
  <2> QED BY <1>4, <1>8, <2>1
<1>a. \A a, b : Before(s.waiting, a, b) =>
        Before(w.waiting, a, b) /\ a \notin w.preempted /\ b \notin w.preempted
  <2> SUFFICES ASSUME NEW a, NEW b, Before(s.waiting, a, b)
               PROVE  Before(w.waiting, a, b) /\ a \notin w.preempted /\ b \notin w.preempted
    OBVIOUS
  <2>1. Before(u.waiting, a, b) /\ u.preempted = {}
    BY <1>3 DEF Quiet
  <2>2. Steady(u, {}, NoneGiven) /\ Queue(u.waiting)
    BY <1>3 DEF Quiet, Steady, Frame
  <2>3. Listed(u.waiting, a) /\ Listed(u.waiting, b)
    BY <2>1 DEF Before, Listed
  <2>4. a \in Ids /\ b \in Ids
    BY <2>2, <2>3, QueueElements
  <2>5. /\ a \in DOMAIN u.req /\ u.req[a].status = "waiting"
        /\ b \in DOMAIN u.req /\ u.req[b].status = "waiting"
    BY <2>2, <2>3, <2>4 DEF Steady, Standing
  <2>6. ~Chosen(v.items, a) /\ ~Chosen(v.items, b)
    BY <1>4, <2>5 DEF Selecting
  <2>7. Patient(u, v)
    BY <1>4 DEF Selecting, Onward
  <2>8. Before(v.waiting, a, b) /\ a \notin v.preempted /\ b \notin v.preempted
    BY <2>1, <2>5, <2>6, <2>7 DEF Patient
  <2> QED BY <1>7, <2>8 DEF SameButDrafts
<1>b. DOMAIN s.req # {} => PrefillsOnly(w) \/ w.items # <<>>
  <2>1. CASE v.items # <<>>
    <3>1. v.items \in Seq(Item) /\ Len(v.items) # 0
      <4>1. v.items \in Seq(Item)
        BY <1>6 DEF Drafting, ItemsOK
      <4> QED BY <2>1, <4>1
    <3> QED BY <1>7, <3>1 DEF SameButDrafts
  <2>2. CASE v.items = <<>>
    <3>1. w = u /\ AllFilling(u)
      BY <1>4, <1>7, <2>2
    <3> QED BY <1>3, <3>1 DEF Quiet, PrefillsOnly, Untouched
  <2> QED BY <2>1, <2>2
<1>10. CASE PrefillBudget(w) = 0
  <2>1. Used(w.items, {"prefill"}) = 0
    <3>1. w.items \in Seq(Item) /\ \A i \in 1 .. Len(w.items) : w.items[i].phase \notin {"prefill"}
      BY <1>7 DEF Drafting, OnlyDecodes, ItemsOK
    <3> QED BY <3>1, NoneUsed
  <2>2. MaxPrefillTokens \in Nat
    BY LimitsAssumption
  <2>3. Used(w.items, {"prefill"}) <= MaxPrefillTokens
    BY <2>1, <2>2
  <2>4. NobodyPassed(s, w)
    <3> SUFFICES ASSUME NEW a, NEW b, Before(s.waiting, a, b) PROVE ~Listed(w.running, b)
      BY DEF NobodyPassed
    <3>1. Listed(w.waiting, b)
      BY <1>a, Zenon DEF Before, Listed
    <3>2. Steady(w, {}, NoneGiven) /\ Queue(w.waiting)
      BY <1>7 DEF Drafting, Steady, Frame
    <3>3. b \in Ids
      BY <3>1, <3>2, QueueElements
    <3> QED BY <3>1, <3>2, <3>3 DEF Steady, Standing
  <2>5. t = w
    BY <1>5, <1>10
  <2>6. ~PrefillsOnly(w)
    <3> SUFFICES ASSUME PrefillsOnly(w) PROVE FALSE
      OBVIOUS
    <3>1. PrefillBudget(w) # 0
      BY WholeBudget DEF PrefillsOnly, Untouched, BudgetOK
    <3> QED BY <1>10, <3>1
  <2> QED BY <1>7, <1>8, <1>9, <1>b, <2>3, <2>4, <2>5, <2>6 DEF BatchMade, Drafting
<1>11. CASE PrefillBudget(w) # 0
  <2>1. BatchMade(w, x) /\ (PrefillsOnly(w) \/ w.items # <<>> => x.items # <<>>)
    BY <1>5, <1>7, <1>8, <1>9, WithPrefillsOK
  <2>2. t = WaitersDetached(x)
    BY <1>5, <1>11
  <2>3. BatchMade(w, t) /\ t.items = x.items
    BY <2>1, <2>2, WaitersDetachedOK
  <2>4. NobodyPassed(s, t)
    BY <1>a, <2>3 DEF BatchMade, NobodyPassed
  <2> QED BY <1>8, <1>b, <2>1, <2>3, <2>4 DEF BatchMade
<1> QED BY <1>10, <1>11

-----------------------------------------------------------------------------
(* Requests arrive and are over.                                            *)

\* A scheduler no request has reached.
LEMMA NewSchedulerOK ==
  ASSUME NEW b, BudgetOK(b), NEW s, s = NewScheduler(b)
  PROVE  Quiet(s) /\ s.budget = b
<1>1. /\ s.req = [r \in {} |-> 0] /\ s.waiting = <<>> /\ s.running = <<>> /\ s.kv = EmptyKV
      /\ s.items = <<>> /\ s.preempted = {} /\ s.blocked = FALSE /\ s.budget = b /\ Shape(s)
  BY DEF NewScheduler, Shape
<1>2. TablesOK(s.kv, Vocabulary, Salts) /\ Live(s.kv) = {}
  BY <1>1, NoKeyAssumption, EmptyTablesOK
<1>3. Queue(<<>>) /\ Len(<<>>) = 0 /\ \A x : ~Listed(<<>>, x)
  BY DEF Queue, DistinctList, Listed
<1>4. DOMAIN s.req = {} /\ s.req = [x \in DOMAIN s.req |-> s.req[x]]
  BY <1>1
<1>5. Frame(s)
  BY <1>1, <1>2, <1>3, <1>4 DEF Frame
<1>6. \A x \in Ids : Standing(s, x, {}, NoneGiven)
  BY <1>1, <1>2, <1>3, <1>4 DEF Standing
<1>7. Len(s.running) \in Nat /\ Len(s.running) <= MaxNumSeqs
  BY <1>1, <1>3, LimitsAssumption
<1> QED BY <1>1, <1>5, <1>6, <1>7 DEF Quiet, Steady

\* The request made of what is asked for.
Arrived(work) ==
  [prompt |-> work.prompt, out |-> <<>>, max |-> work.max, salt |-> work.salt,
   computed |-> 0, status |-> "waiting"]

LEMMA ArrivedOK ==
  ASSUME NEW work \in Workloads
  PROVE  /\ RequestOK(Arrived(work)) /\ Arrived(work).status = "waiting"
         /\ Arrived(work).computed = 0
<1> DEFINE q == Arrived(work)
<1>1. /\ work.max \in Nat /\ work.prompt \in Seq(Vocabulary) /\ Len(work.prompt) \in 1 .. MaxModelLen
      /\ work.salt \in Salts
  BY WorkloadsAssumption DEF Salts
<1>2. /\ q.prompt = work.prompt /\ q.out = <<>> /\ q.status = "waiting" /\ q.computed = 0
  BY DEF Arrived
<1>3. <<>> \in Seq(OutTokens) /\ Len(<<>>) = 0
  OBVIOUS
<1>4. q \in Request
  BY <1>1, <1>3 DEF Arrived, Request
<1> HIDE DEF q
<1>5. q.prompt # <<>>
  <2>1. Len(q.prompt) # 0
    BY <1>1, <1>2, LimitsAssumption
  <2> QED BY <1>3, <2>1
<1>6. NumTokens(q) <= MaxModelLen
  BY <1>1, <1>2, <1>3, LimitsAssumption DEF NumTokens
<1> QED BY <1>2, <1>4, <1>5, <1>6 DEF RequestOK, q

\* An added request waits, nothing else has changed.
LEMMA AddedOK ==
  ASSUME NEW s, Quiet(s), NEW r \in Ids, r \notin DOMAIN s.req, NEW work \in Workloads,
         NEW t, t = Added(s, r, work)
  PROVE  Quiet(t) /\ t.budget = s.budget /\ NoneAdmitted(s, t)
<1> DEFINE p == Arrived(work)
<1>1. Frame(s) /\ Steady(s, {}, NoneGiven)
  BY DEF Quiet, Steady
<1>2. Queue(s.running) /\ Queue(s.waiting) /\ Shape(s) /\ DOMAIN s.req \subseteq Ids
  BY <1>1 DEF Frame
<1>3. Standing(s, r, {}, NoneGiven)
  BY <1>1 DEF Steady
<1>4. ~Listed(s.waiting, r) /\ ~Listed(s.running, r) /\ r \notin Live(s.kv)
  BY <1>3 DEF Standing
<1>5. /\ Shape(t)
      /\ t.req = [x \in DOMAIN s.req \cup {r} |-> IF x = r THEN p ELSE s.req[x]]
      /\ t.waiting = Append(s.waiting, r)
      /\ t.running = s.running /\ t.kv = s.kv /\ t.budget = s.budget /\ t.items = s.items
      /\ t.preempted = s.preempted /\ t.blocked = s.blocked
  BY <1>2, Zenon DEF Added, Shape, Arrived
<1>6. RequestOK(p) /\ p.status = "waiting" /\ p.computed = 0
  BY ArrivedOK
<1> HIDE DEF p
<1>7. /\ DOMAIN t.req = DOMAIN s.req \cup {r} /\ t.req[r] = p
      /\ \A x \in DOMAIN s.req : x # r => t.req[x] = s.req[x]
      /\ t.req = [x \in DOMAIN t.req |-> t.req[x]]
  BY <1>5
<1>a. t.waiting = Append(s.waiting, r)
  BY <1>5
<1>8. /\ Queue(t.waiting) /\ \A x : Listed(t.waiting, x) <=> Listed(s.waiting, x) \/ x = r
  BY <1>2, <1>4, <1>a, QueueAppend
<1>b. /\ Shape(t) /\ t.running = s.running /\ t.kv = s.kv /\ t.budget = s.budget /\ t.items = s.items
      /\ t.preempted = s.preempted /\ t.blocked = s.blocked
  BY <1>5
<1>9. Frame(t)
  <2>1. DOMAIN t.req \subseteq Ids
    BY <1>2, <1>7
  <2> QED BY <1>1, <1>b, <1>7, <1>8, <2>1 DEF Frame
<1>10. OthersKept(s, t, r)
  BY <1>b, <1>7, <1>8 DEF OthersKept
<1>11. CachedOK(p, NoneGiven[r], t.kv, r)
  <2>1. NoneGiven[r] = <<>> /\ <<>> \in Seq(OutTokens) /\ Len(<<>>) = 0
    BY DEF NoneGiven
  <2>2. NumTokens(p) \in Nat /\ NumTokens(p) >= 1
    BY <1>6, TokenFacts
  <2>3. p.computed < NumTokens(p) + Len(NoneGiven[r])
    BY <1>6, <2>1, <2>2
  <2> QED BY <1>4, <1>6, <1>b, <2>1, <2>3 DEF CachedOK
<1>12. Standing(t, r, {}, NoneGiven)
  BY <1>4, <1>6, <1>7, <1>8, <1>11, <1>b DEF Standing
<1>13. Steady(t, {}, NoneGiven)
  BY <1>1, <1>9, <1>10, <1>12, SteadyStep
<1> QED BY <1>13, <1>b DEF Quiet, NoneAdmitted

\* A finished request leaves a scheduler that is as quiet.
LEMMA FinishedQuiet ==
  ASSUME NEW s, Quiet(s), NEW r, NEW t, t = Finished(s, r)
  PROVE  Quiet(t) /\ t.budget = s.budget /\ NoneAdmitted(s, t)
<1>1. /\ Steady(t, {}, NoneGiven)
      /\ Len(t.running) <= Len(s.running) /\ Len(s.running) \in Nat /\ Len(t.running) \in Nat
      /\ t.budget = s.budget /\ t.items = s.items /\ t.preempted = s.preempted
      /\ t.blocked = s.blocked /\ NoneAdmitted(s, t)
  BY FinishedOK DEF Quiet
<1>2. Len(t.running) <= MaxNumSeqs
  BY <1>1, LimitsAssumption DEF Quiet
<1> QED BY <1>1, <1>2 DEF Quiet

FinishNext(rids, t, i) == Finished(t, rids[i])
FinishedFirst(s, rids, k) == Loop(LAMBDA t, i : Finished(t, rids[i]), s, k)

FinishRun(s, rids, k, h) ==
  /\ h[0] = s
  /\ \A i \in 1 .. k : h[i] = FinishNext(rids, h[i - 1], i)
  /\ h[k] = FinishedFirst(s, rids, k)

\* The passes of the cancellations.
LEMMA FinishPasses ==
  ASSUME NEW s, NEW rids, NEW k, k \in Nat
  PROVE  \E h : FinishRun(s, rids, k, h)
<1> DEFINE Passes(n, g) ==
             g = [i \in 0 .. n |-> IF i = 0 THEN s ELSE FinishNext(rids, g[i - 1], i)]
           T == {n \in Nat : \E g : Passes(n, g)}
<1>1. 0 \in T
  <2>1. Passes(0, [i \in 0 .. 0 |-> s])
    OBVIOUS
  <2> QED BY <2>1, Zenon
<1>2. ASSUME NEW n \in Nat, n \in T PROVE n + 1 \in T
  <2>1. PICK g : Passes(n, g)
    BY <1>2
  <2> DEFINE f == [i \in 0 .. n + 1 |-> IF i <= n THEN g[i] ELSE FinishNext(rids, g[n], n + 1)]
  <2> HIDE DEF FinishNext
  <2>2. Passes(n + 1, f)
    BY <2>1
  <2> HIDE DEF f, Passes
  <2> QED BY <2>2
<1>3. k \in T
  <2> HIDE DEF T
  <2> QED BY <1>1, <1>2, Induction
<1>4. \E g : Passes(k, g)
  BY <1>3
<1> DEFINE g == CHOOSE g : Passes(k, g)
<1>5. Passes(k, g)
  BY <1>4, Zenon
<1>6. FinishedFirst(s, rids, k) = g[k]
  BY Zenon DEF FinishedFirst, Loop, FinishNext
<1> DEFINE n == k
<1> HIDE DEF g, n
<1>7. n \in Nat /\ Passes(n, g)
  BY <1>5 DEF n
<1>8. g[0] = s /\ \A i \in 1 .. n : g[i] = FinishNext(rids, g[i - 1], i)
  BY <1>7
<1>9. FinishRun(s, rids, k, g)
  BY <1>6, <1>8 DEF n, FinishRun
<1> QED BY <1>9

\* So do several.
LEMMA FinishedAllOK ==
  ASSUME NEW s, Quiet(s), NEW rids, Len(rids) \in Nat, NEW t, t = FinishedAll(s, rids)
  PROVE  Quiet(t) /\ t.budget = s.budget /\ NoneAdmitted(s, t)
<1> DEFINE k == Len(rids)
<1>1. k \in Nat
  OBVIOUS
<1>2. t = FinishedFirst(s, rids, k)
  BY Zenon DEF FinishedAll, FinishedFirst
<1> HIDE DEF k
<1>3. PICK h : FinishRun(s, rids, k, h)
  BY <1>1, FinishPasses
<1>4. h[0] = s /\ h[k] = t
  BY <1>2, <1>3 DEF FinishRun
<1> DEFINE T == {i \in Nat : i <= k => Quiet(h[i]) /\ h[i].budget = s.budget /\ NoneAdmitted(s, h[i])}
<1>5. 0 \in T
  BY <1>4 DEF NoneAdmitted
<1>6. ASSUME NEW i \in Nat, i \in T PROVE i + 1 \in T
  <2> SUFFICES ASSUME i + 1 <= k PROVE  /\ Quiet(h[i + 1]) /\ h[i + 1].budget = s.budget
                                            /\ NoneAdmitted(s, h[i + 1])
    OBVIOUS
  <2>1. i + 1 \in 1 .. k /\ (i + 1) - 1 = i /\ i <= k
    BY <1>1
  <2>2. Quiet(h[i]) /\ h[i].budget = s.budget /\ NoneAdmitted(s, h[i])
    BY <1>6, <2>1
  <2>3. h[i + 1] = FinishNext(rids, h[i], i + 1)
    BY <1>3, <2>1 DEF FinishRun
  <2>4. h[i + 1] = Finished(h[i], rids[i + 1])
    BY <2>3 DEF FinishNext
  <2>5. Quiet(h[i + 1]) /\ h[i + 1].budget = h[i].budget /\ NoneAdmitted(h[i], h[i + 1])
    BY <2>2, <2>4, FinishedQuiet
  <2> QED BY <2>2, <2>5 DEF NoneAdmitted
<1>7. k \in T
  <2> HIDE DEF T
  <2> QED BY <1>1, <1>5, <1>6, Induction
<1> QED BY <1>1, <1>4, <1>7

\* The unfinished requests can be listed.
LEMMA RequestsListed ==
  ASSUME NEW s, Quiet(s)
  PROVE  Len(SetToSeq(DOMAIN s.req)) \in Nat
<1> DEFINE S == DOMAIN s.req
<1>1. ASSUME NEW list, Queue(list)
      PROVE  IsFiniteSet(ToSet(list))
  <2>1. list \in Seq(Ids) /\ Len(list) \in Nat /\ DOMAIN list = 1 .. Len(list) /\ list = [i \in DOMAIN list |-> list[i]]
    BY <1>1 DEF Queue
  <2>2. ToSet(list) = {list[i] : i \in 1 .. Len(list)}
    BY <2>1 DEF ToSet
  <2>3. list \in Surjection(1 .. Len(list), ToSet(list))
    BY <2>1, <2>2 DEF Surjection
  <2>4. IsFiniteSet(1 .. Len(list))
    <3> DEFINE n == Len(list)
    <3>1. 1 \in Int /\ n \in Int
      BY <2>1
    <3> HIDE DEF n
    <3>2. IsFiniteSet(1 .. n)
      BY <3>1, FS_Interval
    <3> QED BY <3>2 DEF n
  <2> QED BY <2>3, <2>4, FS_Surjection
<1>2. Queue(s.waiting) /\ Queue(s.running) /\ S \subseteq Ids /\ Steady(s, {}, NoneGiven)
  BY DEF Quiet, Steady, Frame
<1>3. S \subseteq ToSet(s.waiting) \cup ToSet(s.running)
  <2> SUFFICES ASSUME NEW x \in S PROVE Listed(s.waiting, x) \/ Listed(s.running, x)
    BY <1>2, QueueElements
  <2>1. Standing(s, x, {}, NoneGiven)
    BY <1>2 DEF Steady
  <2>2. s.req[x].status \in {"waiting", "running"}
    BY <2>1, TokenFacts DEF Standing
  <2> QED BY <2>1, <2>2 DEF Standing
<1> HIDE DEF S
<1>4. IsFiniteSet(ToSet(s.waiting) \cup ToSet(s.running))
  BY <1>1, <1>2, FS_Union, Zenon
<1>5. IsFiniteSet(S)
  BY <1>3, <1>4, FS_Subset
<1> DEFINE n == Cardinality(S)
           list == SetToSeq(S)
<1>6. n \in Nat /\ ExistsBijection(1 .. n, S)
  BY <1>5, FS_CardinalityType
<1>7. list = CHOOSE f \in [1 .. n -> S] : IsInjective(f)
  BY DEF SetToSeq
<1> HIDE DEF n, list
<1>8. \E f \in [1 .. n -> S] : IsInjective(f)
  BY <1>6 DEF ExistsBijection, Bijection, Injection, IsInjective
<1>9. list \in [1 .. n -> S]
  BY <1>7, <1>8
<1> QED BY <1>6, <1>9 DEF list, S

-----------------------------------------------------------------------------
(* What the runner commits.                                                 *)

\* One list after another.
LEMMA ConcatIs ==
  ASSUME NEW T, NEW s \in Seq(T), NEW t \in Seq(T), NEW all \in Seq(T),
         Len(all) = Len(s) + Len(t),
         \A i \in 1 .. Len(s) : all[i] = s[i],
         \A i \in 1 .. Len(t) : all[Len(s) + i] = t[i]
  PROVE  s \o t = all
<1> DEFINE joined == s \o t
<1>1. /\ joined \in Seq(T) /\ Len(joined) = Len(s) + Len(t)
      /\ Len(s) \in Nat /\ Len(t) \in Nat
      /\ \A i \in 1 .. Len(s) : joined[i] = s[i]
      /\ \A i \in 1 .. Len(t) : joined[Len(s) + i] = t[i]
  OBVIOUS
<1> HIDE DEF joined
<1>2. \A i \in 1 .. Len(all) : joined[i] = all[i]
  <2> TAKE i \in 1 .. Len(all)
  <2>1. CASE i \in 1 .. Len(s)
    BY <1>1, <2>1
  <2>2. CASE i \notin 1 .. Len(s)
    <3> DEFINE j == i - Len(s)
    <3>1. j \in 1 .. Len(t) /\ i = Len(s) + j
      BY <1>1, <2>2
    <3> HIDE DEF j
    <3> QED BY <1>1, <3>1
  <2> QED BY <2>1, <2>2
<1>3. joined = all
  BY <1>1, <1>2, SeqEqual
<1> QED BY <1>3 DEF joined

\* A list and the slice that follows its prefix.
SliceAt(s, a, b) == SubSeq(s, a + 1, a + b)
Extends(T, s, a, b, new) ==
  /\ new \in Seq(T) /\ Len(new) = b
  /\ SubSeq(s, 1, a) \o new = SubSeq(s, 1, a + b)

LEMMA SliceFacts ==
  ASSUME NEW T, NEW s, s \in Seq(T), NEW a, a \in Nat, NEW b, b \in Nat, a + b <= Len(s),
         NEW new, new = SliceAt(s, a, b)
  PROVE  Extends(T, s, a, b, new)
<1> DEFINE n == Len(s)
           p == SubSeq(s, 1, a)
           all == SubSeq(s, 1, a + b)
           c == a + b
<1>1. n \in Nat /\ c \in Nat /\ c <= n /\ a \in 0 .. Len(s) /\ c \in 0 .. Len(s) /\ c = a + b
  OBVIOUS
<1>2. /\ p \in Seq(T) /\ Len(p) = a /\ \A i \in 1 .. a : p[i] = s[i]
      /\ all \in Seq(T) /\ Len(all) = c /\ \A i \in 1 .. c : all[i] = s[i]
  <2> HIDE DEF n, c
  <2>1. p = SubSeq(s, 1, a) /\ all = SubSeq(s, 1, c)
    BY DEF c
  <2> HIDE DEF p, all
  <2> QED BY <1>1, <2>1, PrefixFacts
<1>3. new \in Seq(T) /\ Len(new) = b /\ \A i \in 1 .. b : new[i] = s[a + i]
  <2> DEFINE lo == a + 1
             hi == a + b
  <2>1. /\ lo \in Nat /\ hi \in Nat /\ lo >= 1 /\ hi <= Len(s) /\ Len(s) \in Nat
        /\ new = SubSeq(s, lo, hi) /\ (b = 0 => lo > hi) /\ (b > 0 => lo <= hi) /\ hi + 1 = lo + b
    BY DEF SliceAt
  <2>2. \A i \in 1 .. b : a + i = lo + i - 1
    OBVIOUS
  <2> HIDE DEF lo, hi
  <2>3. new \in Seq(T)
    BY <2>1
  <2>4. Len(new) = b
    BY <2>1
  <2>5. \A i \in 1 .. b : new[i] = s[lo + i - 1]
    BY <2>1, <2>4
  <2> QED BY <2>2, <2>3, <2>4, <2>5
<1> HIDE DEF n, p, all, c
<1> DEFINE y == new
<1>4. /\ y \in Seq(T) /\ Len(y) = b /\ Len(all) = Len(p) + Len(y)
      /\ \A i \in 1 .. Len(p) : all[i] = p[i]
      /\ \A i \in 1 .. Len(y) : all[Len(p) + i] = y[i]
  <2>1. Len(y) = b /\ y \in Seq(T) /\ \A i \in 1 .. b : y[i] = s[a + i]
    BY <1>3
  <2> HIDE DEF y
  <2>2. \A i \in 1 .. b : a + i \in 1 .. c
    BY <1>1
  <2>3. Len(all) = Len(p) + Len(y)
    BY <1>1, <1>2, <2>1
  <2>4. \A i \in 1 .. a : all[i] = p[i]
    <3>1. \A i \in 1 .. a : i \in 1 .. c
      BY <1>1
    <3> QED BY <1>2, <3>1, Zenon
  <2>5. \A i \in 1 .. b : all[a + i] = y[i]
    BY <1>2, <2>1, <2>2, Zenon
  <2> QED BY <1>2, <2>1, <2>3, <2>4, <2>5
<1> HIDE DEF y
<1>5. p \o y = all
  BY <1>2, <1>4, ConcatIs, Zenon
<1>6. p \o new = all
  BY <1>5 DEF y
<1> QED BY <1>1, <1>3, <1>6 DEF p, all, c, Extends

LEMMA EmissionFacts ==
  ASSUME NEW item, item \in Item, NEW e, e \in Emissions(item)
  PROVE  /\ e \in Seq(OutTokens) /\ Len(e) \in Nat
         /\ item.sample => Len(e) >= 1 /\ Len(e) <= item.drafts + 1
         /\ ~item.sample => e = <<>> /\ Len(e) = 0
<1>1. item.drafts \in Nat
  BY DEF Item
<1>2. CASE item.sample
  <2>1. PICK n \in 1 .. item.drafts + 1 : e \in [1 .. n -> OutTokens]
    BY <1>2 DEF Emissions
  <2>2. n \in Nat /\ n >= 1 /\ n <= item.drafts + 1
    BY <1>1
  <2>3. e \in Seq(OutTokens) /\ Len(e) = n
    BY <2>1, <2>2
  <2> QED BY <1>2, <2>2, <2>3
<1>3. CASE ~item.sample
  <2>1. e = <<>>
    BY <1>3 DEF Emissions
  <2>2. <<>> \in Seq(OutTokens) /\ Len(<<>>) = 0
    OBVIOUS
  <2> QED BY <1>3, <2>1, <2>2
<1> QED BY <1>2, <1>3

\* The slice of an entry is the next one of its request.
SliceOf(q, item) ==
  /\ RequestOK(q) /\ q.computed < NumTokens(q)
  /\ item \in Item /\ item.start = q.computed
  /\ item.start + item.count <= NumTokens(q)
  /\ item.sample <=> item.start + item.count = NumTokens(q)
  /\ item.phase = "decode" => ~IsPrefill(q)
  /\ item.drafts > 0 => item.phase = "decode"

\* The committed tokens are the next ones of the request and of those it is
\* given, no more than it owns pages for, and leave one to compute.
Continues(q, item, e, new) ==
  /\ new \in Seq(Vocabulary) /\ Len(new) \in Nat /\ Len(new) <= item.count + item.drafts
  /\ q.computed + Len(new) < NumTokens(q) + Len(e)
  /\ SubSeq(TokenIds(q), 1, q.computed) \o new
       = SubSeq(TokenIds(q) \o e, 1, q.computed + Len(new))

LEMMA CommitFacts ==
  ASSUME NEW q, NEW item, SliceOf(q, item), NEW e, e \in Emissions(item),
         NEW new, new = CommittedTokens(q, item, e)
  PROVE  Continues(q, item, e, new)
<1> DEFINE c == q.computed
           n == NumTokens(q)
           ids == TokenIds(q)
           k == item.count
           d == item.drafts
           m == Len(e)
           all == ids \o e
<1>0. /\ RequestOK(q) /\ q.computed < NumTokens(q)
      /\ item \in Item /\ item.start = q.computed
      /\ item.start + item.count <= NumTokens(q)
      /\ item.sample <=> item.start + item.count = NumTokens(q)
      /\ item.phase = "decode" => ~IsPrefill(q)
      /\ item.drafts > 0 => item.phase = "decode"
  BY DEF SliceOf
<1>1. /\ c \in Nat /\ n \in Nat /\ ids \in Seq(Vocabulary) /\ Len(ids) = n
      /\ Len(q.prompt) \in Nat /\ c < n
  BY <1>0, TokenFacts
<1>2. k \in Nat /\ k >= 1 /\ d \in Nat /\ item.start = c /\ c + k <= n /\ (item.sample <=> c + k = n)
  BY <1>0, <1>1 DEF Item
<1>3. /\ e \in Seq(OutTokens) /\ m \in Nat /\ (item.sample => m >= 1 /\ m <= d + 1)
      /\ (~item.sample => m = 0)
  BY <1>0, EmissionFacts
<1>4. e \in Seq(Vocabulary)
  <2>1. \A i \in 1 .. Len(e) : e[i] \in OutTokens
    BY <1>3
  <2>2. \A i \in 1 .. Len(e) : e[i] \in Vocabulary
    BY <2>1 DEF Vocabulary
  <2> QED BY <1>3, <2>2, SeqDef
<1>5. d = 0 => new = SubSeq(ids, c + 1, c + k)
  BY <1>0, <1>2 DEF CommittedTokens
<1>6. d # 0 => new = SubSeq(all, c + 1, c + m)
  BY <1>0, <1>2, Zenon DEF CommittedTokens
<1>7. d # 0 => c + 1 = n /\ k = 1 /\ m >= 1 /\ m <= d + 1
  <2> SUFFICES ASSUME d # 0 PROVE c + 1 = n /\ k = 1 /\ m >= 1 /\ m <= d + 1
    OBVIOUS
  <2>1. ~IsPrefill(q)
    BY <1>0, <1>2
  <2>2. ~(n - c > 1)
    BY <2>1 DEF IsPrefill
  <2> HIDE DEF c, n, k, d, m
  <2>3. c + 1 = n /\ k = 1 /\ c + k = n
    BY <1>1, <1>2, <2>2
  <2> QED BY <1>2, <1>3, <2>3
<1>8. /\ all \in Seq(Vocabulary) /\ Len(all) = n + m
      /\ \A j \in 0 .. n : SubSeq(all, 1, j) = SubSeq(ids, 1, j)
  <2> HIDE DEF ids, c, n, m, all
  <2>1. \A j \in 0 .. n : ids \o e \in Seq(Vocabulary) /\ Len(ids \o e) = n + m /\ SubSeq(ids \o e, 1, j) = SubSeq(ids, 1, j)
    BY <1>1, <1>4, PrefixOfConcat, Zenon DEF m
  <2>2. 0 \in 0 .. n
    BY <1>1
  <2> QED BY <2>1, <2>2, Zenon DEF all
<1> HIDE DEF c, n, ids, k, d, m, all
<1>9. CASE d = 0
  <2>1. new \in Seq(Vocabulary) /\ Len(new) = k /\ SubSeq(ids, 1, c) \o new = SubSeq(ids, 1, c + k)
    <3>1. ids \in Seq(Vocabulary) /\ c \in Nat /\ k \in Nat /\ c + k <= Len(ids)
      BY <1>1, <1>2
    <3>2. new = SliceAt(ids, c, k)
      BY <1>5, <1>9 DEF SliceAt
    <3>3. Extends(Vocabulary, ids, c, k, new)
      BY <3>1, <3>2, SliceFacts, Zenon
    <3> QED BY <3>3, Zenon DEF Extends
  <2>2. c + k \in 0 .. n
    BY <1>1, <1>2
  <2>3. SubSeq(ids, 1, c) \o new = SubSeq(all, 1, c + k)
    BY <1>8, <2>1, <2>2, Zenon
  <2>4. c + k < n + m
    BY <1>1, <1>2, <1>3
  <2>5. k <= k + d
    BY <1>2
  <2> QED BY <1>2, <2>1, <2>3, <2>4, <2>5, Zenon DEF c, n, ids, k, d, m, all, Continues
<1>10. CASE d # 0
  <2>1. c + m <= n + m /\ c + m < n + m
    BY <1>1, <1>3
  <2>2. new \in Seq(Vocabulary) /\ Len(new) = m /\ SubSeq(all, 1, c) \o new = SubSeq(all, 1, c + m)
    <3>1. Len(all) = n + m /\ all \in Seq(Vocabulary)
      BY <1>8
    <3>2. all \in Seq(Vocabulary) /\ c \in Nat /\ m \in Nat /\ c + m <= Len(all)
      BY <1>1, <1>3, <2>1, <3>1
    <3>3. new = SliceAt(all, c, m)
      BY <1>6, <1>10 DEF SliceAt
    <3>4. Extends(Vocabulary, all, c, m, new)
      BY <3>2, <3>3, SliceFacts, Zenon
    <3> QED BY <3>4, Zenon DEF Extends
  <2>3. c \in 0 .. n
    BY <1>1
  <2>4. SubSeq(ids, 1, c) \o new = SubSeq(all, 1, c + m)
    BY <1>8, <2>2, <2>3
  <2>5. m <= k + d
    BY <1>2, <1>3, <1>7, <1>10
  <2> QED BY <1>3, <2>1, <2>2, <2>4, <2>5, Zenon DEF c, n, ids, k, d, m, all, Continues
<1> QED BY <1>9, <1>10

\* The cache after an entry has run.
Lengthened(kv, q, r, new) == q.states[r].tokens = kv.states[r].tokens \o new

LEMMA CommittedCache ==
  ASSUME NEW kv, TablesOK(kv, Vocabulary, Salts), NEW r \in Live(kv),
         NEW new, new \in Seq(Vocabulary), NEW n, n \in Nat, Len(new) <= n, Own(kv, r, n),
         NEW q, q = Committed(kv, r, new) \/ q = Trimmed(Committed(kv, r, new), r)
  PROVE  OthersCached(kv, q, r) /\ Live(q) = Live(kv) /\ Lengthened(kv, q, r, new)
<1> DEFINE c == Committed(kv, r, new)
<1>1. c = Committed(kv, r, new) /\ (q = c \/ q = Trimmed(c, r))
  OBVIOUS
<1> HIDE DEF c
<1>2. TablesOK(c, Vocabulary, Salts) /\ Live(c) = Live(kv)
  BY <1>1, CommittedOK
<1>3. \A x \in Live(kv) \ {r} : c.states[x] = kv.states[x]
  BY <1>1, CommittedOK
<1>4. c.states[r].tokens = kv.states[r].tokens \o new
  BY <1>1, CommittedOK, SMTT(30)
<1>5. \A x \in Live(kv) \ {r}, k \in Nat : Own(kv, x, k) => Own(c, x, k)
  BY <1>1, CommittedOK, SMTT(30)
<1>6. CASE q = c
  BY <1>2, <1>3, <1>4, <1>5, <1>6 DEF OthersCached, Lengthened
<1>7. CASE q = Trimmed(c, r)
  <2> DEFINE d == Trimmed(c, r)
  <2>1. /\ TablesOK(d, Vocabulary, Salts) /\ Live(d) = Live(c)
        /\ \A x \in Live(c) \ {r} : d.states[x] = c.states[x]
        /\ SameTokens(d.states[r], c.states[r])
    BY <1>2, TrimmedOK
  <2>2. \A x \in Live(c) \ {r}, k \in Nat : Own(c, x, k) => Own(d, x, k)
    BY <1>2, OwnAfterTrim
  <2> HIDE DEF d
  <2>3. q = d
    BY <1>7, SMTT(30) DEF d
  <2>4. q.states[r].tokens = kv.states[r].tokens \o new
    BY <1>4, <2>1, <2>3 DEF SameTokens
  <2> QED BY <1>2, <1>3, <1>5, <2>1, <2>2, <2>3, <2>4 DEF OthersCached, Lengthened
<1> QED BY <1>1, <1>6, <1>7

\* The runner and the decoder: the request has the tokens it was given still to
\* take over, nothing else has changed.
LEMMA ExecutedOK ==
  ASSUME NEW s, NEW given, Steady(s, {}, given),
         NEW item, item \in Item, ItemOK(s, item), given[item.rid] = <<>>,
         NEW e, e \in Emissions(item),
         NEW after, after[item.rid] = e, \A x \in Ids : x # item.rid => after[x] = given[x],
         NEW t, t = Executed(s, item, e)
  PROVE  /\ Steady(t, {}, after) /\ OthersKept(s, t, item.rid)
         /\ DOMAIN t.req = DOMAIN s.req /\ t.running = s.running
         /\ t.budget = s.budget /\ t.items = s.items /\ t.preempted = s.preempted
         /\ t.blocked = s.blocked
<1> DEFINE r == item.rid
           q == s.req[r]
           new == CommittedTokens(q, item, e)
           c == q.computed
           len == Len(new)
           p == WithProgress(q, c + len, "running")
           n == item.count + item.drafts
<1>1. Frame(s)
  BY DEF Steady
<1>2. /\ Shape(s) /\ TablesOK(s.kv, Vocabulary, Salts)
      /\ s.req = [x \in DOMAIN s.req |-> s.req[x]] /\ Live(s.kv) \subseteq Ids
  BY <1>1 DEF Frame
<1>3. /\ r \in Live(s.kv) /\ r \in DOMAIN s.req /\ q.status = "running"
      /\ item.start = q.computed
      /\ item.start + item.count <= NumTokens(q)
      /\ item.sample <=> item.start + item.count = NumTokens(q)
      /\ item.phase = "decode" => ~IsPrefill(q)
      /\ item.drafts > 0 => item.phase = "decode"
      /\ Own(s.kv, r, n) /\ n \in Nat /\ r \in Ids
  BY <1>2 DEF ItemOK, Item
<1>4. /\ RequestOK(q) /\ q.computed < NumTokens(q) /\ c \in Nat
      /\ s.kv.states[r].tokens = SubSeq(TokenIds(q), 1, q.computed)
  <2> DEFINE x == r
  <2>1. x \in Live(s.kv) /\ given[x] = <<>>
    BY <1>3
  <2> HIDE DEF x
  <2>2. /\ RequestOK(s.req[x]) /\ s.req[x].computed < NumTokens(s.req[x]) /\ s.req[x].computed \in Nat
        /\ s.kv.states[x].tokens = SubSeq(TokenIds(s.req[x]), 1, s.req[x].computed)
    BY <2>1, ComputedFacts, SMTT(30)
  <2> QED BY <2>2 DEF x
<1>5. /\ new \in Seq(Vocabulary) /\ len \in Nat /\ len <= n
      /\ c + len < NumTokens(q) + Len(e)
      /\ SubSeq(TokenIds(q), 1, c) \o new = SubSeq(TokenIds(q) \o e, 1, c + len)
  <2> DEFINE y == q
             z == new
  <2>1. SliceOf(y, item)
    BY <1>3, <1>4 DEF SliceOf
  <2>2. z = CommittedTokens(y, item, e)
    OBVIOUS
  <2> HIDE DEF y, z
  <2>3. Continues(y, item, e, z)
    BY <2>1, <2>2, CommitFacts
  <2> QED BY <2>3, Zenon DEF y, z, Continues
<1>6. e \in Seq(OutTokens)
  BY EmissionFacts
<1>7. /\ Shape(t) /\ t.req = [s.req EXCEPT ![r] = [@ EXCEPT !.computed = c + len]]
      /\ t.kv = Committed(s.kv, r, new) \/ t.kv = Trimmed(Committed(s.kv, r, new), r)
      /\ t.running = s.running /\ t.waiting = s.waiting
      /\ t.budget = s.budget /\ t.items = s.items /\ t.preempted = s.preempted
      /\ t.blocked = s.blocked
  <2> DEFINE y == Committed(s.kv, r, new)
             kv == IF NumDraftTokens > 0 /\ item.phase = "decode" THEN Trimmed(y, r) ELSE y
             k == c + len
             x == r
  <2>1. t = [s EXCEPT !.kv = kv, !.req[x].computed = k]
    BY DEF Executed
  <2>2. kv = y \/ kv = Trimmed(y, r)
    OBVIOUS
  <2> HIDE DEF y, kv, k, x
  <2>3. /\ Shape(t) /\ t.req = [s.req EXCEPT ![x] = [@ EXCEPT !.computed = k]]
        /\ t.kv = kv
        /\ t.running = s.running /\ t.waiting = s.waiting
        /\ t.budget = s.budget /\ t.items = s.items /\ t.preempted = s.preempted
        /\ t.blocked = s.blocked
    BY <1>2, <2>1, ZenonT(30) DEF Shape
  <2>4. t.kv = Committed(s.kv, r, new) \/ t.kv = Trimmed(Committed(s.kv, r, new), r)
    <3>1. t.kv = kv
      BY <2>3
    <3> QED BY <2>2, <3>1, Zenon DEF y
  <2>5. t.req = [s.req EXCEPT ![r] = [@ EXCEPT !.computed = c + len]]
    <3>1. t.req = [s.req EXCEPT ![x] = [@ EXCEPT !.computed = k]]
      BY <2>3
    <3> QED BY <3>1, Zenon DEF k, x
  <2> QED BY <2>3, <2>4, <2>5, Zenon
<1>8. [q EXCEPT !.computed = c + len] = p
  <2> DEFINE k == c + len
  <2>1. p = WithProgress(q, k, "running") /\ q \in Request /\ q.status = "running"
    BY <1>3, <1>4 DEF RequestOK
  <2> HIDE DEF k, p, q
  <2>2. [q EXCEPT !.computed = k] = p
    BY <2>1, ZenonT(30) DEF WithProgress, Request
  <2> QED BY <2>2 DEF k
<1> HIDE DEF new, len
<1>9. /\ OthersCached(s.kv, t.kv, r) /\ Live(t.kv) = Live(s.kv)
      /\ t.kv.states[r].tokens = s.kv.states[r].tokens \o new
  <2> DEFINE kv == s.kv
             d == t.kv
             x == r
             k == n
             z == new
  <2>1. /\ TablesOK(kv, Vocabulary, Salts) /\ x \in Live(kv) /\ z \in Seq(Vocabulary)
        /\ k \in Nat /\ Len(z) <= k /\ Own(kv, x, k)
        /\ d = Committed(kv, x, z) \/ d = Trimmed(Committed(kv, x, z), x)
    BY <1>2, <1>3, <1>5, <1>7, Zenon DEF len
  <2> HIDE DEF kv, d, x, k, z
  <2>2. OthersCached(kv, d, x) /\ Live(d) = Live(kv) /\ Lengthened(kv, d, x, z)
    <3>1. TablesOK(kv, Vocabulary, Salts) /\ x \in Live(kv) /\ z \in Seq(Vocabulary)
      BY <2>1
    <3>2. k \in Nat /\ Len(z) <= k /\ Own(kv, x, k)
      BY <2>1
    <3>3. d = Committed(kv, x, z) \/ d = Trimmed(Committed(kv, x, z), x)
      BY <2>1
    <3> QED BY <3>1, <3>2, <3>3, CommittedCache
  <2> QED BY <2>2, ZenonT(30) DEF kv, d, x, z, Lengthened
<1>10. /\ RequestOK(p) /\ p.computed = c + len /\ p.status = "running" /\ NumTokens(p) = NumTokens(q)
       /\ TokenIds(p) = TokenIds(q)
  <2> DEFINE k == c + len
  <2>1. k \in Nat
    <3>1. c \in Nat /\ len \in Nat
      BY <1>4, <1>5, Zenon
    <3> HIDE DEF c
    <3> QED BY <3>1
  <2>a. RequestOK(q) /\ p = WithProgress(q, k, "running") /\ "running" \in {"waiting", "running"}
    BY <1>4, Zenon
  <2> HIDE DEF k, p, q
  <2>2. /\ RequestOK(p) /\ p.computed = k /\ p.status = "running" /\ NumTokens(p) = NumTokens(q)
        /\ TokenIds(p) = TokenIds(q)
    BY <2>1, <2>a, ProgressFacts
  <2> QED BY <2>2 DEF k
<1>11. t.req = [s.req EXCEPT ![r] = p]
  <2>1. t.req = [s.req EXCEPT ![r] = [q EXCEPT !.computed = c + len]]
    BY <1>7
  <2> QED BY <1>8, <2>1
<1> HIDE DEF p
<1>12. /\ DOMAIN t.req = DOMAIN s.req /\ t.req[r] = p /\ t.req = [x \in DOMAIN t.req |-> t.req[x]]
       /\ \A x : x # r /\ x \in DOMAIN s.req => t.req[x] = s.req[x]
  <2> HIDE DEF r
  <2> QED BY <1>2, <1>3, <1>11, RequestReplaced
<1>13. /\ Shape(t) /\ t.running = s.running /\ t.waiting = s.waiting /\ t.budget = s.budget
       /\ t.items = s.items /\ t.preempted = s.preempted /\ t.blocked = s.blocked
  BY <1>7
<1> HIDE DEF q, c, n
<1>14. Frame(t)
  <2>1. TablesOK(t.kv, Vocabulary, Salts)
    BY <1>9, ZenonT(30) DEF OthersCached
  <2> QED BY <1>1, <1>9, <1>12, <1>13, <2>1, ZenonT(30) DEF Frame
<1>15. OthersKept(s, t, r)
  BY <1>9, <1>12, <1>13, ZenonT(30) DEF OthersKept, OthersCached
<1>16. CachedOK(p, after[r], t.kv, r)
  <2>1. after[r] = e
    OBVIOUS
  <2>2. t.kv.states[r].tokens = SubSeq(TokenIds(p) \o e, 1, p.computed)
    BY <1>4, <1>5, <1>9, <1>10, ZenonT(30) DEF c
  <2>3. p.computed < NumTokens(p) + Len(e)
    BY <1>5, <1>10
  <2>4. r \in Live(t.kv)
    BY <1>3, <1>9, ZenonT(30)
  <2> QED BY <1>6, <2>1, <2>2, <2>3, <2>4 DEF CachedOK
<1>17. Standing(s, r, {}, given)
  BY <1>3 DEF Steady
<1>18. Standing(t, r, {}, after)
  <2>1. s.req[r].status = "running"
    BY <1>3 DEF q
  <2> QED BY <1>3, <1>9, <1>10, <1>12, <1>13, <1>16, <1>17, <2>1, Zenon DEF Standing
<1>19. Steady(t, {}, after)
  BY <1>14, <1>15, <1>18, SteadyStep
<1> QED BY <1>12, <1>13, <1>15, <1>19

\* The two parts of a concatenation.
Parts(all, s, t) ==
  /\ Len(all) = Len(s) + Len(t)
  /\ \A i \in 1 .. Len(s) : all[i] = s[i]
  /\ \A i \in 1 .. Len(t) : all[Len(s) + i] = t[i]

LEMMA ConcatParts ==
  ASSUME NEW T, NEW s, s \in Seq(T), NEW t, t \in Seq(T)
  PROVE  s \o t \in Seq(T) /\ Parts(s \o t, s, t)
BY DEF Parts

LEMMA ConcatIsAssociative ==
  ASSUME NEW T, NEW a \in Seq(T), NEW b \in Seq(T), NEW c \in Seq(T)
  PROVE  a \o (b \o c) = (a \o b) \o c
<1> DEFINE left == a \o b
           right == b \o c
           all == left \o c
<1>1. /\ left \in Seq(T) /\ Len(left) = Len(a) + Len(b) /\ Len(a) \in Nat /\ Len(b) \in Nat
      /\ \A i \in 1 .. Len(a) : left[i] = a[i]
      /\ \A i \in 1 .. Len(b) : left[Len(a) + i] = b[i]
  OBVIOUS
<1>2. /\ right \in Seq(T) /\ Len(right) = Len(b) + Len(c) /\ Len(c) \in Nat
      /\ \A i \in 1 .. Len(b) : right[i] = b[i]
      /\ \A i \in 1 .. Len(c) : right[Len(b) + i] = c[i]
  OBVIOUS
<1> HIDE DEF left, right
<1>3. /\ all \in Seq(T) /\ Len(all) = Len(left) + Len(c)
      /\ \A i \in 1 .. Len(left) : all[i] = left[i]
      /\ \A i \in 1 .. Len(c) : all[Len(left) + i] = c[i]
  <2>1. all \in Seq(T) /\ Parts(all, left, c)
    BY <1>1, ConcatParts
  <2> HIDE DEF all
  <2> QED BY <2>1 DEF Parts
<1> HIDE DEF all
<1>4. Len(all) = Len(a) + Len(right)
  BY <1>1, <1>2, <1>3
<1>5. \A i \in 1 .. Len(a) : all[i] = a[i]
  <2>1. \A i \in 1 .. Len(a) : i \in 1 .. Len(left)
    BY <1>1
  <2> QED BY <1>1, <1>3, <2>1
<1>6. \A i \in 1 .. Len(right) : all[Len(a) + i] = right[i]
  <2> TAKE i \in 1 .. Len(right)
  <2>1. CASE i \in 1 .. Len(b)
    <3>1. Len(a) + i \in 1 .. Len(left)
      BY <1>1, <2>1
    <3> QED BY <1>1, <1>2, <1>3, <2>1, <3>1, Zenon
  <2>2. CASE i \notin 1 .. Len(b)
    <3> DEFINE j == i - Len(b)
    <3>1. j \in 1 .. Len(c) /\ i = Len(b) + j /\ Len(a) + i = Len(left) + j
      BY <1>1, <1>2, <2>2
    <3> HIDE DEF j
    <3> QED BY <1>2, <1>3, <3>1, SMTT(30)
  <2> QED BY <2>1, <2>2
<1>7. a \o right = all
  BY <1>2, <1>3, <1>4, <1>5, <1>6, ConcatIs, Zenon
<1> QED BY <1>7 DEF left, right, all

-----------------------------------------------------------------------------
(* A request takes over what it was given.                                  *)

Grown(q, e) == [q EXCEPT !.out = @ \o e]

LEMMA GrownOK ==
  ASSUME NEW q, RequestOK(q), NEW e, e \in Seq(OutTokens), NumTokens(q) + Len(e) <= MaxModelLen,
         NEW kv, NEW r, CachedOK(q, e, kv, r)
  PROVE  /\ RequestOK(Grown(q, e)) /\ Grown(q, e).status = q.status
         /\ CachedOK(Grown(q, e), <<>>, kv, r)
<1> DEFINE p == Grown(q, e)
           out == q.out \o e
<1>1. /\ q \in Request /\ q.prompt # <<>> /\ q.prompt \in Seq(Vocabulary) /\ q.out \in Seq(OutTokens)
      /\ q.out \in Seq(Vocabulary) /\ Len(q.prompt) \in Nat /\ Len(q.out) \in Nat
  BY TokenFacts DEF RequestOK
<1>2. out \in Seq(OutTokens) /\ Len(out) = Len(q.out) + Len(e) /\ Len(e) \in Nat
  BY <1>1
<1>3. e \in Seq(Vocabulary)
  <2>1. \A i \in 1 .. Len(e) : e[i] \in OutTokens
    OBVIOUS
  <2>2. \A i \in 1 .. Len(e) : e[i] \in Vocabulary
    BY <2>1 DEF Vocabulary
  <2> QED BY <1>2, <2>2, SeqDef
<1>4. q.prompt \o out = TokenIds(q) \o e
  <2> DEFINE a == q.prompt
             b == q.out
  <2>1. a \in Seq(Vocabulary) /\ b \in Seq(Vocabulary) /\ e \in Seq(Vocabulary)
    BY <1>1, <1>3
  <2> HIDE DEF a, b
  <2>2. a \o (b \o e) = (a \o b) \o e
    BY <2>1, ConcatIsAssociative, SMTT(30)
  <2> QED BY <2>2, Zenon DEF a, b, TokenIds
<1>5. p = [q EXCEPT !.out = out]
  BY DEF Grown
<1> HIDE DEF p, out
<1>6. /\ p \in Request /\ p.prompt = q.prompt /\ p.out = out /\ p.status = q.status
      /\ p.computed = q.computed
  BY <1>1, <1>2, <1>5, Zenon DEF Request
<1>7. NumTokens(p) = NumTokens(q) + Len(e)
  <2> DEFINE a == Len(q.prompt)
             b == Len(q.out)
             c == Len(e)
  <2>1. a \in Nat /\ b \in Nat /\ c \in Nat /\ NumTokens(p) = a + Len(out) /\ Len(out) = b + c
        /\ NumTokens(q) = a + b
    BY <1>1, <1>2, <1>6, Zenon DEF NumTokens
  <2> HIDE DEF a, b, c
  <2>2. NumTokens(p) = NumTokens(q) + c
    BY <2>1
  <2> QED BY <2>2 DEF c
<1>8. TokenIds(p) = TokenIds(q) \o e
  BY <1>4, <1>6, Zenon DEF TokenIds
<1>9. RequestOK(p)
  BY <1>1, <1>6, <1>7 DEF RequestOK
<1>10. TokenIds(p) \o <<>> = TokenIds(p) /\ Len(<<>>) = 0 /\ <<>> \in Seq(OutTokens)
  <2>1. TokenIds(p) \in Seq(Vocabulary)
    BY <1>9, TokenFacts
  <2>2. <<>> \in Seq(OutTokens)
    OBVIOUS
  <2> QED BY <2>1, <2>2, NothingGiven
<1>11. p.computed < NumTokens(p) + Len(<<>>)
  <2>1. q.computed < NumTokens(q) + Len(e)
    BY DEF CachedOK
  <2>2. NumTokens(p) \in Nat
    BY <1>9, TokenFacts
  <2>3. NumTokens(p) + Len(<<>>) = NumTokens(p)
    BY <1>10, <2>2
  <2> QED BY <1>6, <1>7, <2>1, <2>3
<1>12. IF r \in Live(kv) THEN kv.states[r].tokens = SubSeq(TokenIds(p) \o <<>>, 1, p.computed)
       ELSE p.computed = 0
  BY <1>6, <1>8, <1>10, Zenon DEF CachedOK
<1> QED BY <1>6, <1>9, <1>10, <1>11, <1>12 DEF CachedOK, p

\* step() appends what was emitted, or the request is over.
LEMMA SampledOK ==
  ASSUME NEW s, NEW given, Steady(s, {}, given),
         NEW item, item.rid \in DOMAIN s.req, NEW e, given[item.rid] = e,
         NEW after, after[item.rid] = <<>>, \A x \in Ids : x # item.rid => after[x] = given[x],
         NEW t, t = Sampled(s, item, e)
  PROVE  /\ Steady(t, {}, after) /\ OthersKept(s, t, item.rid)
         /\ Len(t.running) <= Len(s.running) /\ Len(s.running) \in Nat /\ Len(t.running) \in Nat
         /\ t.budget = s.budget /\ t.items = s.items /\ t.preempted = s.preempted
         /\ t.blocked = s.blocked /\ NoneAdmitted(s, t)
<1> DEFINE r == item.rid
           q == s.req[r]
           ends == {i \in 1 .. Len(e) : Ends(q, e, i)}
           p == Grown(q, e)
<1>1. Frame(s)
  BY DEF Steady
<1>2. /\ Shape(s) /\ Queue(s.running) /\ r \in DOMAIN s.req /\ r \in Ids
      /\ s.req = [x \in DOMAIN s.req |-> s.req[x]]
  BY <1>1 DEF Frame
<1>3. Standing(s, r, {}, given)
  BY <1>2 DEF Steady
<1>4. RequestOK(q) /\ CachedOK(q, e, s.kv, r) /\ e \in Seq(OutTokens) /\ Len(e) \in Nat
  <2>1. RequestOK(s.req[r]) /\ CachedOK(s.req[r], given[r], s.kv, r)
    BY <1>2, <1>3 DEF Standing
  <2>2. RequestOK(q) /\ CachedOK(q, e, s.kv, r)
    BY <2>1, Zenon
  <2> HIDE DEF q
  <2>3. e \in Seq(OutTokens)
    BY <2>2 DEF CachedOK
  <2>4. Len(e) \in Nat
    BY <2>3
  <2> QED BY <2>2, <2>3, <2>4
<1>5. CASE ends # {}
  <2>1. t = Finished(s, r)
    BY <1>5 DEF Sampled
  <2> HIDE DEF r, ends, q, p
  <2>2. \A x \in Ids : x # r => after[x] = given[x]
    BY DEF r
  <2>3. /\ Steady(t, {}, after) /\ OthersKept(s, t, r)
        /\ DOMAIN t.req = DOMAIN s.req \ {r}
        /\ Len(t.running) <= Len(s.running) /\ Len(s.running) \in Nat /\ Len(t.running) \in Nat
        /\ t.budget = s.budget /\ t.items = s.items /\ t.preempted = s.preempted
        /\ t.blocked = s.blocked /\ NoneAdmitted(s, t)
    BY <2>1, <2>2, FinishedOK
  <2> QED BY <2>3 DEF r
<1>6. CASE ends = {}
  <2>1. NumTokens(q) + Len(e) <= MaxModelLen
    <3>1. CASE Len(e) = 0
      <4>1. NumTokens(q) \in Nat /\ NumTokens(q) <= MaxModelLen
        <5> HIDE DEF q
        <5> QED BY <1>4, TokenFacts DEF RequestOK
      <4> HIDE DEF q
      <4> QED BY <3>1, <4>1
    <3>2. CASE Len(e) # 0
      <4>1. Len(e) \in 1 .. Len(e)
        BY <1>4, <3>2
      <4>2. ~Ends(q, e, Len(e))
        BY <1>6, <4>1
      <4>3. ~(NumTokens(q) + Len(e) >= MaxModelLen)
        BY <4>2, Zenon DEF Ends
      <4>4. NumTokens(q) \in Nat
        <5> HIDE DEF q
        <5> QED BY <1>4, TokenFacts
      <4> HIDE DEF q
      <4> QED BY <1>4, <4>3, <4>4, LimitsAssumption
    <3> QED BY <3>1, <3>2
  <2>2. RequestOK(p) /\ p.status = q.status /\ CachedOK(p, <<>>, s.kv, r)
    <3> HIDE DEF q
    <3> QED BY <1>4, <2>1, GrownOK
  <2>3. /\ Shape(t) /\ t.req = [s.req EXCEPT ![r] = p]
        /\ t.kv = s.kv /\ t.running = s.running /\ t.waiting = s.waiting
        /\ t.budget = s.budget /\ t.items = s.items /\ t.preempted = s.preempted
        /\ t.blocked = s.blocked
    <3> DEFINE x == r
               out == q.out \o e
    <3>1. t = [s EXCEPT !.req[x].out = out]
      BY <1>6 DEF Sampled
    <3>2. p = [s.req[x] EXCEPT !.out = out]
      BY DEF Grown
    <3> HIDE DEF x, out, p
    <3>3. /\ Shape(t) /\ t.req = [s.req EXCEPT ![x] = [@ EXCEPT !.out = out]]
          /\ t.kv = s.kv /\ t.running = s.running /\ t.waiting = s.waiting
          /\ t.budget = s.budget /\ t.items = s.items /\ t.preempted = s.preempted
          /\ t.blocked = s.blocked
      BY <1>2, <3>1 DEF Shape
    <3>4. t.req = [s.req EXCEPT ![x] = p]
      <4>1. t.req = [s.req EXCEPT ![x] = [@ EXCEPT !.out = out]]
        BY <3>3
      <4> QED BY <3>2, <4>1
    <3> QED BY <3>3, <3>4 DEF x
  <2> HIDE DEF p
  <2>4. /\ DOMAIN t.req = DOMAIN s.req /\ t.req[r] = p /\ t.req = [x \in DOMAIN t.req |-> t.req[x]]
        /\ \A x : x # r /\ x \in DOMAIN s.req => t.req[x] = s.req[x]
    <3> HIDE DEF r
    <3> QED BY <1>2, <2>3, RequestReplaced
  <2>5. /\ Shape(t) /\ t.kv = s.kv /\ t.running = s.running /\ t.waiting = s.waiting
        /\ t.budget = s.budget /\ t.items = s.items /\ t.preempted = s.preempted
        /\ t.blocked = s.blocked
    BY <2>3
  <2>6. Frame(t)
    BY <1>1, <2>4, <2>5 DEF Frame
  <2>7. OthersKept(s, t, r)
    BY <2>4, <2>5 DEF OthersKept
  <2>8. Standing(t, r, {}, after)
    <3>1. after[r] = <<>>
      OBVIOUS
    <3> QED BY <1>3, <2>2, <2>4, <2>5, <3>1 DEF Standing
  <2>9. Steady(t, {}, after)
    BY <2>6, <2>7, <2>8, SteadyStep
  <2>10. Len(s.running) \in Nat
    BY <1>2, QueueElements
  <2> QED BY <2>5, <2>7, <2>9, <2>10 DEF NoneAdmitted
<1> QED BY <1>5, <1>6

ExecuteNext(items, e, t, i) == Executed(t, items[i], e[i])
ExecutedFirst(s, items, e, k) == Loop(LAMBDA t, i : Executed(t, items[i], e[i]), s, k)

ExecuteRun(s, items, e, k, h) ==
  /\ h[0] = s
  /\ \A i \in 1 .. k : h[i] = ExecuteNext(items, e, h[i - 1], i)
  /\ h[k] = ExecutedFirst(s, items, e, k)

\* The passes of the runner.
LEMMA ExecutePasses ==
  ASSUME NEW s, NEW items, NEW e, NEW k, k \in Nat
  PROVE  \E h : ExecuteRun(s, items, e, k, h)
<1> DEFINE Passes(n, g) ==
             g = [i \in 0 .. n |-> IF i = 0 THEN s ELSE ExecuteNext(items, e, g[i - 1], i)]
           T == {n \in Nat : \E g : Passes(n, g)}
<1>1. 0 \in T
  <2>1. Passes(0, [i \in 0 .. 0 |-> s])
    OBVIOUS
  <2> QED BY <2>1, Zenon
<1>2. ASSUME NEW n \in Nat, n \in T PROVE n + 1 \in T
  <2>1. PICK g : Passes(n, g)
    BY <1>2
  <2> DEFINE f == [i \in 0 .. n + 1 |-> IF i <= n THEN g[i] ELSE ExecuteNext(items, e, g[n], n + 1)]
  <2> HIDE DEF ExecuteNext
  <2>2. Passes(n + 1, f)
    BY <2>1
  <2> HIDE DEF f, Passes
  <2> QED BY <2>2
<1>3. k \in T
  <2> HIDE DEF T
  <2> QED BY <1>1, <1>2, Induction
<1>4. \E g : Passes(k, g)
  BY <1>3
<1> DEFINE g == CHOOSE g : Passes(k, g)
<1>5. Passes(k, g)
  BY <1>4, Zenon
<1>6. ExecutedFirst(s, items, e, k) = g[k]
  BY Zenon DEF ExecutedFirst, Loop, ExecuteNext
<1> DEFINE n == k
<1> HIDE DEF g, n
<1>7. n \in Nat /\ Passes(n, g)
  BY <1>5 DEF n
<1>8. g[0] = s /\ \A i \in 1 .. n : g[i] = ExecuteNext(items, e, g[i - 1], i)
  BY <1>7
<1>9. ExecuteRun(s, items, e, k, g)
  BY <1>6, <1>8 DEF n, ExecuteRun
<1> QED BY <1>9

SampleNext(items, e, t, i) == Sampled(t, items[i], e[i])
SampledFirst(s, items, e, k) == Loop(LAMBDA t, i : Sampled(t, items[i], e[i]), s, k)

SampleRun(s, items, e, k, h) ==
  /\ h[0] = s
  /\ \A i \in 1 .. k : h[i] = SampleNext(items, e, h[i - 1], i)
  /\ h[k] = SampledFirst(s, items, e, k)

\* The passes over the samples.
LEMMA SamplePasses ==
  ASSUME NEW s, NEW items, NEW e, NEW k, k \in Nat
  PROVE  \E h : SampleRun(s, items, e, k, h)
<1> DEFINE Passes(n, g) ==
             g = [i \in 0 .. n |-> IF i = 0 THEN s ELSE SampleNext(items, e, g[i - 1], i)]
           T == {n \in Nat : \E g : Passes(n, g)}
<1>1. 0 \in T
  <2>1. Passes(0, [i \in 0 .. 0 |-> s])
    OBVIOUS
  <2> QED BY <2>1, Zenon
<1>2. ASSUME NEW n \in Nat, n \in T PROVE n + 1 \in T
  <2>1. PICK g : Passes(n, g)
    BY <1>2
  <2> DEFINE f == [i \in 0 .. n + 1 |-> IF i <= n THEN g[i] ELSE SampleNext(items, e, g[n], n + 1)]
  <2> HIDE DEF SampleNext
  <2>2. Passes(n + 1, f)
    BY <2>1
  <2> HIDE DEF f, Passes
  <2> QED BY <2>2
<1>3. k \in T
  <2> HIDE DEF T
  <2> QED BY <1>1, <1>2, Induction
<1>4. \E g : Passes(k, g)
  BY <1>3
<1> DEFINE g == CHOOSE g : Passes(k, g)
<1>5. Passes(k, g)
  BY <1>4, Zenon
<1>6. SampledFirst(s, items, e, k) = g[k]
  BY Zenon DEF SampledFirst, Loop, SampleNext
<1> DEFINE n == k
<1> HIDE DEF g, n
<1>7. n \in Nat /\ Passes(n, g)
  BY <1>5 DEF n
<1>8. g[0] = s /\ \A i \in 1 .. n : g[i] = SampleNext(items, e, g[i - 1], i)
  BY <1>7
<1>9. SampleRun(s, items, e, k, g)
  BY <1>6, <1>8 DEF n, SampleRun
<1> QED BY <1>9

-----------------------------------------------------------------------------
(* The runner commits the batch, then the samples are processed.            *)

\* What the requests of the batch have been given and not yet taken over.
Handed(items, e, which, given) ==
  /\ \A j \in 1 .. Len(items) : given[items[j].rid] = IF j \in which THEN e[j] ELSE <<>>
  /\ \A x \in Ids : ~Chosen(items, x) => given[x] = <<>>

\* What the batch has left behind of who runs.
Reduced(s, t) ==
  /\ Len(s.running) \in Nat /\ Len(t.running) \in Nat /\ Len(t.running) <= Len(s.running)
  /\ t.budget = s.budget /\ t.items = s.items /\ t.preempted = s.preempted
  /\ t.blocked = s.blocked /\ NoneAdmitted(s, t)

Entry(e, items) == \A i \in 1 .. Len(items) : e[i] \in Emissions(items[i])

ExecutedTo(s, items, e, k, t) ==
  /\ \E given : Steady(t, {}, given) /\ Handed(items, e, 1 .. k, given)
  /\ \A j \in k + 1 .. Len(items) : ItemOK(t, items[j])
  /\ DOMAIN t.req = DOMAIN s.req /\ Reduced(s, t)

SampledTo(s, items, e, k, t) ==
  /\ \E given : Steady(t, {}, given) /\ Handed(items, e, k + 1 .. Len(items), given)
  /\ \A j \in k + 1 .. Len(items) : items[j].rid \in DOMAIN t.req
  /\ Reduced(s, t)

LEMMA ReducedIsTransitive ==
  ASSUME NEW s, NEW t, NEW u, Reduced(s, t), Reduced(t, u)
  PROVE  Reduced(s, u)
<1> DEFINE a == Len(s.running)
           b == Len(t.running)
           c == Len(u.running)
<1>1. a \in Nat /\ b \in Nat /\ c \in Nat /\ b <= a /\ c <= b
  BY DEF Reduced
<1>2. /\ u.budget = s.budget /\ u.items = s.items /\ u.preempted = s.preempted
      /\ u.blocked = s.blocked /\ NoneAdmitted(s, u)
  BY DEF Reduced, NoneAdmitted
<1> HIDE DEF a, b, c
<1>3. a \in Nat /\ c \in Nat /\ c <= a
  BY <1>1
<1> QED BY <1>2, <1>3 DEF Reduced, a, c

\* One request's share of what is handed out changes.
Redealt(items, e, k, new, given) ==
  [x \in Ids |-> IF x = items[k].rid THEN IF k \in new THEN e[k] ELSE <<>> ELSE given[x]]

LEMMA HandedNext ==
  ASSUME NEW items, items \in Seq(Item), \A i, j \in 1 .. Len(items) : items[i].rid = items[j].rid => i = j,
         NEW e, NEW which, NEW given, Handed(items, e, which, given),
         NEW k \in 1 .. Len(items), NEW new,
         \A j \in 1 .. Len(items) : j # k => (j \in new <=> j \in which),
         NEW after, after = Redealt(items, e, k, new, given)
  PROVE  /\ Handed(items, e, new, after)
         /\ after[items[k].rid] = IF k \in new THEN e[k] ELSE <<>>
         /\ \A x \in Ids : x # items[k].rid => after[x] = given[x]
<1>1. \A j \in 1 .. Len(items) : items[j].rid \in Ids
  <2>1. \A j \in 1 .. Len(items) : items[j] \in Item
    OBVIOUS
  <2> QED BY <2>1, Zenon DEF Item
<1>2. /\ after[items[k].rid] = IF k \in new THEN e[k] ELSE <<>>
      /\ \A x \in Ids : x # items[k].rid => after[x] = given[x]
  BY <1>1 DEF Redealt
<1>3. \A j \in 1 .. Len(items) : after[items[j].rid] = IF j \in new THEN e[j] ELSE <<>>
  <2> TAKE j \in 1 .. Len(items)
  <2>1. CASE j = k
    BY <1>2, <2>1
  <2>2. CASE j # k
    <3>1. items[j].rid # items[k].rid /\ items[j].rid \in Ids
      BY <1>1, <2>2
    <3>2. after[items[j].rid] = given[items[j].rid]
      BY <1>2, <3>1
    <3>3. given[items[j].rid] = IF j \in which THEN e[j] ELSE <<>>
      BY DEF Handed
    <3> QED BY <2>2, <3>2, <3>3
  <2> QED BY <2>1, <2>2
<1>4. \A x \in Ids : ~Chosen(items, x) => after[x] = <<>>
  <2> SUFFICES ASSUME NEW x \in Ids, ~Chosen(items, x) PROVE after[x] = <<>>
    OBVIOUS
  <2>1. x # items[k].rid
    BY DEF Chosen
  <2> QED BY <1>2, <2>1 DEF Handed
<1> QED BY <1>2, <1>3, <1>4 DEF Handed

LEMMA ExecuteOne ==
  ASSUME NEW s, NEW items, items \in Seq(Item),
         \A i, j \in 1 .. Len(items) : items[i].rid = items[j].rid => i = j,
         NEW e, Entry(e, items),
         NEW k \in 1 .. Len(items), NEW t, ExecutedTo(s, items, e, k - 1, t),
         NEW u, u = Executed(t, items[k], e[k])
  PROVE  ExecutedTo(s, items, e, k, u)
<1> DEFINE item == items[k]
           r == item.rid
           x == e[k]
<1>1. PICK given : Steady(t, {}, given) /\ Handed(items, e, 1 .. k - 1, given)
  BY DEF ExecutedTo
<1> DEFINE after == Redealt(items, e, k, 1 .. k, given)
<1>2. /\ k \in Nat /\ k \in 1 .. k /\ k \notin 1 .. k - 1 /\ k \in (k - 1) + 1 .. Len(items)
      /\ \A j \in 1 .. Len(items) : j # k => (j \in 1 .. k <=> j \in 1 .. k - 1)
      /\ \A j \in k + 1 .. Len(items) : j \in (k - 1) + 1 .. Len(items) /\ j # k /\ j \in 1 .. Len(items)
      /\ Len(items) \in Nat
  OBVIOUS
<1>3. /\ Handed(items, e, 1 .. k, after)
      /\ after[items[k].rid] = IF k \in 1 .. k THEN e[k] ELSE <<>>
      /\ \A y \in Ids : y # items[k].rid => after[y] = given[y]
  <2> DEFINE a == after
             new == 1 .. k
             old == 1 .. k - 1
  <2>1. /\ a = Redealt(items, e, k, new, given)
        /\ \A j \in 1 .. Len(items) : j # k => (j \in new <=> j \in old)
        /\ Handed(items, e, old, given)
    BY <1>1, <1>2
  <2> HIDE DEF a, new, old
  <2>2. Handed(items, e, new, a)
    BY <2>1, HandedNext
  <2>3. a[items[k].rid] = IF k \in new THEN e[k] ELSE <<>>
    BY <2>1, HandedNext
  <2>4. \A y \in Ids : y # items[k].rid => a[y] = given[y]
    BY <2>1, HandedNext
  <2> QED BY <2>2, <2>3, <2>4 DEF a, new
<1> HIDE DEF after
<1>4. /\ item \in Item /\ ItemOK(t, item) /\ x \in Emissions(item)
      /\ given[r] = <<>> /\ after[r] = x
      /\ \A y \in Ids : y # r => after[y] = given[y]
      /\ u = Executed(t, item, x)
  <2>1. ItemOK(t, items[k])
    BY <1>2 DEF ExecutedTo
  <2>2. given[items[k].rid] = <<>>
    BY <1>1, <1>2 DEF Handed
  <2>3. e[k] \in Emissions(items[k])
    BY DEF Entry
  <2> QED BY <1>2, <1>3, <2>1, <2>2, <2>3
<1> HIDE DEF item, x
<1>5. /\ Steady(u, {}, after) /\ OthersKept(t, u, item.rid)
      /\ DOMAIN u.req = DOMAIN t.req /\ u.running = t.running
      /\ u.budget = t.budget /\ u.items = t.items /\ u.preempted = t.preempted
      /\ u.blocked = t.blocked
  BY <1>1, <1>4, ExecutedOK
<1>6. \A j \in k + 1 .. Len(items) : ItemOK(u, items[j])
  <2> TAKE j \in k + 1 .. Len(items)
  <2>1. j \in 1 .. Len(items) /\ j # k /\ ItemOK(t, items[j])
    BY <1>2 DEF ExecutedTo
  <2>2. items[j] \in Item /\ items[j].rid # item.rid
    BY <2>1 DEF item
  <2> DEFINE y == items[j]
  <2>3. y \in Item /\ y.rid # item.rid /\ ItemOK(t, y)
    BY <2>1, <2>2
  <2> HIDE DEF y
  <2>4. ItemOK(u, y)
    BY <1>5, <2>3, ItemKept
  <2> QED BY <2>4 DEF y
<1>7. DOMAIN u.req = DOMAIN s.req /\ Reduced(s, u)
  BY <1>5 DEF ExecutedTo, Reduced, NoneAdmitted
<1> QED BY <1>3, <1>5, <1>6, <1>7 DEF ExecutedTo

LEMMA SampleOne ==
  ASSUME NEW s, NEW items, items \in Seq(Item),
         \A i, j \in 1 .. Len(items) : items[i].rid = items[j].rid => i = j,
         NEW e,
         NEW k \in 1 .. Len(items), NEW t, SampledTo(s, items, e, k - 1, t),
         NEW u, u = Sampled(t, items[k], e[k])
  PROVE  SampledTo(s, items, e, k, u)
<1> DEFINE item == items[k]
           r == item.rid
           x == e[k]
           m == Len(items)
<1>1. PICK given : Steady(t, {}, given) /\ Handed(items, e, (k - 1) + 1 .. Len(items), given)
  BY DEF SampledTo
<1> DEFINE after == Redealt(items, e, k, k + 1 .. m, given)
<1>2. /\ k \in Nat /\ k \notin k + 1 .. m /\ k \in (k - 1) + 1 .. m
      /\ \A j \in 1 .. m : j # k => (j \in k + 1 .. m <=> j \in (k - 1) + 1 .. m)
      /\ \A j \in k + 1 .. m : j \in (k - 1) + 1 .. m /\ j # k /\ j \in 1 .. m
      /\ m \in Nat
  OBVIOUS
<1>3. /\ Handed(items, e, k + 1 .. m, after)
      /\ after[items[k].rid] = IF k \in k + 1 .. m THEN e[k] ELSE <<>>
      /\ \A y \in Ids : y # items[k].rid => after[y] = given[y]
  <2> DEFINE a == after
             new == k + 1 .. m
             old == (k - 1) + 1 .. m
  <2>1. /\ a = Redealt(items, e, k, new, given)
        /\ \A j \in 1 .. Len(items) : j # k => (j \in new <=> j \in old)
        /\ Handed(items, e, old, given)
    BY <1>1, <1>2
  <2> HIDE DEF a, new, old, m
  <2>2. Handed(items, e, new, a)
    BY <2>1, HandedNext
  <2>3. a[items[k].rid] = IF k \in new THEN e[k] ELSE <<>>
    BY <2>1, HandedNext
  <2>4. \A y \in Ids : y # items[k].rid => a[y] = given[y]
    BY <2>1, HandedNext
  <2> QED BY <2>2, <2>3, <2>4 DEF a, new
<1> HIDE DEF after
<1>4. /\ item.rid \in DOMAIN t.req
      /\ given[item.rid] = x /\ after[item.rid] = <<>>
      /\ \A y \in Ids : y # item.rid => after[y] = given[y]
      /\ u = Sampled(t, item, x) /\ item \in Item
  <2>1. items[k].rid \in DOMAIN t.req
    BY <1>2 DEF SampledTo
  <2>2. given[items[k].rid] = e[k]
    BY <1>1, <1>2 DEF Handed
  <2> QED BY <1>2, <1>3, <2>1, <2>2
<1> HIDE DEF item, x
<1>5. /\ Steady(u, {}, after) /\ OthersKept(t, u, item.rid)
      /\ Len(u.running) <= Len(t.running) /\ Len(t.running) \in Nat /\ Len(u.running) \in Nat
      /\ u.budget = t.budget /\ u.items = t.items /\ u.preempted = t.preempted
      /\ u.blocked = t.blocked /\ NoneAdmitted(t, u)
  BY <1>1, <1>4, SampledOK
<1>6. \A j \in k + 1 .. Len(items) : items[j].rid \in DOMAIN u.req
  <2> TAKE j \in k + 1 .. Len(items)
  <2>1. j \in 1 .. Len(items) /\ j # k /\ items[j].rid \in DOMAIN t.req
    BY <1>2 DEF SampledTo
  <2>2. items[j].rid \in Ids
    <3>1. items[j] \in Item
      BY <2>1
    <3> QED BY <3>1, Zenon DEF Item
  <2>3. items[j].rid # item.rid
    BY <2>1 DEF item
  <2> QED BY <1>5, <2>1, <2>2, <2>3 DEF OthersKept
<1>7. Reduced(t, u) /\ Reduced(s, t)
  BY <1>5 DEF SampledTo, Reduced
<1>8. Reduced(s, u)
  BY <1>7, ReducedIsTransitive
<1> QED BY <1>3, <1>5, <1>6, <1>8 DEF SampledTo

\* Whatever the decoder returns, the scheduler is quiet after the step.
LEMMA StepDoneOK ==
  ASSUME NEW s, Quiet(s), NEW items, ItemsOK(s, items), NEW e, Entry(e, items),
         NEW t, t = ExecutedFirst(s, items, e, Len(items)),
         NEW u, u = SampledFirst(t, items, e, Len(items))
  PROVE  Quiet(u) /\ u.budget = s.budget /\ NoneAdmitted(s, u)
<1> DEFINE k == Len(items)
<1>1. /\ items \in Seq(Item) /\ k \in Nat
      /\ \A i, j \in 1 .. Len(items) : items[i].rid = items[j].rid => i = j
      /\ \A i \in 1 .. k : ItemOK(s, items[i])
  BY DEF ItemsOK
<1>2. /\ Steady(s, {}, NoneGiven) /\ Len(s.running) \in Nat /\ s.items = <<>> /\ BudgetOK(s.budget)
      /\ Len(s.running) <= MaxNumSeqs /\ s.preempted = {} /\ s.blocked = FALSE
  BY DEF Quiet
<1> HIDE DEF k
<1>3. PICK h : ExecuteRun(s, items, e, k, h)
  BY <1>1, ExecutePasses, Zenon
<1>4. h[0] = s /\ h[k] = t
  BY <1>3 DEF ExecuteRun, k
<1> DEFINE T == {i \in Nat : i <= k => ExecutedTo(s, items, e, i, h[i])}
<1>5. 0 \in T
  <2>1. Handed(items, e, 1 .. 0, NoneGiven)
    <3>1. \A j \in 1 .. Len(items) : items[j].rid \in Ids /\ j \notin 1 .. 0
      <4>1. \A j \in 1 .. Len(items) : items[j] \in Item
        BY <1>1
      <4> QED BY <4>1 DEF Item
    <3> QED BY <3>1 DEF Handed, NoneGiven
  <2>2. Reduced(s, s)
    BY <1>2 DEF Reduced, NoneAdmitted
  <2>3. \A j \in 0 + 1 .. Len(items) : ItemOK(s, items[j])
    BY <1>1 DEF k
  <2>4. ExecutedTo(s, items, e, 0, s)
    BY <1>2, <2>1, <2>2, <2>3 DEF ExecutedTo
  <2> QED BY <1>4, <2>4
<1>6. ASSUME NEW i \in Nat, i \in T PROVE i + 1 \in T
  <2> SUFFICES ASSUME i + 1 <= k PROVE ExecutedTo(s, items, e, i + 1, h[i + 1])
    OBVIOUS
  <2> DEFINE j == i + 1
  <2>1. j \in 1 .. k /\ j - 1 = i /\ i <= k /\ j \in 1 .. Len(items)
    BY <1>1 DEF k
  <2>2. ExecutedTo(s, items, e, i, h[i])
    BY <1>6, <2>1
  <2> HIDE DEF j
  <2>3. h[j] = ExecuteNext(items, e, h[j - 1], j)
    BY <1>3, <2>1 DEF ExecuteRun
  <2>4. h[j] = Executed(h[i], items[j], e[j]) /\ ExecutedTo(s, items, e, j - 1, h[i])
    BY <2>1, <2>2, <2>3 DEF ExecuteNext
  <2>5. ExecutedTo(s, items, e, j, h[j])
    BY <1>1, <2>1, <2>4, ExecuteOne, Zenon
  <2> QED BY <2>5 DEF j
<1>7. k \in T
  <2> HIDE DEF T
  <2> QED BY <1>1, <1>5, <1>6, Induction, Zenon
<1>8. ExecutedTo(s, items, e, k, t)
  BY <1>1, <1>4, <1>7
<1>9. PICK g : SampleRun(t, items, e, k, g)
  BY <1>1, SamplePasses, Zenon
<1>10. g[0] = t /\ g[k] = u
  BY <1>9 DEF SampleRun, k
<1> DEFINE U == {i \in Nat : i <= k => SampledTo(s, items, e, i, g[i])}
<1>11. 0 \in U
  <2>1. PICK given : Steady(t, {}, given) /\ Handed(items, e, 1 .. k, given)
    BY <1>8 DEF ExecutedTo
  <2>2. 1 .. k = 0 + 1 .. Len(items)
    BY DEF k
  <2>3. \A j \in 0 + 1 .. Len(items) : items[j].rid \in DOMAIN t.req
    <3>1. \A j \in 0 + 1 .. Len(items) : items[j].rid \in DOMAIN s.req
      BY <1>1 DEF ItemOK, k
    <3> QED BY <1>8, <3>1 DEF ExecutedTo
  <2>4. SampledTo(s, items, e, 0, t)
    BY <1>8, <2>1, <2>2, <2>3 DEF SampledTo, ExecutedTo
  <2> QED BY <1>10, <2>4
<1>12. ASSUME NEW i \in Nat, i \in U PROVE i + 1 \in U
  <2> SUFFICES ASSUME i + 1 <= k PROVE SampledTo(s, items, e, i + 1, g[i + 1])
    OBVIOUS
  <2> DEFINE j == i + 1
  <2>1. j \in 1 .. k /\ j - 1 = i /\ i <= k /\ j \in 1 .. Len(items)
    BY <1>1 DEF k
  <2>2. SampledTo(s, items, e, i, g[i])
    BY <1>12, <2>1
  <2> HIDE DEF j
  <2>3. g[j] = SampleNext(items, e, g[j - 1], j)
    BY <1>9, <2>1 DEF SampleRun
  <2>4. g[j] = Sampled(g[i], items[j], e[j]) /\ SampledTo(s, items, e, j - 1, g[i])
    BY <2>1, <2>2, <2>3 DEF SampleNext
  <2>5. SampledTo(s, items, e, j, g[j])
    BY <1>1, <2>1, <2>4, SampleOne, Zenon
  <2> QED BY <2>5 DEF j
<1>13. k \in U
  <2> HIDE DEF U
  <2> QED BY <1>1, <1>11, <1>12, Induction, Zenon
<1>14. SampledTo(s, items, e, k, u)
  BY <1>1, <1>10, <1>13
<1>15. PICK given : Steady(u, {}, given) /\ Handed(items, e, k + 1 .. Len(items), given)
  BY <1>14 DEF SampledTo
<1>16. \A x \in Ids : given[x] = NoneGiven[x]
  <2> SUFFICES ASSUME NEW x \in Ids PROVE given[x] = <<>>
    BY DEF NoneGiven
  <2>1. CASE Chosen(items, x)
    <3>1. PICK j \in 1 .. Len(items) : items[j].rid = x
      BY <2>1 DEF Chosen
    <3>2. j \notin k + 1 .. Len(items)
      BY <1>1 DEF k
    <3> QED BY <1>15, <3>1, <3>2 DEF Handed
  <2>2. CASE ~Chosen(items, x)
    BY <1>15, <2>2 DEF Handed
  <2> QED BY <2>1, <2>2
<1>17. Steady(u, {}, NoneGiven)
  BY <1>15, <1>16 DEF Steady, Standing
<1>18. Len(u.running) \in Nat /\ Len(u.running) <= MaxNumSeqs
  <2> DEFINE a == Len(s.running)
             b == Len(u.running)
  <2>1. a \in Nat /\ b \in Nat /\ b <= a /\ a <= MaxNumSeqs /\ MaxNumSeqs \in Nat
    BY <1>2, <1>14, LimitsAssumption DEF SampledTo, Reduced
  <2> HIDE DEF a, b
  <2>2. b \in Nat /\ b <= MaxNumSeqs
    BY <2>1
  <2> QED BY <2>2 DEF b
<1>19. /\ u.items = <<>> /\ u.budget = s.budget /\ u.preempted = {} /\ u.blocked = FALSE
       /\ NoneAdmitted(s, u)
  BY <1>2, <1>14 DEF SampledTo, Reduced
<1> QED BY <1>2, <1>17, <1>18, <1>19 DEF Quiet

-----------------------------------------------------------------------------
(* The engine.                                                              *)

\* The batch that is out has been made within its limits and can still run.
BatchOut(s, items) ==
  /\ ItemsOK(s, items) /\ Used(items, Phases) <= s.budget
  /\ MaxPrefillTokens # 0 => Used(items, {"prefill"}) <= MaxPrefillTokens

\* Between two calls of the engine the scheduler is quiet; while a batch is out,
\* nothing of what it was made from has changed.
EngineInv == Quiet(sched) /\ BatchOut(sched, batch)

LEMMA NoBatchOut ==
  ASSUME NEW s, Quiet(s)
  PROVE  BatchOut(s, <<>>)
<1>1. <<>> \in Seq(Item) /\ Len(<<>>) = 0
  OBVIOUS
<1>2. ItemsOK(s, <<>>)
  BY <1>1 DEF ItemsOK
<1>3. \A phases : Used(<<>>, phases) = 0
  <2> TAKE phases
  <2> DEFINE items == <<>>
  <2>1. items \in Seq(Item) /\ \A i \in 1 .. Len(items) : items[i].phase \notin phases
    BY <1>1
  <2> HIDE DEF items
  <2>2. Used(items, phases) = 0
    BY <2>1, NoneUsed
  <2> QED BY <2>2 DEF items
<1>4. s.budget \in Nat /\ MaxPrefillTokens \in Nat
  BY LimitsAssumption DEF Quiet, BudgetOK
<1>5. Used(<<>>, Phases) <= s.budget
  BY <1>3, <1>4
<1>6. Used(<<>>, {"prefill"}) <= MaxPrefillTokens
  BY <1>3, <1>4
<1> QED BY <1>2, <1>5, <1>6 DEF BatchOut

LEMMA EngineInit == Init => EngineInv
<1> SUFFICES ASSUME Init PROVE EngineInv
  OBVIOUS
<1>1. PICK b \in Budgets : sched = NewScheduler(b)
  BY DEF Init
<1>2. BudgetOK(b)
  BY BudgetsAssumption DEF BudgetOK
<1>3. Quiet(sched)
  BY <1>1, <1>2, NewSchedulerOK
<1>4. batch = <<>>
  BY DEF Init
<1> QED BY <1>3, <1>4, NoBatchOut DEF EngineInv

\* add_request.
LEMMA AddRequestKeepsInv ==
  ASSUME EngineInv, NEW r \in Ids, NEW work \in Workloads, AddRequest(r, work)
  PROVE  EngineInv'
<1> DEFINE t == Added(sched, r, work)
<1>1. r \notin DOMAIN sched.req /\ batch' = <<>> /\ (sched' = t \/ sched' = Finished(t, r))
  BY DEF AddRequest, BetweenSteps, Unfinished
<1>2. Quiet(t)
  <2> DEFINE u == t
  <2>1. u = Added(sched, r, work)
    OBVIOUS
  <2> HIDE DEF u
  <2>2. Quiet(u)
    BY <1>1, <2>1, AddedOK DEF EngineInv
  <2> QED BY <2>2 DEF u
<1> HIDE DEF t
<1>3. Quiet(sched')
  BY <1>1, <1>2, FinishedQuiet
<1> QED BY <1>1, <1>3, NoBatchOut DEF EngineInv

\* cancel_request.
LEMMA CancelRequestKeepsInv ==
  ASSUME EngineInv, NEW r \in Ids, CancelRequest(r)
  PROVE  EngineInv'
<1>1. sched' = Finished(sched, r) /\ batch' = <<>>
  BY DEF CancelRequest, BetweenSteps
<1>2. Quiet(sched')
  BY <1>1, FinishedQuiet DEF EngineInv
<1> QED BY <1>1, <1>2, NoBatchOut DEF EngineInv

\* set_token_budget.
LEMMA SetTokenBudgetKeepsInv ==
  ASSUME EngineInv, NEW b \in Budgets, SetTokenBudget(b)
  PROVE  EngineInv'
<1>1. sched' = [sched EXCEPT !.budget = b] /\ batch' = <<>>
  BY DEF SetTokenBudget, BetweenSteps
<1>2. Quiet(sched) /\ Shape(sched) /\ BudgetOK(b)
  BY BudgetsAssumption DEF EngineInv, Quiet, Steady, Frame, BudgetOK
<1>3. /\ SameBooks(sched, sched') /\ sched'.items = sched.items /\ sched'.budget = b
      /\ sched'.preempted = sched.preempted /\ sched'.blocked = sched.blocked
  BY <1>1, <1>2 DEF Shape, SameBooks
<1>4. Steady(sched', {}, NoneGiven) /\ sched'.running = sched.running
  BY <1>2, <1>3, SameBooksOK DEF Quiet, SameBooks
<1>5. Quiet(sched')
  BY <1>2, <1>3, <1>4 DEF Quiet
<1> QED BY <1>1, <1>5, NoBatchOut DEF EngineInv

\* close.
LEMMA CloseKeepsInv ==
  ASSUME EngineInv, Close
  PROVE  EngineInv'
<1> DEFINE rids == SetToSeq(Unfinished)
<1>1. sched' = FinishedAll(sched, rids) /\ batch' = <<>> /\ Quiet(sched)
  BY DEF Close, BetweenSteps, EngineInv
<1>2. Len(rids) \in Nat
  BY <1>1, RequestsListed DEF Unfinished
<1> HIDE DEF rids
<1>3. Quiet(sched')
  BY <1>1, <1>2, FinishedAllOK
<1> QED BY <1>1, <1>3, NoBatchOut DEF EngineInv

\* The first half of step().
LEMMA ScheduleKeepsInv ==
  ASSUME EngineInv, Schedule
  PROVE  EngineInv'
<1>1. PICK s \in Scheduled(sched) :
        /\ sched' = [s EXCEPT !.items = <<>>, !.preempted = {}, !.blocked = FALSE]
        /\ batch' = s.items
  BY Zenon DEF Schedule
<1>2. BatchMade(sched, s) /\ BudgetOK(sched.budget)
  BY ScheduledOK, Zenon DEF EngineInv, Quiet
<1>3. Shape(s)
  BY <1>2 DEF BatchMade, Steady, Frame
<1>4. /\ SameBooks(s, sched') /\ sched'.items = <<>> /\ sched'.budget = s.budget
      /\ sched'.preempted = {} /\ sched'.blocked = FALSE
  BY <1>1, <1>3, Zenon DEF Shape, SameBooks
<1>5. /\ Steady(sched', {}, NoneGiven) /\ sched'.running = s.running
      /\ ItemsOK(sched', s.items)
  BY <1>2, <1>4, SameBooksOK DEF BatchMade, SameBooks
<1>6. Quiet(sched')
  BY <1>2, <1>4, <1>5 DEF Quiet, BatchMade
<1>7. BatchOut(sched', batch')
  BY <1>1, <1>2, <1>4, <1>5 DEF BatchOut, BatchMade
<1> QED BY <1>6, <1>7 DEF EngineInv

\* The second half of step().
LEMMA ExecuteKeepsInv ==
  ASSUME EngineInv, NEW emitted, Execute(emitted)
  PROVE  EngineInv'
<1> DEFINE t == ExecutedFirst(sched, batch, emitted, Len(batch))
           u == SampledFirst(t, batch, emitted, Len(batch))
<1>1. sched' = u /\ batch' = <<>> /\ Entry(emitted, batch)
  BY Zenon DEF Execute, ExecutedAll, SampledAll, ExecutedFirst, SampledFirst, Entry
<1>2. Quiet(sched) /\ ItemsOK(sched, batch)
  BY DEF EngineInv, BatchOut
<1>3. Quiet(u)
  <2>1. t = ExecutedFirst(sched, batch, emitted, Len(batch)) /\ u = SampledFirst(t, batch, emitted, Len(batch))
    OBVIOUS
  <2> HIDE DEF t, u
  <2> QED BY <1>1, <1>2, <2>1, StepDoneOK
<1> QED BY <1>1, <1>3, NoBatchOut DEF EngineInv

\* The runner raised.
LEMMA ExecuteFailsKeepsInv ==
  ASSUME EngineInv, ExecuteFails
  PROVE  EngineInv'
<1> DEFINE rids == [i \in 1 .. Len(batch) |-> batch[i].rid]
<1>1. sched' = FinishedAll(sched, rids) /\ batch' = <<>> /\ Quiet(sched)
  BY DEF ExecuteFails, EngineInv
<1>2. batch \in Seq(Item)
  BY DEF EngineInv, BatchOut, ItemsOK
<1>3. Len(rids) \in Nat
  BY <1>2
<1> HIDE DEF rids
<1>4. Quiet(sched')
  BY <1>1, <1>3, FinishedAllOK
<1> QED BY <1>1, <1>4, NoBatchOut DEF EngineInv

\* Whatever is called and whatever fails, the engine's invariant holds.
THEOREM EngineIsSound == Spec => []EngineInv
<1>1. EngineInv /\ [Next]_vars => EngineInv'
  <2> SUFFICES ASSUME EngineInv, [Next]_vars PROVE EngineInv'
    OBVIOUS
  <2>1. ASSUME NEW r \in Ids, NEW work \in Workloads, AddRequest(r, work) PROVE EngineInv'
    BY <2>1, AddRequestKeepsInv
  <2>2. ASSUME NEW r \in Ids, CancelRequest(r) PROVE EngineInv'
    BY <2>2, CancelRequestKeepsInv
  <2>3. ASSUME NEW b \in Budgets, SetTokenBudget(b) PROVE EngineInv'
    BY <2>3, SetTokenBudgetKeepsInv
  <2>4. CASE Close
    BY <2>4, CloseKeepsInv
  <2>5. CASE Schedule
    BY <2>5, ScheduleKeepsInv
  <2>6. CASE ExecuteSome
    <3>1. PICK emitted : Execute(emitted)
      BY <2>6 DEF ExecuteSome
    <3> QED BY <3>1, ExecuteKeepsInv
  <2>7. CASE ExecuteFails
    BY <2>7, ExecuteFailsKeepsInv
  <2>8. CASE UNCHANGED vars
    BY <2>8 DEF vars, EngineInv
  <2> QED BY <2>1, <2>2, <2>3, <2>4, <2>5, <2>6, <2>7, <2>8 DEF Next
<1> QED BY EngineInit, <1>1, PTL DEF Spec

-----------------------------------------------------------------------------
(* What follows from it.                                                    *)

LEMMA QueueMembers ==
  ASSUME EngineInv
  PROVE  Members(sched.waiting, "waiting") /\ Members(sched.running, "running")
<1>1. Queue(sched.waiting) /\ Queue(sched.running) /\ DOMAIN sched.req \subseteq Ids
  BY DEF EngineInv, Quiet, Steady, Frame
<1>2. \A x \in Ids : Standing(sched, x, {}, NoneGiven)
  BY DEF EngineInv, Quiet, Steady
<1>3. \A x \in Ids : /\ Listed(sched.waiting, x) <=> x \in DOMAIN sched.req /\ sched.req[x].status = "waiting"
                     /\ Listed(sched.running, x) <=> x \in DOMAIN sched.req /\ sched.req[x].status = "running"
  BY <1>2 DEF Standing
<1>4. /\ \A x : Listed(sched.waiting, x) => x \in Ids
      /\ \A x : Listed(sched.waiting, x) <=> x \in ToSet(sched.waiting)
      /\ IsInjective(sched.waiting)
  BY <1>1, QueueElements
<1>5. /\ \A x : Listed(sched.running, x) => x \in Ids
      /\ \A x : Listed(sched.running, x) <=> x \in ToSet(sched.running)
      /\ IsInjective(sched.running)
  BY <1>1, QueueElements
<1>6. ToSet(sched.waiting) = {x \in DOMAIN sched.req : sched.req[x].status = "waiting"}
  BY <1>1, <1>3, <1>4
<1>7. ToSet(sched.running) = {x \in DOMAIN sched.req : sched.req[x].status = "running"}
  BY <1>1, <1>3, <1>5
<1> QED BY <1>4, <1>5, <1>6, <1>7 DEF Members, Unfinished

\* Each unfinished request is in the queue its status names, and the running
\* ones, no more than may run, are those with a table and hold every page.
THEOREM PagesAreForRunning == Spec => []PagesOnlyForRunning
<1>1. EngineInv => PagesOnlyForRunning
  <2> SUFFICES ASSUME EngineInv PROVE PagesOnlyForRunning
    OBVIOUS
  <2>1. Members(sched.waiting, "waiting") /\ Members(sched.running, "running")
    BY QueueMembers
  <2>2. Len(sched.running) <= MaxNumSeqs
    BY DEF EngineInv, Quiet
  <2>3. Live(sched.kv) = ToSet(sched.running)
    <3>1. Live(sched.kv) \subseteq Ids /\ DOMAIN sched.req \subseteq Ids
      BY DEF EngineInv, Quiet, Steady, Frame
    <3>2. \A x \in Ids : x \in Live(sched.kv) <=> x \in DOMAIN sched.req /\ sched.req[x].status = "running"
      <4>1. \A x \in Ids : Standing(sched, x, {}, NoneGiven)
        BY DEF EngineInv, Quiet, Steady
      <4> QED BY <4>1 DEF Standing
    <3>3. ToSet(sched.running) = {x \in DOMAIN sched.req : sched.req[x].status = "running"}
      BY <2>1 DEF Members, Unfinished
    <3> QED BY <3>1, <3>2, <3>3
  <2>4. \A b \in Blocks : sched.kv.pool.refCounts[b]
          = Cardinality({r \in Live(sched.kv) : b \in ToSet(sched.kv.states[r].blocks)})
    <3> TAKE b \in Blocks
    <3>1. TablesOK(sched.kv, Vocabulary, Salts)
      BY DEF EngineInv, Quiet, Steady, Frame
    <3>2. sched.kv.pool.refCounts[b] = Cardinality(Using(sched.kv, b))
      BY <3>1 DEF TablesOK, CountsOK
    <3>3. \A r \in Live(sched.kv) : Listed(sched.kv.states[r].blocks, b) <=> b \in ToSet(sched.kv.states[r].blocks)
      <4> TAKE r \in Live(sched.kv)
      <4> DEFINE list == sched.kv.states[r].blocks
      <4>1. list \in Seq(Blocks)
        BY <3>1 DEF TablesOK, StatesOK, StateType
      <4> HIDE DEF list
      <4>2. DOMAIN list = 1 .. Len(list)
        BY <4>1
      <4>3. Listed(list, b) <=> b \in ToSet(list)
        BY <4>2 DEF Listed, ToSet
      <4> QED BY <4>3 DEF list
    <3>4. Using(sched.kv, b) = {r \in Live(sched.kv) : b \in ToSet(sched.kv.states[r].blocks)}
      BY <3>3 DEF Using
    <3> QED BY <3>2, <3>4
  <2> QED BY <2>1, <2>2, <2>3, <2>4 DEF PagesOnlyForRunning
<1> QED BY EngineIsSound, <1>1, PTL

\* A request's progress is what the cache holds of its tokens, and there is
\* always a token left to compute.
THEOREM ProgressIsCached == Spec => []ComputedMatchesCache
<1>1. EngineInv => ComputedMatchesCache
  <2> SUFFICES ASSUME EngineInv, NEW r \in Unfinished
               PROVE  LET q == sched.req[r]
                      IN  /\ q.computed < NumTokens(q) /\ NumTokens(q) <= MaxModelLen
                          /\ IF r \in Live(sched.kv)
                             THEN sched.kv.states[r].tokens = SubSeq(TokenIds(q), 1, q.computed)
                             ELSE q.computed = 0
    BY DEF ComputedMatchesCache
  <2> DEFINE q == sched.req[r]
  <2>1. r \in DOMAIN sched.req /\ r \in Ids /\ Steady(sched, {}, NoneGiven)
    BY DEF Unfinished, EngineInv, Quiet, Steady, Frame
  <2>2. Standing(sched, r, {}, NoneGiven)
    BY <2>1 DEF Steady
  <2>3. RequestOK(q) /\ CachedOK(q, NoneGiven[r], sched.kv, r)
    BY <2>1, <2>2 DEF Standing
  <2>4. NumTokens(q) <= MaxModelLen
    BY <2>3 DEF RequestOK
  <2>5. CASE r \in Live(sched.kv)
    <3>1. NoneGiven[r] = <<>>
      BY <2>1 DEF NoneGiven
    <3>2. /\ q.computed < NumTokens(q)
          /\ sched.kv.states[r].tokens = SubSeq(TokenIds(q), 1, q.computed)
      BY <2>1, <2>5, <3>1, ComputedFacts
    <3> QED BY <2>4, <2>5, <3>2
  <2>6. CASE r \notin Live(sched.kv)
    <3>1. q.computed = 0
      BY <2>3, <2>6 DEF CachedOK
    <3> HIDE DEF q
    <3>2. NumTokens(q) \in Nat /\ NumTokens(q) >= 1
      BY <2>3, TokenFacts
    <3>3. q.computed < NumTokens(q)
      BY <3>1, <3>2
    <3> QED BY <2>4, <2>6, <3>1, <3>3 DEF q
  <2> QED BY <2>5, <2>6
<1> QED BY EngineIsSound, <1>1, PTL

\* As many entries as running requests, at most.
LEMMA BatchFitsRunning ==
  ASSUME NEW s, Steady(s, {}, NoneGiven), Len(s.running) \in Nat, NEW items, ItemsOK(s, items)
  PROVE  /\ \A i \in 1 .. Len(items) : items[i].rid \in ToSet(s.running)
         /\ IsInjective([i \in 1 .. Len(items) |-> items[i].rid])
         /\ Len(items) \in Nat /\ Len(items) <= Len(s.running)
<1> DEFINE n == Len(items)
           m == Len(s.running)
           f == [i \in 1 .. n |-> items[i].rid]
           R == ToSet(s.running)
<1>1. /\ items \in Seq(Item) /\ n \in Nat /\ m \in Nat
      /\ \A i \in 1 .. n : items[i] \in Item /\ ItemOK(s, items[i])
      /\ \A i, j \in 1 .. n : items[i].rid = items[j].rid => i = j
  BY DEF ItemsOK
<1>2. Queue(s.running)
  BY DEF Steady, Frame
<1>3. \A i \in 1 .. n : items[i].rid \in R
  <2> TAKE i \in 1 .. n
  <2> DEFINE r == items[i].rid
  <2>1. r \in DOMAIN s.req /\ s.req[r].status = "running" /\ r \in Ids
    BY <1>1, Zenon DEF ItemOK, Item
  <2> HIDE DEF r
  <2>2. Standing(s, r, {}, NoneGiven)
    BY <2>1 DEF Steady
  <2>3. Listed(s.running, r)
    BY <2>1, <2>2 DEF Standing
  <2>4. r \in R
    BY <1>2, <2>3, QueueElements
  <2> QED BY <2>4 DEF r
<1>4. f \in Injection(1 .. n, R)
  BY <1>1, <1>3 DEF Injection, IsInjective
<1>5. IsInjective(f)
  BY <1>1 DEF IsInjective
<1>6. IsFiniteSet(R) /\ Cardinality(R) <= m /\ Cardinality(R) \in Nat
  <2> DEFINE list == s.running
  <2>1. list \in Seq(Ids) /\ DOMAIN list = 1 .. m /\ list = [i \in DOMAIN list |-> list[i]]
    BY <1>2 DEF Queue
  <2>2. R = {list[i] : i \in 1 .. m}
    BY <2>1 DEF ToSet
  <2> HIDE DEF list, R
  <2>3. list \in Surjection(1 .. m, R)
    BY <2>1, <2>2 DEF Surjection
  <2>4. IsFiniteSet(1 .. m) /\ Cardinality(1 .. m) = m
    <3> HIDE DEF m
    <3> QED BY <1>1, CountTo
  <2>5. IsFiniteSet(R) /\ Cardinality(R) <= Cardinality(1 .. m)
    BY <2>3, <2>4, FS_Surjection
  <2> QED BY <2>4, <2>5, FS_CardinalityType
<1> HIDE DEF n, m, f, R
<1>7. Cardinality(1 .. n) = n
  BY <1>1, CountTo
<1>8. Cardinality(1 .. n) <= Cardinality(R)
  BY <1>4, <1>6, FS_Injection
<1>9. n <= m
  BY <1>1, <1>6, <1>7, <1>8
<1> QED BY <1>1, <1>3, <1>5, <1>9 DEF n, m, f, R

\* An entry of the batch continues the cached tokens and has its pages.
LEMMA EntryReady ==
  ASSUME NEW s, Steady(s, {}, NoneGiven), NEW item \in Item, ItemOK(s, item)
  PROVE  /\ item.count > 0 /\ item.start + item.count + item.drafts <= MaxModelLen
         /\ item.start = Computed(s.kv, item.rid)
         /\ Demand(s.kv, item.rid, item.start + item.count + item.drafts) = 0
<1> DEFINE r == item.rid
           n == item.count + item.drafts
           kv == s.kv
<1>1. /\ item.count \in Nat /\ item.count > 0 /\ item.drafts \in Nat /\ item.start \in Nat
      /\ n \in Nat /\ item.start + item.count + item.drafts = item.start + n
  BY DEF Item
<1>2. r \in Live(s.kv) /\ item.start = s.req[r].computed /\ Own(s.kv, r, n) /\ r \in Ids
  BY DEF ItemOK, Item
<1>3. item.start + item.count + item.drafts <= MaxModelLen
  BY DEF ItemOK
<1> HIDE DEF r, n
<1>4. Computed(s.kv, r) = s.req[r].computed
  <2>1. NoneGiven[r] = <<>>
    BY <1>2 DEF NoneGiven
  <2> QED BY <1>2, <2>1, ComputedFacts
<1>5. TablesOK(kv, Vocabulary, Salts) /\ r \in Live(kv) /\ Own(kv, r, n)
  BY <1>2 DEF Steady, Frame
<1> HIDE DEF kv
<1>6. Demand(kv, r, Computed(kv, r) + n) = 0
  BY <1>1, <1>5, OwnIsEnough
<1> QED BY <1>1, <1>2, <1>3, <1>4, <1>6 DEF kv, r

\* The batch the runner is given can run: its entries are of different running
\* requests and within the budgets, and each has its pages.
THEOREM BatchesAreReady == Spec => []BatchReady
<1>1. EngineInv => BatchReady
  <2> SUFFICES ASSUME EngineInv PROVE BatchReady
    OBVIOUS
  <2>1. /\ Steady(sched, {}, NoneGiven) /\ Len(sched.running) \in Nat /\ Len(sched.running) <= MaxNumSeqs
        /\ ItemsOK(sched, batch)
        /\ Used(batch, Phases) <= sched.budget
        /\ MaxPrefillTokens # 0 => Used(batch, {"prefill"}) <= MaxPrefillTokens
    BY DEF EngineInv, Quiet, BatchOut
  <2>2. /\ \A i \in 1 .. Len(batch) : batch[i].rid \in ToSet(sched.running)
        /\ IsInjective([i \in 1 .. Len(batch) |-> batch[i].rid])
        /\ Len(batch) \in Nat /\ Len(batch) <= Len(sched.running)
    BY <2>1, BatchFitsRunning
  <2>3. Len(batch) <= MaxNumSeqs
    <3> DEFINE a == Len(batch)
               b == Len(sched.running)
    <3>1. a \in Nat /\ b \in Nat /\ a <= b /\ b <= MaxNumSeqs /\ MaxNumSeqs \in Nat
      BY <2>1, <2>2, LimitsAssumption
    <3> HIDE DEF a, b
    <3>2. a <= MaxNumSeqs
      BY <3>1
    <3> QED BY <3>2 DEF a
  <2>4. \A phases : Total([i \in 1 .. Len(batch) |->
                             IF batch[i].phase \in phases THEN batch[i].count + batch[i].drafts ELSE 0])
                    = Used(batch, phases)
    BY Zenon DEF Used, Costs, Cost
  <2>5. \A i \in 1 .. Len(batch) :
          /\ batch[i].count > 0 /\ batch[i].start + batch[i].count + batch[i].drafts <= MaxModelLen
          /\ batch[i].start = Computed(sched.kv, batch[i].rid)
          /\ Demand(sched.kv, batch[i].rid, batch[i].start + batch[i].count + batch[i].drafts) = 0
    <3> TAKE i \in 1 .. Len(batch)
    <3> DEFINE item == batch[i]
    <3>1. item \in Item /\ ItemOK(sched, item)
      BY <2>1 DEF ItemsOK
    <3> HIDE DEF item
    <3>2. /\ item.count > 0 /\ item.start + item.count + item.drafts <= MaxModelLen
          /\ item.start = Computed(sched.kv, item.rid)
          /\ Demand(sched.kv, item.rid, item.start + item.count + item.drafts) = 0
      BY <2>1, <3>1, EntryReady
    <3> QED BY <3>2 DEF item
  <2> QED BY <2>1, <2>2, <2>3, <2>4, <2>5, Zenon DEF BatchReady, Phases
<1> QED BY EngineIsSound, <1>1, PTL

-----------------------------------------------------------------------------
(* Nobody is passed over.                                                   *)

\* Of two waiting requests the first is not left waiting when the second runs.
HeadFirst(s, t) ==
  \A i, j \in 1 .. Len(s.waiting) :
    i < j /\ s.waiting[j] \in ToSet(t.running) => s.waiting[i] \notin ToSet(t.waiting)

\* It is so wherever nobody begins to run.
LEMMA NobodyBegins ==
  ASSUME NEW s, Quiet(s), NEW t, Quiet(t), NoneAdmitted(s, t)
  PROVE  HeadFirst(s, t)
<1>1. /\ Queue(s.waiting) /\ Queue(t.running) /\ Len(s.waiting) \in Nat
      /\ \A x \in Ids : Standing(s, x, {}, NoneGiven)
  BY DEF Quiet, Steady, Frame, Queue
<1> SUFFICES ASSUME NEW j \in 1 .. Len(s.waiting), s.waiting[j] \in ToSet(t.running) PROVE FALSE
  BY DEF HeadFirst
<1> DEFINE y == s.waiting[j]
<1>2. Listed(s.waiting, y) /\ y \in ToSet(t.running)
  BY DEF Listed
<1> HIDE DEF y
<1>3. y \in Ids
  BY <1>1, <1>2, QueueElements
<1>4. Listed(t.running, y)
  BY <1>1, <1>2, QueueElements
<1>5. Listed(s.running, y)
  BY <1>4 DEF NoneAdmitted
<1> QED BY <1>1, <1>2, <1>3, <1>5 DEF Standing

\* And when schedule() admits someone.
LEMMA HeadsGoFirst ==
  ASSUME NEW s, Quiet(s), NEW t, Quiet(t), NobodyPassed(s, t)
  PROVE  HeadFirst(s, t)
<1>1. Queue(s.waiting) /\ Queue(t.running) /\ Queue(t.waiting) /\ s.preempted = {}
  BY DEF Quiet, Steady, Frame
<1> SUFFICES ASSUME NEW i \in 1 .. Len(s.waiting), NEW j \in 1 .. Len(s.waiting), i < j,
                    s.waiting[j] \in ToSet(t.running)
             PROVE  s.waiting[i] \notin ToSet(t.waiting)
  BY DEF HeadFirst
<1> DEFINE x == s.waiting[i]
           y == s.waiting[j]
<1>2. Before(s.waiting, x, y) /\ y \in ToSet(t.running)
  BY DEF Before
<1> HIDE DEF x, y
<1>3. Listed(t.running, y)
  BY <1>1, <1>2, QueueElements
<1>4. ~Listed(t.waiting, x)
  BY <1>1, <1>2, <1>3 DEF NobodyPassed
<1>5. x \notin ToSet(t.waiting)
  BY <1>1, <1>4, QueueElements
<1> QED BY <1>5 DEF x

LEMMA ScheduleTakesHeads ==
  ASSUME EngineInv, EngineInv', Schedule
  PROVE  HeadFirst(sched, sched')
<1>1. PICK s \in Scheduled(sched) :
        sched' = [s EXCEPT !.items = <<>>, !.preempted = {}, !.blocked = FALSE]
  BY Zenon DEF Schedule
<1>2. BatchMade(sched, s)
  BY ScheduledOK DEF EngineInv
<1>3. Shape(s)
  BY <1>2 DEF BatchMade, Steady, Frame
<1>4. sched'.running = s.running /\ sched'.waiting = s.waiting
  BY <1>1, <1>3 DEF Shape
<1>5. NobodyPassed(sched, sched')
  BY <1>2, <1>4 DEF BatchMade, NobodyPassed
<1>6. Quiet(sched) /\ Quiet(sched')
  BY DEF EngineInv
<1> QED BY <1>5, <1>6, HeadsGoFirst

\* Nothing but schedule() lets a request begin to run.
LEMMA OthersAdmitNobody ==
  ASSUME EngineInv, [Next]_vars, ~Schedule
  PROVE  NoneAdmitted(sched, sched')
<1> USE DEF EngineInv
<1>1. ASSUME NEW r \in Ids, NEW work \in Workloads, AddRequest(r, work)
      PROVE  NoneAdmitted(sched, sched')
  <2> DEFINE t == Added(sched, r, work)
  <2>1. r \notin DOMAIN sched.req /\ (sched' = t \/ sched' = Finished(t, r)) /\ t = Added(sched, r, work)
    BY <1>1 DEF AddRequest, Unfinished
  <2> HIDE DEF t
  <2>2. Quiet(t) /\ NoneAdmitted(sched, t)
    BY <2>1, AddedOK
  <2>3. CASE sched' = t
    BY <2>2, <2>3
  <2>4. CASE sched' = Finished(t, r)
    <3>1. NoneAdmitted(t, sched')
      BY <2>2, <2>4, FinishedQuiet
    <3> QED BY <2>2, <3>1 DEF NoneAdmitted
  <2> QED BY <2>1, <2>3, <2>4
<1>2. ASSUME NEW r \in Ids, CancelRequest(r) PROVE NoneAdmitted(sched, sched')
  <2>1. sched' = Finished(sched, r)
    BY <1>2 DEF CancelRequest
  <2> QED BY <2>1, FinishedQuiet
<1>3. ASSUME NEW b \in Budgets, SetTokenBudget(b) PROVE NoneAdmitted(sched, sched')
  <2>1. sched' = [sched EXCEPT !.budget = b] /\ Shape(sched)
    BY <1>3 DEF SetTokenBudget, Quiet, Steady, Frame
  <2>2. sched'.running = sched.running
    BY <2>1 DEF Shape
  <2> QED BY <2>2 DEF NoneAdmitted
<1>4. CASE Close
  <2> DEFINE rids == SetToSeq(Unfinished)
  <2>1. sched' = FinishedAll(sched, rids) /\ Quiet(sched)
    BY <1>4 DEF Close
  <2>2. Len(rids) \in Nat
    BY <2>1, RequestsListed DEF Unfinished
  <2> HIDE DEF rids
  <2> QED BY <2>1, <2>2, FinishedAllOK
<1>5. CASE ExecuteSome
  <2>1. PICK emitted : Execute(emitted)
    BY <1>5 DEF ExecuteSome
  <2> DEFINE t == ExecutedFirst(sched, batch, emitted, Len(batch))
             u == SampledFirst(t, batch, emitted, Len(batch))
  <2>2. sched' = u /\ Entry(emitted, batch)
    BY <2>1, Zenon DEF Execute, ExecutedAll, SampledAll, ExecutedFirst, SampledFirst, Entry
  <2>3. t = ExecutedFirst(sched, batch, emitted, Len(batch)) /\ u = SampledFirst(t, batch, emitted, Len(batch))
    OBVIOUS
  <2>4. ItemsOK(sched, batch)
    BY DEF BatchOut
  <2> HIDE DEF t, u
  <2>5. NoneAdmitted(sched, u)
    BY <2>2, <2>3, <2>4, StepDoneOK
  <2> QED BY <2>2, <2>5
<1>6. CASE ExecuteFails
  <2> DEFINE rids == [i \in 1 .. Len(batch) |-> batch[i].rid]
  <2>1. sched' = FinishedAll(sched, rids) /\ Quiet(sched)
    BY <1>6 DEF ExecuteFails
  <2>2. batch \in Seq(Item)
    BY DEF BatchOut, ItemsOK
  <2>3. Len(rids) \in Nat
    BY <2>2
  <2> HIDE DEF rids
  <2> QED BY <2>1, <2>3, FinishedAllOK
<1>7. CASE UNCHANGED vars
  BY <1>7 DEF vars, NoneAdmitted
<1> QED BY <1>1, <1>2, <1>3, <1>4, <1>5, <1>6, <1>7 DEF Next

\* A blocked head of the queue is not bypassed: whatever is preempted, switched
\* or found in the cache, a step that admits a waiting request has admitted all
\* who were ahead of it; no other step admits anyone.
THEOREM HeadsAreNotBypassed == Spec => HeadNotBypassed
<1>1. EngineInv /\ EngineInv' /\ [Next]_vars => HeadFirst(sched, sched')
  <2> SUFFICES ASSUME EngineInv, EngineInv', [Next]_vars PROVE HeadFirst(sched, sched')
    OBVIOUS
  <2>1. CASE Schedule
    BY <2>1, ScheduleTakesHeads
  <2>2. CASE ~Schedule
    <3>1. NoneAdmitted(sched, sched')
      BY <2>2, OthersAdmitNobody
    <3>2. Quiet(sched) /\ Quiet(sched')
      BY DEF EngineInv
    <3> QED BY <3>1, <3>2, NobodyBegins
  <2> QED BY <2>1, <2>2
<1>2. HeadFirst(sched, sched') =>
        \A i, j \in 1 .. Len(sched.waiting) :
          i < j /\ sched.waiting[j] \in ToSet(sched'.running)
            => sched.waiting[i] \notin ToSet(sched'.waiting)
  BY DEF HeadFirst
<1> QED BY EngineIsSound, <1>1, <1>2, PTL DEF Spec, HeadNotBypassed

\* The batch of a schedule() with a request left.
LEMMA ScheduleFindsWork ==
  ASSUME EngineInv, Schedule, Unfinished # {}
  PROVE  batch' # <<>>
<1>1. PICK s \in Scheduled(sched) : batch' = s.items
  BY Zenon DEF Schedule
<1>2. Quiet(sched) /\ DOMAIN sched.req # {}
  BY DEF EngineInv, Unfinished
<1>3. s.items # <<>>
  BY <1>2, ScheduledOK
<1> QED BY <1>1, <1>3

\* Preemption never turns a step into nothing: a schedule() with a request left
\* returns an item.  A running request that finds no page evicts those behind it
\* and, once alone, has a pool that holds a full context; with nobody running,
\* the first who may begin is served or the one ahead of him was.
THEOREM StepsHaveWork == Spec => StepHasWork
<1>1. EngineInv /\ [Next]_vars => (Schedule /\ Unfinished # {} => batch' # <<>>)
  BY ScheduleFindsWork
<1> QED BY EngineIsSound, <1>1, PTL DEF Spec, StepHasWork

=============================================================================
