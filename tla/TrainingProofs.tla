--------------------------- MODULE TrainingProofs ---------------------------
(* No restart pairs a model with another step's optimizer, and no restart   *)
(* divides a rollout, for every world size, plan, save interval, number of  *)
(* crashes and order of file writes.  And what is cut for the ranks is put  *)
(* together again, for every parameter and every number of ranks.           *)
EXTENDS Training, ShardLayout, SharedProofs

-----------------------------------------------------------------------------
(* A model is a sequence of updates, whatever an update is.                 *)

IsModel(m) == \E S : m \in Seq(S)

LEMMA EmptyIsModel == IsModel(<<>>) /\ Len(<<>>) = 0
<1>1. <<>> \in Seq({})
  OBVIOUS
<1> QED BY <1>1 DEF IsModel

\* An update makes a model one longer.
LEMMA AppendIsModel ==
  ASSUME NEW m, NEW u, IsModel(m)
  PROVE  /\ IsModel(Append(m, u)) /\ Len(Append(m, u)) = Len(m) + 1
         /\ Len(m) \in Nat
<1>1. PICK S : m \in Seq(S)
  BY DEF IsModel
<1>2. m \in Seq(S \cup {u})
  BY <1>1
<1>3. Append(m, u) \in Seq(S \cup {u}) /\ Len(Append(m, u)) = Len(m) + 1 /\ Len(m) \in Nat
  BY <1>2
<1> QED BY <1>3 DEF IsModel

-----------------------------------------------------------------------------
(* The optimizers in memory have seen as many updates as the model; a whole *)
(* file of a step holds that many, whoever wrote it and whenever.           *)

MemoryMatches == IsModel(model) /\ optim = [r \in Ranks |-> completed]

OptimFiles == [Ranks -> Nat \cup {None, Torn}]

DiskShape == \E M : disk \in [Steps -> [main : M, optim : OptimFiles]]

FilesMatch ==
  \A step \in Steps :
    /\ disk[step].main # None =>
         IsModel(disk[step].main.model) /\ Len(disk[step].main.model) = step
    /\ \A r \in Ranks : disk[step].optim[r] \in {None, Torn, step}

Matching == MemoryMatches /\ DiskShape /\ FilesMatch

LEMMA InitMatching == Init => Matching
<1> SUFFICES ASSUME Init PROVE Matching
  OBVIOUS
<1>1. MemoryMatches
  BY EmptyIsModel DEF Init, MemoryMatches, completed
<1>2. disk \in [Steps -> [main : {None}, optim : OptimFiles]]
  BY DEF Init, NoFiles, OptimFiles
<1>3. FilesMatch
  BY DEF Init, NoFiles, FilesMatch
<1> QED BY <1>1, <1>2, <1>3 DEF Matching, DiskShape

\* What can be loaded is one step's model with as many updates in every optimizer.
LEMMA LoadedMatches ==
  ASSUME DiskShape, FilesMatch, NEW step \in Steps, Loadable(step)
  PROVE  /\ IsModel(disk[step].main.model) /\ Len(disk[step].main.model) = step
         /\ disk[step].optim = [r \in Ranks |-> step]
<1>1. disk[step].optim \in OptimFiles
  BY DEF DiskShape
<1>2. \A r \in Ranks : disk[step].optim[r] = step
  BY FilesAssumption DEF Loadable, FilesMatch
<1>3. disk[step].optim = [r \in Ranks |-> step]
  BY <1>1, <1>2 DEF OptimFiles
<1> QED BY <1>3 DEF Loadable, FilesMatch

LEMMA StepMatching == Matching /\ [Next]_vars => Matching'
<1> SUFFICES ASSUME Matching, [Next]_vars PROVE Matching'
  OBVIOUS
<1> USE DEF Matching
<1>k. ASSUME UNCHANGED <<model, optim, disk>> PROVE Matching'
  BY <1>k DEF MemoryMatches, DiskShape, FilesMatch, completed
<1>d. ASSUME UNCHANGED disk PROVE DiskShape' /\ FilesMatch'
  BY <1>d DEF DiskShape, FilesMatch
<1>m. ASSUME UNCHANGED <<model, optim>> PROVE MemoryMatches'
  BY <1>m DEF MemoryMatches, completed
<1>s. ASSUME NEW u, Stepped(u) PROVE MemoryMatches'
  <2>1. model' = Append(model, u) /\ optim' = [r \in Ranks |-> optim[r] + 1]
    BY <1>s DEF Stepped
  <2>2. IsModel(model') /\ Len(model') = Len(model) + 1
    BY <2>1, AppendIsModel DEF MemoryMatches
  <2>3. optim' = [r \in Ranks |-> Len(model) + 1]
    BY <2>1 DEF MemoryMatches, completed
  <2> QED BY <2>2, <2>3 DEF MemoryMatches, completed
<1>o. ASSUME NEW r \in Ranks, NEW v \in {Torn, completed}, UNCHANGED <<model, optim>>,
             disk' = [disk EXCEPT ![completed].optim[r] = v]
      PROVE  Matching'
  <2>1. PICK M : disk \in [Steps -> [main : M, optim : OptimFiles]]
    BY DEF DiskShape
  <2>2. CASE completed \notin Steps
    <3>1. disk' = disk
      BY <1>o, <2>1, <2>2
    <3> QED BY <1>k, <1>o, <3>1
  <2>3. CASE completed \in Steps
    <3>1. v \in Nat \cup {None, Torn}
      BY <2>3 DEF Steps
    <3>2. disk' \in [Steps -> [main : M, optim : OptimFiles]]
      BY <1>o, <2>1, <2>3, <3>1 DEF OptimFiles
    <3>3. \A s \in Steps : disk'[s].main = disk[s].main
      BY <1>o, <2>1, <2>3
    <3>4. \A s \in Steps, q \in Ranks :
            disk'[s].optim[q] = IF s = completed /\ q = r THEN v ELSE disk[s].optim[q]
      BY <1>o, <2>1, <2>3 DEF OptimFiles
    <3>5. FilesMatch'
      BY <3>3, <3>4 DEF FilesMatch
    <3> QED BY <1>m, <1>o, <3>2, <3>5 DEF DiskShape
  <2> QED BY <2>2, <2>3
<1>1. CASE UNCHANGED vars
  BY <1>1, <1>k DEF vars, memory
<1>2. CASE Launch
  <2>1. PICK t \in Targets : LaunchFresh(t) \/ \E step \in Steps : LaunchFrom(step, t)
    BY <1>2 DEF Launch
  <2>2. CASE LaunchFresh(t)
    <3>1. model' = <<>> /\ optim' = [r \in Ranks |-> 0] /\ UNCHANGED disk
      BY <2>2 DEF LaunchFresh, Started
    <3> QED BY <3>1, <1>d, EmptyIsModel DEF MemoryMatches, completed
  <2>3. ASSUME NEW step \in Steps, LaunchFrom(step, t) PROVE Matching'
    <3>1. model' = disk[step].main.model /\ optim' = disk[step].optim /\ UNCHANGED disk
      BY <2>3 DEF LaunchFrom, Started
    <3>2. IsModel(model') /\ Len(model') = step /\ optim' = [r \in Ranks |-> step]
      BY <2>3, <3>1, LoadedMatches DEF LaunchFrom
    <3> QED BY <3>1, <3>2, <1>d DEF MemoryMatches, completed
  <2> QED BY <2>1, <2>2, <2>3
<1>3. CASE BeginEpoch
  BY <1>3, <1>k DEF BeginEpoch
<1>4. CASE EndEpoch
  BY <1>4, <1>k DEF EndEpoch
<1>5. CASE RunDry
  BY <1>5, <1>k DEF RunDry, memory
<1>6. CASE UpdateWindow
  BY <1>6, <1>s, <1>d DEF UpdateWindow
<1>7. CASE MakeRollout
  BY <1>7, <1>k DEF MakeRollout
<1>8. CASE UpdateRollout
  BY <1>8, <1>s, <1>d DEF UpdateRollout
<1>9. CASE WriteMain
  <2> DEFINE content == [model |-> model, position |-> Position]
  <2>1. PICK M : disk \in [Steps -> [main : M, optim : OptimFiles]]
    BY DEF DiskShape
  <2>2. disk' = [disk EXCEPT ![completed].main = content] /\ UNCHANGED <<model, optim>>
    BY <1>9 DEF WriteMain, FileOf
  <2>3. disk' \in [Steps -> [main : M \cup {content}, optim : OptimFiles]]
    BY <2>1, <2>2
  <2>4. \A s \in Steps : /\ disk'[s].optim = disk[s].optim
                         /\ disk'[s].main = IF s = completed THEN content ELSE disk[s].main
    BY <2>1, <2>2
  <2>5. IsModel(content.model) /\ Len(content.model) = completed
    BY DEF MemoryMatches, completed
  <2>6. FilesMatch'
    BY <2>4, <2>5 DEF FilesMatch
  <2> QED BY <1>m, <2>2, <2>3, <2>6 DEF DiskShape
<1>10. ASSUME NEW r \in Ranks, OpenOptimizer(r) PROVE Matching'
  BY <1>10, <1>o DEF OpenOptimizer, FileOf
<1>11. ASSUME NEW r \in Ranks, CloseOptimizer(r) PROVE Matching'
  <2>1. optim[r] = completed
    BY DEF MemoryMatches
  <2> QED BY <1>11, <1>o, <2>1 DEF CloseOptimizer, FileOf
<1>12. CASE LeaveBarrier
  BY <1>12, <1>k DEF LeaveBarrier, memory
<1>13. CASE Crash
  BY <1>13, <1>d, EmptyIsModel DEF Crash, MemoryMatches, completed
<1> QED
  BY <1>1, <1>2, <1>3, <1>4, <1>5, <1>6, <1>7, <1>8, <1>9, <1>10, <1>11, <1>12, <1>13
  DEF Next, Run, Save

\* Whatever files a killed job has left behind, a job that loads a checkpoint,
\* and every job after it, trains with optimizers of its model's step.
THEOREM OptimizersMatch == Spec => []OptimizersMatchModel
<1>1. Matching => OptimizersMatchModel
  BY DEF Matching, MemoryMatches, OptimizersMatchModel
<1> QED BY <1>1, InitMatching, StepMatching, PTL DEF Spec

-----------------------------------------------------------------------------
(* Rollouts. What a model says of its rollouts, and when its last rollout   *)
(* is used up.                                                              *)

WholeRollouts(m) ==
  /\ \A i \in 1 .. Len(m) : m[i].old = m[i].policy /\ m[i].policy = i - 1 - m[i].round
  /\ \A i \in 2 .. Len(m) : m[i].round = 0 => m[i - 1].last

UsedUp(m) == Len(m) > 0 => m[Len(m)].last

\* The rollout in use was made by the policy before its first round, whose
\* log-probabilities it holds from then on.
RolloutOnPolicy ==
  /\ \E D, R : rollout \in [data : D, policy : Nat, old : Nat \cup {None}, round : Nat, rounds : R]
  /\ rollout.policy + rollout.round = completed
  /\ rollout.round = 0 => rollout.old = None /\ UsedUp(model)
  /\ rollout.round > 0 => rollout.old = rollout.policy

\* A file is only written between rollouts.
RolloutPlaces ==
  /\ job # "rollout" => rollout = None
  /\ writer[0] = "main" => job = "save"
  /\ writer \in [Ranks -> {"main", "optim", "writing", "barrier"}]

SavedWhole ==
  \A step \in Steps : disk[step].main # None =>
    WholeRollouts(disk[step].main.model) /\ UsedUp(disk[step].main.model)

GRPOWhole ==
  /\ WholeRollouts(model)
  /\ job # "rollout" => UsedUp(model)
  /\ job = "rollout" => RolloutOnPolicy
  /\ SavedWhole

Rollouts == trainer = "grpo" => GRPOWhole

LEMMA ZeroIsRank == 0 \in Ranks
  BY WorldAssumption DEF Ranks

LEMMA EmptyWhole == WholeRollouts(<<>>) /\ UsedUp(<<>>)
  BY DEF WholeRollouts, UsedUp

LEMMA InitRollouts == Init => RolloutPlaces /\ Rollouts
  BY ZeroIsRank, EmptyWhole
  DEF Init, RolloutPlaces, Rollouts, GRPOWhole, SavedWhole, NoFiles

LEMMA StepPlaces == RolloutPlaces /\ [Next]_vars => RolloutPlaces'
<1> SUFFICES ASSUME RolloutPlaces, [Next]_vars PROVE RolloutPlaces'
  OBVIOUS
<1> USE ZeroIsRank DEF RolloutPlaces
<1>1. CASE UNCHANGED vars
  BY <1>1 DEF vars, memory
<1>2. CASE Launch
  <2>1. PICK t \in Targets : LaunchFresh(t) \/ \E step \in Steps : LaunchFrom(step, t)
    BY <1>2 DEF Launch
  <2>2. job' \in {"epoch", "done"} /\ rollout' = None /\ writer' = [r \in Ranks |-> "barrier"]
    BY <2>1 DEF LaunchFresh, LaunchFrom, Started
  <2> QED BY <2>2
<1>3. CASE BeginEpoch
  BY <1>3 DEF BeginEpoch
<1>4. CASE EndEpoch
  BY <1>4 DEF EndEpoch
<1>5. CASE RunDry
  BY <1>5 DEF RunDry, memory
<1>6. CASE UpdateWindow
  BY <1>6 DEF UpdateWindow, SaveOr
<1>7. CASE MakeRollout
  BY <1>7 DEF MakeRollout
<1>8. CASE UpdateRollout
  <2>1. CASE RolloutSaveDue
    <3>1. job' = "save" /\ rollout' = None
          /\ writer' = [r \in Ranks |-> IF r = 0 THEN "main" ELSE "optim"]
      BY <1>8, <2>1 DEF UpdateRollout, SaveOr, RolloutSaveDue
    <3> QED BY <3>1
  <2>2. CASE ~RolloutSaveDue
    <3>1. writer' = writer /\ job = "rollout"
      BY <1>8, <2>2 DEF UpdateRollout, SaveOr
    <3>2. job' = "rollout" \/ (job' = "update" /\ rollout' = None)
      BY <1>8, <2>2 DEF UpdateRollout, SaveOr, LastRound
    <3> QED BY <3>1, <3>2
  <2> QED BY <2>1, <2>2
<1>9. CASE WriteMain
  BY <1>9 DEF WriteMain
<1>10. ASSUME NEW r \in Ranks, OpenOptimizer(r) PROVE RolloutPlaces'
  BY <1>10 DEF OpenOptimizer
<1>11. ASSUME NEW r \in Ranks, CloseOptimizer(r) PROVE RolloutPlaces'
  BY <1>11 DEF CloseOptimizer
<1>12. CASE LeaveBarrier
  BY <1>12 DEF LeaveBarrier, memory
<1>13. CASE Crash
  BY <1>13 DEF Crash
<1> QED
  BY <1>1, <1>2, <1>3, <1>4, <1>5, <1>6, <1>7, <1>8, <1>9, <1>10, <1>11, <1>12, <1>13
  DEF Next, Run, Save

\* A round on a rollout extends a whole model by an update that belongs there.
LEMMA RoundWhole ==
  ASSUME NEW m, IsModel(m), WholeRollouts(m), NEW round \in Nat, NEW policy \in Nat, NEW data, NEW last,
         policy + round = Len(m), round = 0 => UsedUp(m)
  PROVE  WholeRollouts(Append(m, [lr |-> Len(m), data |-> data, policy |-> policy,
                                  old |-> policy, round |-> round, last |-> last]))
<1> DEFINE u == [lr |-> Len(m), data |-> data, policy |-> policy,
                 old |-> policy, round |-> round, last |-> last]
           n == Append(m, u)
<1>1. PICK S : m \in Seq(S)
  BY DEF IsModel
<1>2. Len(m) \in Nat /\ Len(n) = Len(m) + 1 /\ n[Len(m) + 1] = u
  BY <1>1
<1>3. \A i \in 1 .. Len(m) : n[i] = m[i]
  BY <1>1
<1>4. u.old = u.policy /\ u.policy = policy /\ u.round = round
  OBVIOUS
<1> HIDE DEF u, n
<1>5. ASSUME NEW i \in 1 .. Len(n) PROVE n[i].old = n[i].policy /\ n[i].policy = i - 1 - n[i].round
  <2>1. CASE i = Len(m) + 1
    BY <1>2, <1>4, <2>1
  <2>2. CASE i \in 1 .. Len(m)
    BY <1>3, <2>2 DEF WholeRollouts
  <2> QED BY <1>2, <1>5, <2>1, <2>2
<1>6. ASSUME NEW i \in 2 .. Len(n), n[i].round = 0 PROVE n[i - 1].last
  <2>1. i - 1 \in 1 .. Len(m) /\ n[i - 1] = m[i - 1]
    BY <1>2, <1>3
  <2>2. CASE i = Len(m) + 1
    BY <1>2, <1>4, <1>6, <2>1, <2>2 DEF UsedUp
  <2>3. CASE i \in 2 .. Len(m)
    BY <1>3, <1>6, <2>1, <2>3 DEF WholeRollouts
  <2> QED BY <1>2, <1>6, <2>2, <2>3
<1>7. WholeRollouts(n)
  BY <1>5, <1>6 DEF WholeRollouts
<1> QED BY <1>7 DEF u, n

LEMMA StepRollouts ==
  Matching /\ RolloutPlaces /\ Rollouts /\ [Next]_vars => Rollouts'
<1> SUFFICES ASSUME Matching, RolloutPlaces, Rollouts, [Next]_vars, trainer' = "grpo"
             PROVE  GRPOWhole'
  BY DEF Rollouts
<1>t. trainer = "grpo"
  BY DEF Next, Run, Save, Launch, LaunchFresh, LaunchFrom, Started, BeginEpoch, EndEpoch, RunDry,
         UpdateWindow, MakeRollout, UpdateRollout, WriteMain, OpenOptimizer, CloseOptimizer,
         LeaveBarrier, Crash, vars
<1>g. GRPOWhole /\ IsModel(model) /\ Len(model) \in Nat
  BY <1>t, AppendIsModel DEF Rollouts, Matching, MemoryMatches
<1>d. ASSUME UNCHANGED disk PROVE SavedWhole'
  BY <1>d, <1>g DEF GRPOWhole, SavedWhole
<1>k. ASSUME UNCHANGED <<model, rollout>>, SavedWhole', job' = "rollout" <=> job = "rollout"
      PROVE  GRPOWhole'
  BY <1>k, <1>g DEF GRPOWhole, RolloutOnPolicy, completed
<1>e. ASSUME WholeRollouts(model'), UsedUp(model'), SavedWhole', job' # "rollout"
      PROVE  GRPOWhole'
  BY <1>e DEF GRPOWhole
<1>o. ASSUME NEW r \in Ranks, NEW v, disk' = [disk EXCEPT ![completed].optim[r] = v]
      PROVE  SavedWhole'
  <2>1. PICK M : disk \in [Steps -> [main : M, optim : OptimFiles]]
    BY DEF Matching, DiskShape
  <2>2. \A s \in Steps : disk'[s].main = disk[s].main
    BY <1>o, <2>1
  <2> QED BY <1>g, <2>2 DEF GRPOWhole, SavedWhole
<1>1. CASE UNCHANGED vars
  BY <1>1, <1>d, <1>k DEF vars, memory
<1>2. CASE Launch
  <2>1. PICK t \in Targets : LaunchFresh(t) \/ \E step \in Steps : LaunchFrom(step, t)
    BY <1>2 DEF Launch
  <2>2. job' # "rollout" /\ SavedWhole'
    BY <2>1, <1>d DEF LaunchFresh, LaunchFrom, Started
  <2>3. WholeRollouts(model') /\ UsedUp(model')
    BY <2>1, <1>g, EmptyWhole
    DEF LaunchFresh, LaunchFrom, Started, Loadable, GRPOWhole, SavedWhole
  <2> QED BY <2>2, <2>3, <1>e
<1>3. CASE BeginEpoch
  BY <1>3, <1>d, <1>k DEF BeginEpoch
<1>4. CASE EndEpoch
  BY <1>4, <1>d, <1>k DEF EndEpoch
<1>5. CASE RunDry
  BY <1>5, <1>d, <1>k DEF RunDry, memory
<1>6. CASE UpdateWindow
  BY <1>6, <1>t DEF UpdateWindow, Windowed
<1>7. CASE MakeRollout
  <2> DEFINE data == NextBatches(iterator, 1)
             rounds == Smaller(UpdatesPerRollout, total - completed)
  <2>1. rollout' = [data |-> data, policy |-> completed, old |-> None, round |-> 0, rounds |-> rounds]
        /\ UNCHANGED <<model, disk>> /\ job = "update" /\ job' = "rollout"
    BY <1>7 DEF MakeRollout
  <2> HIDE DEF data, rounds
  <2>2. rollout' \in [data : {data}, policy : Nat, old : Nat \cup {None}, round : Nat, rounds : {rounds}]
    BY <2>1, <1>g DEF completed
  <2>3. RolloutOnPolicy'
    <3>1. \E D, R : rollout' \in [data : D, policy : Nat, old : Nat \cup {None}, round : Nat, rounds : R]
      BY <2>2
    <3>2. rollout'.policy = completed /\ rollout'.old = None /\ rollout'.round = 0
      BY <2>1
    <3>3. UsedUp(model') /\ completed' = completed /\ completed \in Nat
      BY <2>1, <1>g DEF GRPOWhole, completed
    <3> QED BY <3>1, <3>2, <3>3 DEF RolloutOnPolicy
  <2> QED BY <2>1, <2>3, <1>d, <1>g DEF GRPOWhole
<1>8. CASE UpdateRollout
  <2> DEFINE policy == rollout.policy
             round == rollout.round
  <2>1. RolloutOnPolicy
    BY <1>8, <1>g DEF UpdateRollout, GRPOWhole
  <2>2. PICK D, R :
          rollout \in [data : D, policy : Nat, old : Nat \cup {None}, round : Nat, rounds : R]
    BY <2>1 DEF RolloutOnPolicy
  <2>3. policy \in Nat /\ round \in Nat /\ policy + round = Len(model) /\ (round = 0 => UsedUp(model))
    BY <2>1, <2>2 DEF RolloutOnPolicy, completed
  <2>4. OldPolicy = policy
    BY <2>1, <2>2, <1>g, FilesAssumption DEF RolloutOnPolicy, OldPolicy, completed
  <2>5. model' = Append(model, [lr |-> Len(model), data |-> rollout.data, policy |-> policy,
                                old |-> policy, round |-> round, last |-> LastRound])
    BY <1>8, <2>4 DEF UpdateRollout, Stepped, completed
  <2>6. WholeRollouts(model') /\ SavedWhole'
    BY <1>8, <1>d, <1>g, <2>3, <2>5, RoundWhole DEF GRPOWhole, UpdateRollout
  <2>7. Len(model') = Len(model) + 1 /\ model'[Len(model) + 1].last = LastRound
    <3>1. PICK S : model \in Seq(S)
      BY <1>g DEF IsModel
    <3> QED BY <2>5, <3>1
  <2>8. CASE LastRound
    BY <1>8, <1>e, <1>g, <2>6, <2>7, <2>8 DEF UpdateRollout, SaveOr, UsedUp
  <2>9. CASE ~LastRound
    <3>1. job' = "rollout" /\ rollout' = [rollout EXCEPT !.old = policy, !.round = round + 1]
      BY <1>8, <2>4, <2>9 DEF UpdateRollout, SaveOr, RolloutSaveDue
    <3>2. /\ rollout' \in [data : D, policy : Nat, old : Nat \cup {None}, round : Nat, rounds : R]
          /\ rollout'.policy = policy /\ rollout'.round = round + 1 /\ rollout'.old = policy
      <4> DEFINE rest == [data |-> rollout.data, policy |-> policy, old |-> policy,
                          round |-> round + 1, rounds |-> rollout.rounds]
      <4>1. rollout' = rest
        BY <2>2, <3>1
      <4>2. rest \in [data : D, policy : Nat, old : Nat \cup {None}, round : Nat, rounds : R]
        BY <2>2
      <4>3. rest.policy = policy /\ rest.round = round + 1 /\ rest.old = policy
        OBVIOUS
      <4> HIDE DEF rest
      <4> QED BY <4>1, <4>2, <4>3
    <3>3. \E E, Q : rollout' \in [data : E, policy : Nat, old : Nat \cup {None}, round : Nat, rounds : Q]
      BY <3>2
    <3>4. RolloutOnPolicy'
      BY <2>3, <2>7, <3>2, <3>3, <1>g DEF RolloutOnPolicy, completed
    <3> QED BY <2>6, <3>1, <3>4 DEF GRPOWhole
  <2> QED BY <2>8, <2>9
<1>9. CASE WriteMain
  <2> DEFINE content == [model |-> model, position |-> Position]
  <2>1. PICK M : disk \in [Steps -> [main : M, optim : OptimFiles]]
    BY DEF Matching, DiskShape
  <2>2. disk' = [disk EXCEPT ![completed].main = content]
        /\ UNCHANGED <<model, rollout, job>> /\ job = "save"
    BY <1>9 DEF WriteMain, FileOf, RolloutPlaces
  <2>3. \A s \in Steps : disk'[s].main = content \/ disk'[s].main = disk[s].main
    BY <2>1, <2>2
  <2>4. content.model = model
    OBVIOUS
  <2> HIDE DEF content
  <2>5. SavedWhole'
    BY <1>g, <2>2, <2>3, <2>4 DEF GRPOWhole, SavedWhole
  <2> QED BY <2>2, <2>5, <1>k
<1>10. ASSUME NEW r \in Ranks, OpenOptimizer(r) PROVE GRPOWhole'
  BY <1>10, <1>o, <1>k DEF OpenOptimizer, FileOf
<1>11. ASSUME NEW r \in Ranks, CloseOptimizer(r) PROVE GRPOWhole'
  BY <1>11, <1>o, <1>k DEF CloseOptimizer, FileOf
<1>12. CASE LeaveBarrier
  BY <1>12, <1>d, <1>k DEF LeaveBarrier, RolloutPlaces, memory
<1>13. CASE Crash
  BY <1>13, <1>d, <1>e, EmptyWhole DEF Crash
<1> QED
  BY <1>1, <1>2, <1>3, <1>4, <1>5, <1>6, <1>7, <1>8, <1>9, <1>10, <1>11, <1>12, <1>13
  DEF Next, Run, Save

\* Every round on a rollout is weighed against the policy that made it and
\* follows it directly, whatever crashes and restarts come between rollouts.
THEOREM RolloutsWhole == Spec => []RolloutsAreWhole
<1>1. Init => Matching /\ RolloutPlaces /\ Rollouts
  BY InitMatching, InitRollouts
<1>2. Matching /\ RolloutPlaces /\ Rollouts /\ [Next]_vars
      => (Matching /\ RolloutPlaces /\ Rollouts)'
  BY StepMatching, StepPlaces, StepRollouts
<1>3. Rollouts => RolloutsAreWhole
  BY DEF Rollouts, GRPOWhole, WholeRollouts, RolloutsAreWhole, completed
<1> QED BY <1>1, <1>2, <1>3, PTL DEF Spec

-----------------------------------------------------------------------------
(* Log entries.                                                             *)

\* Outside the DPO trainer a log entry divides by as many steps as it sums
\* losses of, in every job: resumed, killed or run to its end.
THEOREM MeansMatch == Spec => []MeansMatchLog
<1>1. Init => MeansMatchLog
  BY DEF Init, MeansMatchLog
<1>2. MeansMatchLog /\ [Next]_vars => MeansMatchLog'
  <2> SUFFICES ASSUME MeansMatchLog, [Next]_vars, trainer' # "dpo"
               PROVE  log'.count = log'.summed
    BY DEF MeansMatchLog
  <2>t. trainer # "dpo" /\ log.count = log.summed
    BY DEF Next, Run, Save, Launch, LaunchFresh, LaunchFrom, Started, BeginEpoch, EndEpoch, RunDry,
           UpdateWindow, MakeRollout, UpdateRollout, WriteMain, OpenOptimizer, CloseOptimizer,
           LeaveBarrier, Crash, vars, MeansMatchLog
  <2>1. CASE UNCHANGED log
    BY <2>1, <2>t
  <2>2. CASE Launch
    BY <2>2, <2>t DEF Launch, LaunchFresh, LaunchFrom, Started, LoggedAtStart
  <2>3. CASE UpdateWindow \/ UpdateRollout
    <3>1. \/ log' = [count |-> 0, summed |-> 0]
          \/ log' = [count |-> log.count + 1, summed |-> log.summed + 1]
      BY <2>3 DEF UpdateWindow, UpdateRollout, Stepped
    <3> QED BY <3>1, <2>t
  <2>4. CASE Crash
    BY <2>4 DEF Crash
  <2> QED
    BY <2>1, <2>2, <2>3, <2>4
    DEF Next, Run, Save, BeginEpoch, EndEpoch, RunDry, MakeRollout, WriteMain, OpenOptimizer,
        CloseOptimizer, LeaveBarrier, vars, memory
<1> QED BY <1>1, <1>2, PTL DEF Spec

-----------------------------------------------------------------------------
(***************************************************************************)
(* The trainers that work in windows of batches follow the plan, for every *)
(* size of data, batch, window and save interval, every number of crashes  *)
(* and every order in which checkpoints are taken up.                      *)
(***************************************************************************)

-----------------------------------------------------------------------------
(* Sizes, and products that stay below them.                                *)

LEMMA Sizes ==
  /\ DataLen \in Nat \ {0} /\ BatchSize \in Nat \ {0} /\ Epochs \in Nat \ {0}
  /\ Accumulation \in Nat \ {0}
  /\ BatchesPerEpoch \in Nat \ {0} /\ UpdatesPerEpoch \in Nat \ {0}
  /\ DataLen <= BatchesPerEpoch * BatchSize
  /\ (BatchesPerEpoch - 1) * BatchSize < DataLen
  /\ BatchesPerEpoch <= UpdatesPerEpoch * Accumulation
  /\ (UpdatesPerEpoch - 1) * Accumulation < BatchesPerEpoch
<1>1. /\ DataLen \in Nat \ {0} /\ BatchSize \in Nat \ {0} /\ Epochs \in Nat \ {0}
      /\ Accumulation \in Nat \ {0}
  BY SizesArePositive
<1>2. /\ BatchesPerEpoch \in Nat \ {0} /\ DataLen <= BatchesPerEpoch * BatchSize
      /\ (BatchesPerEpoch - 1) * BatchSize < DataLen
  BY <1>1, CoveringParts DEF BatchesPerEpoch, CeilingOf
<1>3. /\ UpdatesPerEpoch \in Nat \ {0} /\ BatchesPerEpoch <= UpdatesPerEpoch * Accumulation
      /\ (UpdatesPerEpoch - 1) * Accumulation < BatchesPerEpoch
  BY <1>1, <1>2, CoveringParts DEF UpdatesPerEpoch, CeilingOf
<1> QED BY <1>1, <1>2, <1>3

\* Products with the same positive factor are ordered as the other factors.
LEMMA ProductsAreOrdered ==
  ASSUME NEW a \in Nat, NEW b \in Nat, NEW s \in Nat \ {0}
  PROVE  /\ a * s \in Nat /\ b * s \in Nat
         /\ a <= b <=> a * s <= b * s
         /\ a < b <=> a * s + s <= b * s
<1>1. a * s \in Nat /\ b * s \in Nat
  OBVIOUS
<1>2. CASE a < b
  <2>1. b * s >= a * s + s
    BY <1>2, OneStepMore
  <2> QED BY <1>1, <1>2, <2>1
<1>3. CASE a = b
  BY <1>1, <1>3
<1>4. CASE a > b
  <2>1. a * s >= b * s + s
    BY <1>4, OneStepMore
  <2> QED BY <1>1, <1>4, <2>1
<1> QED BY <1>2, <1>3, <1>4

\* A batch of the epoch starts before the data end.
LEMMA BatchStarts ==
  ASSUME NEW b \in Nat
  PROVE  /\ b * BatchSize \in Nat
         /\ b < BatchesPerEpoch => b * BatchSize < DataLen
         /\ b >= BatchesPerEpoch => b * BatchSize >= DataLen
<1>1. b < BatchesPerEpoch => b * BatchSize < DataLen
  <2> SUFFICES ASSUME b < BatchesPerEpoch PROVE b * BatchSize < DataLen
    OBVIOUS
  <2>1. b <= BatchesPerEpoch - 1 /\ BatchesPerEpoch - 1 \in Nat
    BY Sizes
  <2>2. b * BatchSize <= (BatchesPerEpoch - 1) * BatchSize
    BY <2>1, Sizes, ProductsAreOrdered
  <2> QED BY <2>1, <2>2, Sizes, ProductsAreOrdered
<1>2. b >= BatchesPerEpoch => b * BatchSize >= DataLen
  <2>1. BatchesPerEpoch <= b <=> BatchesPerEpoch * BatchSize <= b * BatchSize
    BY Sizes, ProductsAreOrdered
  <2> QED BY <2>1, Sizes, ProductsAreOrdered
<1> QED BY <1>1, <1>2, Sizes, ProductsAreOrdered

\* A window of the epoch starts before its batches end.
LEMMA WindowStarts ==
  ASSUME NEW w \in Nat
  PROVE  /\ w * Accumulation \in Nat
         /\ (w + 1) * Accumulation = w * Accumulation + Accumulation
         /\ w < UpdatesPerEpoch <=> w * Accumulation < BatchesPerEpoch
<1>1. w < UpdatesPerEpoch => w * Accumulation < BatchesPerEpoch
  <2> SUFFICES ASSUME w < UpdatesPerEpoch PROVE w * Accumulation < BatchesPerEpoch
    OBVIOUS
  <2>1. w <= UpdatesPerEpoch - 1 /\ UpdatesPerEpoch - 1 \in Nat
    BY Sizes
  <2>2. w * Accumulation <= (UpdatesPerEpoch - 1) * Accumulation
    BY <2>1, Sizes, ProductsAreOrdered
  <2> QED BY <2>1, <2>2, Sizes, ProductsAreOrdered
<1>2. w >= UpdatesPerEpoch => w * Accumulation >= BatchesPerEpoch
  <2>1. UpdatesPerEpoch <= w <=> UpdatesPerEpoch * Accumulation <= w * Accumulation
    BY Sizes, ProductsAreOrdered
  <2> QED BY <2>1, Sizes, ProductsAreOrdered
<1>3. w * Accumulation \in Nat /\ (w + 1) * Accumulation = w * Accumulation + Accumulation
  BY Sizes
<1> QED BY <1>1, <1>2, <1>3, Sizes

-----------------------------------------------------------------------------
(* The place of a job in its plan.                                          *)

\* After w windows of epoch e, b of its batches are used and c updates made.
PlaceOf(e, b, c) ==
  \E w \in 0 .. UpdatesPerEpoch :
    /\ b = Smaller(w * Accumulation, BatchesPerEpoch)
    /\ c = e * UpdatesPerEpoch + w

\* The iterator stands before batch b of its epoch.
IteratorAt(e, b) == iterator = [epoch |-> e, at |-> Smaller(b * BatchSize, DataLen)]

Follows(m) ==
  \A i \in 1 .. Len(m) : m[i].lr = WindowPlan[i].lr /\ m[i].data = WindowPlan[i].data

InEpoch == epoch \in 0 .. Epochs - 1 /\ start.epoch \in 0 .. epoch

\* A job stops at its target.
OnTarget == total \in Nat /\ completed <= total

Placed ==
  /\ job # "rollout"
  /\ job = "epoch" => InEpoch /\ OnTarget /\ PlaceOf(epoch, BatchesToSkip, completed)
  /\ job \in {"update", "save"} =>
       InEpoch /\ OnTarget /\ PlaceOf(epoch, seen, completed) /\ IteratorAt(epoch, seen)

SavedInPlace ==
  \A step \in Steps : disk[step].main # None =>
    /\ Follows(disk[step].main.model)
    /\ disk[step].main.position.epoch \in Nat
    /\ PlaceOf(disk[step].main.position.epoch, disk[step].main.position.batch, step)

InPlan == Follows(model) /\ Placed /\ SavedInPlace

Windows == trainer \in Windowed => InPlan

\* The number of updates before an epoch.
LEMMA UpdatesBefore ==
  ASSUME NEW e \in Nat
  PROVE  /\ e * UpdatesPerEpoch \in Nat
         /\ (e + 1) * UpdatesPerEpoch = e * UpdatesPerEpoch + UpdatesPerEpoch
         /\ e < Epochs => (e + 1) * UpdatesPerEpoch <= Epochs * UpdatesPerEpoch
<1>1. e * UpdatesPerEpoch \in Nat /\ (e + 1) * UpdatesPerEpoch = e * UpdatesPerEpoch + UpdatesPerEpoch
  BY Sizes
<1>2. e + 1 <= Epochs => (e + 1) * UpdatesPerEpoch <= Epochs * UpdatesPerEpoch
  BY Sizes, ProductsAreOrdered
<1> QED BY <1>1, <1>2, Sizes

\* Nothing used and nothing made: the place where an epoch begins.
LEMMA EpochBegins ==
  ASSUME NEW e \in Nat
  PROVE  PlaceOf(e, 0, e * UpdatesPerEpoch)
<1>1. 0 * Accumulation = 0 /\ Smaller(0 * Accumulation, BatchesPerEpoch) = 0
  BY Sizes DEF Smaller
<1>2. 0 \in 0 .. UpdatesPerEpoch /\ e * UpdatesPerEpoch = e * UpdatesPerEpoch + 0
  BY Sizes, UpdatesBefore
<1> QED BY <1>1, <1>2 DEF PlaceOf

\* Where every batch is used the next epoch begins.
LEMMA EpochEnds ==
  ASSUME NEW e \in Nat, NEW c, PlaceOf(e, BatchesPerEpoch, c)
  PROVE  c = (e + 1) * UpdatesPerEpoch /\ PlaceOf(e + 1, 0, c)
<1>1. PICK w \in 0 .. UpdatesPerEpoch :
        BatchesPerEpoch = Smaller(w * Accumulation, BatchesPerEpoch) /\ c = e * UpdatesPerEpoch + w
  BY DEF PlaceOf
<1>2. w = UpdatesPerEpoch
  BY <1>1, Sizes, WindowStarts DEF Smaller
<1>3. c = (e + 1) * UpdatesPerEpoch
  BY <1>1, <1>2, UpdatesBefore
<1> QED BY <1>3, EpochBegins, Sizes

LEMMA PlanLength == Len(WindowPlan) \in Nat
<1>1. Epochs * UpdatesPerEpoch \in Nat
  BY Sizes
<1> QED BY <1>1 DEF WindowPlan

\* The plan's update after e epochs and w windows.
LEMMA PlannedWindow ==
  ASSUME NEW e \in 0 .. Epochs - 1, NEW w \in 0 .. UpdatesPerEpoch - 1
  PROVE  LET i == e * UpdatesPerEpoch + w + 1
         IN  /\ i \in DOMAIN WindowPlan /\ WindowPlan[i].lr = i - 1
             /\ WindowPlan[i].data =
                  [j \in 1 .. Smaller(Accumulation, BatchesPerEpoch - w * Accumulation) |->
                     BatchAt(e, w * Accumulation + j - 1)]
<1> DEFINE i == e * UpdatesPerEpoch + w + 1
           before == e * UpdatesPerEpoch
<1>1. before \in Nat /\ before + UpdatesPerEpoch <= Epochs * UpdatesPerEpoch /\ e \in Nat /\ w \in Nat
  BY Sizes, UpdatesBefore
<1>2. i = before + w + 1 /\ i - 1 = before + w
  BY <1>1
<1>3. (before + w) \div UpdatesPerEpoch = e /\ (before + w) % UpdatesPerEpoch = w
  BY Sizes, <1>1, QuotientIsUnique
<1> HIDE DEF before
<1>4. i \in 1 .. Epochs * UpdatesPerEpoch
  BY <1>1, <1>2, Sizes
<1> HIDE DEF i
<1>5. i \in DOMAIN WindowPlan
  BY <1>4 DEF WindowPlan
<1>6. WindowPlan[i] =
        [lr |-> i - 1,
         data |-> [j \in 1 .. Smaller(Accumulation, BatchesPerEpoch - w * Accumulation) |->
                     BatchAt(e, w * Accumulation + j - 1)]]
  BY <1>2, <1>3, <1>4 DEF WindowPlan
<1> QED BY <1>5, <1>6 DEF i

-----------------------------------------------------------------------------
(* One window.                                                              *)

\* The window the loop takes from the iterator is the one the plan has next.
LEMMA WindowIsPlanned ==
  ASSUME InEpoch, PlaceOf(epoch, seen, completed), IteratorAt(epoch, seen), seen < BatchesPerEpoch
  PROVE  /\ completed + 1 \in DOMAIN WindowPlan
         /\ WindowPlan[completed + 1].lr = completed
         /\ WindowPlan[completed + 1].data = NextBatches(iterator, WindowSize)
         /\ completed \in Nat
         /\ PlaceOf(epoch, seen + WindowSize, completed + 1)
         /\ Advanced(iterator, WindowSize) =
              [epoch |-> epoch, at |-> Smaller((seen + WindowSize) * BatchSize, DataLen)]
<1>1. PICK w \in 0 .. UpdatesPerEpoch :
        seen = Smaller(w * Accumulation, BatchesPerEpoch) /\ completed = epoch * UpdatesPerEpoch + w
  BY DEF PlaceOf
<1>2. w \in Nat /\ w < UpdatesPerEpoch /\ seen = w * Accumulation /\ seen \in Nat
  BY <1>1, Sizes, WindowStarts DEF Smaller
<1>3. epoch \in 0 .. Epochs - 1 /\ epoch \in Nat /\ w \in 0 .. UpdatesPerEpoch - 1
  BY <1>2, Sizes DEF InEpoch
<1>4. epoch * UpdatesPerEpoch \in Nat
  BY <1>3, UpdatesBefore
<1> DEFINE size == WindowSize
<1>5. size \in Nat /\ size = Smaller(Accumulation, BatchesPerEpoch - seen)
  BY <1>2, Sizes DEF WindowSize, Smaller
<1>6. /\ completed + 1 \in DOMAIN WindowPlan /\ WindowPlan[completed + 1].lr = completed
      /\ WindowPlan[completed + 1].data = [j \in 1 .. size |-> BatchAt(epoch, seen + j - 1)]
  <2>1. completed + 1 = epoch * UpdatesPerEpoch + w + 1 /\ (completed + 1) - 1 = completed
    BY <1>1, <1>2, <1>4
  <2> QED BY <1>2, <1>3, <1>5, <2>1, PlannedWindow
<1>7. iterator.epoch = epoch /\ iterator.at = seen * BatchSize /\ seen * BatchSize \in Nat
  BY <1>2, Sizes, BatchStarts DEF IteratorAt, Smaller
<1> HIDE DEF size
<1>8. NextBatches(iterator, size) = [j \in 1 .. size |-> BatchAt(epoch, seen + j - 1)]
  <2>1. ASSUME NEW j \in 1 .. size
        PROVE  iterator.at + (j - 1) * BatchSize = (seen + j - 1) * BatchSize
    <3>1. (seen + (j - 1)) * BatchSize = seen * BatchSize + (j - 1) * BatchSize
      BY <1>2, <1>5, Sizes
    <3>2. seen + (j - 1) = seen + j - 1
      BY <1>2, <1>5
    <3> QED BY <1>7, <3>1, <3>2
  <2> QED BY <1>7, <2>1 DEF NextBatches, BatchAt
<1>9. PlaceOf(epoch, seen + size, completed + 1)
  <2>1. w + 1 \in 0 .. UpdatesPerEpoch /\ completed + 1 = epoch * UpdatesPerEpoch + (w + 1)
    BY <1>1, <1>2, <1>4, Sizes
  <2>2. (w + 1) * Accumulation = seen + Accumulation
    BY <1>2, WindowStarts
  <2>3. seen + size = Smaller((w + 1) * Accumulation, BatchesPerEpoch)
    BY <1>2, <1>5, <2>2, Sizes DEF Smaller
  <2> QED BY <2>1, <2>3 DEF PlaceOf
<1>10. Advanced(iterator, size) =
         [epoch |-> epoch, at |-> Smaller((seen + size) * BatchSize, DataLen)]
  <2>1. (seen + size) * BatchSize = seen * BatchSize + size * BatchSize
    BY <1>2, <1>5, Sizes
  <2>2. iterator = [epoch |-> epoch, at |-> iterator.at]
    BY DEF IteratorAt
  <2> QED BY <1>7, <2>1, <2>2 DEF Advanced
<1>11. completed \in Nat
  BY <1>1, <1>2, <1>4
<1> QED BY <1>6, <1>8, <1>9, <1>10, <1>11 DEF size

\* A model that follows the plan and makes the planned update follows it still.
LEMMA FollowsOn ==
  ASSUME NEW m, NEW u, IsModel(m), Follows(m),
         u.lr = WindowPlan[Len(m) + 1].lr, u.data = WindowPlan[Len(m) + 1].data
  PROVE  Follows(Append(m, u))
<1>1. PICK S : m \in Seq(S)
  BY DEF IsModel
<1> DEFINE n == Append(m, u)
<1>2. Len(n) = Len(m) + 1 /\ Len(m) \in Nat /\ n[Len(m) + 1] = u
  BY <1>1
<1>3. \A i \in 1 .. Len(m) : n[i] = m[i]
  BY <1>1
<1> HIDE DEF n
<1>4. ASSUME NEW i \in 1 .. Len(n)
      PROVE  n[i].lr = WindowPlan[i].lr /\ n[i].data = WindowPlan[i].data
  <2>1. CASE i = Len(m) + 1
    BY <1>2, <2>1
  <2>2. CASE i \in 1 .. Len(m)
    BY <1>3, <2>2 DEF Follows
  <2> QED BY <1>2, <2>1, <2>2
<1>5. Follows(n)
  BY <1>4 DEF Follows
<1> QED BY <1>5 DEF n

\* The position that is saved is the place of the model saved with it.
LEMMA PositionIsPlace ==
  ASSUME InEpoch, PlaceOf(epoch, seen, completed)
  PROVE  Position.epoch \in Nat /\ PlaceOf(Position.epoch, Position.batch, completed)
<1>1. epoch \in Nat
  BY Sizes DEF InEpoch
<1>2. CASE seen = BatchesPerEpoch
  BY <1>1, <1>2, EpochEnds DEF Position
<1>3. CASE seen # BatchesPerEpoch
  BY <1>1, <1>3 DEF Position
<1> QED BY <1>2, <1>3

-----------------------------------------------------------------------------
LEMMA InitWindows == Init => Windows
<1> SUFFICES ASSUME Init PROVE InPlan
  BY DEF Windows
<1>1. Follows(model)
  BY EmptyIsModel DEF Init, Follows
<1>2. Placed /\ SavedInPlace
  BY DEF Init, Placed, SavedInPlace, NoFiles
<1> QED BY <1>1, <1>2 DEF InPlan

\* Every step keeps a windowed trainer and its files in the plan.
LEMMA StepWindows ==
  Matching /\ RolloutPlaces /\ Windows /\ [Next]_vars => Windows'
<1> SUFFICES ASSUME Matching, RolloutPlaces, Windows, [Next]_vars, trainer' \in Windowed
             PROVE  InPlan'
  BY DEF Windows
<1>t. trainer \in Windowed /\ trainer # "grpo"
  <2>1. trainer' = trainer
    BY DEF Next, Run, Save, Launch, LaunchFresh, LaunchFrom, Started, BeginEpoch, EndEpoch, RunDry,
           UpdateWindow, MakeRollout, UpdateRollout, WriteMain, OpenOptimizer, CloseOptimizer,
           LeaveBarrier, Crash, vars
  <2> QED BY <2>1 DEF Windowed
<1>p. InPlan /\ IsModel(model) /\ Follows(model) /\ Placed /\ SavedInPlace
  BY <1>t DEF Windows, InPlan, Matching, MemoryMatches
<1>d. ASSUME UNCHANGED disk PROVE SavedInPlace'
  BY <1>d, <1>p DEF SavedInPlace
<1>m. ASSUME UNCHANGED model PROVE Follows(model)' /\ completed' = completed
  BY <1>m, <1>p DEF Follows, completed
<1>k. ASSUME UNCHANGED <<total, start, epoch, seen, iterator, model>>, SavedInPlace',
             job' = job \/ (job' \in {"update", "save"} /\ job \in {"update", "save"})
                        \/ job' \notin {"epoch", "update", "save", "rollout"}
      PROVE  InPlan'
  <2>1. Placed'
    BY <1>k, <1>m, <1>p DEF Placed, InEpoch, OnTarget, PlaceOf, IteratorAt, BatchesToSkip
  <2> QED BY <1>k, <1>m, <2>1 DEF InPlan
<1>o. ASSUME NEW r \in Ranks, NEW v, disk' = [disk EXCEPT ![completed].optim[r] = v]
      PROVE  SavedInPlace'
  <2>1. PICK M : disk \in [Steps -> [main : M, optim : OptimFiles]]
    BY DEF Matching, DiskShape
  <2>2. \A s \in Steps : disk'[s].main = disk[s].main
    BY <1>o, <2>1
  <2> QED BY <1>p, <2>2 DEF SavedInPlace
<1>1. CASE UNCHANGED vars
  BY <1>1, <1>d, <1>k DEF vars, memory
<1>2. CASE Launch
  <2>1. PICK t \in Targets : LaunchFresh(t) \/ \E step \in Steps : LaunchFrom(step, t)
    BY <1>2 DEF Launch
  <2>t. Smaller(PlannedSteps, t) \in Nat
    BY <1>t, PlanLength, IntervalsAssumption DEF Smaller, PlannedSteps, Plan
  <2>2. PICK c \in Nat :
          /\ Follows(model)' /\ completed' = c /\ OnTarget'
          /\ epoch' = start.epoch' /\ epoch' \in Nat /\ PlaceOf(epoch', start'.batch, c)
          /\ UNCHANGED disk
          /\ job' = IF epoch' < Epochs THEN "epoch" ELSE "done"
    <3>1. CASE LaunchFresh(t)
      <4>0. Len(model') < total' /\ total' = Smaller(PlannedSteps, t)
        BY <3>1 DEF LaunchFresh, Started
      <4>1. model' = <<>> /\ start' = Beginning /\ epoch' = start'.epoch /\ UNCHANGED disk
            /\ job' = IF epoch' < Epochs THEN "epoch" ELSE "done"
        BY <3>1 DEF LaunchFresh, Started
      <4>2. Follows(model)' /\ completed' = 0
        BY <4>1, EmptyIsModel DEF Follows, completed
      <4>3. 0 * UpdatesPerEpoch = 0 /\ PlaceOf(0, 0, 0)
        <5>1. 0 * UpdatesPerEpoch = 0
          BY Sizes
        <5> QED BY <5>1, EpochBegins
      <4> QED BY <4>0, <4>1, <4>2, <4>3, <2>t DEF Beginning, OnTarget, completed
    <3>2. ASSUME NEW step \in Steps, LaunchFrom(step, t)
          PROVE  \E c \in Nat :
                   /\ Follows(model)' /\ completed' = c /\ OnTarget'
                   /\ epoch' = start.epoch' /\ epoch' \in Nat /\ PlaceOf(epoch', start'.batch, c)
                   /\ UNCHANGED disk
                   /\ job' = IF epoch' < Epochs THEN "epoch" ELSE "done"
      <4>0. Len(model') < total' /\ total' = Smaller(PlannedSteps, t)
        BY <3>2 DEF LaunchFrom, Started
      <4>1. /\ model' = disk[step].main.model /\ start' = disk[step].main.position
            /\ epoch' = start'.epoch /\ UNCHANGED disk /\ disk[step].main # None
            /\ job' = IF epoch' < Epochs THEN "epoch" ELSE "done"
        BY <3>2 DEF LaunchFrom, Started, Loadable
      <4>2. Len(disk[step].main.model) = step
        BY <3>2, LoadedMatches DEF LaunchFrom, Matching
      <4>3. Follows(model)' /\ completed' = step
        BY <4>1, <4>2, <1>p DEF SavedInPlace, Follows, completed
      <4>4. epoch' \in Nat /\ PlaceOf(epoch', start'.batch, step)
        BY <4>1, <1>p DEF SavedInPlace
      <4>5. step \in Nat
        BY DEF Steps
      <4> QED BY <4>0, <4>1, <4>3, <4>4, <4>5, <2>t DEF OnTarget, completed
    <3> QED BY <2>1, <3>1, <3>2
  <2>3. Placed'
    <3>1. CASE epoch' < Epochs
      <4>1. InEpoch' /\ BatchesToSkip' = start'.batch /\ job' = "epoch"
        BY <2>2, <3>1, Sizes DEF InEpoch, BatchesToSkip
      <4>2. PlaceOf(epoch, BatchesToSkip, completed)'
        BY <2>2, <4>1 DEF PlaceOf
      <4> QED BY <2>2, <4>1, <4>2 DEF Placed
    <3>2. CASE ~(epoch' < Epochs)
      BY <2>2, <3>2 DEF Placed
    <3> QED BY <3>1, <3>2
  <2> QED BY <1>d, <2>2, <2>3 DEF InPlan
<1>3. CASE BeginEpoch
  <2> DEFINE skip == BatchesToSkip
  <2>1. /\ job = "epoch" /\ job' \in {"update", "failed"} /\ seen' = skip
        /\ iterator' = Advanced(StartedAt(epoch, skip), 0)
        /\ UNCHANGED <<total, start, epoch, model, disk>>
    BY <1>3, <1>t DEF BeginEpoch, SkippedAgain
  <2>2. InEpoch /\ OnTarget /\ PlaceOf(epoch, skip, completed)
    BY <2>1, <1>p DEF Placed
  <2>3. skip \in Nat
    <3>1. PICK w \in 0 .. UpdatesPerEpoch : skip = Smaller(w * Accumulation, BatchesPerEpoch)
      BY <2>2 DEF PlaceOf
    <3> QED BY <3>1, Sizes, WindowStarts DEF Smaller
  <2> HIDE DEF skip
  <2>4. IteratorAt(epoch, seen)'
    <3>1. 0 * BatchSize = 0
      BY Sizes
    <3>2. Smaller(Smaller(skip * BatchSize, DataLen) + 0, DataLen) = Smaller(skip * BatchSize, DataLen)
      BY <2>3, Sizes, BatchStarts DEF Smaller
    <3> QED BY <2>1, <3>1, <3>2 DEF StartedAt, Advanced, IteratorAt
  <2>5. InEpoch' /\ OnTarget' /\ PlaceOf(epoch, seen, completed)'
    BY <2>1, <2>2, <1>m DEF InEpoch, OnTarget, PlaceOf
  <2> QED BY <2>1, <2>4, <2>5, <1>d, <1>m DEF InPlan, Placed
<1>4. CASE EndEpoch
  <2>1. /\ job = "update" /\ ~MoreToDo /\ epoch' = epoch + 1
        /\ job' = IF epoch + 1 = Epochs \/ completed = total THEN "done" ELSE "epoch"
        /\ UNCHANGED <<total, start, seen, iterator, model, disk>>
    BY <1>4, <1>t DEF EndEpoch
  <2>2. InEpoch /\ OnTarget /\ PlaceOf(epoch, seen, completed)
    BY <2>1, <1>p DEF Placed
  <2>3. CASE epoch + 1 = Epochs \/ completed = total
    BY <2>1, <2>3, <1>d, <1>m DEF InPlan, Placed
  <2>4. CASE epoch + 1 # Epochs /\ completed # total
    <3>1. epoch \in Nat /\ epoch + 1 \in 0 .. Epochs - 1 /\ start.epoch \in 0 .. epoch
      BY <2>2, <2>4, Sizes DEF InEpoch
    <3>2. PlaceOf(epoch + 1, 0, completed)
      <4>1. completed \in Nat /\ seen \in Nat /\ seen <= BatchesPerEpoch
        BY <1>p, <2>2, AppendIsModel, Sizes, WindowStarts DEF completed, PlaceOf, Smaller
      <4>2. seen = BatchesPerEpoch
        BY <2>1, <2>2, <2>4, <4>1, Sizes DEF MoreToDo, OnTarget
      <4> QED BY <2>2, <3>1, <4>2, EpochEnds
    <3>3. InEpoch' /\ OnTarget' /\ BatchesToSkip' = 0
      BY <2>1, <2>2, <3>1, <1>m DEF InEpoch, OnTarget, BatchesToSkip
    <3> QED BY <2>1, <2>4, <3>2, <3>3, <1>d, <1>m DEF InPlan, Placed, PlaceOf
  <2> QED BY <2>3, <2>4
<1>5. CASE RunDry
  BY <1>5, <1>d, <1>k DEF RunDry, memory
<1>6. CASE UpdateWindow
  <2> DEFINE u == [lr |-> completed, data |-> NextBatches(iterator, WindowSize)]
  <2>1. /\ job = "update" /\ seen < BatchesPerEpoch /\ completed < total
        /\ seen' = seen + WindowSize /\ iterator' = Advanced(iterator, WindowSize)
        /\ model' = Append(model, u) /\ job' \in {"save", "update"}
        /\ UNCHANGED <<total, start, epoch, disk>>
    BY <1>6 DEF UpdateWindow, MoreToDo, Stepped, SaveOr
  <2>2. InEpoch /\ OnTarget /\ PlaceOf(epoch, seen, completed) /\ IteratorAt(epoch, seen)
    BY <2>1, <1>p DEF Placed
  <2>3. /\ WindowPlan[completed + 1].lr = completed
        /\ WindowPlan[completed + 1].data = NextBatches(iterator, WindowSize)
        /\ PlaceOf(epoch, seen + WindowSize, completed + 1)
        /\ Advanced(iterator, WindowSize) =
             [epoch |-> epoch, at |-> Smaller((seen + WindowSize) * BatchSize, DataLen)]
    BY <2>1, <2>2, WindowIsPlanned
  <2>4. u.lr = completed /\ u.data = NextBatches(iterator, WindowSize)
    OBVIOUS
  <2> HIDE DEF u
  <2>5. Follows(model)'
    <3>1. Follows(Append(model, u))
      BY <1>p, <2>3, <2>4, FollowsOn DEF completed
    <3> QED BY <2>1, <3>1 DEF Follows
  <2>6. completed' = completed + 1
    BY <1>p, <2>1, AppendIsModel DEF completed
  <2>7. InEpoch' /\ PlaceOf(epoch, seen, completed)' /\ IteratorAt(epoch, seen)'
    BY <2>1, <2>2, <2>3, <2>6 DEF InEpoch, PlaceOf, IteratorAt
  <2>8. OnTarget'
    <3>1. completed \in Nat
      BY <1>p, AppendIsModel DEF completed
    <3> QED BY <2>1, <2>2, <2>6, <3>1 DEF OnTarget
  <2> QED BY <2>1, <2>5, <2>7, <2>8, <1>d DEF InPlan, Placed
<1>7. CASE MakeRollout
  BY <1>7, <1>t DEF MakeRollout
<1>8. CASE UpdateRollout
  BY <1>8, <1>p DEF UpdateRollout, Placed
<1>9. CASE WriteMain
  <2> DEFINE content == [model |-> model, position |-> Position]
  <2>1. PICK M : disk \in [Steps -> [main : M, optim : OptimFiles]]
    BY DEF Matching, DiskShape
  <2>2. /\ disk' = [disk EXCEPT ![completed].main = content] /\ job = "save"
        /\ UNCHANGED <<job, total, start, epoch, seen, iterator, model>>
    BY <1>9, ZeroIsRank DEF WriteMain, FileOf, RolloutPlaces
  <2>3. \A s \in Steps : disk'[s].main = IF s = completed THEN content ELSE disk[s].main
    BY <2>1, <2>2
  <2>4. Position.epoch \in Nat /\ PlaceOf(Position.epoch, Position.batch, completed)
    BY <1>p, <2>2, PositionIsPlace DEF Placed
  <2>5. content.model = model /\ content.position = Position
    OBVIOUS
  <2> HIDE DEF content
  <2>6. SavedInPlace'
    BY <1>p, <2>3, <2>4, <2>5 DEF SavedInPlace
  <2> QED BY <2>2, <2>6, <1>k
<1>10. ASSUME NEW r \in Ranks, OpenOptimizer(r) PROVE InPlan'
  BY <1>10, <1>o, <1>k DEF OpenOptimizer, FileOf
<1>11. ASSUME NEW r \in Ranks, CloseOptimizer(r) PROVE InPlan'
  BY <1>11, <1>o, <1>k DEF CloseOptimizer, FileOf
<1>12. CASE LeaveBarrier
  <2>1. job = "save" /\ job' = "update" /\ UNCHANGED <<memory, disk>>
    BY <1>12 DEF LeaveBarrier, RolloutPlaces
  <2> QED BY <2>1, <1>d, <1>k DEF memory
<1>13. CASE Crash
  <2>1. model' = <<>> /\ job' = "idle" /\ UNCHANGED disk
    BY <1>13 DEF Crash
  <2>2. Follows(model)'
    BY <2>1, EmptyIsModel DEF Follows
  <2> QED BY <2>1, <2>2, <1>d DEF InPlan, Placed
<1> QED
  BY <1>1, <1>2, <1>3, <1>4, <1>5, <1>6, <1>7, <1>8, <1>9, <1>10, <1>11, <1>12, <1>13
  DEF Next, Run, Save

\* However often a pretraining, SFT or DPO job is killed and whichever of its
\* checkpoints it is resumed from, its model is what an uninterrupted job has
\* after as many updates: the same batches in the same windows.
THEOREM WindowsAreFollowed == Spec => []WindowsFollowThePlan
<1>1. Init => Matching /\ RolloutPlaces /\ Windows
  BY InitMatching, InitRollouts, InitWindows
<1>2. Matching /\ RolloutPlaces /\ Windows /\ [Next]_vars => (Matching /\ RolloutPlaces /\ Windows)'
  BY StepMatching, StepPlaces, StepWindows
<1>3. Windows => WindowsFollowThePlan
  BY DEF Windows, InPlan, Follows, WindowsFollowThePlan, FollowsThePlan, Plan, Windowed, completed
<1> QED BY <1>1, <1>2, <1>3, PTL DEF Spec

-----------------------------------------------------------------------------
(* ShardLayout: the flat shards, the slices, the gate and up rows and the   *)
(* experts; every rank has one place in the process grid; and the export    *)
(* keeps the pairs a rotary embedding rotates.                              *)

\* The shards of one parameter are long enough to hold it.
LEMMA ShardsHoldParameter ==
  ASSUME NEW numel \in Nat \ {0}, NEW world \in Nat \ {0}
  PROVE  ShardNumel(numel, world) \in Nat \ {0} /\ numel <= world * ShardNumel(numel, world)
<1> DEFINE n == numel + world - 1
           s == n \div world
<1>1. n \in Nat
  OBVIOUS
<1>2. s \in Nat /\ n % world \in 0 .. world - 1 /\ n = s * world + (n % world)
  BY <1>1, QuotientAndRemainder
<1>3. s = ShardNumel(numel, world)
  BY DEF ShardNumel
<1>4. n = numel + world - 1
  OBVIOUS
<1> HIDE DEF n, s
<1>5. s * world \in Nat /\ s * world = world * s
  BY <1>2
<1>6. numel <= s * world
  BY <1>2, <1>4, <1>5
<1>7. s # 0
  BY <1>6, <1>5
<1> QED BY <1>2, <1>3, <1>5, <1>6, <1>7

-----------------------------------------------------------------------------
(* Parameters.                                                              *)

\* What fsdp.py gathers from the ranks' flat shards, cut at numel, is the
\* parameter, however much of the last shards is padding.
THEOREM FlatShardsRestoreParameter ==
  ASSUME NEW numel \in Nat \ {0}, NEW world \in Nat \ {0}, NEW V, NEW full \in [0 .. numel - 1 -> V]
  PROVE  GatheredFlat([r \in 0 .. world - 1 |-> FlatShard(full, numel, world, r)], numel, world) = full
<1> DEFINE s == ShardNumel(numel, world)
           shards == [r \in 0 .. world - 1 |-> FlatShard(full, numel, world, r)]
<1>1. s \in Nat \ {0} /\ numel <= world * s
  BY ShardsHoldParameter
<1>2. ASSUME NEW k \in 0 .. numel - 1
      PROVE  shards[k \div s][k % s] = full[k]
  <2> HIDE DEF s
  <2>1. k \in 0 .. world * s - 1
    BY <1>1
  <2>2. /\ k \div s \in 0 .. world - 1 /\ k % s \in 0 .. s - 1
        /\ (k \div s) * s + (k % s) = k
    BY <1>1, <2>1, PartOf
  <2>3. shards[k \div s] = FlatShard(full, numel, world, k \div s)
    BY <2>2
  <2>4. FlatShard(full, numel, world, k \div s)[k % s]
          = Padded(full, numel, world)[(k \div s) * s + (k % s)]
    BY <2>2 DEF FlatShard, s
  <2>5. Padded(full, numel, world)[(k \div s) * s + (k % s)] = full[k]
    BY <2>1, <2>2 DEF Padded, s
  <2> QED BY <2>3, <2>4, <2>5
<1>3. GatheredFlat(shards, numel, world) = [k \in 0 .. numel - 1 |-> shards[k \div s][k % s]]
  BY DEF GatheredFlat
<1>4. full = [k \in 0 .. numel - 1 |-> full[k]]
  OBVIOUS
<1> HIDE DEF shards, s
<1>5. [k \in 0 .. numel - 1 |-> shards[k \div s][k % s]] = [k \in 0 .. numel - 1 |-> full[k]]
  BY <1>2
<1>6. GatheredFlat(shards, numel, world) = full
  BY <1>3, <1>4, <1>5
<1> QED BY <1>6 DEF shards

LEMMA PartLength ==
  ASSUME NEW world \in Nat \ {0}, NEW local \in Nat \ {0}
  PROVE  (world * local) \div world = local
<1>1. (local * world + 0) \div world = local
  BY QuotientIsUnique
<1>2. local * world + 0 = world * local
  OBVIOUS
<1> QED BY <1>1, <1>2

\* A row of size elements; its parts of local elements.
IsRow(full, size) == full = [k \in 0 .. size - 1 |-> full[k]]

ArePartsOf(parts, full, world, local) ==
  \A r \in 0 .. world - 1 : \A k \in 0 .. local - 1 : parts[r][k] = full[r * local + k]

LEMMA RowOfRank ==
  ASSUME NEW world \in Nat \ {0}, NEW local \in Nat \ {0},
         NEW r \in 0 .. world - 1, NEW k \in 0 .. local - 1
  PROVE  r * local \in Nat /\ r * local + k \in 0 .. world * local - 1
<1>1. world * local >= r * local + local
  BY OneStepMore
<1>2. r * local \in Nat /\ world * local \in Nat
  OBVIOUS
<1> QED BY <1>1, <1>2

LEMMA SecondHalf ==
  ASSUME NEW size \in Nat, NEW k \in 0 .. 2 * size - 1, ~(k < size)
  PROVE  k - size \in 0 .. size - 1 /\ size + (k - size) = k
OBVIOUS

\* An axis cut into parts of local elements is put together again.
LEMMA PartsRestoreAxis ==
  ASSUME NEW world \in Nat \ {0}, NEW local \in Nat \ {0}, NEW size \in Nat, size = world * local,
         NEW full, IsRow(full, size), NEW parts, ArePartsOf(parts, full, world, local)
  PROVE  Concatenated(parts, size, world) = full
<1>1. size \div world = local
  BY PartLength
<1>2. ASSUME NEW k \in 0 .. size - 1
      PROVE  parts[k \div local][k % local] = full[k]
  <2>1. k \in 0 .. world * local - 1
    OBVIOUS
  <2>2. /\ k \div local \in 0 .. world - 1 /\ k % local \in 0 .. local - 1
        /\ (k \div local) * local + (k % local) = k
    BY <2>1, PartOf, ZenonT(30)
  <2> QED BY <2>2 DEF ArePartsOf
<1>3. Concatenated(parts, size, world) = [k \in 0 .. size - 1 |-> parts[k \div local][k % local]]
  BY <1>1 DEF Concatenated
<1>4. @ = [k \in 0 .. size - 1 |-> full[k]]
  BY <1>2
<1> QED BY <1>3, <1>4 DEF IsRow

\* Tensor parallelism: the slices of a divisible axis, gathered in rank order,
\* are that axis of the original weight.
THEOREM SlicesRestoreParameter ==
  ASSUME NEW world \in Nat \ {0}, NEW local \in Nat \ {0}, NEW size \in Nat, size = world * local,
         NEW full, IsRow(full, size)
  PROVE  Concatenated([r \in 0 .. world - 1 |-> Slice(full, size, world, r)], size, world) = full
<1> DEFINE parts == [r \in 0 .. world - 1 |-> Slice(full, size, world, r)]
<1>1. size \div world = local
  BY PartLength
<1>2. ArePartsOf(parts, full, world, local)
  BY <1>1 DEF Slice, ArePartsOf
<1> HIDE DEF parts
<1>3. Concatenated(parts, size, world) = full
  BY <1>2, PartsRestoreAxis
<1> QED BY <1>3 DEF parts

\* The weight of an expert cut by tensor parallelism: gate and up parts gathered
\* apart and joined are the original rows. Gathering the local rows as they are
\* would interleave the two parts.
THEOREM GateUpIsRestored ==
  ASSUME NEW world \in Nat \ {0}, NEW local \in Nat \ {0}, NEW size \in Nat, size = world * local,
         NEW full, IsRow(full, 2 * size)
  PROVE  FullGateUp([r \in 0 .. world - 1 |-> GateUpSlice(full, size, world, r)], size, world) = full
<1> DEFINE slices == [r \in 0 .. world - 1 |-> GateUpSlice(full, size, world, r)]
           part(first) == [r \in 0 .. world - 1 |-> [k \in 0 .. local - 1 |-> slices[r][first + k]]]
           gate == [k \in 0 .. size - 1 |-> full[k]]
           up == [k \in 0 .. size - 1 |-> full[size + k]]
<1>1. size \in Nat \ {0}
  OBVIOUS
<1>2. size \div world = local
  BY PartLength
<1>3. \A r \in 0 .. world - 1 : \A k \in 0 .. local - 1 :
        r * local \in Nat /\ r * local + k \in 0 .. size - 1
  BY RowOfRank
<1>4. \A r \in 0 .. world - 1 : \A k \in 0 .. local - 1 :
        slices[r][k] = full[r * local + k] /\ slices[r][local + k] = full[size + r * local + k]
  <2> SUFFICES ASSUME NEW r \in 0 .. world - 1, NEW k \in 0 .. local - 1
               PROVE  /\ slices[r][k] = full[r * local + k]
                      /\ slices[r][local + k] = full[size + r * local + k]
    OBVIOUS
  <2>1. slices[r] = [j \in 0 .. 2 * local - 1 |->
                       IF j < local THEN full[r * local + j] ELSE full[size + r * local + (j - local)]]
    BY <1>2 DEF GateUpSlice
  <2> HIDE DEF slices
  <2>2. /\ (local + k) - local = k /\ ~(local + k < local)
        /\ k \in 0 .. 2 * local - 1 /\ local + k \in 0 .. 2 * local - 1
    OBVIOUS
  <2>3. slices[r][k] = full[r * local + k]
    BY <2>1, <2>2
  <2>4. slices[r][local + k] = full[size + r * local + ((local + k) - local)]
    BY <2>1, <2>2
  <2> QED BY <2>2, <2>3, <2>4
<1> HIDE DEF slices
<1>5. Concatenated(part(0), size, world) = gate
  <2>1. ASSUME NEW r \in 0 .. world - 1, NEW k \in 0 .. local - 1
        PROVE  part(0)[r][k] = gate[r * local + k]
    <3>1. part(0)[r][k] = slices[r][k]
      OBVIOUS
    <3>2. gate[r * local + k] = full[r * local + k]
      BY <1>3
    <3> QED BY <3>1, <3>2, <1>4
  <2>2. IsRow(gate, size)
    BY DEF IsRow
  <2>3. ArePartsOf(part(0), gate, world, local)
    BY <2>1 DEF ArePartsOf
  <2> HIDE DEF part, gate
  <2> QED BY <2>2, <2>3, PartsRestoreAxis
<1>6. Concatenated(part(local), size, world) = up
  <2>1. ASSUME NEW r \in 0 .. world - 1, NEW k \in 0 .. local - 1
        PROVE  part(local)[r][k] = up[r * local + k]
    <3>1. part(local)[r][k] = full[size + r * local + k]
      BY <1>4
    <3>2. up[r * local + k] = full[size + (r * local + k)]
      BY <1>3
    <3>3. size + (r * local + k) = size + r * local + k
      BY <1>1, <1>3
    <3> QED BY <3>1, <3>2, <3>3
  <2>2. IsRow(up, size)
    BY DEF IsRow
  <2>3. ArePartsOf(part(local), up, world, local)
    BY <2>1 DEF ArePartsOf
  <2> HIDE DEF part, up
  <2> QED BY <2>2, <2>3, PartsRestoreAxis
<1>7. FullGateUp(slices, size, world)
        = [k \in 0 .. 2 * size - 1 |-> IF k < size THEN gate[k] ELSE up[k - size]]
  <2>1. FullGateUp(slices, size, world)
          = [k \in 0 .. 2 * size - 1 |->
               IF k < size THEN Concatenated(part(0), size, world)[k]
               ELSE Concatenated(part(local), size, world)[k - size]]
    BY <1>2 DEF FullGateUp
  <2> QED BY <2>1, <1>5, <1>6
<1>8. ASSUME NEW k \in 0 .. 2 * size - 1
      PROVE  (IF k < size THEN gate[k] ELSE up[k - size]) = full[k]
  <2>1. CASE k < size
    BY <2>1, <1>1
  <2>2. CASE ~(k < size)
    <3>1. k - size \in 0 .. size - 1 /\ size + (k - size) = k
      BY <2>2, SecondHalf
    <3> QED BY <2>2, <3>1
  <2> QED BY <2>1, <2>2
<1> HIDE DEF gate, up
<1>9. [k \in 0 .. 2 * size - 1 |-> IF k < size THEN gate[k] ELSE up[k - size]]
        = [k \in 0 .. 2 * size - 1 |-> full[k]]
  BY <1>8
<1>10. FullGateUp(slices, size, world) = full
  BY <1>7, <1>9 DEF IsRow
<1> QED BY <1>10 DEF slices

-----------------------------------------------------------------------------
(* Ranks.                                                                   *)

\* A routed token reaches the one rank that holds its expert, at the place the
\* expert has there.
THEOREM EveryExpertHasOneOwner ==
  ASSUME NEW world \in Nat \ {0}, NEW local \in Nat \ {0}, NEW expert \in 0 .. world * local - 1
  PROVE  /\ OwnerOf(expert, local) \in 0 .. world - 1
         /\ LocalExpert(expert, local) \in 0 .. local - 1
         /\ \A r \in 0 .. world - 1 : \A k \in 0 .. local - 1 :
              r * local + k = expert => r = OwnerOf(expert, local) /\ k = LocalExpert(expert, local)
<1>1. /\ expert \div local \in 0 .. world - 1 /\ expert % local \in 0 .. local - 1
      /\ (expert \div local) * local + (expert % local) = expert
  BY PartOf
<1>2. (expert \div local) * local \in Int
  BY <1>1
<1>3. LocalExpert(expert, local) = expert % local
  BY <1>1, <1>2 DEF LocalExpert, OwnerOf
<1>4. ASSUME NEW r \in 0 .. world - 1, NEW k \in 0 .. local - 1, r * local + k = expert
      PROVE  r = expert \div local /\ k = expert % local
  <2>1. r \in Nat
    OBVIOUS
  <2> QED BY <1>4, <2>1, QuotientIsUnique
<1> QED BY <1>1, <1>3, <1>4 DEF OwnerOf

\* The process grid: a rank is in the tensor group of its expert rank and in the
\* expert group of its tensor rank, in no others, and shares both with nobody.
THEOREM GridPlacesEveryRank ==
  ASSUME NEW tp \in Nat \ {0}, NEW ep \in Nat \ {0}, NEW rank \in 0 .. ep * tp - 1,
         NEW e \in 0 .. ep - 1, NEW t \in 0 .. tp - 1
  PROVE  /\ EpRank(rank, tp) \in 0 .. ep - 1 /\ TpRank(rank, tp) \in 0 .. tp - 1
         /\ rank \in TpGroup(e, tp) <=> e = EpRank(rank, tp)
         /\ rank \in EpGroup(t, tp, ep) <=> t = TpRank(rank, tp)
         /\ TpGroup(e, tp) \cap EpGroup(t, tp, ep) = {e * tp + t}
<1> DEFINE er == rank \div tp
           tr == rank % tp
<1>1. er \in 0 .. ep - 1 /\ tr \in 0 .. tp - 1 /\ er * tp + tr = rank
  BY PartOf
<1>2. \A x \in Int : x \in TpGroup(e, tp) => \E k \in 0 .. tp - 1 : x = e * tp + k
  <2> SUFFICES ASSUME NEW x \in Int, x \in TpGroup(e, tp)
               PROVE  \E k \in 0 .. tp - 1 : x = e * tp + k
    OBVIOUS
  <2>1. e * tp \in Int /\ (e + 1) * tp = e * tp + tp
    OBVIOUS
  <2>2. x - e * tp \in 0 .. tp - 1 /\ x = e * tp + (x - e * tp)
    BY <2>1 DEF TpGroup
  <2> QED BY <2>2
<1>3. \A k \in 0 .. tp - 1 : e * tp + k \in TpGroup(e, tp)
  <2> SUFFICES ASSUME NEW k \in 0 .. tp - 1 PROVE e * tp + k \in TpGroup(e, tp)
    OBVIOUS
  <2>1. e * tp \in Int /\ (e + 1) * tp = e * tp + tp
    OBVIOUS
  <2> QED BY <2>1 DEF TpGroup
<1>4. \A f \in 0 .. ep - 1 : \A k \in 0 .. tp - 1 : (f * tp + k) \div tp = f /\ (f * tp + k) % tp = k
  BY QuotientIsUnique
<1> HIDE DEF er, tr
<1>5. rank \in TpGroup(e, tp) => e = er
  <2> SUFFICES ASSUME rank \in TpGroup(e, tp) PROVE e = er
    OBVIOUS
  <2>1. PICK k \in 0 .. tp - 1 : rank = e * tp + k
    BY <1>2
  <2> QED BY <2>1, <1>4 DEF er
<1>6. e = er => rank \in TpGroup(e, tp)
  BY <1>1, <1>3
<1>7. rank \in EpGroup(t, tp, ep) => t = tr
  <2> SUFFICES ASSUME rank \in EpGroup(t, tp, ep) PROVE t = tr
    OBVIOUS
  <2>1. PICK f \in 0 .. ep - 1 : rank = f * tp + t
    BY DEF EpGroup
  <2>2. (f * tp + t) % tp = t
    BY <1>4
  <2> QED BY <2>1, <2>2 DEF tr
<1>8. t = tr => rank \in EpGroup(t, tp, ep)
  BY <1>1 DEF EpGroup
<1>9. TpGroup(e, tp) \cap EpGroup(t, tp, ep) = {e * tp + t}
  <2>1. e * tp + t \in TpGroup(e, tp) \cap EpGroup(t, tp, ep)
    BY <1>3 DEF EpGroup
  <2>2. ASSUME NEW x \in TpGroup(e, tp) \cap EpGroup(t, tp, ep)
        PROVE  x = e * tp + t
    <3>1. PICK f \in 0 .. ep - 1 : x = f * tp + t
      BY DEF EpGroup
    <3>2. x \in Int
      BY <3>1
    <3>3. PICK k \in 0 .. tp - 1 : x = e * tp + k
      BY <1>2, <3>2
    <3>4. f = e
      BY <3>1, <3>3, <1>4
    <3> QED BY <3>1, <3>4
  <2> QED BY <2>1, <2>2
<1> QED BY <1>1, <1>5, <1>6, <1>7, <1>8, <1>9 DEF EpRank, TpRank, er, tr

-----------------------------------------------------------------------------
(* The export to Qwen3.                                                     *)

\* Qwen3 rotates channel i with channel i + dim/2 by the angle ajLLM rotates
\* channels 2i and 2i + 1 by: the exported order brings each pair there, and
\* moves every channel to one place.
THEOREM RopeOrderKeepsPairs ==
  ASSUME NEW half \in Nat \ {0}
  PROVE  /\ \A i \in 0 .. half - 1 :
              /\ RopeOrder(2 * half)[i] = 2 * i
              /\ RopeOrder(2 * half)[i + half] = 2 * i + 1
         /\ \A c \in 0 .. 2 * half - 1 : \E k \in 0 .. 2 * half - 1 :
              /\ RopeOrder(2 * half)[k] = c
              /\ \A j \in 0 .. 2 * half - 1 : RopeOrder(2 * half)[j] = c => j = k
<1>1. (2 * half) \div 2 = half
  OBVIOUS
<1>2. RopeOrder(2 * half) = [k \in 0 .. 2 * half - 1 |-> IF k < half THEN 2 * k ELSE 2 * (k - half) + 1]
  BY <1>1 DEF RopeOrder
<1>3. ASSUME NEW i \in 0 .. half - 1
      PROVE  RopeOrder(2 * half)[i] = 2 * i /\ RopeOrder(2 * half)[i + half] = 2 * i + 1
  BY <1>2
<1>4. ASSUME NEW c \in 0 .. 2 * half - 1
      PROVE  \E k \in 0 .. 2 * half - 1 : RopeOrder(2 * half)[k] = c
  <2>1. c \div 2 \in 0 .. half - 1 /\ c % 2 \in {0, 1} /\ c = 2 * (c \div 2) + (c % 2)
    OBVIOUS
  <2>2. CASE c % 2 = 0
    <3>1. c \div 2 \in 0 .. 2 * half - 1 /\ c = 2 * (c \div 2)
      BY <2>1, <2>2
    <3>2. RopeOrder(2 * half)[c \div 2] = 2 * (c \div 2)
      BY <2>1, <1>3
    <3> QED BY <3>1, <3>2
  <2>3. CASE c % 2 = 1
    <3>1. (c \div 2) + half \in 0 .. 2 * half - 1 /\ c = 2 * (c \div 2) + 1
      BY <2>1, <2>3
    <3>2. RopeOrder(2 * half)[(c \div 2) + half] = 2 * (c \div 2) + 1
      BY <2>1, <1>3
    <3> QED BY <3>1, <3>2
  <2> QED BY <2>1, <2>2, <2>3
<1>5. ASSUME NEW j \in 0 .. 2 * half - 1, NEW k \in 0 .. 2 * half - 1,
             RopeOrder(2 * half)[j] = RopeOrder(2 * half)[k]
      PROVE  j = k
  BY <1>2, <1>5
<1> QED BY <1>3, <1>4, <1>5

=============================================================================
