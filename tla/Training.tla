------------------------------ MODULE Training ------------------------------
(* A training job, its checkpoints and its restarts: train() of             *)
(* pretrainer.py (also SFT), dpo_trainer.py and grpo_trainer.py,            *)
(* save_checkpoint and load_checkpoint of training/checkpoint.py.           *)
(*                                                                          *)
(* The ranks of a job run in lockstep from one gradient synchronization to  *)
(* the next, so an update is one action of all of them; while they write a  *)
(* checkpoint each goes its own way until the barrier. A crash ends the job *)
(* at any point and leaves the files. The model is the sequence of updates  *)
(* it went through.                                                         *)
EXTENDS TrainingPlan, FiniteSets, TLC

CONSTANTS Trainers,       (* which of "pretrain", "dpo", "grpo" to consider *)
          WorldSize,      (* ranks of a job                                 *)
          SaveInterval,
          LogInterval,
          Targets,        (* values of max_steps the job is launched with   *)
          MaxCrashes,     (* bound: crashes in a behaviour                  *)
          None, Torn      (* no file; an optimizer file cut short           *)

Ranks == 0 .. WorldSize - 1

Windowed == {"pretrain", "dpo"}

ASSUME TrainersAssumption == Trainers # {} /\ Trainers \subseteq Windowed \cup {"grpo"}
ASSUME WorldAssumption == WorldSize \in Nat \ {0}
ASSUME IntervalsAssumption ==
  {SaveInterval, LogInterval} \cup Targets \subseteq Nat \ {0} /\ Targets # {}
ASSUME CrashesAssumption == MaxCrashes \in Nat
ASSUME FilesAssumption == None # Torn /\ {None, Torn} \cap Nat = {}

VARIABLES trainer,    (* which trainer this is                              *)
          job,        (* idle, epoch, update, rollout, save, done, failed   *)
          total,      (* total_steps                                        *)
          start,      (* start_epoch and start_batch                        *)
          epoch, seen,    (* the loop variable, batches_seen                *)
          iterator,
          model,      (* the updates so far; completed is their number      *)
          optim,      (* for each rank, the updates its optimizer has seen  *)
          rollout,    (* the rollout in use, of GRPO                        *)
          log,        (* logged_steps, and how many losses running sums up  *)
          writer,     (* for each rank, its place in save_checkpoint        *)
          disk,       (* the checkpoint files, by step                      *)
          crashes

memory == <<total, start, epoch, seen, iterator, model, optim, rollout, log, writer>>
vars == <<trainer, job, memory, disk, crashes>>

completed == Len(model)

Plan == IF trainer = "grpo" THEN RolloutPlan ELSE WindowPlan

PlannedSteps == Len(Plan)

Steps == 1 .. Epochs * BatchesPerEpoch * UpdatesPerRollout

-----------------------------------------------------------------------------
(* The checkpoint of a step: the main file, which os.replace puts in place  *)
(* whole, and an optimizer file per rank, which is written in place.        *)

NoFiles == [main |-> None, optim |-> [r \in Ranks |-> None]]

\* What load_checkpoint accepts.
Loadable(s) == disk[s].main # None /\ \A r \in Ranks : disk[s].optim[r] \in Nat

\* Mutation: every save replaces the one before it.
LatestOnly(step) == SaveInterval

\* step_<completed>.pt
FileOf(step) == step

\* {"epoch": next_epoch, "batch_in_epoch": next_batch}
Position ==
  IF seen = BatchesPerEpoch THEN [epoch |-> epoch + 1, batch |-> 0]
  ELSE [epoch |-> epoch, batch |-> seen]

-----------------------------------------------------------------------------
(* Launching a job.                                                         *)

Beginning == [epoch |-> 0, batch |-> 0]

Init ==
  /\ trainer \in Trainers
  /\ job = "idle"
  /\ total = 0 /\ start = Beginning /\ epoch = 0 /\ seen = 0 /\ iterator = StartedAt(0, 0)
  /\ model = <<>> /\ optim = [r \in Ranks |-> 0] /\ rollout = None
  /\ log = [count |-> 0, summed |-> 0] /\ writer = [r \in Ranks |-> "barrier"]
  /\ disk = [step \in Steps |-> NoFiles]
  /\ crashes = 0

\* Mutation: as in the DPO trainer.
LoggedAtStartResumed(step) == step

\* The DPO trainer starts logged_steps at the step it resumes from.
LoggedAtStart(step) == IF trainer = "dpo" THEN step ELSE 0

\* train() up to its first epoch; a job with nothing left to do is refused.
Started(t, updates, states, position) ==
  /\ total' = Smaller(PlannedSteps, t)
  /\ Len(updates) < total'
  /\ model' = updates /\ optim' = states /\ start' = position /\ epoch' = position.epoch
  /\ job' = IF epoch' < Epochs THEN "epoch" ELSE "done"
  /\ seen' = 0 /\ iterator' = StartedAt(0, 0) /\ rollout' = None
  /\ log' = [count |-> LoggedAtStart(Len(updates)), summed |-> 0]
  /\ writer' = [r \in Ranks |-> "barrier"]
  /\ UNCHANGED <<trainer, disk, crashes>>

CanLaunch == job \in {"idle", "failed", "done"}

\* Without resume_from, when there is no checkpoint to resume from.
LaunchFresh(t) ==
  /\ CanLaunch /\ \A step \in Steps : ~Loadable(step)
  /\ Started(t, <<>>, [r \in Ranks |-> 0], Beginning)

\* With resume_from the checkpoint of a step; one that does not load is an error.
LaunchFrom(step, t) ==
  /\ CanLaunch /\ Loadable(step)
  /\ Started(t, disk[step].main.model, disk[step].optim, disk[step].main.position)

Launch == \E t \in Targets : LaunchFresh(t) \/ \E step \in Steps : LaunchFrom(step, t)

-----------------------------------------------------------------------------
(* The loop over epochs.                                                    *)

\* Mutation: what was skipped in the first epoch is skipped in every epoch.
BatchesToSkipAlways == start.batch

BatchesToSkip == IF epoch = start.epoch THEN start.batch ELSE 0

\* GRPO also calls next for each batch its sampler already left out.
SkippedAgain == IF trainer = "grpo" THEN BatchesToSkip ELSE 0

BeginEpoch ==
  /\ job = "epoch"
  /\ LET it == StartedAt(epoch, BatchesToSkip)
     IN  /\ job' = IF SkippedAgain > BatchesLeft(it) THEN "failed" ELSE "update"
         /\ iterator' = Advanced(it, SkippedAgain)
  /\ seen' = BatchesToSkip
  /\ UNCHANGED <<trainer, total, start, epoch, model, optim, rollout, log, writer, disk, crashes>>

MoreToDo == seen < BatchesPerEpoch /\ completed < total

EndEpoch ==
  /\ job = "update" /\ ~MoreToDo
  /\ job' = IF epoch + 1 = Epochs \/ (trainer \in Windowed /\ completed = total) THEN "done" ELSE "epoch"
  /\ epoch' = epoch + 1
  /\ UNCHANGED <<trainer, total, start, seen, iterator, model, optim, rollout, log, writer, disk, crashes>>

-----------------------------------------------------------------------------
(* Updates. Each ends with the log entry and the decision to save.          *)

SaveDue(step) == step % SaveInterval = 0 \/ step = total

LogDue(step) == step % LogInterval = 0 \/ step = 1 \/ step = total

\* The optimizer step every rank takes, and what is logged of it.
Stepped(update) ==
  /\ model' = Append(model, update)
  /\ optim' = [r \in Ranks |-> optim[r] + 1]
  /\ log' = IF LogDue(completed + 1) THEN [count |-> 0, summed |-> 0]
            ELSE [count |-> log.count + 1, summed |-> log.summed + 1]

SaveOr(due, next) ==
  /\ job' = IF due THEN "save" ELSE next
  /\ writer' = IF due THEN [r \in Ranks |-> IF r = 0 THEN "main" ELSE "optim"] ELSE writer

WindowSize == Smaller(Accumulation, BatchesPerEpoch - seen)

BatchesWanted == IF trainer = "grpo" THEN 1 ELSE WindowSize

\* next(iterator) past the last batch raises StopIteration out of train().
RunDry ==
  /\ job = "update" /\ MoreToDo /\ BatchesLeft(iterator) < BatchesWanted
  /\ job' = "failed"
  /\ UNCHANGED <<trainer, memory, disk, crashes>>

\* One window of batches and the update it ends with.
UpdateWindow ==
  /\ job = "update" /\ trainer \in Windowed /\ MoreToDo
  /\ BatchesLeft(iterator) >= WindowSize
  /\ seen' = seen + WindowSize
  /\ iterator' = Advanced(iterator, WindowSize)
  /\ Stepped([lr |-> completed, data |-> NextBatches(iterator, WindowSize)])
  /\ SaveOr(SaveDue(completed + 1), "update")
  /\ UNCHANGED <<trainer, total, start, epoch, rollout, disk, crashes>>

\* _make_rollout_batch: completions of the next batch by the policy as it is.
MakeRollout ==
  /\ job = "update" /\ trainer = "grpo" /\ MoreToDo
  /\ BatchesLeft(iterator) >= 1
  /\ rollout' = [data |-> NextBatches(iterator, 1), policy |-> completed, old |-> None,
                 round |-> 0, rounds |-> Smaller(UpdatesPerRollout, total - completed)]
  /\ seen' = seen + 1
  /\ iterator' = Advanced(iterator, 1)
  /\ job' = "rollout"
  /\ UNCHANGED <<trainer, total, start, epoch, model, optim, log, writer, disk, crashes>>

\* _update_rollout keeps the log-probabilities of the first round.
OldPolicy == IF rollout.old = None THEN completed ELSE rollout.old

\* Mutation: a save does not wait for the last round.
RolloutSaveDueAnyRound == SaveDue(completed + 1)

LastRound == rollout.round + 1 = rollout.rounds

RolloutSaveDue == LastRound /\ SaveDue(completed + 1)

UpdateRollout ==
  /\ job = "rollout"
  /\ Stepped([lr |-> completed, data |-> rollout.data, policy |-> rollout.policy, old |-> OldPolicy,
              round |-> rollout.round, last |-> LastRound])
  /\ rollout' = IF LastRound THEN None ELSE [rollout EXCEPT !.old = OldPolicy, !.round = @ + 1]
  /\ SaveOr(RolloutSaveDue, IF LastRound THEN "update" ELSE "rollout")
  /\ UNCHANGED <<trainer, total, start, epoch, seen, iterator, disk, crashes>>

-----------------------------------------------------------------------------
(* save_checkpoint, rank by rank.                                           *)

\* Rank 0 writes a temporary file and renames it.
WriteMain ==
  /\ writer[0] = "main"
  /\ disk' = [disk EXCEPT ![FileOf(completed)].main = [model |-> model, position |-> Position]]
  /\ writer' = [writer EXCEPT ![0] = "optim"]
  /\ UNCHANGED <<trainer, job, total, start, epoch, seen, iterator, model, optim, rollout, log, crashes>>

OpenOptimizer(r) ==
  /\ writer[r] = "optim"
  /\ disk' = [disk EXCEPT ![FileOf(completed)].optim[r] = Torn]
  /\ writer' = [writer EXCEPT ![r] = "writing"]
  /\ UNCHANGED <<trainer, job, total, start, epoch, seen, iterator, model, optim, rollout, log, crashes>>

CloseOptimizer(r) ==
  /\ writer[r] = "writing"
  /\ disk' = [disk EXCEPT ![FileOf(completed)].optim[r] = optim[r]]
  /\ writer' = [writer EXCEPT ![r] = "barrier"]
  /\ UNCHANGED <<trainer, job, total, start, epoch, seen, iterator, model, optim, rollout, log, crashes>>

LeaveBarrier ==
  /\ job = "save" /\ \A r \in Ranks : writer[r] = "barrier"
  /\ job' = IF rollout = None THEN "update" ELSE "rollout"
  /\ UNCHANGED <<trainer, memory, disk, crashes>>

-----------------------------------------------------------------------------
\* The job is killed: what was in memory is gone, the files stay as they are.
Crash ==
  /\ ~CanLaunch /\ crashes < MaxCrashes
  /\ job' = "idle"
  /\ total' = 0 /\ start' = Beginning /\ epoch' = 0 /\ seen' = 0 /\ iterator' = StartedAt(0, 0)
  /\ model' = <<>> /\ optim' = [r \in Ranks |-> 0] /\ rollout' = None
  /\ log' = [count |-> 0, summed |-> 0] /\ writer' = [r \in Ranks |-> "barrier"]
  /\ crashes' = crashes + 1
  /\ UNCHANGED <<trainer, disk>>

Save == WriteMain \/ LeaveBarrier \/ \E r \in Ranks : OpenOptimizer(r) \/ CloseOptimizer(r)

Run == BeginEpoch \/ EndEpoch \/ RunDry \/ UpdateWindow \/ MakeRollout \/ UpdateRollout \/ Save

Next == Launch \/ Run \/ Crash

Spec == Init /\ [][Next]_vars

CanResume == \E step \in Steps : Loadable(step)

Furthest == CHOOSE t \in Targets : \A u \in Targets : u <= t

Latest == CHOOSE step \in Steps : Loadable(step) /\ \A u \in Steps : Loadable(u) => u <= step

\* "Use the latest completed step_<N>.pt" and the largest max_steps.
LaunchLatest == IF CanResume THEN LaunchFrom(Latest, Furthest) ELSE LaunchFresh(Furthest)

\* A running job keeps running until it is killed, and of all the ways to launch
\* it again its operator does not always avoid the documented one.
FairSpec == Spec /\ WF_vars(Run) /\ SF_vars(LaunchLatest)

-----------------------------------------------------------------------------
\* "Resuming restores the model, optimizer, epoch, and batch position, then
\* continues at the next update": whatever crashes and restarts a job has had,
\* its model is what an uninterrupted job has after as many updates: no batch
\* was left out, used twice or put in another window.
FollowsThePlan ==
  \A i \in 1 .. completed : model[i].lr = Plan[i].lr /\ model[i].data = Plan[i].data

\* The same of the trainers that start each epoch at the sampler alone.
WindowsFollowThePlan == trainer \in Windowed => FollowsThePlan

\* "keep the whole set together": a set of files that loads is one checkpoint;
\* no rank goes on with an optimizer that belongs to another step's model.
OptimizersMatchModel == ~CanLaunch => \A r \in Ranks : optim[r] = completed

CheckpointWritten == job = "save" /\ \A r \in Ranks : writer[r] = "barrier"

\* "Use the latest completed step_<N>.pt": once a checkpoint is complete there
\* is always one to resume from, although a resumed job writes the files of
\* later steps anew, optimizers in place, and may be killed while it does.
StaysRecoverable == [](CheckpointWritten => []CanResume)

\* The losses a log entry averages over are those since the last entry: the
\* count it divides by starts again with the sum, after a restart too. (That of
\* the DPO trainer does not.)
MeansMatchLog == trainer # "dpo" => log.count = log.summed

\* "updates intentionally compare the changing policy against this fixed
\* behavior policy": all rounds on a rollout are weighed against the policy
\* that made it, follow it directly, and are all made before another rollout
\* or a restart.
RolloutsAreWhole ==
  trainer = "grpo" =>
    /\ \A i \in 1 .. completed : /\ model[i].old = model[i].policy
                                 /\ model[i].policy = i - 1 - model[i].round
    /\ \A i \in 2 .. completed : model[i].round = 0 => model[i - 1].last

\* However often a job is killed in mid-epoch or mid-save, as long as it is
\* launched again and killed finitely often, its final checkpoint is written.
TrainingCompletes ==
  <>(trainer \in Windowed => Loadable(Smaller(PlannedSteps, Furthest)))

=============================================================================
