---------------------------- MODULE TrainingPlan ----------------------------
(* The data a training job reads and the updates it is meant to make of it: *)
(* training/samplers.py and the loops of pretrainer.py, dpo_trainer.py and  *)
(* grpo_trainer.py without interruptions. A batch is named by its epoch,    *)
(* whose seed fixes the order, and by the place of its first sample in that *)
(* order; an update by the batches it uses and the step of its learning     *)
(* rate.                                                                    *)
EXTENDS Naturals, Sequences

CONSTANTS DataLen,            (* samples a rank sees in an epoch            *)
          BatchSize,
          Epochs,
          Accumulation,       (* gradient_accumulation_steps                *)
          UpdatesPerRollout   (* updates_per_rollout of GRPO                *)

ASSUME SizesArePositive ==
  {DataLen, BatchSize, Epochs, Accumulation, UpdatesPerRollout} \subseteq Nat \ {0}

Smaller(m, n) == IF m < n THEN m ELSE n

CeilingOf(m, n) == (m + n - 1) \div n

\* len(dataloader), which keeps a last partial batch.
BatchesPerEpoch == CeilingOf(DataLen, BatchSize)

UpdatesPerEpoch == CeilingOf(BatchesPerEpoch, Accumulation)

-----------------------------------------------------------------------------
(* The sampler and the iterator over it.                                    *)

\* Mutation: the start index is the number of batches, not of samples.
StartedAtBatches(epoch, batches) == [epoch |-> epoch, at |-> Smaller(batches, DataLen)]

\* set_epoch, set_start_index(batches * batch_size) and iter(dataloader).
StartedAt(epoch, batches) ==
  [epoch |-> epoch, at |-> Smaller(batches * BatchSize, DataLen)]

\* How many times next(iterator) succeeds.
BatchesLeft(it) == CeilingOf(DataLen - it.at, BatchSize)

\* The next n batches, and the iterator behind them.
NextBatches(it, n) ==
  [j \in 1 .. n |-> [epoch |-> it.epoch, first |-> it.at + (j - 1) * BatchSize]]

Advanced(it, n) == [it EXCEPT !.at = Smaller(@ + n * BatchSize, DataLen)]

-----------------------------------------------------------------------------
(* What an uninterrupted job does.                                          *)

BatchAt(epoch, index) == [epoch |-> epoch, first |-> index * BatchSize]

\* A window of Accumulation batches per update; an epoch's last may be shorter.
WindowPlan ==
  [i \in 1 .. Epochs * UpdatesPerEpoch |->
     LET epoch == (i - 1) \div UpdatesPerEpoch
         first == ((i - 1) % UpdatesPerEpoch) * Accumulation
     IN  [lr   |-> i - 1,
          data |-> [j \in 1 .. Smaller(Accumulation, BatchesPerEpoch - first) |->
                      BatchAt(epoch, first + j - 1)]]]

\* One batch of prompts per rollout, UpdatesPerRollout updates on each.
RolloutPlan ==
  [i \in 1 .. Epochs * BatchesPerEpoch * UpdatesPerRollout |->
     LET rollout == (i - 1) \div UpdatesPerRollout
     IN  [lr   |-> i - 1,
          data |-> <<BatchAt(rollout \div BatchesPerEpoch, rollout % BatchesPerEpoch)>>]]

=============================================================================
