----------------------------- MODULE MCTraining -----------------------------
(* Instances of Training for TLC: five samples in batches of two, so that   *)
(* the last batch of an epoch is partial and, with two batches per window,  *)
(* the last window too.                                                     *)
EXTENDS Training

=============================================================================
