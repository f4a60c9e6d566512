---------------------------- MODULE MCScheduler ----------------------------
(* Instances of Scheduler for TLC. *)
EXTENDS Scheduler, TLC

ThreadSymmetry == Permutations(RTThread)
============================================================================
