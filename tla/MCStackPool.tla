---------------------------- MODULE MCStackPool ----------------------------
(* Instances of StackPool for TLC. *)
EXTENDS StackPool

(* Nothing tells one thread structure from another. *)
RoutineSymmetry == Permutations(Routine)
=============================================================================
