---------------------------- MODULE MCTickEvents ----------------------------
(* Instances of TickEvents for TLC. *)
EXTENDS TickEvents, TLC

\* One event has a key of its own, and the others share one.
TwoKeys == [n \in Node |-> n = CHOOSE m \in Node : TRUE]
============================================================================
