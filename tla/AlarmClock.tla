----------------------------- MODULE AlarmClock -----------------------------
(* What OS_CallAfter and OS_CallEvery promise: a timer set for d centiseconds *)
(* is called when its number of ticks has passed, not before and not after.   *)
EXTENDS Integers

CONSTANTS Node, MaxTicks

VARIABLE togo  \* of each timer that is set, the ticks to go before it is called

Pending == DOMAIN togo

\* Ticks wait until every timer that is due has been called.
Tick ==
  /\ \A n \in Pending : togo[n] > 0
  /\ togo' = [n \in Pending |-> togo[n] - 1]

Set(n, ticks) ==
  /\ n \notin Pending
  /\ togo' = [m \in Pending \cup {n} |-> IF m = n THEN ticks ELSE togo[m]]

\* A timer that is due is called; a periodic one will have been set again when its
\* handler returns.
Call(n) ==
  /\ n \in Pending
  /\ togo[n] = 0
  /\ togo' = [m \in Pending \ {n} |-> togo[m]]

Cancel(N) == togo' = [m \in Pending \ N |-> togo[m]]

\* A timer that is due at the tick is called by it.
TickAndCall(n) ==
  /\ \A m \in Pending : togo[m] > 0
  /\ n \in Pending
  /\ togo[n] = 1
  /\ togo' = [m \in Pending \ {n} |-> togo[m] - 1]

\* The handler of n returns, n is set again, and m, due at the same tick, is called.
SetAndCall(n, ticks, m) ==
  /\ n \notin Pending
  /\ m \in Pending /\ togo[m] = 0
  /\ togo' = [k \in (Pending \cup {n}) \ {m} |-> IF k = n THEN ticks ELSE togo[k]]

Next ==
  \/ Tick
  \/ \E n \in Node : Call(n) \/ TickAndCall(n)
  \/ \E n \in Node, ticks \in 1 .. MaxTicks : Set(n, ticks)
  \/ \E N \in SUBSET Pending : Cancel(N)
  \/ \E n, m \in Node, ticks \in 1 .. MaxTicks : SetAndCall(n, ticks, m)

Spec == togo = [n \in {} |-> 0] /\ [][Next]_togo
============================================================================
