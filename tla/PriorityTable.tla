--------------------------- MODULE PriorityTable ---------------------------
(* RTSupport's table of priorities: for each priority how many threads use   *)
(* it, which ran last, and the next lower priority in use (scheduler.s       *)
(* 94-99).  The table is a list headed by the top priority, which is always  *)
(* its first entry, and ended by 0.  It is kept by RT_Register,              *)
(* RT_Deregister and RT_ChangePriority (module.c 725-743, 840-867, 950-986). *)
EXTENDS Integers, FiniteSetsExt

CONSTANTS TopPriority,  \* 255 in the code
          Saturated     \* 255 in the code: a count that is never changed again

ASSUME PriorityAssumption ==
  /\ TopPriority \in Nat \ {0}
  /\ Saturated \in Nat \ {0}

Priorities == 0 .. TopPriority
UsageCounts == 0 .. Saturated

\* A thread number: the field is 16 bits wide and no run comes near its limit.
Table ==
  [next : [Priorities -> Priorities],
   usage : [Priorities -> UsageCounts],
   last : [Priorities -> Nat]]

\* The table is all zeros until the first thread is registered.
EmptyTable ==
  [next |-> [p \in Priorities |-> 0],
   usage |-> [p \in Priorities |-> 0],
   last |-> [p \in Priorities |-> 0]]

\* The priorities met by following next from p, the end mark 0 left out.  Every
\* next is below its own entry, so the walk ends.
Chain(next, p) ==
  LET walk[q \in Priorities] == IF q = 0 THEN {} ELSE {q} \cup walk[next[q]]
  IN  walk[p]

Listed(pt) == Chain(pt.next, TopPriority)

\* The entry after which p is, or would be, linked: the loops of module.c 732-735,
\* 848-851, 957-960 and 975-978.
Before(pt, p) == Min({q \in Listed(pt) : q > p})

Link(pt, p) ==
  IF p = TopPriority THEN pt
  ELSE LET b == Before(pt, p)
       IN  [pt EXCEPT !.next[p] = pt.next[b], !.next[b] = p]

Unlink(pt, p) ==
  IF p = TopPriority THEN pt
  ELSE [pt EXCEPT !.next[Before(pt, p)] = pt.next[p]]

\* A byte counts up and down modulo 256.
Inc(u) == (u + 1) % (Saturated + 1)
Dec(u) == (u - 1) % (Saturated + 1)

\* Mutant: a priority is not linked in when its first thread comes.
Join_NoLink(pt, p) ==
  IF pt.usage[p] = Saturated THEN pt ELSE [pt EXCEPT !.usage[p] = Inc(@)]

\* A thread takes priority p.
Join(pt, p) ==
  IF pt.usage[p] = Saturated THEN pt
  ELSE IF pt.usage[p] = 0 THEN [Link(pt, p) EXCEPT !.usage[p] = Inc(@)]
  ELSE [pt EXCEPT !.usage[p] = Inc(@)]

\* A thread gives up priority p.
Leave(pt, p) ==
  IF pt.usage[p] = Saturated THEN pt
  ELSE IF pt.usage[p] = 1 THEN [Unlink(pt, p) EXCEPT !.usage[p] = Dec(@)]
  ELSE [pt EXCEPT !.usage[p] = Dec(@)]

\* RT_Register also makes the scan start just before the new thread.
JoinNew(pt, p, start) ==
  IF pt.usage[p] = 0 THEN [Join(pt, p) EXCEPT !.last[p] = start] ELSE Join(pt, p)

\* Mutant: the numbers are left as they are.
Renumber_None(pt, index) == pt

\* Mutant: numbers below index move down too.
Renumber_All(pt, index) ==
  [pt EXCEPT !.last =
    [p \in Priorities |-> IF p \in Listed(pt) THEN pt.last[p] - 1 ELSE pt.last[p]]]

\* Thread numbers from index up move down by one: the loop of module.c 864-867
\* visits the top priority and everything linked below it.
Renumber(pt, index) ==
  [pt EXCEPT !.last =
    [p \in Priorities |->
      IF p \in Listed(pt) /\ pt.last[p] >= index THEN pt.last[p] - 1 ELSE pt.last[p]]]

-----------------------------------------------------------------------------
\* The list visits priorities in decreasing order and exactly those in use.  The
\* top priority heads it in any case; priority 0 is never linked.
WellLinked(pt) ==
  /\ \A p \in Priorities \ {0} : pt.next[p] < p
  /\ Listed(pt) \ {TopPriority} =
       {p \in Priorities \ {0, TopPriority} : pt.usage[p] > 0}
============================================================================
