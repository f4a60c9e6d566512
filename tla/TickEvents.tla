----------------------------- MODULE TickEvents -----------------------------
(* The kernel's ticker events (TickEvents.s): OS_CallAfter, OS_CallEvery and  *)
(* OS_RemoveTickerEvent keep a chain of nodes ordered by time, each holding   *)
(* the ticks that remain once the one before it has been called.  The         *)
(* centisecond interrupt counts the head down and calls what is due, with     *)
(* IRQs off; they come on while a spent node goes back to the heap, so a      *)
(* second tick may arrive in the middle of the first.                         *)
EXTENDS Integers, Sequences, SequencesExt, FiniteSetsExt

CONSTANTS
  Node,       \* heap blocks for nodes: bounds the events set at once
  Key,        \* what an event is removed by: the code's address and its R12
  key,        \* the events each block is for: bounds those of one key set at once
  MaxDelay,   \* bound: the largest delay asked for
  MaxDepth,   \* bound: ticks being processed at once
  Naughty     \* do handlers turn IRQs on?

ASSUME TickEventsAssumption ==
  /\ key \in [Node -> Key]
  /\ MaxDelay \in Nat \ {0}
  /\ MaxDepth \in Nat \ {0}
  /\ Naughty \in BOOLEAN

VARIABLES
  TickNodeChain,  \* the nodes, in the order of their links
  TickNodeLeft,   \* ticks to go once the node before is called
  TickNodeRedo,   \* period, or 0 for a single call
  running,        \* invocations of ProcessTickEventChain, the innermost last
  due             \* history: the ticks left of the time that was asked for

vars == <<TickNodeChain, TickNodeLeft, TickNodeRedo, running, due>>

MaxTicks == MaxDelay + 1
Linked == ToSet(TickNodeChain)
Called == {running[i].node : i \in DOMAIN running}

\* handler: the event's code runs, IRQs off; irqs on: the same with IRQs on;
\* freeing: a spent node is being freed, IRQs on.
Invocation == [node : Node, at : {"handler", "irqs on", "freeing"}]

TypeOK ==
  /\ TickNodeChain \in Seq(Node)
  /\ TickNodeLeft \in [Node -> 0 .. MaxTicks]
  /\ TickNodeRedo \in [Node -> {0} \cup 2 .. MaxTicks]
  /\ running \in Seq(Invocation)
  /\ due \in [Node -> 0 .. MaxTicks]

Init ==
  /\ TickNodeChain = <<>>
  /\ TickNodeLeft = [n \in Node |-> 0]
  /\ TickNodeRedo = [n \in Node |-> 0]
  /\ running = <<>>
  /\ due = [n \in Node |-> 0]

-----------------------------------------------------------------------------
\* The ticks before the first i nodes of a chain have all been called.
TicksTo(chain, left, i) ==
  LET ticks[j \in 0 .. Len(chain)] == IF j = 0 THEN 0 ELSE ticks[j - 1] + left[chain[j]]
  IN  ticks[i]

\* InsertTickerEvent: after the nodes that are due no later (lines 121-135).
Place(chain, left, ticks) ==
  Max({i \in 0 .. Len(chain) : TicksTo(chain, left, i) <= ticks})

\* Mutant: the next node's ticks are left as they were.
LeftAfterInsert_NextUnchanged(chain, left, n, ticks) ==
  LET i == Place(chain, left, ticks)
  IN  [left EXCEPT ![n] = ticks - TicksTo(chain, left, i)]

LeftAfterInsert(chain, left, n, ticks) ==
  LET i == Place(chain, left, ticks)
      rest == ticks - TicksTo(chain, left, i)
  IN  [m \in Node |->
        IF m = n THEN rest
        ELSE IF i < Len(chain) /\ m = chain[i + 1] THEN left[m] - rest
        ELSE left[m]]

ChainAfterInsert(chain, left, n, ticks) == InsertAt(chain, Place(chain, left, ticks) + 1, n)

\* Mutant: the node that is called stays on the chain.
Continue_StaysLinked(chain, left) ==
  /\ running' = IF chain # <<>> /\ left[Head(chain)] = 0
                THEN [running EXCEPT ![Len(running)] = [node |-> Head(chain), at |-> "handler"]]
                ELSE Front(running)
  /\ TickNodeChain' = chain

\* Mutant: the rest of the list waits for the next tick.
Continue_Never(chain, left) ==
  /\ running' = Front(running)
  /\ TickNodeChain' = chain

\* The top of the list has no ticks left: it is called too (lines 196-202).
Continue(chain, left) ==
  IF chain # <<>> /\ left[Head(chain)] = 0
  THEN /\ running' = [running EXCEPT ![Len(running)] = [node |-> Head(chain), at |-> "handler"]]
       /\ TickNodeChain' = Tail(chain)
  ELSE /\ running' = Front(running)
       /\ TickNodeChain' = chain

-----------------------------------------------------------------------------
IRQsOn == running # <<>> => Last(running).at # "handler"

\* OS_CallAfter and OS_CallEvery (lines 34-69), called by the foreground, by an event's
\* code or by an interrupt handler.
CallAfterOrEvery(n, delay, every) ==
  /\ n \notin Linked \cup Called
  /\ LET ticks == delay + 1
     IN  /\ TickNodeChain' = ChainAfterInsert(TickNodeChain, TickNodeLeft, n, ticks)
         /\ TickNodeLeft' = LeftAfterInsert(TickNodeChain, TickNodeLeft, n, ticks)
         /\ TickNodeRedo' = [TickNodeRedo EXCEPT ![n] = IF every THEN ticks ELSE 0]
         /\ due' = [due EXCEPT ![n] = ticks]
  /\ UNCHANGED running

\* Mutant: the ticks of a removed node are lost.
RemovedTicks_Lost(k, i) == 0

\* The last node before the i-th that stays, 0 for the head of the chain.
KeptBefore(k, i) == Max({0} \cup {j \in 1 .. i - 1 : key[TickNodeChain[j]] # k})

\* The ticks of the nodes removed between that one and the i-th.
RemovedTicks(k, i) ==
  TicksTo(TickNodeChain, TickNodeLeft, i - 1)
    - TicksTo(TickNodeChain, TickNodeLeft, KeptBefore(k, i))

\* The chain without the nodes that are removed.
KeptChain(k) ==
  LET kept[i \in 0 .. Len(TickNodeChain)] ==
        IF i = 0 THEN <<>>
        ELSE IF key[TickNodeChain[i]] = k THEN kept[i - 1]
        ELSE Append(kept[i - 1], TickNodeChain[i])
  IN  kept[Len(TickNodeChain)]

\* OS_RemoveTickerEvent (lines 208-244): every node with that address and R12 goes, and
\* its ticks are added to the next.
RemoveTickerEvent(k) ==
  /\ \E n \in Linked : key[n] = k
  /\ TickNodeChain' = KeptChain(k)
  /\ TickNodeLeft' = [n \in Node |->
       IF n \in Linked /\ key[n] # k
       THEN LET i == CHOOSE i \in DOMAIN TickNodeChain : TickNodeChain[i] = n
            IN  TickNodeLeft[n] + RemovedTicks(k, i)
       ELSE TickNodeLeft[n]]
  /\ UNCHANGED <<TickNodeRedo, running, due>>

\* Mutant: MOVNE for MOVHI, so that a head with no ticks left is counted down from
\* 2^32 - 1 (-1 here, and it stays there) instead of being called.
ProcessTickEventChain_Equal ==
  /\ IRQsOn
  /\ Len(running) < MaxDepth
  /\ TickNodeChain # <<>>
  /\ due' = [n \in Node |-> IF n \in Linked THEN Max({due[n] - 1, 0}) ELSE due[n]]
  /\ LET head == Head(TickNodeChain)
         left == TickNodeLeft[head]
     IN  IF left # 1
         THEN /\ TickNodeLeft' = [TickNodeLeft EXCEPT ![head] = Max({left - 1, -1})]
              /\ UNCHANGED <<TickNodeChain, running>>
         ELSE /\ TickNodeLeft' = [TickNodeLeft EXCEPT ![head] = 0]
              /\ TickNodeChain' = Tail(TickNodeChain)
              /\ running' = Append(running, [node |-> head, at |-> "handler"])
  /\ UNCHANGED TickNodeRedo

\* A tick (lines 142-159): the head has one tick less, wrapping round if it had none,
\* and is taken off the chain and called when that leaves none.
ProcessTickEventChain ==
  /\ IRQsOn
  /\ Len(running) < MaxDepth
  /\ TickNodeChain # <<>>
  /\ due' = [n \in Node |-> IF n \in Linked THEN Max({due[n] - 1, 0}) ELSE due[n]]
  /\ LET head == Head(TickNodeChain)
         left == TickNodeLeft[head]
     IN  IF left > 1
         THEN /\ TickNodeLeft' = [TickNodeLeft EXCEPT ![head] = left - 1]
              /\ UNCHANGED <<TickNodeChain, running>>
         ELSE /\ TickNodeLeft' = [TickNodeLeft EXCEPT ![head] = 0]
              /\ TickNodeChain' = Tail(TickNodeChain)
              /\ running' = Append(running, [node |-> head, at |-> "handler"])
  /\ UNCHANGED TickNodeRedo

\* The event's code returns (lines 167-171): a periodic event is put back, a spent one
\* goes to the heap.
HandlerReturns ==
  /\ running # <<>>
  /\ Last(running).at # "freeing"
  /\ LET n == Last(running).node
         ticks == TickNodeRedo[n]
         left == LeftAfterInsert(TickNodeChain, TickNodeLeft, n, ticks)
     IN  IF ticks # 0
         THEN /\ TickNodeLeft' = left
              /\ due' = [due EXCEPT ![n] = ticks]
              /\ Continue(ChainAfterInsert(TickNodeChain, TickNodeLeft, n, ticks), left)
         ELSE /\ running' = [running EXCEPT ![Len(running)].at = "freeing"]
              /\ UNCHANGED <<TickNodeChain, TickNodeLeft, due>>
  /\ UNCHANGED TickNodeRedo

\* The node is free and IRQs go off again (lines 173-202).
NodeFreed ==
  /\ running # <<>>
  /\ Last(running).at = "freeing"
  /\ Continue(TickNodeChain, TickNodeLeft)
  /\ UNCHANGED <<TickNodeLeft, TickNodeRedo, due>>

\* An event's code turns IRQs on (line 194).
HandlerEnablesIRQs ==
  /\ Naughty
  /\ running # <<>>
  /\ Last(running).at = "handler"
  /\ running' = [running EXCEPT ![Len(running)].at = "irqs on"]
  /\ UNCHANGED <<TickNodeChain, TickNodeLeft, TickNodeRedo, due>>

Next ==
  \/ ProcessTickEventChain \/ HandlerReturns \/ NodeFreed \/ HandlerEnablesIRQs
  \/ \E k \in Key : RemoveTickerEvent(k)
  \/ \E n \in Node, delay \in 1 .. MaxDelay, every \in BOOLEAN :
       CallAfterOrEvery(n, delay, every)

Spec == Init /\ [][Next]_vars

\* The timer keeps interrupting, events' code returns and the heap frees its node.
FairSpec == Spec /\ SF_vars(ProcessTickEventChain) /\ WF_vars(HandlerReturns \/ NodeFreed)

-----------------------------------------------------------------------------
\* No event is called early, whatever is inserted, removed or called around it and
\* wherever ticks arrive: the chain never has fewer ticks to a node than remain of the
\* time that was asked for.
NeverEarly ==
  \A i \in DOMAIN TickNodeChain :
    TicksTo(TickNodeChain, TickNodeLeft, i) >= due[TickNodeChain[i]]

\* When no tick is being processed nothing that the chain has counted down is waiting:
\* the ticks that were processed have called all of it, whichever of them took it off.
NothingDueWaits ==
  running = <<>> =>
    \A i \in DOMAIN TickNodeChain : TicksTo(TickNodeChain, TickNodeLeft, i) > 0

\* The chain is an exact clock: its prefix sums are the ticks to go.
togo == [n \in Linked |->
  LET i == CHOOSE i \in DOMAIN TickNodeChain : TickNodeChain[i] = n
  IN  TicksTo(TickNodeChain, TickNodeLeft, i)]

Clock == INSTANCE AlarmClock

KeepsTime == Clock!Spec

\* Every event that is set is called, or removed, in the end.
CalledInTheEnd == \A n \in Node : n \in Linked ~> n \notin Linked
============================================================================
