-------------------------- MODULE Scheduler_proofs --------------------------
(* TLAPS proofs about RTSupport's scheduler, for any threads, priorities and   *)
(* depths of the IRQ stack, and any clients but those that README section 7    *)
(* says it does not serve (ServedCalls): it always knows what runs, it makes   *)
(* no access it must not, a pre-empted thread keeps the frame its registers    *)
(* are in, the highest ready priority runs, and a stopped thread stays so.     *)
(*                                                                             *)
(* An entry to RTSupport is a chain of operators on the workspace.  Each chain *)
(* goes through a workspace in which no thread runs (Idle), and which the scan *)
(* of the priorities turns into one in which one does (Inv).                   *)
EXTENDS Scheduler, PriorityTable_proofs, SequenceTheorems, FiniteSetTheorems

\* What clients may do.  Nobody deregisters a thread in an interrupt that stopped it or
\* raises the foreground; where priorities change, returns ask for a rescan and nobody
\* deregisters.
ServedCalls ==
  /\ Calls \cap {"DeregisterInterrupted", "RaiseForeground"} = {}
  /\ "ChangePriority" \in Calls => Calls \cap {"Deregister", "PlainReturn"} = {}

FixedPriorities == "ChangePriority" \notin Calls

-----------------------------------------------------------------------------
\* The inductive invariant, about a workspace.

Count(s, p) == Cardinality({t \in Registered(s) : s.thread[t].priority = p})

\* Every thread has one number, and the foreground number and priority 0.
TableInv(s) ==
  /\ NThreads(s) > 0 /\ s.ThreadTable[1] = FG
  /\ \A i, j \in 1 .. NThreads(s) : s.ThreadTable[i] = s.ThreadTable[j] => i = j
  /\ \A t \in Registered(s) : s.thread[t].priority = 0 <=> t = FG

\* The table of priorities is linked, counts the real-time threads, and names threads.
PrioritiesInv(s) ==
  /\ Linked(s.PriorityTable) /\ s.PriorityTable.usage[0] = 0
  /\ \A p \in Priorities \ {0} : s.PriorityTable.usage[p] \in {Count(s, p), Saturated}
  /\ \A p \in Priorities :
       s.PriorityTable.usage[p] # 0 \/ "Deregister" \notin Calls =>
         s.PriorityTable.last[p] < NThreads(s)

\* A thread that does not run: it can be resumed, from its frame if it was pre-empted.
Asleep(s, t) ==
  LET i == s.thread[t]
  IN  /\ i.pollword \notin {"Executing", "null"}
      /\ i.recover => i.pollword \in {"PreEmpted", "Aborted", "CollateralDamage"}
      /\ i.pollword = "PreEmpted" =>
           /\ i.recover
           /\ i.stack_frame \in 1 .. s.LastKnownIRQsema
           /\ s.frames[i.stack_frame] = [owner |-> t, resumed |-> FALSE]

\* What is true of every thread.
SaneThread(s, t) ==
  /\ s.thread[t].timeout_flag => s.thread[t].pollword = "own"
  /\ s.thread[t].pollword = "null" => t = FG
  /\ s.thread[t].pollword \in {"Aborted", "CollateralDamage"} => t # FG

\* Between any two of its threads RTSupport's tables make sense.
Sound(s) ==
  /\ s \in Workspace /\ s.fault = "none"
  /\ TableInv(s) /\ PrioritiesInv(s)
  /\ \A t \in Registered(s) : SaneThread(s, t)

\* Real-time threads in the middle of their work.
Busy(s) == {t \in Registered(s) \ {FG} : MidFlight(s.thread[t])}

\* A thread in the middle of its work was the last to run at its priority.
RanLast(s) == \A t \in Busy(s) : s.PriorityTable.last[s.thread[t].priority] = Index(s, t)

RunnerInv(s) ==
  /\ s.Context \in 0 .. NThreads(s) - 1
  /\ s.ThreadTable[s.Context + 1] = s.cpu
  /\ s.cpu # FG => s.thread[s.cpu].pollword = "Executing" /\ s.InBackground
  /\ s.cpu = FG => Busy(s) = {}

\* Above the last known frame are those of the running interrupts.
FramesInv(s) ==
  /\ s.nested = IRQsema(s) - s.LastKnownIRQsema
  /\ \A d \in s.LastKnownIRQsema + 1 .. IRQsema(s) :
       /\ ~s.frames[d].resumed
       /\ d = s.LastKnownIRQsema + 1 => s.frames[d].owner = s.cpu

\* Where priorities do not change, nothing in the middle of its work is above what runs.
PriorityInv(s) ==
  /\ RanLast(s)
  /\ s.cpu # FG =>
       /\ s.Priority = s.thread[s.cpu].priority
       /\ \A t \in Busy(s) : s.thread[t].priority <= s.Priority

Inv(s) ==
  /\ Sound(s)
  /\ RunnerInv(s)
  /\ FramesInv(s)
  /\ \A t \in Registered(s) \ {s.cpu} : Asleep(s, t)
  /\ FixedPriorities => PriorityInv(s)

\* No thread runs.
Idle(s) ==
  /\ Sound(s)
  /\ s.LastKnownIRQsema = IRQsema(s)
  /\ \A t \in Registered(s) : Asleep(s, t)

IInv == Inv(rt) /\ word \in [Thread -> BOOLEAN]

\* Stopped threads stay so.
KeepsStopped(s, r) == \A t \in Stopped(s) : t \in Registered(r) => t \in Stopped(r)

\* From s on, r is what runs: no priority has changed, and nobody else became ready.
Goes(s, r) ==
  /\ Inv(r)
  /\ KeepsStopped(s, r)
  /\ Registered(r) = Registered(s) /\ r.NTicks = s.NTicks
  /\ \A t \in Registered(s) :
       /\ r.thread[t].priority = s.thread[t].priority
       /\ t \notin {FG, r.cpu} /\ PollwordSet(r, t) => PollwordSet(s, t)

-----------------------------------------------------------------------------
\* Reading the workspace.

LEMMA Fields ==
  ASSUME NEW s \in Workspace
  PROVE  /\ s.ThreadTable \in Seq(Thread) /\ s.thread \in [Thread -> ThreadInfo]
         /\ s.PriorityTable \in Table /\ s.Context \in Int /\ s.InBackground \in BOOLEAN
         /\ s.NTicks \in 0 .. OverloadThreshold /\ s.LastKnownIRQsema \in Nat
         /\ s.Priority \in Priorities /\ s.frames \in Seq(Frame) /\ s.cpu \in Thread
         /\ s.nested \in 0 .. MaxNesting
         /\ NThreads(s) \in Nat /\ IRQsema(s) \in Nat
         /\ DOMAIN s.ThreadTable = 1 .. NThreads(s) /\ DOMAIN s.frames = 1 .. IRQsema(s)
         /\ \A i \in 1 .. NThreads(s) : s.ThreadTable[i] \in Thread
         /\ \A d \in 1 .. IRQsema(s) : s.frames[d] \in Frame
         /\ \A t \in Thread : s.thread[t] \in ThreadInfo
         /\ Registered(s) \subseteq Thread
<1>1. /\ s.ThreadTable \in Seq(Thread) /\ s.thread \in [Thread -> ThreadInfo]
      /\ s.PriorityTable \in Table /\ s.Context \in Int /\ s.InBackground \in BOOLEAN
      /\ s.NTicks \in 0 .. OverloadThreshold /\ s.LastKnownIRQsema \in Nat
      /\ s.Priority \in Priorities /\ s.frames \in Seq(Frame) /\ s.cpu \in Thread
      /\ s.nested \in 0 .. MaxNesting
  BY DEF Workspace
<1>. QED
  BY <1>1, LenProperties DEF NThreads, IRQsema, Registered

LEMMA Parameters ==
  /\ FG \in Thread /\ FG \notin RTThread /\ RTThread \subseteq Thread /\ Thread \ {FG} = RTThread
  /\ OverloadThreshold \in Nat \ {0} /\ MaxNesting \in Nat \ {0}
BY SchedulerAssumption DEF Thread

\* Threads and their numbers.
LEMMA TableFacts ==
  ASSUME NEW s \in Workspace, TableInv(s)
  PROVE  /\ NThreads(s) \in Nat \ {0}
         /\ \A i \in 0 .. NThreads(s) - 1 :
              /\ s.ThreadTable[i + 1] \in Registered(s) /\ s.ThreadTable[i + 1] \in Thread
              /\ Index(s, s.ThreadTable[i + 1]) = i
         /\ \A t \in Registered(s) :
              /\ t \in Thread
              /\ Index(s, t) \in 0 .. NThreads(s) - 1 /\ s.ThreadTable[Index(s, t) + 1] = t
         /\ FG \in Registered(s) /\ Index(s, FG) = 0
<1>. DEFINE N == NThreads(s)
<1>1. /\ N \in Nat \ {0} /\ s.ThreadTable[1] = FG
      /\ \A i, j \in 1 .. N : s.ThreadTable[i] = s.ThreadTable[j] => i = j
      /\ \A i \in 1 .. N : s.ThreadTable[i] \in Thread
      /\ Registered(s) = {s.ThreadTable[i] : i \in 1 .. N}
  BY Fields DEF TableInv, Registered
<1>2. \A t : Index(s, t) = CHOOSE i \in 0 .. N - 1 : s.ThreadTable[i + 1] = t
  BY DEF Index
<1>. HIDE DEF N
<1>3. \A i \in 0 .. N - 1 : i + 1 \in 1 .. N /\ i \in Int
  BY <1>1
<1>4. \A i \in 1 .. N : i - 1 \in 0 .. N - 1 /\ (i - 1) + 1 = i
  BY <1>1
<1>5. ASSUME NEW i \in 0 .. N - 1
      PROVE  Index(s, s.ThreadTable[i + 1]) = i
  <2>1. \A j \in 0 .. N - 1 : s.ThreadTable[j + 1] = s.ThreadTable[i + 1] => j = i
    <3>. SUFFICES ASSUME NEW j \in 0 .. N - 1, s.ThreadTable[j + 1] = s.ThreadTable[i + 1]
                  PROVE  j = i
      OBVIOUS
    <3>1. j + 1 = i + 1
      BY <1>1, <1>3
    <3>. QED
      BY <1>3, <3>1
  <2>. QED
    BY <1>2, <2>1
<1>6. ASSUME NEW t \in Registered(s)
      PROVE  t \in Thread /\ Index(s, t) \in 0 .. N - 1 /\ s.ThreadTable[Index(s, t) + 1] = t
  <2>1. PICK i \in 1 .. N : s.ThreadTable[i] = t
    BY <1>1
  <2>2. i - 1 \in 0 .. N - 1 /\ s.ThreadTable[(i - 1) + 1] = t
    BY <1>4, <2>1
  <2>. QED
    BY <1>1, <1>5, <2>1, <2>2
<1>7. FG \in Registered(s) /\ Index(s, FG) = 0
  <2>1. 1 \in 1 .. N /\ 0 \in 0 .. N - 1 /\ 0 + 1 = 1
    BY <1>1
  <2>. QED
    BY <1>1, <1>5, <2>1
<1>8. \A i \in 0 .. N - 1 : s.ThreadTable[i + 1] \in Registered(s) /\ s.ThreadTable[i + 1] \in Thread
  BY <1>1, <1>3
<1>. QED
  BY <1>1, <1>5, <1>6, <1>7, <1>8 DEF N

LEMMA RegisteredFinite ==
  ASSUME NEW s \in Workspace
  PROVE  IsFiniteSet(Registered(s))
<1>. DEFINE N == NThreads(s)
<1>1. N \in Nat /\ DOMAIN s.ThreadTable = 1 .. N /\ s.ThreadTable \in [1 .. N -> Registered(s)]
  BY Fields DEF Registered
<1>2. IsFiniteSet(1 .. N)
  BY <1>1, FS_Interval
<1>3. s.ThreadTable \in Surjection(1 .. N, Registered(s))
  BY <1>1 DEF Surjection, Registered
<1>. QED
  BY <1>2, <1>3, FS_Surjection

\* The priority of a real-time thread is in use.
LEMMA PriorityInUse ==
  ASSUME NEW s, Sound(s), NEW t \in Registered(s) \ {FG}
  PROVE  /\ s.thread[t].priority \in InUse(s.PriorityTable.usage)
         /\ s.thread[t].priority \in Priorities \ {0}
         /\ s.PriorityTable.usage[s.thread[t].priority] # 0
<1>. DEFINE p == s.thread[t].priority
            S == {u \in Registered(s) : s.thread[u].priority = p}
<1>1. s \in Workspace /\ TableInv(s) /\ PrioritiesInv(s)
  BY DEF Sound
<1>2. p \in Priorities \ {0}
  BY <1>1, Fields DEF TableInv, ThreadInfo
<1>3. t \in S /\ IsFiniteSet(S)
  BY <1>1, RegisteredFinite, FS_Subset
<1>4. Cardinality(S) \in Nat /\ Cardinality(S) # 0
  BY <1>3, FS_CardinalityType, FS_EmptySet
<1>5. s.PriorityTable.usage[p] \in {Cardinality(S), Saturated}
  BY <1>1, <1>2 DEF PrioritiesInv, Count
<1>6. s.PriorityTable.usage[p] > 0 /\ s.PriorityTable.usage[p] # 0
  <2>. HIDE DEF S, p
  <2>. QED
    BY <1>4, <1>5, Numbers
<1>. QED
  BY <1>2, <1>6 DEF InUse

-----------------------------------------------------------------------------
\* The scan.

\* What the scan accepts, of a thread.
ReadyThread(s, t) ==
  IF s.NTicks >= OverloadThreshold THEN MidFlight(s.thread[t]) ELSE PollwordSet(s, t)

LEMMA ReadyFacts ==
  ASSUME NEW s, NEW t
  PROVE  /\ MidFlight(s.thread[t]) => ReadyThread(s, t)
         /\ ReadyThread(s, t) => s.thread[t].pollword \notin {"Aborted", "CollateralDamage", "null"}
BY DEF MidFlight, ReadyThread, PollwordSet

LEMMA RoundRobinIsReady ==
  ASSUME NEW s \in Workspace, TableInv(s), NEW p, NEW i \in Int, ReadyAt(s, p) # {}
  PROVE  RoundRobin(s, p, i) \in ReadyAt(s, p)
<1>. DEFINE N == NThreads(s)
            distance(j) == (j - i - 1) % N
            D == {distance(j) : j \in ReadyAt(s, p)}
<1>1. N \in Nat \ {0}
  BY TableFacts
<1>2. \A j \in ReadyAt(s, p) : j \in 0 .. N - 1
  BY DEF ReadyAt
<1>. HIDE DEF N
<1>3. \A j \in ReadyAt(s, p) : distance(j) \in Nat
  BY <1>1, <1>2
<1>. HIDE DEF distance
<1>4. D \in SUBSET Nat /\ D # {}
  BY <1>3
<1>5. PICK d \in D : \A e \in D : d <= e
  <2>. HIDE DEF D
  <2>. QED
    BY <1>4, LeastNat
<1>6. PICK j \in ReadyAt(s, p) : d = distance(j)
  OBVIOUS
<1>7. \A k \in ReadyAt(s, p) : distance(j) <= distance(k)
  BY <1>5, <1>6
<1>8. RoundRobin(s, p, i) =
        CHOOSE m \in ReadyAt(s, p) : \A k \in ReadyAt(s, p) : distance(m) <= distance(k)
  BY DEF RoundRobin, distance, N
<1>. QED
  BY <1>7, <1>8

LEMMA ReadyAtIs ==
  ASSUME NEW s \in Workspace, TableInv(s), NEW p
  PROVE  /\ \A i \in ReadyAt(s, p) : /\ i \in 0 .. NThreads(s) - 1
                                     /\ s.thread[s.ThreadTable[i + 1]].priority = p
                                     /\ ReadyThread(s, s.ThreadTable[i + 1])
         /\ \A t \in Registered(s) : s.thread[t].priority = p /\ ReadyThread(s, t) =>
              ReadyAt(s, p) # {}
<1>1. \A i \in 0 .. NThreads(s) - 1 : Ready(s, i) = ReadyThread(s, s.ThreadTable[i + 1])
  BY DEF Ready, ReadyThread, At
<1>2. ASSUME NEW t \in Registered(s), s.thread[t].priority = p, ReadyThread(s, t)
      PROVE  ReadyAt(s, p) # {}
  <2>1. Index(s, t) \in 0 .. NThreads(s) - 1 /\ s.ThreadTable[Index(s, t) + 1] = t
    BY TableFacts
  <2>2. Index(s, t) \in ReadyAt(s, p)
    BY <1>1, <1>2, <2>1 DEF ReadyAt, At
  <2>. QED
    BY <2>2
<1>. QED
  BY <1>1, <1>2 DEF ReadyAt, At

\* The only thread without a pollword is the foreground, whose priority is 0.
LEMMA NoNullRead ==
  ASSUME NEW s, Sound(s), NEW p, p # 0
  PROVE  ~ReadsNull(s, p)
<1>1. s \in Workspace /\ TableInv(s)
  BY DEF Sound
<1>2. ASSUME NEW i \in 0 .. NThreads(s) - 1, At(s, i).priority = p, At(s, i).pollword = "null"
      PROVE  FALSE
  <2>1. s.ThreadTable[i + 1] \in Registered(s)
    BY <1>1, TableFacts
  <2>2. s.ThreadTable[i + 1] = FG
    BY <1>2, <2>1 DEF Sound, SaneThread, At
  <2>. QED
    BY <1>1, <1>2, <2>1, <2>2 DEF TableInv, At
<1>. QED
  BY <1>2 DEF ReadsNull

\* The number i is what the scan of a priority q in use finds.
Found(s, q, i) ==
  /\ i \in 0 .. NThreads(s) - 1
  /\ s.thread[s.ThreadTable[i + 1]].priority = q
  /\ ReadyThread(s, s.ThreadTable[i + 1])
  /\ LET last == s.ThreadTable[s.PriorityTable.last[q] + 1]
     IN  MidFlight(s.thread[last]) /\ s.thread[last].priority = q =>
           i = s.PriorityTable.last[q]

LEMMA FindsFacts ==
  ASSUME NEW s, Sound(s), NEW q \in InUse(s.PriorityTable.usage)
  PROVE  /\ ScanFault(s, q) = "none"
         /\ s.PriorityTable.last[q] \in 0 .. NThreads(s) - 1
         /\ \A i \in Finds(s, q) : Found(s, q, i)
         /\ \A t \in Registered(s) : s.thread[t].priority = q /\ ReadyThread(s, t) =>
              Finds(s, q) # {}
<1>. DEFINE last == s.PriorityTable.last[q]
            u == s.ThreadTable[last + 1]
<1>1. s \in Workspace /\ TableInv(s) /\ PrioritiesInv(s) /\ q \in Priorities \ {0}
  BY DEF Sound, InUse
<1>2. last \in 0 .. NThreads(s) - 1 /\ last < NThreads(s)
  <2>1. s.PriorityTable.usage[q] # 0
    <3>1. s.PriorityTable.usage[q] > 0
      BY DEF InUse
    <3>. QED
      BY <3>1
  <2>2. last \in Nat /\ NThreads(s) \in Nat
    BY <1>1, Fields DEF Table
  <2>. QED
    BY <1>1, <2>1, <2>2 DEF PrioritiesInv
<1>3. ScanFault(s, q) = "none"
  <2>1. ~(last >= NThreads(s))
    <3>1. last \in Int /\ NThreads(s) \in Int
      BY <1>1, <1>2, Fields
    <3>. HIDE DEF last
    <3>. QED
      BY <1>2, <3>1
  <2>. QED
    BY <1>1, <2>1, NoNullRead DEF ScanFault
<1>4. ResumesFirst(s, q) <=> MidFlight(s.thread[u]) /\ s.thread[u].priority = q
  BY <1>2 DEF ResumesFirst, At
<1>5. Finds(s, q) = IF ResumesFirst(s, q) THEN {last}
                    ELSE IF ReadyAt(s, q) = {} THEN {} ELSE {RoundRobin(s, q, last)}
  BY DEF Finds
<1>6. ASSUME NEW i \in Finds(s, q)
      PROVE  Found(s, q, i)
  <2>1. CASE ResumesFirst(s, q)
    <3>1. i = last
      BY <1>5, <2>1
    <3>2. ReadyThread(s, u)
      BY <1>4, <2>1, ReadyFacts
    <3>. QED
      BY <1>2, <1>4, <2>1, <3>1, <3>2 DEF Found
  <2>2. CASE ~ResumesFirst(s, q)
    <3>1. ReadyAt(s, q) # {} /\ i = RoundRobin(s, q, last)
      BY <1>5, <2>2
    <3>2. i \in ReadyAt(s, q)
      BY <1>1, <1>2, <3>1, RoundRobinIsReady
    <3>. QED
      BY <1>1, <1>4, <2>2, <3>2, ReadyAtIs DEF Found
  <2>. QED
    BY <2>1, <2>2
<1>7. ASSUME NEW t \in Registered(s), s.thread[t].priority = q, ReadyThread(s, t)
      PROVE  Finds(s, q) # {}
  <2>1. ReadyAt(s, q) # {}
    BY <1>1, <1>7, ReadyAtIs
  <2>. QED
    BY <1>5, <2>1
<1>. QED
  BY <1>2, <1>3, <1>6, <1>7

\* Nothing that is ready has a higher priority than q among those up to p.
NoneAbove(s, p, q) ==
  \A t \in Registered(s) \ {FG} :
    ReadyThread(s, t) /\ s.thread[t].priority <= p => s.thread[t].priority <= q

\* The scan down from p switches to the highest ready thread, or there is none.
LEMMA NextPriorityIs ==
  ASSUME NEW s, Sound(s), NEW p \in InUse(s.PriorityTable.usage) \cup {0}
  PROVE  \/ NextPriority(s, p) = ReturnToForeground(s) /\ NoneAbove(s, p, 0)
         \/ \E q \in InUse(s.PriorityTable.usage), i \in 0 .. NThreads(s) - 1 :
              /\ NextPriority(s, p) = SwitchToThread(s, i, q)
              /\ Found(s, q, i) /\ NoneAbove(s, p, q) /\ q <= p
<1>. DEFINE use == InUse(s.PriorityTable.usage)
            hits == {q \in Chain(s.PriorityTable.next, p) :
                       Finds(s, q) # {} \/ ScanFault(s, q) # "none"}
            first == Max(hits)
<1>1. s \in Workspace /\ s.PriorityTable \in Table /\ Linked(s.PriorityTable)
  BY Fields DEF Sound, PrioritiesInv
<1>2. use \subseteq Priorities \ {0} /\ p \in Priorities /\ p \in Nat /\ p <= TopPriority
  BY Numbers DEF InUse
<1>3. Chain(s.PriorityTable.next, p) = {r \in use : r <= p}
  <2>1. p \in Entries(s.PriorityTable.usage) \cup {0}
    BY DEF Entries
  <2>2. Chain(s.PriorityTable.next, p) = {r \in Entries(s.PriorityTable.usage) : r <= p}
    BY <1>1, <2>1, ScanIs
  <2>3. ASSUME TopPriority <= p
        PROVE  TopPriority \in use
    BY <1>2, <2>3, Numbers
  <2>. QED
    BY <2>2, <2>3 DEF Entries
<1>4. hits = {q \in use : q <= p /\ Finds(s, q) # {}}
  BY <1>3, FindsFacts
<1>5. NextPriority(s, p) =
        IF hits = {} THEN ReturnToForeground(s)
        ELSE IF ScanFault(s, first) # "none" THEN Fault(s, ScanFault(s, first))
        ELSE SwitchToThread(s, CHOOSE i \in Finds(s, first) : TRUE, first)
  BY DEF NextPriority
<1>. HIDE DEF hits
<1>6. ASSUME NEW t \in Registered(s) \ {FG}, ReadyThread(s, t), s.thread[t].priority <= p
      PROVE  s.thread[t].priority \in hits
  BY <1>4, <1>6, PriorityInUse, FindsFacts
<1>7. CASE hits = {}
  BY <1>5, <1>6, <1>7 DEF NoneAbove
<1>8. CASE hits # {}
  <2>1. hits \in SUBSET Nat /\ \A q \in hits : q <= p
    BY <1>2, <1>4, Numbers
  <2>2. first \in hits /\ \A q \in hits : q <= first
    BY <1>2, <1>8, <2>1, MaxIs
  <2>. HIDE DEF first
  <2>3. first \in use /\ first <= p /\ Finds(s, first) # {} /\ ScanFault(s, first) = "none"
    BY <1>4, <2>2, FindsFacts
  <2>. DEFINE i == CHOOSE i \in Finds(s, first) : TRUE
  <2>4. i \in Finds(s, first) /\ Found(s, first, i)
    BY <2>3, FindsFacts
  <2>5. NextPriority(s, p) = SwitchToThread(s, i, first)
    BY <1>5, <1>8, <2>3
  <2>. HIDE DEF i
  <2>6. NoneAbove(s, p, first)
    BY <1>6, <2>2 DEF NoneAbove
  <2>7. i \in 0 .. NThreads(s) - 1
    BY <2>4 DEF Found
  <2>. QED
    BY <2>3, <2>4, <2>5, <2>6, <2>7
<1>. QED
  BY <1>7, <1>8

\* The scan of all priorities.
LEMMA FullRescanIs ==
  ASSUME NEW s, Sound(s)
  PROVE  \/ /\ FullRescan(s) = ReturnToForeground(s)
            /\ \A t \in Registered(s) \ {FG} : ~ReadyThread(s, t)
         \/ \E q \in InUse(s.PriorityTable.usage), i \in 0 .. NThreads(s) - 1 :
              /\ FullRescan(s) = SwitchToThread(s, i, q) /\ Found(s, q, i)
              /\ \A t \in Registered(s) \ {FG} :
                   ReadyThread(s, t) => s.thread[t].priority <= q
<1>. DEFINE pt == s.PriorityTable
            p == IF pt.usage[TopPriority] = 0 THEN pt.next[TopPriority] ELSE TopPriority
<1>1. s \in Workspace /\ pt \in Table /\ Linked(pt)
  BY Fields DEF Sound, PrioritiesInv
<1>2. FullRescan(s) = NextPriority(s, p)
  BY DEF FullRescan
<1>3. p \in InUse(pt.usage) \cup {0} /\ \A r \in InUse(pt.usage) : r <= p
  <2>1. /\ TopPriority \in Entries(pt.usage)
        /\ pt.next[TopPriority] < TopPriority
        /\ pt.next[TopPriority] \in Entries(pt.usage) \cup {0}
        /\ \A r \in Entries(pt.usage) : r < TopPriority => r <= pt.next[TopPriority]
    BY <1>1 DEF Linked, IsList
  <2>2. \A r \in InUse(pt.usage) : r \in Nat /\ r <= TopPriority /\ r # 0
    BY Numbers DEF InUse
  <2>3. pt.usage[TopPriority] \in Nat /\ TopPriority \in Priorities \ {0}
    BY <1>1, Numbers DEF Table, UsageCounts
  <2>4. CASE pt.usage[TopPriority] # 0
    <3>1. pt.usage[TopPriority] > 0
      BY <2>3, <2>4
    <3>2. TopPriority \in InUse(pt.usage)
      BY <2>3, <3>1 DEF InUse
    <3>. QED
      BY <2>2, <2>4, <3>2
  <2>5. CASE pt.usage[TopPriority] = 0
    <3>1. TopPriority \notin InUse(pt.usage)
      BY <2>5 DEF InUse
    <3>2. pt.next[TopPriority] # TopPriority
      BY <2>1, Numbers
    <3>3. \A r \in InUse(pt.usage) : r < TopPriority
      BY <2>2, <3>1, Numbers
    <3>. QED
      BY <2>1, <2>5, <3>2, <3>3 DEF Entries
  <2>. QED
    BY <2>4, <2>5
<1>. HIDE DEF p
<1>4. \A t \in Registered(s) \ {FG} :
        s.thread[t].priority <= p /\ s.thread[t].priority \in Nat \ {0}
  BY <1>3, PriorityInUse, Numbers
<1>5. \/ NextPriority(s, p) = ReturnToForeground(s) /\ NoneAbove(s, p, 0)
      \/ \E q \in InUse(s.PriorityTable.usage), i \in 0 .. NThreads(s) - 1 :
           /\ NextPriority(s, p) = SwitchToThread(s, i, q)
           /\ Found(s, q, i) /\ NoneAbove(s, p, q) /\ q <= p
  BY <1>3, NextPriorityIs
<1>6. NoneAbove(s, p, 0) => \A t \in Registered(s) \ {FG} : ~ReadyThread(s, t)
  <2>1. \A n \in Nat \ {0} : ~(n <= 0)
    OBVIOUS
  <2>. QED
    BY <1>4, <2>1 DEF NoneAbove
<1>7. \A q : NoneAbove(s, p, q) =>
        \A t \in Registered(s) \ {FG} : ReadyThread(s, t) => s.thread[t].priority <= q
  BY <1>4 DEF NoneAbove
<1>. QED
  BY <1>2, <1>5, <1>6, <1>7

-----------------------------------------------------------------------------
\* Resuming a thread.

WithStack(s, frames, top) == [s EXCEPT !.frames = frames, !.LastKnownIRQsema = top]
Woken(i) == [i EXCEPT !.pollword = "Executing", !.timeout_flag = FALSE]

LEMMA WithStackFields ==
  ASSUME NEW s \in Workspace, NEW frames \in Seq(Frame), NEW top \in Nat
  PROVE  LET r == WithStack(s, frames, top)
         IN  /\ r \in Workspace /\ r.thread = s.thread
             /\ r.ThreadTable = s.ThreadTable /\ r.PriorityTable = s.PriorityTable
             /\ r.Context = s.Context /\ r.InBackground = s.InBackground
             /\ r.NTicks = s.NTicks /\ r.Priority = s.Priority /\ r.fault = s.fault
             /\ r.cpu = s.cpu /\ r.nested = s.nested
             /\ r.frames = frames /\ r.LastKnownIRQsema = top
BY DEF Workspace, WithStack

LEMMA WokenFields ==
  ASSUME NEW i \in ThreadInfo
  PROVE  /\ Woken(i) \in ThreadInfo /\ Woken(i).pollword = "Executing"
         /\ Woken(i).timeout_flag = FALSE /\ Woken(i).priority = i.priority
         /\ Woken(i).recover = i.recover /\ Woken(i).stack_frame = i.stack_frame
BY DEF Woken, ThreadInfo, Pollword

\* What is left of the IRQ stack when t's frame has been resumed.
LEMMA RecoveryFacts ==
  ASSUME NEW s \in Workspace, NEW t, NEW f \in 1 .. IRQsema(s), f = s.thread[t].stack_frame,
         s.frames[f] = [owner |-> t, resumed |-> FALSE]
  PROVE  \E frames \in Seq(Frame), top \in 0 .. IRQsema(s) :
           /\ PreEmptionRecovery(s, t) = WithStack(s, frames, top)
           /\ Len(frames) = top
           /\ \A d \in 1 .. IRQsema(s) :
                d # f /\ ~s.frames[d].resumed => d \in 1 .. top /\ frames[d] = s.frames[d]
<1>. DEFINE n == IRQsema(s)
            marked == [s.frames EXCEPT ![f].resumed = TRUE]
            live == {d \in 1 .. n : ~marked[d].resumed}
            top == IF live = {} THEN 0 ELSE Max(live)
            frames == SubSeq(marked, 1, top)
<1>1. n \in Nat /\ f \in 1 .. n /\ s.frames \in Seq(Frame) /\ DOMAIN s.frames = 1 .. n
      /\ Len(s.frames) = n /\ \A d \in 1 .. n : s.frames[d] \in Frame
  BY Fields DEF IRQsema
<1>2. PreEmptionRecovery(s, t) = WithStack(s, frames, top)
  BY DEF PreEmptionRecovery, WithStack
<1>. HIDE DEF n
<1>3. marked \in Seq(Frame) /\ Len(marked) = n
      /\ \A d \in 1 .. n : marked[d] \in Frame /\ (d # f => marked[d] = s.frames[d])
  <2>1. [s.frames[f] EXCEPT !.resumed = TRUE] \in Frame
    BY <1>1 DEF Frame
  <2>. DEFINE fr == [s.frames[f] EXCEPT !.resumed = TRUE]
              m == [s.frames EXCEPT ![f] = fr]
  <2>2. marked = m
    OBVIOUS
  <2>3. m \in Seq(Frame) /\ Len(m) = n /\ \A d \in 1 .. n : m[d] = IF d = f THEN fr ELSE s.frames[d]
    <3>. HIDE DEF fr
    <3>1. fr \in Frame
      BY <2>1 DEF fr
    <3>. QED
      BY <1>1, <3>1, ExceptSeq
  <2>. QED
    BY <1>1, <2>1, <2>2, <2>3
<1>. HIDE DEF marked
<1>4. top \in 0 .. n /\ \A d \in live : d <= top
  <2>1. live \in SUBSET Nat /\ \A d \in live : d <= n /\ d >= 1
    BY <1>1
  <2>. HIDE DEF live
  <2>2. live # {} => Max(live) \in live /\ \A d \in live : d <= Max(live)
    BY <1>1, <2>1, MaxIs
  <2>3. CASE live = {}
    BY <1>1, <2>3
  <2>4. CASE live # {}
    <3>1. top \in live /\ \A d \in live : d <= top
      BY <2>2, <2>4
    <3>. HIDE DEF top
    <3>2. top \in Nat /\ top <= n
      BY <2>1, <3>1
    <3>. QED
      BY <1>1, <3>1, <3>2
  <2>. QED
    BY <2>3, <2>4
<1>5. \A d \in 1 .. n : d # f /\ ~s.frames[d].resumed => d \in live
  BY <1>3
<1>. HIDE DEF top
<1>6. frames \in Seq(Frame) /\ Len(frames) = top /\ \A d \in 1 .. top : frames[d] = marked[d]
  <2>1. \A d \in 1 .. top : marked[d] \in Frame
    BY <1>1, <1>3, <1>4
  <2>2. /\ SubSeq(marked, 1, top) \in Seq(Frame)
        /\ Len(SubSeq(marked, 1, top)) = IF 1 <= top THEN top - 1 + 1 ELSE 0
        /\ \A d \in 1 .. top - 1 + 1 : SubSeq(marked, 1, top)[d] = marked[1 + d - 1]
    BY <1>1, <1>3, <1>4, <2>1, SubSeqProperties
  <2>3. top - 1 + 1 = top /\ (IF 1 <= top THEN top - 1 + 1 ELSE 0) = top
    BY <1>1, <1>4
  <2>4. \A d \in 1 .. top : 1 + d - 1 = d
    OBVIOUS
  <2>. QED
    BY <2>2, <2>3, <2>4
<1>. HIDE DEF frames
<1>7. \A d \in 1 .. n : d # f /\ ~s.frames[d].resumed => d \in 1 .. top /\ frames[d] = s.frames[d]
  <2>. SUFFICES ASSUME NEW d \in 1 .. n, d # f, ~s.frames[d].resumed
                PROVE  d \in 1 .. top /\ frames[d] = s.frames[d]
    OBVIOUS
  <2>1. d <= top
    BY <1>4, <1>5
  <2>2. d \in 1 .. top
    BY <1>1, <1>4, <2>1
  <2>. QED
    BY <1>3, <1>6, <2>2
<1>. QED
  BY <1>2, <1>4, <1>6, <1>7 DEF n

\* What ResumeThread leaves alone, and what it does to the thread and the IRQ stack.
LEMMA ResumeFields ==
  ASSUME NEW s \in Workspace, NEW u \in Thread, NEW frames \in Seq(Frame), NEW top \in Nat,
         (IF s.thread[u].recover THEN PreEmptionRecovery(s, u) ELSE s) =
           WithStack(s, frames, top)
  PROVE  LET r == ResumeThread(s, u)
         IN  /\ r \in Workspace
             /\ r.ThreadTable = s.ThreadTable /\ r.PriorityTable = s.PriorityTable
             /\ r.Context = s.Context /\ r.InBackground = s.InBackground
             /\ r.NTicks = s.NTicks /\ r.Priority = s.Priority /\ r.fault = s.fault
             /\ r.frames = frames /\ r.LastKnownIRQsema = top
             /\ r.cpu = u /\ r.nested = 0
             /\ r.thread = [s.thread EXCEPT ![u] = Woken(@)]
<1>. DEFINE s1 == WithStack(s, frames, top)
            th == [s.thread EXCEPT ![u] = Woken(@)]
            r == ResumeThread(s, u)
<1>1. /\ s1 \in Workspace /\ s1.thread = s.thread
      /\ s1.ThreadTable = s.ThreadTable /\ s1.PriorityTable = s.PriorityTable
      /\ s1.Context = s.Context /\ s1.InBackground = s.InBackground
      /\ s1.NTicks = s.NTicks /\ s1.Priority = s.Priority /\ s1.fault = s.fault
      /\ s1.frames = frames /\ s1.LastKnownIRQsema = top
  BY WithStackFields
<1>2. s.thread[u] \in ThreadInfo /\ s.thread \in [Thread -> ThreadInfo]
  BY Fields
<1>3. th \in [Thread -> ThreadInfo]
  BY <1>2, WokenFields
<1>. HIDE DEF s1
<1>4. r = [s1 EXCEPT !.thread[u] = Woken(@), !.cpu = u, !.nested = 0]
  BY DEF ResumeThread, Woken, s1
<1>5. r = [s1 EXCEPT !.thread = th, !.cpu = u, !.nested = 0]
  BY <1>1, <1>4, Zenon
<1>6. 0 \in 0 .. MaxNesting
  BY Parameters
<1>. HIDE DEF th, r
<1>7. /\ r \in Workspace
      /\ r.ThreadTable = s1.ThreadTable /\ r.PriorityTable = s1.PriorityTable
      /\ r.Context = s1.Context /\ r.InBackground = s1.InBackground
      /\ r.NTicks = s1.NTicks /\ r.Priority = s1.Priority /\ r.fault = s1.fault
      /\ r.frames = s1.frames /\ r.LastKnownIRQsema = s1.LastKnownIRQsema
      /\ r.cpu = u /\ r.nested = 0 /\ r.thread = th
  BY <1>1, <1>3, <1>5, <1>6 DEF Workspace
<1>. QED
  BY <1>1, <1>7 DEF r, th

\* A thread that may be resumed leaves every other asleep, with its frame.
LEMMA ResumeFacts ==
  ASSUME NEW s, Idle(s), NEW u \in Registered(s),
         s.thread[u].pollword \notin {"Aborted", "CollateralDamage"}
  PROVE  LET r == ResumeThread(s, u)
         IN  /\ r \in Workspace
             /\ r.ThreadTable = s.ThreadTable /\ r.PriorityTable = s.PriorityTable
             /\ r.Context = s.Context /\ r.InBackground = s.InBackground
             /\ r.NTicks = s.NTicks /\ r.Priority = s.Priority /\ r.fault = s.fault
             /\ r.cpu = u /\ r.nested = 0 /\ r.LastKnownIRQsema = IRQsema(r)
             /\ r.thread = [s.thread EXCEPT ![u] = Woken(@)]
             /\ \A t \in Registered(s) \ {u} : Asleep(r, t)
<1>. DEFINE f(t) == s.thread[t].stack_frame
            Owned(frames, top, t) == /\ f(t) \in 1 .. top
                                     /\ frames[f(t)] = [owner |-> t, resumed |-> FALSE]
<1>1. /\ s \in Workspace /\ s.LastKnownIRQsema = IRQsema(s)
      /\ \A t \in Registered(s) : Asleep(s, t)
      /\ u \in Thread /\ Registered(s) \subseteq Thread
  BY Fields DEF Idle, Sound
<1>2. \A t \in Registered(s) : s.thread[t].pollword = "PreEmpted" => Owned(s.frames, IRQsema(s), t)
  BY <1>1 DEF Asleep
<1>3. \E frames \in Seq(Frame), top \in Nat :
        /\ (IF s.thread[u].recover THEN PreEmptionRecovery(s, u) ELSE s) =
              WithStack(s, frames, top)
        /\ Len(frames) = top
        /\ \A t \in Registered(s) \ {u} :
             s.thread[t].pollword = "PreEmpted" => Owned(frames, top, t)
  <2>1. CASE ~s.thread[u].recover
    <3>1. s = WithStack(s, s.frames, IRQsema(s))
      BY <1>1 DEF Workspace, WithStack
    <3>2. s.frames \in Seq(Frame) /\ IRQsema(s) \in Nat /\ Len(s.frames) = IRQsema(s)
      BY <1>1, Fields DEF IRQsema
    <3>. HIDE DEF Owned
    <3>. QED
      BY <1>2, <2>1, <3>1, <3>2
  <2>2. CASE s.thread[u].recover
    <3>1. s.thread[u].pollword = "PreEmpted"
      BY <1>1, <2>2 DEF Asleep
    <3>2. f(u) \in 1 .. IRQsema(s) /\ s.frames[f(u)] = [owner |-> u, resumed |-> FALSE]
      BY <1>2, <3>1
    <3>3. \E frames \in Seq(Frame), top \in 0 .. IRQsema(s) :
            /\ PreEmptionRecovery(s, u) = WithStack(s, frames, top)
            /\ Len(frames) = top
            /\ \A d \in 1 .. IRQsema(s) :
                 d # f(u) /\ ~s.frames[d].resumed => d \in 1 .. top /\ frames[d] = s.frames[d]
      BY <1>1, <3>2, RecoveryFacts
    <3>4. PICK frames \in Seq(Frame), top \in 0 .. IRQsema(s) :
            /\ PreEmptionRecovery(s, u) = WithStack(s, frames, top)
            /\ Len(frames) = top
            /\ \A d \in 1 .. IRQsema(s) :
                 d # f(u) /\ ~s.frames[d].resumed => d \in 1 .. top /\ frames[d] = s.frames[d]
      BY <3>3
    <3>5. ASSUME NEW t \in Registered(s) \ {u}, s.thread[t].pollword = "PreEmpted"
          PROVE  Owned(frames, top, t)
      <4>1. f(t) \in 1 .. IRQsema(s) /\ s.frames[f(t)] = [owner |-> t, resumed |-> FALSE]
        BY <1>2, <3>5
      <4>2. s.frames[f(t)].owner = t /\ ~s.frames[f(t)].resumed /\ s.frames[f(u)].owner = u
        BY <3>2, <4>1
      <4>. HIDE DEF f
      <4>3. f(t) # f(u)
        BY <4>2
      <4>. QED
        BY <3>4, <4>1, <4>2, <4>3
    <3>6. top \in Nat
      BY <1>1, Fields
    <3>. HIDE DEF Owned
    <3>. QED
      BY <2>2, <3>4, <3>5, <3>6
  <2>. QED
    BY <2>1, <2>2
<1>4. PICK frames \in Seq(Frame), top \in Nat :
        /\ (IF s.thread[u].recover THEN PreEmptionRecovery(s, u) ELSE s) =
              WithStack(s, frames, top)
        /\ Len(frames) = top
        /\ \A t \in Registered(s) \ {u} :
             s.thread[t].pollword = "PreEmpted" => Owned(frames, top, t)
  BY <1>3
<1>. DEFINE r == ResumeThread(s, u)
<1>5. /\ r \in Workspace
      /\ r.ThreadTable = s.ThreadTable /\ r.PriorityTable = s.PriorityTable
      /\ r.Context = s.Context /\ r.InBackground = s.InBackground
      /\ r.NTicks = s.NTicks /\ r.Priority = s.Priority /\ r.fault = s.fault
      /\ r.frames = frames /\ r.LastKnownIRQsema = top
      /\ r.cpu = u /\ r.nested = 0
      /\ r.thread = [s.thread EXCEPT ![u] = Woken(@)]
  <2>. HIDE DEF Owned
  <2>. QED
    BY <1>1, <1>4, ResumeFields
<1>. HIDE DEF r
<1>6. ASSUME NEW t \in Registered(s) \ {u}
      PROVE  Asleep(r, t)
  <2>1. r.thread[t] = s.thread[t]
    BY <1>1, <1>5, Fields
  <2>2. Asleep(s, t)
    BY <1>1
  <2>. QED
    BY <1>4, <1>5, <2>1, <2>2 DEF Asleep
<1>. QED
  BY <1>4, <1>5, <1>6 DEF r, IRQsema

\* The tables stay as they are but for who ran last and the threads' states.
SameTables(s, r) ==
  /\ r.ThreadTable = s.ThreadTable
  /\ \A t \in Registered(s) : r.thread[t].priority = s.thread[t].priority
  /\ r.PriorityTable.next = s.PriorityTable.next
  /\ r.PriorityTable.usage = s.PriorityTable.usage
  /\ \A p \in Priorities : \/ r.PriorityTable.last[p] = s.PriorityTable.last[p]
                           \/ r.PriorityTable.last[p] < NThreads(s)

LEMMA TablesRead ==
  ASSUME NEW s, NEW r, r.ThreadTable = s.ThreadTable
  PROVE  /\ NThreads(r) = NThreads(s) /\ Registered(r) = Registered(s)
         /\ \A t : Index(r, t) = Index(s, t)
BY DEF NThreads, Registered, Index

LEMMA SoundKept ==
  ASSUME NEW s, Sound(s), NEW r \in Workspace, r.fault = "none", SameTables(s, r),
         \A t \in Registered(s) : SaneThread(r, t)
  PROVE  Sound(r)
<1>1. s \in Workspace /\ TableInv(s) /\ PrioritiesInv(s)
  BY DEF Sound
<1>2. NThreads(r) = NThreads(s) /\ Registered(r) = Registered(s)
  BY TablesRead DEF SameTables
<1>3. TableInv(r)
  BY <1>1, <1>2 DEF TableInv, SameTables
<1>4. \A p : Count(r, p) = Count(s, p)
  <2>. SUFFICES ASSUME NEW p PROVE Count(r, p) = Count(s, p)
    OBVIOUS
  <2>1. {t \in Registered(r) : r.thread[t].priority = p}
          = {t \in Registered(s) : s.thread[t].priority = p}
    BY <1>2 DEF SameTables
  <2>. QED
    BY <2>1 DEF Count
<1>5. Linked(r.PriorityTable)
  BY <1>1 DEF PrioritiesInv, Linked, SameTables
<1>6. PrioritiesInv(r)
  <2>1. \A p \in Priorities \ {0} : r.PriorityTable.usage[p] \in {Count(r, p), Saturated}
    BY <1>1, <1>4 DEF PrioritiesInv, SameTables
  <2>2. ASSUME NEW p \in Priorities, r.PriorityTable.usage[p] # 0 \/ "Deregister" \notin Calls
        PROVE  r.PriorityTable.last[p] < NThreads(r)
    BY <1>1, <1>2, <2>2 DEF PrioritiesInv, SameTables
  <2>. QED
    BY <1>1, <1>5, <2>1, <2>2 DEF PrioritiesInv, SameTables
<1>. QED
  BY <1>2, <1>3, <1>6 DEF Sound

\* The thread that Context names is resumed.
LEMMA ResumeInv ==
  ASSUME NEW s, Idle(s), s.Context \in 0 .. NThreads(s) - 1,
         NEW u, u = s.ThreadTable[s.Context + 1],
         s.thread[u].pollword \notin {"Aborted", "CollateralDamage"},
         u # FG => s.InBackground,
         u = FG => Busy(s) = {},
         FixedPriorities =>
           /\ RanLast(s)
           /\ u # FG => /\ s.Priority = s.thread[u].priority
                        /\ s.PriorityTable.last[s.Priority] = s.Context
                        /\ \A t \in Busy(s) : s.thread[t].priority <= s.Priority
  PROVE  Goes(s, ResumeThread(s, u)) /\ ResumeThread(s, u).cpu = u
<1>. DEFINE r == ResumeThread(s, u)
<1>1. Sound(s) /\ s \in Workspace /\ TableInv(s) /\ s.fault = "none"
  BY DEF Idle, Sound
<1>2. u \in Registered(s) /\ u \in Thread /\ Index(s, u) = s.Context
  BY <1>1, TableFacts
<1>3. /\ r \in Workspace
      /\ r.ThreadTable = s.ThreadTable /\ r.PriorityTable = s.PriorityTable
      /\ r.Context = s.Context /\ r.InBackground = s.InBackground
      /\ r.Priority = s.Priority /\ r.fault = s.fault /\ r.NTicks = s.NTicks
      /\ r.cpu = u /\ r.nested = 0 /\ r.LastKnownIRQsema = IRQsema(r)
      /\ r.thread = [s.thread EXCEPT ![u] = Woken(@)]
      /\ \A t \in Registered(s) \ {u} : Asleep(r, t)
  BY <1>2, ResumeFacts
<1>. HIDE DEF r
<1>4. NThreads(r) = NThreads(s) /\ Registered(r) = Registered(s) /\ \A t : Index(r, t) = Index(s, t)
  BY <1>3, TablesRead
<1>5. /\ s.thread \in [Thread -> ThreadInfo] /\ Registered(s) \subseteq Thread
      /\ s.thread[u] \in ThreadInfo
  BY <1>1, <1>2, Fields
<1>6. /\ r.thread[u].pollword = "Executing" /\ r.thread[u].timeout_flag = FALSE
      /\ \A t \in Registered(s) : r.thread[t].priority = s.thread[t].priority
      /\ \A t \in Registered(s) : t # u => r.thread[t] = s.thread[t]
  BY <1>2, <1>3, <1>5, WokenFields
<1>7. Sound(r)
  <2>1. SameTables(s, r)
    BY <1>3, <1>6 DEF SameTables
  <2>2. ASSUME NEW t \in Registered(s)
        PROVE  SaneThread(r, t)
    BY <1>1, <1>6 DEF Sound, SaneThread
  <2>. QED
    BY <1>1, <1>3, <2>1, <2>2, SoundKept
<1>8. Busy(r) \ {u} = Busy(s) \ {u}
  BY <1>4, <1>6 DEF Busy
<1>9. RunnerInv(r)
  <2>1. u = FG => Busy(r) = {}
    <3>. SUFFICES ASSUME u = FG PROVE Busy(r) = {}
      OBVIOUS
    <3>1. u \notin Busy(r)
      BY DEF Busy
    <3>. QED
      BY <1>8, <3>1
  <2>. QED
    BY <1>3, <1>4, <1>6, <2>1 DEF RunnerInv
<1>10. FramesInv(r)
  <2>1. IRQsema(r) \in Nat
    BY <1>3, Fields
  <2>. QED
    BY <1>3, <2>1 DEF FramesInv
<1>11. ASSUME FixedPriorities
       PROVE  PriorityInv(r)
  <2>1. ASSUME NEW t \in Busy(r)
        PROVE  r.PriorityTable.last[r.thread[t].priority] = Index(r, t)
    <3>1. CASE t = u
      <4>1. u # FG
        BY <2>1, <3>1 DEF Busy
      <4>2. s.thread[u].priority = s.Priority /\ s.PriorityTable.last[s.Priority] = s.Context
        BY <1>11, <4>1
      <4>. QED
        BY <1>2, <1>3, <1>4, <1>6, <3>1, <4>2
    <3>2. CASE t # u
      <4>1. t \in Busy(s) /\ t \in Registered(s)
        BY <1>8, <2>1, <3>2 DEF Busy
      <4>2. s.PriorityTable.last[s.thread[t].priority] = Index(s, t)
        BY <1>11, <4>1 DEF RanLast
      <4>. QED
        BY <1>3, <1>4, <1>6, <3>2, <4>1, <4>2
    <3>. QED
      BY <3>1, <3>2
  <2>2. ASSUME r.cpu # FG
        PROVE  /\ r.Priority = r.thread[r.cpu].priority
               /\ \A t \in Busy(r) : r.thread[t].priority <= r.Priority
    <3>1. /\ s.Priority = s.thread[u].priority
          /\ \A t \in Busy(s) : s.thread[t].priority <= s.Priority
      BY <1>3, <1>11, <2>2
    <3>2. s.Priority <= s.Priority
      <4>1. s.Priority \in Priorities
        BY <1>1, Fields
      <4>2. s.Priority \in Nat
        BY <4>1, Numbers
      <4>. QED
        BY <4>2
    <3>3. ASSUME NEW t \in Busy(r)
          PROVE  r.thread[t].priority <= r.Priority
      <4>1. t \in Registered(s)
        BY <1>4 DEF Busy
      <4>2. CASE t = u
        BY <1>2, <1>3, <1>6, <3>1, <3>2, <4>2
      <4>3. CASE t # u
        BY <1>3, <1>6, <1>8, <3>1, <4>1, <4>3
      <4>. QED
        BY <4>2, <4>3
    <3>. QED
      BY <1>2, <1>3, <1>6, <3>1, <3>3
  <2>. QED
    BY <2>1, <2>2 DEF PriorityInv, RanLast
<1>12. KeepsStopped(s, r)
  BY <1>4, <1>6 DEF KeepsStopped, Stopped
<1>13. Inv(r)
  BY <1>3, <1>4, <1>7, <1>9, <1>10, <1>11 DEF Inv
<1>14. \A t \in Registered(s) : t # u /\ PollwordSet(r, t) => PollwordSet(s, t)
  BY <1>6 DEF PollwordSet
<1>. QED
  BY <1>3, <1>4, <1>6, <1>12, <1>13, <1>14 DEF r, Goes

-----------------------------------------------------------------------------
\* Entries that change only the IRQ stack.

SameThreads(s, r) ==
  /\ r.ThreadTable = s.ThreadTable /\ r.thread = s.thread /\ r.PriorityTable = s.PriorityTable
  /\ r.Context = s.Context /\ r.cpu = s.cpu /\ r.Priority = s.Priority /\ r.fault = s.fault
  /\ r.LastKnownIRQsema = s.LastKnownIRQsema /\ (s.InBackground => r.InBackground)

LEMMA StackInv ==
  ASSUME NEW s, Inv(s), NEW r \in Workspace, SameThreads(s, r), FramesInv(r),
         \A d \in 1 .. s.LastKnownIRQsema : r.frames[d] = s.frames[d]
  PROVE  Inv(r) /\ KeepsStopped(s, r) /\ Registered(r) = Registered(s)
<1>1. /\ NThreads(r) = NThreads(s) /\ Registered(r) = Registered(s)
      /\ \A t : Index(r, t) = Index(s, t)
  BY TablesRead DEF SameThreads
<1>2. Sound(r)
  <2>1. SameTables(s, r)
    BY DEF SameTables, SameThreads
  <2>2. \A t \in Registered(s) : SaneThread(r, t)
    BY DEF Inv, Sound, SaneThread, SameThreads
  <2>3. r.fault = "none" /\ Sound(s)
    BY DEF Inv, Sound, SameThreads
  <2>. QED
    BY <2>1, <2>2, <2>3, SoundKept
<1>3. Busy(r) = Busy(s)
  BY <1>1 DEF Busy, SameThreads
<1>4. RunnerInv(r)
  BY <1>1, <1>3 DEF Inv, RunnerInv, SameThreads
<1>5. ASSUME NEW t \in Registered(r) \ {r.cpu}
      PROVE  Asleep(r, t)
  <2>1. Asleep(s, t)
    BY <1>1, <1>5 DEF Inv, SameThreads
  <2>. QED
    BY <2>1 DEF Asleep, SameThreads
<1>6. FixedPriorities => PriorityInv(r)
  BY <1>1, <1>3 DEF Inv, PriorityInv, RanLast, SameThreads
<1>7. KeepsStopped(s, r)
  BY <1>1 DEF KeepsStopped, Stopped, SameThreads
<1>. QED
  BY <1>1, <1>2, <1>4, <1>5, <1>6, <1>7 DEF Inv

\* Going on with what the innermost handler interrupted.
LEMMA KernelExitInv ==
  ASSUME NEW s, Inv(s), s.nested > 0, NEW b \in BOOLEAN, s.InBackground => b
  PROVE  LET r == KernelExit([s EXCEPT !.InBackground = b])
         IN  Goes(s, r) /\ r.cpu = s.cpu /\ r.nested = s.nested - 1
<1>. DEFINE m == [s EXCEPT !.InBackground = b]
            n == IRQsema(s)
            r == KernelExit(m)
<1>1. s \in Workspace /\ FramesInv(s)
  BY DEF Inv, Sound
<1>2. /\ m \in Workspace /\ m.frames = s.frames /\ m.nested = s.nested
      /\ m.ThreadTable = s.ThreadTable /\ m.thread = s.thread
      /\ m.PriorityTable = s.PriorityTable /\ m.Context = s.Context /\ m.cpu = s.cpu
      /\ m.Priority = s.Priority /\ m.fault = s.fault /\ m.NTicks = s.NTicks
      /\ m.LastKnownIRQsema = s.LastKnownIRQsema /\ m.InBackground = b
  BY <1>1 DEF Workspace
<1>. HIDE DEF m
<1>3. /\ n \in Nat /\ s.LastKnownIRQsema \in Nat /\ s.nested \in 0 .. MaxNesting
      /\ s.frames \in Seq(Frame) /\ Len(s.frames) = n /\ \A d \in 1 .. n : s.frames[d] \in Frame
  BY <1>1, Fields DEF IRQsema
<1>4. s.nested = n - s.LastKnownIRQsema
  BY <1>1 DEF FramesInv
<1>5. MaxNesting \in Nat
  BY Parameters
<1>6. IRQsema(m) = n
  BY <1>2 DEF IRQsema
<1>. HIDE DEF n
<1>7. n \in s.LastKnownIRQsema + 1 .. n /\ n - 1 \in Nat /\ s.nested - 1 \in 0 .. MaxNesting
      /\ n > 0 /\ n - 1 <= n
  BY <1>3, <1>4, <1>5
<1>8. ~s.frames[n].resumed
  BY <1>1, <1>7 DEF FramesInv, n
<1>. DEFINE frames == SubSeq(s.frames, 1, n - 1)
<1>9. frames \in Seq(Frame) /\ Len(frames) = n - 1 /\ \A d \in 1 .. n - 1 : frames[d] = s.frames[d]
  <2>1. 1 \in Nat /\ \A d \in 1 .. n - 1 : s.frames[d] \in Frame
    BY <1>3, <1>7
  <2>2. /\ SubSeq(s.frames, 1, n - 1) \in Seq(Frame)
        /\ Len(SubSeq(s.frames, 1, n - 1)) = IF 1 <= n - 1 THEN n - 1 - 1 + 1 ELSE 0
        /\ \A d \in 1 .. n - 1 - 1 + 1 : SubSeq(s.frames, 1, n - 1)[d] = s.frames[1 + d - 1]
    BY <1>3, <1>7, <2>1, SubSeqProperties
  <2>3. n - 1 - 1 + 1 = n - 1 /\ (IF 1 <= n - 1 THEN n - 1 - 1 + 1 ELSE 0) = n - 1
    BY <1>3, <1>7
  <2>4. \A d \in 1 .. n - 1 : 1 + d - 1 = d
    OBVIOUS
  <2>. QED
    BY <2>2, <2>3, <2>4
<1>10. r = [m EXCEPT !.frames = frames, !.nested = s.nested - 1]
  BY <1>2, <1>6, <1>8 DEF KernelExit
<1>. HIDE DEF frames, r
<1>11. /\ r \in Workspace /\ r.frames = frames /\ r.nested = s.nested - 1
       /\ r.ThreadTable = s.ThreadTable /\ r.thread = s.thread
       /\ r.PriorityTable = s.PriorityTable /\ r.Context = s.Context /\ r.cpu = s.cpu
       /\ r.Priority = s.Priority /\ r.fault = s.fault /\ r.NTicks = s.NTicks
       /\ r.LastKnownIRQsema = s.LastKnownIRQsema /\ r.InBackground = b
  BY <1>2, <1>7, <1>9, <1>10 DEF Workspace
<1>12. IRQsema(r) = n - 1
  BY <1>9, <1>11 DEF IRQsema
<1>13. FramesInv(r)
  <2>1. r.nested = IRQsema(r) - r.LastKnownIRQsema
    BY <1>3, <1>4, <1>11, <1>12
  <2>2. ASSUME NEW d \in s.LastKnownIRQsema + 1 .. n - 1
        PROVE  /\ ~r.frames[d].resumed
               /\ d = s.LastKnownIRQsema + 1 => r.frames[d].owner = s.cpu
    <3>1. d \in s.LastKnownIRQsema + 1 .. n /\ d \in 1 .. n - 1
      BY <1>3, <1>7
    <3>2. /\ ~s.frames[d].resumed
          /\ d = s.LastKnownIRQsema + 1 => s.frames[d].owner = s.cpu
      BY <1>1, <3>1 DEF FramesInv, n
    <3>. QED
      BY <1>9, <1>11, <3>1, <3>2
  <2>. QED
    BY <1>11, <1>12, <2>1, <2>2 DEF FramesInv
<1>14. \A d \in 1 .. s.LastKnownIRQsema : r.frames[d] = s.frames[d]
  <2>. SUFFICES ASSUME NEW d \in 1 .. s.LastKnownIRQsema PROVE r.frames[d] = s.frames[d]
    OBVIOUS
  <2>1. d \in 1 .. n - 1
    BY <1>3, <1>7
  <2>. QED
    BY <1>9, <1>11, <2>1
<1>15. Inv(r) /\ KeepsStopped(s, r) /\ Registered(r) = Registered(s)
  <2>1. SameThreads(s, r)
    BY <1>11 DEF SameThreads
  <2>. QED
    BY <1>11, <1>13, <1>14, <2>1, StackInv
<1>16. Goes(s, r)
  BY <1>11, <1>15 DEF Goes, PollwordSet
<1>. QED
  BY <1>11, <1>16 DEF r, m

-----------------------------------------------------------------------------
\* Switching.

\* A thread has given way, and nothing runs.
Gave(s) == Idle(s) /\ s.Context = -1 /\ (FixedPriorities => RanLast(s))

\* Thread i can be the next of priority q with nothing of that priority or above it left
\* in the middle of its work.
Fits(s, q, i) ==
  \A t \in Busy(s) : /\ s.thread[t].priority <= q
                     /\ s.thread[t].priority = q => Index(s, t) = i

\* What is found in a scan of everything fits.
LEMMA FoundFits ==
  ASSUME NEW s, Sound(s), RanLast(s), NEW q, NEW i, Found(s, q, i),
         \A t \in Busy(s) : s.thread[t].priority <= q
  PROVE  Fits(s, q, i)
<1>1. s \in Workspace /\ TableInv(s)
  BY DEF Sound
<1>2. ASSUME NEW t \in Busy(s), s.thread[t].priority = q
      PROVE  Index(s, t) = i
  <2>1. s.PriorityTable.last[q] = Index(s, t)
    BY <1>2 DEF RanLast
  <2>2. t \in Registered(s) /\ MidFlight(s.thread[t])
    BY DEF Busy
  <2>3. s.ThreadTable[s.PriorityTable.last[q] + 1] = t
    BY <1>1, <2>1, <2>2, TableFacts
  <2>. QED
    BY <1>2, <2>1, <2>2, <2>3 DEF Found
<1>. QED
  BY <1>2 DEF Fits

\* What switch_to_thread writes down before it switches.
Noted(s, i, q) ==
  [[s EXCEPT !.InBackground = TRUE] EXCEPT
     !.PriorityTable.last[q] = i, !.Context = i, !.Priority = q, !.LastKnownIRQsema = IRQsema(s)]

NotedTable(pt, i, q) == [pt EXCEPT !.last = [pt.last EXCEPT ![q] = i]]

\* Only q's thread that ran last is another.
LastNoted(s, i, q, r) ==
  /\ r.PriorityTable.next = s.PriorityTable.next
  /\ r.PriorityTable.usage = s.PriorityTable.usage
  /\ r.PriorityTable.last[q] = i
  /\ \A p \in Priorities \ {q} : r.PriorityTable.last[p] = s.PriorityTable.last[p]

LEMMA NotedFields ==
  ASSUME NEW s \in Workspace, NEW i \in Nat, NEW q \in Priorities
  PROVE  LET r == Noted(s, i, q)
         IN  /\ r \in Workspace /\ r.thread = s.thread /\ r.ThreadTable = s.ThreadTable
             /\ LastNoted(s, i, q, r) /\ r.PriorityTable = NotedTable(s.PriorityTable, i, q)
             /\ r.Context = i /\ r.InBackground /\ r.NTicks = s.NTicks
             /\ r.LastKnownIRQsema = IRQsema(s) /\ r.Priority = q /\ r.frames = s.frames
             /\ r.cpu = s.cpu /\ r.nested = s.nested /\ r.fault = s.fault
<1>. DEFINE pt == NotedTable(s.PriorityTable, i, q)
            s1 == [s EXCEPT !.InBackground = TRUE]
            r == Noted(s, i, q)
<1>1. s.PriorityTable \in Table /\ IRQsema(s) \in Nat /\ i \in Int
  BY Fields
<1>2. /\ pt \in Table /\ pt.next = s.PriorityTable.next /\ pt.usage = s.PriorityTable.usage
      /\ pt.last = [s.PriorityTable.last EXCEPT ![q] = i]
  BY <1>1 DEF Table, NotedTable
<1>3. /\ s1 \in Workspace /\ s1.thread = s.thread /\ s1.ThreadTable = s.ThreadTable
      /\ s1.PriorityTable = s.PriorityTable /\ s1.InBackground = TRUE
      /\ s1.NTicks = s.NTicks /\ s1.frames = s.frames
      /\ s1.cpu = s.cpu /\ s1.nested = s.nested /\ s1.fault = s.fault
  BY DEF Workspace
<1>4. r = [s1 EXCEPT !.PriorityTable.last[q] = i, !.Context = i, !.Priority = q,
                     !.LastKnownIRQsema = IRQsema(s)]
  BY DEF Noted
<1>. HIDE DEF s1, r
<1>5. r = [s1 EXCEPT !.PriorityTable = pt, !.Context = i, !.Priority = q,
                     !.LastKnownIRQsema = IRQsema(s)]
  BY <1>3, <1>4, Zenon DEF NotedTable
<1>. HIDE DEF pt
<1>6. /\ r \in Workspace /\ r.thread = s1.thread /\ r.ThreadTable = s1.ThreadTable
      /\ r.PriorityTable = pt /\ r.Context = i /\ r.InBackground = s1.InBackground
      /\ r.NTicks = s1.NTicks /\ r.LastKnownIRQsema = IRQsema(s) /\ r.Priority = q
      /\ r.frames = s1.frames /\ r.cpu = s1.cpu /\ r.nested = s1.nested /\ r.fault = s1.fault
  BY <1>1, <1>2, <1>3, <1>5 DEF Workspace
<1>. QED
  BY <1>1, <1>2, <1>3, <1>6 DEF r, pt, LastNoted, Table

LEMMA SwitchIs ==
  ASSUME NEW s, NEW i, NEW q
  PROVE  SwitchToThread(s, i, q) =
           IF s.Context = i THEN KernelExit([s EXCEPT !.InBackground = TRUE])
           ELSE ResumeThread(IF s.Context = -1 THEN Noted(s, i, q)
                             ELSE PreEmpt(Noted(s, i, q), s.Context), s.ThreadTable[i + 1])
BY DEF SwitchToThread, Noted

\* In a table that notes that i, which fits, runs at q, what is busy ran last still.
LEMMA RanLastKept ==
  ASSUME NEW s, Sound(s), NEW r, r.ThreadTable = s.ThreadTable, NEW q, NEW i,
         RanLast(s), Fits(s, q, i), Busy(r) \subseteq Busy(s),
         \A t \in Registered(s) : r.thread[t].priority = s.thread[t].priority,
         LastNoted(s, i, q, r)
  PROVE  RanLast(r)
<1>1. \A t : Index(r, t) = Index(s, t)
  BY TablesRead
<1>2. ASSUME NEW t \in Busy(r)
      PROVE  r.PriorityTable.last[r.thread[t].priority] = Index(r, t)
  <2>1. t \in Busy(s) /\ t \in Registered(s) /\ t \in Registered(s) \ {FG}
    BY DEF Busy
  <2>2. s.thread[t].priority \in Priorities
    BY <2>1, PriorityInUse
  <2>3. s.PriorityTable.last[s.thread[t].priority] = Index(s, t)
    BY <2>1 DEF RanLast
  <2>4. s.thread[t].priority = q => Index(s, t) = i
    BY <2>1 DEF Fits
  <2>. QED
    BY <1>1, <2>1, <2>2, <2>3, <2>4 DEF LastNoted
<1>. QED
  BY <1>2 DEF RanLast

\* From a workspace in which nothing runs.
LEMMA SwitchGave ==
  ASSUME NEW s, Gave(s), NEW q \in InUse(s.PriorityTable.usage), NEW i \in 0 .. NThreads(s) - 1,
         s.thread[s.ThreadTable[i + 1]].priority = q, ReadyThread(s, s.ThreadTable[i + 1]),
         FixedPriorities => Fits(s, q, i)
  PROVE  LET r == SwitchToThread(s, i, q)
         IN  Goes(s, r) /\ r.cpu = s.ThreadTable[i + 1]
<1>. DEFINE n == Noted(s, i, q)
            u == s.ThreadTable[i + 1]
<1>1. s \in Workspace /\ Sound(s) /\ TableInv(s) /\ s.fault = "none" /\ q \in Priorities \ {0}
  BY DEF Gave, Idle, Sound, InUse
<1>2. NThreads(s) \in Nat /\ i \in Nat /\ i # -1 /\ s.Context = -1
  BY <1>1, Fields DEF Gave
<1>3. SwitchToThread(s, i, q) = ResumeThread(n, u)
  BY <1>2, SwitchIs
<1>4. /\ n \in Workspace /\ n.thread = s.thread /\ n.ThreadTable = s.ThreadTable
      /\ LastNoted(s, i, q, n)
      /\ n.Context = i /\ n.InBackground /\ n.NTicks = s.NTicks
      /\ n.LastKnownIRQsema = IRQsema(s) /\ n.Priority = q /\ n.frames = s.frames
      /\ n.fault = s.fault
  <2>1. s \in Workspace /\ i \in Nat /\ q \in Priorities
    BY <1>1, <1>2
  <2>. QED
    BY <2>1, NotedFields
<1>. HIDE DEF n
<1>5. NThreads(n) = NThreads(s) /\ Registered(n) = Registered(s) /\ \A t : Index(n, t) = Index(s, t)
  BY <1>4, TablesRead
<1>7. SameTables(s, n)
  <2>1. \A p \in Priorities : p # q => n.PriorityTable.last[p] = s.PriorityTable.last[p]
    BY <1>4 DEF LastNoted
  <2>2. n.PriorityTable.last[q] = i /\ i < NThreads(s)
    BY <1>2, <1>4 DEF LastNoted
  <2>. QED
    BY <1>4, <2>1, <2>2 DEF SameTables, LastNoted
<1>8. Idle(n)
  <2>1. Sound(n)
    <3>1. \A t \in Registered(s) : SaneThread(n, t)
      BY <1>1, <1>4 DEF Sound, SaneThread
    <3>. QED
      BY <1>1, <1>4, <1>7, <3>1, SoundKept
  <2>2. n.LastKnownIRQsema = IRQsema(n)
    BY <1>4 DEF IRQsema
  <2>3. ASSUME NEW t \in Registered(n)
        PROVE  Asleep(n, t)
    <3>1. Asleep(s, t) /\ s.LastKnownIRQsema = IRQsema(s)
      BY <1>5 DEF Gave, Idle
    <3>. QED
      BY <1>4, <3>1 DEF Asleep
  <2>. QED
    BY <2>1, <2>2, <2>3 DEF Idle
<1>9. u \in Registered(s) /\ u \in Thread /\ Index(s, u) = i /\ u # FG
  BY <1>1, TableFacts DEF TableInv
<1>10. Busy(n) = Busy(s)
  BY <1>4, <1>5 DEF Busy
<1>11. ASSUME FixedPriorities
       PROVE  /\ RanLast(n) /\ n.Priority = n.thread[u].priority
              /\ n.PriorityTable.last[n.Priority] = n.Context
              /\ \A t \in Busy(n) : n.thread[t].priority <= n.Priority
  <2>1. RanLast(s) /\ Fits(s, q, i)
    BY <1>11 DEF Gave
  <2>2. RanLast(n)
    BY <1>1, <1>4, <1>10, <2>1, RanLastKept
  <2>3. n.PriorityTable.last[n.Priority] = n.Context
    BY <1>4 DEF LastNoted
  <2>. QED
    BY <1>4, <1>10, <2>1, <2>2, <2>3 DEF Fits
<1>12. n.thread[u].pollword \notin {"Aborted", "CollateralDamage"}
  BY <1>4, ReadyFacts
<1>13. /\ n.Context \in 0 .. NThreads(n) - 1 /\ u = n.ThreadTable[n.Context + 1]
       /\ u # FG /\ n.InBackground
  BY <1>4, <1>5, <1>9
<1>. HIDE DEF u
<1>14. Goes(n, ResumeThread(n, u)) /\ ResumeThread(n, u).cpu = u
  BY <1>8, <1>11, <1>12, <1>13, ResumeInv
<1>15. Goes(s, ResumeThread(n, u))
  BY <1>4, <1>5, <1>14 DEF Goes, KeepsStopped, Stopped, PollwordSet
<1>. QED
  BY <1>3, <1>14, <1>15 DEF u

\* A thread's state, the current thread and the last known frame are others.
Put(s, th, c, lk) == [s EXCEPT !.thread = th, !.Context = c, !.LastKnownIRQsema = lk]

LEMMA PutFields ==
  ASSUME NEW s \in Workspace, NEW th \in [Thread -> ThreadInfo], NEW c \in Int, NEW lk \in Nat
  PROVE  LET r == Put(s, th, c, lk)
         IN  /\ r \in Workspace /\ r.thread = th
             /\ r.ThreadTable = s.ThreadTable /\ r.PriorityTable = s.PriorityTable
             /\ r.Context = c /\ r.InBackground = s.InBackground
             /\ r.NTicks = s.NTicks /\ r.Priority = s.Priority /\ r.fault = s.fault
             /\ r.cpu = s.cpu /\ r.nested = s.nested
             /\ r.frames = s.frames /\ r.LastKnownIRQsema = lk
BY DEF Workspace, Put

LEMMA WorkspacesEqual ==
  ASSUME NEW s \in Workspace, NEW r \in Workspace,
         r.thread = s.thread, r.ThreadTable = s.ThreadTable, r.PriorityTable = s.PriorityTable,
         r.Context = s.Context, r.InBackground = s.InBackground,
         r.NTicks = s.NTicks, r.Priority = s.Priority, r.fault = s.fault,
         r.cpu = s.cpu, r.nested = s.nested,
         r.frames = s.frames, r.LastKnownIRQsema = s.LastKnownIRQsema
  PROVE  r = s
<1>. DEFINE Whole(x) ==
       [ThreadTable |-> x.ThreadTable, thread |-> x.thread, PriorityTable |-> x.PriorityTable,
        Context |-> x.Context, InBackground |-> x.InBackground, NTicks |-> x.NTicks,
        LastKnownIRQsema |-> x.LastKnownIRQsema, Priority |-> x.Priority,
        frames |-> x.frames, cpu |-> x.cpu, nested |-> x.nested, fault |-> x.fault]
<1>1. s = Whole(s)
  BY DEF Workspace
<1>2. r = Whole(r)
  BY DEF Workspace
<1>3. Whole(r) = Whole(s)
  OBVIOUS
<1>. HIDE DEF Whole
<1>. QED
  BY <1>1, <1>2, <1>3

\* A thread's state, when it has been pre-empted and its registers are in frame f.
Suspended(i, f) ==
  [i EXCEPT !.pollword = "PreEmpted", !.timeout_flag = FALSE, !.recover = TRUE, !.stack_frame = f]

LEMMA SuspendedFields ==
  ASSUME NEW i \in ThreadInfo, NEW f \in Nat
  PROVE  /\ Suspended(i, f) \in ThreadInfo /\ Suspended(i, f).pollword = "PreEmpted"
         /\ Suspended(i, f).timeout_flag = FALSE /\ Suspended(i, f).recover = TRUE
         /\ Suspended(i, f).priority = i.priority /\ Suspended(i, f).stack_frame = f
BY DEF Suspended, ThreadInfo, Pollword

\* The interrupted thread has given way.
Suspend(s) ==
  Put(s, [s.thread EXCEPT ![s.cpu] = Suspended(@, IRQsema(s))], -1, IRQsema(s))

LEMMA SuspendFacts ==
  ASSUME NEW s, Inv(s), s.nested = 1
  PROVE  LET p == Suspend(s)
         IN  /\ p \in Workspace /\ Gave(p)
             /\ p.thread = [s.thread EXCEPT ![s.cpu] = Suspended(@, IRQsema(s))]
             /\ p.ThreadTable = s.ThreadTable /\ p.PriorityTable = s.PriorityTable
             /\ p.NTicks = s.NTicks /\ IRQsema(p) = IRQsema(s) /\ p.frames = s.frames
             /\ p.cpu = s.cpu /\ p.nested = s.nested /\ p.fault = s.fault
             /\ \A t \in Registered(s) :
                  /\ p.thread[t].priority = s.thread[t].priority
                  /\ t # s.cpu => p.thread[t] = s.thread[t]
                  /\ MidFlight(p.thread[t]) /\ t # FG => MidFlight(s.thread[t])
             /\ \A r : Goes(p, r) => Goes(s, r)
<1>. DEFINE t == s.cpu
            n == IRQsema(s)
            th == [s.thread EXCEPT ![t] = Suspended(@, n)]
            p == Suspend(s)
<1>1. /\ s \in Workspace /\ Sound(s) /\ RunnerInv(s) /\ FramesInv(s) /\ TableInv(s)
      /\ s.fault = "none" /\ \A x \in Registered(s) : SaneThread(s, x)
  BY DEF Inv, Sound
<1>2. /\ n \in Nat /\ s.thread \in [Thread -> ThreadInfo] /\ t \in Thread
      /\ s.LastKnownIRQsema \in Nat /\ s.frames \in Seq(Frame) /\ s.thread[t] \in ThreadInfo
      /\ Registered(s) \subseteq Thread /\ \A d \in 1 .. n : s.frames[d] \in Frame
  BY <1>1, Fields
<1>3. n = s.LastKnownIRQsema + 1 /\ n \in 1 .. n
  BY <1>1, <1>2 DEF FramesInv
<1>4. s.frames[n] = [owner |-> t, resumed |-> FALSE]
  <2>1. s.frames[n] \in Frame /\ ~s.frames[n].resumed /\ s.frames[n].owner = t
    <3>1. n \in s.LastKnownIRQsema + 1 .. n
      BY <1>2, <1>3
    <3>. QED
      BY <1>1, <1>2, <1>3, <3>1 DEF FramesInv
  <2>. HIDE DEF n, t
  <2>. QED
    BY <2>1 DEF Frame
<1>5. /\ th \in [Thread -> ThreadInfo] /\ th[t] = Suspended(s.thread[t], n)
      /\ \A x \in Registered(s) : x # t => th[x] = s.thread[x]
  <2>. HIDE DEF n, t
  <2>. QED
    BY <1>2, SuspendedFields
<1>6. /\ th[t].pollword = "PreEmpted" /\ th[t].timeout_flag = FALSE /\ th[t].recover = TRUE
      /\ th[t].stack_frame = n /\ th[t].priority = s.thread[t].priority
  <2>. DEFINE i == s.thread[t]
              j == Suspended(i, n)
  <2>. HIDE DEF n, t, th
  <2>1. i \in ThreadInfo /\ n \in Nat /\ th[t] = j
    BY <1>2, <1>5
  <2>. HIDE DEF i
  <2>2. /\ j.pollword = "PreEmpted" /\ j.timeout_flag = FALSE /\ j.recover = TRUE
        /\ j.stack_frame = n /\ j.priority = i.priority
    BY <2>1, SuspendedFields
  <2>. HIDE DEF j
  <2>. QED
    BY <2>1, <2>2 DEF i
<1>7. /\ p \in Workspace /\ p.thread = th
      /\ p.ThreadTable = s.ThreadTable /\ p.PriorityTable = s.PriorityTable
      /\ p.Context = -1 /\ p.NTicks = s.NTicks /\ p.fault = s.fault /\ p.frames = s.frames
      /\ p.cpu = s.cpu /\ p.nested = s.nested /\ p.LastKnownIRQsema = n
  <2>1. p = Put(s, th, -1, n) /\ -1 \in Int
    BY DEF Suspend
  <2>. HIDE DEF p, th, n
  <2>. QED
    BY <1>1, <1>2, <1>5, <2>1, PutFields
<1>. HIDE DEF p, th
<1>8. NThreads(p) = NThreads(s) /\ Registered(p) = Registered(s) /\ \A x : Index(p, x) = Index(s, x)
  BY <1>7, TablesRead
<1>9. IRQsema(p) = n
  BY <1>7 DEF IRQsema
<1>10. t # FG => s.thread[t].pollword = "Executing"
  BY <1>1 DEF RunnerInv
<1>. HIDE DEF n, t
<1>11. \A x \in Registered(s) : /\ p.thread[x].priority = s.thread[x].priority
                                /\ x # t => p.thread[x] = s.thread[x]
                                /\ MidFlight(p.thread[x]) /\ x # FG => MidFlight(s.thread[x])
  BY <1>5, <1>6, <1>7, <1>10 DEF MidFlight
<1>12. Sound(p)
  <2>1. SameTables(s, p)
    BY <1>7, <1>11 DEF SameTables
  <2>2. ASSUME NEW x \in Registered(s)
        PROVE  SaneThread(p, x)
    BY <1>1, <1>5, <1>6, <1>7 DEF SaneThread
  <2>. QED
    BY <1>1, <1>7, <2>1, <2>2, SoundKept
<1>13. ASSUME NEW x \in Registered(s)
       PROVE  Asleep(p, x)
  <2>1. CASE x = t
    BY <1>3, <1>4, <1>6, <1>7, <2>1 DEF Asleep
  <2>2. CASE x # t
    <3>1. Asleep(s, x) /\ p.thread[x] = s.thread[x]
      BY <1>5, <1>7, <1>13, <2>2 DEF Inv, t
    <3>2. 1 .. s.LastKnownIRQsema \subseteq 1 .. n
      BY <1>2, <1>3
    <3>. QED
      BY <1>7, <3>1, <3>2 DEF Asleep
  <2>. QED
    BY <2>1, <2>2
<1>14. Busy(p) \subseteq Busy(s)
  BY <1>8, <1>11 DEF Busy
<1>15. FixedPriorities => RanLast(p)
  <2>1. \A x \in Busy(p) : x \in Registered(s)
    BY <1>8 DEF Busy
  <2>. QED
    BY <1>7, <1>8, <1>11, <1>14, <2>1 DEF RanLast, Inv, PriorityInv
<1>16. Gave(p)
  BY <1>7, <1>8, <1>9, <1>12, <1>13, <1>15 DEF Gave, Idle
<1>17. ASSUME NEW r, Goes(p, r)
       PROVE  Goes(s, r)
  <2>1. \A x \in Registered(s) : x # FG /\ PollwordSet(p, x) => PollwordSet(s, x)
    BY <1>10, <1>11 DEF PollwordSet
  <2>2. Stopped(s) \subseteq Stopped(p)
    <3>1. t \notin Stopped(s)
      BY <1>1, <1>10 DEF Stopped, SaneThread
    <3>. QED
      BY <1>8, <1>11, <3>1 DEF Stopped
  <2>. QED
    BY <1>7, <1>8, <1>11, <1>17, <2>1, <2>2 DEF Goes, KeepsStopped
<1>. QED
  BY <1>7, <1>9, <1>11, <1>16, <1>17 DEF p, n, t, th

\* PreEmpt, once the switch is noted, does what Suspend does before it.
LEMMA PreEmptIs ==
  ASSUME NEW s, Inv(s), s.nested = 1, NEW q \in Priorities, NEW i \in 0 .. NThreads(s) - 1
  PROVE  PreEmpt(Noted(s, i, q), s.Context) = Noted(Suspend(s), i, q)
<1>. DEFINE p == Suspend(s)
            n == Noted(s, i, q)
            m == Noted(p, i, q)
            th == [s.thread EXCEPT ![s.cpu] = Suspended(@, IRQsema(s))]
            e == PreEmpt(n, s.Context)
<1>1. /\ s \in Workspace /\ RunnerInv(s) /\ s.Context \in 0 .. NThreads(s) - 1
      /\ s.ThreadTable[s.Context + 1] = s.cpu
  BY DEF Inv, Sound, RunnerInv
<1>2. i \in Nat /\ i \in Int /\ IRQsema(s) \in Nat /\ s.thread \in [Thread -> ThreadInfo]
      /\ s.cpu \in Thread /\ s.thread[s.cpu] \in ThreadInfo
  BY <1>1, Fields
<1>3. /\ p \in Workspace /\ p.thread = th
      /\ p.ThreadTable = s.ThreadTable /\ p.PriorityTable = s.PriorityTable
      /\ p.NTicks = s.NTicks /\ IRQsema(p) = IRQsema(s) /\ p.frames = s.frames
      /\ p.cpu = s.cpu /\ p.nested = s.nested /\ p.fault = s.fault
  BY SuspendFacts
<1>. HIDE DEF p
<1>4. /\ n \in Workspace /\ n.thread = s.thread /\ n.ThreadTable = s.ThreadTable
      /\ n.PriorityTable = NotedTable(s.PriorityTable, i, q)
      /\ n.Context = i /\ n.InBackground /\ n.NTicks = s.NTicks
      /\ n.LastKnownIRQsema = IRQsema(s) /\ n.Priority = q /\ n.frames = s.frames
      /\ n.cpu = s.cpu /\ n.nested = s.nested /\ n.fault = s.fault
  BY <1>1, <1>2, NotedFields
<1>5. /\ m \in Workspace /\ m.thread = p.thread /\ m.ThreadTable = p.ThreadTable
      /\ m.PriorityTable = NotedTable(p.PriorityTable, i, q)
      /\ m.Context = i /\ m.InBackground /\ m.NTicks = p.NTicks
      /\ m.LastKnownIRQsema = IRQsema(p) /\ m.Priority = q /\ m.frames = p.frames
      /\ m.cpu = p.cpu /\ m.nested = p.nested /\ m.fault = p.fault
  BY <1>2, <1>3, NotedFields
<1>. HIDE DEF n, m
<1>6. NThreads(n) = NThreads(s) /\ IRQsema(n) = IRQsema(s)
  BY <1>4 DEF NThreads, IRQsema
<1>7. e = [n EXCEPT !.thread[s.cpu] = Suspended(@, IRQsema(s))]
  BY <1>1, <1>4, <1>6 DEF PreEmpt, Suspended
<1>. HIDE DEF e
<1>8. e = [n EXCEPT !.thread = th]
  BY <1>4, <1>7, Zenon
<1>9. th \in [Thread -> ThreadInfo]
  <2>1. Suspended(s.thread[s.cpu], IRQsema(s)) \in ThreadInfo
    BY <1>2, SuspendedFields
  <2>. QED
    BY <1>2, <2>1
<1>. HIDE DEF th
<1>10. e = Put(n, th, i, IRQsema(s))
  <2>1. n = Put(n, n.thread, n.Context, n.LastKnownIRQsema)
    BY <1>4 DEF Workspace, Put
  <2>. QED
    BY <1>4, <1>8, <1>9 DEF Put, Workspace
<1>11. /\ e \in Workspace /\ e.thread = th /\ e.ThreadTable = n.ThreadTable
       /\ e.PriorityTable = n.PriorityTable
       /\ e.Context = i /\ e.InBackground = n.InBackground /\ e.NTicks = n.NTicks
       /\ e.LastKnownIRQsema = IRQsema(s) /\ e.Priority = n.Priority /\ e.frames = n.frames
       /\ e.cpu = n.cpu /\ e.nested = n.nested /\ e.fault = n.fault
  <2>. DEFINE k == IRQsema(s)
  <2>1. n \in Workspace /\ th \in [Thread -> ThreadInfo] /\ i \in Int /\ k \in Nat
        /\ e = Put(n, th, i, k)
    BY <1>2, <1>4, <1>9, <1>10
  <2>2. /\ e \in Workspace /\ e.thread = th /\ e.ThreadTable = n.ThreadTable
        /\ e.PriorityTable = n.PriorityTable
        /\ e.Context = i /\ e.InBackground = n.InBackground /\ e.NTicks = n.NTicks
        /\ e.LastKnownIRQsema = k /\ e.Priority = n.Priority /\ e.frames = n.frames
        /\ e.cpu = n.cpu /\ e.nested = n.nested /\ e.fault = n.fault
    <3>. HIDE DEF k
    <3>. QED
      BY <2>1, PutFields
  <2>. QED
    BY <2>2
<1>12. e.InBackground = m.InBackground
  <2>1. n.InBackground \in BOOLEAN /\ m.InBackground \in BOOLEAN
    BY <1>4, <1>5, Fields
  <2>. QED
    BY <1>4, <1>5, <1>11, <2>1
<1>13. /\ e.thread = m.thread /\ e.ThreadTable = m.ThreadTable
       /\ e.PriorityTable = m.PriorityTable /\ e.Context = m.Context
       /\ e.NTicks = m.NTicks /\ e.LastKnownIRQsema = m.LastKnownIRQsema
       /\ e.Priority = m.Priority /\ e.frames = m.frames
       /\ e.cpu = m.cpu /\ e.nested = m.nested /\ e.fault = m.fault
  BY <1>3, <1>4, <1>5, <1>11
<1>14. e = m
  BY <1>5, <1>11, <1>12, <1>13, WorkspacesEqual
<1>. QED
  BY <1>14 DEF e, m, n, p

\* At the end of the only interrupt handler.
LEMMA SwitchExit ==
  ASSUME NEW s, Inv(s), s.nested = 1,
         NEW q \in InUse(s.PriorityTable.usage), NEW i \in 0 .. NThreads(s) - 1,
         Found(s, q, i), FixedPriorities => Fits(s, q, i)
  PROVE  LET r == SwitchToThread(s, i, q)
         IN  Goes(s, r) /\ r.nested = 0 /\ r.cpu = s.ThreadTable[i + 1]
<1>. DEFINE u == s.ThreadTable[i + 1]
            p == Suspend(s)
            r == SwitchToThread(s, i, q)
<1>1. /\ s \in Workspace /\ Sound(s) /\ TableInv(s)
      /\ s.Context \in 0 .. NThreads(s) - 1 /\ s.ThreadTable[s.Context + 1] = s.cpu
      /\ q \in Priorities /\ NThreads(s) \in Nat
  BY Fields DEF Inv, Sound, RunnerInv, InUse
<1>2. s.Context # -1 /\ i # -1
  BY <1>1
<1>3. CASE s.Context = i
  <2>1. r = KernelExit([s EXCEPT !.InBackground = TRUE])
    BY <1>3, SwitchIs
  <2>2. Goes(s, r) /\ r.cpu = s.cpu /\ r.nested = s.nested - 1
    <3>1. s.nested > 0 /\ TRUE \in BOOLEAN
      OBVIOUS
    <3>. HIDE DEF r
    <3>. QED
      BY <2>1, <3>1, KernelExitInv
  <2>3. s.nested - 1 = 0
    OBVIOUS
  <2>. QED
    BY <1>1, <1>3, <2>2, <2>3
<1>4. CASE s.Context # i
  <2>1. r = ResumeThread(Noted(p, i, q), u)
    BY <1>1, <1>2, <1>4, SwitchIs, PreEmptIs
  <2>2. /\ p \in Workspace /\ Gave(p)
        /\ p.ThreadTable = s.ThreadTable /\ p.PriorityTable = s.PriorityTable
        /\ p.NTicks = s.NTicks
        /\ \A t \in Registered(s) :
             /\ p.thread[t].priority = s.thread[t].priority
             /\ t # s.cpu => p.thread[t] = s.thread[t]
             /\ MidFlight(p.thread[t]) /\ t # FG => MidFlight(s.thread[t])
        /\ \A x : Goes(p, x) => Goes(s, x)
    BY SuspendFacts
  <2>. HIDE DEF p
  <2>3. /\ NThreads(p) = NThreads(s) /\ Registered(p) = Registered(s)
        /\ \A x : Index(p, x) = Index(s, x)
    BY <2>2, TablesRead
  <2>4. u \in Registered(s) /\ u # s.cpu
    BY <1>1, <1>4, TableFacts
  <2>5. p.thread[u].priority = q /\ ReadyThread(p, u)
    BY <2>2, <2>4 DEF Found, ReadyThread, PollwordSet
  <2>6. FixedPriorities => Fits(p, q, i)
    <3>1. \A t \in Busy(p) : t \in Busy(s) /\ t \in Registered(s)
      BY <2>2, <2>3 DEF Busy
    <3>. QED
      BY <2>2, <2>3, <3>1 DEF Fits
  <2>7. SwitchToThread(p, i, q) = ResumeThread(Noted(p, i, q), u)
    BY <1>2, <2>2, SwitchIs DEF Gave
  <2>8. Goes(p, r) /\ r.cpu = u
    BY <2>1, <2>2, <2>3, <2>5, <2>6, <2>7, SwitchGave
  <2>9. r.nested = 0
    BY <2>1 DEF ResumeThread
  <2>. QED
    BY <2>2, <2>8, <2>9
<1>. QED
  BY <1>3, <1>4

-----------------------------------------------------------------------------
\* The foreground goes on, and the scans.

Flat(s) ==
  [[s EXCEPT !.InBackground = FALSE, !.Context = 0, !.Priority = 0]
     EXCEPT !.frames = <<>>, !.LastKnownIRQsema = 0, !.cpu = FG, !.nested = 0]

LEMMA FlatFields ==
  ASSUME NEW s \in Workspace
  PROVE  LET r == Flat(s)
         IN  /\ r \in Workspace /\ r.thread = s.thread
             /\ r.ThreadTable = s.ThreadTable /\ r.PriorityTable = s.PriorityTable
             /\ r.Context = 0 /\ r.NTicks = s.NTicks /\ r.Priority = 0 /\ r.fault = s.fault
             /\ r.cpu = FG /\ r.nested = 0 /\ IRQsema(r) = 0 /\ r.LastKnownIRQsema = 0
<1>. DEFINE s1 == [s EXCEPT !.InBackground = FALSE, !.Context = 0, !.Priority = 0]
            r == [s1 EXCEPT !.frames = <<>>, !.LastKnownIRQsema = 0, !.cpu = FG, !.nested = 0]
<1>1. Flat(s) = r
  BY DEF Flat
<1>2. 0 \in Priorities /\ FG \in Thread /\ 0 \in 0 .. MaxNesting
      /\ FALSE \in BOOLEAN /\ 0 \in Int
  BY Numbers, Parameters
<1>3. /\ s1 \in Workspace /\ s1.thread = s.thread
      /\ s1.ThreadTable = s.ThreadTable /\ s1.PriorityTable = s.PriorityTable
      /\ s1.Context = 0 /\ s1.NTicks = s.NTicks /\ s1.Priority = 0 /\ s1.fault = s.fault
  BY <1>2 DEF Workspace
<1>. HIDE DEF s1
<1>. DEFINE e == <<>>
<1>4. e \in Seq(Frame) /\ r = [s1 EXCEPT !.frames = e, !.LastKnownIRQsema = 0, !.cpu = FG, !.nested = 0]
  OBVIOUS
<1>. HIDE DEF r, e
<1>5. /\ r \in Workspace /\ r.thread = s1.thread
      /\ r.ThreadTable = s1.ThreadTable /\ r.PriorityTable = s1.PriorityTable
      /\ r.Context = s1.Context /\ r.NTicks = s1.NTicks /\ r.Priority = s1.Priority
      /\ r.fault = s1.fault /\ r.frames = e
      /\ r.cpu = FG /\ r.nested = 0 /\ r.LastKnownIRQsema = 0
  BY <1>2, <1>3, <1>4 DEF Workspace
<1>6. IRQsema(r) = 0
  <2>1. r.frames = <<>> /\ Len(<<>>) = 0
    BY <1>5 DEF e
  <2>. QED
    BY <2>1, Zenon DEF IRQsema
<1>7. /\ r \in Workspace /\ r.thread = s.thread
      /\ r.ThreadTable = s.ThreadTable /\ r.PriorityTable = s.PriorityTable
      /\ r.Context = 0 /\ r.NTicks = s.NTicks /\ r.Priority = 0 /\ r.fault = s.fault
      /\ r.cpu = FG /\ r.nested = 0 /\ r.LastKnownIRQsema = 0
  BY <1>3, <1>5
<1>. QED
  BY <1>1, <1>6, <1>7, Zenon

\* With nothing in the middle of its work the foreground has the CPU.
LEMMA ForegroundGave ==
  ASSUME NEW s, Gave(s), Busy(s) = {}
  PROVE  Goes(s, ReturnToForeground(s)) /\ ReturnToForeground(s).cpu = FG
<1>. DEFINE f == Flat(s)
            r == ReturnToForeground(s)
            fg == s.thread[FG]
<1>1. /\ s \in Workspace /\ Sound(s) /\ TableInv(s) /\ s.fault = "none" /\ s.Context = -1
      /\ \A t \in Registered(s) : SaneThread(s, t) /\ Asleep(s, t)
      /\ s.LastKnownIRQsema = IRQsema(s)
  BY DEF Gave, Idle, Sound
<1>2. FG \in Registered(s) /\ Index(s, FG) = 0 /\ s.ThreadTable[1] = FG /\ NThreads(s) \in Nat \ {0}
  BY <1>1, TableFacts DEF TableInv
<1>3. r = IF ~MidFlight(fg) THEN ResumeThread(f, FG)
          ELSE IF fg.stack_frame \in 1 .. IRQsema(s) /\ s.frames[fg.stack_frame].owner = FG
          THEN f ELSE Fault(f, "lost frame")
  <2>1. s.Context # 0
    BY <1>1
  <2>. QED
    BY <2>1 DEF ReturnToForeground, Flat
<1>4. /\ f \in Workspace /\ f.thread = s.thread
      /\ f.ThreadTable = s.ThreadTable /\ f.PriorityTable = s.PriorityTable
      /\ f.Context = 0 /\ f.NTicks = s.NTicks /\ f.Priority = 0 /\ f.fault = s.fault
      /\ f.cpu = FG /\ f.nested = 0 /\ IRQsema(f) = 0 /\ f.LastKnownIRQsema = 0
  BY <1>1, FlatFields
<1>. HIDE DEF f, r
<1>5. NThreads(f) = NThreads(s) /\ Registered(f) = Registered(s)
  BY <1>4, TablesRead
<1>6. Sound(f)
  <2>1. SameTables(s, f)
    BY <1>4 DEF SameTables
  <2>2. \A t \in Registered(s) : SaneThread(f, t)
    BY <1>1, <1>4 DEF SaneThread
  <2>. QED
    BY <1>1, <1>4, <2>1, <2>2, SoundKept
<1>7. Busy(f) = {}
  BY <1>4, <1>5 DEF Busy
<1>8. RanLast(f)
  BY <1>7 DEF RanLast
<1>9. ASSUME NEW t \in Registered(s), t # FG \/ ~MidFlight(fg)
      PROVE  Asleep(f, t)
  <2>1. ~MidFlight(s.thread[t])
    BY <1>9 DEF Busy
  <2>2. s.thread[t].pollword # "PreEmpted" /\ Asleep(s, t)
    BY <1>1, <2>1 DEF MidFlight
  <2>. QED
    BY <1>4, <2>2 DEF Asleep
<1>10. CASE ~MidFlight(fg)
  <2>1. Idle(f)
    BY <1>4, <1>5, <1>6, <1>9, <1>10 DEF Idle
  <2>2. f.thread[FG].pollword \notin {"Aborted", "CollateralDamage"}
    BY <1>1, <1>2, <1>4 DEF SaneThread
  <2>3. f.Context \in 0 .. NThreads(f) - 1 /\ FG = f.ThreadTable[f.Context + 1]
    <3>1. 0 \in 0 .. NThreads(s) - 1 /\ 0 + 1 = 1
      BY <1>2
    <3>. QED
      BY <1>2, <1>4, <1>5, <3>1
  <2>4. Goes(f, ResumeThread(f, FG)) /\ ResumeThread(f, FG).cpu = FG
    BY <1>7, <1>8, <2>1, <2>2, <2>3, ResumeInv
  <2>5. r = ResumeThread(f, FG)
    BY <1>3, <1>10
  <2>. QED
    BY <1>4, <1>5, <2>4, <2>5 DEF Goes, KeepsStopped, Stopped, PollwordSet, r
<1>11. CASE MidFlight(fg)
  <2>1. fg.pollword = "PreEmpted"
    BY <1>1, <1>2, <1>11 DEF Asleep, MidFlight
  <2>2. fg.stack_frame \in 1 .. IRQsema(s) /\ s.frames[fg.stack_frame].owner = FG
    <3>1. Asleep(s, FG)
      BY <1>1, <1>2
    <3>2. /\ fg.stack_frame \in 1 .. IRQsema(s)
          /\ s.frames[fg.stack_frame] = [owner |-> FG, resumed |-> FALSE]
      BY <1>1, <2>1, <3>1 DEF Asleep
    <3>. HIDE DEF fg
    <3>. QED
      BY <3>2
  <2>3. r = f
    BY <1>3, <1>11, <2>2
  <2>4. RunnerInv(f)
    <3>1. 0 \in 0 .. NThreads(s) - 1 /\ 0 + 1 = 1
      BY <1>2
    <3>. QED
      BY <1>2, <1>4, <1>5, <1>7, <3>1 DEF RunnerInv
  <2>5. FramesInv(f)
    BY <1>4 DEF FramesInv
  <2>6. Inv(f)
    BY <1>4, <1>5, <1>6, <1>8, <1>9, <2>4, <2>5 DEF Inv, PriorityInv
  <2>. QED
    BY <1>4, <1>5, <2>3, <2>6 DEF Goes, KeepsStopped, Stopped, PollwordSet, r
<1>. QED
  BY <1>10, <1>11

\* What the scan of all priorities does.
LEMMA RescanGave ==
  ASSUME NEW s, Gave(s)
  PROVE  Goes(s, FullRescan(s))
<1>1. Sound(s)
  BY DEF Gave, Idle
<1>2. \A t \in Busy(s) : t \in Registered(s) \ {FG} /\ ReadyThread(s, t)
  BY ReadyFacts DEF Busy
<1>3. CASE /\ FullRescan(s) = ReturnToForeground(s)
           /\ \A t \in Registered(s) \ {FG} : ~ReadyThread(s, t)
  <2>1. Busy(s) = {}
    BY <1>2, <1>3
  <2>. QED
    BY <1>3, <2>1, ForegroundGave
<1>4. ASSUME NEW q \in InUse(s.PriorityTable.usage), NEW i \in 0 .. NThreads(s) - 1,
             FullRescan(s) = SwitchToThread(s, i, q), Found(s, q, i),
             \A t \in Registered(s) \ {FG} : ReadyThread(s, t) => s.thread[t].priority <= q
      PROVE  Goes(s, FullRescan(s))
  <2>1. FixedPriorities => Fits(s, q, i)
    BY <1>1, <1>2, <1>4, FoundFits DEF Gave
  <2>. QED
    BY <1>4, <2>1, SwitchGave DEF Found
<1>. QED
  BY <1>1, <1>3, <1>4, FullRescanIs

\* At the end of an interrupt, the highest ready priority goes on.
LEMMA RescanExit ==
  ASSUME NEW s, Inv(s), s.nested = 1
  PROVE  LET r == FullRescan(s)
         IN  /\ Goes(s, r) /\ r.nested = 0
             /\ \A t \in Registered(s) \ {FG} :
                  ReadyThread(s, t) => s.thread[t].priority <= s.thread[r.cpu].priority
<1>1. /\ s \in Workspace /\ Sound(s) /\ TableInv(s) /\ RunnerInv(s)
      /\ FixedPriorities => RanLast(s)
  BY DEF Inv, Sound, PriorityInv
<1>2. \A t \in Busy(s) : t \in Registered(s) \ {FG} /\ ReadyThread(s, t)
  BY ReadyFacts DEF Busy
<1>3. CASE /\ FullRescan(s) = ReturnToForeground(s)
           /\ \A t \in Registered(s) \ {FG} : ~ReadyThread(s, t)
  <2>1. s.cpu \in Registered(s) /\ Index(s, s.cpu) = s.Context
    BY <1>1, TableFacts DEF RunnerInv
  <2>2. s.cpu = FG
    <3>. SUFFICES ASSUME s.cpu # FG PROVE FALSE
      OBVIOUS
    <3>1. MidFlight(s.thread[s.cpu])
      BY <1>1 DEF RunnerInv, MidFlight
    <3>. QED
      BY <1>3, <2>1, <3>1, ReadyFacts
  <2>3. s.Context = 0
    BY <1>1, <2>1, <2>2, TableFacts
  <2>4. ReturnToForeground(s) = KernelExit(s)
    BY <2>3 DEF ReturnToForeground
  <2>. DEFINE b == s.InBackground
  <2>5. s = [s EXCEPT !.InBackground = b] /\ b \in BOOLEAN
    BY <1>1 DEF Workspace
  <2>. HIDE DEF b
  <2>6. s.nested > 0 /\ s.nested - 1 = 0 /\ (s.InBackground => b)
    BY DEF b
  <2>7. Goes(s, KernelExit(s)) /\ KernelExit(s).nested = 0
    BY <2>5, <2>6, KernelExitInv
  <2>. QED
    BY <1>3, <2>4, <2>7
<1>4. ASSUME NEW q \in InUse(s.PriorityTable.usage), NEW i \in 0 .. NThreads(s) - 1,
             FullRescan(s) = SwitchToThread(s, i, q), Found(s, q, i),
             \A t \in Registered(s) \ {FG} : ReadyThread(s, t) => s.thread[t].priority <= q
      PROVE  LET r == FullRescan(s)
             IN  /\ Goes(s, r) /\ r.nested = 0
                 /\ \A t \in Registered(s) \ {FG} :
                      ReadyThread(s, t) => s.thread[t].priority <= s.thread[r.cpu].priority
  <2>1. FixedPriorities => Fits(s, q, i)
    BY <1>1, <1>2, <1>4, FoundFits
  <2>2. /\ Goes(s, FullRescan(s)) /\ FullRescan(s).nested = 0
        /\ FullRescan(s).cpu = s.ThreadTable[i + 1]
    BY <1>4, <2>1, SwitchExit
  <2>. QED
    BY <1>4, <2>2 DEF Found
<1>. QED
  BY <1>1, <1>3, <1>4, FullRescanIs

\* The scan from the priority of a thread that gave way without asking for a rescan.
LEMMA ScanFromGave ==
  ASSUME NEW s, Gave(s), FixedPriorities, s.Priority # 0, NEW i \in Int,
         \A t \in Busy(s) : s.thread[t].priority < s.Priority,
         s.PriorityTable.next[s.Priority] \in InUse(s.PriorityTable.usage) \cup {0},
         \A r \in InUse(s.PriorityTable.usage) :
           r < s.Priority => r <= s.PriorityTable.next[s.Priority]
  PROVE  Goes(s, ScanFrom(s, i))
<1>. DEFINE P == s.Priority
            p == s.PriorityTable.next[P]
<1>1. /\ s \in Workspace /\ Sound(s) /\ TableInv(s) /\ RanLast(s)
  BY DEF Gave, Idle, Sound
<1>2. P \in Priorities \ {0} /\ P \in Nat
  BY <1>1, Fields, Numbers
<1>3. ScanFrom(s, i) = IF ReadyAt(s, P) # {} THEN SwitchToThread(s, RoundRobin(s, P, i), P)
                       ELSE NextPriority(s, p)
  BY <1>1, <1>2, NoNullRead DEF ScanFrom
<1>4. \A t \in Busy(s) :
        /\ t \in Registered(s) \ {FG} /\ ReadyThread(s, t)
        /\ s.thread[t].priority \in InUse(s.PriorityTable.usage)
        /\ s.thread[t].priority \in Nat \ {0}
  BY <1>1, ReadyFacts, PriorityInUse, Numbers DEF Busy
<1>5. \A t \in Busy(s) : s.thread[t].priority <= p
  BY <1>4
<1>6. CASE ReadyAt(s, P) # {}
  <2>. DEFINE j == RoundRobin(s, P, i)
  <2>1. j \in ReadyAt(s, P)
    BY <1>1, <1>6, RoundRobinIsReady
  <2>. HIDE DEF j
  <2>2. /\ j \in 0 .. NThreads(s) - 1 /\ s.thread[s.ThreadTable[j + 1]].priority = P
        /\ ReadyThread(s, s.ThreadTable[j + 1])
    BY <1>1, <2>1, ReadyAtIs
  <2>3. s.ThreadTable[j + 1] \in Registered(s) \ {FG}
    BY <1>1, <1>2, <2>2, TableFacts DEF TableInv
  <2>4. P \in InUse(s.PriorityTable.usage)
    BY <1>1, <2>2, <2>3, PriorityInUse
  <2>5. Fits(s, P, j)
    <3>1. \A t \in Busy(s) : s.thread[t].priority <= P /\ s.thread[t].priority # P
      <4>1. \A t \in Busy(s) : s.thread[t].priority \in Nat /\ s.thread[t].priority < P
        BY <1>4
      <4>. HIDE DEF P
      <4>. QED
        BY <1>2, <4>1
    <3>. QED
      BY <3>1 DEF Fits
  <2>. QED
    BY <1>3, <1>6, <2>2, <2>4, <2>5, SwitchGave DEF j
<1>7. CASE ReadyAt(s, P) = {}
  <2>1. \/ NextPriority(s, p) = ReturnToForeground(s) /\ NoneAbove(s, p, 0)
        \/ \E q \in InUse(s.PriorityTable.usage), k \in 0 .. NThreads(s) - 1 :
             /\ NextPriority(s, p) = SwitchToThread(s, k, q)
             /\ Found(s, q, k) /\ NoneAbove(s, p, q) /\ q <= p
    BY <1>1, NextPriorityIs
  <2>2. ScanFrom(s, i) = NextPriority(s, p)
    BY <1>3, <1>7
  <2>3. ASSUME NextPriority(s, p) = ReturnToForeground(s), NoneAbove(s, p, 0)
        PROVE  Goes(s, NextPriority(s, p))
    <3>1. Busy(s) = {}
      <4>1. \A n \in Nat \ {0} : ~(n <= 0)
        OBVIOUS
      <4>. QED
        BY <1>4, <1>5, <2>3, <4>1 DEF NoneAbove
    <3>. QED
      BY <2>3, <3>1, ForegroundGave
  <2>4. ASSUME NEW q \in InUse(s.PriorityTable.usage), NEW k \in 0 .. NThreads(s) - 1,
               NextPriority(s, p) = SwitchToThread(s, k, q), Found(s, q, k), NoneAbove(s, p, q)
        PROVE  Goes(s, NextPriority(s, p))
    <3>1. \A t \in Busy(s) : s.thread[t].priority <= q
      BY <1>4, <1>5, <2>4 DEF NoneAbove
    <3>2. Fits(s, q, k)
      BY <1>1, <2>4, <3>1, FoundFits
    <3>. QED
      BY <2>4, <3>2, SwitchGave DEF Found
  <2>. QED
    BY <2>1, <2>2, <2>3, <2>4
<1>. QED
  BY <1>6, <1>7

-----------------------------------------------------------------------------
\* The entries to RTSupport at which the running thread may change.

LEMMA NoTicksInv ==
  ASSUME NEW s, Inv(s)
  PROVE  LET r == [s EXCEPT !.NTicks = 0]
         IN  /\ Inv(r) /\ Registered(r) = Registered(s) /\ r.thread = s.thread
             /\ r.nested = s.nested /\ r.NTicks = 0 /\ r.ThreadTable = s.ThreadTable
             /\ r.Context = s.Context /\ r.cpu = s.cpu /\ r.PriorityTable = s.PriorityTable
<1>. DEFINE r == [s EXCEPT !.NTicks = 0]
<1>1. s \in Workspace /\ 0 \in 0 .. OverloadThreshold /\ FramesInv(s)
  BY Parameters DEF Inv, Sound
<1>2. /\ r \in Workspace /\ r.thread = s.thread
      /\ r.ThreadTable = s.ThreadTable /\ r.PriorityTable = s.PriorityTable
      /\ r.Context = s.Context /\ r.InBackground = s.InBackground
      /\ r.NTicks = 0 /\ r.Priority = s.Priority /\ r.fault = s.fault
      /\ r.cpu = s.cpu /\ r.nested = s.nested
      /\ r.frames = s.frames /\ r.LastKnownIRQsema = s.LastKnownIRQsema
  BY <1>1 DEF Workspace
<1>. HIDE DEF r
<1>3. FramesInv(r) /\ SameThreads(s, r)
  BY <1>1, <1>2 DEF FramesInv, IRQsema, SameThreads
<1>4. Inv(r) /\ Registered(r) = Registered(s)
  BY <1>2, <1>3, StackInv
<1>. QED
  BY <1>2, <1>4 DEF r

\* A thread's state, when it has given up the CPU of its own accord.
Rested(i, pollword, timed) ==
  [i EXCEPT !.pollword = pollword, !.timeout_flag = timed, !.recover = FALSE]

\* Where priorities do not change, everything else in the middle of its work is below the
\* thread that runs.
LEMMA BelowRunner ==
  ASSUME NEW s, Inv(s), FixedPriorities, s.cpu # FG, NEW x \in Busy(s) \ {s.cpu}
  PROVE  s.thread[x].priority < s.Priority
<1>. DEFINE t == s.cpu
            a == s.thread[x].priority
            b == s.Priority
<1>1. s \in Workspace /\ Sound(s) /\ TableInv(s) /\ RunnerInv(s)
  BY DEF Inv, Sound
<1>2. x \in Registered(s) \ {FG} /\ x # t /\ t \in Registered(s) /\ t \in Busy(s)
  <2>1. t \in Registered(s)
    BY <1>1, TableFacts DEF RunnerInv
  <2>. QED
    BY <1>1, <2>1 DEF RunnerInv, Busy, MidFlight
<1>3. RanLast(s) /\ b = s.thread[t].priority /\ a <= b
  BY DEF Inv, PriorityInv
<1>4. a # b
  <2>. SUFFICES ASSUME a = b PROVE FALSE
    OBVIOUS
  <2>1. Index(s, x) = Index(s, t)
    BY <1>2, <1>3 DEF RanLast
  <2>2. s.ThreadTable[Index(s, x) + 1] = x /\ s.ThreadTable[Index(s, t) + 1] = t
    BY <1>1, <1>2, TableFacts
  <2>. QED
    BY <1>2, <2>1, <2>2
<1>5. a \in Nat /\ b \in Nat
  <2>1. a \in Priorities /\ b \in Priorities
    BY <1>1, <1>2, PriorityInUse, Fields
  <2>. QED
    BY <2>1, Numbers
<1>. HIDE DEF a, b
<1>6. a < b
  BY <1>3, <1>4, <1>5
<1>. QED
  BY <1>6 DEF a, b

\* What follows a priority in use in the list.
LEMMA NextInUse ==
  ASSUME NEW pt \in Table, Linked(pt), NEW P \in InUse(pt.usage)
  PROVE  /\ pt.next[P] \in InUse(pt.usage) \cup {0} /\ pt.next[P] # P
         /\ \A r \in InUse(pt.usage) : r < P => r <= pt.next[P]
<1>1. P \in Priorities \ {0}
  BY DEF InUse
<1>2. /\ pt.next[P] < P
      /\ pt.next[P] \in Entries(pt.usage) \cup {0}
      /\ \A r \in Entries(pt.usage) : r < P => r <= pt.next[P]
  BY DEF Linked, IsList, Entries
<1>3. pt.next[P] # TopPriority /\ pt.next[P] # P
  <2>1. P \in Nat /\ P <= TopPriority /\ TopPriority \in Nat
    BY <1>1, Numbers
  <2>. QED
    BY <1>2, <2>1
<1>. QED
  BY <1>2, <1>3 DEF Entries

LEMMA RestedFields ==
  ASSUME NEW i \in ThreadInfo, NEW pollword \in Pollword, NEW timed \in BOOLEAN
  PROVE  LET j == Rested(i, pollword, timed)
         IN  /\ j \in ThreadInfo /\ j.pollword = pollword /\ j.timeout_flag = timed
             /\ ~j.recover /\ j.priority = i.priority
BY DEF Rested, ThreadInfo

Rest(s, pollword, timed) ==
  Put(s, [s.thread EXCEPT ![s.cpu] = Rested(@, pollword, timed)], -1, s.LastKnownIRQsema)

LEMMA RestFacts ==
  ASSUME NEW s, Inv(s), s.nested = 0, NEW pollword \in {"own", "set"}, NEW timed \in BOOLEAN,
         timed => pollword = "own"
  PROVE  LET p == Rest(s, pollword, timed)
         IN  /\ Gave(p) /\ KeepsStopped(s, p) /\ Registered(p) = Registered(s)
             /\ p.PriorityTable = s.PriorityTable /\ p.Priority = s.Priority
             /\ FixedPriorities /\ s.cpu # FG =>
                  \A t \in Busy(p) : p.thread[t].priority < s.Priority
             /\ \A rescan \in BOOLEAN :
                  Yielded(s, pollword, timed, rescan) =
                    IF rescan THEN FullRescan(p) ELSE ScanFrom(p, s.Context)
<1>. DEFINE t == s.cpu
            j == Rested(s.thread[t], pollword, timed)
            th == [s.thread EXCEPT ![t] = j]
            lk == s.LastKnownIRQsema
            p == Rest(s, pollword, timed)
<1>1. /\ s \in Workspace /\ Sound(s) /\ RunnerInv(s) /\ FramesInv(s) /\ TableInv(s)
      /\ s.fault = "none" /\ \A x \in Registered(s) : SaneThread(s, x)
  BY DEF Inv, Sound
<1>2. /\ s.thread \in [Thread -> ThreadInfo] /\ t \in Thread /\ s.thread[t] \in ThreadInfo
      /\ lk \in Nat /\ Registered(s) \subseteq Thread /\ IRQsema(s) \in Nat /\ -1 \in Int
  BY <1>1, Fields
<1>3. lk = IRQsema(s)
  <2>1. 0 = IRQsema(s) - lk
    BY <1>1 DEF FramesInv
  <2>. QED
    BY <1>2, <2>1
<1>4. /\ j \in ThreadInfo /\ j.pollword = pollword /\ j.timeout_flag = timed
      /\ ~j.recover /\ j.priority = s.thread[t].priority
  <2>1. pollword \in Pollword
    BY DEF Pollword
  <2>. DEFINE i == s.thread[t]
  <2>2. i \in ThreadInfo
    BY <1>2
  <2>. HIDE DEF i
  <2>3. LET k == Rested(i, pollword, timed)
        IN  /\ k \in ThreadInfo /\ k.pollword = pollword /\ k.timeout_flag = timed
            /\ ~k.recover /\ k.priority = i.priority
    BY <2>1, <2>2, RestedFields
  <2>. QED
    BY <2>3 DEF i
<1>. HIDE DEF j
<1>5. /\ th \in [Thread -> ThreadInfo] /\ th[t] = j
      /\ \A x \in Registered(s) : x # t => th[x] = s.thread[x]
  BY <1>2, <1>4
<1>6. p = Put(s, th, -1, lk)
  BY DEF Rest, j
<1>. HIDE DEF p, th, lk
<1>7. /\ p \in Workspace /\ p.thread = th
      /\ p.ThreadTable = s.ThreadTable /\ p.PriorityTable = s.PriorityTable
      /\ p.Context = -1 /\ p.fault = s.fault /\ p.frames = s.frames /\ p.Priority = s.Priority
      /\ p.LastKnownIRQsema = lk
  BY <1>1, <1>2, <1>5, <1>6, PutFields
<1>. HIDE DEF t
<1>8. NThreads(p) = NThreads(s) /\ Registered(p) = Registered(s) /\ \A x : Index(p, x) = Index(s, x)
  BY <1>7, TablesRead
<1>9. IRQsema(p) = IRQsema(s)
  BY <1>7 DEF IRQsema
<1>10. \A x \in Registered(s) : /\ p.thread[x].priority = s.thread[x].priority
                                /\ x # t => p.thread[x] = s.thread[x]
  BY <1>4, <1>5, <1>7
<1>11. p.thread[t] = j
  BY <1>5, <1>7
<1>12. Sound(p)
  <2>1. SameTables(s, p)
    BY <1>7, <1>10 DEF SameTables
  <2>2. ASSUME NEW x \in Registered(s)
        PROVE  SaneThread(p, x)
    BY <1>1, <1>4, <1>10, <1>11 DEF SaneThread
  <2>. QED
    BY <1>1, <1>7, <2>1, <2>2, SoundKept
<1>13. ASSUME NEW x \in Registered(s)
       PROVE  Asleep(p, x)
  <2>1. CASE x = t
    BY <1>4, <1>11, <2>1 DEF Asleep
  <2>2. CASE x # t
    <3>1. Asleep(s, x)
      BY <2>2 DEF Inv, t
    <3>. QED
      BY <1>7, <1>10, <2>2, <3>1 DEF Asleep, lk
  <2>. QED
    BY <2>1, <2>2
<1>14. Busy(p) \subseteq Busy(s) \ {t}
  <2>1. ~MidFlight(j)
    BY <1>4 DEF MidFlight
  <2>. QED
    BY <1>8, <1>10, <1>11, <2>1 DEF Busy
<1>15. FixedPriorities => RanLast(p)
  <2>1. \A x \in Busy(p) : x \in Registered(s)
    BY <1>8 DEF Busy
  <2>. QED
    BY <1>7, <1>8, <1>10, <1>14, <2>1 DEF RanLast, Inv, PriorityInv
<1>16. Gave(p)
  BY <1>3, <1>7, <1>8, <1>9, <1>12, <1>13, <1>15 DEF Gave, Idle
<1>17. KeepsStopped(s, p)
  <2>1. t \notin Stopped(s)
    <3>1. t # FG => s.thread[t].pollword = "Executing"
      BY <1>1 DEF RunnerInv, t
    <3>. QED
      BY <1>1, <3>1 DEF Stopped, SaneThread
  <2>. QED
    BY <1>8, <1>10, <2>1 DEF KeepsStopped, Stopped
<1>18. ASSUME FixedPriorities, t # FG, NEW x \in Busy(p)
       PROVE  p.thread[x].priority < s.Priority
  <2>1. x \in Busy(s) \ {t} /\ x \in Registered(s)
    BY <1>14 DEF Busy
  <2>2. s.thread[x].priority < s.Priority
    BY <1>18, <2>1, BelowRunner DEF t
  <2>. QED
    BY <1>10, <2>1, <2>2
<1>19. ASSUME NEW rescan \in BOOLEAN
       PROVE  Yielded(s, pollword, timed, rescan) =
                IF rescan THEN FullRescan(p) ELSE ScanFrom(p, s.Context)
  <2>. DEFINE s1 == [s EXCEPT !.Context = -1,
                       !.thread[t] = Rested(@, pollword, timed)]
  <2>1. s1 = [s EXCEPT !.Context = -1, !.thread = th]
    BY Zenon DEF th, j
  <2>2. s1 = p
    BY <1>1, <1>6, <2>1 DEF Put, lk, Workspace
  <2>3. Yielded(s, pollword, timed, rescan) =
          IF rescan THEN FullRescan(s1) ELSE ScanFrom(s1, s.Context)
    BY <1>1 DEF Yielded, RunnerInv, Rested, t
  <2>. HIDE DEF s1
  <2>. QED
    BY <2>2, <2>3
<1>. QED
  BY <1>7, <1>8, <1>16, <1>17, <1>18, <1>19 DEF p, t

\* What an action of the scheduler keeps.
Steps(s, r) == Inv(r) /\ KeepsStopped(s, r)

LEMMA KeptOnce ==
  ASSUME NEW s, NEW p, NEW r, KeepsStopped(s, p), Goes(p, r)
  PROVE  Steps(s, r)
BY DEF KeepsStopped, Goes, Steps

\* A thread returns.
LEMMA YieldedSteps ==
  ASSUME NEW s, Inv(s), s.nested = 0, NEW pollword \in {"own", "set"}, NEW timed \in BOOLEAN,
         timed => pollword = "own", NEW rescan \in BOOLEAN,
         rescan \/ (FixedPriorities /\ s.cpu # FG)
  PROVE  Steps(s, Yielded(s, pollword, timed, rescan))
<1>. DEFINE p == Rest(s, pollword, timed)
            P == s.Priority
            pt == s.PriorityTable
<1>1. /\ Gave(p) /\ KeepsStopped(s, p) /\ Registered(p) = Registered(s)
      /\ p.PriorityTable = s.PriorityTable /\ p.Priority = s.Priority
      /\ FixedPriorities /\ s.cpu # FG =>
           \A t \in Busy(p) : p.thread[t].priority < s.Priority
      /\ Yielded(s, pollword, timed, rescan) =
           IF rescan THEN FullRescan(p) ELSE ScanFrom(p, s.Context)
  BY RestFacts
<1>. HIDE DEF p
<1>2. CASE rescan
  <2>1. Goes(p, FullRescan(p))
    BY <1>1, RescanGave
  <2>. QED
    BY <1>1, <1>2, <2>1, KeptOnce
<1>3. CASE ~rescan
  <2>1. /\ s \in Workspace /\ Sound(s) /\ TableInv(s) /\ Linked(pt) /\ RunnerInv(s)
        /\ P = s.thread[s.cpu].priority /\ s.Context \in Int
    BY <1>3 DEF Inv, Sound, PrioritiesInv, PriorityInv, RunnerInv
  <2>2. s.cpu \in Registered(s) \ {FG}
    BY <1>3, <2>1, TableFacts DEF RunnerInv
  <2>3. P \in InUse(pt.usage) /\ P \in Priorities \ {0}
    BY <2>1, <2>2, PriorityInUse
  <2>4. /\ pt.next[P] \in InUse(pt.usage) \cup {0}
        /\ \A r \in InUse(pt.usage) : r < P => r <= pt.next[P]
    BY <2>1, <2>3, Fields, NextInUse
  <2>5. Goes(p, ScanFrom(p, s.Context))
    BY <1>1, <1>3, <2>1, <2>3, <2>4, ScanFromGave
  <2>. QED
    BY <1>1, <1>3, <2>5, KeptOnce
<1>. QED
  BY <1>2, <1>3

\* RT_Yield: refused in an interrupt.
LEMMA YieldSteps ==
  ASSUME NEW s, Inv(s), NEW pollword \in {"own", "set"}, NEW timed \in BOOLEAN,
         timed => pollword = "own"
  PROVE  Steps(s, Yield(s, pollword, timed))
<1>1. /\ s.nested = IRQsema(s) - s.LastKnownIRQsema /\ s.nested \in Nat
      /\ IRQsema(s) \in Nat /\ s.LastKnownIRQsema \in Nat
  <2>1. s \in Workspace /\ FramesInv(s)
    BY DEF Inv, Sound
  <2>2. s.nested \in 0 .. MaxNesting /\ MaxNesting \in Nat
    BY <2>1, Fields, Parameters
  <2>. QED
    BY <2>1, <2>2, Fields DEF FramesInv
<1>2. CASE IRQsema(s) # 0 /\ IRQsema(s) # s.LastKnownIRQsema
  BY <1>2 DEF Yield, Steps, KeepsStopped
<1>3. CASE ~(IRQsema(s) # 0 /\ IRQsema(s) # s.LastKnownIRQsema)
  <2>1. IRQsema(s) = s.LastKnownIRQsema /\ s.nested = 0
    BY <1>1, <1>3
  <2>. DEFINE n == [s EXCEPT !.NTicks = 0]
              m == IF IRQsema(s) = 0 THEN n ELSE s
  <2>2. Yield(s, pollword, timed) = Yielded(m, pollword, timed, TRUE)
    BY <2>1 DEF Yield
  <2>3. Inv(n) /\ Registered(n) = Registered(s) /\ n.thread = s.thread /\ n.nested = s.nested
    BY NoTicksInv
  <2>. HIDE DEF n
  <2>4. Inv(m) /\ Registered(m) = Registered(s) /\ m.thread = s.thread /\ m.nested = 0
    BY <2>1, <2>3
  <2>. HIDE DEF m
  <2>5. Steps(m, Yielded(m, pollword, timed, TRUE))
    <3>1. TRUE \in BOOLEAN
      OBVIOUS
    <3>. QED
      BY <2>4, <3>1, YieldedSteps
  <2>. QED
    BY <2>2, <2>4, <2>5 DEF Steps, KeepsStopped, Stopped
<1>. QED
  BY <1>2, <1>3

\* No ready thread has a higher priority than what runs.
HighestRuns(r) ==
  \A t \in Registered(r) :
    PollwordSet(r, t) => r.thread[t].priority <= r.thread[r.cpu].priority

\* The end of a handler.
LEMMA UnthreadSteps ==
  ASSUME NEW s, Inv(s), s.nested > 0
  PROVE  LET r == MyUnthreadV(s)
         IN  /\ Steps(s, r)
             /\ r.nested = 0 /\ r.NTicks < OverloadThreshold => HighestRuns(r)
<1>. DEFINE saved == IRQsema(s) - 1
            r == MyUnthreadV(s)
<1>1. /\ s.nested = IRQsema(s) - s.LastKnownIRQsema /\ s.nested \in Nat
      /\ IRQsema(s) \in Nat /\ s.LastKnownIRQsema \in Nat
  <2>1. s \in Workspace /\ FramesInv(s)
    BY DEF Inv, Sound
  <2>2. s.nested \in 0 .. MaxNesting /\ MaxNesting \in Nat
    BY <2>1, Fields, Parameters
  <2>. QED
    BY <2>1, <2>2, Fields DEF FramesInv
<1>2. CASE saved # 0 /\ saved # s.LastKnownIRQsema
  <2>1. r = KernelExit(s)
    BY <1>2 DEF MyUnthreadV
  <2>. DEFINE b == s.InBackground
  <2>2. s = [s EXCEPT !.InBackground = b] /\ b \in BOOLEAN
    BY DEF Workspace, Inv, Sound
  <2>. HIDE DEF b
  <2>3. s.InBackground => b
    BY DEF b
  <2>4. Goes(s, KernelExit(s)) /\ KernelExit(s).nested = s.nested - 1
    BY <2>2, <2>3, KernelExitInv
  <2>5. s.nested - 1 # 0
    BY <1>1, <1>2
  <2>. QED
    BY <2>1, <2>4, <2>5 DEF Goes, Steps
<1>3. CASE ~(saved # 0 /\ saved # s.LastKnownIRQsema)
  <2>1. saved = s.LastKnownIRQsema /\ s.nested = 1
    BY <1>1, <1>3
  <2>. DEFINE n == [s EXCEPT !.NTicks = 0]
              m == IF saved = 0 THEN n ELSE s
  <2>2. r = FullRescan(m)
    BY <2>1 DEF MyUnthreadV
  <2>3. Inv(n) /\ Registered(n) = Registered(s) /\ n.thread = s.thread /\ n.nested = s.nested
    BY NoTicksInv
  <2>. HIDE DEF n
  <2>4. Inv(m) /\ Registered(m) = Registered(s) /\ m.thread = s.thread /\ m.nested = 1
    BY <2>1, <2>3
  <2>. HIDE DEF m, r
  <2>5. /\ Goes(m, r) /\ r.nested = 0
        /\ \A t \in Registered(m) \ {FG} :
             ReadyThread(m, t) => m.thread[t].priority <= m.thread[r.cpu].priority
    BY <2>2, <2>4, RescanExit
  <2>6. Steps(s, r)
    BY <2>4, <2>5 DEF Goes, Steps, KeepsStopped, Stopped
  <2>7. ASSUME r.NTicks < OverloadThreshold, NEW t \in Registered(r), PollwordSet(r, t)
        PROVE  r.thread[t].priority <= r.thread[r.cpu].priority
    <3>1. /\ Sound(r) /\ r \in Workspace /\ TableInv(r) /\ r.cpu \in Registered(r)
      <4>1. Sound(r) /\ RunnerInv(r) /\ r \in Workspace /\ TableInv(r)
        BY <2>5 DEF Goes, Inv, Sound
      <4>. QED
        BY <4>1, TableFacts DEF RunnerInv
    <3>2. \A x \in Registered(r) : r.thread[x].priority \in Nat
      <4>1. \A x \in Registered(r) : x \in Thread /\ r.thread[x].priority \in Priorities
        BY <3>1, Fields DEF ThreadInfo
      <4>. QED
        BY <4>1, Numbers
    <3>3. CASE t = FG
      <4>1. r.thread[t].priority = 0
        BY <3>1, <3>3 DEF TableInv
      <4>2. \A k \in Nat : 0 <= k
        OBVIOUS
      <4>. QED
        BY <3>1, <3>2, <4>1, <4>2
    <3>4. CASE t = r.cpu
      <4>1. \A k \in Nat : k <= k
        OBVIOUS
      <4>. QED
        BY <3>1, <3>2, <3>4, <4>1
    <3>5. CASE t \notin {FG, r.cpu}
      <4>1. t \in Registered(m) /\ PollwordSet(m, t) /\ m.NTicks = r.NTicks
            /\ Registered(r) = Registered(m)
        BY <2>5, <2>7, <3>5 DEF Goes
      <4>2. ReadyThread(m, t)
        <5>1. m.NTicks \in Int /\ OverloadThreshold \in Int
          BY <2>4, Fields, Parameters DEF Inv, Sound
        <5>2. ~(m.NTicks >= OverloadThreshold)
          BY <2>7, <4>1, <5>1
        <5>. QED
          BY <4>1, <5>2 DEF ReadyThread
      <4>3. m.thread[t].priority <= m.thread[r.cpu].priority
        BY <2>5, <3>5, <4>1, <4>2
      <4>. QED
        BY <2>5, <3>1, <4>1, <4>3 DEF Goes
    <3>. QED
      BY <3>3, <3>4, <3>5
  <2>. QED
    BY <2>6, <2>7 DEF HighestRuns, r
<1>. QED
  BY <1>2, <1>3

-----------------------------------------------------------------------------
\* Interrupts, ticks and exceptions.

LEMMA InterruptSteps ==
  ASSUME IInv, Interrupt
  PROVE  Steps(rt, rt')
<1>. DEFINE n == IRQsema(rt)
            f == [owner |-> IF rt.nested = 0 THEN rt.cpu ELSE "handler", resumed |-> FALSE]
            frames == Append(rt.frames, f)
<1>1. Inv(rt) /\ rt \in Workspace /\ FramesInv(rt)
  BY DEF IInv, Inv, Sound
<1>2. /\ n \in Nat /\ rt.LastKnownIRQsema \in Nat /\ rt.nested \in 0 .. MaxNesting
      /\ MaxNesting \in Nat /\ rt.frames \in Seq(Frame) /\ Len(rt.frames) = n /\ rt.cpu \in Thread
      /\ rt.nested = n - rt.LastKnownIRQsema
  BY <1>1, Fields, Parameters DEF IRQsema, FramesInv
<1>3. f \in Frame /\ ~f.resumed /\ (rt.nested = 0 => f.owner = rt.cpu)
  BY <1>2 DEF Frame
<1>4. rt.nested + 1 \in 0 .. MaxNesting
  <2>1. rt.nested < MaxNesting
    BY DEF Interrupt
  <2>. QED
    BY <1>2, <2>1
<1>. HIDE DEF n
<1>5. /\ frames \in Seq(Frame) /\ Len(frames) = n + 1 /\ frames[n + 1] = f
      /\ \A d \in 1 .. n : frames[d] = rt.frames[d]
  <2>. HIDE DEF f
  <2>. QED
    BY <1>2, <1>3, AppendProperties
<1>6. rt' = [rt EXCEPT !.frames = frames, !.nested = rt.nested + 1]
  BY DEF Interrupt
<1>. HIDE DEF f, frames
<1>7. /\ rt' \in Workspace /\ rt'.thread = rt.thread
      /\ rt'.ThreadTable = rt.ThreadTable /\ rt'.PriorityTable = rt.PriorityTable
      /\ rt'.Context = rt.Context /\ rt'.InBackground = rt.InBackground
      /\ rt'.Priority = rt.Priority /\ rt'.fault = rt.fault
      /\ rt'.cpu = rt.cpu /\ rt'.nested = rt.nested + 1
      /\ rt'.frames = frames /\ rt'.LastKnownIRQsema = rt.LastKnownIRQsema
  BY <1>1, <1>4, <1>5, <1>6 DEF Workspace
<1>8. IRQsema(rt') = n + 1
  BY <1>5, <1>7 DEF IRQsema
<1>9. FramesInv(rt')
  <2>1. rt'.nested = IRQsema(rt') - rt'.LastKnownIRQsema
    BY <1>2, <1>7, <1>8
  <2>2. ASSUME NEW d \in rt.LastKnownIRQsema + 1 .. n + 1
        PROVE  /\ ~frames[d].resumed
               /\ d = rt.LastKnownIRQsema + 1 => frames[d].owner = rt.cpu
    <3>1. CASE d = n + 1
      <4>1. d = rt.LastKnownIRQsema + 1 => rt.nested = 0
        BY <1>2, <3>1
      <4>. QED
        BY <1>3, <1>5, <3>1, <4>1
    <3>2. CASE d # n + 1
      <4>1. d \in rt.LastKnownIRQsema + 1 .. n /\ d \in 1 .. n
        BY <1>2, <3>2
      <4>2. /\ ~rt.frames[d].resumed
            /\ d = rt.LastKnownIRQsema + 1 => rt.frames[d].owner = rt.cpu
        BY <1>1, <4>1 DEF FramesInv, n
      <4>. QED
        BY <1>5, <4>1, <4>2
    <3>. QED
      BY <3>1, <3>2
  <2>. QED
    BY <1>7, <1>8, <2>1, <2>2 DEF FramesInv
<1>10. \A d \in 1 .. rt.LastKnownIRQsema : rt'.frames[d] = rt.frames[d]
  <2>. SUFFICES ASSUME NEW d \in 1 .. rt.LastKnownIRQsema PROVE rt'.frames[d] = rt.frames[d]
    OBVIOUS
  <2>1. d \in 1 .. n
    BY <1>2
  <2>. QED
    BY <1>5, <1>7, <2>1
<1>11. SameThreads(rt, rt')
  BY <1>7 DEF SameThreads
<1>. DEFINE r == rt'
<1>12. r \in Workspace /\ FramesInv(r) /\ SameThreads(rt, r)
       /\ \A d \in 1 .. rt.LastKnownIRQsema : r.frames[d] = rt.frames[d]
  BY <1>7, <1>9, <1>10, <1>11
<1>. HIDE DEF r
<1>13. Inv(r) /\ KeepsStopped(rt, r)
  BY <1>1, <1>12, StackInv
<1>. QED
  BY <1>13 DEF r, Steps

\* Entries that change the state of some threads, but not who runs or is in the middle of
\* its work, nor the tables' reckoning.
LEMMA StatesInv ==
  ASSUME NEW s, Inv(s), NEW r \in Workspace,
         r.ThreadTable = s.ThreadTable, r.PriorityTable = s.PriorityTable,
         r.Context = s.Context, r.cpu = s.cpu, r.nested = s.nested, r.Priority = s.Priority,
         r.frames = s.frames, r.LastKnownIRQsema = s.LastKnownIRQsema,
         r.InBackground = s.InBackground, r.fault = s.fault,
         \A t \in Registered(s) :
           \/ r.thread[t] = s.thread[t]
           \/ /\ s.thread[t].pollword = "own" /\ r.thread[t].pollword = "TimedOut"
              /\ ~r.thread[t].timeout_flag /\ r.thread[t].recover = s.thread[t].recover
              /\ r.thread[t].priority = s.thread[t].priority
  PROVE  Steps(s, r)
<1>1. NThreads(r) = NThreads(s) /\ Registered(r) = Registered(s) /\ \A t : Index(r, t) = Index(s, t)
  BY TablesRead
<1>2. \A t \in Registered(s) : r.thread[t].priority = s.thread[t].priority
  OBVIOUS
<1>3. Sound(r)
  <2>1. SameTables(s, r)
    BY <1>2 DEF SameTables
  <2>2. \A t \in Registered(s) : SaneThread(r, t)
    BY DEF Inv, Sound, SaneThread
  <2>3. r.fault = "none" /\ Sound(s)
    BY DEF Inv, Sound
  <2>. QED
    BY <2>1, <2>2, <2>3, SoundKept
<1>4. Busy(r) = Busy(s)
  BY <1>1 DEF Busy, MidFlight
<1>5. s.cpu \in Registered(s)
  <2>1. RunnerInv(s) /\ s \in Workspace /\ TableInv(s)
    BY DEF Inv, Sound
  <2>. QED
    BY <2>1, TableFacts DEF RunnerInv
<1>6. RunnerInv(r)
  <2>1. RunnerInv(s)
    BY DEF Inv
  <2>2. s.cpu # FG => r.thread[s.cpu].pollword = "Executing"
    BY <1>5, <2>1 DEF RunnerInv
  <2>. QED
    BY <1>1, <1>4, <2>1, <2>2 DEF RunnerInv
<1>7. FramesInv(r)
  BY DEF Inv, FramesInv, IRQsema
<1>8. ASSUME NEW t \in Registered(r) \ {r.cpu}
      PROVE  Asleep(r, t)
  <2>1. Asleep(s, t)
    BY <1>1, <1>8 DEF Inv
  <2>. QED
    BY <1>1, <1>8, <2>1 DEF Asleep
<1>9. FixedPriorities => PriorityInv(r)
  <2>1. \A t \in Busy(s) : t \in Registered(s)
    BY DEF Busy
  <2>. QED
    BY <1>1, <1>2, <1>4, <1>5, <2>1 DEF Inv, PriorityInv, RanLast
<1>10. KeepsStopped(s, r)
  BY <1>1 DEF KeepsStopped, Stopped
<1>. QED
  BY <1>3, <1>6, <1>7, <1>8, <1>9, <1>10 DEF Inv, Steps

LEMMA TickerSteps ==
  ASSUME IInv, NEW due \in SUBSET Waiting, Ticker(due)
  PROVE  Steps(rt, rt')
<1>. DEFINE ticks == Min({rt.NTicks + 1, OverloadThreshold})
            TimedOut(i) == [i EXCEPT !.timeout_flag = FALSE, !.pollword = "TimedOut"]
            th == [t \in Thread |-> IF t \in due THEN TimedOut(rt.thread[t]) ELSE rt.thread[t]]
<1>1. Inv(rt) /\ rt \in Workspace /\ \A t \in Registered(rt) : SaneThread(rt, t)
  BY DEF IInv, Inv, Sound
<1>2. ticks \in 0 .. OverloadThreshold
  <2>1. rt.NTicks \in 0 .. OverloadThreshold /\ OverloadThreshold \in Nat
    BY <1>1, Fields, Parameters
  <2>. DEFINE S == {rt.NTicks + 1, OverloadThreshold}
  <2>2. S \in SUBSET Nat /\ S # {} /\ OverloadThreshold \in S
    BY <2>1
  <2>. HIDE DEF S
  <2>3. Min(S) \in Nat /\ Min(S) <= OverloadThreshold
    BY <2>2, MinIs
  <2>. QED
    BY <2>1, <2>3 DEF S
<1>3. \A i \in ThreadInfo :
        /\ TimedOut(i) \in ThreadInfo /\ TimedOut(i).pollword = "TimedOut"
        /\ ~TimedOut(i).timeout_flag
        /\ TimedOut(i).recover = i.recover /\ TimedOut(i).priority = i.priority
  BY DEF ThreadInfo, Pollword
<1>. HIDE DEF TimedOut, ticks
<1>4. \A t \in Thread : rt.thread[t] \in ThreadInfo
  BY <1>1, Fields
<1>5. th \in [Thread -> ThreadInfo]
  BY <1>3, <1>4
<1>6. rt' = [rt EXCEPT !.NTicks = ticks, !.thread = th]
  BY DEF Ticker, ticks, TimedOut
<1>. DEFINE r == rt'
<1>7. r = [rt EXCEPT !.NTicks = ticks, !.thread = th]
  BY <1>6
<1>8. \A t \in Registered(rt) :
        \/ th[t] = rt.thread[t]
        \/ /\ rt.thread[t].pollword = "own" /\ th[t] = TimedOut(rt.thread[t])
  <2>1. \A t \in due : rt.thread[t].pollword = "own"
    BY <1>1 DEF Waiting, SaneThread
  <2>2. Registered(rt) \subseteq Thread
    BY <1>1, Fields
  <2>. QED
    BY <2>1, <2>2
<1>9. \A t \in Registered(rt) : t \in Thread
  BY <1>1, Fields
<1>. HIDE DEF r, th
<1>10. /\ r \in Workspace /\ r.thread = th
       /\ r.ThreadTable = rt.ThreadTable /\ r.PriorityTable = rt.PriorityTable
       /\ r.Context = rt.Context /\ r.cpu = rt.cpu /\ r.nested = rt.nested
       /\ r.Priority = rt.Priority /\ r.frames = rt.frames
       /\ r.LastKnownIRQsema = rt.LastKnownIRQsema
       /\ r.InBackground = rt.InBackground /\ r.fault = rt.fault
  BY <1>1, <1>2, <1>5, <1>7 DEF Workspace
<1>11. \A t \in Registered(rt) :
         \/ r.thread[t] = rt.thread[t]
         \/ /\ rt.thread[t].pollword = "own" /\ r.thread[t].pollword = "TimedOut"
            /\ ~r.thread[t].timeout_flag /\ r.thread[t].recover = rt.thread[t].recover
            /\ r.thread[t].priority = rt.thread[t].priority
  BY <1>3, <1>4, <1>8, <1>9, <1>10
<1>12. Steps(rt, r)
  BY <1>1, <1>10, <1>11, StatesInv
<1>. QED
  BY <1>12 DEF r

\* The foreground runs on an empty IRQ stack, and whatever was in the middle of its work
\* has been stopped.
LEMMA ResetSteps ==
  ASSUME NEW s, Inv(s), NEW r \in Workspace,
         r.ThreadTable = s.ThreadTable, r.PriorityTable = s.PriorityTable,
         r.Context = 0, r.cpu = FG, r.nested = 0, IRQsema(r) = 0, r.LastKnownIRQsema = 0,
         r.fault = "none",
         \A t \in Registered(s) :
           \/ r.thread[t] = s.thread[t]
           \/ /\ t # FG /\ r.thread[t].pollword \in {"Aborted", "CollateralDamage"}
              /\ ~r.thread[t].timeout_flag /\ r.thread[t].priority = s.thread[t].priority,
         \A t \in Registered(s) \ {FG} : ~MidFlight(r.thread[t])
  PROVE  Steps(s, r)
<1>1. NThreads(r) = NThreads(s) /\ Registered(r) = Registered(s) /\ \A t : Index(r, t) = Index(s, t)
  BY TablesRead
<1>2. /\ s \in Workspace /\ Sound(s) /\ TableInv(s) /\ RunnerInv(s)
      /\ \A t \in Registered(s) : SaneThread(s, t)
  BY DEF Inv, Sound
<1>3. Sound(r)
  <2>1. SameTables(s, r)
    BY DEF SameTables
  <2>2. \A t \in Registered(s) : SaneThread(r, t)
    BY <1>2 DEF SaneThread
  <2>. QED
    BY <1>2, <2>1, <2>2, SoundKept
<1>4. Busy(r) = {}
  BY <1>1 DEF Busy
<1>5. RunnerInv(r)
  <2>1. NThreads(s) \in Nat \ {0} /\ s.ThreadTable[1] = FG
    BY <1>2, TableFacts DEF TableInv
  <2>2. 0 \in 0 .. NThreads(s) - 1 /\ 0 + 1 = 1
    BY <2>1
  <2>. QED
    BY <1>1, <1>4, <2>1, <2>2 DEF RunnerInv
<1>6. FramesInv(r)
  BY DEF FramesInv
<1>7. ASSUME NEW t \in Registered(r) \ {r.cpu}
      PROVE  Asleep(r, t)
  <2>1. t \in Registered(s) \ {FG} /\ ~MidFlight(r.thread[t])
    BY <1>1, <1>7
  <2>2. CASE r.thread[t] = s.thread[t]
    <3>1. t # s.cpu
      BY <1>2, <2>1, <2>2 DEF RunnerInv, MidFlight
    <3>2. Asleep(s, t)
      BY <2>1, <3>1 DEF Inv
    <3>. QED
      BY <2>1, <2>2, <3>2 DEF Asleep, MidFlight
  <2>3. CASE r.thread[t].pollword \in {"Aborted", "CollateralDamage"}
    BY <2>3 DEF Asleep
  <2>. QED
    BY <2>1, <2>2, <2>3
<1>8. PriorityInv(r)
  BY <1>4 DEF PriorityInv, RanLast
<1>9. KeepsStopped(s, r)
  BY <1>1 DEF KeepsStopped, Stopped
<1>. QED
  BY <1>3, <1>5, <1>6, <1>7, <1>8, <1>9 DEF Inv, Steps

LEMMA AbortSteps ==
  ASSUME IInv, AbortRecover
  PROVE  Steps(rt, rt')
<1>. DEFINE e == <<>>
            reset == [rt EXCEPT !.frames = e, !.nested = 0, !.cpu = FG]
            c == rt.Context
            Stop(i, why) == [i EXCEPT !.timeout_flag = FALSE, !.pollword = why]
            Damage(t, i) ==
              IF c \notin {0, -1} /\ t = rt.ThreadTable[c + 1] THEN Stop(i, "Aborted")
              ELSE IF t # FG /\ t \in Registered(rt) /\ i.pollword = "PreEmpted"
              THEN Stop(i, "CollateralDamage")
              ELSE i
            th == IF rt.InBackground THEN [t \in Thread |-> Damage(t, rt.thread[t])] ELSE rt.thread
            s == IF rt.InBackground THEN SomethingsGoneWrong(reset) ELSE reset
            r == rt'
<1>1. /\ Inv(rt) /\ rt \in Workspace /\ TableInv(rt) /\ RunnerInv(rt) /\ rt.fault = "none"
      /\ c \in 0 .. NThreads(rt) - 1 /\ c \in Int /\ rt.ThreadTable[c + 1] = rt.cpu
      /\ \A t \in Registered(rt) \ {rt.cpu} : Asleep(rt, t)
  BY DEF IInv, Inv, Sound, RunnerInv
<1>2. r = [s EXCEPT !.LastKnownIRQsema = 0]
  BY DEF AbortRecover
<1>3. /\ rt.thread \in [Thread -> ThreadInfo] /\ Registered(rt) \subseteq Thread
      /\ NThreads(rt) \in Nat \ {0} /\ rt.cpu \in Registered(rt) /\ Index(rt, rt.cpu) = c
      /\ \A t \in Thread : rt.thread[t] \in ThreadInfo
      /\ Index(rt, FG) = 0
  BY <1>1, Fields, TableFacts
<1>4. c = 0 <=> rt.cpu = FG
  BY <1>1, <1>3, TableFacts DEF TableInv
<1>5. ~rt.InBackground => rt.cpu = FG /\ c = 0
  BY <1>1, <1>4 DEF RunnerInv
<1>6. e \in Seq(Frame) /\ FG \in Thread /\ 0 \in 0 .. MaxNesting /\ 0 \in Nat /\ 0 \in Int /\ Len(e) = 0
  BY Parameters
<1>. HIDE DEF e
<1>7. /\ reset \in Workspace /\ reset.thread = rt.thread
      /\ reset.ThreadTable = rt.ThreadTable /\ reset.PriorityTable = rt.PriorityTable
      /\ reset.Context = rt.Context /\ reset.fault = rt.fault
      /\ reset.cpu = FG /\ reset.nested = 0 /\ reset.frames = e
  BY <1>1, <1>6 DEF Workspace
<1>8. NThreads(reset) = NThreads(rt) /\ Registered(reset) = Registered(rt)
  BY <1>7, TablesRead
<1>. HIDE DEF reset
<1>9. \A i \in ThreadInfo : \A why \in {"Aborted", "CollateralDamage"} :
        /\ Stop(i, why) \in ThreadInfo /\ Stop(i, why).pollword = why
        /\ ~Stop(i, why).timeout_flag /\ Stop(i, why).priority = i.priority
  BY DEF ThreadInfo, Pollword
<1>10. rt.InBackground => s = [reset EXCEPT !.Context = 0, !.thread = th]
  <2>1. ~(c \notin -1 .. NThreads(rt) - 1)
    BY <1>1, <1>3
  <2>2. SomethingsGoneWrong(reset) =
          [reset EXCEPT !.Context = 0, !.thread = [t \in Thread |-> Damage(t, rt.thread[t])]]
    BY <1>7, <1>8, <2>1 DEF SomethingsGoneWrong
  <2>. QED
    BY <2>2
<1>. HIDE DEF Stop
<1>11. th \in [Thread -> ThreadInfo]
  BY <1>3, <1>9
<1>12. ASSUME NEW t \in Registered(rt)
       PROVE  /\ \/ th[t] = rt.thread[t]
                 \/ /\ t # FG /\ th[t].pollword \in {"Aborted", "CollateralDamage"}
                    /\ ~th[t].timeout_flag /\ th[t].priority = rt.thread[t].priority
              /\ t # FG => ~MidFlight(th[t])
  <2>0. t \in Thread /\ rt.thread[t] \in ThreadInfo
    BY <1>3
  <2>1. CASE ~rt.InBackground
    <3>1. Busy(rt) = {}
      BY <1>1, <1>5, <2>1 DEF RunnerInv
    <3>. QED
      BY <2>1, <3>1 DEF Busy
  <2>2. CASE rt.InBackground /\ c # 0 /\ t = rt.cpu
    <3>1. th[t] = Stop(rt.thread[t], "Aborted")
      <4>1. c # -1
        BY <1>1
      <4>. QED
        BY <1>1, <2>0, <2>2, <4>1
    <3>. HIDE DEF th
    <3>. QED
      BY <1>4, <1>9, <2>0, <2>2, <3>1 DEF MidFlight
  <2>3. CASE rt.InBackground /\ ~(c # 0 /\ t = rt.cpu)
    <3>1. th[t] = IF t # FG /\ rt.thread[t].pollword = "PreEmpted"
                  THEN Stop(rt.thread[t], "CollateralDamage") ELSE rt.thread[t]
      BY <1>1, <2>0, <2>3
    <3>2. t # FG => Asleep(rt, t)
      BY <1>1, <1>4, <2>3
    <3>. HIDE DEF th
    <3>. QED
      BY <1>9, <2>0, <3>1, <3>2 DEF MidFlight, Asleep
  <2>. QED
    BY <2>1, <2>2, <2>3
<1>. HIDE DEF th
<1>13. /\ s \in Workspace /\ s.thread = th
       /\ s.ThreadTable = rt.ThreadTable /\ s.PriorityTable = rt.PriorityTable
       /\ s.Context = 0 /\ s.fault = "none"
       /\ s.cpu = FG /\ s.nested = 0 /\ s.frames = e
  <2>1. CASE rt.InBackground
    <3>1. s = [reset EXCEPT !.Context = 0, !.thread = th]
      BY <1>10, <2>1
    <3>. HIDE DEF s
    <3>. QED
      BY <1>1, <1>6, <1>7, <1>11, <3>1 DEF Workspace
  <2>2. CASE ~rt.InBackground
    <3>1. th = rt.thread
      BY <2>2 DEF th
    <3>. QED
      BY <1>1, <1>5, <1>7, <2>2, <3>1
  <2>. QED
    BY <2>1, <2>2
<1>. HIDE DEF s, r
<1>14. /\ r \in Workspace /\ r.thread = th
       /\ r.ThreadTable = rt.ThreadTable /\ r.PriorityTable = rt.PriorityTable
       /\ r.Context = 0 /\ r.fault = "none"
       /\ r.cpu = FG /\ r.nested = 0 /\ r.frames = e /\ r.LastKnownIRQsema = 0
  BY <1>2, <1>6, <1>13 DEF Workspace
<1>15. IRQsema(r) = 0
  BY <1>6, <1>14 DEF IRQsema
<1>16. Steps(rt, r)
  BY <1>1, <1>12, <1>14, <1>15, ResetSteps
<1>. QED
  BY <1>16 DEF r

-----------------------------------------------------------------------------
\* Threads come and go, and change priority.

CountOf(s) == [q \in Priorities |-> Count(s, q)]

LEMMA CountOfFacts ==
  ASSUME NEW s \in Workspace
  PROVE  /\ CountOf(s) \in [Priorities -> Nat]
         /\ (\A p \in Priorities \ {0} : s.PriorityTable.usage[p] \in {Count(s, p), Saturated})
              <=> Counts(s.PriorityTable.usage, CountOf(s))
<1>1. \A q : Count(s, q) \in Nat
  <2>. SUFFICES ASSUME NEW q PROVE Count(s, q) \in Nat
    OBVIOUS
  <2>1. IsFiniteSet({t \in Registered(s) : s.thread[t].priority = q})
    BY RegisteredFinite, FS_Subset
  <2>. QED
    BY <2>1, FS_CardinalityType DEF Count
<1>. QED
  BY <1>1 DEF CountOf, Counts

Registers(s, t, p) ==
  [s EXCEPT !.ThreadTable = Append(@, t),
            !.thread[t] = [NoThread EXCEPT !.priority = p],
            !.PriorityTable = JoinNew(@, p, NThreads(s) - 1)]

LEMMA RegistersFields ==
  ASSUME NEW s, Inv(s), NEW t \in RTThread, t \notin Registered(s), NEW p \in Priorities \ {0}
  PROVE  LET r == Registers(s, t, p)
         IN  /\ r \in Workspace
             /\ NThreads(r) = NThreads(s) + 1 /\ r.ThreadTable[NThreads(s) + 1] = t
             /\ \A i \in 1 .. NThreads(s) : r.ThreadTable[i] = s.ThreadTable[i]
             /\ r.thread[t].pollword = "own" /\ ~r.thread[t].timeout_flag
             /\ ~r.thread[t].recover /\ r.thread[t].priority = p
             /\ \A x \in Registered(s) : r.thread[x] = s.thread[x]
             /\ r.PriorityTable = JoinNew(s.PriorityTable, p, NThreads(s) - 1)
             /\ r.Context = s.Context /\ r.InBackground = s.InBackground
             /\ r.Priority = s.Priority /\ r.fault = s.fault
             /\ r.cpu = s.cpu /\ r.nested = s.nested
             /\ r.frames = s.frames /\ r.LastKnownIRQsema = s.LastKnownIRQsema
<1>. DEFINE T == Append(s.ThreadTable, t)
            new == [NoThread EXCEPT !.priority = p]
            th == [s.thread EXCEPT ![t] = new]
            pt == JoinNew(s.PriorityTable, p, NThreads(s) - 1)
            r == Registers(s, t, p)
<1>1. s \in Workspace /\ TableInv(s) /\ Linked(s.PriorityTable)
  BY DEF Inv, Sound, PrioritiesInv
<1>2. /\ s.ThreadTable \in Seq(Thread) /\ Len(s.ThreadTable) = NThreads(s)
      /\ NThreads(s) \in Nat \ {0} /\ t \in Thread /\ s.thread \in [Thread -> ThreadInfo]
      /\ Registered(s) \subseteq Thread /\ s.PriorityTable \in Table
  BY <1>1, Fields, TableFacts, Parameters DEF NThreads
<1>3. new \in ThreadInfo /\ new.pollword = "own" /\ ~new.timeout_flag
      /\ ~new.recover /\ new.priority = p
  BY DEF ThreadInfo, NoThread, Pollword
<1>. HIDE DEF new
<1>4. /\ th \in [Thread -> ThreadInfo] /\ th[t] = new
      /\ \A x \in Registered(s) : th[x] = s.thread[x]
  BY <1>2, <1>3
<1>5. /\ T \in Seq(Thread) /\ Len(T) = NThreads(s) + 1 /\ T[NThreads(s) + 1] = t
      /\ \A i \in 1 .. NThreads(s) : T[i] = s.ThreadTable[i]
  BY <1>2, AppendProperties
<1>6. pt \in Table
  <2>1. NThreads(s) - 1 \in Nat
    BY <1>2
  <2>. QED
    BY <1>1, <1>2, <2>1, JoinNewFacts
<1>7. r = [s EXCEPT !.ThreadTable = T, !.thread = th, !.PriorityTable = pt]
  BY Zenon DEF Registers, new
<1>. HIDE DEF T, th, pt, r
<1>8. /\ r \in Workspace /\ r.ThreadTable = T /\ r.thread = th /\ r.PriorityTable = pt
      /\ r.Context = s.Context /\ r.InBackground = s.InBackground
      /\ r.Priority = s.Priority /\ r.fault = s.fault
      /\ r.cpu = s.cpu /\ r.nested = s.nested
      /\ r.frames = s.frames /\ r.LastKnownIRQsema = s.LastKnownIRQsema
  BY <1>1, <1>4, <1>5, <1>6, <1>7 DEF Workspace
<1>. QED
  BY <1>3, <1>4, <1>5, <1>8 DEF r, pt, NThreads

LEMMA RegistersSteps ==
  ASSUME NEW s, Inv(s), NEW t \in RTThread, t \notin Registered(s), NEW p \in Priorities \ {0}
  PROVE  Steps(s, Registers(s, t, p))
<1>. DEFINE r == Registers(s, t, p)
            N == NThreads(s)
            pt == s.PriorityTable
            new == JoinNew(pt, p, N - 1)
<1>1. /\ s \in Workspace /\ Sound(s) /\ TableInv(s) /\ PrioritiesInv(s) /\ s.fault = "none"
      /\ RunnerInv(s) /\ FramesInv(s) /\ \A x \in Registered(s) : SaneThread(s, x)
  BY DEF Inv, Sound
<1>2. /\ N \in Nat \ {0} /\ pt \in Table /\ Linked(pt) /\ t # FG /\ N - 1 \in Nat
      /\ s.ThreadTable[1] = FG
  BY <1>1, Fields, TableFacts, Parameters DEF PrioritiesInv, TableInv
<1>3. /\ r \in Workspace
      /\ NThreads(r) = N + 1 /\ r.ThreadTable[N + 1] = t
      /\ \A i \in 1 .. N : r.ThreadTable[i] = s.ThreadTable[i]
      /\ r.thread[t].pollword = "own" /\ ~r.thread[t].timeout_flag
      /\ ~r.thread[t].recover /\ r.thread[t].priority = p
      /\ \A x \in Registered(s) : r.thread[x] = s.thread[x]
      /\ r.PriorityTable = new
      /\ r.Context = s.Context /\ r.InBackground = s.InBackground
      /\ r.Priority = s.Priority /\ r.fault = s.fault
      /\ r.cpu = s.cpu /\ r.nested = s.nested
      /\ r.frames = s.frames /\ r.LastKnownIRQsema = s.LastKnownIRQsema
  BY RegistersFields
<1>. HIDE DEF r
<1>4. /\ new \in Table /\ Linked(new) /\ new.usage = More(pt.usage, p)
      /\ \A q \in Priorities :
           new.last[q] = IF q = p /\ pt.usage[p] = 0 THEN N - 1 ELSE pt.last[q]
  BY <1>2, JoinNewFacts
<1>5. Registered(r) = Registered(s) \cup {t}
  <2>. HIDE DEF N
  <2>1. Registered(s) = {s.ThreadTable[i] : i \in 1 .. N} /\ Registered(r) = {r.ThreadTable[i] : i \in 1 .. N + 1}
    BY <1>3 DEF Registered, N
  <2>2. 1 .. N + 1 = (1 .. N) \cup {N + 1}
    BY <1>2
  <2>. QED
    BY <1>3, <2>1, <2>2
<1>6. TableInv(r)
  <2>1. ASSUME NEW i \in 1 .. N + 1, NEW j \in 1 .. N + 1, r.ThreadTable[i] = r.ThreadTable[j]
        PROVE  i = j
    <3>. HIDE DEF N
    <3>1. \A k \in 1 .. N + 1 : k # N + 1 => k \in 1 .. N
      BY <1>2
    <3>2. \A k \in 1 .. N : r.ThreadTable[k] # t
      <4>1. \A k \in 1 .. N : s.ThreadTable[k] \in Registered(s)
        BY DEF Registered, N
      <4>. QED
        BY <1>3, <4>1
    <3>3. \A k, l \in 1 .. N : s.ThreadTable[k] = s.ThreadTable[l] => k = l
      BY <1>1 DEF TableInv, N
    <3>. QED
      BY <1>3, <2>1, <3>1, <3>2, <3>3
  <2>2. r.ThreadTable[1] = FG /\ NThreads(r) > 0
    <3>1. 1 \in 1 .. N /\ N + 1 > 0
      BY <1>2
    <3>. QED
      BY <1>2, <1>3, <3>1
  <2>3. \A x \in Registered(r) : r.thread[x].priority = 0 <=> x = FG
    BY <1>1, <1>2, <1>3, <1>5 DEF TableInv
  <2>. QED
    BY <1>3, <2>1, <2>2, <2>3 DEF TableInv
<1>7. \A x \in Registered(s) : Index(r, x) = Index(s, x)
  <2>. SUFFICES ASSUME NEW x \in Registered(s) PROVE Index(r, x) = Index(s, x)
    OBVIOUS
  <2>1. Index(s, x) \in 0 .. N - 1 /\ s.ThreadTable[Index(s, x) + 1] = x
    BY <1>1, TableFacts
  <2>. DEFINE i == Index(s, x)
  <2>2. i \in 0 .. NThreads(r) - 1 /\ i + 1 \in 1 .. N
    <3>. HIDE DEF i, N
    <3>. QED
      BY <1>2, <1>3, <2>1 DEF i
  <2>3. r.ThreadTable[i + 1] = x
    BY <1>3, <2>1, <2>2
  <2>4. Index(r, r.ThreadTable[i + 1]) = i
    <3>. HIDE DEF i
    <3>. QED
      BY <1>3, <1>6, <2>2, TableFacts
  <2>. QED
    BY <2>3, <2>4
<1>8. CountOf(r) = [CountOf(s) EXCEPT ![p] = @ + 1]
  <2>. DEFINE S(q) == {x \in Registered(s) : s.thread[x].priority = q}
              R(q) == {x \in Registered(r) : r.thread[x].priority = q}
  <2>1. \A q : q # p => R(q) = S(q)
    BY <1>3, <1>5
  <2>2. R(p) = S(p) \cup {t} /\ t \notin S(p)
    BY <1>3, <1>5
  <2>3. IsFiniteSet(S(p))
    BY <1>1, RegisteredFinite, FS_Subset
  <2>4. \A q : Count(s, q) = Cardinality(S(q)) /\ Count(r, q) = Cardinality(R(q))
    BY DEF Count
  <2>. HIDE DEF S, R
  <2>5. Count(r, p) = Count(s, p) + 1 /\ \A q : q # p => Count(r, q) = Count(s, q)
    BY <2>1, <2>2, <2>3, <2>4, FS_AddElement
  <2>. QED
    BY <2>5 DEF CountOf
<1>9. Counts(new.usage, CountOf(r))
      /\ new.usage[p] # 0
      /\ \A q \in Priorities : q # p => new.usage[q] = pt.usage[q]
  <2>1. CountOf(s) \in [Priorities -> Nat] /\ Counts(pt.usage, CountOf(s))
    BY <1>1, CountOfFacts DEF PrioritiesInv
  <2>2. pt.usage \in [Priorities -> UsageCounts]
    BY <1>2 DEF Table
  <2>. DEFINE u == pt.usage
              c == CountOf(s)
              d == CountOf(r)
  <2>3. Counts(More(u, p), d) /\ More(u, p)[p] # 0
        /\ \A q \in Priorities : q # p => More(u, p)[q] = u[q]
    <3>1. /\ u \in [Priorities -> UsageCounts] /\ c \in [Priorities -> Nat] /\ Counts(u, c)
          /\ d = [c EXCEPT ![p] = @ + 1]
      BY <1>8, <2>1, <2>2
    <3>. HIDE DEF u, c, d
    <3>. QED
      BY <3>1, MoreCounts
  <2>. QED
    BY <1>4, <2>3
<1>10. PrioritiesInv(r)
  <2>1. \A q \in Priorities \ {0} : r.PriorityTable.usage[q] \in {Count(r, q), Saturated}
    BY <1>3, <1>9, CountOfFacts
  <2>2. ASSUME NEW q \in Priorities, r.PriorityTable.usage[q] # 0 \/ "Deregister" \notin Calls
        PROVE  r.PriorityTable.last[q] < N + 1
    <3>1. pt.last[q] \in Nat
      BY <1>2 DEF Table
    <3>2. CASE q = p /\ pt.usage[p] = 0
      <4>1. new.last[q] = N - 1
        BY <1>4, <3>2
      <4>. HIDE DEF N
      <4>. QED
        BY <1>2, <1>3, <4>1
    <3>3. CASE ~(q = p /\ pt.usage[p] = 0)
      <4>1. pt.usage[q] # 0 \/ "Deregister" \notin Calls
        BY <1>3, <1>9, <2>2, <3>3
      <4>2. pt.last[q] < N
        BY <1>1, <4>1 DEF PrioritiesInv
      <4>3. new.last[q] = pt.last[q]
        BY <1>4, <3>3
      <4>. HIDE DEF N, pt, new
      <4>. QED
        BY <1>2, <1>3, <3>1, <4>2, <4>3
    <3>. QED
      BY <3>2, <3>3
  <2>3. r.PriorityTable.usage[0] = 0
    <3>1. 0 \in Priorities /\ 0 # p /\ pt.usage[0] = 0
      BY <1>1, Numbers DEF PrioritiesInv
    <3>. QED
      BY <1>3, <1>9, <3>1
  <2>. QED
    BY <1>3, <1>4, <2>1, <2>2, <2>3 DEF PrioritiesInv
<1>11. Sound(r)
  <2>1. \A x \in Registered(r) : SaneThread(r, x)
    BY <1>1, <1>3, <1>5 DEF SaneThread
  <2>. QED
    BY <1>1, <1>3, <1>6, <1>10, <2>1 DEF Sound
<1>12. Busy(r) = Busy(s)
  BY <1>3, <1>5 DEF Busy, MidFlight
<1>13. s.cpu \in Registered(s) /\ s.cpu # t
  BY <1>1, TableFacts DEF RunnerInv
<1>14. RunnerInv(r)
  <2>1. s.Context \in 0 .. N - 1
    BY <1>1 DEF RunnerInv
  <2>2. s.Context \in 0 .. (N + 1) - 1 /\ s.Context + 1 \in 1 .. N
    <3>. HIDE DEF N
    <3>. QED
      BY <1>2, <2>1
  <2>. QED
    BY <1>1, <1>3, <1>12, <1>13, <2>2 DEF RunnerInv
<1>15. FramesInv(r)
  BY <1>1, <1>3 DEF FramesInv, IRQsema
<1>16. ASSUME NEW x \in Registered(r) \ {r.cpu}
       PROVE  Asleep(r, x)
  <2>1. CASE x = t
    BY <1>3, <2>1 DEF Asleep
  <2>2. CASE x # t
    <3>1. Asleep(s, x) /\ x \in Registered(s)
      BY <1>3, <1>5, <1>16, <2>2 DEF Inv
    <3>. QED
      BY <1>3, <3>1 DEF Asleep
  <2>. QED
    BY <2>1, <2>2
<1>17. FixedPriorities => PriorityInv(r)
  <2>. SUFFICES ASSUME FixedPriorities PROVE PriorityInv(r)
    OBVIOUS
  <2>1. PriorityInv(s)
    BY DEF Inv
  <2>2. ASSUME NEW x \in Busy(s)
        PROVE  r.PriorityTable.last[r.thread[x].priority] = Index(r, x)
    <3>1. /\ x \in Registered(s) \ {FG} /\ s.PriorityTable.last[s.thread[x].priority] = Index(s, x)
      BY <2>1 DEF PriorityInv, RanLast, Busy
    <3>2. s.thread[x].priority \in Priorities /\ pt.usage[s.thread[x].priority] # 0
      BY <1>1, <3>1, PriorityInUse
    <3>3. new.last[s.thread[x].priority] = pt.last[s.thread[x].priority]
      BY <1>4, <3>2
    <3>. QED
      BY <1>3, <1>7, <3>1, <3>3
  <2>3. \A x \in Busy(s) : x \in Registered(s)
    BY DEF Busy
  <2>. QED
    BY <1>3, <1>12, <1>13, <2>1, <2>2, <2>3 DEF PriorityInv, RanLast
<1>18. KeepsStopped(s, r)
  BY <1>3, <1>5 DEF KeepsStopped, Stopped
<1>19. Inv(r)
  BY <1>11, <1>14, <1>15, <1>16, <1>17 DEF Inv
<1>. QED
  BY <1>18, <1>19 DEF r, Steps

LEMMA StepsTwice ==
  ASSUME NEW s, NEW m, NEW r, Steps(s, m), Steps(m, r), Registered(s) \subseteq Registered(m)
  PROVE  Steps(s, r)
BY DEF Steps, KeepsStopped, Stopped

LEMMA RegisterSteps ==
  ASSUME IInv, NEW t \in RTThread, NEW p \in Priorities, Register(t, p)
  PROVE  Steps(rt, rt')
<1>. DEFINE m == Registers(rt, t, p)
<1>1. Inv(rt) /\ t \notin Registered(rt) /\ p \in Priorities \ {0} /\ rt' = RegisterThread(rt, t, p)
  BY Numbers DEF IInv, Register
<1>2. Steps(rt, m)
  BY <1>1, RegistersSteps
<1>3. RegisterThread(rt, t, p) = m \/ RegisterThread(rt, t, p) = Yield(m, "set", FALSE)
  <2>1. rt.Context \in 0 .. NThreads(rt) - 1 /\ NThreads(rt) \in Nat
    BY <1>1, Fields DEF Inv, RunnerInv, Sound
  <2>2. ~(rt.Context < 0)
    BY <2>1
  <2>. QED
    BY <2>2, Zenon DEF RegisterThread, Registers
<1>4. Registered(rt) \subseteq Registered(m)
  <2>1. /\ NThreads(m) = NThreads(rt) + 1 /\ NThreads(rt) \in Nat
        /\ \A i \in 1 .. NThreads(rt) : m.ThreadTable[i] = rt.ThreadTable[i]
    <3>1. NThreads(rt) \in Nat
      BY <1>1, Fields DEF Inv, Sound
    <3>. QED
      BY <1>1, <3>1, RegistersFields
  <2>2. \A i \in 1 .. NThreads(rt) : i \in 1 .. NThreads(m)
    <3>. HIDE DEF m
    <3>. QED
      BY <2>1
  <2>. QED
    BY <2>1, <2>2 DEF Registered
<1>. HIDE DEF m
<1>5. Steps(m, Yield(m, "set", FALSE))
  BY <1>2, YieldSteps DEF Steps
<1>. QED
  BY <1>1, <1>2, <1>3, <1>4, <1>5, StepsTwice

\* The frames that are marked when t goes.
Marked(s, t) ==
  [d \in 1 .. IRQsema(s) |-> [s.frames[d] EXCEPT !.resumed = @ \/ d \in FramesToPoke(s, t)]]

Deregisters(s, t) ==
  [s EXCEPT
    !.frames = Marked(s, t),
    !.PriorityTable = Renumber(Leave(@, s.thread[t].priority), Index(s, t)),
    !.ThreadTable = SubSeq(@, 1, Index(s, t)) \o SubSeq(@, Index(s, t) + 2, NThreads(s)),
    !.Context = IF @ < 0 \/ @ >= Index(s, t) THEN @ - 1 ELSE @,
    !.thread[t] = NoThread]

\* Only t's own frame is marked, and it lies below those of the running interrupts.
LEMMA PokedFacts ==
  ASSUME NEW s, Inv(s), NEW t \in Registered(s) \ {FG}, t = s.cpu => s.nested = 0
  PROVE  \A d \in FramesToPoke(s, t) :
           /\ d \in 1 .. s.LastKnownIRQsema /\ d \in 1 .. IRQsema(s)
           /\ s.frames[d].owner = t
<1>1. /\ s \in Workspace /\ TableInv(s) /\ RunnerInv(s) /\ FramesInv(s)
      /\ \A x \in Registered(s) \ {s.cpu} : Asleep(s, x)
  BY DEF Inv, Sound
<1>2. /\ s.LastKnownIRQsema \in Nat /\ IRQsema(s) \in Nat /\ s.nested \in Nat
      /\ s.nested = IRQsema(s) - s.LastKnownIRQsema
  <2>1. s.nested \in 0 .. MaxNesting
    BY <1>1, Fields
  <2>. QED
    BY <1>1, <2>1, Fields, Parameters DEF FramesInv
<1>3. s.LastKnownIRQsema <= IRQsema(s) /\ (s.nested = 0 => ~(IRQsema(s) > s.LastKnownIRQsema))
  BY <1>2
<1>4. CASE s.thread[t].pollword = "PreEmpted"
  <2>1. t # s.cpu
    BY <1>1, <1>4 DEF RunnerInv
  <2>. DEFINE d == s.thread[t].stack_frame
  <2>2. d \in 1 .. s.LastKnownIRQsema /\ s.frames[d] = [owner |-> t, resumed |-> FALSE]
    BY <1>1, <1>4, <2>1 DEF Asleep
  <2>3. d \in 1 .. IRQsema(s) /\ s.frames[d].owner = t
    <3>. HIDE DEF d
    <3>. QED
      BY <1>2, <1>3, <2>2
  <2>. QED
    BY <1>4, <2>2, <2>3 DEF FramesToPoke
<1>5. CASE s.thread[t].pollword # "PreEmpted"
  <2>1. s.Context = Index(s, t) => s.cpu = t
    BY <1>1, TableFacts DEF RunnerInv
  <2>2. FramesToPoke(s, t) = {}
    BY <1>3, <1>5, <2>1 DEF FramesToPoke
  <2>. QED
    BY <2>2
<1>. QED
  BY <1>4, <1>5

LEMMA MarkedFacts ==
  ASSUME NEW s \in Workspace, NEW t
  PROVE  /\ Marked(s, t) \in Seq(Frame) /\ Len(Marked(s, t)) = IRQsema(s)
         /\ \A d \in 1 .. IRQsema(s) : d \notin FramesToPoke(s, t) => Marked(s, t)[d] = s.frames[d]
<1>. DEFINE P == FramesToPoke(s, t)
            Mark(f, d) == [f EXCEPT !.resumed = @ \/ d \in P]
            n == IRQsema(s)
<1>1. \A f \in Frame : \A d : Mark(f, d) \in Frame /\ (d \notin P => Mark(f, d) = f)
  BY DEF Frame
<1>2. n \in Nat /\ \A d \in 1 .. n : s.frames[d] \in Frame
  BY Fields
<1>3. Marked(s, t) = [d \in 1 .. n |-> Mark(s.frames[d], d)]
  BY DEF Marked
<1>. HIDE DEF Mark, n, P
<1>4. \A d \in 1 .. n : Mark(s.frames[d], d) \in Frame
                        /\ (d \notin P => Mark(s.frames[d], d) = s.frames[d])
  BY <1>1, <1>2
<1>5. Marked(s, t) \in [1 .. n -> Frame]
  BY <1>3, <1>4
<1>6. Marked(s, t) \in Seq(Frame) /\ Len(Marked(s, t)) = n
  BY <1>2, <1>5, SeqDef, LenProperties
<1>. QED
  BY <1>3, <1>4, <1>6 DEF n, P

\* A sequence of N elements without the one after the first k.
Without(T, N, k) == SubSeq(T, 1, k) \o SubSeq(T, k + 2, N)

LEMMA Shortened ==
  ASSUME NEW S, NEW T \in Seq(S), NEW N \in Nat, Len(T) = N, NEW k \in 0 .. N - 1
  PROVE  /\ Without(T, N, k) \in Seq(S) /\ Len(Without(T, N, k)) = N - 1
         /\ \A i \in 1 .. N - 1 : Without(T, N, k)[i] = IF i <= k THEN T[i] ELSE T[i + 1]
<1>. DEFINE A == SubSeq(T, 1, k)
            B == SubSeq(T, k + 2, N)
<1>1. N \in Nat /\ k \in Nat /\ k <= N - 1
  BY LenProperties
<1>2. A \in Seq(S) /\ Len(A) = k /\ \A i \in 1 .. k : A[i] = T[i]
  <2>1. Len(A) = IF 1 <= k THEN k - 1 + 1 ELSE 0
    BY <1>1, SubSeqProperties
  <2>. QED
    BY <1>1, <2>1, SubSeqProperties
<1>3. B \in Seq(S) /\ Len(B) = N - 1 - k /\ \A i \in 1 .. N - 1 - k : B[i] = T[i + k + 1]
  <2>1. B \in Seq(S)
    BY <1>1, SubSeqProperties
  <2>2. Len(B) = N - 1 - k
    BY <1>1, SubSeqProperties
  <2>3. \A i \in 1 .. N - 1 - k : B[i] = T[i + k + 1]
    BY <1>1, SubSeqProperties
  <2>. QED
    BY <2>1, <2>2, <2>3
<1>. HIDE DEF A, B
<1>4. /\ A \o B \in Seq(S) /\ Len(A \o B) = N - 1
      /\ \A i \in 1 .. N - 1 : (A \o B)[i] = IF i <= k THEN A[i] ELSE B[i - k]
  <2>1. /\ A \o B \in Seq(S) /\ Len(A \o B) = Len(A) + Len(B)
        /\ \A i \in 1 .. Len(A) + Len(B) :
             (A \o B)[i] = IF i <= Len(A) THEN A[i] ELSE B[i - Len(A)]
    BY <1>2, <1>3, ConcatProperties
  <2>2. Len(A) + Len(B) = N - 1 /\ Len(A) = k
    BY <1>1, <1>2, <1>3
  <2>. QED
    BY <2>1, <2>2
<1>5. \A i \in 1 .. N - 1 : (A \o B)[i] = IF i <= k THEN T[i] ELSE T[i + 1]
  <2>. SUFFICES ASSUME NEW i \in 1 .. N - 1
                PROVE  (A \o B)[i] = IF i <= k THEN T[i] ELSE T[i + 1]
    OBVIOUS
  <2>1. CASE i <= k
    <3>1. i \in 1 .. k
      BY <1>1, <2>1
    <3>. QED
      BY <1>2, <1>4, <2>1, <3>1
  <2>2. CASE ~(i <= k)
    <3>1. i - k \in 1 .. N - 1 - k /\ (i - k) + k + 1 = i + 1
      BY <1>1, <2>2
    <3>. QED
      BY <1>3, <1>4, <2>2, <3>1
  <2>. QED
    BY <2>1, <2>2
<1>. QED
  BY <1>4, <1>5 DEF A, B, Without

LEMMA DeregistersFields ==
  ASSUME NEW s, Inv(s), NEW t \in Registered(s) \ {FG}, t = s.cpu => s.nested = 0
  PROVE  LET r == Deregisters(s, t)
             k == Index(s, t)
             p == s.thread[t].priority
         IN  /\ k \in 1 .. NThreads(s) - 1 /\ s.ThreadTable[k + 1] = t
             /\ r \in Workspace /\ NThreads(r) = NThreads(s) - 1
             /\ \A i \in 1 .. NThreads(s) - 1 :
                  r.ThreadTable[i] = IF i <= k THEN s.ThreadTable[i] ELSE s.ThreadTable[i + 1]
             /\ r.thread[t] = NoThread
             /\ \A x \in Thread : x # t => r.thread[x] = s.thread[x]
             /\ r.PriorityTable = Renumber(Leave(s.PriorityTable, p), k)
             /\ r.Context = IF s.Context >= k THEN s.Context - 1 ELSE s.Context
             /\ r.frames = Marked(s, t) /\ r.LastKnownIRQsema = s.LastKnownIRQsema
             /\ r.InBackground = s.InBackground /\ r.Priority = s.Priority
             /\ r.fault = s.fault /\ r.cpu = s.cpu /\ r.nested = s.nested
<1>. DEFINE k == Index(s, t)
            p == s.thread[t].priority
            N == NThreads(s)
            T == Without(s.ThreadTable, N, k)
            th == [s.thread EXCEPT ![t] = NoThread]
            pt == Renumber(Leave(s.PriorityTable, p), k)
            c == IF s.Context < 0 \/ s.Context >= k THEN s.Context - 1 ELSE s.Context
            f == Marked(s, t)
            r == Deregisters(s, t)
<1>1. s \in Workspace /\ Sound(s) /\ TableInv(s) /\ PrioritiesInv(s) /\ RunnerInv(s)
  BY DEF Inv, Sound
<1>2. /\ s.ThreadTable \in Seq(Thread) /\ Len(s.ThreadTable) = N /\ t \in Thread
      /\ N \in Nat \ {0} /\ s.thread \in [Thread -> ThreadInfo] /\ s.PriorityTable \in Table
      /\ k \in 0 .. N - 1 /\ s.ThreadTable[k + 1] = t
  BY <1>1, Fields, TableFacts DEF NThreads
<1>3. k \in 1 .. N - 1
  <2>1. k # 0
    <3>1. s.ThreadTable[0 + 1] = FG
      BY <1>1 DEF TableInv
    <3>. HIDE DEF k
    <3>. QED
      BY <1>2, <3>1
  <2>. HIDE DEF k, N
  <2>. QED
    BY <1>2, <2>1
<1>4. p \in Priorities \ {0} /\ s.PriorityTable.usage[p] # 0
  BY <1>1, PriorityInUse
<1>5. NoThread \in ThreadInfo
  BY Numbers DEF NoThread, ThreadInfo, Pollword
<1>6. th \in [Thread -> ThreadInfo] /\ th[t] = NoThread
      /\ \A x \in Thread : x # t => th[x] = s.thread[x]
  <2>. HIDE DEF NoThread
  <2>. QED
    BY <1>2, <1>5
<1>7. /\ T \in Seq(Thread) /\ Len(T) = N - 1
      /\ \A i \in 1 .. N - 1 : T[i] = IF i <= k THEN s.ThreadTable[i] ELSE s.ThreadTable[i + 1]
  <2>. DEFINE TT == s.ThreadTable
  <2>1. TT \in Seq(Thread) /\ N \in Nat /\ Len(TT) = N /\ k \in 0 .. N - 1
    BY <1>2
  <2>. HIDE DEF TT, N, k
  <2>2. /\ Without(TT, N, k) \in Seq(Thread) /\ Len(Without(TT, N, k)) = N - 1
        /\ \A i \in 1 .. N - 1 : Without(TT, N, k)[i] = IF i <= k THEN TT[i] ELSE TT[i + 1]
    BY <2>1, Shortened
  <2>. QED
    BY <2>2 DEF TT
<1>8. pt \in Table
  <2>1. Leave(s.PriorityTable, p) \in Table /\ Linked(Leave(s.PriorityTable, p))
    BY <1>1, <1>2, <1>4, LeaveFacts DEF PrioritiesInv
  <2>2. k \in Nat \ {0}
    <3>. HIDE DEF k, N
    <3>. QED
      BY <1>2, <1>3
  <2>. QED
    BY <2>1, <2>2, RenumberFacts
<1>9. s.Context \in 0 .. N - 1
  BY <1>1 DEF RunnerInv
<1>10. c \in Int /\ c = IF s.Context >= k THEN s.Context - 1 ELSE s.Context
  <2>. HIDE DEF k, N
  <2>. QED
    BY <1>2, <1>3, <1>9
<1>11. f \in Seq(Frame)
  BY <1>1, MarkedFacts
<1>12. r = [s EXCEPT !.frames = f, !.PriorityTable = pt, !.ThreadTable = T, !.Context = c,
                     !.thread = th]
  BY Zenon DEF Deregisters, Without
<1>. HIDE DEF T, th, pt, c, f, r
<1>13. /\ r \in Workspace /\ r.ThreadTable = T /\ r.thread = th /\ r.PriorityTable = pt
       /\ r.Context = c /\ r.frames = f /\ r.LastKnownIRQsema = s.LastKnownIRQsema
       /\ r.InBackground = s.InBackground /\ r.Priority = s.Priority
       /\ r.fault = s.fault /\ r.cpu = s.cpu /\ r.nested = s.nested
  BY <1>1, <1>6, <1>7, <1>8, <1>10, <1>11, <1>12 DEF Workspace
<1>14. NThreads(r) = N - 1
  BY <1>7, <1>13 DEF NThreads
<1>. QED
  BY <1>2, <1>3, <1>6, <1>7, <1>10, <1>13, <1>14 DEF r, pt, f

LEMMA DeregistersTable ==
  ASSUME NEW s, Inv(s), NEW t \in Registered(s) \ {FG}, t = s.cpu => s.nested = 0
  PROVE  LET r == Deregisters(s, t)
             k == Index(s, t)
         IN  /\ TableInv(r) /\ Registered(r) = Registered(s) \ {t}
             /\ \A x \in Registered(r) :
                  Index(r, x) = IF Index(s, x) > k THEN Index(s, x) - 1 ELSE Index(s, x)
             /\ CountOf(r) = [CountOf(s) EXCEPT ![s.thread[t].priority] = @ - 1]
<1>. DEFINE k == Index(s, t)
            p == s.thread[t].priority
            N == NThreads(s)
            r == Deregisters(s, t)
            T == s.ThreadTable
            U == r.ThreadTable
            old(i) == IF i <= k THEN i ELSE i + 1
<1>1. /\ s \in Workspace /\ Sound(s) /\ TableInv(s) /\ T[1] = FG
      /\ \A i, j \in 1 .. N : T[i] = T[j] => i = j
      /\ \A x \in Registered(s) : s.thread[x].priority = 0 <=> x = FG
      /\ N \in Nat \ {0}
  BY TableFacts DEF Inv, Sound, TableInv
<1>2. /\ k \in 1 .. N - 1 /\ T[k + 1] = t
      /\ r \in Workspace /\ NThreads(r) = N - 1
      /\ \A i \in 1 .. N - 1 : U[i] = IF i <= k THEN T[i] ELSE T[i + 1]
      /\ \A x \in Thread : x # t => r.thread[x] = s.thread[x]
  BY DeregistersFields
<1>3. Registered(s) = {T[i] : i \in 1 .. N} /\ Registered(r) = {U[i] : i \in 1 .. N - 1}
  BY <1>2 DEF Registered
<1>4. Registered(s) \subseteq Thread /\ t \in Registered(s) \ {FG} /\ p \in Priorities \ {0}
  BY <1>1, Fields, PriorityInUse
<1>5. \A x \in Registered(s) : Index(s, x) \in 0 .. N - 1 /\ T[Index(s, x) + 1] = x
  BY <1>1, TableFacts
<1>. HIDE DEF r, k, N, T, U
<1>6. \A i \in 1 .. N - 1 : U[i] = T[old(i)] /\ old(i) \in 1 .. N /\ old(i) # k + 1
  BY <1>1, <1>2
<1>7. \A i, j \in 1 .. N - 1 : old(i) = old(j) => i = j
  BY <1>1, <1>2
<1>8. \A n \in 1 .. N : n # k + 1 => \E i \in 1 .. N - 1 : old(i) = n
  <2>. SUFFICES ASSUME NEW n \in 1 .. N, n # k + 1 PROVE \E i \in 1 .. N - 1 : old(i) = n
    OBVIOUS
  <2>1. CASE n <= k
    <3>1. n \in 1 .. N - 1 /\ old(n) = n
      BY <1>1, <1>2, <2>1
    <3>. QED
      BY <3>1
  <2>2. CASE ~(n <= k)
    <3>1. n - 1 \in 1 .. N - 1 /\ old(n - 1) = n
      BY <1>1, <1>2, <2>2
    <3>. QED
      BY <3>1
  <2>. QED
    BY <2>1, <2>2
<1>. HIDE DEF old
<1>9. k + 1 \in 1 .. N
  BY <1>1, <1>2
<1>10. Registered(r) = Registered(s) \ {t}
  <2>1. ASSUME NEW x \in Registered(r)
        PROVE  x \in Registered(s) \ {t}
    <3>1. PICK i \in 1 .. N - 1 : x = U[i]
      BY <1>3
    <3>2. x = T[old(i)] /\ old(i) \in 1 .. N /\ old(i) # k + 1
      BY <1>6, <3>1
    <3>. QED
      BY <1>1, <1>2, <1>3, <1>9, <3>2
  <2>2. ASSUME NEW x \in Registered(s), x # t
        PROVE  x \in Registered(r)
    <3>1. PICK n \in 1 .. N : x = T[n]
      BY <1>3
    <3>2. PICK i \in 1 .. N - 1 : old(i) = n
      BY <1>2, <1>8, <2>2, <3>1
    <3>. QED
      BY <1>3, <1>6, <3>1, <3>2
  <2>. QED
    BY <2>1, <2>2
<1>11. TableInv(r)
  <2>1. \A i, j \in 1 .. N - 1 : U[i] = U[j] => i = j
    BY <1>1, <1>6, <1>7
  <2>2. U[1] = FG /\ N - 1 > 0
    <3>1. 1 \in 1 .. N - 1 /\ 1 <= k /\ N - 1 > 0
      BY <1>1, <1>2
    <3>. QED
      BY <1>1, <1>2, <3>1
  <2>3. \A x \in Registered(r) : r.thread[x].priority = 0 <=> x = FG
    BY <1>1, <1>2, <1>4, <1>10
  <2>. QED
    BY <1>2, <2>1, <2>2, <2>3 DEF TableInv, U
<1>12. ASSUME NEW x \in Registered(r)
       PROVE  Index(r, x) = IF Index(s, x) > k THEN Index(s, x) - 1 ELSE Index(s, x)
  <2>. DEFINE i == Index(r, x)
              j == Index(s, x)
  <2>1. i \in 0 .. (N - 1) - 1 /\ U[i + 1] = x
    BY <1>2, <1>11, TableFacts DEF U
  <2>2. j \in 0 .. N - 1 /\ T[j + 1] = x
    BY <1>5, <1>10
  <2>. HIDE DEF i, j
  <2>3. i + 1 \in 1 .. N - 1 /\ j + 1 \in 1 .. N
    BY <1>1, <2>1, <2>2
  <2>4. old(i + 1) = j + 1
    BY <1>1, <1>6, <2>1, <2>2, <2>3
  <2>5. i = IF j > k THEN j - 1 ELSE j
    BY <1>1, <1>2, <2>1, <2>2, <2>4 DEF old
  <2>. QED
    BY <2>5 DEF i, j
<1>13. CountOf(r) = [CountOf(s) EXCEPT ![p] = @ - 1]
  <2>. DEFINE S(q) == {x \in Registered(s) : s.thread[x].priority = q}
              R(q) == {x \in Registered(r) : r.thread[x].priority = q}
  <2>1. \A q : R(q) = S(q) \ {t}
    BY <1>2, <1>4, <1>10
  <2>2. t \in S(p) /\ \A q : q # p => t \notin S(q)
    BY <1>4
  <2>3. IsFiniteSet(S(p))
    BY <1>1, RegisteredFinite, FS_Subset
  <2>4. \A q : Count(s, q) = Cardinality(S(q)) /\ Count(r, q) = Cardinality(R(q))
    BY DEF Count
  <2>. HIDE DEF S, R, p
  <2>5. \A q : q # p => R(q) = S(q)
    BY <2>1, <2>2
  <2>6. Cardinality(R(p)) = Cardinality(S(p)) - 1
    BY <2>1, <2>2, <2>3, FS_RemoveElement
  <2>7. Count(r, p) = Count(s, p) - 1 /\ \A q : q # p => Count(r, q) = Count(s, q)
    BY <2>4, <2>5, <2>6
  <2>. QED
    BY <2>7 DEF CountOf
<1>. QED
  BY <1>10, <1>11, <1>12, <1>13 DEF r, k, p

LEMMA DeregistersPriorities ==
  ASSUME NEW s, Inv(s), NEW t \in Registered(s) \ {FG}, t = s.cpu => s.nested = 0,
         "Deregister" \in Calls
  PROVE  LET r == Deregisters(s, t)
             p == s.thread[t].priority
         IN  /\ PrioritiesInv(r) /\ r.PriorityTable.next[p] = s.PriorityTable.next[p]
             /\ \A q \in InUse(r.PriorityTable.usage) : q \in InUse(s.PriorityTable.usage)
             /\ \A q \in Priorities \ {0} : q # p /\ q \in InUse(s.PriorityTable.usage) =>
                  q \in InUse(r.PriorityTable.usage)
             /\ \A q \in InUse(r.PriorityTable.usage), x \in Registered(r) :
                  s.PriorityTable.last[q] = Index(s, x) => r.PriorityTable.last[q] = Index(r, x)
<1>. DEFINE k == Index(s, t)
            p == s.thread[t].priority
            N == NThreads(s)
            r == Deregisters(s, t)
            pt == s.PriorityTable
            lt == Leave(pt, p)
            nt == Renumber(lt, k)
            u == pt.usage
            v == Less(u, p)
<1>1. /\ s \in Workspace /\ Sound(s) /\ TableInv(s) /\ Linked(pt) /\ u[0] = 0
      /\ \A q \in Priorities \ {0} : u[q] \in {Count(s, q), Saturated}
      /\ \A q \in Priorities : u[q] # 0 => pt.last[q] < N
  BY DEF Inv, Sound, PrioritiesInv
<1>2. /\ k \in 1 .. N - 1 /\ N \in Nat /\ r \in Workspace /\ NThreads(r) = N - 1
      /\ r.PriorityTable = nt
  BY <1>1, DeregistersFields, Fields
<1>3. p \in Priorities \ {0} /\ u[p] # 0 /\ pt \in Table
  BY <1>1, PriorityInUse, Fields
<1>4. /\ lt \in Table /\ Linked(lt) /\ lt.usage = v
      /\ lt.last = pt.last /\ lt.next[p] = pt.next[p]
  BY <1>1, <1>3, LeaveFacts
<1>5. k \in Nat \ {0}
  <2>. HIDE DEF k, N
  <2>. QED
    BY <1>2
<1>6. /\ nt \in Table /\ Linked(nt) /\ nt.usage = v /\ nt.next[p] = pt.next[p]
      /\ \A q \in Priorities :
           nt.last[q] = IF q \in Entries(v) /\ pt.last[q] >= k THEN pt.last[q] - 1 ELSE pt.last[q]
  <2>. HIDE DEF lt
  <2>. QED
    BY <1>4, <1>5, RenumberFacts
<1>7. /\ u \in [Priorities -> UsageCounts] /\ v \in [Priorities -> UsageCounts]
      /\ \A q \in Priorities : pt.last[q] \in Nat /\ u[q] \in Nat /\ v[q] \in Nat
  BY <1>3, <1>4, Numbers DEF Table, UsageCounts
<1>8. Counts(v, CountOf(r)) /\ \A q \in Priorities : q # p => v[q] = u[q]
  <2>. DEFINE c == CountOf(s)
              d == CountOf(r)
  <2>1. /\ c \in [Priorities -> Nat] /\ Counts(u, c) /\ d = [c EXCEPT ![p] = @ - 1]
    BY <1>1, CountOfFacts, DeregistersTable
  <2>. HIDE DEF c, d, u, v, p
  <2>2. Counts(Less(u, p), [c EXCEPT ![p] = @ - 1]) /\ \A q \in Priorities : q # p => Less(u, p)[q] = u[q]
    BY <1>3, <1>7, <2>1, LessCounts
  <2>. QED
    BY <2>1, <2>2 DEF c, d, v
<1>9. \A q \in InUse(v) : q \in InUse(u)
  BY <1>3, <1>7, <1>8 DEF InUse
<1>10. \A q \in Priorities \ {0} : q # p /\ q \in InUse(u) => q \in InUse(v)
  BY <1>8 DEF InUse
<1>11. ASSUME NEW q \in Priorities, v[q] # 0
       PROVE  nt.last[q] < N - 1
  <2>1. q # 0
    <3>1. 0 \in Priorities /\ p # 0
      BY <1>3, Numbers
    <3>. HIDE DEF v, u
    <3>. QED
      BY <1>1, <1>8, <1>11, <3>1
  <2>. HIDE DEF v, u, pt, nt, k, N
  <2>2. q \in Entries(v) /\ q \in InUse(v)
    BY <1>7, <1>11, <2>1 DEF Entries, InUse
  <2>3. u[q] # 0
    BY <1>9, <2>2 DEF InUse
  <2>. QED
    BY <1>1, <1>2, <1>6, <1>7, <2>2, <2>3
<1>12. PrioritiesInv(r)
  <2>1. \A q \in Priorities \ {0} : nt.usage[q] \in {Count(r, q), Saturated}
    BY <1>2, <1>6, <1>8, CountOfFacts
  <2>2. nt.usage[0] = 0
    <3>1. 0 \in Priorities /\ p # 0
      BY <1>3, Numbers
    <3>. QED
      BY <1>1, <1>6, <1>8, <3>1
  <2>. QED
    BY <1>2, <1>6, <1>11, <2>1, <2>2 DEF PrioritiesInv
<1>13. ASSUME NEW q \in InUse(v), NEW x \in Registered(r), pt.last[q] = Index(s, x)
       PROVE  nt.last[q] = Index(r, x)
  <2>1. Index(r, x) = IF Index(s, x) > k THEN Index(s, x) - 1 ELSE Index(s, x)
    BY <1>13, DeregistersTable
  <2>2. q \in Entries(v) /\ q \in Priorities
    BY DEF Entries, InUse
  <2>3. Index(s, x) # k
    <3>1. x # t /\ x \in Registered(s)
      BY <1>13, DeregistersTable
    <3>. QED
      BY <1>1, <3>1, TableFacts
  <2>4. nt.last[q] = IF pt.last[q] >= k THEN pt.last[q] - 1 ELSE pt.last[q]
    BY <1>6, <2>2
  <2>5. Index(s, x) \in Nat /\ k \in Nat
    BY <1>5, <1>7, <1>13, <2>2
  <2>. DEFINE j == Index(s, x)
              i == Index(r, x)
              l == nt.last[q]
              m == pt.last[q]
  <2>6. /\ i = (IF j > k THEN j - 1 ELSE j) /\ j # k /\ j \in Nat /\ k \in Nat
        /\ l = (IF m >= k THEN m - 1 ELSE m) /\ m = j
    BY <1>13, <2>1, <2>3, <2>4, <2>5
  <2>. HIDE DEF i, j, k, l, m
  <2>7. l = i
    BY <2>6
  <2>. QED
    BY <2>7 DEF l, i
<1>. QED
  BY <1>2, <1>6, <1>9, <1>10, <1>12, <1>13

\* What is left in the tables when t has gone, whoever runs.
LEMMA DeregistersSound ==
  ASSUME NEW s, Inv(s), NEW t \in Registered(s) \ {FG}, t = s.cpu => s.nested = 0,
         "Deregister" \in Calls
  PROVE  LET r == Deregisters(s, t)
         IN  /\ Sound(r) /\ KeepsStopped(s, r)
             /\ Busy(r) = Busy(s) \ {t} /\ (FixedPriorities => RanLast(r))
             /\ \A x \in Registered(r) \ {s.cpu} : Asleep(r, x)
             /\ IRQsema(r) = IRQsema(s)
             /\ \A d \in s.LastKnownIRQsema + 1 .. IRQsema(s) : r.frames[d] = s.frames[d]
<1>. DEFINE r == Deregisters(s, t)
<1>1. /\ s \in Workspace /\ Sound(s) /\ TableInv(s) /\ s.fault = "none"
      /\ \A x \in Registered(s) : SaneThread(s, x)
      /\ \A x \in Registered(s) \ {s.cpu} : Asleep(s, x)
  BY DEF Inv, Sound
<1>2. /\ r \in Workspace /\ \A x \in Thread : x # t => r.thread[x] = s.thread[x]
      /\ r.frames = Marked(s, t) /\ r.LastKnownIRQsema = s.LastKnownIRQsema
      /\ r.fault = s.fault
  BY DeregistersFields
<1>3. TableInv(r) /\ Registered(r) = Registered(s) \ {t}
  BY DeregistersTable
<1>4. /\ PrioritiesInv(r)
      /\ \A q \in InUse(r.PriorityTable.usage), x \in Registered(r) :
           s.PriorityTable.last[q] = Index(s, x) => r.PriorityTable.last[q] = Index(r, x)
  BY DeregistersPriorities
<1>5. /\ Registered(s) \subseteq Thread /\ s.LastKnownIRQsema \in Nat /\ IRQsema(s) \in Nat
  BY <1>1, Fields
<1>6. /\ \A d \in FramesToPoke(s, t) : d \in 1 .. s.LastKnownIRQsema /\ s.frames[d].owner = t
      /\ IRQsema(r) = IRQsema(s)
      /\ \A d \in 1 .. IRQsema(s) : d \notin FramesToPoke(s, t) => r.frames[d] = s.frames[d]
  BY <1>1, <1>2, PokedFacts, MarkedFacts DEF IRQsema
<1>. HIDE DEF r
<1>7. \A x \in Registered(r) : x \in Registered(s) /\ x # t /\ r.thread[x] = s.thread[x]
  BY <1>2, <1>3, <1>5
<1>8. Sound(r)
  <2>1. \A x \in Registered(r) : SaneThread(r, x)
    BY <1>1, <1>7 DEF SaneThread
  <2>. QED
    BY <1>1, <1>2, <1>3, <1>4, <2>1 DEF Sound
<1>9. Busy(r) = Busy(s) \ {t}
  BY <1>3, <1>7 DEF Busy
<1>10. ASSUME FixedPriorities
       PROVE  RanLast(r)
  <2>1. RanLast(s)
    BY <1>10 DEF Inv, PriorityInv
  <2>2. ASSUME NEW x \in Busy(r)
        PROVE  r.PriorityTable.last[r.thread[x].priority] = Index(r, x)
    <3>1. x \in Busy(s) /\ x \in Registered(r) \ {FG}
      BY <1>9 DEF Busy
    <3>2. r.thread[x].priority \in InUse(r.PriorityTable.usage)
      BY <1>8, <3>1, PriorityInUse
    <3>3. s.PriorityTable.last[r.thread[x].priority] = Index(s, x)
      BY <1>7, <2>1, <3>1 DEF RanLast
    <3>. QED
      BY <1>4, <3>1, <3>2, <3>3
  <2>. QED
    BY <2>2 DEF RanLast
<1>11. ASSUME NEW x \in Registered(r) \ {s.cpu}
       PROVE  Asleep(r, x)
  <2>1. Asleep(s, x) /\ r.thread[x] = s.thread[x] /\ x # t
    BY <1>1, <1>7
  <2>. DEFINE d == s.thread[x].stack_frame
  <2>2. ASSUME s.thread[x].pollword = "PreEmpted"
        PROVE  r.frames[d] = [owner |-> x, resumed |-> FALSE]
    <3>1. d \in 1 .. s.LastKnownIRQsema /\ s.frames[d] = [owner |-> x, resumed |-> FALSE]
      BY <2>1, <2>2 DEF Asleep
    <3>2. d \notin FramesToPoke(s, t)
      BY <1>6, <2>1, <3>1
    <3>3. d \in 1 .. IRQsema(s)
      <4>1. s.nested \in 0 .. MaxNesting /\ s.nested = IRQsema(s) - s.LastKnownIRQsema
        BY <1>1, Fields DEF Inv, FramesInv
      <4>. HIDE DEF d
      <4>. QED
        BY <1>5, <3>1, <4>1, Parameters
    <3>. QED
      BY <1>6, <3>1, <3>2, <3>3
  <2>. QED
    BY <1>2, <2>1, <2>2 DEF Asleep
<1>12. \A d \in s.LastKnownIRQsema + 1 .. IRQsema(s) : r.frames[d] = s.frames[d]
  <2>. SUFFICES ASSUME NEW d \in s.LastKnownIRQsema + 1 .. IRQsema(s)
                PROVE  r.frames[d] = s.frames[d]
    OBVIOUS
  <2>1. d \in 1 .. IRQsema(s) /\ d \notin 1 .. s.LastKnownIRQsema
    BY <1>5
  <2>. QED
    BY <1>6, <2>1
<1>13. KeepsStopped(s, r)
  BY <1>7 DEF KeepsStopped, Stopped
<1>. QED
  BY <1>6, <1>8, <1>9, <1>10, <1>11, <1>12, <1>13 DEF r

\* Another thread than the one that runs is deregistered.
LEMMA DeregistersOther ==
  ASSUME NEW s, Inv(s), NEW t \in Registered(s) \ {FG}, t # s.cpu, "Deregister" \in Calls
  PROVE  Steps(s, Deregisters(s, t))
<1>. DEFINE r == Deregisters(s, t)
            k == Index(s, t)
            c == s.Context
            N == NThreads(s)
<1>1. s \in Workspace /\ Sound(s) /\ TableInv(s) /\ RunnerInv(s) /\ FramesInv(s)
  BY DEF Inv, Sound
<1>2. /\ k \in 1 .. N - 1 /\ s.ThreadTable[k + 1] = t /\ N \in Nat
      /\ NThreads(r) = N - 1
      /\ \A x \in Thread : x # t => r.thread[x] = s.thread[x]
      /\ r.Context = IF c >= k THEN c - 1 ELSE c
      /\ r.LastKnownIRQsema = s.LastKnownIRQsema
      /\ r.InBackground = s.InBackground /\ r.Priority = s.Priority
      /\ r.cpu = s.cpu /\ r.nested = s.nested
  BY <1>1, DeregistersFields, Fields
<1>3. /\ TableInv(r) /\ Registered(r) = Registered(s) \ {t}
      /\ \A x \in Registered(r) :
           Index(r, x) = IF Index(s, x) > k THEN Index(s, x) - 1 ELSE Index(s, x)
  BY DeregistersTable
<1>4. /\ Sound(r) /\ KeepsStopped(s, r)
      /\ Busy(r) = Busy(s) \ {t} /\ (FixedPriorities => RanLast(r))
      /\ \A x \in Registered(r) \ {s.cpu} : Asleep(r, x)
      /\ IRQsema(r) = IRQsema(s)
      /\ \A d \in s.LastKnownIRQsema + 1 .. IRQsema(s) : r.frames[d] = s.frames[d]
  BY DeregistersSound
<1>. HIDE DEF r
<1>5. r \in Workspace
  BY <1>4 DEF Sound
<1>6. /\ c \in 0 .. N - 1 /\ s.ThreadTable[c + 1] = s.cpu /\ Index(s, s.cpu) = c
      /\ s.cpu \in Registered(s) /\ s.cpu \in Thread /\ c # k
  BY <1>1, <1>2, TableFacts DEF RunnerInv
<1>7. s.cpu \in Registered(r)
  BY <1>3, <1>6
<1>8. r.Context = Index(r, s.cpu)
  <2>1. Index(r, s.cpu) = IF c > k THEN c - 1 ELSE c
    BY <1>3, <1>6, <1>7
  <2>. HIDE DEF k, c, N
  <2>. QED
    BY <1>2, <1>6, <2>1
<1>9. RunnerInv(r)
  <2>1. r.Context \in 0 .. NThreads(r) - 1 /\ r.ThreadTable[r.Context + 1] = s.cpu
    BY <1>3, <1>5, <1>7, <1>8, TableFacts
  <2>. QED
    BY <1>1, <1>2, <1>4, <1>6, <2>1 DEF RunnerInv
<1>10. FramesInv(r)
  BY <1>1, <1>2, <1>4 DEF FramesInv
<1>11. FixedPriorities => PriorityInv(r)
  <2>1. \A x \in Busy(r) : x \in Busy(s) /\ r.thread[x] = s.thread[x]
    <3>1. Registered(s) \subseteq Thread
      BY <1>1, Fields
    <3>. QED
      BY <1>2, <1>4, <3>1 DEF Busy
  <2>. QED
    BY <1>2, <1>4, <1>6, <2>1 DEF Inv, PriorityInv
<1>12. Inv(r)
  BY <1>2, <1>4, <1>9, <1>10, <1>11 DEF Inv
<1>. QED
  BY <1>4, <1>12 DEF Steps, r

\* The thread that runs is deregistered: the scan goes on from where it was.
LEMMA DeregistersRunner ==
  ASSUME NEW s, Inv(s), s.cpu # FG, s.nested = 0, "Deregister" \in Calls, FixedPriorities
  PROVE  LET r == Deregisters(s, s.cpu)
         IN  Die(r) = ScanFrom([r EXCEPT !.Context = -1], r.Context) /\ Steps(s, Die(r))
<1>. DEFINE t == s.cpu
            r == Deregisters(s, t)
            g == [r EXCEPT !.Context = -1]
            k == Index(s, t)
            P == s.Priority
            pt == s.PriorityTable
<1>1. /\ s \in Workspace /\ Sound(s) /\ TableInv(s) /\ RunnerInv(s) /\ FramesInv(s)
      /\ Linked(pt) /\ P = s.thread[t].priority
  BY DEF Inv, Sound, PrioritiesInv, PriorityInv
<1>2. t \in Registered(s) \ {FG} /\ s.LastKnownIRQsema \in Nat /\ IRQsema(s) \in Nat
  BY <1>1, TableFacts, Fields DEF RunnerInv
<1>3. P \in InUse(pt.usage) /\ P \in Priorities \ {0}
  BY <1>1, <1>2, PriorityInUse
<1>4. /\ r.LastKnownIRQsema = s.LastKnownIRQsema /\ r.Priority = s.Priority
      /\ \A x \in Thread : x # t => r.thread[x] = s.thread[x]
  BY <1>2, DeregistersFields
<1>5. /\ Sound(r) /\ KeepsStopped(s, r)
      /\ Busy(r) = Busy(s) \ {t} /\ RanLast(r)
      /\ \A x \in Registered(r) \ {t} : Asleep(r, x)
      /\ IRQsema(r) = IRQsema(s) /\ IRQsema(s) = s.LastKnownIRQsema
  <2>1. IRQsema(s) = s.LastKnownIRQsema
    BY <1>1, <1>2 DEF FramesInv
  <2>. QED
    BY <1>2, <2>1, DeregistersSound
<1>6. /\ Registered(r) = Registered(s) \ {t}
  BY <1>2, DeregistersTable
<1>7. /\ r.PriorityTable.next[P] = pt.next[P]
      /\ \A q \in InUse(r.PriorityTable.usage) : q \in InUse(pt.usage)
      /\ \A q \in Priorities \ {0} :
           q # P /\ q \in InUse(pt.usage) => q \in InUse(r.PriorityTable.usage)
  BY <1>1, <1>2, DeregistersPriorities
<1>8. Die(r) = ScanFrom(g, r.Context)
  BY <1>4, <1>5 DEF Die
<1>. HIDE DEF r
<1>9. r \in Workspace /\ r.Context \in Int /\ -1 \in Int
  BY <1>5, Fields DEF Sound
<1>10. /\ g \in Workspace /\ g.Context = -1 /\ g.thread = r.thread
       /\ g.ThreadTable = r.ThreadTable /\ g.PriorityTable = r.PriorityTable
       /\ g.fault = r.fault /\ g.Priority = r.Priority
       /\ g.frames = r.frames /\ g.LastKnownIRQsema = r.LastKnownIRQsema
  BY <1>9 DEF Workspace
<1>. HIDE DEF g
<1>11. /\ NThreads(g) = NThreads(r) /\ Registered(g) = Registered(r)
       /\ \A x : Index(g, x) = Index(r, x)
  BY <1>10, TablesRead
<1>12. Sound(g)
  <2>1. SameTables(r, g)
    BY <1>10 DEF SameTables
  <2>2. \A x \in Registered(r) : SaneThread(g, x)
    BY <1>5, <1>10 DEF Sound, SaneThread
  <2>. QED
    BY <1>5, <1>10, <1>11, <2>1, <2>2, SoundKept DEF Sound
<1>13. Busy(g) = Busy(r)
  BY <1>10, <1>11 DEF Busy
<1>14. Gave(g)
  <2>1. \A x \in Registered(g) : Asleep(g, x)
    BY <1>5, <1>6, <1>10, <1>11 DEF Asleep
  <2>2. RanLast(g)
    BY <1>5, <1>10, <1>11, <1>13 DEF RanLast
  <2>3. g.LastKnownIRQsema = IRQsema(g)
    BY <1>4, <1>5, <1>10 DEF IRQsema
  <2>. QED
    BY <1>10, <1>12, <2>1, <2>2, <2>3 DEF Gave, Idle
<1>15. \A x \in Busy(g) : g.thread[x].priority < g.Priority
  <2>. SUFFICES ASSUME NEW x \in Busy(g) PROVE g.thread[x].priority < g.Priority
    OBVIOUS
  <2>1. x \in Busy(s) \ {t} /\ x \in Registered(s)
    BY <1>5, <1>13 DEF Busy
  <2>2. s.thread[x].priority < s.Priority
    BY <2>1, BelowRunner
  <2>3. g.thread[x] = s.thread[x]
    BY <1>1, <1>4, <1>10, <2>1, Fields
  <2>. QED
    BY <1>4, <1>10, <2>2, <2>3
<1>16. /\ pt.next[P] \in InUse(pt.usage) \cup {0} /\ pt.next[P] # P
       /\ \A q \in InUse(pt.usage) : q < P => q <= pt.next[P]
  BY <1>1, <1>3, NextInUse, Fields
<1>17. /\ g.PriorityTable.next[g.Priority] \in InUse(g.PriorityTable.usage) \cup {0}
       /\ \A q \in InUse(g.PriorityTable.usage) :
            q < g.Priority => q <= g.PriorityTable.next[g.Priority]
  <2>1. pt.next[P] \in InUse(pt.usage) => pt.next[P] \in Priorities \ {0}
    BY DEF InUse
  <2>2. g.PriorityTable.next[g.Priority] = pt.next[P] /\ g.Priority = P
    BY <1>4, <1>7, <1>10
  <2>3. InUse(g.PriorityTable.usage) = InUse(r.PriorityTable.usage)
    BY <1>10
  <2>. HIDE DEF P, pt
  <2>. QED
    BY <1>7, <1>16, <2>1, <2>2, <2>3
<1>18. Goes(g, ScanFrom(g, r.Context))
  BY <1>3, <1>4, <1>9, <1>10, <1>14, <1>15, <1>17, ScanFromGave
<1>19. KeepsStopped(s, g)
  BY <1>5, <1>10, <1>11 DEF KeepsStopped, Stopped
<1>20. Steps(s, ScanFrom(g, r.Context))
  BY <1>18, <1>19, KeptOnce
<1>. QED
  BY <1>8, <1>20 DEF g, r

LEMMA DeregisterSteps ==
  ASSUME ServedCalls, IInv, NEW t \in RTThread, Deregister(t)
  PROVE  Steps(rt, rt')
<1>. DEFINE r == Deregisters(rt, t)
<1>1. /\ Inv(rt) /\ t \in Registered(rt) \ {FG} /\ "Deregister" \in Calls
      /\ t = rt.cpu /\ rt.nested > 0 => "DeregisterInterrupted" \in Calls
      /\ rt' = DeregisterThread(rt, t)
  BY DEF IInv, Deregister
<1>2. FixedPriorities /\ "DeregisterInterrupted" \notin Calls
  BY <1>1 DEF ServedCalls, FixedPriorities
<1>3. rt \in Workspace /\ TableInv(rt) /\ RunnerInv(rt)
  BY <1>1 DEF Inv, Sound
<1>4. t = rt.cpu => rt.nested = 0
  <2>1. rt.nested \in 0 .. MaxNesting
    BY <1>3, Fields
  <2>. QED
    BY <1>1, <1>2, <2>1, Parameters
<1>5. FramesToPoke(rt, t) \subseteq 1 .. IRQsema(rt)
  BY <1>1, <1>4, PokedFacts
<1>6. DeregisterThread(rt, t) = IF rt.Context = Index(rt, t) THEN Die(r) ELSE r
  BY <1>5, Zenon DEF DeregisterThread, Deregisters, Marked
<1>7. rt.Context = Index(rt, t) <=> t = rt.cpu
  BY <1>1, <1>3, TableFacts DEF RunnerInv
<1>8. CASE t = rt.cpu
  <2>1. rt' = Die(r)
    BY <1>1, <1>6, <1>7, <1>8
  <2>2. Steps(rt, Die(r))
    BY <1>1, <1>2, <1>4, <1>8, DeregistersRunner
  <2>. QED
    BY <2>1, <2>2
<1>9. CASE t # rt.cpu
  <2>1. rt' = r
    BY <1>1, <1>6, <1>7, <1>9
  <2>2. Steps(rt, r)
    BY <1>1, <1>9, DeregistersOther
  <2>. QED
    BY <2>1, <2>2
<1>. QED
  BY <1>8, <1>9

Changes(s, t, p) ==
  [s EXCEPT !.PriorityTable = Join(Leave(@, s.thread[t].priority), p), !.thread[t].priority = p]

LEMMA ChangesFields ==
  ASSUME NEW s, Inv(s), NEW t \in Registered(s) \ {FG}, NEW p \in Priorities \ {0}
  PROVE  LET r == Changes(s, t, p)
         IN  /\ r \in Workspace /\ r.ThreadTable = s.ThreadTable
             /\ r.PriorityTable = Join(Leave(s.PriorityTable, s.thread[t].priority), p)
             /\ \A x \in Thread : x # t => r.thread[x] = s.thread[x]
             /\ r.thread[t].priority = p /\ r.thread[t].pollword = s.thread[t].pollword
             /\ r.thread[t].timeout_flag = s.thread[t].timeout_flag
             /\ r.thread[t].recover = s.thread[t].recover
             /\ r.thread[t].stack_frame = s.thread[t].stack_frame
             /\ r.Context = s.Context /\ r.InBackground = s.InBackground
             /\ r.Priority = s.Priority /\ r.fault = s.fault
             /\ r.cpu = s.cpu /\ r.nested = s.nested
             /\ r.frames = s.frames /\ r.LastKnownIRQsema = s.LastKnownIRQsema
<1>. DEFINE i == s.thread[t]
            j == [i EXCEPT !.priority = p]
            th == [s.thread EXCEPT ![t] = j]
            pt == Join(Leave(s.PriorityTable, i.priority), p)
            r == Changes(s, t, p)
<1>1. s \in Workspace /\ Sound(s) /\ TableInv(s) /\ Linked(s.PriorityTable)
  BY DEF Inv, Sound, PrioritiesInv
<1>2. /\ t \in Thread /\ s.thread \in [Thread -> ThreadInfo] /\ i \in ThreadInfo
      /\ s.PriorityTable \in Table
  BY <1>1, Fields
<1>3. /\ j \in ThreadInfo /\ j.priority = p /\ j.pollword = i.pollword
      /\ j.timeout_flag = i.timeout_flag /\ j.recover = i.recover
      /\ j.stack_frame = i.stack_frame
  <2>. HIDE DEF i
  <2>. QED
    BY <1>2 DEF ThreadInfo
<1>4. pt \in Table
  <2>1. i.priority \in Priorities \ {0} /\ s.PriorityTable.usage[i.priority] # 0
    BY <1>1, PriorityInUse
  <2>2. /\ Leave(s.PriorityTable, i.priority) \in Table
        /\ Linked(Leave(s.PriorityTable, i.priority))
    BY <1>1, <1>2, <2>1, LeaveFacts
  <2>. QED
    BY <2>2, JoinFacts
<1>5. r = [s EXCEPT !.PriorityTable = pt, !.thread = th]
  BY Zenon DEF Changes
<1>. HIDE DEF j, pt, r
<1>6. /\ th \in [Thread -> ThreadInfo] /\ th[t] = j /\ \A x \in Thread : x # t => th[x] = s.thread[x]
  BY <1>2, <1>3
<1>. HIDE DEF th
<1>7. /\ r \in Workspace /\ r.ThreadTable = s.ThreadTable /\ r.thread = th /\ r.PriorityTable = pt
      /\ r.Context = s.Context /\ r.InBackground = s.InBackground
      /\ r.Priority = s.Priority /\ r.fault = s.fault
      /\ r.cpu = s.cpu /\ r.nested = s.nested
      /\ r.frames = s.frames /\ r.LastKnownIRQsema = s.LastKnownIRQsema
  BY <1>1, <1>4, <1>5, <1>6 DEF Workspace
<1>. QED
  BY <1>3, <1>6, <1>7 DEF r, pt

LEMMA ChangesSteps ==
  ASSUME NEW s, Inv(s), NEW t \in Registered(s) \ {FG}, NEW p \in Priorities \ {0},
         p # s.thread[t].priority, "Deregister" \notin Calls, ~FixedPriorities
  PROVE  Steps(s, Changes(s, t, p)) /\ Registered(Changes(s, t, p)) = Registered(s)
<1>. DEFINE r == Changes(s, t, p)
            o == s.thread[t].priority
            pt == s.PriorityTable
            lt == Leave(pt, o)
            jt == Join(lt, p)
            u == pt.usage
            v == Less(u, o)
<1>1. /\ s \in Workspace /\ Sound(s) /\ TableInv(s) /\ PrioritiesInv(s) /\ s.fault = "none"
      /\ RunnerInv(s) /\ FramesInv(s) /\ \A x \in Registered(s) : SaneThread(s, x)
      /\ \A x \in Registered(s) \ {s.cpu} : Asleep(s, x)
  BY DEF Inv, Sound
<1>2. /\ r \in Workspace /\ r.ThreadTable = s.ThreadTable /\ r.PriorityTable = jt
      /\ \A x \in Thread : x # t => r.thread[x] = s.thread[x]
      /\ r.thread[t].priority = p /\ r.thread[t].pollword = s.thread[t].pollword
      /\ r.thread[t].timeout_flag = s.thread[t].timeout_flag
      /\ r.thread[t].recover = s.thread[t].recover
      /\ r.thread[t].stack_frame = s.thread[t].stack_frame
      /\ r.Context = s.Context /\ r.InBackground = s.InBackground
      /\ r.Priority = s.Priority /\ r.fault = s.fault
      /\ r.cpu = s.cpu /\ r.nested = s.nested
      /\ r.frames = s.frames /\ r.LastKnownIRQsema = s.LastKnownIRQsema
  BY ChangesFields
<1>. HIDE DEF r
<1>3. /\ NThreads(r) = NThreads(s) /\ Registered(r) = Registered(s)
      /\ \A x : Index(r, x) = Index(s, x)
  BY <1>2, TablesRead
<1>4. Registered(s) \subseteq Thread /\ pt \in Table /\ Linked(pt) /\ u[0] = 0
  BY <1>1, Fields DEF PrioritiesInv
<1>5. o \in Priorities \ {0} /\ u[o] # 0 /\ 0 \in Priorities
  BY <1>1, PriorityInUse, Numbers
<1>6. lt \in Table /\ Linked(lt) /\ lt.usage = v /\ lt.last = pt.last
  BY <1>4, <1>5, LeaveFacts
<1>7. jt \in Table /\ Linked(jt) /\ jt.usage = More(v, p) /\ jt.last = pt.last
  <2>. HIDE DEF lt, v
  <2>. QED
    BY <1>6, JoinFacts
<1>8. \A x \in Registered(s) :
        /\ r.thread[x].pollword = s.thread[x].pollword
        /\ r.thread[x].timeout_flag = s.thread[x].timeout_flag
        /\ r.thread[x].recover = s.thread[x].recover
        /\ r.thread[x].stack_frame = s.thread[x].stack_frame
        /\ r.thread[x].priority = IF x = t THEN p ELSE s.thread[x].priority
  <2>. HIDE DEF jt
  <2>. QED
    BY <1>2, <1>4
<1>. DEFINE c == CountOf(s)
            c1 == [c EXCEPT ![o] = @ - 1]
            c2 == [c1 EXCEPT ![p] = @ + 1]
<1>9. c1 \in [Priorities -> Nat] /\ CountOf(r) = c2
  <2>. DEFINE S(q) == {x \in Registered(s) : s.thread[x].priority = q}
              R(q) == {x \in Registered(r) : r.thread[x].priority = q}
  <2>1. t \in S(o) /\ t \notin S(p)
    OBVIOUS
  <2>2. R(o) = S(o) \ {t} /\ R(p) = S(p) \cup {t} /\ \A q : q # o /\ q # p => R(q) = S(q)
    BY <1>3, <1>8
  <2>3. \A q : IsFiniteSet(S(q))
    <3>. SUFFICES ASSUME NEW q PROVE IsFiniteSet(S(q))
      OBVIOUS
    <3>1. IsFiniteSet(Registered(s))
      BY <1>1, RegisteredFinite
    <3>. QED
      BY <3>1, FS_Subset
  <2>4. \A q : Count(s, q) = Cardinality(S(q)) /\ Count(r, q) = Cardinality(R(q))
    BY DEF Count
  <2>5. c \in [Priorities -> Nat]
    BY <1>1, CountOfFacts
  <2>6. c = [q \in Priorities |-> Count(s, q)] /\ CountOf(r) = [q \in Priorities |-> Count(r, q)]
    BY DEF CountOf
  <2>. HIDE DEF S, R, o, c
  <2>7. Cardinality(R(o)) = Cardinality(S(o)) - 1 /\ Cardinality(R(o)) \in Nat
    <3>1. IsFiniteSet(R(o)) /\ Cardinality(R(o)) = Cardinality(S(o)) - 1
      BY <2>1, <2>2, <2>3, FS_RemoveElement
    <3>. QED
      BY <3>1, FS_CardinalityType
  <2>8. Cardinality(R(p)) = Cardinality(S(p)) + 1
    BY <2>1, <2>2, <2>3, FS_AddElement
  <2>9. c[o] - 1 \in Nat
    BY <1>5, <2>4, <2>6, <2>7
  <2>10. c1 \in [Priorities -> Nat]
    BY <2>5, <2>9
  <2>11. \A q \in Priorities : c2[q] = IF q = p THEN c[q] + 1 ELSE IF q = o THEN c[q] - 1 ELSE c[q]
    <3>1. p # o
      BY DEF o
    <3>. QED
      BY <1>5, <2>5, <3>1
  <2>12. \A q \in Priorities :
           CountOf(r)[q] = IF q = p THEN c[q] + 1 ELSE IF q = o THEN c[q] - 1 ELSE c[q]
    <3>1. \A q \in Priorities : CountOf(r)[q] = Cardinality(R(q)) /\ c[q] = Cardinality(S(q))
      BY <2>4, <2>6
    <3>. QED
      BY <2>2, <2>7, <2>8, <3>1
  <2>13. c2 \in [Priorities -> Int]
    BY <2>10
  <2>. HIDE DEF c1, c2
  <2>. QED
    BY <2>6, <2>10, <2>11, <2>12, <2>13
<1>10. Counts(jt.usage, CountOf(r)) /\ jt.usage[0] = 0
  <2>1. c \in [Priorities -> Nat] /\ Counts(u, c)
    BY <1>1, CountOfFacts DEF PrioritiesInv
  <2>2. u \in [Priorities -> UsageCounts] /\ v \in [Priorities -> UsageCounts]
    BY <1>4, <1>6 DEF Table
  <2>. HIDE DEF u, c, o
  <2>3. Counts(v, c1) /\ \A q \in Priorities : q # o => v[q] = u[q]
    BY <1>5, <2>1, <2>2, LessCounts
  <2>. HIDE DEF v, c1
  <2>4. Counts(More(v, p), c2) /\ \A q \in Priorities : q # p => More(v, p)[q] = v[q]
    BY <1>9, <2>2, <2>3, MoreCounts
  <2>5. More(v, p)[0] = 0
    BY <1>4, <1>5, <2>3, <2>4
  <2>. QED
    BY <1>7, <1>9, <2>4, <2>5
<1>. HIDE DEF c, c1, c2, jt
<1>11. PrioritiesInv(r)
  <2>1. \A q \in Priorities \ {0} : r.PriorityTable.usage[q] \in {Count(r, q), Saturated}
    BY <1>2, <1>10, CountOfFacts
  <2>2. \A q \in Priorities : r.PriorityTable.last[q] < NThreads(r)
    BY <1>1, <1>2, <1>3, <1>7 DEF PrioritiesInv
  <2>. QED
    BY <1>2, <1>7, <1>10, <2>1, <2>2 DEF PrioritiesInv
<1>12. TableInv(r)
  BY <1>1, <1>2, <1>3, <1>8 DEF TableInv
<1>13. Sound(r)
  <2>1. \A x \in Registered(r) : SaneThread(r, x)
    BY <1>1, <1>3, <1>8 DEF SaneThread
  <2>. QED
    BY <1>1, <1>2, <1>11, <1>12, <2>1 DEF Sound
<1>14. Busy(r) = Busy(s)
  BY <1>3, <1>8 DEF Busy, MidFlight
<1>15. RunnerInv(r)
  <2>1. s.cpu \in Registered(s)
    BY <1>1, TableFacts DEF RunnerInv
  <2>. QED
    BY <1>1, <1>2, <1>3, <1>8, <1>14, <2>1 DEF RunnerInv
<1>16. FramesInv(r)
  BY <1>1, <1>2 DEF FramesInv, IRQsema
<1>17. ASSUME NEW x \in Registered(r) \ {r.cpu}
       PROVE  Asleep(r, x)
  <2>1. Asleep(s, x) /\ x \in Registered(s)
    BY <1>1, <1>2, <1>3
  <2>2. /\ r.thread[x].pollword = s.thread[x].pollword
        /\ r.thread[x].recover = s.thread[x].recover
        /\ r.thread[x].stack_frame = s.thread[x].stack_frame
        /\ r.frames = s.frames /\ r.LastKnownIRQsema = s.LastKnownIRQsema
    BY <1>2, <1>8, <2>1
  <2>. QED
    BY <2>1, <2>2, Zenon DEF Asleep
<1>18. KeepsStopped(s, r)
  BY <1>3, <1>8 DEF KeepsStopped, Stopped
<1>. QED
  BY <1>3, <1>13, <1>15, <1>16, <1>17, <1>18 DEF Inv, Steps, r

LEMMA ChangePrioritySteps ==
  ASSUME ServedCalls, IInv, NEW t \in Thread, NEW p \in Priorities, ChangePriority(t, p)
  PROVE  Steps(rt, rt')
<1>. DEFINE r == Changes(rt, t, p)
<1>1. /\ Inv(rt) /\ t \in Registered(rt) /\ p # rt.thread[t].priority /\ (p = 0 => t = FG)
      /\ (IF t = FG THEN "RaiseForeground" ELSE "ChangePriority") \in Calls
      /\ rt' = SetPriority(rt, t, p)
  BY DEF IInv, ChangePriority
<1>2. /\ t # FG /\ "ChangePriority" \in Calls /\ "Deregister" \notin Calls /\ ~FixedPriorities
      /\ p \in Priorities \ {0}
  BY <1>1 DEF ServedCalls, FixedPriorities
<1>3. Steps(rt, r) /\ Registered(r) = Registered(rt)
  BY <1>1, <1>2, ChangesSteps
<1>4. rt.thread[t].pollword # "null"
  BY <1>1, <1>2 DEF Inv, Sound, SaneThread
<1>5. SetPriority(rt, t, p) = r \/ SetPriority(rt, t, p) = Yield(r, "set", FALSE)
  BY <1>4, Zenon DEF SetPriority, Changes
<1>. HIDE DEF r
<1>6. Steps(r, Yield(r, "set", FALSE))
  BY <1>3, YieldSteps DEF Steps
<1>. QED
  BY <1>1, <1>3, <1>5, <1>6, StepsTwice

-----------------------------------------------------------------------------
\* The invariant holds at first and is kept by every action.

LEMMA InitWorkspace ==
  ASSUME Init
  PROVE  /\ rt \in Workspace /\ NThreads(rt) = 1 /\ rt.ThreadTable[1] = FG
         /\ Registered(rt) = {FG}
         /\ rt.thread[FG].pollword = "null" /\ ~rt.thread[FG].timeout_flag
         /\ rt.thread[FG].priority = 0
         /\ rt.PriorityTable = EmptyTable /\ rt.Context = 0 /\ rt.cpu = FG /\ rt.nested = 0
         /\ IRQsema(rt) = 0 /\ rt.LastKnownIRQsema = 0 /\ rt.fault = "none"
<1>. DEFINE T == <<FG>>
            e == <<>>
            th == [t \in Thread |->
                     IF t = FG THEN [NoThread EXCEPT !.pollword = "null"] ELSE NoThread]
<1>1. T \in Seq(Thread) /\ Len(T) = 1 /\ T[1] = FG
  BY Parameters
<1>2. e \in Seq(Frame) /\ Len(e) = 0
  OBVIOUS
<1>3. /\ th \in [Thread -> ThreadInfo] /\ th[FG].pollword = "null" /\ ~th[FG].timeout_flag
      /\ th[FG].priority = 0
  BY Parameters, Numbers DEF ThreadInfo, NoThread, Pollword
<1>4. EmptyTable \in Table
  BY EmptyTableFacts
<1>5. rt = [ThreadTable |-> T, thread |-> th, PriorityTable |-> EmptyTable,
            Context |-> 0, InBackground |-> FALSE, NTicks |-> 0,
            LastKnownIRQsema |-> 0, Priority |-> 0,
            frames |-> e, cpu |-> FG, nested |-> 0, fault |-> "none"]
  BY DEF Init
<1>. HIDE DEF T, e, th
<1>6. rt \in Workspace
  <2>1. /\ 0 \in 0 .. OverloadThreshold /\ 0 \in 0 .. MaxNesting /\ 0 \in Priorities
        /\ FG \in Thread
    BY Parameters, Numbers
  <2>. HIDE DEF EmptyTable
  <2>. QED
    BY <1>1, <1>2, <1>3, <1>4, <1>5, <2>1 DEF Workspace
<1>7. /\ rt.ThreadTable = T /\ rt.thread = th /\ rt.frames = e
      /\ rt.PriorityTable = EmptyTable /\ rt.Context = 0 /\ rt.cpu = FG /\ rt.nested = 0
      /\ rt.LastKnownIRQsema = 0 /\ rt.fault = "none"
  BY <1>5
<1>8. NThreads(rt) = 1 /\ IRQsema(rt) = 0
  BY <1>1, <1>2, <1>7 DEF NThreads, IRQsema
<1>9. Registered(rt) = {FG}
  <2>1. 1 .. 1 = {1}
    OBVIOUS
  <2>. QED
    BY <1>1, <1>7, <1>8, <2>1 DEF Registered
<1>. QED
  BY <1>1, <1>3, <1>6, <1>7, <1>8, <1>9

LEMMA InitInv ==
  ASSUME Init
  PROVE  IInv
<1>1. /\ rt \in Workspace /\ NThreads(rt) = 1 /\ rt.ThreadTable[1] = FG
      /\ Registered(rt) = {FG}
      /\ rt.thread[FG].pollword = "null" /\ ~rt.thread[FG].timeout_flag
      /\ rt.thread[FG].priority = 0
      /\ rt.PriorityTable = EmptyTable /\ rt.Context = 0 /\ rt.cpu = FG /\ rt.nested = 0
      /\ IRQsema(rt) = 0 /\ rt.LastKnownIRQsema = 0 /\ rt.fault = "none"
  BY InitWorkspace
<1>2. TableInv(rt)
  BY <1>1 DEF TableInv
<1>3. PrioritiesInv(rt)
  <2>1. Linked(EmptyTable)
    BY EmptyTableFacts
  <2>2. \A p \in Priorities : EmptyTable.usage[p] = 0 /\ EmptyTable.last[p] = 0
    BY DEF EmptyTable
  <2>3. \A p \in Priorities \ {0} : Count(rt, p) = 0
    <3>. SUFFICES ASSUME NEW p \in Priorities \ {0} PROVE Count(rt, p) = 0
      OBVIOUS
    <3>1. {t \in Registered(rt) : rt.thread[t].priority = p} = {}
      BY <1>1
    <3>. QED
      BY <3>1, FS_EmptySet DEF Count
  <2>. QED
    BY <1>1, <2>1, <2>2, <2>3, Numbers DEF PrioritiesInv
<1>4. Sound(rt)
  BY <1>1, <1>2, <1>3 DEF Sound, SaneThread
<1>5. Busy(rt) = {}
  BY <1>1 DEF Busy
<1>6. RunnerInv(rt)
  BY <1>1, <1>5 DEF RunnerInv
<1>7. FramesInv(rt)
  BY <1>1 DEF FramesInv
<1>8. PriorityInv(rt)
  BY <1>1, <1>5 DEF PriorityInv, RanLast
<1>9. word \in [Thread -> BOOLEAN]
  BY DEF Init
<1>. QED
  BY <1>1, <1>4, <1>6, <1>7, <1>8, <1>9 DEF IInv, Inv

LEMMA EndInterruptSteps ==
  ASSUME IInv, EndInterrupt
  PROVE  /\ Steps(rt, rt')
         /\ rt'.nested = 0 /\ rt'.NTicks < OverloadThreshold => HighestRuns(rt')
<1>1. Inv(rt) /\ rt.nested > 0 /\ rt' = MyUnthreadV(rt)
  BY DEF IInv, EndInterrupt
<1>. QED
  BY <1>1, UnthreadSteps

LEMMA ThreadReturnSteps ==
  ASSUME ServedCalls, IInv, NEW t \in RTThread, NEW timed \in BOOLEAN, NEW rescan \in BOOLEAN,
         ThreadReturn(t, timed, rescan)
  PROVE  Steps(rt, rt')
<1>1. /\ Inv(rt) /\ rt.nested = 0 /\ rt.cpu = t /\ (~rescan => "PlainReturn" \in Calls)
      /\ rt' = Yielded(rt, "own", timed, rescan)
  BY DEF IInv, ThreadReturn, Running
<1>2. rescan \/ (FixedPriorities /\ rt.cpu # FG)
  BY <1>1, Parameters DEF ServedCalls, FixedPriorities
<1>. QED
  BY <1>1, <1>2, YieldedSteps

LEMMA YieldSWISteps ==
  ASSUME IInv, NEW t \in Thread, NEW timed \in BOOLEAN, YieldSWI(t, timed)
  PROVE  Steps(rt, rt')
<1>1. Inv(rt) /\ rt' = Yield(rt, "own", timed)
  BY DEF IInv, YieldSWI
<1>. QED
  BY <1>1, YieldSteps

\* Every step keeps the invariant, and the stopped threads stopped.
LEMMA NextSteps ==
  ASSUME ServedCalls, IInv, [Next]_vars
  PROVE  IInv' /\ KeepsStopped(rt, rt')
<1>1. Inv(rt) /\ word \in [Thread -> BOOLEAN]
  BY DEF IInv
<1>2. Steps(rt, rt)
  BY <1>1 DEF Steps, KeepsStopped
<1>3. ASSUME Steps(rt, rt'), UNCHANGED word
      PROVE  IInv' /\ KeepsStopped(rt, rt')
  BY <1>1, <1>3 DEF IInv, Steps
<1>4. ASSUME NEW t \in Thread, NEW b \in BOOLEAN, word' = [word EXCEPT ![t] = b], UNCHANGED rt
      PROVE  IInv' /\ KeepsStopped(rt, rt')
  <2>1. word' \in [Thread -> BOOLEAN]
    BY <1>1, <1>4
  <2>. QED
    BY <1>1, <1>2, <1>4, <2>1 DEF IInv, Steps
<1>5. CASE UNCHANGED vars
  BY <1>2, <1>3, <1>5 DEF vars
<1>6. CASE Interrupt
  BY <1>3, <1>6, InterruptSteps DEF Interrupt
<1>7. CASE EndInterrupt
  BY <1>3, <1>7, EndInterruptSteps DEF EndInterrupt
<1>8. CASE AbortRecover
  BY <1>3, <1>8, AbortSteps DEF AbortRecover
<1>9. ASSUME NEW due \in SUBSET Waiting, Ticker(due)
      PROVE  IInv' /\ KeepsStopped(rt, rt')
  BY <1>3, <1>9, TickerSteps DEF Ticker
<1>10. ASSUME NEW t \in Thread, SetWord(t) \/ ClearWord(t)
       PROVE  IInv' /\ KeepsStopped(rt, rt')
  BY <1>4, <1>10 DEF SetWord, ClearWord
<1>11. ASSUME NEW t \in RTThread, NEW timed \in BOOLEAN, NEW rescan \in BOOLEAN,
              ThreadReturn(t, timed, rescan)
       PROVE  IInv' /\ KeepsStopped(rt, rt')
  BY <1>3, <1>11, ThreadReturnSteps DEF ThreadReturn
<1>12. ASSUME NEW t \in Thread, NEW timed \in BOOLEAN, YieldSWI(t, timed)
       PROVE  IInv' /\ KeepsStopped(rt, rt')
  BY <1>3, <1>12, YieldSWISteps DEF YieldSWI
<1>13. ASSUME NEW t \in RTThread, Deregister(t)
       PROVE  IInv' /\ KeepsStopped(rt, rt')
  BY <1>3, <1>13, DeregisterSteps DEF Deregister
<1>14. ASSUME NEW t \in RTThread, NEW p \in Priorities, Register(t, p)
       PROVE  IInv' /\ KeepsStopped(rt, rt')
  BY <1>3, <1>14, RegisterSteps DEF Register
<1>15. ASSUME NEW t \in Thread, NEW p \in Priorities, ChangePriority(t, p)
       PROVE  IInv' /\ KeepsStopped(rt, rt')
  BY <1>3, <1>15, ChangePrioritySteps DEF ChangePriority
<1>. QED
  BY <1>5, <1>6, <1>7, <1>8, <1>9, <1>10, <1>11, <1>12, <1>13, <1>14, <1>15 DEF Next

-----------------------------------------------------------------------------
\* What is proved of every behaviour.

\* The invariant: what RTSupport's tables, the thread that runs, the frames of the IRQ
\* stack and the pre-empted threads have to do with each other between any two entries
\* to scheduler.s and module.c.
THEOREM Invariance ==
  ASSUME ServedCalls
  PROVE  Spec => []IInv
<1>1. Init => IInv
  BY InitInv
<1>2. IInv /\ [Next]_vars => IInv'
  BY NextSteps
<1>. QED
  BY <1>1, <1>2, PTL DEF Spec

\* The workspace keeps its types: every thread has a priority of the table, a frame's
\* owner is a thread or a handler, and NTicks does not pass the relief valve's threshold.
THEOREM TypeCorrect ==
  ASSUME ServedCalls
  PROVE  Spec => []TypeOK
<1>1. IInv => TypeOK
  BY DEF IInv, Inv, Sound, TypeOK
<1>. QED
  BY <1>1, Invariance, PTL

\* No scan reads past the thread table (scheduler.s 433-449) or follows a NULL pollword,
\* no frame is resumed twice, and the frame a recovery wants is there.
THEOREM NeverFaults ==
  ASSUME ServedCalls
  PROVE  Spec => []NoFault
<1>1. IInv => NoFault
  BY DEF IInv, Inv, Sound, NoFault
<1>. QED
  BY <1>1, Invariance, PTL

\* Whenever no interrupt handler runs, Context is the number of the thread that has the
\* CPU, however the table has been renumbered (module.c 798-876).
THEOREM ContextIsRunner ==
  ASSUME ServedCalls
  PROVE  Spec => []ContextNamesRunner
<1>1. IInv => ContextNamesRunner
  BY DEF IInv, Inv, RunnerInv, ContextNamesRunner
<1>. QED
  BY <1>1, Invariance, PTL

\* LastKnownIRQsema (scheduler.s 404-424) stays the depth at which the running thread was
\* started, so what lies above it are the frames of the running handlers.
THEOREM InterruptsAreDetected ==
  ASSUME ServedCalls
  PROVE  Spec => []InterruptContextDetected
<1>1. IInv => InterruptContextDetected
  BY DEF IInv, Inv, FramesInv, InterruptContextDetected, IRQsema
<1>. QED
  BY <1>1, Invariance, PTL

\* Every pre-empted thread has its own live frame to be resumed from (scheduler.s
\* 855-948), whatever has been stripped off the stack above it.
THEOREM FramesAreKept ==
  ASSUME ServedCalls
  PROVE  Spec => []PreemptedOwnsFrame
<1>1. IInv => PreemptedOwnsFrame
  BY DEF IInv, Inv, Asleep, PreemptedOwnsFrame
<1>. QED
  BY <1>1, Invariance, PTL

\* The list of priorities visits those in use from the top down, and the counts count
\* the threads, but for those once too large for a byte (module.c 725-743, 840-867,
\* 950-986).
THEOREM TableCounts ==
  ASSUME ServedCalls
  PROVE  Spec => []PriorityTableCounts
<1>1. IInv => PriorityTableCounts
  <2>. SUFFICES ASSUME IInv PROVE PriorityTableCounts
    OBVIOUS
  <2>1. rt \in Workspace /\ PrioritiesInv(rt)
    BY DEF IInv, Inv, Sound
  <2>2. WellLinked(rt.PriorityTable)
    BY <2>1, Fields, LinkedIsWellLinked DEF PrioritiesInv
  <2>. QED
    BY <2>1, <2>2 DEF PrioritiesInv, Count, PriorityTableCounts
<1>. QED
  BY <1>1, Invariance, PTL

\* The scan of a priority in use starts from a thread number in the table, though
\* deregistrations take numbers away (module.c 864-867).
THEOREM LastIsInTable ==
  ASSUME ServedCalls
  PROVE  Spec => []LastExecutedInTable
<1>1. IInv => LastExecutedInTable
  BY DEF IInv, Inv, Sound, PrioritiesInv, LastExecutedInTable
<1>. QED
  BY <1>1, Invariance, PTL

\* Threads of one priority take turns: unless priorities change, at most one of them is
\* in the middle of its work, so the last thread run there says which (scheduler.s
\* 433-449).
THEOREM OneAtATime ==
  ASSUME ServedCalls, FixedPriorities
  PROVE  Spec => []OneMidFlightPerPriority
<1>1. IInv => OneMidFlightPerPriority
  <2>. SUFFICES ASSUME IInv, NEW t \in Registered(rt) \ {FG}, NEW u \in Registered(rt) \ {FG},
                       t # u, rt.thread[t].priority = rt.thread[u].priority,
                       MidFlight(rt.thread[t]), MidFlight(rt.thread[u])
                PROVE  FALSE
    BY DEF OneMidFlightPerPriority
  <2>1. rt \in Workspace /\ TableInv(rt) /\ RanLast(rt)
    BY DEF IInv, Inv, Sound, PriorityInv
  <2>2. Index(rt, t) = Index(rt, u)
    BY <2>1 DEF RanLast, Busy
  <2>3. rt.ThreadTable[Index(rt, t) + 1] = t /\ rt.ThreadTable[Index(rt, u) + 1] = u
    BY <2>1, TableFacts
  <2>. QED
    BY <2>2, <2>3
<1>. QED
  BY <1>1, Invariance, PTL

\* A thread that SomethingsGoneWrong stopped (scheduler.s 798-835) stays stopped: no time
\* limit, scan or recovery starts it again.
THEOREM StoppedForGood ==
  ASSUME ServedCalls
  PROVE  Spec => AbortedStaysStopped
<1>1. IInv /\ [Next]_vars =>
        [\A t \in Stopped(rt) : t \in Registered(rt') => t \in Stopped(rt')]_vars
  BY NextSteps DEF KeepsStopped
<1>. QED
  BY <1>1, Invariance, PTL DEF Spec, AbortedStaysStopped

\* When the last handler ends with the relief valve shut, MyUnthreadV (scheduler.s
\* 404-424) leaves nothing ready above what runs.
THEOREM HighestReadyRuns ==
  ASSUME ServedCalls
  PROVE  Spec => HighestPriorityRuns
<1>1. IInv /\ [Next]_vars =>
        [ (rt.nested > 0 /\ rt'.nested = 0 /\ rt'.NTicks < OverloadThreshold /\ EndInterrupt) =>
            \A t \in Registered(rt') :
              PollwordSet(rt', t) => rt'.thread[t].priority <= rt'.thread[rt'.cpu].priority ]_vars
  BY EndInterruptSteps DEF HighestRuns
<1>. QED
  BY <1>1, Invariance, PTL DEF Spec, HighestPriorityRuns
=============================================================================
