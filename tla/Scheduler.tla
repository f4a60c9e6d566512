------------------------------ MODULE Scheduler ------------------------------
(* RTSupport's scheduler: real-time threads above the foreground, switched   *)
(* when the IRQ dispatcher unthreads or when a thread yields (scheduler.s,   *)
(* module.c).                                                                *)
(*                                                                           *)
(* Everything RTSupport does, it does with IRQs off, so each entry to it is  *)
(* one step: the end of an interrupt (MyUnthreadV), a thread's return or     *)
(* yield (Yielded), a SWI, a tick, a recovery from an abort.  An entry makes *)
(* several changes in order; each is an operator from one workspace to the   *)
(* next, and rt, the workspace with the IRQ stack and the CPU, is the state. *)
(*                                                                           *)
(* Addresses of IRQ stack frames are depths: frame 1 is the outermost, and   *)
(* the kernel's IRQsema, the address of the innermost, is Len(rt.frames).    *)
EXTENDS PriorityTable, Sequences

CONSTANTS
  RTThread,           \* real-time threads that may be registered
  FG,                 \* the foreground, thread 0
  OverloadThreshold,  \* ticks without the foreground before the relief valve opens
  Calls,              \* what clients do in this instance (see ClientCalls)
  MaxNesting,         \* bound: interrupt handlers active at once
  MaxFrames           \* bound: frames on the IRQ stack

ClientCalls ==
  {"Deregister", "DeregisterInterrupted", "ChangePriority", "RaiseForeground",
   "ForegroundYield", "TimedYield", "PlainReturn", "Abort"}

ASSUME SchedulerAssumption ==
  /\ FG \notin RTThread
  /\ OverloadThreshold \in Nat \ {0}
  /\ Calls \subseteq ClientCalls
  /\ MaxNesting \in Nat \ {0}
  /\ MaxFrames \in Nat

Thread == RTThread \cup {FG}

VARIABLES
  rt,   \* the workspace (below)
  word  \* the pollword of each thread: is it set?

vars == <<rt, word>>

\* Where a thread's pollword pointer points: at its own word, or at one of the
\* fixed words of scheduler.s 103-116 and module.c 747.
Pollword == {"own", "set", "PreEmpted", "Executing", "TimedOut", "Aborted",
             "CollateralDamage", "null"}

\* thread_t, as far as it matters here.  recover: the entry point is
\* PreEmptionRecovery.
ThreadInfo == [priority : Priorities, pollword : Pollword, timeout_flag : BOOLEAN,
               recover : BOOLEAN, stack_frame : Nat]

NoThread == [priority |-> 0, pollword |-> "own", timeout_flag |-> FALSE,
             recover |-> FALSE, stack_frame |-> 0]

Frame == [owner : Thread \cup {"handler"}, resumed : BOOLEAN]

\* rt.cpu is what runs when no interrupt handler does, and rt.nested how many
\* handlers do; the code has neither and must tell them from Context, *IRQsema
\* and LastKnownIRQsema.  rt.fault records an access the code must not make.
Workspace ==
  [ThreadTable : Seq(Thread), thread : [Thread -> ThreadInfo], PriorityTable : Table,
   Context : Int, InBackground : BOOLEAN, NTicks : 0 .. OverloadThreshold,
   LastKnownIRQsema : Nat, Priority : Priorities,
   frames : Seq(Frame), cpu : Thread, nested : 0 .. MaxNesting,
   fault : {"none", "ThreadTable", "NULL pollword", "lost frame", "ThreadResumed"}]

TypeOK == rt \in Workspace /\ word \in [Thread -> BOOLEAN]

Init ==
  /\ rt = [ThreadTable |-> <<FG>>,
           thread |-> [t \in Thread |->
                        IF t = FG THEN [NoThread EXCEPT !.pollword = "null"] ELSE NoThread],
           PriorityTable |-> EmptyTable,
           Context |-> 0, InBackground |-> FALSE, NTicks |-> 0,
           LastKnownIRQsema |-> 0, Priority |-> 0,
           frames |-> <<>>, cpu |-> FG, nested |-> 0, fault |-> "none"]
  /\ word = [t \in Thread |-> FALSE]

-----------------------------------------------------------------------------
\* Reading the workspace.

NThreads(s) == Len(s.ThreadTable)
IRQsema(s) == Len(s.frames)
At(s, i) == s.thread[s.ThreadTable[i + 1]]
Index(s, t) == CHOOSE i \in 0 .. NThreads(s) - 1 : s.ThreadTable[i + 1] = t
Registered(s) == {s.ThreadTable[i] : i \in 1 .. NThreads(s)}

Fault(s, what) == [s EXCEPT !.fault = what]

\* Pre-empted, or interrupted while executing (scheduler.s 107-109, 443, 470).
MidFlight(i) == i.pollword \in {"PreEmpted", "Executing"}

\* Mutant: the word that stands for an aborted thread is not zero.
PollwordSet_AbortedIsSet(s, t) == s.thread[t].pollword # "own" \/ word[t]

\* The pollword is non-zero.
PollwordSet(s, t) ==
  \/ s.thread[t].pollword \in {"set", "PreEmpted", "Executing", "TimedOut"}
  \/ s.thread[t].pollword = "own" /\ word[t]

\* Mutant: the threshold is not looked at.
Ready_NoReliefValve(s, i) == PollwordSet(s, s.ThreadTable[i + 1])

\* What the scan accepts (scheduler.s 468-476).
Ready(s, i) ==
  IF s.NTicks >= OverloadThreshold THEN MidFlight(At(s, i))
  ELSE PollwordSet(s, s.ThreadTable[i + 1])

\* The numbers of the ready threads of priority p.
ReadyAt(s, p) == {i \in 0 .. NThreads(s) - 1 : At(s, i).priority = p /\ Ready(s, i)}

\* next_thread_no_check: the first of them after thread i, round the table; i
\* itself comes last.
RoundRobin(s, p, i) ==
  LET ready == ReadyAt(s, p)
      distance(j) == (j - i - 1) % NThreads(s)
  IN  CHOOSE j \in ready : \A k \in ready : distance(j) <= distance(k)

\* Reading the pollword of a thread whose pointer is NULL: the foreground has none
\* until it first yields or is pre-empted.
ReadsNull(s, p) ==
  \E i \in 0 .. NThreads(s) - 1 :
    /\ At(s, i).priority = p
    /\ At(s, i).pollword = "null"
    /\ s.NTicks < OverloadThreshold

-----------------------------------------------------------------------------
\* Leaving the IRQ dispatcher without a switch: the kernel pops the frame and goes
\* on with what it interrupted (NewIRQs.s 62-75).
KernelExit(s) ==
  IF s.frames[IRQsema(s)].resumed THEN Fault(s, "ThreadResumed")
  ELSE [s EXCEPT !.frames = SubSeq(@, 1, IRQsema(s) - 1), !.nested = @ - 1]

\* Mutant: only the current thread is stopped.
SomethingsGoneWrong_CurrentOnly(s) ==
  IF s.Context \in {0, -1} THEN [s EXCEPT !.Context = 0]
  ELSE [s EXCEPT !.Context = 0,
                 !.thread[s.ThreadTable[s.Context + 1]] =
                   [@ EXCEPT !.timeout_flag = FALSE, !.pollword = "Aborted"]]

\* The IRQ stack was flattened behind our back (scheduler.s 798-835).
SomethingsGoneWrong(s) ==
  LET c == s.Context
      Damage(t, i) ==
        IF c \notin {0, -1} /\ t = s.ThreadTable[c + 1]
        THEN [i EXCEPT !.timeout_flag = FALSE, !.pollword = "Aborted"]
        ELSE IF t # FG /\ t \in Registered(s) /\ i.pollword = "PreEmpted"
        THEN [i EXCEPT !.timeout_flag = FALSE, !.pollword = "CollateralDamage"]
        ELSE i
  IN  IF c \notin -1 .. NThreads(s) - 1 THEN Fault(s, "ThreadTable")
      ELSE [s EXCEPT !.Context = 0,
                     !.thread = [t \in Thread |-> Damage(t, s.thread[t])]]

\* Mutant: the resumed frame alone is taken off, from wherever it is.
PreEmptionRecovery_TopOnly(s, t) ==
  [s EXCEPT !.frames = SubSeq(@, 1, IRQsema(s) - 1), !.LastKnownIRQsema = IRQsema(s) - 1]

\* Resuming a pre-empted thread takes its registers from its IRQ stack frame, marks
\* the frame resumed, and strips the resumed frames off the top of the stack
\* (scheduler.s 855-948).
PreEmptionRecovery(s, t) ==
  LET f == s.thread[t].stack_frame
      marked == [s.frames EXCEPT ![f].resumed = TRUE]
      live == {d \in 1 .. IRQsema(s) : ~marked[d].resumed}
      top == IF live = {} THEN 0 ELSE Max(live)
  IN  IF f \notin 1 .. IRQsema(s) \/ s.frames[f] # [owner |-> t, resumed |-> FALSE]
      THEN Fault(s, "lost frame")
      ELSE [s EXCEPT !.frames = SubSeq(marked, 1, top), !.LastKnownIRQsema = top]

\* resume_thread (scheduler.s 515-549)
ResumeThread(s, t) ==
  LET s1 == IF s.thread[t].recover THEN PreEmptionRecovery(s, t) ELSE s
  IN  [s1 EXCEPT !.thread[t] = [@ EXCEPT !.pollword = "Executing", !.timeout_flag = FALSE],
                 !.cpu = t, !.nested = 0]

\* PreEmpt (scheduler.s 708-796): thread number c was interrupted; its frame is
\* the innermost.
PreEmpt(s, c) ==
  IF c \notin 0 .. NThreads(s) - 1 THEN Fault(s, "ThreadTable")
  ELSE [s EXCEPT !.thread[s.ThreadTable[c + 1]] =
         [@ EXCEPT !.pollword = "PreEmpted", !.timeout_flag = FALSE, !.recover = TRUE,
                   !.stack_frame = IRQsema(s)]]

\* Mutant: the new thread's depth of the IRQ stack is not noted.
SwitchToThread_NoLastKnown(s, i, p) ==
  LET s1 == [s EXCEPT !.InBackground = TRUE]
      s2 == [s1 EXCEPT !.PriorityTable.last[p] = i, !.Context = i, !.Priority = p]
      s3 == IF s.Context = -1 THEN s2 ELSE PreEmpt(s2, s.Context)
  IN  IF s.Context = i THEN KernelExit(s1) ELSE ResumeThread(s3, s.ThreadTable[i + 1])

\* Mutant: Context is left at the thread that gave way.
SwitchToThread_OldContext(s, i, p) ==
  LET s1 == [s EXCEPT !.InBackground = TRUE, !.PriorityTable.last[p] = i, !.Priority = p,
                      !.LastKnownIRQsema = IRQsema(s)]
      s2 == IF s.Context = -1 THEN s1 ELSE PreEmpt(s1, s.Context)
  IN  IF s.Context = i THEN KernelExit(s) ELSE ResumeThread(s2, s.ThreadTable[i + 1])

\* switch_to_thread (scheduler.s 477-514)
SwitchToThread(s, i, p) ==
  LET s1 == [s EXCEPT !.InBackground = TRUE]
      s2 == [s1 EXCEPT !.PriorityTable.last[p] = i, !.Context = i, !.Priority = p,
                       !.LastKnownIRQsema = IRQsema(s)]
      s3 == IF s.Context = -1 THEN s2 ELSE PreEmpt(s2, s.Context)
  IN  IF s.Context = i THEN KernelExit(s1) ELSE ResumeThread(s3, s.ThreadTable[i + 1])

\* return_to_foreground (scheduler.s 651-706): the IRQ stack is flattened.  A
\* pre-empted foreground goes on from its frame, one that yielded is resumed.
ReturnToForeground(s) ==
  LET fg == s.thread[FG]
      s1 == [s EXCEPT !.InBackground = FALSE, !.Context = 0, !.Priority = 0]
      flat == [s1 EXCEPT !.frames = <<>>, !.LastKnownIRQsema = 0, !.cpu = FG, !.nested = 0]
  IN  IF s.Context = 0 THEN KernelExit(s)
      ELSE IF ~MidFlight(fg) THEN ResumeThread(flat, FG)
      ELSE IF fg.stack_frame \in 1 .. IRQsema(s) /\ s.frames[fg.stack_frame].owner = FG
      THEN flat
      ELSE Fault(flat, "lost frame")

\* Mutant: the scan always moves on from the thread that ran last.
ResumesFirst_Never(s, p) == FALSE

\* What the scan of priority p finds, starting from the thread that ran last there
\* (scheduler.s 433-449): a thread that is mid-flight is resumed before the others.
ResumesFirst(s, p) ==
  LET i == s.PriorityTable.last[p]
  IN  i < NThreads(s) /\ MidFlight(At(s, i)) /\ At(s, i).priority = p

Finds(s, p) ==
  LET i == s.PriorityTable.last[p]
  IN  IF ResumesFirst(s, p) THEN {i}
      ELSE IF ReadyAt(s, p) = {} THEN {}
      ELSE {RoundRobin(s, p, i)}

ScanFault(s, p) ==
  IF s.PriorityTable.last[p] >= NThreads(s) THEN "ThreadTable"
  ELSE IF ReadsNull(s, p) /\ ~ResumesFirst(s, p) THEN "NULL pollword"
  ELSE "none"

\* next_priority: the first priority of the list from p down where the scan finds
\* anything.
NextPriority(s, p) ==
  LET hits == {q \in Chain(s.PriorityTable.next, p) :
                 Finds(s, q) # {} \/ ScanFault(s, q) # "none"}
      first == Max(hits)
  IN  IF hits = {} THEN ReturnToForeground(s)
      ELSE IF ScanFault(s, first) # "none" THEN Fault(s, ScanFault(s, first))
      ELSE SwitchToThread(s, CHOOSE i \in Finds(s, first) : TRUE, first)

\* Mutant: the scan starts at the current priority.
FullRescan_FromHere(s) ==
  IF s.Priority = 0 THEN NextPriority(s, s.PriorityTable.next[TopPriority])
  ELSE NextPriority(s, s.Priority)

FullRescan(s) ==
  NextPriority(s, IF s.PriorityTable.usage[TopPriority] = 0
                  THEN s.PriorityTable.next[TopPriority] ELSE TopPriority)

\* The scan a thread that did not ask for a rescan, or died, gives way to: its own
\* priority after its own number i, then downwards (scheduler.s 364-371, 599-604).
ScanFrom(s, i) ==
  IF ReadsNull(s, s.Priority) THEN Fault(s, "NULL pollword")
  ELSE IF ReadyAt(s, s.Priority) # {}
  THEN SwitchToThread(s, RoundRobin(s, s.Priority, i), s.Priority)
  ELSE NextPriority(s, s.PriorityTable.next[s.Priority])

\* Yielded (scheduler.s 550-604): the running thread gives up the CPU.
Yielded(s, pollword, timed, rescan) ==
  LET s1 == [s EXCEPT !.Context = -1,
                      !.thread[s.ThreadTable[s.Context + 1]] =
                        [@ EXCEPT !.pollword = pollword, !.timeout_flag = timed,
                                  !.recover = FALSE]]
  IN  IF s.Context \notin 0 .. NThreads(s) - 1 THEN Fault(s, "ThreadTable")
      ELSE IF rescan THEN FullRescan(s1) ELSE ScanFrom(s1, s.Context)

\* Yield (scheduler.s 274-340): refused in an interrupt.
Yield(s, pollword, timed) ==
  LET s1 == IF IRQsema(s) # s.LastKnownIRQsema THEN SomethingsGoneWrong(s) ELSE s
      s2 == IF IRQsema(s) = 0 THEN [s1 EXCEPT !.NTicks = 0] ELSE s1
  IN  IF IRQsema(s) # 0 /\ IRQsema(s) # s.LastKnownIRQsema THEN s
      ELSE Yielded(s2, pollword, timed, TRUE)

\* MyUnthreadV (scheduler.s 404-424), at the end of the innermost handler.
MyUnthreadV(s) ==
  LET saved == IRQsema(s) - 1
      s1 == IF saved # s.LastKnownIRQsema THEN SomethingsGoneWrong(s) ELSE s
      s2 == IF saved = 0 THEN [s1 EXCEPT !.NTicks = 0] ELSE s1
  IN  IF saved # 0 /\ saved # s.LastKnownIRQsema THEN KernelExit(s) ELSE FullRescan(s2)

\* Die (scheduler.s 344-379): the running thread has been deregistered.
Die(s) ==
  LET s1 == [s EXCEPT !.Context = -1]
  IN  IF IRQsema(s) # 0 /\ IRQsema(s) # s.LastKnownIRQsema THEN s1
      ELSE IF IRQsema(s) # s.LastKnownIRQsema THEN SomethingsGoneWrong(s1)
      ELSE ScanFrom(s1, s.Context)

\* RT_Register (module.c 724-751)
RegisterThread(s, t, p) ==
  LET s1 == [s EXCEPT !.ThreadTable = Append(@, t),
                      !.thread[t] = [NoThread EXCEPT !.priority = p],
                      !.PriorityTable = JoinNew(@, p, NThreads(s) - 1)]
  IN  IF ~word[t] THEN s1
      ELSE IF s.Context < 0 THEN Fault(s1, "ThreadTable")
      ELSE IF p > At(s, s.Context).priority THEN Yield(s1, "set", FALSE)
      ELSE s1

\* The frames RT_Deregister marks as resumed: the one a pre-empted thread waits on,
\* or the one of the interrupt that the executing thread was stopped by, which is
\* looked for by following the stack down to the last known frame (module.c 810-839).
FramesToPoke(s, t) ==
  IF s.thread[t].pollword = "PreEmpted" THEN {s.thread[t].stack_frame}
  ELSE IF s.Context = Index(s, t) /\ IRQsema(s) > s.LastKnownIRQsema
  THEN {s.LastKnownIRQsema + 1} \ {1}
  ELSE {}

\* RT_Deregister (module.c 798-876).  Context is compared as an unsigned number, so
\* -1 is above every thread's.
DeregisterThread(s, t) ==
  LET index == Index(s, t)
      poked == FramesToPoke(s, t)
      marked == [d \in 1 .. IRQsema(s) |->
                  [s.frames[d] EXCEPT !.resumed = @ \/ d \in poked]]
      s1 == [s EXCEPT
        !.frames = marked,
        !.PriorityTable = Renumber(Leave(@, s.thread[t].priority), index),
        !.ThreadTable = SubSeq(@, 1, index) \o SubSeq(@, index + 2, NThreads(s)),
        !.Context = IF @ < 0 \/ @ >= index THEN @ - 1 ELSE @,
        !.thread[t] = NoThread]
  IN  IF ~(poked \subseteq 1 .. IRQsema(s)) THEN Fault(s, "lost frame")
      ELSE IF s.Context = index THEN Die(s1) ELSE s1

\* RT_ChangePriority (module.c 948-999)
SetPriority(s, t, p) ==
  LET old == s.thread[t].priority
      s1 == [s EXCEPT !.PriorityTable = Join(Leave(@, old), p), !.thread[t].priority = p]
      current == s.Context = Index(s, t)
      promoted == ~current /\ p > s.Priority
  IN  IF promoted /\ s.thread[t].pollword = "null" THEN Fault(s1, "NULL pollword")
      ELSE IF (promoted /\ PollwordSet(s, t)) \/ (current /\ p < s.Priority)
      THEN Yield(s1, "set", FALSE)
      ELSE s1

-----------------------------------------------------------------------------
\* The actions.  A SWI may be called by what runs, be it a thread, the foreground or
\* an interrupt handler.

Running(t) == rt.fault = "none" /\ rt.nested = 0 /\ rt.cpu = t

\* An interrupt is taken (NewIRQs.s 35-48).  A handler that turns IRQs on again may be
\* interrupted in its turn.
Interrupt ==
  /\ rt.fault = "none"
  /\ rt.nested < MaxNesting
  /\ Len(rt.frames) < MaxFrames
  /\ rt' = [rt EXCEPT
       !.frames = Append(@, [owner |-> IF rt.nested = 0 THEN rt.cpu ELSE "handler",
                             resumed |-> FALSE]),
       !.nested = @ + 1]
  /\ UNCHANGED word

\* A handler returns, and the kernel calls UnthreadV (NewIRQs.s 59-62).
EndInterrupt ==
  /\ rt.fault = "none"
  /\ rt.nested > 0
  /\ rt' = MyUnthreadV(rt)
  /\ UNCHANGED word

\* The ticker interrupt (module.c 558-578): the threads in due have reached their
\* time limits.
Ticker(due) ==
  /\ rt.fault = "none"
  /\ rt.nested > 0
  /\ rt' = [rt EXCEPT
       !.NTicks = Min({@ + 1, OverloadThreshold}),
       !.thread = [t \in Thread |->
         IF t \in due
         THEN [rt.thread[t] EXCEPT !.timeout_flag = FALSE, !.pollword = "TimedOut"]
         ELSE rt.thread[t]]]
  /\ UNCHANGED word

Waiting == {t \in Registered(rt) : rt.thread[t].timeout_flag}

\* A device driver, or another thread, sets t's pollword; t clears it.
SetWord(t) ==
  /\ rt.fault = "none"
  /\ ~word[t]
  /\ word' = [word EXCEPT ![t] = TRUE]
  /\ UNCHANGED rt

ClearWord(t) ==
  /\ Running(t)
  /\ word[t]
  /\ word' = [word EXCEPT ![t] = FALSE]
  /\ UNCHANGED rt

\* Thread t returns to the scheduler (API, RT_Register, "On exit").
ThreadReturn(t, timed, rescan) ==
  /\ Running(t)
  /\ timed => "TimedYield" \in Calls
  /\ ~rescan => "PlainReturn" \in Calls
  /\ rt' = Yielded(rt, "own", timed, rescan)
  /\ UNCHANGED word

\* RT_Yield, RT_TimedYield and UpCall 6 (scheduler.s 244-340).
YieldSWI(t, timed) ==
  /\ Running(t)
  /\ timed => "TimedYield" \in Calls
  /\ t = FG => "ForegroundYield" \in Calls
  /\ rt' = Yield(rt, "own", timed)
  /\ UNCHANGED word

Register(t, p) ==
  /\ rt.fault = "none"
  /\ t \notin Registered(rt)
  /\ p > 0
  /\ (Running(FG) /\ word[t]) => "ForegroundYield" \in Calls
  /\ rt' = RegisterThread(rt, t, p)
  /\ UNCHANGED word

Deregister(t) ==
  /\ rt.fault = "none"
  /\ "Deregister" \in Calls
  /\ t \in Registered(rt) \ {FG}
  /\ (t = rt.cpu /\ rt.nested > 0) => "DeregisterInterrupted" \in Calls
  /\ rt' = DeregisterThread(rt, t)
  /\ UNCHANGED word

ChangePriority(t, p) ==
  /\ rt.fault = "none"
  /\ (IF t = FG THEN "RaiseForeground" ELSE "ChangePriority") \in Calls
  /\ t \in Registered(rt)
  /\ p # rt.thread[t].priority
  /\ p = 0 => t = FG
  /\ rt' = SetPriority(rt, t, p)
  /\ UNCHANGED word

\* An exception: the kernel resets the stacks and says so on SeriousErrorV, then
\* issues Service_Error, and the foreground's error handler runs (module.c 451-472,
\* 598-610; Kernel Middle.s).
AbortRecover ==
  /\ rt.fault = "none"
  /\ "Abort" \in Calls
  /\ LET reset == [rt EXCEPT !.frames = <<>>, !.nested = 0, !.cpu = FG]
         s == IF rt.InBackground THEN SomethingsGoneWrong(reset) ELSE reset
     IN  rt' = [s EXCEPT !.LastKnownIRQsema = 0]
  /\ UNCHANGED word

Next ==
  \/ Interrupt \/ EndInterrupt \/ AbortRecover
  \/ \E due \in SUBSET Waiting : Ticker(due)
  \/ \E t \in Thread : SetWord(t) \/ ClearWord(t)
  \/ \E t \in RTThread, timed, rescan \in BOOLEAN : ThreadReturn(t, timed, rescan)
  \/ \E t \in Thread, timed \in BOOLEAN : YieldSWI(t, timed)
  \/ \E t \in RTThread : Deregister(t)
  \/ \E t \in RTThread, p \in Priorities : Register(t, p)
  \/ \E t \in Thread, p \in Priorities : ChangePriority(t, p)

Spec == Init /\ [][Next]_vars

\* Every real-time routine that has the CPU again and again returns in the end, as
\* RTSupport asks of it (API, lines 15-17).  This is strong fairness of the return,
\* its ENABLED written out: TLC evaluates the code's operators far faster outside ENABLED.
RoutinesReturn ==
  \A t \in RTThread :
    []<>(Running(t) /\ \E rescan \in BOOLEAN : Yielded(rt, "own", FALSE, rescan) # rt)
      => []<><<\E rescan \in BOOLEAN : ThreadReturn(t, FALSE, rescan)>>_vars

\* Handlers end, those that interrupt others included.
HandlersEnd == []<>(rt.nested = 0 \/ rt.fault # "none")

\* Interrupts, the ticker's among them, keep coming.
FairSpec ==
  /\ Spec
  /\ SF_vars(Interrupt /\ rt.nested = 0)
  /\ SF_vars(\E due \in SUBSET Waiting : Ticker(due))
  /\ HandlersEnd
  /\ RoutinesReturn

-----------------------------------------------------------------------------
\* No step makes an access it must not.
NoFault == rt.fault = "none"

\* The code's idea of what runs is right whenever no handler does: Context is the
\* number of the thread that has the CPU.
ContextNamesRunner ==
  rt.nested = 0 => /\ rt.Context \in 0 .. NThreads(rt) - 1
                   /\ rt.ThreadTable[rt.Context + 1] = rt.cpu

\* Comparing *IRQsema with LastKnownIRQsema tells an interrupt handler from an
\* interrupted thread, whatever the stack has been through.
InterruptContextDetected == rt.nested = Len(rt.frames) - rt.LastKnownIRQsema

\* A thread marked as pre-empted, other than the one that runs, still has the frame
\* its registers are in, and no two have the same frame.
PreemptedOwnsFrame ==
  \A t \in Registered(rt) \ {rt.cpu} :
    rt.thread[t].pollword = "PreEmpted" =>
      /\ rt.thread[t].stack_frame \in 1 .. rt.LastKnownIRQsema
      /\ rt.frames[rt.thread[t].stack_frame] = [owner |-> t, resumed |-> FALSE]

\* The priority table agrees with the threads' priorities, but for counts that were once
\* too large for a byte.
PriorityTableCounts ==
  /\ WellLinked(rt.PriorityTable)
  /\ \A p \in Priorities \ {0} :
       rt.PriorityTable.usage[p] \in
         {Cardinality({t \in Registered(rt) : rt.thread[t].priority = p}), Saturated}

\* The last thread run at each priority in use is the number of a thread.
LastExecutedInTable ==
  \A p \in Priorities :
    rt.PriorityTable.usage[p] # 0 => rt.PriorityTable.last[p] < NThreads(rt)

\* A thread that an exception stopped, or that was pre-empted when one happened, does
\* not run again, though ticks, time limits and scans go on: only its deregistration
\* ends that.
Stopped(s) == {t \in Registered(s) : s.thread[t].pollword \in {"Aborted", "CollateralDamage"}}

AbortedStaysStopped ==
  [][\A t \in Stopped(rt) : t \in Registered(rt') => t \in Stopped(rt')]_vars

\* Unless priorities change, no second thread of a priority is in a pre-empted state
\* while one of that priority executes.
OneMidFlightPerPriority ==
  \A t, u \in Registered(rt) \ {FG} :
    /\ t # u
    /\ rt.thread[t].priority = rt.thread[u].priority
    => ~(MidFlight(rt.thread[t]) /\ MidFlight(rt.thread[u]))

\* When the last handler has ended, nothing that is ready has a higher priority than
\* what runs, the relief valve being shut.
HighestPriorityRuns ==
  [][ (rt.nested > 0 /\ rt'.nested = 0 /\ rt'.NTicks < OverloadThreshold /\ EndInterrupt) =>
        \A t \in Registered(rt') :
          PollwordSet(rt', t) => rt'.thread[t].priority <= rt'.thread[rt'.cpu].priority ]_vars

\* The relief valve: however busy the real-time threads are, a foreground that they have
\* pre-empted gets the CPU back (API, lines 17-19).  A foreground that has yielded has no
\* such promise: its frame is not on the IRQ stack, so every scan starts with no ticks.
ReliefValve == (rt.cpu # FG /\ rt.thread[FG].pollword = "PreEmpted") ~> (rt.cpu = FG)
=============================================================================
