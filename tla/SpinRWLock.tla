----------------------------- MODULE SpinRWLock -----------------------------
(* The SMP read-write spin lock of SyncLib (spinrw.s 147-341) on the machine *)
(* of SpinLock: CPUs with interrupts, an exclusive monitor, an event register *)
(* and a store buffer.  A foreground claims the lock for reading or writing, *)
(* waiting, trying once or sleeping in UpCall 6; an interrupt handler claims *)
(* it for reading, at any point where IRQs are unmasked, also on top of a    *)
(* foreground that reads or waits (spinrw.h 39-46).                          *)
(*                                                                           *)
(* A barrier and the instruction that follows it are one step: a wait for    *)
(* the store buffer has no effect of its own.                                *)
EXTENDS Integers, FiniteSets

CONSTANTS CPU,
          InterruptedCPU, \* bound: the CPUs that run with IRQs unmasked
          ReturnSetsEvent, \* does an exception return set the event register?
          FgOps         \* what foregrounds call: some of "write", "try", "sleep", "read"

ASSUME CPUAssumption ==
  /\ IsFiniteSet(CPU)
  /\ InterruptedCPU \subseteq CPU
  /\ ReturnSetsEvent \in BOOLEAN
  /\ FgOps \subseteq {"write", "try", "sleep", "read"}

VARIABLES
  memory,   \* the lock block and the callers' datum, as all CPUs can see them
  buffer,   \* stores of each CPU that memory has not seen, at most one a place
  monitor,  \* exclusive monitor of each CPU, open on Mutex
  event,    \* event register of each CPU
  I,        \* I bit of each CPU's CPSR: set masks IRQs
  inIRQ,    \* the CPU is running its interrupt handler
  pc,       \* next instruction of each context
  op,       \* routine the context is in, or whose claim it holds
  ok,       \* the counter allowed the claim; or the release left it at 0
  a2,       \* register a2 (or ip) of each context: an I bit
  entryI,   \* I bit when the context called the routine that claims
  latest    \* the datum the last writer wrote

memVars == <<memory, buffer, monitor>>
cpuVars == <<event, I, inIRQ>>
ctxVars == <<op, ok, a2, entryI, latest>>
vars == <<memory, buffer, monitor, event, I, inIRQ, pc, op, ok, a2, entryI, latest>>

Level == {"fg", "irq"}
Context == CPU \X Level
NoContext == <<"none", "none">>

Loc == {"Mutex", "SavedCPSR", "Counter", "Pollword", "Data"}
Mutex_Locked == 0
Mutex_Unlocked == 1
Counter_Write == 1
Counter_Read == 2
Bit == {0, 1}
\* A write claim, or read claims counted in even negative numbers, one a context.
CounterValue == {Counter_Write} \cup {-Counter_Read * n : n \in 0 .. Cardinality(Context)}
NoStore == 100

WriteOps == {"write", "try", "sleep"}
Routine == WriteOps \cup {"read", "write_unlock", "read_unlock"}
PC == {"idle", "ldrex", "strex", "counter", "ustore", "msr", "pause", "wfe", "upcall",
       "retry", "held", "usync"}

TypeOK ==
  /\ memory \in [Loc -> Int]
  /\ memory["Counter"] \in CounterValue
  /\ \A l \in Loc \ {"Counter"} : memory[l] \in Bit
  /\ buffer \in [CPU -> [Loc -> Int]]
  /\ \A c \in CPU :
       /\ buffer[c]["Counter"] \in CounterValue \cup {NoStore}
       /\ \A l \in Loc \ {"Counter"} : buffer[c][l] \in Bit \cup {NoStore}
  /\ monitor \in [CPU -> BOOLEAN]
  /\ event \in [CPU -> BOOLEAN]
  /\ I \in [CPU -> Bit]
  /\ inIRQ \in [CPU -> BOOLEAN]
  /\ pc \in [Context -> PC]
  /\ op \in [Context -> Routine \cup {"none"}]
  /\ ok \in [Context -> BOOLEAN]
  /\ a2 \in [Context -> Bit]
  /\ entryI \in [Context -> Bit]
  /\ latest \in Bit

\* SPINRW_INITIALISER is { 1, 0, 0, 1 }.
Init ==
  /\ memory = [l \in Loc |-> IF l \in {"Mutex", "Pollword"} THEN 1 ELSE 0]
  /\ buffer = [c \in CPU |-> [l \in Loc |-> NoStore]]
  /\ monitor = [c \in CPU |-> FALSE]
  /\ event = [c \in CPU |-> FALSE]
  /\ I = [c \in CPU |-> IF c \in InterruptedCPU THEN 0 ELSE 1]
  /\ inIRQ = [c \in CPU |-> FALSE]
  /\ pc = [x \in Context |-> "idle"]
  /\ op = [x \in Context |-> "none"]
  /\ ok = [x \in Context |-> FALSE]
  /\ a2 = [x \in Context |-> 0]
  /\ entryI = [x \in Context |-> 0]
  /\ latest = 0

-----------------------------------------------------------------------------
\* The processor, as in SpinLock.

Runs(x) == inIRQ[x[1]] <=> x[2] = "irq"

\* Suspended in WFE: nothing executes and the store buffer need not drain
\* (spinrw.s 204-209).
Asleep(x) == Runs(x) /\ pc[x] = "wfe" /\ ~event[x[1]]

Load(c, l) == IF buffer[c][l] = NoStore THEN memory[l] ELSE buffer[c][l]

\* The stores of one routine: a function of some places.
Store(c, stores) ==
  buffer' = [buffer EXCEPT ![c] = [l \in Loc |-> IF l \in DOMAIN stores THEN stores[l] ELSE buffer[c][l]]]

Drained(c) == \A l \in Loc : buffer[c][l] = NoStore

At(x, from) == Runs(x) /\ pc[x] = from
Goto(x, to) == pc' = [pc EXCEPT ![x] = to]

\* One pending store reaches memory; a store to Mutex closes every monitor.
Drain(c) ==
  /\ ~\E l \in Level : Asleep(<<c, l>>)
  /\ \E l \in Loc :
       /\ buffer[c][l] # NoStore
       /\ memory' = [memory EXCEPT ![l] = buffer[c][l]]
       /\ buffer' = [buffer EXCEPT ![c] = [@ EXCEPT ![l] = NoStore]]
       /\ monitor' = IF l = "Mutex" THEN [k \in CPU |-> FALSE] ELSE monitor
  /\ UNCHANGED <<cpuVars, pc, ctxVars>>

\* MRS a2, CPSR; CPSID i, on the way into MetaLock.
MaskIRQs(x) ==
  /\ a2' = [a2 EXCEPT ![x] = I[x[1]]]
  /\ I' = [I EXCEPT ![x[1]] = 1]

\* An IRQ ends a WFE that has begun.  The handler calls read_lock.
TakeIRQ(c) ==
  LET x == <<c, "irq">> IN
  /\ c \in InterruptedCPU
  /\ I[c] = 0 /\ ~inIRQ[c]
  /\ inIRQ' = [inIRQ EXCEPT ![c] = TRUE]
  /\ I' = [I EXCEPT ![c] = 1]
  /\ a2' = [a2 EXCEPT ![x] = 1]
  /\ entryI' = [entryI EXCEPT ![x] = 1]
  /\ op' = [op EXCEPT ![x] = "read"]
  /\ \E awake \in {pc[<<c, "fg">>]} \cup IF Asleep(<<c, "fg">>) THEN {"retry"} ELSE {} :
       pc' = [pc EXCEPT ![x] = "ldrex", ![<<c, "fg">>] = awake]
  /\ UNCHANGED <<memVars, event, ok, latest>>

\* The dispatcher clears the exclusive monitor.  On ARMv8 the exception return sets the
\* event register; elsewhere it may.
ReturnFromIRQ(c) ==
  /\ inIRQ[c] /\ pc[<<c, "irq">>] = "idle"
  /\ inIRQ' = [inIRQ EXCEPT ![c] = FALSE]
  /\ I' = [I EXCEPT ![c] = 0]
  /\ monitor' = [monitor EXCEPT ![c] = FALSE]
  /\ event' \in {[event EXCEPT ![c] = TRUE]} \cup (IF ReturnSetsEvent THEN {} ELSE {event})
  /\ UNCHANGED <<memory, buffer, pc, ctxVars>>

CallerSetsI(c) ==
  /\ c \in InterruptedCPU
  /\ At(<<c, "fg">>, "idle")
  /\ I' = [I EXCEPT ![c] = 1 - @]
  /\ UNCHANGED <<memVars, event, inIRQ, pc, ctxVars>>

-----------------------------------------------------------------------------
\* MetaLock

\* A foreground calls a routine that claims the lock.
Claim(x, routine) ==
  /\ At(x, "idle") /\ x[2] = "fg"
  /\ op' = [op EXCEPT ![x] = routine]
  /\ entryI' = [entryI EXCEPT ![x] = I[x[1]]]
  /\ MaskIRQs(x)
  /\ Goto(x, "ldrex")
  /\ UNCHANGED <<memVars, event, inIRQ, ok, latest>>

\* B %BA10
ClaimAgain(x) ==
  /\ At(x, "retry")
  /\ MaskIRQs(x)
  /\ Goto(x, "ldrex")
  /\ UNCHANGED <<memVars, event, inIRQ, op, ok, entryI, latest>>

\* LDREX; TEQ: a word that is locked is read again.
LoadExclusive(x) ==
  /\ At(x, "ldrex")
  /\ monitor' = [monitor EXCEPT ![x[1]] = TRUE]
  /\ Goto(x, IF Load(x[1], "Mutex") = Mutex_Locked THEN "ldrex" ELSE "strex")
  /\ UNCHANGED <<memory, buffer, cpuVars, ctxVars>>

\* STREXNE; TEQNE; BEQ.  A store to Mutex that the CPU has pending goes first.
StoreExclusive(x) ==
  /\ At(x, "strex")
  /\ buffer[x[1]]["Mutex"] = NoStore
  /\ IF monitor[x[1]]
     THEN /\ memory' = [memory EXCEPT !["Mutex"] = Mutex_Locked]
          /\ monitor' = [k \in CPU |-> FALSE]
          /\ Goto(x, "counter")
     ELSE Goto(x, "ldrex") /\ UNCHANGED <<memory, monitor>>
  /\ UNCHANGED <<buffer, cpuVars, ctxVars>>

-----------------------------------------------------------------------------
\* Between MetaLock's barrier and MetaUnlock's, each routine looks at the counter.

AtCounter(x, routines) == At(x, "counter") /\ Drained(x[1]) /\ op[x] \in routines

\* STMIB a1, {a2-a4} if the counter is 0.
TakeWrite(x) ==
  /\ AtCounter(x, WriteOps)
  /\ LET free == memory["Counter"] = 0 IN
     /\ ok' = [ok EXCEPT ![x] = free]
     /\ IF free
        THEN Store(x[1], [SavedCPSR |-> a2[x], Counter |-> Counter_Write, Pollword |-> 0])
        ELSE UNCHANGED buffer
  /\ Goto(x, "ustore")
  /\ UNCHANGED <<memory, monitor, cpuVars, op, a2, entryI, latest>>

\* SUBS ip, ip, #Counter_Read borrows from 0.
TakeRead(x) ==
  /\ AtCounter(x, {"read"})
  /\ LET count == memory["Counter"] IN
     /\ ok' = [ok EXCEPT ![x] = count # Counter_Write]
     /\ CASE count = Counter_Write -> UNCHANGED buffer
          [] count = 0 -> Store(x[1], [Counter |-> -Counter_Read, Pollword |-> 0])
          [] OTHER -> Store(x[1], [Counter |-> count - Counter_Read])
  /\ Goto(x, "ustore")
  /\ UNCHANGED <<memory, monitor, cpuVars, op, a2, entryI, latest>>

\* Mutant: SavedCPSR is not read back.
DropWrite_KeepsA2(x) ==
  /\ AtCounter(x, {"write_unlock"})
  /\ Store(x[1], [Counter |-> 0, Pollword |-> 1])
  /\ ok' = [ok EXCEPT ![x] = TRUE]
  /\ Goto(x, "ustore")
  /\ UNCHANGED <<memory, monitor, cpuVars, op, a2, entryI, latest>>

DropWrite(x) ==
  /\ AtCounter(x, {"write_unlock"})
  /\ a2' = [a2 EXCEPT ![x] = memory["SavedCPSR"]]
  /\ Store(x[1], [Counter |-> 0, Pollword |-> 1])
  /\ ok' = [ok EXCEPT ![x] = TRUE]
  /\ Goto(x, "ustore")
  /\ UNCHANGED <<memory, monitor, cpuVars, op, entryI, latest>>

\* Mutant: the pollword is never set again.
DropRead_NoCarry(x) ==
  /\ AtCounter(x, {"read_unlock"})
  /\ Store(x[1], [Counter |-> memory["Counter"] + Counter_Read])
  /\ Goto(x, "ustore")
  /\ UNCHANGED <<memory, monitor, cpuVars, op, ok, a2, entryI, latest>>

\* ADDS ip, ip, #Counter_Read carries into 0.
DropRead(x) ==
  /\ AtCounter(x, {"read_unlock"})
  /\ LET count == memory["Counter"] + Counter_Read IN
     /\ ok' = [ok EXCEPT ![x] = count = 0]
     /\ Store(x[1], IF count = 0 THEN [Counter |-> 0, Pollword |-> 1] ELSE [Counter |-> count])
  /\ Goto(x, "ustore")
  /\ UNCHANGED <<memory, monitor, cpuVars, op, a2, entryI, latest>>

-----------------------------------------------------------------------------
\* MetaUnlock and what follows it

\* Mutant: no barrier before the store.
StoreUnlocked_NoBarrier(x) ==
  /\ At(x, "ustore")
  /\ buffer' = [buffer EXCEPT ![x[1]]["Mutex"] = Mutex_Unlocked]
  /\ IF op[x] \in WriteOps /\ ok[x]
     THEN Goto(x, "held") /\ a2' = [a2 EXCEPT ![x] = 0]
     ELSE Goto(x, "msr") /\ UNCHANGED a2
  /\ UNCHANGED <<memory, monitor, cpuVars, op, ok, entryI, latest>>

\* Barrier; STR Mutex.  A new writer keeps its IRQs masked and returns.
StoreUnlocked(x) ==
  /\ At(x, "ustore")
  /\ Drained(x[1])
  /\ Store(x[1], [Mutex |-> Mutex_Unlocked])
  /\ IF op[x] \in WriteOps /\ ok[x]
     THEN Goto(x, "held") /\ a2' = [a2 EXCEPT ![x] = 0]
     ELSE Goto(x, "msr") /\ UNCHANGED a2
  /\ UNCHANGED <<memory, monitor, cpuVars, op, ok, entryI, latest>>

\* MSR CPSR_c.  A failed claim pauses or, in write_sleep_lock, calls UpCall 6; a
\* failed try, and a release that leaves other readers, return.
Returns(x) == ~ok[x] /\ op[x] \in {"try", "read_unlock"}
RestoreCPSR(x) ==
  /\ At(x, "msr")
  /\ I' = [I EXCEPT ![x[1]] = a2[x]]
  /\ a2' = [a2 EXCEPT ![x] = 0]
  /\ Goto(x, CASE Returns(x) -> "idle"
                [] ok[x] -> IF op[x] = "read" THEN "held" ELSE "usync"
                [] op[x] = "sleep" -> "upcall"
                [] OTHER -> "pause")
  /\ IF Returns(x)
     THEN op' = [op EXCEPT ![x] = "none"] /\ entryI' = [entryI EXCEPT ![x] = 0]
     ELSE UNCHANGED <<op, entryI>>
  /\ UNCHANGED <<memVars, event, inIRQ, ok, latest>>


\* Pause: BarrierSync; CPUEventWait
Pause(x) ==
  /\ At(x, "pause")
  /\ Drained(x[1])
  /\ Goto(x, "wfe")
  /\ UNCHANGED <<memVars, cpuVars, ctxVars>>

WaitForEvent(x) ==
  /\ At(x, "wfe")
  /\ event[x[1]]
  /\ event' = [event EXCEPT ![x[1]] = FALSE]
  /\ Goto(x, "retry")
  /\ UNCHANGED <<memVars, I, inIRQ, ctxVars>>

\* The task sleeps until the pollword is not zero.
UpCall6(x) ==
  /\ At(x, "upcall")
  /\ Load(x[1], "Pollword") # 0
  /\ Goto(x, "retry")
  /\ UNCHANGED <<memVars, cpuVars, ctxVars>>

\* BarrierSync; CPUEventSend, after a release that leaves the lock free.
SendEvent(x) ==
  /\ At(x, "usync")
  /\ Drained(x[1])
  /\ event' = [k \in CPU |-> TRUE]
  /\ op' = [op EXCEPT ![x] = "none"]
  /\ ok' = [ok EXCEPT ![x] = FALSE]
  /\ entryI' = [entryI EXCEPT ![x] = 0]
  /\ Goto(x, "idle")
  /\ UNCHANGED <<memVars, I, inIRQ, a2, latest>>

-----------------------------------------------------------------------------
\* The holder of a write claim changes the datum and calls write_unlock, whose
\* MetaLock saves no CPSR.
CallWriteUnlock(x) ==
  /\ At(x, "held") /\ op[x] \in WriteOps
  /\ op' = [op EXCEPT ![x] = "write_unlock"]
  /\ latest' = 1 - Load(x[1], "Data")
  /\ Store(x[1], [Data |-> latest'])
  /\ ok' = [ok EXCEPT ![x] = FALSE]
  /\ Goto(x, "ldrex")
  /\ UNCHANGED <<memory, monitor, cpuVars, a2, entryI>>

CallReadUnlock(x) ==
  /\ At(x, "held") /\ op[x] = "read"
  /\ op' = [op EXCEPT ![x] = "read_unlock"]
  /\ entryI' = [entryI EXCEPT ![x] = I[x[1]]]
  /\ MaskIRQs(x)
  /\ ok' = [ok EXCEPT ![x] = FALSE]
  /\ Goto(x, "ldrex")
  /\ UNCHANGED <<memVars, event, inIRQ, latest>>

MetaLock(x) == ClaimAgain(x) \/ LoadExclusive(x) \/ StoreExclusive(x)
UseCounter(x) == TakeWrite(x) \/ TakeRead(x) \/ DropWrite(x) \/ DropRead(x)
MetaUnlock(x) == StoreUnlocked(x) \/ RestoreCPSR(x)
Wait(x) == Pause(x) \/ WaitForEvent(x) \/ UpCall6(x)
Unlock(x) == CallWriteUnlock(x) \/ CallReadUnlock(x) \/ SendEvent(x)

Execute(x) == MetaLock(x) \/ UseCounter(x) \/ MetaUnlock(x) \/ Wait(x) \/ Unlock(x)

Next ==
  \/ \E x \in Context : Execute(x) \/ \E routine \in FgOps : Claim(x, routine)
  \/ \E c \in CPU : Drain(c) \/ TakeIRQ(c) \/ ReturnFromIRQ(c) \/ CallerSetsI(c)

Spec == Init /\ [][Next]_vars

\* As in SpinLock: CPUs execute, awake store buffers drain, claims are given up.
Fairness ==
  /\ \A x \in Context : WF_vars(Execute(x))
  /\ \A c \in CPU : WF_vars(Drain(c)) /\ WF_vars(ReturnFromIRQ(c))

FairSpec == Spec /\ Fairness

-----------------------------------------------------------------------------
\* A context has its claim from the store of the counter, before MetaUnlock, to
\* the store of the counter in its unlock.
HasClaim(x, claims, release) ==
  \/ op[x] \in claims /\ ok[x] /\ pc[x] \in {"ustore", "msr", "held"}
  \/ op[x] = release /\ pc[x] \in {"ldrex", "strex", "counter"}
Writes(x) == HasClaim(x, WriteOps, "write_unlock")
Reads(x) == HasClaim(x, {"read"}, "read_unlock")

\* One writer, or any number of readers (spinrw.h 37-38), with handlers reading on
\* top of readers and of waiting claimants.
WriterIsAlone ==
  \A x, y \in Context : Writes(x) /\ (Writes(y) \/ Reads(y)) => x = y

\* write_unlock gives back the IRQ state from before the claim (spinrw.h 83-84),
\* every other routine that of its own call.
RestoresCallersIRQState ==
  \A x \in Context : pc[x] = "msr" => a2[x] = entryI[x]

\* Whoever has the lock sees what the last writer wrote.
HolderSeesLatestData ==
  \A x \in Context : pc[x] = "held" => Load(x[1], "Data") = latest

\* No CPU sleeps for a lock that nobody has unless a SEV is still to come, and no
\* task sleeps on a pollword of 0 then (spinrw.s 204-216, 304-308, 337-340).
NoLostWakeup ==
  \A x \in Context :
    Asleep(x) \/ (pc[x] = "upcall" /\ Load(x[1], "Pollword") = 0) =>
      \E y \in Context :
        Writes(y) \/ Reads(y) \/ (op[y] \in {"write_unlock", "read_unlock"} /\ ok[y])

\* A call has got through when it has its claim, has given one up, or is about to return
\* without one: a try that was refused, a release that leaves other readers.
GotThrough(x) == pc[x] \in {"held", "usync"} \/ (pc[x] = "msr" /\ Returns(x))


Holder == IF \E x \in Context : Writes(x) THEN CHOOSE x \in Context : Writes(x) ELSE NoContext

Promise == INSTANCE LockPromise WITH
  Client <- Context, NoClient <- NoContext,
  writer <- Holder, readers <- [x \in Context |-> IF Reads(x) THEN 1 ELSE 0]

\* The lock is a LockPromise with readers.
KeepsPromise == Promise!Spec
=============================================================================
