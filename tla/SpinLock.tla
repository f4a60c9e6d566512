------------------------------ MODULE SpinLock ------------------------------
(* The SMP spin lock of SyncLib (spin.s 108-131) on CPUs with interrupts,    *)
(* an exclusive monitor, an event register and a store buffer.               *)
(*                                                                           *)
(* A CPU runs two contexts: its foreground and, while IRQs are unmasked, an  *)
(* interrupt handler that runs to completion on top of it.  Either may use   *)
(* the lock.  Plain stores go to the CPU's store buffer and reach memory in  *)
(* any order, at any time the CPU is awake; Barrier and BarrierSync wait for *)
(* the buffer to be empty.  STREX acts on memory.  The callers keep a datum  *)
(* under the lock, so that the model shows what the barriers are for.        *)
EXTENDS Integers

CONSTANTS CPU,
          DataVersions  \* bound: versions of the datum before they repeat

ASSUME DataVersionsAssumption == DataVersions \in Nat \ {0}

VARIABLES
  memory,   \* the lock block and the callers' datum, as all CPUs can see them
  buffer,   \* stores of each CPU that memory has not seen, at most one a place
  monitor,  \* exclusive monitor of each CPU, open on Mutex
  event,    \* event register of each CPU
  I,        \* I bit of each CPU's CPSR: set masks IRQs
  inIRQ,    \* the CPU is running its interrupt handler
  pc,       \* next instruction of each context
  a2,       \* register a2 of each context: an I bit
  entryI,   \* I bit when the context called spin_lock
  latest    \* the version of the datum the last critical section wrote

memVars == <<memory, buffer, monitor>>
cpuVars == <<event, I, inIRQ>>
ctxVars == <<a2, entryI, latest>>
vars == <<memory, buffer, monitor, event, I, inIRQ, pc, a2, entryI, latest>>

Level == {"fg", "irq"}
Context == CPU \X Level
NoContext == <<"none", "none">>

Loc == {"Mutex", "SavedCPSR", "Data"}
Mutex_Locked == 0
Mutex_Unlocked == 1
Bit == {0, 1}
Version == 0 .. DataVersions - 1
NoStore == -1

\* The instructions, in program order.  A context holds the lock from its
\* successful STREX until its store of Mutex_Unlocked leaves for the buffer.
ClaimPC == {"ldrex", "wfe", "strex"}
OwnPC == {"barrier", "saveCPSR", "held", "ldrCPSR", "ubarrier", "ustore"}
PC == {"idle"} \cup ClaimPC \cup OwnPC \cup {"usync", "sev", "msr"}

Owns(x) == pc[x] \in OwnPC

TypeOK ==
  /\ memory \in [Loc -> Bit \cup Version]
  /\ memory["Mutex"] \in Bit /\ memory["SavedCPSR"] \in Bit /\ memory["Data"] \in Version
  /\ buffer \in [CPU -> [Loc -> Bit \cup Version \cup {NoStore}]]
  /\ \A c \in CPU : /\ buffer[c]["Mutex"] \in {NoStore, Mutex_Unlocked}
                    /\ buffer[c]["SavedCPSR"] \in Bit \cup {NoStore}
                    /\ buffer[c]["Data"] \in Version \cup {NoStore}
  /\ monitor \in [CPU -> BOOLEAN]
  /\ event \in [CPU -> BOOLEAN]
  /\ I \in [CPU -> Bit]
  /\ inIRQ \in [CPU -> BOOLEAN]
  /\ pc \in [Context -> PC]
  /\ a2 \in [Context -> Bit]
  /\ entryI \in [Context -> Bit]
  /\ latest \in Version

\* SPIN_INITIALISER is { 1, 0 }: unlocked.
Init ==
  /\ memory = [l \in Loc |-> IF l = "Mutex" THEN Mutex_Unlocked ELSE 0]
  /\ buffer = [c \in CPU |-> [l \in Loc |-> NoStore]]
  /\ monitor = [c \in CPU |-> FALSE]
  /\ event = [c \in CPU |-> FALSE]
  /\ I = [c \in CPU |-> 0]
  /\ inIRQ = [c \in CPU |-> FALSE]
  /\ pc = [x \in Context |-> "idle"]
  /\ a2 = [x \in Context |-> 0]
  /\ entryI = [x \in Context |-> 0]
  /\ latest = 0

-----------------------------------------------------------------------------
\* The processor.

\* The context is the one its CPU is executing.
Runs(x) == inIRQ[x[1]] <=> x[2] = "irq"

\* The CPU is suspended in WFE: nothing executes and the store buffer need not
\* drain (spinrw.s 204-209).
Asleep(c) == \E l \in Level : Runs(<<c, l>>) /\ pc[<<c, l>>] = "wfe" /\ ~event[c]

\* A load sees the CPU's own pending store before memory.
Load(c, l) == IF buffer[c][l] = NoStore THEN memory[l] ELSE buffer[c][l]

Store(c, l, v) == buffer' = [buffer EXCEPT ![c] = [@ EXCEPT ![l] = v]]

Drained(c) == \A l \in Loc : buffer[c][l] = NoStore

Goto(x, from, to) ==
  /\ Runs(x)
  /\ pc[x] = from
  /\ pc' = [pc EXCEPT ![x] = to]

\* One pending store reaches memory; a store to Mutex closes every monitor.
Drain(c) ==
  /\ ~Asleep(c)
  /\ \E l \in Loc :
       /\ buffer[c][l] # NoStore
       /\ memory' = [memory EXCEPT ![l] = buffer[c][l]]
       /\ Store(c, l, NoStore)
       /\ monitor' = IF l = "Mutex" THEN [k \in CPU |-> FALSE] ELSE monitor
  /\ UNCHANGED <<cpuVars, pc, ctxVars>>

TakeIRQ(c) ==
  /\ I[c] = 0
  /\ ~inIRQ[c]
  /\ inIRQ' = [inIRQ EXCEPT ![c] = TRUE]
  /\ I' = [I EXCEPT ![c] = 1]
  /\ UNCHANGED <<memVars, event, pc, ctxVars>>

\* The handler returns: the dispatcher clears the exclusive monitor and restores
\* the interrupted code's CPSR, which had IRQs unmasked.
ReturnFromIRQ(c) ==
  /\ inIRQ[c]
  /\ pc[<<c, "irq">>] = "idle"
  /\ inIRQ' = [inIRQ EXCEPT ![c] = FALSE]
  /\ I' = [I EXCEPT ![c] = 0]
  /\ monitor' = [monitor EXCEPT ![c] = FALSE]
  /\ UNCHANGED <<memory, buffer, event, pc, ctxVars>>

\* A foreground caller may itself run with IRQs masked.
CallerSetsI(c) ==
  /\ ~inIRQ[c]
  /\ pc[<<c, "fg">>] = "idle"
  /\ I' = [I EXCEPT ![c] = 1 - @]
  /\ UNCHANGED <<memVars, event, inIRQ, pc, ctxVars>>

-----------------------------------------------------------------------------
\* spin_lock

\* MRS a2, CPSR; CPSID i.  An IRQ between the two returns with the same CPSR.
MaskIRQs_NoCPSID(x) ==
  /\ Goto(x, "idle", "ldrex")
  /\ a2' = [a2 EXCEPT ![x] = I[x[1]]]
  /\ entryI' = [entryI EXCEPT ![x] = I[x[1]]]
  /\ UNCHANGED <<memVars, cpuVars, latest>>
MaskIRQs(x) ==
  /\ Goto(x, "idle", "ldrex")
  /\ a2' = [a2 EXCEPT ![x] = I[x[1]]]
  /\ entryI' = [entryI EXCEPT ![x] = I[x[1]]]
  /\ I' = [I EXCEPT ![x[1]] = 1]
  /\ UNCHANGED <<memVars, event, inIRQ, latest>>

\* LDREX a4, [a1]; TEQ a4, a3
LoadExclusive(x) ==
  /\ Goto(x, "ldrex", IF Load(x[1], "Mutex") = Mutex_Locked THEN "wfe" ELSE "strex")
  /\ monitor' = [monitor EXCEPT ![x[1]] = TRUE]
  /\ UNCHANGED <<memory, buffer, cpuVars, ctxVars>>

\* CPUEventWaitEQ: WFE falls through, clearing it, if the event register is
\* set, and otherwise suspends the CPU until it is.
WaitForEvent(x) ==
  /\ event[x[1]]
  /\ Goto(x, "wfe", "ldrex")
  /\ event' = [event EXCEPT ![x[1]] = FALSE]
  /\ UNCHANGED <<memVars, I, inIRQ, ctxVars>>

\* STREXNE a4, a3, [a1]; TEQNE a4, #Strex_Failed; BEQ
StoreExclusive_ResultIgnored(x) ==
  /\ Goto(x, "strex", "barrier")
  /\ IF monitor[x[1]]
     THEN /\ memory' = [memory EXCEPT !["Mutex"] = Mutex_Locked]
          /\ monitor' = [k \in CPU |-> FALSE]
     ELSE UNCHANGED <<memory, monitor>>
  /\ UNCHANGED <<buffer, cpuVars, ctxVars>>
StoreExclusive(x) ==
  /\ Goto(x, "strex", IF monitor[x[1]] THEN "barrier" ELSE "ldrex")
  /\ IF monitor[x[1]]
     THEN /\ memory' = [memory EXCEPT !["Mutex"] = Mutex_Locked]
          /\ monitor' = [k \in CPU |-> FALSE]
     ELSE UNCHANGED <<memory, monitor>>
  /\ UNCHANGED <<buffer, cpuVars, ctxVars>>

LockBarrier(x) ==
  /\ Drained(x[1])
  /\ Goto(x, "barrier", "saveCPSR")
  /\ UNCHANGED <<memVars, cpuVars, ctxVars>>

\* STR a2, SavedCPSR; return to the caller, who may use a2 for anything.
SaveCPSR(x) ==
  /\ Goto(x, "saveCPSR", "held")
  /\ Store(x[1], "SavedCPSR", a2[x])
  /\ a2' = [a2 EXCEPT ![x] = 0]
  /\ UNCHANGED <<memory, monitor, cpuVars, entryI, latest>>

\* The caller updates what the lock protects.
WriteData(x) ==
  /\ Goto(x, "held", "ldrCPSR")
  /\ latest' = (Load(x[1], "Data") + 1) % DataVersions
  /\ Store(x[1], "Data", latest')
  /\ UNCHANGED <<memory, monitor, cpuVars, a2, entryI>>

-----------------------------------------------------------------------------
\* spin_unlock

\* LDR a2, SavedCPSR; MOV a3, #Mutex_Unlocked
LoadCPSR(x) ==
  /\ Goto(x, "ldrCPSR", "ubarrier")
  /\ a2' = [a2 EXCEPT ![x] = Load(x[1], "SavedCPSR")]
  /\ UNCHANGED <<memVars, cpuVars, entryI, latest>>

UnlockBarrier_Missing(x) ==
  /\ Goto(x, "ubarrier", "ustore")
  /\ UNCHANGED <<memVars, cpuVars, ctxVars>>
UnlockBarrier(x) ==
  /\ Drained(x[1])
  /\ Goto(x, "ubarrier", "ustore")
  /\ UNCHANGED <<memVars, cpuVars, ctxVars>>

\* STR a3, Mutex
StoreUnlocked(x) ==
  /\ Goto(x, "ustore", "usync")
  /\ Store(x[1], "Mutex", Mutex_Unlocked)
  /\ UNCHANGED <<memory, monitor, cpuVars, ctxVars>>

UnlockSync_Missing(x) ==
  /\ Goto(x, "usync", "sev")
  /\ UNCHANGED <<memVars, cpuVars, ctxVars>>
UnlockSync(x) ==
  /\ Drained(x[1])
  /\ Goto(x, "usync", "sev")
  /\ UNCHANGED <<memVars, cpuVars, ctxVars>>

\* CPUEventSend: SEV sets the event register of every CPU.
SendEvent_Missing(x) ==
  /\ Goto(x, "sev", "msr")
  /\ UNCHANGED <<memVars, cpuVars, ctxVars>>
SendEvent(x) ==
  /\ Goto(x, "sev", "msr")
  /\ event' = [k \in CPU |-> TRUE]
  /\ UNCHANGED <<memVars, I, inIRQ, ctxVars>>

\* MSR CPSR_c, a2; return.  Both locals are dead from here on.
RestoreCPSR(x) ==
  /\ Goto(x, "msr", "idle")
  /\ I' = [I EXCEPT ![x[1]] = a2[x]]
  /\ a2' = [a2 EXCEPT ![x] = 0]
  /\ entryI' = [entryI EXCEPT ![x] = 0]
  /\ UNCHANGED <<memVars, event, inIRQ, latest>>

-----------------------------------------------------------------------------
spin_lock(x) ==
  \/ LoadExclusive(x) \/ WaitForEvent(x) \/ StoreExclusive(x) \/ LockBarrier(x) \/ SaveCPSR(x)

spin_unlock(x) ==
  \/ LoadCPSR(x) \/ UnlockBarrier(x) \/ StoreUnlocked(x) \/ UnlockSync(x)
  \/ SendEvent(x) \/ RestoreCPSR(x)

Next ==
  \/ \E x \in Context : MaskIRQs(x) \/ spin_lock(x) \/ WriteData(x) \/ spin_unlock(x)
  \/ \E c \in CPU : Drain(c) \/ TakeIRQ(c) \/ ReturnFromIRQ(c) \/ CallerSetsI(c)

Spec == Init /\ [][Next]_vars

\* A CPU that is awake executes instructions and drains its store buffer, and
\* critical sections and handlers end.  Nothing obliges anyone to claim the lock
\* and no claimant is promised a turn before another.
Fairness ==
  /\ \A x \in Context : WF_vars(spin_lock(x) \/ WriteData(x) \/ spin_unlock(x))
  /\ \A c \in CPU : WF_vars(Drain(c)) /\ WF_vars(ReturnFromIRQ(c))

FairSpec == Spec /\ Fairness

-----------------------------------------------------------------------------
\* Only one context holds the lock (spin.h 34), whatever the interleaving of the
\* LDREX/STREX pairs of the CPUs, the drains of their buffers and their IRQs.
MutualExclusion == \A x, y \in Context : Owns(x) /\ Owns(y) => x = y

\* An interrupt handler never enters spin_lock on top of a spin_lock or
\* spin_unlock of its own CPU's foreground, which would spin for ever
\* (spin.h 34-36: "to avoid any re-entrancy concerns").
NoReentry ==
  \A c \in CPU : pc[<<c, "irq">>] # "idle" => pc[<<c, "fg">>] = "idle"

\* spin_unlock gives back the IRQ state of its own caller (spin.h 54-55), not
\* the one some other holder left in the lock block.
RestoresCallersIRQState ==
  \A x \in Context : pc[x] = "msr" => a2[x] = entryI[x]

\* A new holder reads what the previous holder wrote, wherever that ran.
HolderSeesLatestData ==
  \A x \in Context : pc[x] = "held" => Load(x[1], "Data") = latest

\* No CPU sleeps in WFE for a lock that is free in memory unless the event that
\* will wake it is still to be sent (spin.s 128-129).
NoLostWakeup ==
  \A c \in CPU :
    Asleep(c) => \/ memory["Mutex"] = Mutex_Locked
                 \/ \E x \in Context : pc[x] \in {"usync", "sev"}

\* When somebody wants the lock, somebody gets it.
SomebodyGetsIn ==
  (\E x \in Context : pc[x] \in ClaimPC) ~> (\E x \in Context : pc[x] = "held")

\* The lock is a LockPromise without readers.
Holder == IF \E x \in Context : Owns(x) THEN CHOOSE x \in Context : Owns(x) ELSE NoContext

Promise == INSTANCE LockPromise WITH
  Client <- Context, NoClient <- NoContext,
  writer <- Holder, readers <- [x \in Context |-> 0]

\* The lock changes hands only through a release, and only to one context.
KeepsPromise == Promise!Spec

-----------------------------------------------------------------------------
(* The inductive invariant behind the safety properties.                     *)

\* A context that is inside spin_lock or spin_unlock is the one its CPU runs, with
\* IRQs masked; a handler was entered with them masked already.
IRQDiscipline ==
  /\ \A x \in Context :
       pc[x] # "idle" => Runs(x) /\ I[x[1]] = 1 /\ (x[2] = "irq" => entryI[x] = 1)
  /\ \A c \in CPU : inIRQ[c] => I[c] = 1

\* The Mutex word agrees with who holds the lock.
MutexWord ==
  /\ \A x \in Context : Owns(x) => memory["Mutex"] = Mutex_Locked
  /\ \A x \in Context :
       pc[x] = "strex" /\ monitor[x[1]] => memory["Mutex"] = Mutex_Unlocked
  /\ \A c \in CPU :
       buffer[c]["Mutex"] # NoStore =>
         /\ memory["Mutex"] = Mutex_Locked
         /\ \A x \in Context : ~Owns(x)
         /\ \E x \in Context : x[1] = c /\ pc[x] = "usync"
         /\ \A k \in CPU : buffer[k]["Mutex"] # NoStore => k = c

\* The caller's I bit travels from a2 to SavedCPSR and back, and only a holder's
\* CPU has a store to SavedCPSR pending.
CPSRPath ==
  /\ \A x \in Context :
       /\ pc[x] \notin {"idle", "held", "ldrCPSR"} => a2[x] = entryI[x]
       /\ pc[x] \in {"held", "ldrCPSR"} => Load(x[1], "SavedCPSR") = entryI[x]
  /\ \A c \in CPU :
       buffer[c]["SavedCPSR"] # NoStore =>
         \E x \in Context : x[1] = c /\ pc[x] \in {"held", "ldrCPSR", "ubarrier"}

\* The latest datum is in memory or pending on the CPU that holds the lock.
DataPath ==
  /\ (\A c \in CPU : buffer[c]["Data"] = NoStore) => memory["Data"] = latest
  /\ \A c \in CPU :
       buffer[c]["Data"] # NoStore =>
         /\ buffer[c]["Data"] = latest
         /\ \E x \in Context : x[1] = c /\ pc[x] \in {"ldrCPSR", "ubarrier"}

\* Whoever is at WFE with no event pending waits for a lock that is still held or
\* for a SEV still to come.
WaitersCovered ==
  \A x \in Context :
    pc[x] = "wfe" /\ ~event[x[1]] =>
      memory["Mutex"] = Mutex_Locked \/ \E y \in Context : pc[y] \in {"usync", "sev"}

\* Everything spin_lock and spin_unlock rely on, as one inductive invariant: the
\* lock word, the IRQ state, the lock block and the waiters stay consistent.
LockInv ==
  /\ TypeOK
  /\ MutualExclusion
  /\ IRQDiscipline
  /\ MutexWord
  /\ CPSRPath
  /\ DataPath
  /\ WaitersCovered
=============================================================================
