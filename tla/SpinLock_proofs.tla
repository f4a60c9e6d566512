--------------------------- MODULE SpinLock_proofs ---------------------------
(* The spin lock keeps its invariant, and so its promises, on any number of  *)
(* CPUs.  LockInv is inductive: one lemma for each action shows that it      *)
(* keeps every conjunct, then the behaviours and the refinement follow.      *)
EXTENDS SpinLock, TLAPS

\* A context is a CPU and a level.
LEMMA ContextParts ==
  ASSUME NEW x \in Context
  PROVE  /\ x[1] \in CPU
         /\ x[2] \in Level
         /\ x = <<x[1], x[2]>>
BY DEF Context

\* Of the two contexts of a CPU only one is inside spin_lock or spin_unlock.
LEMMA OnePerCPU ==
  ASSUME IRQDiscipline, NEW x \in Context, NEW y \in Context,
         x[1] = y[1], pc[x] # "idle", pc[y] # "idle"
  PROVE  x = y
BY ContextParts DEF IRQDiscipline, Runs, Level

\* A caller that masks IRQs and starts to claim owns nothing yet.
LEMMA MaskIRQsPreserves ==
  ASSUME LockInv, NEW x \in Context, MaskIRQs(x)
  PROVE  LockInv'
<1>0. TypeOK /\ MutualExclusion /\ IRQDiscipline /\ MutexWord /\
      CPSRPath /\ DataPath /\ WaitersCovered
  BY DEF LockInv
<1> USE <1>0
<1>1. TypeOK'
  BY ContextParts DEF MaskIRQs, Goto, TypeOK, PC, ClaimPC, Bit, memVars
<1>2. MutualExclusion'
  BY ContextParts, OnePerCPU DEF MaskIRQs, Goto, TypeOK, MutualExclusion, MutexWord,
     Owns, OwnPC, Loc, Store, Mutex_Locked, Mutex_Unlocked, NoStore, memVars,
     cpuVars, ctxVars
<1>3. IRQDiscipline'
  BY ContextParts DEF MaskIRQs, Goto, TypeOK, IRQDiscipline, Runs
<1>4. MutexWord'
  BY DEF MaskIRQs, Goto, MutexWord, Owns, OwnPC, memVars
<1>5. CPSRPath'
  BY DEF MaskIRQs, Goto, TypeOK, CPSRPath, Load, memVars
<1>6. DataPath'
  BY DEF MaskIRQs, Goto, DataPath, memVars
<1>7. WaitersCovered'
  <2> SUFFICES ASSUME NEW w \in Context, pc'[w] = "wfe", ~event'[w[1]]
               PROVE  \/ memory'["Mutex"] = Mutex_Locked
                      \/ \E y \in Context : pc'[y] \in {"usync", "sev"}
    BY DEF WaitersCovered
  <2>1. pc[w] = "wfe" /\ ~event[w[1]] /\ w # x
    BY DEF TypeOK, MaskIRQs, Goto, memVars
  <2>2. \A y \in Context : pc[y] \in {"usync", "sev"} => pc'[y] = pc[y]
    BY DEF TypeOK, MaskIRQs, Goto
  <2> QED BY <2>1, <2>2 DEF WaitersCovered, MaskIRQs, memVars
<1> QED BY <1>1, <1>2, <1>3, <1>4, <1>5, <1>6, <1>7 DEF LockInv

\* LDREX goes on to STREX only if it saw the lock free in memory.
LEMMA LoadExclusivePreserves ==
  ASSUME LockInv, NEW x \in Context, LoadExclusive(x)
  PROVE  LockInv'
<1>0. TypeOK /\ MutualExclusion /\ IRQDiscipline /\ MutexWord /\
      CPSRPath /\ DataPath /\ WaitersCovered
  BY DEF LockInv
<1> USE <1>0
<1>1. TypeOK'
  BY DEF LoadExclusive, Goto, TypeOK, PC, ClaimPC, cpuVars, ctxVars
<1>2. MutualExclusion'
  BY DEF LoadExclusive, Goto, MutualExclusion, Owns, OwnPC
<1>3. IRQDiscipline'
  BY DEF LoadExclusive, Goto, IRQDiscipline, Runs, cpuVars, ctxVars
<1>4. MutexWord'
  <2>1. UNCHANGED <<memory, buffer>>
    BY DEF LoadExclusive
  <2>2. \A y \in Context : (Owns(y)' <=> Owns(y)) /\ (pc[y] = "usync" => pc'[y] = "usync")
    BY DEF TypeOK, LoadExclusive, Goto, Owns, OwnPC
  <2>3. ASSUME NEW y \in Context, pc'[y] = "strex", monitor'[y[1]]
        PROVE  memory["Mutex"] = Mutex_Unlocked
    <3>1. CASE y = x
      <4>1. Load(x[1], "Mutex") # Mutex_Locked
        BY <3>1, <2>3 DEF TypeOK, LoadExclusive, Goto
      <4>2. buffer[x[1]]["Mutex"] = NoStore
        BY OnePerCPU, ContextParts DEF MutexWord, LoadExclusive, Goto
      <4> QED BY <4>1, <4>2 DEF TypeOK, Load, Bit, Mutex_Locked, Mutex_Unlocked
    <3>2. CASE y # x
      <4>1. pc[y] = "strex" /\ pc[x] = "ldrex"
        BY <3>2, <2>3 DEF TypeOK, LoadExclusive, Goto
      <4>2. y[1] # x[1]
        BY <3>2, <4>1, OnePerCPU
      <4> QED BY <4>1, <4>2, <2>3, ContextParts DEF TypeOK, LoadExclusive, MutexWord
    <3> QED BY <3>1, <3>2
  <2> QED BY <2>1, <2>2, <2>3 DEF MutexWord
<1>5. CPSRPath'
  BY DEF LoadExclusive, Goto, CPSRPath, Load, ctxVars
<1>6. DataPath'
  BY DEF LoadExclusive, Goto, DataPath, ctxVars
<1>7. WaitersCovered'
  <2> SUFFICES ASSUME NEW w \in Context, pc'[w] = "wfe", ~event'[w[1]]
               PROVE  \/ memory'["Mutex"] = Mutex_Locked
                      \/ \E y \in Context : pc'[y] \in {"usync", "sev"}
    BY DEF WaitersCovered
  <2>1. \A y \in Context : pc[y] \in {"usync", "sev"} => pc'[y] = pc[y]
    BY DEF TypeOK, LoadExclusive, Goto
  <2>2. CASE w = x
    <3>1. Load(x[1], "Mutex") = Mutex_Locked
      BY <2>2 DEF TypeOK, LoadExclusive, Goto
    <3>2. memory["Mutex"] = Mutex_Locked
      BY <3>1, ContextParts DEF TypeOK, Load, Mutex_Locked, Mutex_Unlocked, NoStore
    <3> QED BY <3>2 DEF LoadExclusive
  <2>3. CASE w # x
    <3>1. pc[w] = "wfe" /\ ~event[w[1]]
      BY <2>3 DEF TypeOK, LoadExclusive, Goto, cpuVars
    <3> QED BY <3>1, <2>1 DEF WaitersCovered, LoadExclusive
  <2> QED BY <2>2, <2>3
<1> QED BY <1>1, <1>2, <1>3, <1>4, <1>5, <1>6, <1>7 DEF LockInv

\* A waiter that consumes an event looks at the lock again.
LEMMA WaitForEventPreserves ==
  ASSUME LockInv, NEW x \in Context, WaitForEvent(x)
  PROVE  LockInv'
<1>0. TypeOK /\ MutualExclusion /\ IRQDiscipline /\ MutexWord /\
      CPSRPath /\ DataPath /\ WaitersCovered
  BY DEF LockInv
<1> USE <1>0
<1>1. TypeOK'
  BY DEF WaitForEvent, Goto, TypeOK, PC, ClaimPC, Bit, Mutex_Locked, NoStore,
     memVars, ctxVars
<1>2. MutualExclusion'
  BY DEF WaitForEvent, Goto, MutualExclusion, Owns, OwnPC, Mutex_Unlocked
<1>3. IRQDiscipline'
  BY DEF WaitForEvent, Goto, IRQDiscipline, Runs, memVars, cpuVars, ctxVars
<1>4. MutexWord'
  BY DEF WaitForEvent, Goto, MutexWord, Owns, OwnPC, memVars
<1>5. CPSRPath'
  BY DEF WaitForEvent, Goto, CPSRPath, Load, memVars, ctxVars
<1>6. DataPath'
  BY DEF WaitForEvent, Goto, DataPath, memVars, ctxVars
<1>7. WaitersCovered'
  BY OnePerCPU DEF WaitForEvent, Goto, TypeOK, WaitersCovered, memVars
<1> QED BY <1>1, <1>2, <1>3, <1>4, <1>5, <1>6, <1>7 DEF LockInv

\* STREX succeeds for one context only, and closes every other monitor.
LEMMA StoreExclusivePreserves ==
  ASSUME LockInv, NEW x \in Context, StoreExclusive(x)
  PROVE  LockInv'
<1>0. TypeOK /\ MutualExclusion /\ IRQDiscipline /\ MutexWord /\
      CPSRPath /\ DataPath /\ WaitersCovered
  BY DEF LockInv
<1> USE <1>0
<1>1. TypeOK'
  <2>1. pc' \in [Context -> PC]
    BY DEF TypeOK, StoreExclusive, Goto, PC, ClaimPC, OwnPC
  <2>2. memory' \in [Loc -> Bit \cup Version]
    BY DEF TypeOK, StoreExclusive, Loc, Bit, Mutex_Locked
  <2>3. monitor' \in [CPU -> BOOLEAN]
    BY DEF TypeOK, StoreExclusive
  <2>4. memory'["Mutex"] \in Bit /\ memory'["SavedCPSR"] \in Bit /\ memory'["Data"] \in Version
    BY DEF TypeOK, StoreExclusive, Loc, Bit, Mutex_Locked
  <2> QED BY <2>1, <2>2, <2>3, <2>4 DEF TypeOK, StoreExclusive, cpuVars, ctxVars
<1>2. MutualExclusion'
  BY DEF StoreExclusive, Goto, MutualExclusion, MutexWord, Owns, OwnPC,
     Mutex_Locked, Mutex_Unlocked
<1>3. IRQDiscipline'
  BY DEF StoreExclusive, Goto, IRQDiscipline, Runs, cpuVars, ctxVars
<1>4. MutexWord'
  BY ContextParts DEF StoreExclusive, Goto, TypeOK, MutexWord, Owns, OwnPC, Loc,
     Mutex_Locked, Mutex_Unlocked
<1>5. CPSRPath'
  BY DEF StoreExclusive, Goto, TypeOK, CPSRPath, Load, Loc, ctxVars
<1>6. DataPath'
  BY DEF StoreExclusive, Goto, TypeOK, DataPath, Loc, ctxVars
<1>7. WaitersCovered'
  <2> SUFFICES ASSUME NEW w \in Context, pc'[w] = "wfe", ~event'[w[1]]
               PROVE  \/ memory'["Mutex"] = Mutex_Locked
                      \/ \E y \in Context : pc'[y] \in {"usync", "sev"}
    BY DEF WaitersCovered
  <2>1. pc[w] = "wfe" /\ ~event[w[1]]
    BY DEF TypeOK, StoreExclusive, Goto, cpuVars
  <2>2. \A y \in Context : pc[y] \in {"usync", "sev"} => pc'[y] = pc[y]
    BY DEF TypeOK, StoreExclusive, Goto
  <2>3. memory["Mutex"] = Mutex_Locked => memory'["Mutex"] = Mutex_Locked
    BY DEF TypeOK, StoreExclusive, Loc
  <2> QED BY <2>1, <2>2, <2>3 DEF WaitersCovered
<1> QED BY <1>1, <1>2, <1>3, <1>4, <1>5, <1>6, <1>7 DEF LockInv

\* The barrier of spin_lock only waits.
LEMMA LockBarrierPreserves ==
  ASSUME LockInv, NEW x \in Context, LockBarrier(x)
  PROVE  LockInv'
<1>0. TypeOK /\ MutualExclusion /\ IRQDiscipline /\ MutexWord /\
      CPSRPath /\ DataPath /\ WaitersCovered
  BY DEF LockInv
<1> USE <1>0
<1>1. TypeOK'
  BY DEF LockBarrier, Goto, TypeOK, PC, OwnPC, memVars, cpuVars, ctxVars
<1>2. MutualExclusion'
  BY DEF LockBarrier, Goto, MutualExclusion, Owns, OwnPC
<1>3. IRQDiscipline'
  BY DEF LockBarrier, Goto, IRQDiscipline, Runs, cpuVars, ctxVars
<1>4. MutexWord'
  BY DEF LockBarrier, Goto, MutexWord, Owns, OwnPC, memVars
<1>5. CPSRPath'
  BY DEF LockBarrier, Goto, CPSRPath, Load, memVars, ctxVars
<1>6. DataPath'
  BY DEF LockBarrier, Goto, DataPath, memVars, ctxVars
<1>7. WaitersCovered'
  BY DEF LockBarrier, Goto, WaitersCovered, memVars, cpuVars
<1> QED BY <1>1, <1>2, <1>3, <1>4, <1>5, <1>6, <1>7 DEF LockInv

\* The new holder's I bit goes to the lock block, through its own buffer.
LEMMA SaveCPSRPreserves ==
  ASSUME LockInv, NEW x \in Context, SaveCPSR(x)
  PROVE  LockInv'
<1>0. TypeOK /\ MutualExclusion /\ IRQDiscipline /\ MutexWord /\
      CPSRPath /\ DataPath /\ WaitersCovered
  BY DEF LockInv
<1> USE <1>0
<1>1. TypeOK'
  BY ContextParts DEF SaveCPSR, Goto, TypeOK, PC, OwnPC, Store, Loc, Bit, cpuVars
<1>2. MutualExclusion'
  BY DEF SaveCPSR, Goto, TypeOK, MutualExclusion, Owns, OwnPC
<1>3. IRQDiscipline'
  BY DEF SaveCPSR, Goto, IRQDiscipline, Runs, cpuVars
<1>4. MutexWord'
  BY DEF SaveCPSR, Goto, MutexWord, Owns, OwnPC, Store
<1>5. CPSRPath'
  BY ContextParts, OnePerCPU DEF SaveCPSR, Goto, TypeOK, CPSRPath, Load, Store, Loc,
     NoStore, Bit
<1>6. DataPath'
  BY DEF SaveCPSR, Goto, DataPath, Store
<1>7. WaitersCovered'
  BY DEF SaveCPSR, Goto, MutexWord, WaitersCovered, cpuVars
<1> QED BY <1>1, <1>2, <1>3, <1>4, <1>5, <1>6, <1>7 DEF LockInv

\* The holder writes its datum through its own buffer.
LEMMA WriteDataPreserves ==
  ASSUME LockInv, NEW x \in Context, WriteData(x)
  PROVE  LockInv'
<1>0. TypeOK /\ MutualExclusion /\ IRQDiscipline /\ MutexWord /\
      CPSRPath /\ DataPath /\ WaitersCovered
  BY DEF LockInv
<1> USE <1>0
<1>1. TypeOK'
  <2>1. Load(x[1], "Data") \in Int
    BY ContextParts DEF TypeOK, Load, Loc, Version, NoStore
  <2>2. latest' \in Version
    BY <2>1, DataVersionsAssumption DEF WriteData, Version
  <2>3. pc' \in [Context -> PC]
    BY DEF TypeOK, WriteData, Goto, PC, OwnPC
  <2> QED BY <2>2, <2>3, ContextParts DEF TypeOK, WriteData, Store, Loc, cpuVars
<1>2. MutualExclusion'
  BY DEF WriteData, Goto, MutualExclusion, Owns, OwnPC
<1>3. IRQDiscipline'
  BY DEF WriteData, Goto, IRQDiscipline, Runs, cpuVars
<1>4. MutexWord'
  BY DEF WriteData, Goto, MutexWord, Owns, OwnPC, Store
<1>5. CPSRPath'
  BY DEF WriteData, Goto, CPSRPath, Load, Store
<1>6. DataPath'
  <2> DEFINE c == x[1]
  <2>1. /\ c \in CPU
        /\ buffer' = [buffer EXCEPT ![c] = [@ EXCEPT !["Data"] = latest']]
        /\ pc'[x] = "ldrCPSR"
        /\ latest' \in Version
    <3>1. Load(c, "Data") \in Int
      BY ContextParts DEF TypeOK, Load, Loc, Version, NoStore
    <3>2. latest' \in Version
      BY <3>1, DataVersionsAssumption DEF WriteData, Version
    <3> QED BY <3>2, ContextParts DEF TypeOK, WriteData, Goto, Store
  <2>2. buffer'[c]["Data"] = latest' /\ latest' # NoStore
    BY <2>1 DEF TypeOK, Loc, Version, NoStore
  <2>3. ASSUME NEW k \in CPU, k # c
        PROVE  buffer'[k]["Data"] = NoStore
    <3>1. \A y \in Context : y[1] = k => ~Owns(y)
      BY <2>3 DEF MutualExclusion, WriteData, Goto, Owns, OwnPC
    <3>2. buffer[k]["Data"] = NoStore
      BY <3>1 DEF DataPath, Owns, OwnPC
    <3> QED BY <2>1, <2>3, <3>2 DEF TypeOK
  <2> QED BY <2>1, <2>2, <2>3 DEF DataPath
<1>7. WaitersCovered'
  BY DEF WriteData, Goto, TypeOK, WaitersCovered, cpuVars
<1> QED BY <1>1, <1>2, <1>3, <1>4, <1>5, <1>6, <1>7 DEF LockInv

\* The I bit a holder reads back is the one it saved.
LEMMA LoadCPSRPreserves ==
  ASSUME LockInv, NEW x \in Context, LoadCPSR(x)
  PROVE  LockInv'
<1>0. TypeOK /\ MutualExclusion /\ IRQDiscipline /\ MutexWord /\
      CPSRPath /\ DataPath /\ WaitersCovered
  BY DEF LockInv
<1> USE <1>0
<1>1. TypeOK'
  BY ContextParts DEF LoadCPSR, Goto, TypeOK, PC, OwnPC, Load, memVars, cpuVars
<1>2. MutualExclusion'
  BY DEF LoadCPSR, Goto, TypeOK, MutualExclusion, Owns, OwnPC
<1>3. IRQDiscipline'
  BY DEF LoadCPSR, Goto, IRQDiscipline, CPSRPath, Runs, cpuVars
<1>4. MutexWord'
  BY DEF LoadCPSR, Goto, MutualExclusion, MutexWord, Owns, OwnPC, memVars
<1>5. CPSRPath'
  BY DEF LoadCPSR, Goto, TypeOK, CPSRPath, Load, memVars
<1>6. DataPath'
  BY ContextParts DEF LoadCPSR, Goto, DataPath, memVars
<1>7. WaitersCovered'
  BY ContextParts DEF LoadCPSR, Goto, WaitersCovered, memVars, cpuVars
<1> QED BY <1>1, <1>2, <1>3, <1>4, <1>5, <1>6, <1>7 DEF LockInv

\* After the barrier of spin_unlock the holder has no store pending.
LEMMA UnlockBarrierPreserves ==
  ASSUME LockInv, NEW x \in Context, UnlockBarrier(x)
  PROVE  LockInv'
<1>0. TypeOK /\ MutualExclusion /\ IRQDiscipline /\ MutexWord /\
      CPSRPath /\ DataPath /\ WaitersCovered
  BY DEF LockInv
<1> USE <1>0
<1>1. TypeOK'
  BY ContextParts DEF UnlockBarrier, Goto, TypeOK, PC, OwnPC, Loc, memVars, cpuVars,
     ctxVars
<1>2. MutualExclusion'
  BY DEF UnlockBarrier, Goto, MutualExclusion, Owns, OwnPC, Loc
<1>3. IRQDiscipline'
  BY OnePerCPU DEF UnlockBarrier, Goto, IRQDiscipline, Runs, Bit, cpuVars, ctxVars
<1>4. MutexWord'
  BY DEF UnlockBarrier, Goto, MutexWord, Owns, OwnPC, Store, Drained, Mutex_Locked,
     NoStore, memVars
<1>5. CPSRPath'
  <2>1. ASSUME NEW c \in CPU, buffer[c]["SavedCPSR"] # NoStore
        PROVE  \E y \in Context : y[1] = c /\ pc'[y] \in {"held", "ldrCPSR", "ubarrier"}
    <3>1. c # x[1]
      BY <2>1 DEF UnlockBarrier, Drained, Loc
    <3> QED BY <2>1, <3>1 DEF CPSRPath, TypeOK, UnlockBarrier, Goto
  <2>2. ASSUME NEW y \in Context
        PROVE  /\ pc'[y] \notin {"idle", "held", "ldrCPSR"} => a2[y] = entryI[y]
               /\ pc'[y] \in {"held", "ldrCPSR"} => Load(y[1], "SavedCPSR") = entryI[y]
    BY DEF CPSRPath, TypeOK, UnlockBarrier, Goto
  <2> QED BY <2>1, <2>2 DEF CPSRPath, Load, UnlockBarrier, memVars, ctxVars
<1>6. DataPath'
  BY DEF UnlockBarrier, Goto, DataPath, Drained, Loc, NoStore, memVars, ctxVars
<1>7. WaitersCovered'
  BY DEF UnlockBarrier, Goto, WaitersCovered, Mutex_Unlocked, memVars, cpuVars
<1> QED BY <1>1, <1>2, <1>3, <1>4, <1>5, <1>6, <1>7 DEF LockInv

\* The store that frees the lock is pending on the CPU that held it.
LEMMA StoreUnlockedPreserves ==
  ASSUME LockInv, NEW x \in Context, StoreUnlocked(x)
  PROVE  LockInv'
<1>0. TypeOK /\ MutualExclusion /\ IRQDiscipline /\ MutexWord /\
      CPSRPath /\ DataPath /\ WaitersCovered
  BY DEF LockInv
<1> USE <1>0
<1>1. TypeOK'
  BY ContextParts DEF StoreUnlocked, Goto, TypeOK, PC, Store, Loc, Bit,
     Mutex_Unlocked, memVars, cpuVars, ctxVars
<1>2. MutualExclusion'
  BY DEF StoreUnlocked, Goto, MutualExclusion, Owns, OwnPC, cpuVars, ctxVars
<1>3. IRQDiscipline'
  BY DEF StoreUnlocked, Goto, IRQDiscipline, Runs, cpuVars, ctxVars
<1>4. MutexWord'
  BY DEF StoreUnlocked, Goto, TypeOK, MutualExclusion, MutexWord, Owns, OwnPC, Store
<1>5. CPSRPath'
  BY DEF StoreUnlocked, Goto, CPSRPath, Load, Store, ctxVars
<1>6. DataPath'
  BY DEF StoreUnlocked, Goto, DataPath, Store, memVars, ctxVars
<1>7. WaitersCovered'
  BY DEF StoreUnlocked, Goto, WaitersCovered, cpuVars
<1> QED BY <1>1, <1>2, <1>3, <1>4, <1>5, <1>6, <1>7 DEF LockInv

\* After the second barrier the lock is free in memory.
LEMMA UnlockSyncPreserves ==
  ASSUME LockInv, NEW x \in Context, UnlockSync(x)
  PROVE  LockInv'
<1>0. TypeOK /\ MutualExclusion /\ IRQDiscipline /\ MutexWord /\
      CPSRPath /\ DataPath /\ WaitersCovered
  BY DEF LockInv
<1> USE <1>0
<1>1. TypeOK'
  BY DEF UnlockSync, Goto, TypeOK, PC, memVars, cpuVars, ctxVars
<1>2. MutualExclusion'
  BY DEF UnlockSync, Goto, MutualExclusion, Owns, OwnPC
<1>3. IRQDiscipline'
  BY DEF UnlockSync, Goto, IRQDiscipline, Runs, cpuVars, ctxVars
<1>4. MutexWord'
  BY DEF UnlockSync, Goto, MutexWord, Owns, OwnPC, Drained, Loc, memVars
<1>5. CPSRPath'
  BY DEF UnlockSync, Goto, CPSRPath, Load, memVars, ctxVars
<1>6. DataPath'
  BY DEF UnlockSync, Goto, DataPath, memVars, ctxVars
<1>7. WaitersCovered'
  BY DEF UnlockSync, Goto, WaitersCovered
<1> QED BY <1>1, <1>2, <1>3, <1>4, <1>5, <1>6, <1>7 DEF LockInv

\* SEV leaves no CPU without an event.
LEMMA SendEventPreserves ==
  ASSUME LockInv, NEW x \in Context, SendEvent(x)
  PROVE  LockInv'
<1>0. TypeOK /\ MutualExclusion /\ IRQDiscipline /\ MutexWord /\
      CPSRPath /\ DataPath /\ WaitersCovered
  BY DEF LockInv
<1> USE <1>0
<1>1. TypeOK'
  BY DEF SendEvent, Goto, TypeOK, PC, memVars, ctxVars
<1>2. MutualExclusion'
  BY DEF SendEvent, Goto, MutualExclusion, Owns, OwnPC
<1>3. IRQDiscipline'
  BY DEF SendEvent, Goto, IRQDiscipline, Runs, ctxVars
<1>4. MutexWord'
  BY DEF SendEvent, Goto, MutexWord, Owns, OwnPC, memVars
<1>5. CPSRPath'
  BY DEF SendEvent, Goto, CPSRPath, Load, memVars, ctxVars
<1>6. DataPath'
  BY DEF SendEvent, Goto, DataPath, memVars, ctxVars
<1>7. WaitersCovered'
  BY ContextParts DEF SendEvent, Goto, WaitersCovered
<1> QED BY <1>1, <1>2, <1>3, <1>4, <1>5, <1>6, <1>7 DEF LockInv

\* The caller's IRQ state is back and the context is out of the code.
LEMMA RestoreCPSRPreserves ==
  ASSUME LockInv, NEW x \in Context, RestoreCPSR(x)
  PROVE  LockInv'
<1>0. TypeOK /\ MutualExclusion /\ IRQDiscipline /\ MutexWord /\
      CPSRPath /\ DataPath /\ WaitersCovered
  BY DEF LockInv
<1> USE <1>0
<1>1. TypeOK'
  BY DEF RestoreCPSR, Goto, TypeOK, PC, Bit, memVars
<1>2. MutualExclusion'
  BY DEF RestoreCPSR, Goto, MutualExclusion, Owns, OwnPC
<1>3. IRQDiscipline'
  <2>1. ASSUME NEW y \in Context, y # x, pc[y] # "idle"
        PROVE  y[1] # x[1]
    BY <2>1, OnePerCPU DEF RestoreCPSR, Goto
  <2>2. x[2] = "irq" => a2[x] = 1
    BY DEF RestoreCPSR, Goto, CPSRPath, IRQDiscipline
  <2>3. \A y \in Context : pc'[y] # "idle" => y # x /\ pc[y] # "idle"
    BY DEF TypeOK, RestoreCPSR, Goto
  <2>4. ASSUME NEW y \in Context, pc'[y] # "idle"
        PROVE  Runs(y)' /\ I'[y[1]] = 1 /\ (y[2] = "irq" => entryI'[y] = 1)
    BY <2>1, <2>3, <2>4, ContextParts DEF TypeOK, RestoreCPSR, IRQDiscipline, Runs
  <2>5. \A c \in CPU : inIRQ'[c] => I'[c] = 1
    BY <2>2, ContextParts DEF TypeOK, RestoreCPSR, Goto, IRQDiscipline, Runs
  <2> QED BY <2>4, <2>5 DEF IRQDiscipline
<1>4. MutexWord'
  BY DEF RestoreCPSR, Goto, MutexWord, Owns, OwnPC, memVars
<1>5. CPSRPath'
  BY DEF RestoreCPSR, Goto, TypeOK, CPSRPath, Load, memVars
<1>6. DataPath'
  BY DEF RestoreCPSR, Goto, DataPath, memVars
<1>7. WaitersCovered'
  <2> SUFFICES ASSUME NEW w \in Context, pc'[w] = "wfe", ~event'[w[1]]
               PROVE  \/ memory'["Mutex"] = Mutex_Locked
                      \/ \E y \in Context : pc'[y] \in {"usync", "sev"}
    BY DEF WaitersCovered
  <2>1. pc[w] = "wfe" /\ ~event[w[1]]
    BY DEF TypeOK, RestoreCPSR, Goto
  <2>2. \A y \in Context : pc[y] \in {"usync", "sev"} => pc'[y] = pc[y]
    BY DEF TypeOK, RestoreCPSR, Goto
  <2> QED BY <2>1, <2>2 DEF WaitersCovered, RestoreCPSR, memVars
<1> QED BY <1>1, <1>2, <1>3, <1>4, <1>5, <1>6, <1>7 DEF LockInv

\* A store that reaches memory was the one to come for its place.
LEMMA DrainPreserves ==
  ASSUME LockInv, NEW c \in CPU, Drain(c)
  PROVE  LockInv'
<1>0. TypeOK /\ MutualExclusion /\ IRQDiscipline /\ MutexWord /\
      CPSRPath /\ DataPath /\ WaitersCovered
  BY DEF LockInv
<1> USE <1>0
<1>1. TypeOK'
  BY DEF Drain, TypeOK, Store, Bit, Mutex_Unlocked, cpuVars, ctxVars
<1>2. MutualExclusion'
  BY DEF Drain, MutualExclusion, Owns
<1>3. IRQDiscipline'
  BY DEF Drain, IRQDiscipline, Runs, cpuVars, ctxVars
<1>4. MutexWord'
  BY DEF Drain, TypeOK, MutexWord, Owns, Store
<1>5. CPSRPath'
  BY DEF Drain, TypeOK, MutualExclusion, CPSRPath, Owns, OwnPC, Load, Store, ctxVars
<1>6. DataPath'
  BY DEF Drain, TypeOK, DataPath, Store, ctxVars
<1>7. WaitersCovered'
  BY DEF Drain, MutexWord, WaitersCovered, cpuVars
<1> QED BY <1>1, <1>2, <1>3, <1>4, <1>5, <1>6, <1>7 DEF LockInv

\* A handler starts only where IRQs are unmasked, outside the lock's code.
LEMMA TakeIRQPreserves ==
  ASSUME LockInv, NEW c \in CPU, TakeIRQ(c)
  PROVE  LockInv'
<1>0. TypeOK /\ MutualExclusion /\ IRQDiscipline /\ MutexWord /\
      CPSRPath /\ DataPath /\ WaitersCovered
  BY DEF LockInv
<1> USE <1>0
<1>1. TypeOK'
  BY DEF TakeIRQ, TypeOK, Bit, memVars, ctxVars
<1>2. MutualExclusion'
  BY DEF TakeIRQ, MutualExclusion, Owns
<1>3. IRQDiscipline'
  BY DEF TakeIRQ, TypeOK, IRQDiscipline, Runs, ctxVars
<1>4. MutexWord'
  BY DEF TakeIRQ, MutexWord, Owns, memVars
<1>5. CPSRPath'
  BY DEF TakeIRQ, CPSRPath, Load, memVars, ctxVars
<1>6. DataPath'
  BY DEF TakeIRQ, DataPath, memVars, ctxVars
<1>7. WaitersCovered'
  BY DEF TakeIRQ, WaitersCovered, memVars
<1> QED BY <1>1, <1>2, <1>3, <1>4, <1>5, <1>6, <1>7 DEF LockInv

\* A handler that returns leaves its CPU's foreground where it was.
LEMMA ReturnFromIRQPreserves ==
  ASSUME LockInv, NEW c \in CPU, ReturnFromIRQ(c)
  PROVE  LockInv'
<1>0. TypeOK /\ MutualExclusion /\ IRQDiscipline /\ MutexWord /\
      CPSRPath /\ DataPath /\ WaitersCovered
  BY DEF LockInv
<1> USE <1>0
<1>1. TypeOK'
  BY DEF ReturnFromIRQ, TypeOK, Bit, ctxVars
<1>2. MutualExclusion'
  BY DEF ReturnFromIRQ, MutualExclusion, Owns
<1>3. IRQDiscipline'
  <2>1. <<c, "irq">> \in Context
    BY DEF Context, Level
  <2>2. ASSUME NEW x \in Context, pc[x] # "idle"
        PROVE  x[1] # c
    BY <2>1, <2>2, ContextParts DEF ReturnFromIRQ, IRQDiscipline, Runs
  <2> QED BY <2>2, ContextParts DEF TypeOK, ReturnFromIRQ, IRQDiscipline, Runs, ctxVars
<1>4. MutexWord'
  BY DEF ReturnFromIRQ, MutexWord, Owns
<1>5. CPSRPath'
  BY DEF ReturnFromIRQ, CPSRPath, Load, ctxVars
<1>6. DataPath'
  BY DEF ReturnFromIRQ, DataPath, ctxVars
<1>7. WaitersCovered'
  BY DEF ReturnFromIRQ, WaitersCovered
<1> QED BY <1>1, <1>2, <1>3, <1>4, <1>5, <1>6, <1>7 DEF LockInv

\* A caller changes its I bit only outside the lock's code.
LEMMA CallerSetsIPreserves ==
  ASSUME LockInv, NEW c \in CPU, CallerSetsI(c)
  PROVE  LockInv'
<1>0. TypeOK /\ MutualExclusion /\ IRQDiscipline /\ MutexWord /\
      CPSRPath /\ DataPath /\ WaitersCovered
  BY DEF LockInv
<1> USE <1>0
<1>1. TypeOK'
  <2>1. I' \in [CPU -> Bit]
    BY DEF TypeOK, CallerSetsI, Bit
  <2> QED BY <2>1 DEF TypeOK, CallerSetsI, memVars, ctxVars
<1>2. MutualExclusion'
  BY DEF CallerSetsI, MutualExclusion, Owns
<1>3. IRQDiscipline'
  <2>1. <<c, "fg">> \in Context
    BY DEF Context, Level
  <2>2. ASSUME NEW x \in Context, pc[x] # "idle"
        PROVE  x[1] # c
    BY <2>1, <2>2, ContextParts DEF CallerSetsI, IRQDiscipline, Runs, Level
  <2> QED BY <2>2, ContextParts DEF TypeOK, CallerSetsI, IRQDiscipline, Runs, ctxVars
<1>4. MutexWord'
  BY DEF CallerSetsI, MutexWord, Owns, memVars
<1>5. CPSRPath'
  BY DEF CallerSetsI, CPSRPath, Load, memVars, ctxVars
<1>6. DataPath'
  BY DEF CallerSetsI, DataPath, memVars, ctxVars
<1>7. WaitersCovered'
  BY DEF CallerSetsI, WaitersCovered, memVars
<1> QED BY <1>1, <1>2, <1>3, <1>4, <1>5, <1>6, <1>7 DEF LockInv

-----------------------------------------------------------------------------
(* The invariant along behaviours.                                           *)

\* A lock block built with SPIN_INITIALISER, with nobody in the code, satisfies LockInv.
LEMMA InitLockInv == Init => LockInv
<1> SUFFICES ASSUME Init PROVE LockInv
  OBVIOUS
<1>1. \A c \in CPU, l \in Loc : buffer[c][l] = NoStore
  BY DEF Init
<1>2. TypeOK
  <2>1. 0 \in Version
    BY DataVersionsAssumption DEF Version
  <2>2. /\ memory \in [Loc -> Bit \cup Version]
        /\ memory["Mutex"] \in Bit /\ memory["SavedCPSR"] \in Bit
        /\ memory["Data"] \in Version
    BY <2>1 DEF Init, Loc, Bit, Mutex_Unlocked
  <2>3. buffer \in [CPU -> [Loc -> Bit \cup Version \cup {NoStore}]]
    BY DEF Init
  <2>4. pc \in [Context -> PC]
    BY DEF Init, PC
  <2>5. /\ monitor \in [CPU -> BOOLEAN] /\ event \in [CPU -> BOOLEAN]
        /\ inIRQ \in [CPU -> BOOLEAN] /\ I \in [CPU -> Bit]
        /\ a2 \in [Context -> Bit] /\ entryI \in [Context -> Bit] /\ latest \in Version
    BY <2>1 DEF Init, Bit
  <2>6. \A c \in CPU : /\ buffer[c]["Mutex"] \in {NoStore, Mutex_Unlocked}
                      /\ buffer[c]["SavedCPSR"] \in Bit \cup {NoStore}
                      /\ buffer[c]["Data"] \in Version \cup {NoStore}
    BY <1>1, Zenon DEF Loc
  <2> QED BY <2>2, <2>3, <2>4, <2>5, <2>6 DEF TypeOK
<1>3. \A x \in Context : pc[x] = "idle" /\ ~Owns(x)
  BY DEF Init, Owns, OwnPC
<1>4. \A c \in CPU : ~inIRQ[c]
  BY Zenon DEF Init
<1>5. memory["Data"] = latest
  BY DEF Init, Loc
<1>6. MutualExclusion /\ IRQDiscipline
  BY <1>3, <1>4 DEF MutualExclusion, IRQDiscipline
<1>7. MutexWord
  BY <1>3, <1>1 DEF MutexWord, Loc
<1>8. CPSRPath
  BY <1>3, <1>1 DEF CPSRPath, Loc
<1>9. DataPath /\ WaitersCovered
  BY <1>3, <1>1, <1>5 DEF DataPath, WaitersCovered, Loc
<1> QED BY <1>2, <1>6, <1>7, <1>8, <1>9 DEF LockInv

\* No instruction, drain, interrupt or return of any CPU breaks LockInv.
LEMMA NextLockInv == LockInv /\ [Next]_vars => LockInv'
<1> SUFFICES ASSUME LockInv, [Next]_vars PROVE LockInv'
  OBVIOUS
<1>1. ASSUME NEW x \in Context, MaskIRQs(x) \/ spin_lock(x) \/ WriteData(x) \/ spin_unlock(x)
      PROVE  LockInv'
  <2>1. CASE MaskIRQs(x)
    BY <2>1, MaskIRQsPreserves
  <2>2. CASE spin_lock(x)
    BY <2>2, LoadExclusivePreserves, WaitForEventPreserves, StoreExclusivePreserves,
       LockBarrierPreserves, SaveCPSRPreserves DEF spin_lock
  <2>3. CASE WriteData(x)
    BY <2>3, WriteDataPreserves
  <2>4. CASE spin_unlock(x)
    BY <2>4, LoadCPSRPreserves, UnlockBarrierPreserves, StoreUnlockedPreserves,
       UnlockSyncPreserves, SendEventPreserves, RestoreCPSRPreserves DEF spin_unlock
  <2> QED BY <1>1, <2>1, <2>2, <2>3, <2>4
<1>2. ASSUME NEW c \in CPU, Drain(c) \/ TakeIRQ(c) \/ ReturnFromIRQ(c) \/ CallerSetsI(c)
      PROVE  LockInv'
  BY <1>2, DrainPreserves, TakeIRQPreserves, ReturnFromIRQPreserves, CallerSetsIPreserves
<1>3. CASE UNCHANGED vars
  <2> USE <1>3 DEF vars
  <2>1. TypeOK' /\ MutualExclusion' /\ IRQDiscipline'
    BY DEF LockInv, TypeOK, MutualExclusion, IRQDiscipline, Owns, Runs
  <2>2. MutexWord' /\ CPSRPath'
    BY DEF LockInv, MutexWord, CPSRPath, Owns, Load
  <2>3. DataPath' /\ WaitersCovered'
    BY DEF LockInv, DataPath, WaitersCovered
  <2> QED BY <2>1, <2>2, <2>3 DEF LockInv
<1> QED BY <1>1, <1>2, <1>3 DEF Next

\* Every reachable state of the spin lock satisfies LockInv: the lock word, the IRQ
\* state, the lock block and the waiters stay consistent.
THEOREM LockInvHolds == Spec => []LockInv
BY InitLockInv, NextLockInv, PTL DEF Spec

\* The state of the lock and of the CPUs is always of its type.
THEOREM TypeCorrect == Spec => []TypeOK
<1>1. LockInv => TypeOK
  BY DEF LockInv
<1> QED BY <1>1, LockInvHolds, PTL

\* spin_lock never lets two contexts in, for any number of CPUs.
THEOREM LockExcludes == Spec => []MutualExclusion
<1>1. LockInv => MutualExclusion
  BY DEF LockInv
<1> QED BY <1>1, LockInvHolds, PTL

\* No interrupt handler enters spin_lock on top of its own CPU's foreground.
THEOREM NeverReentered == Spec => []NoReentry
<1>1. LockInv => NoReentry
  <2> SUFFICES ASSUME LockInv, NEW c \in CPU, pc[<<c, "irq">>] # "idle"
               PROVE  pc[<<c, "fg">>] = "idle"
    BY DEF NoReentry
  <2>1. <<c, "irq">> \in Context /\ <<c, "fg">> \in Context
    BY DEF Context, Level
  <2>2. IRQDiscipline
    BY DEF LockInv
  <2> QED BY <2>1, <2>2, OnePerCPU
<1> QED BY <1>1, LockInvHolds, PTL

\* spin_unlock restores the IRQ state spin_lock was called with.
THEOREM RestoresIRQs == Spec => []RestoresCallersIRQState
<1>1. LockInv => RestoresCallersIRQState
  BY DEF LockInv, CPSRPath, RestoresCallersIRQState
<1> QED BY <1>1, LockInvHolds, PTL

\* With the barriers where spin.s has them, a holder reads what the last one wrote.
THEOREM SeesLatest == Spec => []HolderSeesLatestData
<1>1. LockInv => HolderSeesLatestData
  <2> SUFFICES ASSUME LockInv, NEW x \in Context, pc[x] = "held"
               PROVE  Load(x[1], "Data") = latest
    BY DEF HolderSeesLatestData
  <2>1. x[1] \in CPU
    BY ContextParts
  <2>2. \A y \in Context : Owns(y) => y = x
    BY DEF LockInv, MutualExclusion, Owns, OwnPC
  <2>3. ASSUME NEW c \in CPU PROVE buffer[c]["Data"] = NoStore
    <3>1. ~ \E y \in Context : y[1] = c /\ pc[y] \in {"ldrCPSR", "ubarrier"}
      BY <2>2 DEF Owns, OwnPC
    <3> QED BY <3>1 DEF LockInv, DataPath
  <2> QED BY <2>1, <2>3 DEF LockInv, DataPath, Load
<1> QED BY <1>1, LockInvHolds, PTL

\* No CPU sleeps in WFE for a lock that is free, unless its wake-up is on the way.
THEOREM WakeupNotLost == Spec => []NoLostWakeup
<1>1. LockInv => NoLostWakeup
  <2> SUFFICES ASSUME LockInv, NEW c \in CPU, Asleep(c)
               PROVE  \/ memory["Mutex"] = Mutex_Locked
                      \/ \E x \in Context : pc[x] \in {"usync", "sev"}
    BY DEF NoLostWakeup
  <2>1. PICK l \in Level : pc[<<c, l>>] = "wfe" /\ ~event[c]
    BY DEF Asleep
  <2>2. <<c, l>> \in Context /\ <<c, l>>[1] = c
    BY DEF Context
  <2> QED BY <2>1, <2>2 DEF LockInv, WaitersCovered
<1> QED BY <1>1, LockInvHolds, PTL

-----------------------------------------------------------------------------
(* The spin lock implements LockPromise.                                     *)

\* The refinement mapping: the holder is the one context that owns the lock.
LEMMA HolderOwns ==
  ASSUME MutualExclusion, NEW x \in Context, Owns(x)
  PROVE  Holder = x
BY DEF Holder, MutualExclusion

\* A successful STREX is ClaimWrite, the store of Mutex_Unlocked is ReleaseWrite, and
\* every other step leaves the holder alone.
LEMMA StepKeepsPromise ==
  LockInv /\ LockInv' /\ [Next]_vars => [Promise!Next]_(Promise!vars)
<1> SUFFICES ASSUME LockInv, LockInv', [Next]_vars
             PROVE  [Promise!Next]_(Promise!vars)
  OBVIOUS
<1>m. MutualExclusion /\ TypeOK /\ MutexWord
  BY DEF LockInv
<1>n. ASSUME NEW x \in Context, Owns(x)' PROVE Holder' = x
  <2>1. MutualExclusion'
    BY DEF LockInv
  <2> QED BY <2>1, <1>n DEF Holder, MutualExclusion
<1>s. ASSUME \A y \in Context : Owns(y)' <=> Owns(y) PROVE UNCHANGED Promise!vars
  <2>1. CASE \E y \in Context : Owns(y)
    <3>1. PICK y \in Context : Owns(y)
      BY <2>1
    <3>2. Holder = y
      BY <3>1, <1>m, HolderOwns
    <3>3. Holder' = y
      BY <3>1, <1>s, <1>n
    <3> QED BY <3>2, <3>3 DEF Promise!vars
  <2>2. CASE ~ \E y \in Context : Owns(y)
    <3>1. Holder = NoContext /\ Holder' = NoContext
      BY <2>2, <1>s DEF Holder
    <3> QED BY <3>1 DEF Promise!vars
  <2> QED BY <2>1, <2>2
<1>1. ASSUME NEW x \in Context, StoreExclusive(x), monitor[x[1]]
      PROVE  Promise!ClaimWrite(x)
  <2>1. memory["Mutex"] = Mutex_Unlocked
    BY <1>1, <1>m DEF StoreExclusive, Goto, MutexWord
  <2>2. \A y \in Context : ~Owns(y)
    BY <2>1, <1>m DEF MutexWord, Mutex_Locked, Mutex_Unlocked
  <2>3. Owns(x)'
    BY <1>1, <1>m DEF StoreExclusive, Goto, Owns, OwnPC, TypeOK
  <2>4. Holder = NoContext
    BY <2>2 DEF Holder
  <2>5. Holder' = x
    BY <2>3, <1>n
  <2> QED BY <2>4, <2>5 DEF Promise!ClaimWrite, Promise!Unread
<1>2. ASSUME NEW x \in Context, StoreUnlocked(x)
      PROVE  Promise!ReleaseWrite(x)
  <2>1. Owns(x)
    BY <1>2 DEF StoreUnlocked, Goto, Owns, OwnPC
  <2>2. \A y \in Context : ~Owns(y)'
    BY <1>2, <2>1, <1>m DEF StoreUnlocked, Goto, Owns, OwnPC, TypeOK, MutualExclusion
  <2>3. Holder = x
    BY <2>1, <1>m, HolderOwns
  <2>4. Holder' = NoContext
    BY <2>2 DEF Holder
  <2> QED BY <2>3, <2>4 DEF Promise!ReleaseWrite
<1>3. ASSUME NEW x \in Context, StoreExclusive(x), ~monitor[x[1]]
      PROVE  UNCHANGED Promise!vars
  BY <1>3, <1>m, <1>s DEF StoreExclusive, Goto, Owns, OwnPC, TypeOK
<1>4. ASSUME NEW x \in Context,
             \/ MaskIRQs(x) \/ LoadExclusive(x) \/ WaitForEvent(x) \/ LockBarrier(x)
             \/ SaveCPSR(x) \/ WriteData(x)
      PROVE  UNCHANGED Promise!vars
  <2>1. \A y \in Context : Owns(y)' <=> Owns(y)
    BY <1>4, <1>m DEF MaskIRQs, LoadExclusive, WaitForEvent, LockBarrier, SaveCPSR,
       WriteData, Goto, Owns, OwnPC, TypeOK
  <2> QED BY <2>1, <1>s
<1>5. ASSUME NEW x \in Context,
             \/ LoadCPSR(x) \/ UnlockBarrier(x) \/ UnlockSync(x) \/ SendEvent(x)
             \/ RestoreCPSR(x)
      PROVE  UNCHANGED Promise!vars
  <2>1. \A y \in Context : Owns(y)' <=> Owns(y)
    BY <1>5, <1>m DEF LoadCPSR, UnlockBarrier, UnlockSync, SendEvent, RestoreCPSR, Goto,
       Owns, OwnPC, TypeOK
  <2> QED BY <2>1, <1>s
<1>6. ASSUME \/ UNCHANGED vars
             \/ \E c \in CPU : Drain(c) \/ TakeIRQ(c) \/ ReturnFromIRQ(c) \/ CallerSetsI(c)
      PROVE  UNCHANGED Promise!vars
  <2>1. UNCHANGED pc
    BY <1>6 DEF vars, Drain, TakeIRQ, ReturnFromIRQ, CallerSetsI
  <2> QED BY <2>1, <1>s DEF Owns
<1>7. ASSUME NEW x \in Context, MaskIRQs(x) \/ spin_lock(x) \/ WriteData(x) \/ spin_unlock(x)
      PROVE  [Promise!Next]_(Promise!vars)
  <2>1. CASE StoreExclusive(x)
    BY <2>1, <1>1, <1>3 DEF Promise!Next
  <2>2. CASE StoreUnlocked(x)
    BY <2>2, <1>2 DEF Promise!Next
  <2>3. CASE ~StoreExclusive(x) /\ ~StoreUnlocked(x)
    BY <2>3, <1>7, <1>4, <1>5 DEF spin_lock, spin_unlock
  <2> QED BY <2>1, <2>2, <2>3
<1> QED BY <1>6, <1>7 DEF Next

\* The spin lock, instruction by instruction, is a lock: it changes hands only through
\* a release, and only to one context.
THEOREM ImplementsPromise == Spec => KeepsPromise
<1>1. Init => Promise!Init
  BY DEF Init, Promise!Init, Promise!Unread, Holder, Owns, OwnPC
<1>2. LockInv /\ LockInv' /\ [Next]_vars => [Promise!Next]_(Promise!vars)
  BY StepKeepsPromise
<1> QED BY <1>1, <1>2, LockInvHolds, PTL DEF Spec, KeepsPromise, Promise!Spec
=============================================================================
