-------------------------- MODULE SpinRWLock_proofs --------------------------
(* The read-write lock keeps its invariant, and so its promises, on any       *)
(* number of CPUs of which any take interrupts.  One lemma for each action    *)
(* shows that it keeps every conjunct of RWLockInv; the behaviours and the    *)
(* refinement follow.                                                         *)
EXTENDS SpinRWLock, TLAPS, FiniteSetTheorems

-----------------------------------------------------------------------------
(* The inductive invariant behind the safety properties.                     *)

Meta == {"counter", "ustore"}   \* between MetaLock and MetaUnlock
Releases == {"write_unlock", "read_unlock"}

\* Where a context can be in its routine, with which answer of the counter.
OnPath(x) ==
  /\ pc[x] = "idle" <=> op[x] = "none"
  /\ ok[x] => pc[x] \in {"ustore", "msr", "held", "usync"}
  /\ pc[x] = "held" => ok[x] /\ op[x] \in WriteOps \cup {"read"}
  /\ pc[x] = "usync" => ok[x] /\ op[x] \in Releases
  /\ pc[x] = "msr" => IF ok[x] THEN op[x] \notin WriteOps ELSE op[x] # "write_unlock"
  /\ pc[x] = "ustore" /\ op[x] = "write_unlock" => ok[x]
  /\ pc[x] \in {"retry", "pause", "wfe", "upcall"} => op[x] \in WriteOps \cup {"read"}
  /\ x[2] = "irq" => op[x] \in {"none", "read", "read_unlock"}
PathOK == \A x \in Context : OnPath(x)

\* From MetaLock to MetaUnlock, and while it holds the lock for writing, a context is
\* what its CPU runs, with IRQs masked.
Masked(x) ==
  \/ pc[x] \in {"ldrex", "strex", "msr"} \cup Meta
  \/ pc[x] = "held" /\ op[x] \in WriteOps
IRQDiscipline ==
  /\ \A x \in Context : Masked(x) => Runs(x) /\ I[x[1]] = 1
  /\ \A c \in CPU : inIRQ[c] => I[c] = 1
  /\ \A c \in CPU : ~inIRQ[c] => pc[<<c, "irq">>] = "idle"

\* The Mutex word is locked for one context at a time, and a monitor that is open on
\* a CPU with no store of its own pending is open on an unlocked word.
MutexWord ==
  /\ \A x \in Context :
       pc[x] \in Meta =>
         /\ memory["Mutex"] = Mutex_Locked
         /\ \A c \in CPU : buffer[c]["Mutex"] = NoStore
         /\ \A y \in Context : pc[y] \in Meta => y = x
  /\ \A c \in CPU :
       buffer[c]["Mutex"] # NoStore =>
         /\ buffer[c]["Mutex"] = Mutex_Unlocked
         /\ memory["Mutex"] = Mutex_Locked
         /\ \A k \in CPU : buffer[k]["Mutex"] # NoStore => k = c
  /\ \A x \in Context :
       pc[x] = "strex" /\ monitor[x[1]] /\ buffer[x[1]]["Mutex"] = NoStore =>
         memory["Mutex"] = Mutex_Unlocked

\* Stores to the lock block are pending only before the MetaUnlock of the context
\* that made them.
BlockStores ==
  \A c \in CPU :
    /\ buffer[c]["Counter"] # NoStore => \E x \in Context : x[1] = c /\ pc[x] = "ustore"
    /\ buffer[c]["Pollword"] # NoStore =>
         \E x \in Context : x[1] = c /\ pc[x] = "ustore" /\ ok[x]
    /\ buffer[c]["SavedCPSR"] # NoStore =>
         \E x \in Context : x[1] = c /\ pc[x] = "ustore" /\ Writes(x)

\* The counter, wherever it is, counts the claims.
Readers == {x \in Context : Reads(x)}
Claimed == \E x \in Context : Writes(x) \/ Reads(x)
Counts(n) ==
  IF \E x \in Context : Writes(x) THEN n = Counter_Write
  ELSE n = -Counter_Read * Cardinality(Readers)
CounterCounts ==
  /\ (\A c \in CPU : buffer[c]["Counter"] = NoStore) => Counts(memory["Counter"])
  /\ \A c \in CPU : buffer[c]["Counter"] # NoStore => Counts(buffer[c]["Counter"])

\* The caller's I bit: in a2 inside a routine, in SavedCPSR for a writer, in the CPSR
\* while the context waits with IRQs as they were.
CPSRPath ==
  \A x \in Context :
    /\ x[2] = "irq" /\ pc[x] # "idle" => entryI[x] = 1
    /\ pc[x] \in {"ldrex", "strex", "counter"} /\ op[x] # "write_unlock" => a2[x] = entryI[x]
    /\ pc[x] \in {"ustore", "msr"} => a2[x] = entryI[x]
    /\ Writes(x) => Load(x[1], "SavedCPSR") = entryI[x]
    /\ pc[x] \in {"retry", "pause", "wfe", "upcall"} =>
         IF Runs(x) THEN I[x[1]] = entryI[x] ELSE entryI[x] = 0

\* The latest datum is in memory, or pending on the CPU of the writer that releases.
DataPath ==
  /\ (\A c \in CPU : buffer[c]["Data"] = NoStore) => memory["Data"] = latest
  /\ \A c \in CPU :
       buffer[c]["Data"] # NoStore =>
         /\ buffer[c]["Data"] = latest
         /\ \E x \in Context : x[1] = c /\ Writes(x) /\ op[x] = "write_unlock"

\* A claim that failed waits for somebody's claim, for a SEV still to come, for an
\* event that is there, or for the handler that took it.
Covered == \E y \in Context : Writes(y) \/ Reads(y) \/ (op[y] \in Releases /\ ok[y])
WaitersCovered ==
  \A x \in Context :
    op[x] \in WriteOps \cup {"read"} /\ ~ok[x] /\ pc[x] \in {"ustore", "msr", "pause", "wfe"} =>
      event[x[1]] \/ Covered \/ (x[2] = "fg" /\ op[<<x[1], "irq">>] = "read")

\* The pollword of a lock that nobody has is 1.
PollwordSet ==
  Claimed \/
    /\ \A c \in CPU : buffer[c]["Pollword"] \in {NoStore, 1}
    /\ (\A c \in CPU : buffer[c]["Pollword"] = NoStore) => memory["Pollword"] = 1

\* Everything the routines rely on, as one inductive invariant.
RWLockInv ==
  /\ TypeOK
  /\ PathOK
  /\ IRQDiscipline
  /\ MutexWord
  /\ BlockStores
  /\ WriterIsAlone
  /\ CounterCounts
  /\ CPSRPath
  /\ DataPath
  /\ WaitersCovered
  /\ PollwordSet
-----------------------------------------------------------------------------
(* What every proof uses.                                                    *)

\* How a step changes who has the lock.
KeepsClaims ==
  \A y \in Context : (Writes(y)' <=> Writes(y)) /\ (Reads(y)' <=> Reads(y))
GainsWrite(x) ==
  \A y \in Context : ~Writes(y) /\ ~Reads(y) /\ ~Reads(y)' /\ (Writes(y)' <=> y = x)
LosesWrite(x) ==
  \A y \in Context : ~Writes(y)' /\ ~Reads(y)' /\ ~Reads(y) /\ (Writes(y) <=> y = x)
GainsRead(x) ==
  /\ \A y \in Context : ~Writes(y) /\ ~Writes(y)' /\ (Reads(y)' <=> Reads(y) \/ y = x)
  /\ ~Reads(x)
LosesRead(x) ==
  /\ \A y \in Context : ~Writes(y) /\ ~Writes(y)' /\ (Reads(y)' <=> Reads(y) /\ y # x)
  /\ Reads(x)

\* A context is a CPU and a level.
LEMMA ContextParts ==
  /\ \A x \in Context : x[1] \in CPU /\ x[2] \in Level /\ x = <<x[1], x[2]>>
  /\ \A c \in CPU : <<c, "fg">> \in Context /\ <<c, "irq">> \in Context
BY DEF Context, Level

\* The places of the lock block, the two levels, and values that differ.
LEMMA Places ==
  /\ "Mutex" \in Loc /\ "SavedCPSR" \in Loc /\ "Counter" \in Loc
  /\ "Pollword" \in Loc /\ "Data" \in Loc
BY DEF Loc

\* There are finitely many contexts, so readers can be counted.
LEMMA ContextFinite == IsFiniteSet(Context) /\ Cardinality(Context) \in Nat
<1>1. IsFiniteSet({} \cup {"fg"})
  BY FS_EmptySet, FS_AddElement
<1>2. IsFiniteSet(({} \cup {"fg"}) \cup {"irq"})
  BY <1>1, FS_AddElement
<1>3. ({} \cup {"fg"}) \cup {"irq"} = Level
  BY DEF Level
<1>4. IsFiniteSet(Level)
  BY <1>2, <1>3
<1>5. IsFiniteSet(Context)
  BY <1>4, CPUAssumption, FS_Product DEF Context
<1> QED BY <1>5, FS_CardinalityType

\* The number of readers is a count of contexts.
LEMMA ReadersCounted ==
  /\ IsFiniteSet(Readers)
  /\ Cardinality(Readers) \in Nat
  /\ Cardinality(Readers) <= Cardinality(Context)
BY ContextFinite, FS_Subset, FS_CardinalityType DEF Readers

\* A CPU runs one of its two contexts.
LEMMA OneRuns ==
  \A x, y \in Context : x[1] = y[1] /\ Runs(x) /\ Runs(y) => x = y
BY ContextParts DEF Runs, Level

\* The handler and the foreground of a CPU.
LEMMA ContextsOf ==
  ASSUME NEW c \in CPU
  PROVE  \E h \in Context, f \in Context :
           /\ h = <<c, "irq">> /\ f = <<c, "fg">> /\ h # f
           /\ h[1] = c /\ h[2] = "irq" /\ f[1] = c /\ f[2] = "fg"
           /\ \A y \in Context : y[1] = c => y = h \/ y = f
<1>1. \A y \in Context : y[1] = c => y = <<c, "irq">> \/ y = <<c, "fg">>
  BY ContextParts DEF Level
<1> QED BY <1>1, ContextParts

\* What a CPU stores goes to its own buffer, and nowhere else.
LEMMA StoreAt ==
  ASSUME TypeOK, NEW c \in CPU, NEW stores, Store(c, stores)
  PROVE  /\ \A l \in Loc : buffer'[c][l] = IF l \in DOMAIN stores THEN stores[l]
                                           ELSE buffer[c][l]
         /\ \A k \in CPU : k # c => buffer'[k] = buffer[k]
         /\ (\A l \in DOMAIN stores : stores[l] \in Int) => buffer' \in [CPU -> [Loc -> Int]]
BY DEF TypeOK, Store

\* While a context looks at the counter no store to the lock block is pending.
LEMMA BlockSettled ==
  ASSUME MutexWord, BlockStores, TypeOK, NEW x \in Context, pc[x] = "counter", NEW c \in CPU
  PROVE  /\ buffer[c]["Counter"] = NoStore
         /\ buffer[c]["Pollword"] = NoStore
         /\ buffer[c]["SavedCPSR"] = NoStore
         /\ buffer[c]["Mutex"] = NoStore
BY DEF MutexWord, BlockStores, Meta

\* What the counter tells the context that looks at it.
LEMMA CounterTells ==
  ASSUME RWLockInv, NEW x \in Context, pc[x] = "counter"
  PROVE  /\ Counts(memory["Counter"])
         /\ memory["Counter"] = 0 <=> ~Claimed
         /\ memory["Counter"] = Counter_Write <=> \E y \in Context : Writes(y)
<1>1. Counts(memory["Counter"])
  BY BlockSettled DEF RWLockInv, CounterCounts
<1>2. Cardinality(Readers) = 0 <=> Readers = {}
  BY ReadersCounted, FS_EmptySet
<1>3. Cardinality(Readers) \in Nat
  BY ReadersCounted
<1>4. CASE \E y \in Context : Writes(y)
  BY <1>1, <1>4 DEF Counts, Claimed, Counter_Write
<1>5. CASE ~\E y \in Context : Writes(y)
  <2>1. memory["Counter"] = -2 * Cardinality(Readers)
    BY <1>1, <1>5 DEF Counts, Counter_Read
  <2>2. memory["Counter"] = 0 <=> Readers = {}
    BY <2>1, <1>2, <1>3
  <2>3. memory["Counter"] # Counter_Write
    BY <2>1, <1>3 DEF Counter_Write
  <2>4. Claimed <=> Readers # {}
    BY <1>5 DEF Claimed, Readers
  <2> QED BY <1>1, <1>5, <2>2, <2>3, <2>4
<1> QED BY <1>4, <1>5

-----------------------------------------------------------------------------
(* The actions.                                                              *)

\* A foreground that starts to claim has no claim yet.
LEMMA ClaimPreserves ==
  ASSUME RWLockInv, NEW x \in Context, NEW routine \in FgOps, Claim(x, routine)
  PROVE  RWLockInv' /\ KeepsClaims
<1>0. TypeOK /\ PathOK /\ IRQDiscipline /\ MutexWord /\ BlockStores /\ WriterIsAlone /\
      CounterCounts /\ CPSRPath /\ DataPath /\ WaitersCovered /\ PollwordSet
  BY DEF RWLockInv
<1> USE <1>0
<1>e. /\ pc[x] = "idle" /\ pc'[x] = "ldrex" /\ x[2] = "fg" /\ Runs(x)
      /\ op'[x] \in WriteOps \cup {"read"} /\ ok'[x] = ok[x]
      /\ a2'[x] = I[x[1]] /\ entryI'[x] = I[x[1]]
      /\ \A c \in CPU : I'[c] = IF c = x[1] THEN 1 ELSE I[c]
      /\ UNCHANGED <<memory, buffer, monitor, event, inIRQ, latest>>
  BY ContextParts, CPUAssumption DEF Claim, MaskIRQs, Goto, At, memVars, cpuVars, ctxVars,
     TypeOK, WriteOps
<1>f. \A y \in Context : y # x =>
        /\ pc'[y] = pc[y] /\ op'[y] = op[y] /\ ok'[y] = ok[y]
        /\ a2'[y] = a2[y] /\ entryI'[y] = entryI[y]
  BY <1>0 DEF Claim, MaskIRQs, Goto, At, memVars, cpuVars, ctxVars, TypeOK
<1>w. \A y \in Context : (Writes(y)' <=> Writes(y)) /\ (Reads(y)' <=> Reads(y))
  BY <1>e, <1>f, ContextParts DEF PathOK, OnPath, Writes, Reads, HasClaim, WriteOps
<1>n. ~Writes(x) /\ ~Writes(x)'
  BY <1>e, <1>f DEF PathOK, OnPath, Writes, Reads, HasClaim, WriteOps
<1>1. TypeOK'
  BY ContextParts, Places, CPUAssumption DEF Claim, MaskIRQs, Goto, At, memVars, cpuVars,
     ctxVars, TypeOK, PC, Bit, Loc, Routine, WriteOps
<1>2. PathOK'
  BY <1>e, <1>f, ContextParts DEF PathOK, OnPath, WriteOps, Releases
<1>3. IRQDiscipline'
  <2>1. \A y \in Context : Masked(y)' => Runs(y)' /\ I'[y[1]] = 1
    BY <1>e, <1>f, ContextParts, OneRuns DEF IRQDiscipline, Masked, Runs, Meta, WriteOps
  <2>2. \A c \in CPU : inIRQ'[c] => I'[c] = 1
    BY <1>e, <1>f, ContextParts DEF IRQDiscipline, Runs
  <2>3. \A c \in CPU : ~inIRQ'[c] => pc'[<<c, "irq">>] = "idle"
    BY ZenonT(30), <1>e, <1>f, ContextParts DEF IRQDiscipline, Runs
  <2> QED BY <2>1, <2>2, <2>3 DEF IRQDiscipline
<1>4. MutexWord'
  BY <1>e, <1>f, ContextParts, Places DEF MutexWord, Meta
<1>5. BlockStores'
  BY <1>e, <1>f, ContextParts, Places, <1>w DEF BlockStores
<1>6. WriterIsAlone'
  BY <1>e, <1>f, <1>w DEF WriterIsAlone
<1>7. CounterCounts'
  BY <1>e, <1>f, Places, <1>w DEF CounterCounts, Counts, Readers
<1>8. CPSRPath'
  <2>1. \A y \in Context : y[2] = "irq" /\ pc'[y] # "idle" => entryI'[y] = 1
    BY <1>e, <1>f, ContextParts, <1>n DEF IRQDiscipline, CPSRPath, Runs
  <2>2. \A y \in Context :
           pc'[y] \in {"ldrex", "strex", "counter"} /\ op'[y] # "write_unlock" =>
             a2'[y] = entryI'[y]
    BY <1>e, <1>f, ContextParts, <1>n DEF PathOK, OnPath, CPSRPath, Runs
  <2>3. \A y \in Context : pc'[y] \in {"ustore", "msr"} => a2'[y] = entryI'[y]
    BY <1>e, <1>f, ContextParts, <1>n DEF CPSRPath
  <2>4. \A y \in Context : Writes(y)' => Load(y[1], "SavedCPSR")' = entryI'[y]
    BY <1>e, <1>f, ContextParts, Places, <1>w, <1>n DEF CPSRPath, Load
  <2>5. \A y \in Context : pc'[y] \in {"retry", "pause", "wfe", "upcall"} =>
           IF Runs(y)' THEN I'[y[1]] = entryI'[y] ELSE entryI'[y] = 0
    BY <1>e, <1>f, ContextParts, OneRuns, <1>n DEF IRQDiscipline, PathOK, OnPath, CPSRPath,
       Runs, Level
  <2> QED BY <2>1, <2>2, <2>3, <2>4, <2>5 DEF CPSRPath
<1>9. DataPath'
  BY <1>e, <1>f, ContextParts, Places, <1>w, <1>n DEF DataPath
<1>10. WaitersCovered'
  BY <1>e, <1>f, ContextParts, OneRuns, <1>w DEF PathOK, OnPath, WaitersCovered, Covered,
     WriteOps, Releases
<1>11. PollwordSet'
  BY <1>e, <1>f, ContextParts, Places, <1>w DEF PollwordSet, Claimed
<1>12. KeepsClaims
  BY <1>w DEF KeepsClaims
<1> QED BY <1>1, <1>2, <1>3, <1>4, <1>5, <1>6, <1>7, <1>8, <1>9, <1>10, <1>11, <1>12
       DEF RWLockInv

\* A claimant that was woken masks IRQs again.
LEMMA ClaimAgainPreserves ==
  ASSUME RWLockInv, NEW x \in Context, ClaimAgain(x)
  PROVE  RWLockInv' /\ KeepsClaims
<1>0. TypeOK /\ PathOK /\ IRQDiscipline /\ MutexWord /\ BlockStores /\ WriterIsAlone /\
      CounterCounts /\ CPSRPath /\ DataPath /\ WaitersCovered /\ PollwordSet
  BY DEF RWLockInv
<1> USE <1>0
<1>e. /\ pc[x] = "retry" /\ pc'[x] = "ldrex" /\ Runs(x)
      /\ op'[x] = op[x] /\ ok'[x] = ok[x] /\ a2'[x] = I[x[1]] /\ entryI'[x] = entryI[x]
      /\ \A c \in CPU : I'[c] = IF c = x[1] THEN 1 ELSE I[c]
      /\ UNCHANGED <<memory, buffer, monitor, event, inIRQ, latest>>
  BY ContextParts, Places, CPUAssumption DEF ClaimAgain, MaskIRQs, Goto, At, memVars,
     cpuVars, ctxVars, TypeOK
<1>f. \A y \in Context : y # x =>
        /\ pc'[y] = pc[y] /\ op'[y] = op[y] /\ ok'[y] = ok[y]
        /\ a2'[y] = a2[y] /\ entryI'[y] = entryI[y]
  BY <1>0 DEF ClaimAgain, MaskIRQs, Goto, At, memVars, cpuVars, ctxVars, TypeOK
<1>w. \A y \in Context : (Writes(y)' <=> Writes(y)) /\ (Reads(y)' <=> Reads(y))
  BY <1>e, <1>f, ContextParts DEF PathOK, OnPath, Writes, Reads, HasClaim, WriteOps
<1>1. TypeOK'
  BY ContextParts, Places, CPUAssumption DEF ClaimAgain, MaskIRQs, Goto, At, memVars,
     cpuVars, ctxVars, TypeOK, PC, Bit, Loc, Routine, WriteOps
<1>2. PathOK'
  BY <1>e, <1>f, ContextParts DEF PathOK, OnPath, WriteOps, Releases
<1>3. IRQDiscipline'
  <2>1. \A y \in Context : Masked(y)' => Runs(y)' /\ I'[y[1]] = 1
    BY <1>e, <1>f, ContextParts, OneRuns DEF IRQDiscipline, Masked, Runs, Meta, WriteOps
  <2>2. \A c \in CPU : inIRQ'[c] => I'[c] = 1
    BY <1>e, <1>f, ContextParts DEF IRQDiscipline, Runs
  <2>3. \A c \in CPU : ~inIRQ'[c] => pc'[<<c, "irq">>] = "idle"
    BY <1>e, <1>f, ContextParts DEF IRQDiscipline, Runs
  <2> QED BY <2>1, <2>2, <2>3 DEF IRQDiscipline
<1>4. MutexWord'
  BY <1>e, <1>f, ContextParts, Places DEF MutexWord, Meta
<1>5. BlockStores'
  BY <1>e, <1>f, ContextParts, Places, <1>w DEF BlockStores
<1>6. WriterIsAlone'
  BY <1>e, <1>f, <1>w DEF WriterIsAlone
<1>7. CounterCounts'
  BY ZenonT(30), <1>e, <1>f, Places, <1>w DEF CounterCounts, Counts, Readers
<1>8. CPSRPath'
  <2>1. \A y \in Context : y[2] = "irq" /\ pc'[y] # "idle" => entryI'[y] = 1
    BY <1>e, <1>f, ContextParts DEF IRQDiscipline, CPSRPath, Runs
  <2>2. \A y \in Context :
           pc'[y] \in {"ldrex", "strex", "counter"} /\ op'[y] # "write_unlock" =>
             a2'[y] = entryI'[y]
    BY <1>e, <1>f, ContextParts DEF PathOK, OnPath, CPSRPath, Runs
  <2>3. \A y \in Context : pc'[y] \in {"ustore", "msr"} => a2'[y] = entryI'[y]
    BY <1>e, <1>f, ContextParts DEF CPSRPath
  <2>4. \A y \in Context : Writes(y)' => Load(y[1], "SavedCPSR")' = entryI'[y]
    BY <1>e, <1>f, ContextParts, Places, <1>w DEF CPSRPath, Load
  <2>5. \A y \in Context : pc'[y] \in {"retry", "pause", "wfe", "upcall"} =>
           IF Runs(y)' THEN I'[y[1]] = entryI'[y] ELSE entryI'[y] = 0
    BY <1>e, <1>f, ContextParts, OneRuns DEF IRQDiscipline, PathOK, OnPath, CPSRPath, Runs,
       Level
  <2> QED BY <2>1, <2>2, <2>3, <2>4, <2>5 DEF CPSRPath
<1>9. DataPath'
  BY <1>e, <1>f, ContextParts, Places, <1>w DEF DataPath
<1>10. WaitersCovered'
  BY <1>e, <1>f, ContextParts, OneRuns, <1>w DEF PathOK, OnPath, WaitersCovered, Covered,
     WriteOps, Releases
<1>11. PollwordSet'
  BY <1>e, <1>f, ContextParts, Places, <1>w DEF PollwordSet, Claimed
<1>12. KeepsClaims
  BY <1>w DEF KeepsClaims
<1> QED BY <1>1, <1>2, <1>3, <1>4, <1>5, <1>6, <1>7, <1>8, <1>9, <1>10, <1>11, <1>12
       DEF RWLockInv

\* LDREX goes on to STREX only if its CPU saw the Mutex word unlocked.
LEMMA LoadExclusivePreserves ==
  ASSUME RWLockInv, NEW x \in Context, LoadExclusive(x)
  PROVE  RWLockInv' /\ KeepsClaims
<1>0. TypeOK /\ PathOK /\ IRQDiscipline /\ MutexWord /\ BlockStores /\ WriterIsAlone /\
      CounterCounts /\ CPSRPath /\ DataPath /\ WaitersCovered /\ PollwordSet
  BY DEF RWLockInv
<1> USE <1>0
<1>e. /\ pc[x] = "ldrex" /\ pc'[x] \in {"ldrex", "strex"} /\ Runs(x)
      /\ pc'[x] = "strex" => Load(x[1], "Mutex") # Mutex_Locked
      /\ \A c \in CPU : c # x[1] => monitor'[c] = monitor[c]
      /\ UNCHANGED <<memory, buffer, event, I, inIRQ, op, ok, a2, entryI, latest>>
  BY ContextParts, Places, CPUAssumption DEF LoadExclusive, Goto, At, memVars, cpuVars,
     ctxVars, TypeOK
<1>f. \A y \in Context : y # x =>
        /\ pc'[y] = pc[y]
  BY <1>0 DEF LoadExclusive, Goto, At, memVars, cpuVars, ctxVars, TypeOK
<1>w. \A y \in Context : (Writes(y)' <=> Writes(y)) /\ (Reads(y)' <=> Reads(y))
  BY <1>e, <1>f, ContextParts DEF PathOK, OnPath, Writes, Reads, HasClaim, WriteOps
<1>1. TypeOK'
  BY ContextParts, Places, CPUAssumption DEF LoadExclusive, Goto, At, memVars, cpuVars,
     ctxVars, TypeOK, PC, Bit, Loc, Routine, WriteOps
<1>2. PathOK'
  BY <1>e, <1>f, ContextParts DEF PathOK, OnPath, WriteOps, Releases
<1>3. IRQDiscipline'
  <2>1. \A y \in Context : Masked(y)' => Runs(y)' /\ I'[y[1]] = 1
    BY <1>e, <1>f, ContextParts, OneRuns DEF IRQDiscipline, Masked, Runs, Meta, WriteOps
  <2>2. \A c \in CPU : inIRQ'[c] => I'[c] = 1
    BY <1>e, <1>f, ContextParts DEF IRQDiscipline, Runs
  <2>3. \A c \in CPU : ~inIRQ'[c] => pc'[<<c, "irq">>] = "idle"
    BY <1>e, <1>f, ContextParts DEF IRQDiscipline, Runs
  <2> QED BY <2>1, <2>2, <2>3 DEF IRQDiscipline
<1>4. MutexWord'
  <2>1. \A y \in Context : pc'[y] = "strex" /\ y[1] = x[1] => y = x
    BY <1>e, <1>f, OneRuns DEF IRQDiscipline, Masked
  <2>2. memory["Mutex"] = Mutex_Locked \/ memory["Mutex"] = Mutex_Unlocked
    BY Places DEF TypeOK, Bit, Mutex_Locked, Mutex_Unlocked
  <2>3. \A y \in Context :
          pc'[y] = "strex" /\ monitor'[y[1]] /\ buffer[y[1]]["Mutex"] = NoStore =>
            memory["Mutex"] = Mutex_Unlocked
    BY <1>e, <1>f, <2>1, <2>2, ContextParts DEF MutexWord, Load
  <2> QED BY <1>e, <1>f, <2>3 DEF MutexWord, Meta
<1>5. BlockStores'
  BY <1>e, <1>f, ContextParts, Places, <1>w DEF BlockStores
<1>6. WriterIsAlone'
  BY <1>e, <1>f, <1>w DEF WriterIsAlone
<1>7. CounterCounts'
  BY <1>e, <1>f, Places, <1>w DEF CounterCounts, Counts, Readers
<1>8. CPSRPath'
  <2>1. \A y \in Context : y[2] = "irq" /\ pc'[y] # "idle" => entryI'[y] = 1
    BY <1>e, <1>f, ContextParts DEF IRQDiscipline, CPSRPath, Runs
  <2>2. \A y \in Context :
           pc'[y] \in {"ldrex", "strex", "counter"} /\ op'[y] # "write_unlock" =>
             a2'[y] = entryI'[y]
    BY <1>e, <1>f, ContextParts DEF PathOK, OnPath, CPSRPath, Runs
  <2>3. \A y \in Context : pc'[y] \in {"ustore", "msr"} => a2'[y] = entryI'[y]
    BY <1>e, <1>f, ContextParts DEF CPSRPath
  <2>4. \A y \in Context : Writes(y)' => Load(y[1], "SavedCPSR")' = entryI'[y]
    BY <1>e, <1>f, ContextParts, Places, <1>w DEF CPSRPath, Load
  <2>5. \A y \in Context : pc'[y] \in {"retry", "pause", "wfe", "upcall"} =>
           IF Runs(y)' THEN I'[y[1]] = entryI'[y] ELSE entryI'[y] = 0
    BY <1>e, <1>f, ContextParts, OneRuns DEF IRQDiscipline, PathOK, OnPath, CPSRPath, Runs,
       Level
  <2> QED BY <2>1, <2>2, <2>3, <2>4, <2>5 DEF CPSRPath
<1>9. DataPath'
  BY <1>e, <1>f, ContextParts, Places, <1>w DEF DataPath
<1>10. WaitersCovered'
  BY <1>e, <1>f, ContextParts, OneRuns, <1>w DEF PathOK, OnPath, WaitersCovered, Covered,
     WriteOps, Releases
<1>11. PollwordSet'
  BY <1>e, <1>f, ContextParts, Places, <1>w DEF PollwordSet, Claimed
<1>12. KeepsClaims
  BY <1>w DEF KeepsClaims
<1> QED BY <1>1, <1>2, <1>3, <1>4, <1>5, <1>6, <1>7, <1>8, <1>9, <1>10, <1>11, <1>12
       DEF RWLockInv

\* STREX succeeds for one context only, and closes every other monitor.
LEMMA StoreExclusivePreserves ==
  ASSUME RWLockInv, NEW x \in Context, StoreExclusive(x)
  PROVE  RWLockInv' /\ KeepsClaims
<1>0. TypeOK /\ PathOK /\ IRQDiscipline /\ MutexWord /\ BlockStores /\ WriterIsAlone /\
      CounterCounts /\ CPSRPath /\ DataPath /\ WaitersCovered /\ PollwordSet
  BY DEF RWLockInv
<1> USE <1>0
<1>e. /\ pc[x] = "strex" /\ Runs(x) /\ buffer[x[1]]["Mutex"] = NoStore
      /\ \/ /\ monitor[x[1]] /\ pc'[x] = "counter" /\ monitor' = [c \in CPU |-> FALSE]
            /\ memory' = [memory EXCEPT !["Mutex"] = Mutex_Locked]
         \/ ~monitor[x[1]] /\ pc'[x] = "ldrex" /\ UNCHANGED <<memory, monitor>>
      /\ \A l \in Loc \ {"Mutex"} : memory'[l] = memory[l]
      /\ UNCHANGED <<buffer, event, I, inIRQ, op, ok, a2, entryI, latest>>
  <2>1. pc[x] = "strex" /\ Runs(x) /\ buffer[x[1]]["Mutex"] = NoStore
    BY ContextParts, Places, CPUAssumption DEF StoreExclusive, Goto, At, memVars, cpuVars,
       ctxVars, TypeOK
  <2>2. \/ /\ monitor[x[1]] /\ pc'[x] = "counter" /\ monitor' = [c \in CPU |-> FALSE]
           /\ memory' = [memory EXCEPT !["Mutex"] = Mutex_Locked]
        \/ ~monitor[x[1]] /\ pc'[x] = "ldrex" /\ UNCHANGED <<memory, monitor>>
    <3>1. CASE monitor[x[1]]
      <4>1. /\ memory' = [memory EXCEPT !["Mutex"] = Mutex_Locked]
            /\ monitor' = [c \in CPU |-> FALSE] /\ pc' = [pc EXCEPT ![x] = "counter"]
        BY <3>1 DEF StoreExclusive, Goto
      <4> QED BY <3>1, <4>1 DEF TypeOK
    <3>2. CASE ~monitor[x[1]]
      BY <3>2, ContextParts DEF StoreExclusive, Goto, At, TypeOK
    <3> QED BY <3>1, <3>2
  <2>3. \A l \in Loc \ {"Mutex"} : memory'[l] = memory[l]
    BY ContextParts, Places, CPUAssumption DEF StoreExclusive, Goto, At, memVars, cpuVars,
       ctxVars, TypeOK
  <2>4. UNCHANGED <<buffer, event, I, inIRQ, op, ok, a2, entryI, latest>>
    BY ContextParts, Places, CPUAssumption DEF StoreExclusive, Goto, At, memVars, cpuVars,
       ctxVars, TypeOK
  <2> QED BY <2>1, <2>2, <2>3, <2>4
<1>f. \A y \in Context : y # x =>
        /\ pc'[y] = pc[y]
  BY <1>0 DEF StoreExclusive, Goto, At, memVars, cpuVars, ctxVars, TypeOK
<1>w. \A y \in Context : (Writes(y)' <=> Writes(y)) /\ (Reads(y)' <=> Reads(y))
  BY <1>e, <1>f, ContextParts DEF PathOK, OnPath, Writes, Reads, HasClaim, WriteOps
<1>1. TypeOK'
  <2>1. memory' \in [Loc -> Int] /\ memory'["Counter"] \in CounterValue
    BY <1>e, Places DEF TypeOK, Mutex_Locked
  <2>2. \A m \in Loc \ {"Counter"} : memory'[m] \in Bit
    BY <1>e, Places DEF TypeOK, Bit, Mutex_Locked
  <2>3. buffer' \in [CPU -> [Loc -> Int]]
    BY ContextParts, Places, CPUAssumption DEF StoreExclusive, Goto, At, memVars, cpuVars,
       ctxVars, TypeOK, PC, Bit, Loc, Routine, WriteOps
  <2>4. \A k \in CPU : buffer'[k]["Counter"] \in CounterValue \cup {NoStore}
    BY ContextParts, Places, CPUAssumption DEF StoreExclusive, Goto, At, memVars, cpuVars,
       ctxVars, TypeOK, PC, Bit, Loc, Routine, WriteOps
  <2>5. \A k \in CPU : \A m \in Loc \ {"Counter"} : buffer'[k][m] \in Bit \cup {NoStore}
    BY ContextParts, Places, CPUAssumption DEF StoreExclusive, Goto, At, memVars, cpuVars,
       ctxVars, TypeOK, PC, Bit, Loc, Routine, WriteOps
  <2>6. /\ monitor' \in [CPU -> BOOLEAN] /\ event' \in [CPU -> BOOLEAN]
        /\ I' \in [CPU -> Bit] /\ inIRQ' \in [CPU -> BOOLEAN]
    BY ZenonT(30), <1>e DEF TypeOK
  <2>7. /\ pc' \in [Context -> PC] /\ op' \in [Context -> Routine \cup {"none"}]
        /\ ok' \in [Context -> BOOLEAN] /\ a2' \in [Context -> Bit]
        /\ entryI' \in [Context -> Bit]
    BY ZenonT(30), ContextParts, Places, CPUAssumption DEF StoreExclusive, Goto, At, memVars, cpuVars,
       ctxVars, TypeOK, PC, Bit, Loc, Routine, WriteOps
  <2>8. latest' \in Bit
    BY ContextParts, Places, CPUAssumption DEF StoreExclusive, Goto, At, memVars, cpuVars,
       ctxVars, TypeOK, PC, Bit, Loc, Routine, WriteOps
  <2> QED BY <2>1, <2>2, <2>3, <2>4, <2>5, <2>6, <2>7, <2>8 DEF TypeOK
<1>2. PathOK'
  BY <1>e, <1>f, ContextParts DEF PathOK, OnPath, WriteOps, Releases
<1>3. IRQDiscipline'
  <2>1. \A y \in Context : Masked(y)' => Runs(y)' /\ I'[y[1]] = 1
    BY <1>e, <1>f, ContextParts, OneRuns DEF IRQDiscipline, Masked, Runs, Meta, WriteOps
  <2>2. \A c \in CPU : inIRQ'[c] => I'[c] = 1
    BY <1>e, <1>f, ContextParts DEF IRQDiscipline, Runs
  <2>3. \A c \in CPU : ~inIRQ'[c] => pc'[<<c, "irq">>] = "idle"
    BY <1>e, <1>f, ContextParts DEF IRQDiscipline, Runs
  <2> QED BY <2>1, <2>2, <2>3 DEF IRQDiscipline
<1>4. MutexWord'
  <2>1. CASE pc'[x] = "ldrex"
    BY <2>1, <1>e, <1>f DEF MutexWord, Meta
  <2>2. CASE pc'[x] = "counter"
    <3>1. memory["Mutex"] # Mutex_Locked
      BY <2>2, <1>e DEF MutexWord, Mutex_Locked, Mutex_Unlocked
    <3>2. \A y \in Context : pc[y] \notin Meta
      BY <3>1 DEF MutexWord
    <3>3. \A c \in CPU : buffer[c]["Mutex"] = NoStore
      BY <3>1 DEF MutexWord
    <3>4. memory'["Mutex"] = Mutex_Locked
      BY <2>2, <1>e, Places DEF TypeOK
    <3>5. \A c \in CPU : ~monitor'[c]
      BY <2>2, <1>e
    <3> QED BY <1>e, <1>f, <3>2, <3>3, <3>4, <3>5, ContextParts DEF MutexWord, Meta
  <2> QED BY <1>e, <2>1, <2>2
<1>5. BlockStores'
  BY <1>e, <1>f, ContextParts, Places, <1>w DEF BlockStores
<1>6. WriterIsAlone'
  BY <1>e, <1>f, <1>w DEF WriterIsAlone
<1>7. CounterCounts'
  BY <1>e, <1>f, Places, <1>w DEF CounterCounts, Counts, Readers
<1>8. CPSRPath'
  <2>1. \A y \in Context : y[2] = "irq" /\ pc'[y] # "idle" => entryI'[y] = 1
    BY <1>e, <1>f, ContextParts DEF IRQDiscipline, CPSRPath, Runs
  <2>2. \A y \in Context :
           pc'[y] \in {"ldrex", "strex", "counter"} /\ op'[y] # "write_unlock" =>
             a2'[y] = entryI'[y]
    BY <1>e, <1>f, ContextParts DEF PathOK, OnPath, CPSRPath, Runs
  <2>3. \A y \in Context : pc'[y] \in {"ustore", "msr"} => a2'[y] = entryI'[y]
    BY <1>e, <1>f, ContextParts DEF CPSRPath
  <2>4. \A y \in Context : Writes(y)' => Load(y[1], "SavedCPSR")' = entryI'[y]
    BY <1>e, <1>f, ContextParts, Places, <1>w DEF CPSRPath, Load
  <2>5. \A y \in Context : pc'[y] \in {"retry", "pause", "wfe", "upcall"} =>
           IF Runs(y)' THEN I'[y[1]] = entryI'[y] ELSE entryI'[y] = 0
    BY <1>e, <1>f, ContextParts, OneRuns DEF IRQDiscipline, PathOK, OnPath, CPSRPath, Runs,
       Level
  <2> QED BY <2>1, <2>2, <2>3, <2>4, <2>5 DEF CPSRPath
<1>9. DataPath'
  BY <1>e, <1>f, ContextParts, Places, <1>w DEF DataPath
<1>10. WaitersCovered'
  BY <1>e, <1>f, ContextParts, OneRuns, <1>w DEF PathOK, OnPath, WaitersCovered, Covered,
     WriteOps, Releases
<1>11. PollwordSet'
  BY <1>e, <1>f, ContextParts, Places, <1>w DEF PollwordSet, Claimed
<1>12. KeepsClaims
  BY <1>w DEF KeepsClaims
<1> QED BY <1>1, <1>2, <1>3, <1>4, <1>5, <1>6, <1>7, <1>8, <1>9, <1>10, <1>11, <1>12
       DEF RWLockInv

\* The store that unlocks the Mutex word comes after those to the lock block.
LEMMA StoreUnlockedPreserves ==
  ASSUME RWLockInv, NEW x \in Context, StoreUnlocked(x)
  PROVE  RWLockInv' /\ KeepsClaims
<1>0. TypeOK /\ PathOK /\ IRQDiscipline /\ MutexWord /\ BlockStores /\ WriterIsAlone /\
      CounterCounts /\ CPSRPath /\ DataPath /\ WaitersCovered /\ PollwordSet
  BY DEF RWLockInv
<1> USE <1>0
<1>e. /\ pc[x] = "ustore" /\ Runs(x)
      /\ \A l \in Loc : buffer[x[1]][l] = NoStore
      /\ \A l \in Loc : buffer'[x[1]][l] = IF l = "Mutex" THEN Mutex_Unlocked ELSE NoStore
      /\ \A c \in CPU : c # x[1] => buffer'[c] = buffer[c]
      /\ \/ op[x] \in WriteOps /\ ok[x] /\ pc'[x] = "held"
         \/ ~(op[x] \in WriteOps /\ ok[x]) /\ pc'[x] = "msr" /\ a2'[x] = a2[x]
      /\ UNCHANGED <<memory, monitor, event, I, inIRQ, op, ok, entryI, latest>>
  BY ContextParts, Places, CPUAssumption DEF StoreUnlocked, Goto, At, memVars, cpuVars,
     ctxVars, Drained, Store, Loc, TypeOK
<1>f. \A y \in Context : y # x =>
        /\ pc'[y] = pc[y]
        /\ a2'[y] = a2[y]
  BY <1>0 DEF StoreUnlocked, Goto, At, memVars, cpuVars, ctxVars, Drained, Store, Loc,
     TypeOK
<1>w. \A y \in Context : (Writes(y)' <=> Writes(y)) /\ (Reads(y)' <=> Reads(y))
  BY <1>e, <1>f, ContextParts DEF PathOK, OnPath, Writes, Reads, HasClaim, WriteOps
<1>1. TypeOK'
  <2>1. memory' \in [Loc -> Int] /\ memory'["Counter"] \in CounterValue
    BY ContextParts, Places, CPUAssumption DEF StoreUnlocked, Goto, At, memVars, cpuVars,
       ctxVars, Drained, Store, Loc, TypeOK, PC, Bit, Loc, Routine, WriteOps
  <2>2. \A m \in Loc \ {"Counter"} : memory'[m] \in Bit
    BY ContextParts, Places, CPUAssumption DEF StoreUnlocked, Goto, At, memVars, cpuVars,
       ctxVars, Drained, Store, Loc, TypeOK, PC, Bit, Loc, Routine, WriteOps
  <2>3. buffer' \in [CPU -> [Loc -> Int]]
    <3>1. Store(x[1], [Mutex |-> Mutex_Unlocked])
      BY DEF StoreUnlocked
    <3>2. \A l \in DOMAIN [Mutex |-> Mutex_Unlocked] : [Mutex |-> Mutex_Unlocked][l] \in Int
      BY DEF Mutex_Unlocked
    <3> QED BY <3>1, <3>2, StoreAt, ContextParts
  <2>4. \A k \in CPU : buffer'[k]["Counter"] \in CounterValue \cup {NoStore}
    BY <1>e, Places DEF TypeOK
  <2>5. \A k \in CPU : \A m \in Loc \ {"Counter"} : buffer'[k][m] \in Bit \cup {NoStore}
    BY <1>e, Places DEF TypeOK, Bit, Mutex_Unlocked
  <2>6. /\ monitor' \in [CPU -> BOOLEAN] /\ event' \in [CPU -> BOOLEAN]
        /\ I' \in [CPU -> Bit] /\ inIRQ' \in [CPU -> BOOLEAN]
    BY ContextParts, Places, CPUAssumption DEF StoreUnlocked, Goto, At, memVars, cpuVars,
       ctxVars, Drained, Store, Loc, TypeOK, PC, Bit, Loc, Routine, WriteOps
  <2>7. /\ pc' \in [Context -> PC] /\ op' \in [Context -> Routine \cup {"none"}]
        /\ ok' \in [Context -> BOOLEAN] /\ a2' \in [Context -> Bit]
        /\ entryI' \in [Context -> Bit]
    <3>1. CASE op[x] \in WriteOps /\ ok[x]
      BY <3>1 DEF StoreUnlocked, Goto, TypeOK, PC, Bit
    <3>2. CASE ~(op[x] \in WriteOps /\ ok[x])
      BY <3>2 DEF StoreUnlocked, Goto, TypeOK, PC, Bit
    <3> QED BY <3>1, <3>2
  <2>8. latest' \in Bit
    BY ContextParts, Places, CPUAssumption DEF StoreUnlocked, Goto, At, memVars, cpuVars,
       ctxVars, Drained, Store, Loc, TypeOK, PC, Bit, Loc, Routine, WriteOps
  <2> QED BY <2>1, <2>2, <2>3, <2>4, <2>5, <2>6, <2>7, <2>8 DEF TypeOK
<1>2. PathOK'
  BY <1>e, <1>f, ContextParts DEF PathOK, OnPath, WriteOps, Releases
<1>3. IRQDiscipline'
  <2>1. \A y \in Context : Masked(y)' => Runs(y)' /\ I'[y[1]] = 1
    BY <1>e, <1>f, ContextParts, OneRuns DEF IRQDiscipline, Masked, Runs, Meta, WriteOps
  <2>2. \A c \in CPU : inIRQ'[c] => I'[c] = 1
    BY <1>e, <1>f, ContextParts DEF IRQDiscipline, Runs
  <2>3. \A c \in CPU : ~inIRQ'[c] => pc'[<<c, "irq">>] = "idle"
    BY ZenonT(30), <1>e, <1>f, ContextParts DEF IRQDiscipline, Runs
  <2> QED BY <2>1, <2>2, <2>3 DEF IRQDiscipline
<1>4. MutexWord'
  BY <1>e, <1>f, ContextParts, Places DEF MutexWord, Meta
<1>5. BlockStores'
  BY <1>e, <1>f, ContextParts, Places, <1>w DEF BlockStores
<1>6. WriterIsAlone'
  BY <1>e, <1>f, <1>w DEF WriterIsAlone
<1>7. CounterCounts'
  BY ZenonT(30), <1>e, <1>f, Places, <1>w DEF CounterCounts, Counts, Readers
<1>8. CPSRPath'
  <2>1. \A y \in Context : y[2] = "irq" /\ pc'[y] # "idle" => entryI'[y] = 1
    BY <1>e, <1>f, ContextParts DEF IRQDiscipline, CPSRPath, Runs
  <2>2. \A y \in Context :
           pc'[y] \in {"ldrex", "strex", "counter"} /\ op'[y] # "write_unlock" =>
             a2'[y] = entryI'[y]
    BY <1>e, <1>f, ContextParts DEF PathOK, OnPath, CPSRPath, Runs
  <2>3. \A y \in Context : pc'[y] \in {"ustore", "msr"} => a2'[y] = entryI'[y]
    BY <1>e, <1>f, ContextParts DEF CPSRPath
  <2>4. \A y \in Context : Writes(y)' => Load(y[1], "SavedCPSR")' = entryI'[y]
    BY <1>e, <1>f, ContextParts, Places, <1>w DEF CPSRPath, Load
  <2>5. \A y \in Context : pc'[y] \in {"retry", "pause", "wfe", "upcall"} =>
           IF Runs(y)' THEN I'[y[1]] = entryI'[y] ELSE entryI'[y] = 0
    BY <1>e, <1>f, ContextParts, OneRuns DEF IRQDiscipline, PathOK, OnPath, CPSRPath, Runs,
       Level
  <2> QED BY <2>1, <2>2, <2>3, <2>4, <2>5 DEF CPSRPath
<1>9. DataPath'
  BY <1>e, <1>f, ContextParts, Places, <1>w DEF DataPath
<1>10. WaitersCovered'
  BY <1>e, <1>f, ContextParts, OneRuns, <1>w DEF PathOK, OnPath, WaitersCovered, Covered,
     WriteOps, Releases
<1>11. PollwordSet'
  BY <1>e, <1>f, ContextParts, Places, <1>w DEF PollwordSet, Claimed
<1>12. KeepsClaims
  BY <1>w DEF KeepsClaims
<1> QED BY <1>1, <1>2, <1>3, <1>4, <1>5, <1>6, <1>7, <1>8, <1>9, <1>10, <1>11, <1>12
       DEF RWLockInv

\* IRQs come back as they were when the routine was called.
LEMMA RestoreCPSRPreserves ==
  ASSUME RWLockInv, NEW x \in Context, RestoreCPSR(x)
  PROVE  RWLockInv' /\ KeepsClaims
<1>0. TypeOK /\ PathOK /\ IRQDiscipline /\ MutexWord /\ BlockStores /\ WriterIsAlone /\
      CounterCounts /\ CPSRPath /\ DataPath /\ WaitersCovered /\ PollwordSet
  BY DEF RWLockInv
<1> USE <1>0
<1>e. /\ pc[x] = "msr" /\ Runs(x) /\ ok'[x] = ok[x]
      /\ \A c \in CPU : I'[c] = IF c = x[1] THEN a2[x] ELSE I[c]
      /\ \/ ~ok[x] /\ op[x] \in {"try", "read_unlock"} /\ pc'[x] = "idle" /\ op'[x] = "none"
         \/ /\ ok[x] /\ op[x] = "read" /\ pc'[x] = "held"
            /\ op'[x] = op[x] /\ entryI'[x] = entryI[x]
         \/ /\ ok[x] /\ op[x] # "read" /\ pc'[x] = "usync"
            /\ op'[x] = op[x] /\ entryI'[x] = entryI[x]
         \/ /\ ~ok[x] /\ op[x] \notin {"try", "read_unlock"} /\ pc'[x] \in {"upcall", "pause"}
            /\ op'[x] = op[x] /\ entryI'[x] = entryI[x]
      /\ UNCHANGED <<memory, buffer, monitor, event, inIRQ, latest>>
  <2>1. pc[x] = "msr" /\ Runs(x) /\ ok'[x] = ok[x]
    BY ContextParts, Places, CPUAssumption DEF RestoreCPSR, Goto, At, memVars, cpuVars,
       ctxVars, Returns, TypeOK
  <2>2. \A c \in CPU : I'[c] = IF c = x[1] THEN a2[x] ELSE I[c]
    BY ContextParts, Places, CPUAssumption DEF RestoreCPSR, Goto, At, memVars, cpuVars,
       ctxVars, Returns, TypeOK
  <2>3. \/ ~ok[x] /\ op[x] \in {"try", "read_unlock"} /\ pc'[x] = "idle" /\ op'[x] = "none"
        \/ /\ ok[x] /\ op[x] = "read" /\ pc'[x] = "held"
           /\ op'[x] = op[x] /\ entryI'[x] = entryI[x]
        \/ /\ ok[x] /\ op[x] # "read" /\ pc'[x] = "usync"
           /\ op'[x] = op[x] /\ entryI'[x] = entryI[x]
        \/ /\ ~ok[x] /\ op[x] \notin {"try", "read_unlock"} /\ pc'[x] \in {"upcall", "pause"}
           /\ op'[x] = op[x] /\ entryI'[x] = entryI[x]
    <3>1. CASE Returns(x)
      BY <3>1, ContextParts DEF RestoreCPSR, Goto, At, Returns, TypeOK
    <3>2. CASE ok[x]
      BY <3>2, ContextParts DEF RestoreCPSR, Goto, At, Returns, PathOK, OnPath, WriteOps, TypeOK
    <3>3. CASE ~ok[x] /\ ~Returns(x)
      BY <3>3, ContextParts DEF RestoreCPSR, Goto, At, Returns, TypeOK
    <3> QED BY <3>1, <3>2, <3>3
  <2>4. UNCHANGED <<memory, buffer, monitor, event, inIRQ, latest>>
    BY ContextParts, Places, CPUAssumption DEF RestoreCPSR, Goto, At, memVars, cpuVars,
       ctxVars, Returns, TypeOK
  <2> QED BY <2>1, <2>2, <2>3, <2>4
<1>f. \A y \in Context : y # x =>
        /\ pc'[y] = pc[y] /\ op'[y] = op[y] /\ ok'[y] = ok[y]
        /\ a2'[y] = a2[y] /\ entryI'[y] = entryI[y]
  BY <1>0 DEF RestoreCPSR, Goto, At, memVars, cpuVars, ctxVars, Returns, TypeOK
<1>w. \A y \in Context : (Writes(y)' <=> Writes(y)) /\ (Reads(y)' <=> Reads(y))
  BY <1>e, <1>f, ContextParts DEF PathOK, OnPath, Writes, Reads, HasClaim, WriteOps
<1>n. ~Writes(x) /\ ~Writes(x)'
  BY <1>e, <1>f DEF PathOK, OnPath, Writes, Reads, HasClaim, WriteOps
<1>1. TypeOK'
  BY ZenonT(30), ContextParts, Places, CPUAssumption DEF RestoreCPSR, Goto, At, memVars, cpuVars,
     ctxVars, Returns, TypeOK, PC, Bit, Loc, Routine, WriteOps
<1>2. PathOK'
  <2>1. \A y \in Context : y # x => OnPath(y)'
    BY <1>e, <1>f DEF PathOK, OnPath
  <2>2. op[x] \in Routine
    BY <1>e DEF PathOK, OnPath, TypeOK
  <2>3. OnPath(x)'
    BY <1>e, <2>2 DEF PathOK, OnPath, WriteOps, Releases, Routine
  <2> QED BY <2>1, <2>3 DEF PathOK
<1>3. IRQDiscipline'
  <2>1. \A y \in Context : Masked(y)' => Runs(y)' /\ I'[y[1]] = 1
    BY <1>e, <1>f, ContextParts, OneRuns DEF IRQDiscipline, Masked, Runs, Meta, WriteOps
  <2>2. \A c \in CPU : inIRQ'[c] => I'[c] = 1
    BY <1>e, <1>f, ContextParts DEF IRQDiscipline, CPSRPath, Runs
  <2>3. \A c \in CPU : ~inIRQ'[c] => pc'[<<c, "irq">>] = "idle"
    BY ZenonT(30), <1>e, <1>f, ContextParts DEF IRQDiscipline, Runs
  <2> QED BY <2>1, <2>2, <2>3 DEF IRQDiscipline
<1>4. MutexWord'
  BY <1>e, <1>f, ContextParts, Places DEF MutexWord, Meta
<1>5. BlockStores'
  BY <1>e, <1>f, ContextParts, Places, <1>w DEF BlockStores
<1>6. WriterIsAlone'
  BY <1>e, <1>f, <1>w DEF WriterIsAlone
<1>7. CounterCounts'
  BY <1>e, <1>f, Places, <1>w DEF CounterCounts, Counts, Readers
<1>8. CPSRPath'
  <2>1. \A y \in Context : y[2] = "irq" /\ pc'[y] # "idle" => entryI'[y] = 1
    BY <1>e, <1>f, ContextParts, <1>n DEF IRQDiscipline, CPSRPath, Runs
  <2>2. \A y \in Context :
           pc'[y] \in {"ldrex", "strex", "counter"} /\ op'[y] # "write_unlock" =>
             a2'[y] = entryI'[y]
    BY <1>e, <1>f, ContextParts, <1>n DEF PathOK, OnPath, CPSRPath, Runs
  <2>3. \A y \in Context : pc'[y] \in {"ustore", "msr"} => a2'[y] = entryI'[y]
    BY <1>e, <1>f, ContextParts, <1>n DEF CPSRPath
  <2>4. \A y \in Context : Writes(y)' => Load(y[1], "SavedCPSR")' = entryI'[y]
    BY <1>e, <1>f, ContextParts, Places, <1>w, <1>n DEF CPSRPath, Load
  <2>5. \A y \in Context : pc'[y] \in {"retry", "pause", "wfe", "upcall"} =>
           IF Runs(y)' THEN I'[y[1]] = entryI'[y] ELSE entryI'[y] = 0
    BY <1>e, <1>f, ContextParts, OneRuns, <1>n DEF IRQDiscipline, PathOK, OnPath, CPSRPath,
       Runs, Level
  <2> QED BY <2>1, <2>2, <2>3, <2>4, <2>5 DEF CPSRPath
<1>9. DataPath'
  BY <1>e, <1>f, ContextParts, Places, <1>w DEF DataPath
<1>10. WaitersCovered'
  BY <1>e, <1>f, ContextParts, OneRuns, <1>w DEF PathOK, OnPath, WaitersCovered, Covered,
     WriteOps, Releases
<1>11. PollwordSet'
  BY <1>e, <1>f, ContextParts, Places, <1>w DEF PollwordSet, Claimed
<1>12. KeepsClaims
  BY <1>w DEF KeepsClaims
<1> QED BY <1>1, <1>2, <1>3, <1>4, <1>5, <1>6, <1>7, <1>8, <1>9, <1>10, <1>11, <1>12
       DEF RWLockInv

\* A claimant that failed is about to sleep.
LEMMA PausePreserves ==
  ASSUME RWLockInv, NEW x \in Context, Pause(x)
  PROVE  RWLockInv' /\ KeepsClaims
<1>0. TypeOK /\ PathOK /\ IRQDiscipline /\ MutexWord /\ BlockStores /\ WriterIsAlone /\
      CounterCounts /\ CPSRPath /\ DataPath /\ WaitersCovered /\ PollwordSet
  BY DEF RWLockInv
<1> USE <1>0
<1>e. /\ pc[x] = "pause" /\ pc'[x] = "wfe" /\ Runs(x)
      /\ UNCHANGED <<memory, buffer, monitor, event, I, inIRQ, op, ok, a2, entryI, latest>>
  BY ContextParts, Places, CPUAssumption DEF Pause, Goto, At, memVars, cpuVars, ctxVars,
     Drained, TypeOK
<1>f. \A y \in Context : y # x =>
        /\ pc'[y] = pc[y]
  BY <1>0 DEF Pause, Goto, At, memVars, cpuVars, ctxVars, Drained, TypeOK
<1>w. \A y \in Context : (Writes(y)' <=> Writes(y)) /\ (Reads(y)' <=> Reads(y))
  BY <1>e, <1>f, ContextParts DEF PathOK, OnPath, Writes, Reads, HasClaim, WriteOps
<1>1. TypeOK'
  BY ContextParts, Places, CPUAssumption DEF Pause, Goto, At, memVars, cpuVars, ctxVars,
     Drained, TypeOK, PC, Bit, Loc, Routine, WriteOps
<1>2. PathOK'
  BY <1>e, <1>f, ContextParts DEF PathOK, OnPath, WriteOps, Releases
<1>3. IRQDiscipline'
  <2>1. \A y \in Context : Masked(y)' => Runs(y)' /\ I'[y[1]] = 1
    BY <1>e, <1>f, ContextParts, OneRuns DEF IRQDiscipline, Masked, Runs, Meta, WriteOps
  <2>2. \A c \in CPU : inIRQ'[c] => I'[c] = 1
    BY <1>e, <1>f, ContextParts DEF IRQDiscipline, Runs
  <2>3. \A c \in CPU : ~inIRQ'[c] => pc'[<<c, "irq">>] = "idle"
    BY <1>e, <1>f, ContextParts DEF IRQDiscipline, Runs
  <2> QED BY <2>1, <2>2, <2>3 DEF IRQDiscipline
<1>4. MutexWord'
  BY <1>e, <1>f, ContextParts, Places DEF MutexWord, Meta
<1>5. BlockStores'
  BY <1>e, <1>f, ContextParts, Places, <1>w DEF BlockStores
<1>6. WriterIsAlone'
  BY <1>e, <1>f, <1>w DEF WriterIsAlone
<1>7. CounterCounts'
  BY <1>e, <1>f, Places, <1>w DEF CounterCounts, Counts, Readers
<1>8. CPSRPath'
  <2>1. \A y \in Context : y[2] = "irq" /\ pc'[y] # "idle" => entryI'[y] = 1
    BY <1>e, <1>f, ContextParts DEF IRQDiscipline, CPSRPath, Runs
  <2>2. \A y \in Context :
           pc'[y] \in {"ldrex", "strex", "counter"} /\ op'[y] # "write_unlock" =>
             a2'[y] = entryI'[y]
    BY <1>e, <1>f, ContextParts DEF PathOK, OnPath, CPSRPath, Runs
  <2>3. \A y \in Context : pc'[y] \in {"ustore", "msr"} => a2'[y] = entryI'[y]
    BY <1>e, <1>f, ContextParts DEF CPSRPath
  <2>4. \A y \in Context : Writes(y)' => Load(y[1], "SavedCPSR")' = entryI'[y]
    BY <1>e, <1>f, ContextParts, Places, <1>w DEF CPSRPath, Load
  <2>5. \A y \in Context : pc'[y] \in {"retry", "pause", "wfe", "upcall"} =>
           IF Runs(y)' THEN I'[y[1]] = entryI'[y] ELSE entryI'[y] = 0
    BY <1>e, <1>f, ContextParts, OneRuns DEF IRQDiscipline, PathOK, OnPath, CPSRPath, Runs,
       Level
  <2> QED BY <2>1, <2>2, <2>3, <2>4, <2>5 DEF CPSRPath
<1>9. DataPath'
  BY <1>e, <1>f, ContextParts, Places, <1>w DEF DataPath
<1>10. WaitersCovered'
  BY <1>e, <1>f, ContextParts, OneRuns, <1>w DEF PathOK, OnPath, WaitersCovered, Covered,
     WriteOps, Releases
<1>11. PollwordSet'
  BY <1>e, <1>f, ContextParts, Places, <1>w DEF PollwordSet, Claimed
<1>12. KeepsClaims
  BY <1>w DEF KeepsClaims
<1> QED BY <1>1, <1>2, <1>3, <1>4, <1>5, <1>6, <1>7, <1>8, <1>9, <1>10, <1>11, <1>12
       DEF RWLockInv

\* A claimant that takes an event looks at the lock again.
LEMMA WaitForEventPreserves ==
  ASSUME RWLockInv, NEW x \in Context, WaitForEvent(x)
  PROVE  RWLockInv' /\ KeepsClaims
<1>0. TypeOK /\ PathOK /\ IRQDiscipline /\ MutexWord /\ BlockStores /\ WriterIsAlone /\
      CounterCounts /\ CPSRPath /\ DataPath /\ WaitersCovered /\ PollwordSet
  BY DEF RWLockInv
<1> USE <1>0
<1>e. /\ pc[x] = "wfe" /\ pc'[x] = "retry" /\ Runs(x)
      /\ \A c \in CPU : c # x[1] => event'[c] = event[c]
      /\ UNCHANGED <<memory, buffer, monitor, I, inIRQ, op, ok, a2, entryI, latest>>
  BY ContextParts, Places, CPUAssumption DEF WaitForEvent, Goto, At, memVars, cpuVars,
     ctxVars, TypeOK
<1>f. \A y \in Context : y # x =>
        /\ pc'[y] = pc[y]
  BY <1>0 DEF WaitForEvent, Goto, At, memVars, cpuVars, ctxVars, TypeOK
<1>w. \A y \in Context : (Writes(y)' <=> Writes(y)) /\ (Reads(y)' <=> Reads(y))
  BY <1>e, <1>f, ContextParts DEF PathOK, OnPath, Writes, Reads, HasClaim, WriteOps
<1>1. TypeOK'
  BY ContextParts, Places, CPUAssumption DEF WaitForEvent, Goto, At, memVars, cpuVars,
     ctxVars, TypeOK, PC, Bit, Loc, Routine, WriteOps
<1>2. PathOK'
  BY <1>e, <1>f, ContextParts DEF PathOK, OnPath, WriteOps, Releases
<1>3. IRQDiscipline'
  <2>1. \A y \in Context : Masked(y)' => Runs(y)' /\ I'[y[1]] = 1
    BY <1>e, <1>f, ContextParts, OneRuns DEF IRQDiscipline, Masked, Runs, Meta, WriteOps
  <2>2. \A c \in CPU : inIRQ'[c] => I'[c] = 1
    BY <1>e, <1>f, ContextParts DEF IRQDiscipline, Runs
  <2>3. \A c \in CPU : ~inIRQ'[c] => pc'[<<c, "irq">>] = "idle"
    BY <1>e, <1>f, ContextParts DEF IRQDiscipline, Runs
  <2> QED BY <2>1, <2>2, <2>3 DEF IRQDiscipline
<1>4. MutexWord'
  BY <1>e, <1>f, ContextParts, Places DEF MutexWord, Meta
<1>5. BlockStores'
  BY <1>e, <1>f, ContextParts, Places, <1>w DEF BlockStores
<1>6. WriterIsAlone'
  BY <1>e, <1>f, <1>w DEF WriterIsAlone
<1>7. CounterCounts'
  BY <1>e, <1>f, Places, <1>w DEF CounterCounts, Counts, Readers
<1>8. CPSRPath'
  <2>1. \A y \in Context : y[2] = "irq" /\ pc'[y] # "idle" => entryI'[y] = 1
    BY <1>e, <1>f, ContextParts DEF IRQDiscipline, CPSRPath, Runs
  <2>2. \A y \in Context :
           pc'[y] \in {"ldrex", "strex", "counter"} /\ op'[y] # "write_unlock" =>
             a2'[y] = entryI'[y]
    BY <1>e, <1>f, ContextParts DEF PathOK, OnPath, CPSRPath, Runs
  <2>3. \A y \in Context : pc'[y] \in {"ustore", "msr"} => a2'[y] = entryI'[y]
    BY <1>e, <1>f, ContextParts DEF CPSRPath
  <2>4. \A y \in Context : Writes(y)' => Load(y[1], "SavedCPSR")' = entryI'[y]
    BY <1>e, <1>f, ContextParts, Places, <1>w DEF CPSRPath, Load
  <2>5. \A y \in Context : pc'[y] \in {"retry", "pause", "wfe", "upcall"} =>
           IF Runs(y)' THEN I'[y[1]] = entryI'[y] ELSE entryI'[y] = 0
    BY <1>e, <1>f, ContextParts, OneRuns DEF IRQDiscipline, PathOK, OnPath, CPSRPath, Runs,
       Level
  <2> QED BY <2>1, <2>2, <2>3, <2>4, <2>5 DEF CPSRPath
<1>9. DataPath'
  BY <1>e, <1>f, ContextParts, Places, <1>w DEF DataPath
<1>10. WaitersCovered'
  BY <1>e, <1>f, ContextParts, OneRuns, <1>w DEF PathOK, OnPath, WaitersCovered, Covered,
     WriteOps, Releases, IRQDiscipline, Runs, Level
<1>11. PollwordSet'
  BY <1>e, <1>f, ContextParts, Places, <1>w DEF PollwordSet, Claimed
<1>12. KeepsClaims
  BY <1>w DEF KeepsClaims
<1> QED BY <1>1, <1>2, <1>3, <1>4, <1>5, <1>6, <1>7, <1>8, <1>9, <1>10, <1>11, <1>12
       DEF RWLockInv

\* A task that the pollword wakes looks at the lock again.
LEMMA UpCall6Preserves ==
  ASSUME RWLockInv, NEW x \in Context, UpCall6(x)
  PROVE  RWLockInv' /\ KeepsClaims
<1>0. TypeOK /\ PathOK /\ IRQDiscipline /\ MutexWord /\ BlockStores /\ WriterIsAlone /\
      CounterCounts /\ CPSRPath /\ DataPath /\ WaitersCovered /\ PollwordSet
  BY DEF RWLockInv
<1> USE <1>0
<1>e. /\ pc[x] = "upcall" /\ pc'[x] = "retry" /\ Runs(x)
      /\ UNCHANGED <<memory, buffer, monitor, event, I, inIRQ, op, ok, a2, entryI, latest>>
  BY ContextParts, Places, CPUAssumption DEF UpCall6, Goto, At, memVars, cpuVars, ctxVars,
     TypeOK
<1>f. \A y \in Context : y # x =>
        /\ pc'[y] = pc[y]
  BY <1>0 DEF UpCall6, Goto, At, memVars, cpuVars, ctxVars, TypeOK
<1>w. \A y \in Context : (Writes(y)' <=> Writes(y)) /\ (Reads(y)' <=> Reads(y))
  BY <1>e, <1>f, ContextParts DEF PathOK, OnPath, Writes, Reads, HasClaim, WriteOps
<1>1. TypeOK'
  BY ContextParts, Places, CPUAssumption DEF UpCall6, Goto, At, memVars, cpuVars, ctxVars,
     TypeOK, PC, Bit, Loc, Routine, WriteOps
<1>2. PathOK'
  BY <1>e, <1>f, ContextParts DEF PathOK, OnPath, WriteOps, Releases
<1>3. IRQDiscipline'
  <2>1. \A y \in Context : Masked(y)' => Runs(y)' /\ I'[y[1]] = 1
    BY <1>e, <1>f, ContextParts, OneRuns DEF IRQDiscipline, Masked, Runs, Meta, WriteOps
  <2>2. \A c \in CPU : inIRQ'[c] => I'[c] = 1
    BY <1>e, <1>f, ContextParts DEF IRQDiscipline, Runs
  <2>3. \A c \in CPU : ~inIRQ'[c] => pc'[<<c, "irq">>] = "idle"
    BY <1>e, <1>f, ContextParts DEF IRQDiscipline, Runs
  <2> QED BY <2>1, <2>2, <2>3 DEF IRQDiscipline
<1>4. MutexWord'
  BY <1>e, <1>f, ContextParts, Places DEF MutexWord, Meta
<1>5. BlockStores'
  BY <1>e, <1>f, ContextParts, Places, <1>w DEF BlockStores
<1>6. WriterIsAlone'
  BY <1>e, <1>f, <1>w DEF WriterIsAlone
<1>7. CounterCounts'
  BY <1>e, <1>f, Places, <1>w DEF CounterCounts, Counts, Readers
<1>8. CPSRPath'
  <2>1. \A y \in Context : y[2] = "irq" /\ pc'[y] # "idle" => entryI'[y] = 1
    BY <1>e, <1>f, ContextParts DEF IRQDiscipline, CPSRPath, Runs
  <2>2. \A y \in Context :
           pc'[y] \in {"ldrex", "strex", "counter"} /\ op'[y] # "write_unlock" =>
             a2'[y] = entryI'[y]
    BY <1>e, <1>f, ContextParts DEF PathOK, OnPath, CPSRPath, Runs
  <2>3. \A y \in Context : pc'[y] \in {"ustore", "msr"} => a2'[y] = entryI'[y]
    BY <1>e, <1>f, ContextParts DEF CPSRPath
  <2>4. \A y \in Context : Writes(y)' => Load(y[1], "SavedCPSR")' = entryI'[y]
    BY <1>e, <1>f, ContextParts, Places, <1>w DEF CPSRPath, Load
  <2>5. \A y \in Context : pc'[y] \in {"retry", "pause", "wfe", "upcall"} =>
           IF Runs(y)' THEN I'[y[1]] = entryI'[y] ELSE entryI'[y] = 0
    BY <1>e, <1>f, ContextParts, OneRuns DEF IRQDiscipline, PathOK, OnPath, CPSRPath, Runs,
       Level
  <2> QED BY <2>1, <2>2, <2>3, <2>4, <2>5 DEF CPSRPath
<1>9. DataPath'
  BY <1>e, <1>f, ContextParts, Places, <1>w DEF DataPath
<1>10. WaitersCovered'
  BY <1>e, <1>f, ContextParts, OneRuns, <1>w DEF PathOK, OnPath, WaitersCovered, Covered,
     WriteOps, Releases
<1>11. PollwordSet'
  BY <1>e, <1>f, ContextParts, Places, <1>w DEF PollwordSet, Claimed
<1>12. KeepsClaims
  BY <1>w DEF KeepsClaims
<1> QED BY <1>1, <1>2, <1>3, <1>4, <1>5, <1>6, <1>7, <1>8, <1>9, <1>10, <1>11, <1>12
       DEF RWLockInv

\* A release that leaves the lock free wakes every CPU.
LEMMA SendEventPreserves ==
  ASSUME RWLockInv, NEW x \in Context, SendEvent(x)
  PROVE  RWLockInv' /\ KeepsClaims
<1>0. TypeOK /\ PathOK /\ IRQDiscipline /\ MutexWord /\ BlockStores /\ WriterIsAlone /\
      CounterCounts /\ CPSRPath /\ DataPath /\ WaitersCovered /\ PollwordSet
  BY DEF RWLockInv
<1> USE <1>0
<1>e. /\ pc[x] = "usync" /\ pc'[x] = "idle" /\ Runs(x)
      /\ op'[x] = "none" /\ ok'[x] = FALSE
      /\ \A l \in Loc : buffer[x[1]][l] = NoStore
      /\ \A c \in CPU : event'[c]
      /\ UNCHANGED <<memory, buffer, monitor, I, inIRQ, a2, latest>>
  BY ContextParts, Places, CPUAssumption DEF SendEvent, Goto, At, memVars, cpuVars,
     ctxVars, Drained, TypeOK
<1>f. \A y \in Context : y # x =>
        /\ pc'[y] = pc[y] /\ op'[y] = op[y] /\ ok'[y] = ok[y]
        /\ a2'[y] = a2[y] /\ entryI'[y] = entryI[y]
  BY <1>0 DEF SendEvent, Goto, At, memVars, cpuVars, ctxVars, Drained, TypeOK
<1>w. \A y \in Context : (Writes(y)' <=> Writes(y)) /\ (Reads(y)' <=> Reads(y))
  BY <1>e, <1>f, ContextParts DEF PathOK, OnPath, Writes, Reads, HasClaim, WriteOps
<1>n. ~Writes(x) /\ ~Writes(x)'
  BY <1>e, <1>f DEF PathOK, OnPath, Writes, Reads, HasClaim, WriteOps
<1>1. TypeOK'
  BY ContextParts, Places, CPUAssumption DEF SendEvent, Goto, At, memVars, cpuVars,
     ctxVars, Drained, TypeOK, PC, Bit, Loc, Routine, WriteOps
<1>2. PathOK'
  BY <1>e, <1>f, ContextParts DEF PathOK, OnPath, WriteOps, Releases
<1>3. IRQDiscipline'
  <2>1. \A y \in Context : Masked(y)' => Runs(y)' /\ I'[y[1]] = 1
    BY <1>e, <1>f, ContextParts, OneRuns DEF IRQDiscipline, Masked, Runs, Meta, WriteOps
  <2>2. \A c \in CPU : inIRQ'[c] => I'[c] = 1
    BY <1>e, <1>f, ContextParts DEF IRQDiscipline, Runs
  <2>3. \A c \in CPU : ~inIRQ'[c] => pc'[<<c, "irq">>] = "idle"
    BY <1>e, <1>f, ContextParts DEF IRQDiscipline, Runs
  <2> QED BY <2>1, <2>2, <2>3 DEF IRQDiscipline
<1>4. MutexWord'
  BY <1>e, <1>f, ContextParts, Places DEF MutexWord, Meta
<1>5. BlockStores'
  BY <1>e, <1>f, ContextParts, Places, <1>w DEF BlockStores
<1>6. WriterIsAlone'
  BY <1>e, <1>f, <1>w DEF WriterIsAlone
<1>7. CounterCounts'
  BY <1>e, <1>f, Places, <1>w DEF CounterCounts, Counts, Readers
<1>8. CPSRPath'
  <2>1. \A y \in Context : y[2] = "irq" /\ pc'[y] # "idle" => entryI'[y] = 1
    BY <1>e, <1>f, ContextParts, <1>n DEF IRQDiscipline, CPSRPath, Runs
  <2>2. \A y \in Context :
           pc'[y] \in {"ldrex", "strex", "counter"} /\ op'[y] # "write_unlock" =>
             a2'[y] = entryI'[y]
    BY <1>e, <1>f, ContextParts, <1>n DEF PathOK, OnPath, CPSRPath, Runs
  <2>3. \A y \in Context : pc'[y] \in {"ustore", "msr"} => a2'[y] = entryI'[y]
    BY <1>e, <1>f, ContextParts, <1>n DEF CPSRPath
  <2>4. \A y \in Context : Writes(y)' => Load(y[1], "SavedCPSR")' = entryI'[y]
    BY <1>e, <1>f, ContextParts, Places, <1>w, <1>n DEF CPSRPath, Load
  <2>5. \A y \in Context : pc'[y] \in {"retry", "pause", "wfe", "upcall"} =>
           IF Runs(y)' THEN I'[y[1]] = entryI'[y] ELSE entryI'[y] = 0
    BY <1>e, <1>f, ContextParts, OneRuns, <1>n DEF IRQDiscipline, PathOK, OnPath, CPSRPath,
       Runs, Level
  <2> QED BY <2>1, <2>2, <2>3, <2>4, <2>5 DEF CPSRPath
<1>9. DataPath'
  BY <1>e, <1>f, ContextParts, Places, <1>w, <1>n DEF DataPath
<1>10. WaitersCovered'
  BY <1>e, <1>f, ContextParts, OneRuns, <1>w DEF PathOK, OnPath, WaitersCovered, Covered,
     WriteOps, Releases
<1>11. PollwordSet'
  BY <1>e, <1>f, ContextParts, Places, <1>w DEF PollwordSet, Claimed
<1>12. KeepsClaims
  BY <1>w DEF KeepsClaims
<1> QED BY <1>1, <1>2, <1>3, <1>4, <1>5, <1>6, <1>7, <1>8, <1>9, <1>10, <1>11, <1>12
       DEF RWLockInv

\* A writer writes its datum and keeps its claim into write_unlock.
LEMMA CallWriteUnlockPreserves ==
  ASSUME RWLockInv, NEW x \in Context, CallWriteUnlock(x)
  PROVE  RWLockInv' /\ KeepsClaims
<1>0. TypeOK /\ PathOK /\ IRQDiscipline /\ MutexWord /\ BlockStores /\ WriterIsAlone /\
      CounterCounts /\ CPSRPath /\ DataPath /\ WaitersCovered /\ PollwordSet
  BY DEF RWLockInv
<1> USE <1>0
<1>e. /\ pc[x] = "held" /\ op[x] \in WriteOps /\ pc'[x] = "ldrex" /\ Runs(x)
      /\ op'[x] = "write_unlock" /\ ok'[x] = FALSE
      /\ latest' \in Bit
      /\ buffer'[x[1]]["Data"] = latest'
      /\ \A l \in Loc \ {"Data"} : buffer'[x[1]][l] = buffer[x[1]][l]
      /\ \A c \in CPU : c # x[1] => buffer'[c] = buffer[c]
      /\ UNCHANGED <<memory, monitor, event, I, inIRQ, a2, entryI>>
  <2>1. pc[x] = "held" /\ op[x] \in WriteOps /\ pc'[x] = "ldrex" /\ Runs(x)
    BY ContextParts, Places, CPUAssumption DEF CallWriteUnlock, Goto, At, memVars, cpuVars,
       ctxVars, Store, Load, Loc, NoStore, Bit, TypeOK
  <2>2. op'[x] = "write_unlock" /\ ok'[x] = FALSE
    BY ContextParts, Places, CPUAssumption DEF CallWriteUnlock, Goto, At, memVars, cpuVars,
       ctxVars, Store, Load, Loc, NoStore, Bit, TypeOK
  <2>3. latest' \in Bit
    <3>1. Load(x[1], "Data") \in {0, 1}
      BY ContextParts DEF TypeOK, Load, Loc, Bit
    <3>2. \A b \in {0, 1} : 1 - b \in {0, 1}
      OBVIOUS
    <3> QED BY <3>1, <3>2 DEF CallWriteUnlock, Bit
  <2>4. buffer'[x[1]]["Data"] = latest'
    BY ContextParts, Places, CPUAssumption DEF CallWriteUnlock, Goto, At, memVars, cpuVars,
       ctxVars, Store, Load, Loc, NoStore, Bit, TypeOK
  <2>5. \A l \in Loc \ {"Data"} : buffer'[x[1]][l] = buffer[x[1]][l]
    BY ContextParts, Places, CPUAssumption DEF CallWriteUnlock, Goto, At, memVars, cpuVars,
       ctxVars, Store, Load, Loc, NoStore, Bit, TypeOK
  <2>6. \A c \in CPU : c # x[1] => buffer'[c] = buffer[c]
    BY ContextParts, Places, CPUAssumption DEF CallWriteUnlock, Goto, At, memVars, cpuVars,
       ctxVars, Store, Load, Loc, NoStore, Bit, TypeOK
  <2>7. UNCHANGED <<memory, monitor, event, I, inIRQ, a2, entryI>>
    BY ContextParts, Places, CPUAssumption DEF CallWriteUnlock, Goto, At, memVars, cpuVars,
       ctxVars, Store, Load, Loc, NoStore, Bit, TypeOK
  <2> QED BY <2>1, <2>2, <2>3, <2>4, <2>5, <2>6, <2>7
<1>f. \A y \in Context : y # x =>
        /\ pc'[y] = pc[y] /\ op'[y] = op[y] /\ ok'[y] = ok[y]
        /\ a2'[y] = a2[y] /\ entryI'[y] = entryI[y]
  BY <1>0 DEF CallWriteUnlock, Goto, At, memVars, cpuVars, ctxVars, Store, Load, Loc,
     NoStore, Bit, TypeOK
<1>w. \A y \in Context : (Writes(y)' <=> Writes(y)) /\ (Reads(y)' <=> Reads(y))
  BY <1>e, <1>f, ContextParts DEF PathOK, OnPath, Writes, Reads, HasClaim, WriteOps
<1>n. Writes(x) /\ Writes(x)'
  BY <1>e, <1>f DEF PathOK, OnPath, Writes, Reads, HasClaim, WriteOps
<1>1. TypeOK'
  <2>1. memory' \in [Loc -> Int] /\ memory'["Counter"] \in CounterValue
    BY ContextParts, Places, CPUAssumption DEF CallWriteUnlock, Goto, At, memVars, cpuVars,
       ctxVars, Store, Load, Loc, NoStore, Bit, TypeOK, PC, Bit, Loc, Routine, WriteOps
  <2>2. \A m \in Loc \ {"Counter"} : memory'[m] \in Bit
    BY ContextParts, Places, CPUAssumption DEF CallWriteUnlock, Goto, At, memVars, cpuVars,
       ctxVars, Store, Load, Loc, NoStore, Bit, TypeOK, PC, Bit, Loc, Routine, WriteOps
  <2>3. buffer' \in [CPU -> [Loc -> Int]]
    BY <1>e, <1>f, ContextParts, Places, CPUAssumption DEF CallWriteUnlock, Goto, At,
       memVars, cpuVars, ctxVars, Store, Load, Loc, NoStore, Bit, TypeOK, PC, Bit, Loc,
       Routine, WriteOps
  <2>4. \A k \in CPU : buffer'[k]["Counter"] \in CounterValue \cup {NoStore}
    BY <1>e, <1>f, ContextParts, Places, CPUAssumption DEF CallWriteUnlock, Goto, At,
       memVars, cpuVars, ctxVars, Store, Load, Loc, NoStore, Bit, TypeOK, PC, Bit, Loc,
       Routine, WriteOps
  <2>5. \A k \in CPU : \A m \in Loc \ {"Counter"} : buffer'[k][m] \in Bit \cup {NoStore}
    BY <1>e, <1>f, ContextParts, Places, CPUAssumption DEF CallWriteUnlock, Goto, At,
       memVars, cpuVars, ctxVars, Store, Load, Loc, NoStore, Bit, TypeOK, PC, Bit, Loc,
       Routine, WriteOps
  <2>6. /\ monitor' \in [CPU -> BOOLEAN] /\ event' \in [CPU -> BOOLEAN]
        /\ I' \in [CPU -> Bit] /\ inIRQ' \in [CPU -> BOOLEAN]
    BY ContextParts, Places, CPUAssumption DEF CallWriteUnlock, Goto, At, memVars, cpuVars,
       ctxVars, Store, Load, Loc, NoStore, Bit, TypeOK, PC, Bit, Loc, Routine, WriteOps
  <2>7. /\ pc' \in [Context -> PC] /\ op' \in [Context -> Routine \cup {"none"}]
        /\ ok' \in [Context -> BOOLEAN] /\ a2' \in [Context -> Bit]
        /\ entryI' \in [Context -> Bit]
    BY ContextParts, Places, CPUAssumption DEF CallWriteUnlock, Goto, At, memVars, cpuVars,
       ctxVars, Store, Load, Loc, NoStore, Bit, TypeOK, PC, Bit, Loc, Routine, WriteOps
  <2>8. latest' \in Bit
    BY <1>e, <1>f, ContextParts, Places, CPUAssumption DEF TypeOK, PC, Bit, Loc, Routine,
       WriteOps
  <2> QED BY <2>1, <2>2, <2>3, <2>4, <2>5, <2>6, <2>7, <2>8 DEF TypeOK
<1>2. PathOK'
  BY <1>e, <1>f, ContextParts DEF PathOK, OnPath, WriteOps, Releases
<1>3. IRQDiscipline'
  <2>1. \A y \in Context : Masked(y)' => Runs(y)' /\ I'[y[1]] = 1
    BY <1>e, <1>f, ContextParts, OneRuns DEF IRQDiscipline, Masked, Runs, Meta, WriteOps
  <2>2. \A c \in CPU : inIRQ'[c] => I'[c] = 1
    BY <1>e, <1>f, ContextParts DEF IRQDiscipline, Runs
  <2>3. \A c \in CPU : ~inIRQ'[c] => pc'[<<c, "irq">>] = "idle"
    BY <1>e, <1>f, ContextParts DEF IRQDiscipline, Runs
  <2> QED BY <2>1, <2>2, <2>3 DEF IRQDiscipline
<1>4. MutexWord'
  BY <1>e, <1>f, ContextParts, Places DEF MutexWord, Meta
<1>5. BlockStores'
  BY <1>e, <1>f, ContextParts, Places, <1>w DEF BlockStores
<1>6. WriterIsAlone'
  BY <1>e, <1>f, <1>w DEF WriterIsAlone
<1>7. CounterCounts'
  BY ZenonT(30), <1>e, <1>f, Places, <1>w DEF CounterCounts, Counts, Readers
<1>8. CPSRPath'
  <2>1. \A y \in Context : y[2] = "irq" /\ pc'[y] # "idle" => entryI'[y] = 1
    BY <1>e, <1>f, ContextParts DEF IRQDiscipline, CPSRPath, Runs
  <2>2. \A y \in Context :
           pc'[y] \in {"ldrex", "strex", "counter"} /\ op'[y] # "write_unlock" =>
             a2'[y] = entryI'[y]
    BY <1>e, <1>f, ContextParts DEF PathOK, OnPath, CPSRPath, Runs
  <2>3. \A y \in Context : pc'[y] \in {"ustore", "msr"} => a2'[y] = entryI'[y]
    BY <1>e, <1>f, ContextParts DEF CPSRPath
  <2>4. \A y \in Context : Writes(y)' => Load(y[1], "SavedCPSR")' = entryI'[y]
    BY <1>e, <1>f, ContextParts, Places, <1>w DEF CPSRPath, Load
  <2>5. \A y \in Context : pc'[y] \in {"retry", "pause", "wfe", "upcall"} =>
           IF Runs(y)' THEN I'[y[1]] = entryI'[y] ELSE entryI'[y] = 0
    BY <1>e, <1>f, ContextParts, OneRuns DEF IRQDiscipline, PathOK, OnPath, CPSRPath, Runs,
       Level
  <2> QED BY <2>1, <2>2, <2>3, <2>4, <2>5 DEF CPSRPath
<1>9. DataPath'
  <2>1. \A c \in CPU : c # x[1] => buffer[c]["Data"] = NoStore
    BY <1>n, <1>e DEF DataPath, WriterIsAlone
  <2> QED BY <1>e, <1>n, <2>1, ContextParts, Places DEF DataPath, Bit, NoStore
<1>10. WaitersCovered'
  BY <1>e, <1>f, ContextParts, OneRuns, <1>w DEF PathOK, OnPath, WaitersCovered, Covered,
     WriteOps, Releases
<1>11. PollwordSet'
  BY <1>e, <1>f, ContextParts, Places, <1>w DEF PollwordSet, Claimed
<1>12. KeepsClaims
  BY <1>w DEF KeepsClaims
<1> QED BY <1>1, <1>2, <1>3, <1>4, <1>5, <1>6, <1>7, <1>8, <1>9, <1>10, <1>11, <1>12
       DEF RWLockInv

\* A reader keeps its claim into read_unlock.
LEMMA CallReadUnlockPreserves ==
  ASSUME RWLockInv, NEW x \in Context, CallReadUnlock(x)
  PROVE  RWLockInv' /\ KeepsClaims
<1>0. TypeOK /\ PathOK /\ IRQDiscipline /\ MutexWord /\ BlockStores /\ WriterIsAlone /\
      CounterCounts /\ CPSRPath /\ DataPath /\ WaitersCovered /\ PollwordSet
  BY DEF RWLockInv
<1> USE <1>0
<1>e. /\ pc[x] = "held" /\ op[x] = "read" /\ pc'[x] = "ldrex" /\ Runs(x)
      /\ op'[x] = "read_unlock" /\ ok'[x] = FALSE /\ a2'[x] = I[x[1]] /\ entryI'[x] = I[x[1]]
      /\ \A c \in CPU : I'[c] = IF c = x[1] THEN 1 ELSE I[c]
      /\ UNCHANGED <<memory, buffer, monitor, event, inIRQ, latest>>
  BY ContextParts, Places, CPUAssumption DEF CallReadUnlock, MaskIRQs, Goto, At, memVars,
     cpuVars, ctxVars, TypeOK
<1>f. \A y \in Context : y # x =>
        /\ pc'[y] = pc[y] /\ op'[y] = op[y] /\ ok'[y] = ok[y]
        /\ a2'[y] = a2[y] /\ entryI'[y] = entryI[y]
  BY <1>0 DEF CallReadUnlock, MaskIRQs, Goto, At, memVars, cpuVars, ctxVars, TypeOK
<1>w. \A y \in Context : (Writes(y)' <=> Writes(y)) /\ (Reads(y)' <=> Reads(y))
  BY <1>e, <1>f, ContextParts DEF PathOK, OnPath, Writes, Reads, HasClaim, WriteOps
<1>n. Reads(x) /\ ~Writes(x)
  BY <1>e, <1>f DEF PathOK, OnPath, Writes, Reads, HasClaim, WriteOps
<1>1. TypeOK'
  BY ContextParts, Places, CPUAssumption DEF CallReadUnlock, MaskIRQs, Goto, At, memVars,
     cpuVars, ctxVars, TypeOK, PC, Bit, Loc, Routine, WriteOps
<1>2. PathOK'
  BY <1>e, <1>f, ContextParts DEF PathOK, OnPath, WriteOps, Releases
<1>3. IRQDiscipline'
  <2>1. \A y \in Context : Masked(y)' => Runs(y)' /\ I'[y[1]] = 1
    BY <1>e, <1>f, ContextParts, OneRuns DEF IRQDiscipline, Masked, Runs, Meta, WriteOps
  <2>2. \A c \in CPU : inIRQ'[c] => I'[c] = 1
    BY <1>e, <1>f, ContextParts DEF IRQDiscipline, Runs
  <2>3. \A c \in CPU : ~inIRQ'[c] => pc'[<<c, "irq">>] = "idle"
    BY ZenonT(30), <1>e, <1>f, ContextParts DEF IRQDiscipline, Runs
  <2> QED BY <2>1, <2>2, <2>3 DEF IRQDiscipline
<1>4. MutexWord'
  BY <1>e, <1>f, ContextParts, Places DEF MutexWord, Meta
<1>5. BlockStores'
  BY <1>e, <1>f, ContextParts, Places, <1>w DEF BlockStores
<1>6. WriterIsAlone'
  BY <1>e, <1>f, <1>w DEF WriterIsAlone
<1>7. CounterCounts'
  BY <1>e, <1>f, Places, <1>w DEF CounterCounts, Counts, Readers
<1>8. CPSRPath'
  <2>1. \A y \in Context : y[2] = "irq" /\ pc'[y] # "idle" => entryI'[y] = 1
    BY <1>e, <1>f, ContextParts, <1>n DEF IRQDiscipline, CPSRPath, Runs
  <2>2. \A y \in Context :
           pc'[y] \in {"ldrex", "strex", "counter"} /\ op'[y] # "write_unlock" =>
             a2'[y] = entryI'[y]
    BY <1>e, <1>f, ContextParts, <1>n DEF PathOK, OnPath, CPSRPath, Runs
  <2>3. \A y \in Context : pc'[y] \in {"ustore", "msr"} => a2'[y] = entryI'[y]
    BY <1>e, <1>f, ContextParts, <1>n DEF CPSRPath
  <2>4. \A y \in Context : Writes(y)' => Load(y[1], "SavedCPSR")' = entryI'[y]
    BY <1>e, <1>f, ContextParts, Places, <1>w, <1>n DEF CPSRPath, Load
  <2>5. \A y \in Context : pc'[y] \in {"retry", "pause", "wfe", "upcall"} =>
           IF Runs(y)' THEN I'[y[1]] = entryI'[y] ELSE entryI'[y] = 0
    BY <1>e, <1>f, ContextParts, OneRuns, <1>n DEF IRQDiscipline, PathOK, OnPath, CPSRPath,
       Runs, Level
  <2> QED BY <2>1, <2>2, <2>3, <2>4, <2>5 DEF CPSRPath
<1>9. DataPath'
  BY <1>e, <1>f, ContextParts, Places, <1>w DEF DataPath
<1>10. WaitersCovered'
  BY <1>e, <1>f, ContextParts, OneRuns, <1>w, <1>n DEF PathOK, OnPath, WaitersCovered,
     Covered, WriteOps, Releases
<1>11. PollwordSet'
  BY <1>e, <1>f, ContextParts, Places, <1>w DEF PollwordSet, Claimed
<1>12. KeepsClaims
  BY <1>w DEF KeepsClaims
<1> QED BY <1>1, <1>2, <1>3, <1>4, <1>5, <1>6, <1>7, <1>8, <1>9, <1>10, <1>11, <1>12
       DEF RWLockInv

\* A handler starts only where IRQs are unmasked, and claims for reading.
LEMMA TakeIRQPreserves ==
  ASSUME RWLockInv, NEW c \in CPU, TakeIRQ(c)
  PROVE  RWLockInv' /\ KeepsClaims
<1>0. TypeOK /\ PathOK /\ IRQDiscipline /\ MutexWord /\ BlockStores /\ WriterIsAlone /\
      CounterCounts /\ CPSRPath /\ DataPath /\ WaitersCovered /\ PollwordSet
  BY DEF RWLockInv
<1> USE <1>0
<1>h. PICK h \in Context, f \in Context :
        /\ h = <<c, "irq">> /\ f = <<c, "fg">> /\ h # f
        /\ h[1] = c /\ h[2] = "irq" /\ f[1] = c /\ f[2] = "fg"
        /\ \A y \in Context : y[1] = c => y = h \/ y = f
  BY ContextsOf
<1>e. /\ I[c] = 0 /\ ~inIRQ[c] /\ pc[h] = "idle" /\ op[h] = "none" /\ ~ok[h]
      /\ \A k \in CPU : I'[k] = IF k = c THEN 1 ELSE I[k]
      /\ inIRQ'[c] /\ \A k \in CPU : k # c => inIRQ'[k] = inIRQ[k]
      /\ pc'[h] = "ldrex" /\ op'[h] = "read" /\ a2'[h] = 1 /\ entryI'[h] = 1
      /\ pc'[f] = pc[f] \/ (pc[f] = "wfe" /\ pc'[f] = "retry")
      /\ \A y \in Context : y # h => op'[y] = op[y] /\ a2'[y] = a2[y] /\ entryI'[y] = entryI[y]
      /\ \A y \in Context : y # h /\ y # f => pc'[y] = pc[y]
      /\ UNCHANGED <<memory, buffer, monitor, event, ok, latest>>
  <2>1. I[c] = 0 /\ ~inIRQ[c] /\ pc[h] = "idle" /\ op[h] = "none" /\ ~ok[h]
    BY <1>h DEF TakeIRQ, IRQDiscipline, PathOK, OnPath
  <2>2. \A k \in CPU : I'[k] = IF k = c THEN 1 ELSE I[k]
    BY ContextParts, Places, CPUAssumption, <1>h DEF TakeIRQ, memVars, TypeOK
  <2>3. inIRQ'[c] /\ \A k \in CPU : k # c => inIRQ'[k] = inIRQ[k]
    BY ContextParts, Places, CPUAssumption, <1>h DEF TakeIRQ, memVars, TypeOK
  <2>4. pc'[h] = "ldrex" /\ op'[h] = "read" /\ a2'[h] = 1 /\ entryI'[h] = 1
    BY ContextParts, Places, CPUAssumption, <1>h DEF TakeIRQ, memVars, TypeOK
  <2>5. pc'[f] = pc[f] \/ (pc[f] = "wfe" /\ pc'[f] = "retry")
    <3>1. PICK awake \in {pc[<<c, "fg">>]} \cup IF Asleep(<<c, "fg">>) THEN {"retry"} ELSE {} :
            pc' = [pc EXCEPT ![<<c, "irq">>] = "ldrex", ![<<c, "fg">>] = awake]
      BY DEF TakeIRQ
    <3>2. awake = pc[f] \/ (pc[f] = "wfe" /\ awake = "retry")
      BY <1>h, <3>1 DEF Asleep
    <3> QED BY <1>h, <3>1, <3>2 DEF TypeOK
  <2>6. \A y \in Context : y # h => op'[y] = op[y] /\ a2'[y] = a2[y] /\ entryI'[y] = entryI[y]
    BY ContextParts, Places, CPUAssumption, <1>h DEF TakeIRQ, memVars, TypeOK
  <2>7. \A y \in Context : y # h /\ y # f => pc'[y] = pc[y]
    BY ContextParts, Places, CPUAssumption, <1>h DEF TakeIRQ, memVars, TypeOK
  <2>8. UNCHANGED <<memory, buffer, monitor, event, ok, latest>>
    BY ContextParts, Places, CPUAssumption, <1>h DEF TakeIRQ, memVars, TypeOK
  <2> QED BY <2>1, <2>2, <2>3, <2>4, <2>5, <2>6, <2>7, <2>8
<1>w. \A y \in Context : (Writes(y)' <=> Writes(y)) /\ (Reads(y)' <=> Reads(y))
  BY <1>e, <1>h, ContextParts DEF PathOK, OnPath, Writes, Reads, HasClaim, WriteOps
<1>n. ~Writes(h) /\ ~Writes(h)'
  BY <1>e, <1>h DEF PathOK, OnPath, Writes, Reads, HasClaim, WriteOps
<1>1. TypeOK'
  <2>1. memory' \in [Loc -> Int] /\ memory'["Counter"] \in CounterValue
    BY ContextParts, Places, CPUAssumption DEF TakeIRQ, memVars, TypeOK, PC, Bit, Loc,
       Routine, WriteOps
  <2>2. \A m \in Loc \ {"Counter"} : memory'[m] \in Bit
    BY ContextParts, Places, CPUAssumption DEF TakeIRQ, memVars, TypeOK, PC, Bit, Loc,
       Routine, WriteOps
  <2>3. buffer' \in [CPU -> [Loc -> Int]]
    BY ContextParts, Places, CPUAssumption DEF TakeIRQ, memVars, TypeOK, PC, Bit, Loc,
       Routine, WriteOps
  <2>4. \A k \in CPU : buffer'[k]["Counter"] \in CounterValue \cup {NoStore}
    BY ContextParts, Places, CPUAssumption DEF TakeIRQ, memVars, TypeOK, PC, Bit, Loc,
       Routine, WriteOps
  <2>5. \A k \in CPU : \A m \in Loc \ {"Counter"} : buffer'[k][m] \in Bit \cup {NoStore}
    BY ContextParts, Places, CPUAssumption DEF TakeIRQ, memVars, TypeOK, PC, Bit, Loc,
       Routine, WriteOps
  <2>6. /\ monitor' \in [CPU -> BOOLEAN] /\ event' \in [CPU -> BOOLEAN]
        /\ I' \in [CPU -> Bit] /\ inIRQ' \in [CPU -> BOOLEAN]
    BY ContextParts, Places, CPUAssumption DEF TakeIRQ, memVars, TypeOK, PC, Bit, Loc,
       Routine, WriteOps
  <2>7. /\ pc' \in [Context -> PC] /\ op' \in [Context -> Routine \cup {"none"}]
        /\ ok' \in [Context -> BOOLEAN] /\ a2' \in [Context -> Bit]
        /\ entryI' \in [Context -> Bit]
    <3>1. PICK awake \in PC :
            pc' = [pc EXCEPT ![<<c, "irq">>] = "ldrex", ![<<c, "fg">>] = awake]
      BY ContextParts DEF TakeIRQ, TypeOK, PC
    <3> QED BY <3>1, <1>e, ContextParts DEF TakeIRQ, TypeOK, PC, Bit, Routine
  <2>8. latest' \in Bit
    BY ContextParts, Places, CPUAssumption DEF TakeIRQ, memVars, TypeOK, PC, Bit, Loc,
       Routine, WriteOps
  <2> QED BY <2>1, <2>2, <2>3, <2>4, <2>5, <2>6, <2>7, <2>8 DEF TypeOK
<1>2. PathOK'
  BY <1>e, <1>h, ContextParts DEF PathOK, OnPath, WriteOps, Releases
<1>3. IRQDiscipline'
  <2>1. \A y \in Context : Masked(y)' => Runs(y)' /\ I'[y[1]] = 1
    BY <1>e, <1>h, ContextParts, OneRuns DEF IRQDiscipline, Masked, Runs, Meta, WriteOps
  <2>2. \A k \in CPU : inIRQ'[k] => I'[k] = 1
    BY <1>e, <1>h, ContextParts DEF IRQDiscipline, Runs
  <2>3. \A k \in CPU : ~inIRQ'[k] => pc'[<<k, "irq">>] = "idle"
    <3>1. SUFFICES ASSUME NEW k \in CPU, ~inIRQ'[k]
                   PROVE  pc'[<<k, "irq">>] = "idle"
      OBVIOUS
    <3>2. k # c /\ ~inIRQ[k]
      BY <3>1, <1>e
    <3>3. <<k, "irq">> # h /\ <<k, "irq">> # f
      BY <3>2, <1>h
    <3>4. pc'[<<k, "irq">>] = pc[<<k, "irq">>]
      BY <3>3, <1>e, ContextParts
    <3> QED BY <3>2, <3>4 DEF IRQDiscipline
  <2> QED BY <2>1, <2>2, <2>3 DEF IRQDiscipline
<1>4. MutexWord'
  BY <1>e, <1>h, ContextParts, Places DEF MutexWord, Meta
<1>5. BlockStores'
  BY <1>e, <1>h, ContextParts, Places, <1>w DEF BlockStores
<1>6. WriterIsAlone'
  BY <1>e, <1>h, <1>w DEF WriterIsAlone
<1>7. CounterCounts'
  <2>1. Readers' = Readers
    BY <1>w DEF Readers
  <2>2. (\E y \in Context : Writes(y))' <=> \E y \in Context : Writes(y)
    BY <1>w
  <2> QED BY <2>1, <2>2, <1>e DEF CounterCounts, Counts
<1>8. CPSRPath'
  <2>1. \A y \in Context : y[2] = "irq" /\ pc'[y] # "idle" => entryI'[y] = 1
    BY <1>e, <1>h, ContextParts, <1>n DEF IRQDiscipline, CPSRPath, Runs
  <2>2. \A y \in Context :
           pc'[y] \in {"ldrex", "strex", "counter"} /\ op'[y] # "write_unlock" =>
             a2'[y] = entryI'[y]
    BY <1>e, <1>h, ContextParts, <1>n DEF PathOK, OnPath, CPSRPath, Runs
  <2>3. \A y \in Context : pc'[y] \in {"ustore", "msr"} => a2'[y] = entryI'[y]
    BY <1>e, <1>h, ContextParts, <1>n DEF CPSRPath
  <2>4. \A y \in Context : Writes(y)' => Load(y[1], "SavedCPSR")' = entryI'[y]
    BY <1>e, <1>h, ContextParts, Places, <1>w, <1>n DEF CPSRPath, Load
  <2>5. \A y \in Context : pc'[y] \in {"retry", "pause", "wfe", "upcall"} =>
           IF Runs(y)' THEN I'[y[1]] = entryI'[y] ELSE entryI'[y] = 0
    BY <1>e, <1>h, ContextParts, OneRuns, <1>n DEF IRQDiscipline, PathOK, OnPath, CPSRPath,
       Runs, Level
  <2> QED BY <2>1, <2>2, <2>3, <2>4, <2>5 DEF CPSRPath
<1>9. DataPath'
  BY <1>e, <1>h, ContextParts, Places, <1>w, <1>n DEF DataPath
<1>10. WaitersCovered'
  BY <1>e, <1>h, ContextParts, OneRuns, <1>w DEF PathOK, OnPath, WaitersCovered, Covered,
     WriteOps, Releases
<1>11. PollwordSet'
  BY <1>e, <1>h, ContextParts, Places, <1>w DEF PollwordSet, Claimed
<1>12. KeepsClaims
  BY <1>w DEF KeepsClaims
<1> QED BY <1>1, <1>2, <1>3, <1>4, <1>5, <1>6, <1>7, <1>8, <1>9, <1>10, <1>11, <1>12
       DEF RWLockInv

\* A handler returns with its claim given up.
LEMMA ReturnFromIRQPreserves ==
  ASSUME RWLockInv, NEW c \in CPU, ReturnFromIRQ(c)
  PROVE  RWLockInv' /\ KeepsClaims
<1>0. TypeOK /\ PathOK /\ IRQDiscipline /\ MutexWord /\ BlockStores /\ WriterIsAlone /\
      CounterCounts /\ CPSRPath /\ DataPath /\ WaitersCovered /\ PollwordSet
  BY DEF RWLockInv
<1> USE <1>0
<1>h. PICK h \in Context, f \in Context :
        /\ h = <<c, "irq">> /\ f = <<c, "fg">> /\ h # f
        /\ h[1] = c /\ h[2] = "irq" /\ f[1] = c /\ f[2] = "fg"
        /\ \A y \in Context : y[1] = c => y = h \/ y = f
  BY ContextsOf
<1>e. /\ inIRQ[c] /\ pc[h] = "idle"
      /\ ~inIRQ'[c] /\ \A k \in CPU : k # c => inIRQ'[k] = inIRQ[k]
      /\ \A k \in CPU : I'[k] = IF k = c THEN 0 ELSE I[k]
      /\ \A k \in CPU : (event[k] => event'[k]) /\ (monitor'[k] => monitor[k])
      /\ UNCHANGED <<memory, buffer, pc, op, ok, a2, entryI, latest>>
  <2>1. inIRQ[c] /\ pc[h] = "idle"
    BY ContextParts, Places, CPUAssumption, <1>h DEF ReturnFromIRQ, memVars, cpuVars,
       ctxVars, At, Runs, Bit, TypeOK
  <2>2. ~inIRQ'[c] /\ \A k \in CPU : k # c => inIRQ'[k] = inIRQ[k]
    BY ContextParts, Places, CPUAssumption, <1>h DEF ReturnFromIRQ, memVars, cpuVars,
       ctxVars, At, Runs, Bit, TypeOK
  <2>3. \A k \in CPU : I'[k] = IF k = c THEN 0 ELSE I[k]
    BY ContextParts, Places, CPUAssumption, <1>h DEF ReturnFromIRQ, memVars, cpuVars,
       ctxVars, At, Runs, Bit, TypeOK
  <2>4. \A k \in CPU : (event[k] => event'[k]) /\ (monitor'[k] => monitor[k])
    BY ContextParts, Places, CPUAssumption, <1>h DEF ReturnFromIRQ, memVars, cpuVars,
       ctxVars, At, Runs, Bit, TypeOK
  <2>5. UNCHANGED <<memory, buffer, pc, op, ok, a2, entryI, latest>>
    BY ContextParts, Places, CPUAssumption, <1>h DEF ReturnFromIRQ, memVars, cpuVars,
       ctxVars, At, Runs, Bit, TypeOK
  <2> QED BY <2>1, <2>2, <2>3, <2>4, <2>5
<1>w. \A y \in Context : (Writes(y)' <=> Writes(y)) /\ (Reads(y)' <=> Reads(y))
  BY <1>e, <1>h, ContextParts DEF PathOK, OnPath, Writes, Reads, HasClaim, WriteOps
<1>1. TypeOK'
  BY ContextParts, Places, CPUAssumption DEF ReturnFromIRQ, memVars, cpuVars, ctxVars, At,
     Runs, Bit, TypeOK, PC, Bit, Loc, Routine, WriteOps
<1>2. PathOK'
  BY <1>e, <1>h, ContextParts DEF PathOK, OnPath, WriteOps, Releases
<1>3. IRQDiscipline'
  <2>1. \A y \in Context : Masked(y)' => Runs(y)' /\ I'[y[1]] = 1
    BY <1>e, <1>h, ContextParts, OneRuns DEF IRQDiscipline, Masked, Runs, Meta, WriteOps
  <2>2. \A k \in CPU : inIRQ'[k] => I'[k] = 1
    BY <1>e, <1>h, ContextParts DEF IRQDiscipline, Runs
  <2>3. \A k \in CPU : ~inIRQ'[k] => pc'[<<k, "irq">>] = "idle"
    BY <1>e, <1>h, ContextParts DEF IRQDiscipline, Runs
  <2> QED BY <2>1, <2>2, <2>3 DEF IRQDiscipline
<1>4. MutexWord'
  BY <1>e, <1>h, ContextParts, Places DEF MutexWord, Meta
<1>5. BlockStores'
  BY <1>e, <1>h, ContextParts, Places, <1>w DEF BlockStores
<1>6. WriterIsAlone'
  BY <1>e, <1>h, <1>w DEF WriterIsAlone
<1>7. CounterCounts'
  BY <1>e, <1>h, Places, <1>w DEF CounterCounts, Counts, Readers
<1>8. CPSRPath'
  <2>1. \A y \in Context : y[2] = "irq" /\ pc'[y] # "idle" => entryI'[y] = 1
    BY <1>e, <1>h, ContextParts DEF IRQDiscipline, CPSRPath, Runs
  <2>2. \A y \in Context :
           pc'[y] \in {"ldrex", "strex", "counter"} /\ op'[y] # "write_unlock" =>
             a2'[y] = entryI'[y]
    BY <1>e, <1>h, ContextParts DEF PathOK, OnPath, CPSRPath, Runs
  <2>3. \A y \in Context : pc'[y] \in {"ustore", "msr"} => a2'[y] = entryI'[y]
    BY <1>e, <1>h, ContextParts DEF CPSRPath
  <2>4. \A y \in Context : Writes(y)' => Load(y[1], "SavedCPSR")' = entryI'[y]
    BY <1>e, <1>h, ContextParts, Places, <1>w DEF CPSRPath, Load
  <2>5. \A y \in Context : pc'[y] \in {"retry", "pause", "wfe", "upcall"} =>
           IF Runs(y)' THEN I'[y[1]] = entryI'[y] ELSE entryI'[y] = 0
    BY <1>e, <1>h, ContextParts, OneRuns DEF IRQDiscipline, PathOK, OnPath, CPSRPath, Runs,
       Level
  <2> QED BY <2>1, <2>2, <2>3, <2>4, <2>5 DEF CPSRPath
<1>9. DataPath'
  BY <1>e, <1>h, ContextParts, Places, <1>w DEF DataPath
<1>10. WaitersCovered'
  BY <1>e, <1>h, ContextParts, OneRuns, <1>w DEF PathOK, OnPath, WaitersCovered, Covered,
     WriteOps, Releases
<1>11. PollwordSet'
  BY <1>e, <1>h, ContextParts, Places, <1>w DEF PollwordSet, Claimed
<1>12. KeepsClaims
  BY <1>w DEF KeepsClaims
<1> QED BY <1>1, <1>2, <1>3, <1>4, <1>5, <1>6, <1>7, <1>8, <1>9, <1>10, <1>11, <1>12
       DEF RWLockInv

\* A foreground changes its I bit only outside the routines.
LEMMA CallerSetsIPreserves ==
  ASSUME RWLockInv, NEW c \in CPU, CallerSetsI(c)
  PROVE  RWLockInv' /\ KeepsClaims
<1>0. TypeOK /\ PathOK /\ IRQDiscipline /\ MutexWord /\ BlockStores /\ WriterIsAlone /\
      CounterCounts /\ CPSRPath /\ DataPath /\ WaitersCovered /\ PollwordSet
  BY DEF RWLockInv
<1> USE <1>0
<1>h. PICK h \in Context, f \in Context :
        /\ h = <<c, "irq">> /\ f = <<c, "fg">> /\ h # f
        /\ h[1] = c /\ h[2] = "irq" /\ f[1] = c /\ f[2] = "fg"
        /\ \A y \in Context : y[1] = c => y = h \/ y = f
  BY ContextsOf
<1>e. /\ ~inIRQ[c] /\ pc[h] = "idle" /\ pc[f] = "idle"
      /\ \A k \in CPU : k # c => I'[k] = I[k]
      /\ I' \in [CPU -> Bit]
      /\ UNCHANGED <<memory, buffer, monitor, event, inIRQ, pc, op, ok, a2, entryI, latest>>
  <2>1. ~inIRQ[c] /\ pc[h] = "idle" /\ pc[f] = "idle"
    BY <1>h DEF CallerSetsI, At, Runs, IRQDiscipline
  <2>2. \A k \in CPU : k # c => I'[k] = I[k]
    BY ContextParts, Places, CPUAssumption, <1>h DEF CallerSetsI, memVars, cpuVars,
       ctxVars, At, Runs, Bit, TypeOK
  <2>3. I' \in [CPU -> Bit]
    <3>1. \A b \in Bit : 1 - b \in Bit
      BY DEF Bit
    <3> QED BY <3>1 DEF CallerSetsI, TypeOK
  <2>4. UNCHANGED <<memory, buffer, monitor, event, inIRQ, pc, op, ok, a2, entryI, latest>>
    BY ContextParts, Places, CPUAssumption, <1>h DEF CallerSetsI, memVars, cpuVars,
       ctxVars, At, Runs, Bit, TypeOK
  <2> QED BY <2>1, <2>2, <2>3, <2>4
<1>w. \A y \in Context : (Writes(y)' <=> Writes(y)) /\ (Reads(y)' <=> Reads(y))
  BY <1>e, <1>h, ContextParts DEF PathOK, OnPath, Writes, Reads, HasClaim, WriteOps
<1>1. TypeOK'
  <2>1. memory' \in [Loc -> Int] /\ memory'["Counter"] \in CounterValue
    BY ContextParts, Places, CPUAssumption DEF CallerSetsI, memVars, cpuVars, ctxVars, At,
       Runs, Bit, TypeOK, PC, Bit, Loc, Routine, WriteOps
  <2>2. \A m \in Loc \ {"Counter"} : memory'[m] \in Bit
    BY ContextParts, Places, CPUAssumption DEF CallerSetsI, memVars, cpuVars, ctxVars, At,
       Runs, Bit, TypeOK, PC, Bit, Loc, Routine, WriteOps
  <2>3. buffer' \in [CPU -> [Loc -> Int]]
    BY ContextParts, Places, CPUAssumption DEF CallerSetsI, memVars, cpuVars, ctxVars, At,
       Runs, Bit, TypeOK, PC, Bit, Loc, Routine, WriteOps
  <2>4. \A k \in CPU : buffer'[k]["Counter"] \in CounterValue \cup {NoStore}
    BY ContextParts, Places, CPUAssumption DEF CallerSetsI, memVars, cpuVars, ctxVars, At,
       Runs, Bit, TypeOK, PC, Bit, Loc, Routine, WriteOps
  <2>5. \A k \in CPU : \A m \in Loc \ {"Counter"} : buffer'[k][m] \in Bit \cup {NoStore}
    BY ContextParts, Places, CPUAssumption DEF CallerSetsI, memVars, cpuVars, ctxVars, At,
       Runs, Bit, TypeOK, PC, Bit, Loc, Routine, WriteOps
  <2>6. /\ monitor' \in [CPU -> BOOLEAN] /\ event' \in [CPU -> BOOLEAN]
        /\ I' \in [CPU -> Bit] /\ inIRQ' \in [CPU -> BOOLEAN]
    BY <1>e, <1>h, ContextParts, Places, CPUAssumption DEF TypeOK, PC, Bit, Loc, Routine,
       WriteOps
  <2>7. /\ pc' \in [Context -> PC] /\ op' \in [Context -> Routine \cup {"none"}]
        /\ ok' \in [Context -> BOOLEAN] /\ a2' \in [Context -> Bit]
        /\ entryI' \in [Context -> Bit]
    BY ContextParts, Places, CPUAssumption DEF CallerSetsI, memVars, cpuVars, ctxVars, At,
       Runs, Bit, TypeOK, PC, Bit, Loc, Routine, WriteOps
  <2>8. latest' \in Bit
    BY ContextParts, Places, CPUAssumption DEF CallerSetsI, memVars, cpuVars, ctxVars, At,
       Runs, Bit, TypeOK, PC, Bit, Loc, Routine, WriteOps
  <2> QED BY <2>1, <2>2, <2>3, <2>4, <2>5, <2>6, <2>7, <2>8 DEF TypeOK
<1>2. PathOK'
  BY <1>e, <1>h, ContextParts DEF PathOK, OnPath, WriteOps, Releases
<1>3. IRQDiscipline'
  <2>1. \A y \in Context : Masked(y)' => Runs(y)' /\ I'[y[1]] = 1
    BY <1>e, <1>h, ContextParts, OneRuns DEF IRQDiscipline, Masked, Runs, Meta, WriteOps
  <2>2. \A k \in CPU : inIRQ'[k] => I'[k] = 1
    BY <1>e, <1>h, ContextParts DEF IRQDiscipline, Runs
  <2>3. \A k \in CPU : ~inIRQ'[k] => pc'[<<k, "irq">>] = "idle"
    BY <1>e, <1>h, ContextParts DEF IRQDiscipline, Runs
  <2> QED BY <2>1, <2>2, <2>3 DEF IRQDiscipline
<1>4. MutexWord'
  BY <1>e, <1>h, ContextParts, Places DEF MutexWord, Meta
<1>5. BlockStores'
  BY <1>e, <1>h, ContextParts, Places, <1>w DEF BlockStores
<1>6. WriterIsAlone'
  BY <1>e, <1>h, <1>w DEF WriterIsAlone
<1>7. CounterCounts'
  BY <1>e, <1>h, Places, <1>w DEF CounterCounts, Counts, Readers
<1>8. CPSRPath'
  <2>1. \A y \in Context : y[2] = "irq" /\ pc'[y] # "idle" => entryI'[y] = 1
    BY <1>e, <1>h, ContextParts DEF IRQDiscipline, CPSRPath, Runs
  <2>2. \A y \in Context :
           pc'[y] \in {"ldrex", "strex", "counter"} /\ op'[y] # "write_unlock" =>
             a2'[y] = entryI'[y]
    BY <1>e, <1>h, ContextParts DEF PathOK, OnPath, CPSRPath, Runs
  <2>3. \A y \in Context : pc'[y] \in {"ustore", "msr"} => a2'[y] = entryI'[y]
    BY <1>e, <1>h, ContextParts DEF CPSRPath
  <2>4. \A y \in Context : Writes(y)' => Load(y[1], "SavedCPSR")' = entryI'[y]
    BY <1>e, <1>h, ContextParts, Places, <1>w DEF CPSRPath, Load
  <2>5. \A y \in Context : pc'[y] \in {"retry", "pause", "wfe", "upcall"} =>
           IF Runs(y)' THEN I'[y[1]] = entryI'[y] ELSE entryI'[y] = 0
    BY <1>e, <1>h, ContextParts, OneRuns DEF IRQDiscipline, PathOK, OnPath, CPSRPath, Runs,
       Level
  <2> QED BY <2>1, <2>2, <2>3, <2>4, <2>5 DEF CPSRPath
<1>9. DataPath'
  BY <1>e, <1>h, ContextParts, Places, <1>w DEF DataPath
<1>10. WaitersCovered'
  BY <1>e, <1>h, ContextParts, OneRuns, <1>w DEF PathOK, OnPath, WaitersCovered, Covered,
     WriteOps, Releases
<1>11. PollwordSet'
  BY <1>e, <1>h, ContextParts, Places, <1>w DEF PollwordSet, Claimed
<1>12. KeepsClaims
  BY <1>w DEF KeepsClaims
<1> QED BY <1>1, <1>2, <1>3, <1>4, <1>5, <1>6, <1>7, <1>8, <1>9, <1>10, <1>11, <1>12
       DEF RWLockInv

\* A store that reaches memory was the one to come for its place.
LEMMA DrainPreserves ==
  ASSUME RWLockInv, NEW c \in CPU, Drain(c)
  PROVE  RWLockInv' /\ KeepsClaims
<1>0. TypeOK /\ PathOK /\ IRQDiscipline /\ MutexWord /\ BlockStores /\ WriterIsAlone /\
      CounterCounts /\ CPSRPath /\ DataPath /\ WaitersCovered /\ PollwordSet
  BY DEF RWLockInv
<1> USE <1>0
<1>l. PICK l \in Loc :
        /\ buffer[c][l] # NoStore
        /\ memory' = [memory EXCEPT ![l] = buffer[c][l]]
        /\ buffer' = [buffer EXCEPT ![c] = [@ EXCEPT ![l] = NoStore]]
        /\ monitor' = IF l = "Mutex" THEN [k \in CPU |-> FALSE] ELSE monitor
  BY DEF Drain
<1>e. /\ buffer[c][l] # NoStore /\ memory'[l] = buffer[c][l] /\ buffer'[c][l] = NoStore
      /\ \A m \in Loc : m # l => memory'[m] = memory[m] /\ buffer'[c][m] = buffer[c][m]
      /\ \A k \in CPU : k # c => buffer'[k] = buffer[k]
      /\ l = "Mutex" => \A k \in CPU : ~monitor'[k]
      /\ l # "Mutex" => monitor' = monitor
      /\ UNCHANGED <<event, I, inIRQ, pc, op, ok, a2, entryI, latest>>
  <2>1. buffer[c][l] # NoStore /\ memory'[l] = buffer[c][l] /\ buffer'[c][l] = NoStore
    BY <1>l DEF TypeOK
  <2>2. \A m \in Loc : m # l => memory'[m] = memory[m] /\ buffer'[c][m] = buffer[c][m]
    BY <1>l DEF TypeOK
  <2>3. \A k \in CPU : k # c => buffer'[k] = buffer[k]
    BY <1>l DEF TypeOK
  <2>4. l = "Mutex" => \A k \in CPU : ~monitor'[k]
    BY <1>l DEF TypeOK
  <2>5. l # "Mutex" => monitor' = monitor
    BY <1>l DEF TypeOK
  <2>6. UNCHANGED <<event, I, inIRQ, pc, op, ok, a2, entryI, latest>>
    BY <1>0 DEF Drain, cpuVars, ctxVars
  <2> QED BY <2>1, <2>2, <2>3, <2>4, <2>5, <2>6
<1>w. \A y \in Context : (Writes(y)' <=> Writes(y)) /\ (Reads(y)' <=> Reads(y))
  BY <1>e, ContextParts DEF PathOK, OnPath, Writes, Reads, HasClaim, WriteOps
<1>1. TypeOK'
  <2>1. memory' \in [Loc -> Int] /\ memory'["Counter"] \in CounterValue
    BY <1>l DEF TypeOK
  <2>2. \A m \in Loc \ {"Counter"} : memory'[m] \in Bit
    BY <1>l, <1>e DEF TypeOK
  <2>3. buffer' \in [CPU -> [Loc -> Int]]
    BY <1>l DEF TypeOK, NoStore
  <2>4. \A k \in CPU : buffer'[k]["Counter"] \in CounterValue \cup {NoStore}
    BY <1>e, Places DEF TypeOK
  <2>5. \A k \in CPU : \A m \in Loc \ {"Counter"} : buffer'[k][m] \in Bit \cup {NoStore}
    BY <1>e DEF TypeOK
  <2>6. /\ monitor' \in [CPU -> BOOLEAN] /\ event' \in [CPU -> BOOLEAN]
        /\ I' \in [CPU -> Bit] /\ inIRQ' \in [CPU -> BOOLEAN]
    BY <1>l, <1>e DEF TypeOK
  <2>7. /\ pc' \in [Context -> PC] /\ op' \in [Context -> Routine \cup {"none"}]
        /\ ok' \in [Context -> BOOLEAN] /\ a2' \in [Context -> Bit]
        /\ entryI' \in [Context -> Bit]
    BY ContextParts, Places, CPUAssumption DEF Drain, memVars, cpuVars, ctxVars, TypeOK,
       PC, Bit, Loc, Routine, WriteOps
  <2>8. latest' \in Bit
    BY ContextParts, Places, CPUAssumption DEF Drain, memVars, cpuVars, ctxVars, TypeOK,
       PC, Bit, Loc, Routine, WriteOps
  <2> QED BY <2>1, <2>2, <2>3, <2>4, <2>5, <2>6, <2>7, <2>8 DEF TypeOK
<1>2. PathOK'
  BY <1>e, ContextParts DEF PathOK, OnPath, WriteOps, Releases
<1>3. IRQDiscipline'
  <2>1. \A y \in Context : Masked(y)' => Runs(y)' /\ I'[y[1]] = 1
    BY <1>e, ContextParts, OneRuns DEF IRQDiscipline, Masked, Runs, Meta, WriteOps
  <2>2. \A k \in CPU : inIRQ'[k] => I'[k] = 1
    BY <1>e, ContextParts DEF IRQDiscipline, Runs
  <2>3. \A k \in CPU : ~inIRQ'[k] => pc'[<<k, "irq">>] = "idle"
    BY <1>e, ContextParts DEF IRQDiscipline, Runs
  <2> QED BY <2>1, <2>2, <2>3 DEF IRQDiscipline
<1>4. MutexWord'
  BY <1>e, ContextParts, Places DEF MutexWord, Meta
<1>5. BlockStores'
  BY <1>e, ContextParts, Places, <1>w DEF BlockStores
<1>6. WriterIsAlone'
  BY <1>e, <1>w DEF WriterIsAlone
<1>7. CounterCounts'
  <2>1. \A n : Counts(n)' <=> Counts(n)
    BY <1>w DEF Counts, Readers
  <2>2. CASE l = "Counter"
    BY <2>1, <2>2, <1>e DEF CounterCounts
  <2>3. CASE l # "Counter"
    BY <2>1, <2>3, <1>e, Places DEF CounterCounts
  <2> QED BY <2>2, <2>3
<1>8. CPSRPath'
  <2>1. \A y \in Context : y[2] = "irq" /\ pc'[y] # "idle" => entryI'[y] = 1
    BY <1>e, ContextParts DEF IRQDiscipline, CPSRPath, Runs
  <2>2. \A y \in Context :
           pc'[y] \in {"ldrex", "strex", "counter"} /\ op'[y] # "write_unlock" =>
             a2'[y] = entryI'[y]
    BY <1>e, ContextParts DEF PathOK, OnPath, CPSRPath, Runs
  <2>3. \A y \in Context : pc'[y] \in {"ustore", "msr"} => a2'[y] = entryI'[y]
    BY <1>e, ContextParts DEF CPSRPath
  <2>4. \A y \in Context : Writes(y)' => Load(y[1], "SavedCPSR")' = entryI'[y]
    <3>1. \A y \in Context : Writes(y) /\ l = "SavedCPSR" => y[1] = c
      BY <1>e DEF BlockStores, WriterIsAlone
    <3> QED BY <1>e, <1>w, <3>1, ContextParts, Places DEF CPSRPath, Load
  <2>5. \A y \in Context : pc'[y] \in {"retry", "pause", "wfe", "upcall"} =>
           IF Runs(y)' THEN I'[y[1]] = entryI'[y] ELSE entryI'[y] = 0
    BY <1>e, ContextParts, OneRuns DEF IRQDiscipline, PathOK, OnPath, CPSRPath, Runs, Level
  <2> QED BY <2>1, <2>2, <2>3, <2>4, <2>5 DEF CPSRPath
<1>9. DataPath'
  <2>1. CASE l = "Data"
    BY <2>1, <1>e, <1>w DEF DataPath
  <2>2. CASE l # "Data"
    BY <2>2, <1>e, <1>w, Places DEF DataPath
  <2> QED BY <2>1, <2>2
<1>10. WaitersCovered'
  BY <1>e, ContextParts, OneRuns, <1>w DEF PathOK, OnPath, WaitersCovered, Covered,
     WriteOps, Releases
<1>11. PollwordSet'
  <2>1. Claimed' <=> Claimed
    BY <1>w DEF Claimed
  <2>2. CASE l = "Pollword"
    BY <2>1, <2>2, <1>e DEF PollwordSet
  <2>3. CASE l # "Pollword"
    BY <2>1, <2>3, <1>e, Places DEF PollwordSet
  <2> QED BY <2>2, <2>3
<1>12. KeepsClaims
  BY <1>w DEF KeepsClaims
<1> QED BY <1>1, <1>2, <1>3, <1>4, <1>5, <1>6, <1>7, <1>8, <1>9, <1>10, <1>11, <1>12
       DEF RWLockInv

\* A claim for writing fails only if somebody has the lock.
LEMMA TakeWriteFailsPreserves ==
  ASSUME RWLockInv, NEW x \in Context, memory["Counter"] # 0, TakeWrite(x)
  PROVE  RWLockInv' /\ KeepsClaims
<1>0. TypeOK /\ PathOK /\ IRQDiscipline /\ MutexWord /\ BlockStores /\ WriterIsAlone /\
      CounterCounts /\ CPSRPath /\ DataPath /\ WaitersCovered /\ PollwordSet
  BY DEF RWLockInv
<1> USE <1>0
<1>e. /\ pc[x] = "counter" /\ pc'[x] = "ustore" /\ Runs(x)
      /\ op[x] \in WriteOps /\ ~ok[x] /\ ~ok'[x]
      /\ UNCHANGED <<memory, buffer, monitor, event, I, inIRQ, op, a2, entryI, latest>>
  BY DEF TakeWrite, AtCounter, Goto, At, cpuVars, PathOK, OnPath, TypeOK
<1>f. \A y \in Context : y # x =>
        /\ pc'[y] = pc[y] /\ ok'[y] = ok[y]
  BY <1>0 DEF TakeWrite, AtCounter, Goto, At, memVars, cpuVars, ctxVars, Drained, TypeOK
<1>s. \A c \in CPU :
        /\ buffer[c]["Counter"] = NoStore /\ buffer[c]["Pollword"] = NoStore
        /\ buffer[c]["SavedCPSR"] = NoStore /\ buffer[c]["Mutex"] = NoStore
  BY <1>e, BlockSettled
<1>c. /\ Counts(memory["Counter"])
      /\ memory["Counter"] = 0 <=> ~Claimed
      /\ memory["Counter"] = Counter_Write <=> \E y \in Context : Writes(y)
  BY <1>e, CounterTells
<1>w. \A y \in Context : (Writes(y)' <=> Writes(y)) /\ (Reads(y)' <=> Reads(y))
  BY <1>e, <1>f, ContextParts DEF PathOK, OnPath, Writes, Reads, HasClaim, WriteOps
<1>1. TypeOK'
  BY ContextParts, Places, CPUAssumption DEF TakeWrite, AtCounter, Goto, At, memVars,
     cpuVars, ctxVars, Drained, TypeOK, PC, Bit, Loc, Routine, WriteOps
<1>2. PathOK'
  BY <1>e, <1>f, ContextParts DEF PathOK, OnPath, WriteOps, Releases
<1>3. IRQDiscipline'
  <2>1. \A y \in Context : Masked(y)' => Runs(y)' /\ I'[y[1]] = 1
    BY <1>e, <1>f, ContextParts, OneRuns DEF IRQDiscipline, Masked, Runs, Meta, WriteOps
  <2>2. \A c \in CPU : inIRQ'[c] => I'[c] = 1
    BY <1>e, <1>f, ContextParts DEF IRQDiscipline, Runs
  <2>3. \A c \in CPU : ~inIRQ'[c] => pc'[<<c, "irq">>] = "idle"
    BY <1>e, <1>f, ContextParts DEF IRQDiscipline, Runs
  <2> QED BY <2>1, <2>2, <2>3 DEF IRQDiscipline
<1>4. MutexWord'
  BY <1>e, <1>f, ContextParts, Places DEF MutexWord, Meta
<1>5. BlockStores'
  BY <1>e, <1>f, ContextParts, Places, <1>w DEF BlockStores
<1>6. WriterIsAlone'
  BY <1>e, <1>f, <1>w DEF WriterIsAlone
<1>7. CounterCounts'
  BY <1>e, <1>f, Places, <1>w DEF CounterCounts, Counts, Readers
<1>8. CPSRPath'
  <2>1. \A y \in Context : y[2] = "irq" /\ pc'[y] # "idle" => entryI'[y] = 1
    BY <1>e, <1>f, ContextParts DEF IRQDiscipline, CPSRPath, Runs
  <2>2. \A y \in Context :
           pc'[y] \in {"ldrex", "strex", "counter"} /\ op'[y] # "write_unlock" =>
             a2'[y] = entryI'[y]
    BY <1>e, <1>f, ContextParts DEF PathOK, OnPath, CPSRPath, Runs
  <2>3. \A y \in Context : pc'[y] \in {"ustore", "msr"} => a2'[y] = entryI'[y]
    BY <1>e, <1>f, ContextParts DEF CPSRPath, WriteOps
  <2>4. \A y \in Context : Writes(y)' => Load(y[1], "SavedCPSR")' = entryI'[y]
    BY <1>e, <1>f, ContextParts, Places, <1>w DEF CPSRPath, Load
  <2>5. \A y \in Context : pc'[y] \in {"retry", "pause", "wfe", "upcall"} =>
           IF Runs(y)' THEN I'[y[1]] = entryI'[y] ELSE entryI'[y] = 0
    BY <1>e, <1>f, ContextParts, OneRuns DEF IRQDiscipline, PathOK, OnPath, CPSRPath, Runs,
       Level
  <2> QED BY <2>1, <2>2, <2>3, <2>4, <2>5 DEF CPSRPath
<1>9. DataPath'
  BY <1>e, <1>f, ContextParts, Places, <1>w DEF DataPath
<1>10. WaitersCovered'
  BY <1>e, <1>f, <1>c, <1>w DEF WaitersCovered, Covered, Claimed
<1>11. PollwordSet'
  BY <1>e, <1>f, ContextParts, Places, <1>w DEF PollwordSet, Claimed
<1>12. KeepsClaims
  BY <1>w DEF KeepsClaims
<1> QED BY <1>1, <1>2, <1>3, <1>4, <1>5, <1>6, <1>7, <1>8, <1>9, <1>10, <1>11, <1>12
       DEF RWLockInv

\* A claim for reading fails only if somebody has the lock for writing.
LEMMA TakeReadFailsPreserves ==
  ASSUME RWLockInv, NEW x \in Context, memory["Counter"] = Counter_Write, TakeRead(x)
  PROVE  RWLockInv' /\ KeepsClaims
<1>0. TypeOK /\ PathOK /\ IRQDiscipline /\ MutexWord /\ BlockStores /\ WriterIsAlone /\
      CounterCounts /\ CPSRPath /\ DataPath /\ WaitersCovered /\ PollwordSet
  BY DEF RWLockInv
<1> USE <1>0
<1>e. /\ pc[x] = "counter" /\ pc'[x] = "ustore" /\ Runs(x)
      /\ op[x] = "read" /\ ~ok[x] /\ ~ok'[x]
      /\ UNCHANGED <<memory, buffer, monitor, event, I, inIRQ, op, a2, entryI, latest>>
  <2>1. ok' = [ok EXCEPT ![x] = memory["Counter"] # Counter_Write]
    BY DEF TakeRead
  <2>2. UNCHANGED buffer
    BY DEF TakeRead, Counter_Write
  <2> QED BY <2>1, <2>2 DEF TakeRead, AtCounter, Goto, At, cpuVars, PathOK, OnPath, TypeOK
<1>f. \A y \in Context : y # x =>
        /\ pc'[y] = pc[y] /\ ok'[y] = ok[y]
  BY <1>0 DEF TakeRead, AtCounter, Goto, At, memVars, cpuVars, ctxVars, Drained, TypeOK
<1>s. \A c \in CPU :
        /\ buffer[c]["Counter"] = NoStore /\ buffer[c]["Pollword"] = NoStore
        /\ buffer[c]["SavedCPSR"] = NoStore /\ buffer[c]["Mutex"] = NoStore
  BY <1>e, BlockSettled
<1>c. /\ Counts(memory["Counter"])
      /\ memory["Counter"] = 0 <=> ~Claimed
      /\ memory["Counter"] = Counter_Write <=> \E y \in Context : Writes(y)
  BY <1>e, CounterTells
<1>w. \A y \in Context : (Writes(y)' <=> Writes(y)) /\ (Reads(y)' <=> Reads(y))
  BY <1>e, <1>f, ContextParts DEF PathOK, OnPath, Writes, Reads, HasClaim, WriteOps
<1>1. TypeOK'
  <2>1. pc' = [pc EXCEPT ![x] = "ustore"] /\ ok' = [ok EXCEPT ![x] = FALSE]
    BY DEF TakeRead, Goto, Counter_Write
  <2> QED BY <1>e, <2>1 DEF TypeOK, PC
<1>2. PathOK'
  BY <1>e, <1>f, ContextParts DEF PathOK, OnPath, WriteOps, Releases
<1>3. IRQDiscipline'
  <2>1. \A y \in Context : Masked(y)' => Runs(y)' /\ I'[y[1]] = 1
    BY <1>e, <1>f, ContextParts, OneRuns DEF IRQDiscipline, Masked, Runs, Meta, WriteOps
  <2>2. \A c \in CPU : inIRQ'[c] => I'[c] = 1
    BY <1>e, <1>f, ContextParts DEF IRQDiscipline, Runs
  <2>3. \A c \in CPU : ~inIRQ'[c] => pc'[<<c, "irq">>] = "idle"
    BY <1>e, <1>f, ContextParts DEF IRQDiscipline, Runs
  <2> QED BY <2>1, <2>2, <2>3 DEF IRQDiscipline
<1>4. MutexWord'
  BY <1>e, <1>f, ContextParts, Places DEF MutexWord, Meta
<1>5. BlockStores'
  BY <1>e, <1>f, ContextParts, Places, <1>w DEF BlockStores
<1>6. WriterIsAlone'
  BY <1>e, <1>f, <1>w DEF WriterIsAlone
<1>7. CounterCounts'
  BY <1>e, <1>f, Places, <1>w DEF CounterCounts, Counts, Readers
<1>8. CPSRPath'
  <2>1. \A y \in Context : y[2] = "irq" /\ pc'[y] # "idle" => entryI'[y] = 1
    BY <1>e, <1>f, ContextParts DEF IRQDiscipline, CPSRPath, Runs
  <2>2. \A y \in Context :
           pc'[y] \in {"ldrex", "strex", "counter"} /\ op'[y] # "write_unlock" =>
             a2'[y] = entryI'[y]
    BY <1>e, <1>f, ContextParts DEF PathOK, OnPath, CPSRPath, Runs
  <2>3. \A y \in Context : pc'[y] \in {"ustore", "msr"} => a2'[y] = entryI'[y]
    BY <1>e, <1>f, ContextParts DEF CPSRPath
  <2>4. \A y \in Context : Writes(y)' => Load(y[1], "SavedCPSR")' = entryI'[y]
    BY <1>e, <1>f, ContextParts, Places, <1>w DEF CPSRPath, Load
  <2>5. \A y \in Context : pc'[y] \in {"retry", "pause", "wfe", "upcall"} =>
           IF Runs(y)' THEN I'[y[1]] = entryI'[y] ELSE entryI'[y] = 0
    BY <1>e, <1>f, ContextParts, OneRuns DEF IRQDiscipline, PathOK, OnPath, CPSRPath, Runs,
       Level
  <2> QED BY <2>1, <2>2, <2>3, <2>4, <2>5 DEF CPSRPath
<1>9. DataPath'
  BY <1>e, <1>f, ContextParts, Places, <1>w DEF DataPath
<1>10. WaitersCovered'
  BY <1>e, <1>f, <1>c, <1>w DEF WaitersCovered, Covered, Claimed
<1>11. PollwordSet'
  BY <1>e, <1>f, ContextParts, Places, <1>w DEF PollwordSet, Claimed
<1>12. KeepsClaims
  BY <1>w DEF KeepsClaims
<1> QED BY <1>1, <1>2, <1>3, <1>4, <1>5, <1>6, <1>7, <1>8, <1>9, <1>10, <1>11, <1>12
       DEF RWLockInv

\* A claim for writing that succeeds is the only claim.
LEMMA TakeWriteSucceedsPreserves ==
  ASSUME RWLockInv, NEW x \in Context, memory["Counter"] = 0, TakeWrite(x)
  PROVE  RWLockInv' /\ GainsWrite(x)
<1>0. TypeOK /\ PathOK /\ IRQDiscipline /\ MutexWord /\ BlockStores /\ WriterIsAlone /\
      CounterCounts /\ CPSRPath /\ DataPath /\ WaitersCovered /\ PollwordSet
  BY DEF RWLockInv
<1> USE <1>0
<1>e. /\ /\ pc[x] = "counter" /\ pc'[x] = "ustore" /\ Runs(x)
         /\ op[x] \in WriteOps /\ ~ok[x] /\ ok'[x]
      /\ \A l \in Loc : buffer[x[1]][l] = NoStore
      /\ /\ buffer'[x[1]]["SavedCPSR"] = a2[x] /\ buffer'[x[1]]["Counter"] = Counter_Write
         /\ buffer'[x[1]]["Pollword"] = 0 /\ buffer'[x[1]]["Mutex"] = NoStore
         /\ buffer'[x[1]]["Data"] = NoStore
      /\ \A c \in CPU : c # x[1] => buffer'[c] = buffer[c]
      /\ UNCHANGED <<memory, monitor, event, I, inIRQ, op, a2, entryI, latest>>
  <2>1. /\ pc[x] = "counter" /\ pc'[x] = "ustore" /\ Runs(x)
        /\ op[x] \in WriteOps /\ ~ok[x] /\ ok'[x]
    BY ContextParts, Places, CPUAssumption DEF TakeWrite, AtCounter, Goto, At, memVars,
       cpuVars, ctxVars, Drained, PathOK, OnPath, TypeOK
  <2>2. \A l \in Loc : buffer[x[1]][l] = NoStore
    BY ContextParts, Places, CPUAssumption DEF TakeWrite, AtCounter, Goto, At, memVars,
       cpuVars, ctxVars, Drained, Store, TypeOK
  <2>3. /\ buffer'[x[1]]["SavedCPSR"] = a2[x] /\ buffer'[x[1]]["Counter"] = Counter_Write
        /\ buffer'[x[1]]["Pollword"] = 0 /\ buffer'[x[1]]["Mutex"] = NoStore
        /\ buffer'[x[1]]["Data"] = NoStore
    <3>1. Store(x[1], [SavedCPSR |-> a2[x], Counter |-> Counter_Write, Pollword |-> 0])
      BY DEF TakeWrite
    <3> QED BY <3>1, <2>2, ContextParts, Places DEF Store, TypeOK
  <2>4. \A c \in CPU : c # x[1] => buffer'[c] = buffer[c]
    BY ContextParts, Places, CPUAssumption DEF TakeWrite, AtCounter, Goto, At, memVars,
       cpuVars, ctxVars, Drained, Store, TypeOK
  <2>5. UNCHANGED <<memory, monitor, event, I, inIRQ, op, a2, entryI, latest>>
    BY ContextParts, Places, CPUAssumption DEF TakeWrite, AtCounter, Goto, At, memVars,
       cpuVars, ctxVars, Drained, Store, TypeOK
  <2> QED BY <2>1, <2>2, <2>3, <2>4, <2>5
<1>f. \A y \in Context : y # x =>
        /\ pc'[y] = pc[y] /\ ok'[y] = ok[y]
  BY <1>0 DEF TakeWrite, AtCounter, Goto, At, memVars, cpuVars, ctxVars, Drained, Store,
     TypeOK
<1>s. \A c \in CPU :
        /\ buffer[c]["Counter"] = NoStore /\ buffer[c]["Pollword"] = NoStore
        /\ buffer[c]["SavedCPSR"] = NoStore /\ buffer[c]["Mutex"] = NoStore
  BY <1>e, BlockSettled
<1>c. /\ Counts(memory["Counter"])
      /\ memory["Counter"] = 0 <=> ~Claimed
      /\ memory["Counter"] = Counter_Write <=> \E y \in Context : Writes(y)
  BY <1>e, CounterTells
<1>t. \A y \in Context : ~Writes(y) /\ ~Reads(y) /\ ~Reads(y)' /\ (Writes(y)' <=> y = x)
  <2>1. \A y \in Context : ~Writes(y) /\ ~Reads(y)
    BY <1>c DEF Claimed
  <2> QED BY <2>1, <1>e, <1>f DEF Writes, Reads, HasClaim, WriteOps
<1>1. TypeOK'
  <2>1. memory' \in [Loc -> Int] /\ memory'["Counter"] \in CounterValue
    BY ContextParts, Places, CPUAssumption DEF TakeWrite, AtCounter, Goto, At, memVars,
       cpuVars, ctxVars, Drained, Store, TypeOK, PC, Bit, Loc, Routine, WriteOps
  <2>2. \A m \in Loc \ {"Counter"} : memory'[m] \in Bit
    BY ContextParts, Places, CPUAssumption DEF TakeWrite, AtCounter, Goto, At, memVars,
       cpuVars, ctxVars, Drained, Store, TypeOK, PC, Bit, Loc, Routine, WriteOps
  <2>3. buffer' \in [CPU -> [Loc -> Int]]
    <3>1. Store(x[1], [SavedCPSR |-> a2[x], Counter |-> Counter_Write, Pollword |-> 0])
      BY DEF TakeWrite
    <3>2. a2[x] \in Int /\ Counter_Write \in Int
      BY DEF TypeOK, Bit, Counter_Write
    <3> QED BY <3>1, <3>2, ContextParts DEF Store, TypeOK
  <2>4. \A k \in CPU : buffer'[k]["Counter"] \in CounterValue \cup {NoStore}
    BY <1>e, Places DEF TypeOK, CounterValue
  <2>5. \A k \in CPU : \A m \in Loc \ {"Counter"} : buffer'[k][m] \in Bit \cup {NoStore}
    BY ZenonT(30), <1>e, ContextParts DEF TypeOK, Bit, Loc
  <2>6. /\ monitor' \in [CPU -> BOOLEAN] /\ event' \in [CPU -> BOOLEAN]
        /\ I' \in [CPU -> Bit] /\ inIRQ' \in [CPU -> BOOLEAN]
    BY ContextParts, Places, CPUAssumption DEF TakeWrite, AtCounter, Goto, At, memVars,
       cpuVars, ctxVars, Drained, Store, TypeOK, PC, Bit, Loc, Routine, WriteOps
  <2>7. /\ pc' \in [Context -> PC] /\ op' \in [Context -> Routine \cup {"none"}]
        /\ ok' \in [Context -> BOOLEAN] /\ a2' \in [Context -> Bit]
        /\ entryI' \in [Context -> Bit]
    BY ContextParts, Places, CPUAssumption DEF TakeWrite, AtCounter, Goto, At, memVars,
       cpuVars, ctxVars, Drained, Store, TypeOK, PC, Bit, Loc, Routine, WriteOps
  <2>8. latest' \in Bit
    BY ContextParts, Places, CPUAssumption DEF TakeWrite, AtCounter, Goto, At, memVars,
       cpuVars, ctxVars, Drained, Store, TypeOK, PC, Bit, Loc, Routine, WriteOps
  <2> QED BY <2>1, <2>2, <2>3, <2>4, <2>5, <2>6, <2>7, <2>8 DEF TypeOK
<1>2. PathOK'
  BY <1>e, <1>f, ContextParts DEF PathOK, OnPath, WriteOps, Releases
<1>3. IRQDiscipline'
  <2>1. \A y \in Context : Masked(y)' => Runs(y)' /\ I'[y[1]] = 1
    BY <1>e, <1>f, ContextParts, OneRuns DEF IRQDiscipline, Masked, Runs, Meta, WriteOps
  <2>2. \A c \in CPU : inIRQ'[c] => I'[c] = 1
    BY <1>e, <1>f, ContextParts DEF IRQDiscipline, Runs
  <2>3. \A c \in CPU : ~inIRQ'[c] => pc'[<<c, "irq">>] = "idle"
    <3>1. \A y \in Context : pc[y] = "idle" => pc'[y] = "idle"
      BY <1>e, <1>f
    <3> QED BY <3>1, <1>e, ContextParts DEF IRQDiscipline
  <2> QED BY <2>1, <2>2, <2>3 DEF IRQDiscipline
<1>4. MutexWord'
  BY <1>e, <1>f, <1>s, ContextParts DEF MutexWord, Meta
<1>5. BlockStores'
  BY <1>e, <1>f, <1>s, <1>t DEF BlockStores
<1>6. WriterIsAlone'
  BY <1>t DEF WriterIsAlone
<1>7. CounterCounts'
  <2>1. Counts(Counter_Write)'
    BY <1>t DEF Counts, Counter_Write
  <2>2. \A c \in CPU : c # x[1] => buffer'[c]["Counter"] = NoStore
    BY <1>e, <1>s
  <2> QED BY <1>e, <2>1, <2>2, ContextParts DEF CounterCounts, Counter_Write, NoStore
<1>8. CPSRPath'
  <2>1. \A y \in Context : y[2] = "irq" /\ pc'[y] # "idle" => entryI'[y] = 1
    BY <1>e, <1>f, ContextParts DEF IRQDiscipline, CPSRPath, Runs
  <2>2. \A y \in Context :
           pc'[y] \in {"ldrex", "strex", "counter"} /\ op'[y] # "write_unlock" =>
             a2'[y] = entryI'[y]
    BY <1>e, <1>f, ContextParts DEF PathOK, OnPath, CPSRPath, Runs
  <2>3. \A y \in Context : pc'[y] \in {"ustore", "msr"} => a2'[y] = entryI'[y]
    BY <1>e, <1>f, ContextParts DEF CPSRPath, WriteOps
  <2>4. \A y \in Context : Writes(y)' => Load(y[1], "SavedCPSR")' = entryI'[y]
    <3>1. pc[x] \in {"ldrex", "strex", "counter"} /\ op[x] # "write_unlock"
      BY <1>e DEF WriteOps
    <3>2. a2[x] = entryI[x]
      BY <3>1 DEF CPSRPath
    <3>3. entryI[x] \in Bit
      BY DEF TypeOK
    <3>4. a2[x] # NoStore
      BY <3>2, <3>3 DEF Bit, NoStore
    <3> QED BY <3>2, <3>4, <1>e, <1>t DEF Load
  <2>5. \A y \in Context : pc'[y] \in {"retry", "pause", "wfe", "upcall"} =>
           IF Runs(y)' THEN I'[y[1]] = entryI'[y] ELSE entryI'[y] = 0
    BY <1>e, <1>f, ContextParts, OneRuns DEF IRQDiscipline, PathOK, OnPath, CPSRPath, Runs,
       Level
  <2> QED BY <2>1, <2>2, <2>3, <2>4, <2>5 DEF CPSRPath
<1>9. DataPath'
  <2>1. \A c \in CPU : buffer'[c]["Data"] = buffer[c]["Data"]
    BY <1>e, Places
  <2> QED BY <2>1, <1>e, <1>t DEF DataPath
<1>10. WaitersCovered'
  BY <1>t DEF WaitersCovered, Covered
<1>11. PollwordSet'
  BY <1>t DEF PollwordSet, Claimed
<1>12. GainsWrite(x)
  BY <1>e, <1>t DEF GainsWrite, Writes, Reads, HasClaim
<1> QED BY <1>1, <1>2, <1>3, <1>4, <1>5, <1>6, <1>7, <1>8, <1>9, <1>10, <1>11, <1>12
       DEF RWLockInv

\* A claim for reading that succeeds is one more reader and no writer.
LEMMA TakeReadSucceedsPreserves ==
  ASSUME RWLockInv, NEW x \in Context, memory["Counter"] # Counter_Write, TakeRead(x)
  PROVE  RWLockInv' /\ GainsRead(x)
<1>0. TypeOK /\ PathOK /\ IRQDiscipline /\ MutexWord /\ BlockStores /\ WriterIsAlone /\
      CounterCounts /\ CPSRPath /\ DataPath /\ WaitersCovered /\ PollwordSet
  BY DEF RWLockInv
<1> USE <1>0
<1>e. /\ /\ pc[x] = "counter" /\ pc'[x] = "ustore" /\ Runs(x)
         /\ op[x] = "read" /\ ~ok[x] /\ ok'[x]
      /\ \A l \in Loc : buffer[x[1]][l] = NoStore
      /\ /\ buffer'[x[1]]["Counter"] = memory["Counter"] - Counter_Read
         /\ buffer'[x[1]]["Pollword"] \in {NoStore, 0} /\ buffer'[x[1]]["SavedCPSR"] = NoStore
         /\ buffer'[x[1]]["Mutex"] = NoStore /\ buffer'[x[1]]["Data"] = NoStore
      /\ \A c \in CPU : c # x[1] => buffer'[c] = buffer[c]
      /\ UNCHANGED <<memory, monitor, event, I, inIRQ, op, a2, entryI, latest>>
  <2>1. /\ pc[x] = "counter" /\ pc'[x] = "ustore" /\ Runs(x)
        /\ op[x] = "read" /\ ~ok[x] /\ ok'[x]
    BY ContextParts, Places, CPUAssumption DEF TakeRead, AtCounter, Goto, At, memVars,
       cpuVars, ctxVars, Drained, PathOK, OnPath, TypeOK
  <2>2. \A l \in Loc : buffer[x[1]][l] = NoStore
    BY ContextParts, Places, CPUAssumption DEF TakeRead, AtCounter, Goto, At, memVars,
       cpuVars, ctxVars, Drained, Store, TypeOK
  <2>3. /\ buffer'[x[1]]["Counter"] = memory["Counter"] - Counter_Read
        /\ buffer'[x[1]]["Pollword"] \in {NoStore, 0} /\ buffer'[x[1]]["SavedCPSR"] = NoStore
        /\ buffer'[x[1]]["Mutex"] = NoStore /\ buffer'[x[1]]["Data"] = NoStore
    <3>1. CASE memory["Counter"] = 0
      <4>1. Store(x[1], [Counter |-> -Counter_Read, Pollword |-> 0])
        BY <3>1 DEF TakeRead, Counter_Write
      <4> QED BY <4>1, <3>1, <2>2, ContextParts, Places DEF Store, TypeOK, Counter_Read
    <3>2. CASE memory["Counter"] # 0
      <4>1. Store(x[1], [Counter |-> memory["Counter"] - Counter_Read])
        BY <3>2 DEF TakeRead
      <4> QED BY <4>1, <3>2, <2>2, ContextParts, Places DEF Store, TypeOK
    <3> QED BY <3>1, <3>2
  <2>4. \A c \in CPU : c # x[1] => buffer'[c] = buffer[c]
    BY ContextParts DEF TakeRead, Store, TypeOK
  <2>5. UNCHANGED <<memory, monitor, event, I, inIRQ, op, a2, entryI, latest>>
    BY ContextParts, Places, CPUAssumption DEF TakeRead, AtCounter, Goto, At, memVars,
       cpuVars, ctxVars, Drained, Store, TypeOK
  <2> QED BY <2>1, <2>2, <2>3, <2>4, <2>5
<1>f. \A y \in Context : y # x =>
        /\ pc'[y] = pc[y] /\ ok'[y] = ok[y]
  BY <1>0 DEF TakeRead, AtCounter, Goto, At, memVars, cpuVars, ctxVars, Drained, Store,
     TypeOK
<1>s. \A c \in CPU :
        /\ buffer[c]["Counter"] = NoStore /\ buffer[c]["Pollword"] = NoStore
        /\ buffer[c]["SavedCPSR"] = NoStore /\ buffer[c]["Mutex"] = NoStore
  BY <1>e, BlockSettled
<1>c. /\ Counts(memory["Counter"])
      /\ memory["Counter"] = 0 <=> ~Claimed
      /\ memory["Counter"] = Counter_Write <=> \E y \in Context : Writes(y)
  BY <1>e, CounterTells
<1>t. \A y \in Context : ~Writes(y) /\ ~Writes(y)' /\ (Reads(y)' <=> Reads(y) \/ y = x)
  <2>1. \A y \in Context : ~Writes(y)
    BY <1>c
  <2> QED BY <2>1, <1>e, <1>f DEF Writes, Reads, HasClaim, WriteOps
<1>r. /\ buffer'[x[1]]["Counter"] = -Counter_Read * Cardinality(Readers')
      /\ Cardinality(Readers') \in 0 .. Cardinality(Context)
  <2>1. Readers' = Readers \cup {x} /\ x \notin Readers
    BY <1>t, <1>e DEF Readers, Reads, HasClaim
  <2>2. Cardinality(Readers') = Cardinality(Readers) + 1
    BY <2>1, ReadersCounted, FS_AddElement
  <2>3. memory["Counter"] = -Counter_Read * Cardinality(Readers)
    BY <1>c, <1>t DEF Counts
  <2>4. Cardinality(Readers') <= Cardinality(Context)
    BY <2>1, ContextFinite, FS_Subset DEF Readers
  <2> QED BY <1>e, <2>2, <2>3, <2>4, ReadersCounted, ContextFinite DEF Counter_Read
<1>1. TypeOK'
  <2>1. memory' \in [Loc -> Int] /\ memory'["Counter"] \in CounterValue
    BY ContextParts, Places, CPUAssumption DEF TakeRead, AtCounter, Goto, At, memVars,
       cpuVars, ctxVars, Drained, Store, TypeOK, PC, Bit, Loc, Routine, WriteOps
  <2>2. \A m \in Loc \ {"Counter"} : memory'[m] \in Bit
    BY ContextParts, Places, CPUAssumption DEF TakeRead, AtCounter, Goto, At, memVars,
       cpuVars, ctxVars, Drained, Store, TypeOK, PC, Bit, Loc, Routine, WriteOps
  <2>3. buffer' \in [CPU -> [Loc -> Int]]
    <3>1. CASE memory["Counter"] = 0
      <4>1. Store(x[1], [Counter |-> -Counter_Read, Pollword |-> 0])
        BY <3>1 DEF TakeRead, Counter_Write
      <4> QED BY <4>1, ContextParts DEF Store, TypeOK, Counter_Read
    <3>2. CASE memory["Counter"] # 0
      <4>1. Store(x[1], [Counter |-> memory["Counter"] - Counter_Read])
        BY <3>2 DEF TakeRead
      <4>2. memory["Counter"] - Counter_Read \in Int
        BY Places DEF TypeOK, Counter_Read
      <4> QED BY <4>1, <4>2, ContextParts DEF Store, TypeOK
    <3> QED BY <3>1, <3>2
  <2>4. \A k \in CPU : buffer'[k]["Counter"] \in CounterValue \cup {NoStore}
    <3>1. buffer'[x[1]]["Counter"] \in CounterValue
      BY <1>r DEF CounterValue
    <3> QED BY <3>1, <1>e DEF TypeOK
  <2>5. \A k \in CPU : \A m \in Loc \ {"Counter"} : buffer'[k][m] \in Bit \cup {NoStore}
    BY <1>e, ContextParts DEF TypeOK, Bit, Loc
  <2>6. /\ monitor' \in [CPU -> BOOLEAN] /\ event' \in [CPU -> BOOLEAN]
        /\ I' \in [CPU -> Bit] /\ inIRQ' \in [CPU -> BOOLEAN]
    BY ContextParts, Places, CPUAssumption DEF TakeRead, AtCounter, Goto, At, memVars,
       cpuVars, ctxVars, Drained, Store, TypeOK, PC, Bit, Loc, Routine, WriteOps
  <2>7. /\ pc' \in [Context -> PC] /\ op' \in [Context -> Routine \cup {"none"}]
        /\ ok' \in [Context -> BOOLEAN] /\ a2' \in [Context -> Bit]
        /\ entryI' \in [Context -> Bit]
    <3>1. ok' = [ok EXCEPT ![x] = TRUE] /\ pc' = [pc EXCEPT ![x] = "ustore"]
      BY DEF TakeRead, Goto
    <3> QED BY <3>1, <1>e DEF TypeOK, PC
  <2>8. latest' \in Bit
    BY ContextParts, Places, CPUAssumption DEF TakeRead, AtCounter, Goto, At, memVars,
       cpuVars, ctxVars, Drained, Store, TypeOK, PC, Bit, Loc, Routine, WriteOps
  <2> QED BY <2>1, <2>2, <2>3, <2>4, <2>5, <2>6, <2>7, <2>8 DEF TypeOK
<1>2. PathOK'
  BY <1>e, <1>f, ContextParts DEF PathOK, OnPath, WriteOps, Releases
<1>3. IRQDiscipline'
  <2>1. \A y \in Context : Masked(y)' => Runs(y)' /\ I'[y[1]] = 1
    BY <1>e, <1>f, ContextParts, OneRuns DEF IRQDiscipline, Masked, Runs, Meta, WriteOps
  <2>2. \A c \in CPU : inIRQ'[c] => I'[c] = 1
    BY <1>e, <1>f, ContextParts DEF IRQDiscipline, Runs
  <2>3. \A c \in CPU : ~inIRQ'[c] => pc'[<<c, "irq">>] = "idle"
    <3>1. \A y \in Context : pc[y] = "idle" => pc'[y] = "idle"
      BY <1>e, <1>f
    <3> QED BY <3>1, <1>e, ContextParts DEF IRQDiscipline
  <2> QED BY <2>1, <2>2, <2>3 DEF IRQDiscipline
<1>4. MutexWord'
  BY <1>e, <1>f, <1>s, ContextParts DEF MutexWord, Meta
<1>5. BlockStores'
  BY <1>e, <1>f, <1>s DEF BlockStores
<1>6. WriterIsAlone'
  BY <1>t DEF WriterIsAlone
<1>7. CounterCounts'
  <2>1. Counts(buffer[x[1]]["Counter"])'
    BY <1>t, <1>r DEF Counts
  <2>2. \A c \in CPU : c # x[1] => buffer'[c]["Counter"] = NoStore
    BY <1>e, <1>s
  <2>3. buffer'[x[1]]["Counter"] # NoStore
    BY <1>r DEF Counter_Read, NoStore
  <2> QED BY <2>1, <2>2, <2>3, ContextParts DEF CounterCounts
<1>8. CPSRPath'
  <2>1. \A y \in Context : y[2] = "irq" /\ pc'[y] # "idle" => entryI'[y] = 1
    BY <1>e, <1>f, ContextParts DEF IRQDiscipline, CPSRPath, Runs
  <2>2. \A y \in Context :
           pc'[y] \in {"ldrex", "strex", "counter"} /\ op'[y] # "write_unlock" =>
             a2'[y] = entryI'[y]
    BY <1>e, <1>f, ContextParts DEF PathOK, OnPath, CPSRPath, Runs
  <2>3. \A y \in Context : pc'[y] \in {"ustore", "msr"} => a2'[y] = entryI'[y]
    BY <1>e, <1>f, ContextParts DEF CPSRPath
  <2>4. \A y \in Context : Writes(y)' => Load(y[1], "SavedCPSR")' = entryI'[y]
    BY <1>t
  <2>5. \A y \in Context : pc'[y] \in {"retry", "pause", "wfe", "upcall"} =>
           IF Runs(y)' THEN I'[y[1]] = entryI'[y] ELSE entryI'[y] = 0
    BY <1>e, <1>f, ContextParts, OneRuns DEF IRQDiscipline, PathOK, OnPath, CPSRPath, Runs,
       Level
  <2> QED BY <2>1, <2>2, <2>3, <2>4, <2>5 DEF CPSRPath
<1>9. DataPath'
  <2>1. \A c \in CPU : buffer'[c]["Data"] = buffer[c]["Data"]
    BY <1>e, Places
  <2> QED BY <2>1, <1>e, <1>t DEF DataPath
<1>10. WaitersCovered'
  BY <1>t DEF WaitersCovered, Covered
<1>11. PollwordSet'
  BY <1>t DEF PollwordSet, Claimed
<1>12. GainsRead(x)
  BY <1>e, <1>t DEF GainsRead, Writes, Reads, HasClaim
<1> QED BY <1>1, <1>2, <1>3, <1>4, <1>5, <1>6, <1>7, <1>8, <1>9, <1>10, <1>11, <1>12
       DEF RWLockInv

\* The writer that gives up its claim leaves a counter of 0.
LEMMA DropWritePreserves ==
  ASSUME RWLockInv, NEW x \in Context, DropWrite(x)
  PROVE  RWLockInv' /\ LosesWrite(x)
<1>0. TypeOK /\ PathOK /\ IRQDiscipline /\ MutexWord /\ BlockStores /\ WriterIsAlone /\
      CounterCounts /\ CPSRPath /\ DataPath /\ WaitersCovered /\ PollwordSet
  BY DEF RWLockInv
<1> USE <1>0
<1>e. /\ pc[x] = "counter" /\ pc'[x] = "ustore" /\ Runs(x) /\ op[x] = "write_unlock" /\ ok'[x]
      /\ \A l \in Loc : buffer[x[1]][l] = NoStore
      /\ /\ buffer'[x[1]]["Counter"] = 0 /\ buffer'[x[1]]["Pollword"] = 1
         /\ buffer'[x[1]]["SavedCPSR"] = NoStore /\ buffer'[x[1]]["Mutex"] = NoStore
         /\ buffer'[x[1]]["Data"] = NoStore
      /\ \A c \in CPU : c # x[1] => buffer'[c] = buffer[c]
      /\ a2'[x] = memory["SavedCPSR"]
      /\ UNCHANGED <<memory, monitor, event, I, inIRQ, op, entryI, latest>>
  <2>1. pc[x] = "counter" /\ pc'[x] = "ustore" /\ Runs(x) /\ op[x] = "write_unlock" /\ ok'[x]
    BY ContextParts, Places, CPUAssumption DEF DropWrite, AtCounter, Goto, At, memVars,
       cpuVars, ctxVars, Drained, PathOK, OnPath, TypeOK
  <2>2. \A l \in Loc : buffer[x[1]][l] = NoStore
    BY ContextParts, Places, CPUAssumption DEF DropWrite, AtCounter, Goto, At, memVars,
       cpuVars, ctxVars, Drained, Store, TypeOK
  <2>3. /\ buffer'[x[1]]["Counter"] = 0 /\ buffer'[x[1]]["Pollword"] = 1
        /\ buffer'[x[1]]["SavedCPSR"] = NoStore /\ buffer'[x[1]]["Mutex"] = NoStore
        /\ buffer'[x[1]]["Data"] = NoStore
    <3>1. Store(x[1], [Counter |-> 0, Pollword |-> 1])
      BY DEF DropWrite
    <3> QED BY <3>1, <2>2, ContextParts, Places DEF Store, TypeOK
  <2>4. \A c \in CPU : c # x[1] => buffer'[c] = buffer[c]
    BY ContextParts, Places, CPUAssumption DEF DropWrite, AtCounter, Goto, At, memVars,
       cpuVars, ctxVars, Drained, Store, TypeOK
  <2>5. a2'[x] = memory["SavedCPSR"]
    BY ContextParts, Places, CPUAssumption DEF DropWrite, AtCounter, Goto, At, memVars,
       cpuVars, ctxVars, Drained, Store, TypeOK
  <2>6. UNCHANGED <<memory, monitor, event, I, inIRQ, op, entryI, latest>>
    BY ContextParts, Places, CPUAssumption DEF DropWrite, AtCounter, Goto, At, memVars,
       cpuVars, ctxVars, Drained, Store, TypeOK
  <2> QED BY <2>1, <2>2, <2>3, <2>4, <2>5, <2>6
<1>f. \A y \in Context : y # x =>
        /\ pc'[y] = pc[y] /\ ok'[y] = ok[y]
        /\ a2'[y] = a2[y]
  BY <1>0 DEF DropWrite, AtCounter, Goto, At, memVars, cpuVars, ctxVars, Drained, Store,
     TypeOK
<1>s. \A c \in CPU :
        /\ buffer[c]["Counter"] = NoStore /\ buffer[c]["Pollword"] = NoStore
        /\ buffer[c]["SavedCPSR"] = NoStore /\ buffer[c]["Mutex"] = NoStore
  BY <1>e, BlockSettled
<1>c. /\ Counts(memory["Counter"])
      /\ memory["Counter"] = 0 <=> ~Claimed
      /\ memory["Counter"] = Counter_Write <=> \E y \in Context : Writes(y)
  BY <1>e, CounterTells
<1>t. \A y \in Context :
        (Writes(y) \/ Reads(y) => y = x) /\ ~Writes(y)' /\ ~Reads(y)'
  <2>1. Writes(x)
    BY <1>e DEF Writes, HasClaim
  <2>2. \A y \in Context : Writes(y) \/ Reads(y) => y = x
    BY <2>1 DEF WriterIsAlone
  <2> QED BY <2>2, <1>e, <1>f DEF Writes, Reads, HasClaim, WriteOps
<1>1. TypeOK'
  <2>1. memory' \in [Loc -> Int] /\ memory'["Counter"] \in CounterValue
    BY ContextParts, Places, CPUAssumption DEF DropWrite, AtCounter, Goto, At, memVars,
       cpuVars, ctxVars, Drained, Store, TypeOK, PC, Bit, Loc, Routine, WriteOps
  <2>2. \A m \in Loc \ {"Counter"} : memory'[m] \in Bit
    BY ContextParts, Places, CPUAssumption DEF DropWrite, AtCounter, Goto, At, memVars,
       cpuVars, ctxVars, Drained, Store, TypeOK, PC, Bit, Loc, Routine, WriteOps
  <2>3. buffer' \in [CPU -> [Loc -> Int]]
    <3>1. Store(x[1], [Counter |-> 0, Pollword |-> 1])
      BY DEF DropWrite
    <3> QED BY <3>1, ContextParts DEF Store, TypeOK
  <2>4. \A k \in CPU : buffer'[k]["Counter"] \in CounterValue \cup {NoStore}
    <3>1. 0 \in CounterValue
      BY ContextFinite DEF CounterValue, Counter_Read
    <3> QED BY <3>1, <1>e DEF TypeOK
  <2>5. \A k \in CPU : \A m \in Loc \ {"Counter"} : buffer'[k][m] \in Bit \cup {NoStore}
    BY <1>e, ContextParts DEF TypeOK, Bit, Loc
  <2>6. /\ monitor' \in [CPU -> BOOLEAN] /\ event' \in [CPU -> BOOLEAN]
        /\ I' \in [CPU -> Bit] /\ inIRQ' \in [CPU -> BOOLEAN]
    BY ContextParts, Places, CPUAssumption DEF DropWrite, AtCounter, Goto, At, memVars,
       cpuVars, ctxVars, Drained, Store, TypeOK, PC, Bit, Loc, Routine, WriteOps
  <2>7. /\ pc' \in [Context -> PC] /\ op' \in [Context -> Routine \cup {"none"}]
        /\ ok' \in [Context -> BOOLEAN] /\ a2' \in [Context -> Bit]
        /\ entryI' \in [Context -> Bit]
    BY ContextParts, Places, CPUAssumption DEF DropWrite, AtCounter, Goto, At, memVars,
       cpuVars, ctxVars, Drained, Store, TypeOK, PC, Bit, Loc, Routine, WriteOps
  <2>8. latest' \in Bit
    BY ContextParts, Places, CPUAssumption DEF DropWrite, AtCounter, Goto, At, memVars,
       cpuVars, ctxVars, Drained, Store, TypeOK, PC, Bit, Loc, Routine, WriteOps
  <2> QED BY <2>1, <2>2, <2>3, <2>4, <2>5, <2>6, <2>7, <2>8 DEF TypeOK
<1>2. PathOK'
  BY <1>e, <1>f, ContextParts DEF PathOK, OnPath, WriteOps, Releases
<1>3. IRQDiscipline'
  <2>1. \A y \in Context : Masked(y)' => Runs(y)' /\ I'[y[1]] = 1
    BY <1>e, <1>f, ContextParts, OneRuns DEF IRQDiscipline, Masked, Runs, Meta, WriteOps
  <2>2. \A c \in CPU : inIRQ'[c] => I'[c] = 1
    BY <1>e, <1>f, ContextParts DEF IRQDiscipline, Runs
  <2>3. \A c \in CPU : ~inIRQ'[c] => pc'[<<c, "irq">>] = "idle"
    <3>1. \A y \in Context : pc[y] = "idle" => pc'[y] = "idle"
      BY <1>e, <1>f
    <3> QED BY <3>1, <1>e, ContextParts DEF IRQDiscipline
  <2> QED BY <2>1, <2>2, <2>3 DEF IRQDiscipline
<1>4. MutexWord'
  BY <1>e, <1>f, <1>s, ContextParts DEF MutexWord, Meta
<1>5. BlockStores'
  BY <1>e, <1>f, <1>s DEF BlockStores
<1>6. WriterIsAlone'
  BY <1>t DEF WriterIsAlone
<1>7. CounterCounts'
  <2>1. Readers' = {}
    BY <1>t DEF Readers
  <2>2. Counts(0)'
    BY <2>1, <1>t, FS_EmptySet DEF Counts, Counter_Read
  <2>3. \A c \in CPU : c # x[1] => buffer'[c]["Counter"] = NoStore
    BY <1>e, <1>s
  <2> QED BY <1>e, <2>2, <2>3, ContextParts DEF CounterCounts, NoStore
<1>8. CPSRPath'
  <2>1. \A y \in Context : y[2] = "irq" /\ pc'[y] # "idle" => entryI'[y] = 1
    BY <1>e, <1>f, ContextParts DEF IRQDiscipline, CPSRPath, Runs
  <2>2. \A y \in Context :
           pc'[y] \in {"ldrex", "strex", "counter"} /\ op'[y] # "write_unlock" =>
             a2'[y] = entryI'[y]
    BY <1>e, <1>f, ContextParts DEF PathOK, OnPath, CPSRPath, Runs
  <2>3. \A y \in Context : pc'[y] \in {"ustore", "msr"} => a2'[y] = entryI'[y]
    <3>1. memory["SavedCPSR"] = entryI[x]
      <4>1. Writes(x)
        BY <1>e DEF Writes, HasClaim
      <4> QED BY <4>1, <1>s, ContextParts DEF CPSRPath, Load
    <3> QED BY <3>1, <1>e, <1>f DEF CPSRPath
  <2>4. \A y \in Context : Writes(y)' => Load(y[1], "SavedCPSR")' = entryI'[y]
    BY <1>t
  <2>5. \A y \in Context : pc'[y] \in {"retry", "pause", "wfe", "upcall"} =>
           IF Runs(y)' THEN I'[y[1]] = entryI'[y] ELSE entryI'[y] = 0
    BY <1>e, <1>f, ContextParts, OneRuns DEF IRQDiscipline, PathOK, OnPath, CPSRPath, Runs,
       Level
  <2> QED BY <2>1, <2>2, <2>3, <2>4, <2>5 DEF CPSRPath
<1>9. DataPath'
  <2>1. \A c \in CPU : buffer[c]["Data"] = NoStore
    BY <1>e, <1>t, Places DEF DataPath
  <2>2. \A c \in CPU : buffer'[c]["Data"] = NoStore
    BY <2>1, <1>e
  <2> QED BY <2>1, <2>2, <1>e DEF DataPath
<1>10. WaitersCovered'
  <2>1. Covered'
    BY <1>e DEF Covered, Releases
  <2> QED BY <2>1 DEF WaitersCovered
<1>11. PollwordSet'
  <2>1. \A c \in CPU : c # x[1] => buffer'[c]["Pollword"] = NoStore
    BY <1>e, <1>s
  <2> QED BY <2>1, <1>e, ContextParts DEF PollwordSet, NoStore
<1>12. LosesWrite(x)
  BY <1>e, <1>t DEF LosesWrite, Writes, Reads, HasClaim
<1> QED BY <1>1, <1>2, <1>3, <1>4, <1>5, <1>6, <1>7, <1>8, <1>9, <1>10, <1>11, <1>12
       DEF RWLockInv

\* The reader that gives up its claim leaves a counter of the other readers.
LEMMA DropReadPreserves ==
  ASSUME RWLockInv, NEW x \in Context, DropRead(x)
  PROVE  RWLockInv' /\ LosesRead(x)
<1>0. TypeOK /\ PathOK /\ IRQDiscipline /\ MutexWord /\ BlockStores /\ WriterIsAlone /\
      CounterCounts /\ CPSRPath /\ DataPath /\ WaitersCovered /\ PollwordSet
  BY DEF RWLockInv
<1> USE <1>0
<1>e. /\ pc[x] = "counter" /\ pc'[x] = "ustore" /\ Runs(x) /\ op[x] = "read_unlock"
      /\ \A l \in Loc : buffer[x[1]][l] = NoStore
      /\ /\ buffer'[x[1]]["Counter"] = memory["Counter"] + Counter_Read
         /\ ok'[x] <=> buffer'[x[1]]["Counter"] = 0
         /\ buffer'[x[1]]["Pollword"] = IF ok'[x] THEN 1 ELSE NoStore
         /\ buffer'[x[1]]["SavedCPSR"] = NoStore /\ buffer'[x[1]]["Mutex"] = NoStore
         /\ buffer'[x[1]]["Data"] = NoStore
      /\ \A c \in CPU : c # x[1] => buffer'[c] = buffer[c]
      /\ UNCHANGED <<memory, monitor, event, I, inIRQ, op, a2, entryI, latest>>
  <2>1. pc[x] = "counter" /\ pc'[x] = "ustore" /\ Runs(x) /\ op[x] = "read_unlock"
    BY ContextParts, Places, CPUAssumption DEF DropRead, AtCounter, Goto, At, memVars,
       cpuVars, ctxVars, Drained, PathOK, OnPath, TypeOK
  <2>2. \A l \in Loc : buffer[x[1]][l] = NoStore
    BY ContextParts, Places, CPUAssumption DEF DropRead, AtCounter, Goto, At, memVars,
       cpuVars, ctxVars, Drained, Store, TypeOK
  <2>3. /\ buffer'[x[1]]["Counter"] = memory["Counter"] + Counter_Read
        /\ ok'[x] <=> buffer'[x[1]]["Counter"] = 0
        /\ buffer'[x[1]]["Pollword"] = IF ok'[x] THEN 1 ELSE NoStore
        /\ buffer'[x[1]]["SavedCPSR"] = NoStore /\ buffer'[x[1]]["Mutex"] = NoStore
        /\ buffer'[x[1]]["Data"] = NoStore
    <3>1. CASE memory["Counter"] + Counter_Read = 0
      <4>1. Store(x[1], [Counter |-> 0, Pollword |-> 1]) /\ ok' = [ok EXCEPT ![x] = TRUE]
        BY <3>1 DEF DropRead
      <4> QED BY <4>1, <3>1, <2>2, ContextParts, Places DEF Store, TypeOK
    <3>2. CASE memory["Counter"] + Counter_Read # 0
      <4>1. Store(x[1], [Counter |-> memory["Counter"] + Counter_Read])
        BY <3>2 DEF DropRead
      <4>2. ok' = [ok EXCEPT ![x] = FALSE]
        BY <3>2 DEF DropRead
      <4> QED BY <4>1, <4>2, <3>2, <2>2, ContextParts, Places DEF Store, TypeOK
    <3> QED BY <3>1, <3>2
  <2>4. \A c \in CPU : c # x[1] => buffer'[c] = buffer[c]
    BY ContextParts DEF DropRead, Store, TypeOK
  <2>5. UNCHANGED <<memory, monitor, event, I, inIRQ, op, a2, entryI, latest>>
    BY ContextParts, Places, CPUAssumption DEF DropRead, AtCounter, Goto, At, memVars,
       cpuVars, ctxVars, Drained, Store, TypeOK
  <2> QED BY <2>1, <2>2, <2>3, <2>4, <2>5
<1>f. \A y \in Context : y # x =>
        /\ pc'[y] = pc[y] /\ ok'[y] = ok[y]
  BY <1>0 DEF DropRead, AtCounter, Goto, At, memVars, cpuVars, ctxVars, Drained, Store,
     TypeOK
<1>s. \A c \in CPU :
        /\ buffer[c]["Counter"] = NoStore /\ buffer[c]["Pollword"] = NoStore
        /\ buffer[c]["SavedCPSR"] = NoStore /\ buffer[c]["Mutex"] = NoStore
  BY <1>e, BlockSettled
<1>c. /\ Counts(memory["Counter"])
      /\ memory["Counter"] = 0 <=> ~Claimed
      /\ memory["Counter"] = Counter_Write <=> \E y \in Context : Writes(y)
  BY <1>e, CounterTells
<1>t. \A y \in Context : ~Writes(y) /\ ~Writes(y)' /\ (Reads(y)' <=> Reads(y) /\ y # x)
  <2>1. Reads(x) /\ ~Writes(x)
    BY <1>e DEF Reads, Writes, HasClaim, WriteOps
  <2>2. \A y \in Context : ~Writes(y)
    BY <2>1 DEF WriterIsAlone
  <2> QED BY <2>2, <1>e, <1>f DEF Writes, Reads, HasClaim, WriteOps
<1>r. /\ buffer'[x[1]]["Counter"] = -Counter_Read * Cardinality(Readers')
      /\ Cardinality(Readers') \in 0 .. Cardinality(Context)
      /\ buffer'[x[1]]["Counter"] = 0 <=> Readers' = {}
  <2>1. Readers' = Readers \ {x} /\ x \in Readers
    BY <1>t, <1>e DEF Readers, Reads, HasClaim
  <2>2. Cardinality(Readers') = Cardinality(Readers) - 1
    BY <2>1, ReadersCounted, FS_RemoveElement
  <2>3. memory["Counter"] = -Counter_Read * Cardinality(Readers)
    BY <1>c, <1>t DEF Counts
  <2>4. IsFiniteSet(Readers') /\ Cardinality(Readers') \in Nat
    BY <2>1, ReadersCounted, FS_Subset, FS_CardinalityType
  <2>5. Cardinality(Readers') = 0 <=> Readers' = {}
    BY <2>4, FS_EmptySet
  <2> QED BY <1>e, <2>2, <2>3, <2>4, <2>5, ReadersCounted, ContextFinite DEF Counter_Read
<1>1. TypeOK'
  <2>1. memory' \in [Loc -> Int] /\ memory'["Counter"] \in CounterValue
    BY ContextParts, Places, CPUAssumption DEF DropRead, AtCounter, Goto, At, memVars,
       cpuVars, ctxVars, Drained, Store, TypeOK, PC, Bit, Loc, Routine, WriteOps
  <2>2. \A m \in Loc \ {"Counter"} : memory'[m] \in Bit
    BY ContextParts, Places, CPUAssumption DEF DropRead, AtCounter, Goto, At, memVars,
       cpuVars, ctxVars, Drained, Store, TypeOK, PC, Bit, Loc, Routine, WriteOps
  <2>3. buffer' \in [CPU -> [Loc -> Int]]
    <3>1. memory["Counter"] + Counter_Read \in Int
      BY Places DEF TypeOK, Counter_Read
    <3>2. CASE memory["Counter"] + Counter_Read = 0
      <4>1. Store(x[1], [Counter |-> 0, Pollword |-> 1])
        BY <3>2 DEF DropRead
      <4> QED BY <4>1, ContextParts DEF Store, TypeOK
    <3>3. CASE memory["Counter"] + Counter_Read # 0
      <4>1. Store(x[1], [Counter |-> memory["Counter"] + Counter_Read])
        BY <3>3 DEF DropRead
      <4> QED BY <3>1, <4>1, ContextParts DEF Store, TypeOK
    <3> QED BY <3>2, <3>3
  <2>4. \A k \in CPU : buffer'[k]["Counter"] \in CounterValue \cup {NoStore}
    <3>1. buffer'[x[1]]["Counter"] \in CounterValue
      BY <1>r DEF CounterValue
    <3> QED BY <3>1, <1>e DEF TypeOK
  <2>5. \A k \in CPU : \A m \in Loc \ {"Counter"} : buffer'[k][m] \in Bit \cup {NoStore}
    BY <1>e, ContextParts DEF TypeOK, Bit, Loc
  <2>6. /\ monitor' \in [CPU -> BOOLEAN] /\ event' \in [CPU -> BOOLEAN]
        /\ I' \in [CPU -> Bit] /\ inIRQ' \in [CPU -> BOOLEAN]
    BY ContextParts, Places, CPUAssumption DEF DropRead, AtCounter, Goto, At, memVars,
       cpuVars, ctxVars, Drained, Store, TypeOK, PC, Bit, Loc, Routine, WriteOps
  <2>7. /\ pc' \in [Context -> PC] /\ op' \in [Context -> Routine \cup {"none"}]
        /\ ok' \in [Context -> BOOLEAN] /\ a2' \in [Context -> Bit]
        /\ entryI' \in [Context -> Bit]
    BY ContextParts, Places, CPUAssumption DEF DropRead, AtCounter, Goto, At, memVars,
       cpuVars, ctxVars, Drained, Store, TypeOK, PC, Bit, Loc, Routine, WriteOps
  <2>8. latest' \in Bit
    BY ContextParts, Places, CPUAssumption DEF DropRead, AtCounter, Goto, At, memVars,
       cpuVars, ctxVars, Drained, Store, TypeOK, PC, Bit, Loc, Routine, WriteOps
  <2> QED BY <2>1, <2>2, <2>3, <2>4, <2>5, <2>6, <2>7, <2>8 DEF TypeOK
<1>2. PathOK'
  BY <1>e, <1>f, ContextParts DEF PathOK, OnPath, WriteOps, Releases
<1>3. IRQDiscipline'
  <2>1. \A y \in Context : Masked(y)' => Runs(y)' /\ I'[y[1]] = 1
    BY <1>e, <1>f, ContextParts, OneRuns DEF IRQDiscipline, Masked, Runs, Meta, WriteOps
  <2>2. \A c \in CPU : inIRQ'[c] => I'[c] = 1
    BY <1>e, <1>f, ContextParts DEF IRQDiscipline, Runs
  <2>3. \A c \in CPU : ~inIRQ'[c] => pc'[<<c, "irq">>] = "idle"
    <3>1. \A y \in Context : pc[y] = "idle" => pc'[y] = "idle"
      BY <1>e, <1>f
    <3> QED BY <3>1, <1>e, ContextParts DEF IRQDiscipline
  <2> QED BY <2>1, <2>2, <2>3 DEF IRQDiscipline
<1>4. MutexWord'
  BY <1>e, <1>f, <1>s, ContextParts DEF MutexWord, Meta
<1>5. BlockStores'
  BY <1>e, <1>f, <1>s DEF BlockStores
<1>6. WriterIsAlone'
  BY <1>t DEF WriterIsAlone
<1>7. CounterCounts'
  <2>1. Counts(buffer[x[1]]["Counter"])'
    BY <1>t, <1>r DEF Counts
  <2>2. \A c \in CPU : c # x[1] => buffer'[c]["Counter"] = NoStore
    BY <1>e, <1>s
  <2>3. buffer'[x[1]]["Counter"] # NoStore
    BY <1>r DEF Counter_Read, NoStore
  <2> QED BY <2>1, <2>2, <2>3, ContextParts DEF CounterCounts
<1>8. CPSRPath'
  <2>1. \A y \in Context : y[2] = "irq" /\ pc'[y] # "idle" => entryI'[y] = 1
    BY <1>e, <1>f, ContextParts DEF IRQDiscipline, CPSRPath, Runs
  <2>2. \A y \in Context :
           pc'[y] \in {"ldrex", "strex", "counter"} /\ op'[y] # "write_unlock" =>
             a2'[y] = entryI'[y]
    BY <1>e, <1>f, ContextParts DEF PathOK, OnPath, CPSRPath, Runs
  <2>3. \A y \in Context : pc'[y] \in {"ustore", "msr"} => a2'[y] = entryI'[y]
    BY <1>e, <1>f DEF CPSRPath
  <2>4. \A y \in Context : Writes(y)' => Load(y[1], "SavedCPSR")' = entryI'[y]
    BY <1>t
  <2>5. \A y \in Context : pc'[y] \in {"retry", "pause", "wfe", "upcall"} =>
           IF Runs(y)' THEN I'[y[1]] = entryI'[y] ELSE entryI'[y] = 0
    BY <1>e, <1>f, ContextParts, OneRuns DEF IRQDiscipline, PathOK, OnPath, CPSRPath, Runs,
       Level
  <2> QED BY <2>1, <2>2, <2>3, <2>4, <2>5 DEF CPSRPath
<1>9. DataPath'
  <2>1. \A c \in CPU : buffer'[c]["Data"] = buffer[c]["Data"]
    BY <1>e, Places
  <2> QED BY <2>1, <1>e, <1>t DEF DataPath
<1>10. WaitersCovered'
  <2>1. CASE Readers' = {}
    BY <2>1, <1>e, <1>r DEF WaitersCovered, Covered, Releases
  <2>2. CASE Readers' # {}
    BY <2>2 DEF WaitersCovered, Covered, Readers
  <2> QED BY <2>1, <2>2
<1>11. PollwordSet'
  <2>1. \A c \in CPU : c # x[1] => buffer'[c]["Pollword"] = NoStore
    BY <1>e, <1>s
  <2>2. CASE Readers' = {}
    BY <2>1, <2>2, <1>e, <1>r, ContextParts DEF PollwordSet, NoStore
  <2>3. CASE Readers' # {}
    BY <2>3 DEF PollwordSet, Claimed, Readers
  <2> QED BY <2>2, <2>3
<1>12. LosesRead(x)
  BY <1>e, <1>t DEF LosesRead, Writes, Reads, HasClaim
<1> QED BY <1>1, <1>2, <1>3, <1>4, <1>5, <1>6, <1>7, <1>8, <1>9, <1>10, <1>11, <1>12
       DEF RWLockInv

-----------------------------------------------------------------------------
(* The behaviours.                                                           *)

\* SPINRW_INITIALISER is a lock that nobody has.
LEMMA InitRWLockInv == Init => RWLockInv
<1> SUFFICES ASSUME Init PROVE RWLockInv
  OBVIOUS
<1>i. /\ memory = [l \in Loc |-> IF l \in {"Mutex", "Pollword"} THEN 1 ELSE 0]
      /\ \A c \in CPU, l \in Loc : buffer[c][l] = NoStore
      /\ \A x \in Context : pc[x] = "idle" /\ op[x] = "none" /\ ok[x] = FALSE
      /\ \A c \in CPU : inIRQ[c] = FALSE
      /\ latest = 0
  BY ContextParts DEF Init
<1>w. \A x \in Context : ~Writes(x) /\ ~Reads(x)
  BY <1>i DEF Writes, Reads, HasClaim, WriteOps
<1>1. TypeOK
  <2>1. 0 \in CounterValue
    BY ContextFinite DEF CounterValue, Counter_Read
  <2>2. /\ memory \in [Loc -> Int] /\ memory["Counter"] \in CounterValue
        /\ \A l \in Loc \ {"Counter"} : memory[l] \in Bit
    BY <1>i, <2>1, Places DEF Bit
  <2>3. buffer \in [CPU -> [Loc -> Int]]
    BY DEF Init, NoStore
  <2>4. I \in [CPU -> Bit] /\ a2 \in [Context -> Bit] /\ entryI \in [Context -> Bit]
    BY DEF Init, Bit
  <2>5. /\ pc \in [Context -> PC] /\ op \in [Context -> Routine \cup {"none"}]
        /\ ok \in [Context -> BOOLEAN]
    BY DEF Init, PC, Routine
  <2>6. /\ monitor \in [CPU -> BOOLEAN] /\ event \in [CPU -> BOOLEAN]
        /\ inIRQ \in [CPU -> BOOLEAN] /\ latest \in Bit
    BY DEF Init, Bit
  <2> QED BY <1>i, <2>2, <2>3, <2>4, <2>5, <2>6, Places DEF TypeOK
<1>2. PathOK
  BY <1>i DEF PathOK, OnPath
<1>3. IRQDiscipline
  BY <1>i, ContextParts DEF IRQDiscipline, Masked, Meta
<1>4. MutexWord
  BY <1>i, Places DEF MutexWord, Meta
<1>5. BlockStores
  BY <1>i, Places DEF BlockStores
<1>6. WriterIsAlone
  BY <1>w DEF WriterIsAlone
<1>7. CounterCounts
  <2>1. Readers = {}
    BY <1>w DEF Readers
  <2>2. Counts(0)
    BY <1>w, <2>1, FS_EmptySet DEF Counts, Counter_Read
  <2> QED BY <1>i, <2>2, Places DEF CounterCounts
<1>8. CPSRPath
  BY <1>i, <1>w DEF CPSRPath
<1>9. DataPath
  BY <1>i, Places DEF DataPath
<1>10. WaitersCovered
  BY <1>i DEF WaitersCovered
<1>11. PollwordSet
  BY <1>i, Places DEF PollwordSet
<1> QED BY <1>1, <1>2, <1>3, <1>4, <1>5, <1>6, <1>7, <1>8, <1>9, <1>10, <1>11 DEF RWLockInv

\* A claim succeeds or fails by what the counter says.
LEMMA UseCounterStep ==
  ASSUME RWLockInv, NEW x \in Context, UseCounter(x)
  PROVE  /\ RWLockInv'
         /\ KeepsClaims \/ GainsWrite(x) \/ LosesWrite(x) \/ GainsRead(x) \/ LosesRead(x)
<1>1. CASE TakeWrite(x)
  BY <1>1, TakeWriteFailsPreserves, TakeWriteSucceedsPreserves
<1>2. CASE TakeRead(x)
  BY <1>2, TakeReadFailsPreserves, TakeReadSucceedsPreserves
<1>3. CASE DropWrite(x)
  BY <1>3, DropWritePreserves
<1>4. CASE DropRead(x)
  BY <1>4, DropReadPreserves
<1> QED BY <1>1, <1>2, <1>3, <1>4 DEF UseCounter

\* Every step keeps the invariant, and changes the claims of one context at most.
LEMMA NextRWLockInv ==
  ASSUME RWLockInv, Next
  PROVE  /\ RWLockInv'
         /\ \/ KeepsClaims
            \/ \E x \in Context :
                 GainsWrite(x) \/ LosesWrite(x) \/ GainsRead(x) \/ LosesRead(x)
<1>1. CASE \E x \in Context : UseCounter(x)
  BY <1>1, UseCounterStep
<1>2. CASE \E x \in Context : MetaLock(x) \/ MetaUnlock(x) \/ Wait(x) \/ Unlock(x)
  <2>1. PICK x \in Context : MetaLock(x) \/ MetaUnlock(x) \/ Wait(x) \/ Unlock(x)
    BY <1>2
  <2>2. CASE MetaLock(x)
    BY <2>2, ClaimAgainPreserves, LoadExclusivePreserves, StoreExclusivePreserves DEF MetaLock
  <2>3. CASE MetaUnlock(x)
    BY <2>3, StoreUnlockedPreserves, RestoreCPSRPreserves DEF MetaUnlock
  <2>4. CASE Wait(x)
    BY <2>4, PausePreserves, WaitForEventPreserves, UpCall6Preserves DEF Wait
  <2>5. CASE Unlock(x)
    BY <2>5, CallWriteUnlockPreserves, CallReadUnlockPreserves, SendEventPreserves DEF Unlock
  <2> QED BY <2>1, <2>2, <2>3, <2>4, <2>5
<1>3. CASE \E x \in Context : \E routine \in FgOps : Claim(x, routine)
  BY <1>3, ClaimPreserves
<1>4. CASE \E c \in CPU : Drain(c) \/ TakeIRQ(c) \/ ReturnFromIRQ(c) \/ CallerSetsI(c)
  BY <1>4, DrainPreserves, TakeIRQPreserves, ReturnFromIRQPreserves, CallerSetsIPreserves
<1> QED BY <1>1, <1>2, <1>3, <1>4 DEF Next, Execute

\* A step that changes nothing keeps the invariant.
LEMMA StutterRWLockInv ==
  ASSUME RWLockInv, UNCHANGED vars
  PROVE  RWLockInv' /\ KeepsClaims
<1>w. \A y \in Context : (Writes(y)' <=> Writes(y)) /\ (Reads(y)' <=> Reads(y))
  BY DEF vars, Writes, Reads, HasClaim
<1>0. TypeOK /\ PathOK /\ IRQDiscipline /\ MutexWord /\ BlockStores /\ WriterIsAlone /\
      CounterCounts /\ CPSRPath /\ DataPath /\ WaitersCovered /\ PollwordSet
  BY DEF RWLockInv
<1>u. UNCHANGED <<memory, buffer, monitor, event, I, inIRQ, pc, op, ok, a2, entryI, latest>>
  BY DEF vars
<1>1. TypeOK' /\ PathOK' /\ IRQDiscipline' /\ MutexWord'
  BY <1>0, <1>u DEF TypeOK, PathOK, OnPath, IRQDiscipline, Masked, Runs, MutexWord
<1>2. BlockStores' /\ WriterIsAlone' /\ DataPath'
  BY <1>0, <1>u, <1>w DEF BlockStores, WriterIsAlone, DataPath
<1>3. CounterCounts'
  BY <1>0, <1>u, <1>w DEF CounterCounts, Counts, Readers
<1>4. CPSRPath'
  BY <1>0, <1>u, <1>w DEF CPSRPath, Load, Runs
<1>5. WaitersCovered' /\ PollwordSet'
  BY <1>0, <1>u, <1>w DEF WaitersCovered, Covered, PollwordSet, Claimed
<1> QED BY <1>1, <1>2, <1>3, <1>4, <1>5, <1>w DEF RWLockInv, KeepsClaims

LEMMA RWLockInvHolds == Spec => []RWLockInv
<1>1. RWLockInv /\ [Next]_vars => RWLockInv'
  BY NextRWLockInv, StutterRWLockInv
<1> QED BY InitRWLockInv, <1>1, PTL DEF Spec

\* Every variable keeps its type: the counter counts at most one claim a context.
THEOREM RWTypeCorrect == Spec => []TypeOK
<1>1. RWLockInv => TypeOK
  BY DEF RWLockInv
<1> QED BY <1>1, RWLockInvHolds, PTL

\* One writer or any number of readers, whatever handlers read on top.
THEOREM RWWriterIsAlone == Spec => []WriterIsAlone
<1>1. RWLockInv => WriterIsAlone
  BY DEF RWLockInv
<1> QED BY <1>1, RWLockInvHolds, PTL

\* Every routine gives back the IRQ state that it is to give back.
THEOREM RWRestoresIRQs == Spec => []RestoresCallersIRQState
<1>1. RWLockInv => RestoresCallersIRQState
  BY DEF RWLockInv, CPSRPath, RestoresCallersIRQState
<1> QED BY <1>1, RWLockInvHolds, PTL

\* Whoever has the lock sees the last writer's datum: it was stored before the Mutex word
\* was, and no other writer has been there since.
THEOREM RWHolderSeesData == Spec => []HolderSeesLatestData
<1>1. ASSUME RWLockInv PROVE HolderSeesLatestData
  <2>0. TypeOK /\ PathOK /\ WriterIsAlone /\ DataPath
    BY <1>1 DEF RWLockInv
  <2>1. SUFFICES ASSUME NEW x \in Context, pc[x] = "held"
                 PROVE  Load(x[1], "Data") = latest
    BY DEF HolderSeesLatestData
  <2>2. (Writes(x) \/ Reads(x)) /\ op[x] # "write_unlock"
    BY <2>0, <2>1 DEF PathOK, OnPath, Writes, Reads, HasClaim, WriteOps
  <2>3. \A c \in CPU : buffer[c]["Data"] = NoStore
    BY <2>0, <2>2 DEF DataPath, WriterIsAlone
  <2> QED BY <2>0, <2>3, ContextParts DEF DataPath, Load
<1>2. RWLockInv => HolderSeesLatestData
  BY <1>1
<1> QED BY <1>2, RWLockInvHolds, PTL

\* Nobody sleeps for a lock that nobody has and that nobody is about to announce.
THEOREM RWNoLostWakeup == Spec => []NoLostWakeup
<1>1. ASSUME RWLockInv PROVE NoLostWakeup
  <2>0. /\ TypeOK /\ PathOK /\ IRQDiscipline /\ BlockStores /\ WaitersCovered
        /\ PollwordSet
    BY <1>1 DEF RWLockInv
  <2>1. SUFFICES ASSUME NEW x \in Context,
                        Asleep(x) \/ (pc[x] = "upcall" /\ Load(x[1], "Pollword") = 0)
                 PROVE  Covered
    BY DEF NoLostWakeup, Covered, Releases
  <2>2. CASE Asleep(x)
    <3>1. op[x] \in WriteOps \cup {"read"} /\ ~ok[x] /\ pc[x] = "wfe" /\ ~event[x[1]]
      BY <2>0, <2>2 DEF Asleep, PathOK, OnPath
    <3>2. CASE x[2] = "fg" /\ op[<<x[1], "irq">>] = "read"
      <4>1. ~inIRQ[x[1]]
        BY <2>2, <3>2 DEF Asleep, Runs
      <4>2. pc[<<x[1], "irq">>] = "idle"
        BY <2>0, <4>1, ContextParts DEF IRQDiscipline
      <4> QED BY <2>0, <4>2, <3>2, ContextParts DEF PathOK, OnPath
    <3> QED BY <2>0, <3>1, <3>2 DEF WaitersCovered
  <2>3. CASE pc[x] = "upcall" /\ Load(x[1], "Pollword") = 0
    <3>1. CASE Claimed
      BY <3>1 DEF Claimed, Covered
    <3>2. CASE ~Claimed
      <4>1. PICK c \in CPU : buffer[c]["Pollword"] # NoStore
        BY <2>0, <2>3, <3>2, ContextParts DEF PollwordSet, Load, NoStore
      <4>2. PICK y \in Context : y[1] = c /\ pc[y] = "ustore" /\ ok[y]
        BY <2>0, <4>1 DEF BlockStores
      <4>3. op[y] \in Releases
        BY <2>0, <3>2, <4>2 DEF Claimed, Writes, Reads, HasClaim, PathOK, OnPath, TypeOK,
           Routine, Releases
      <4> QED BY <4>2, <4>3 DEF Covered
    <3> QED BY <3>1, <3>2
  <2> QED BY <2>1, <2>2, <2>3
<1>2. RWLockInv => NoLostWakeup
  BY <1>1
<1> QED BY <1>2, RWLockInvHolds, PTL

-----------------------------------------------------------------------------
(* The read-write lock implements LockPromise, now with readers.             *)

\* The holder is the one writer.
LEMMA HolderIsWriter ==
  ASSUME WriterIsAlone, NEW x \in Context, Writes(x)
  PROVE  Holder = x
BY DEF Holder, WriterIsAlone

\* A context is not the name of nobody.
LEMMA NoContextIsNone == NoContext \notin Context
<1>1. ASSUME NEW x \in Context PROVE x # NoContext
  BY ContextParts DEF NoContext, Level
<1> QED BY <1>1

\* A step that changes no claim is a step that LockPromise does not see.
LEMMA KeepsClaimsStutters ==
  ASSUME WriterIsAlone, WriterIsAlone', KeepsClaims
  PROVE  UNCHANGED Promise!vars
<1>1. [x \in Context |-> IF Reads(x) THEN 1 ELSE 0]'
        = [x \in Context |-> IF Reads(x) THEN 1 ELSE 0]
  BY DEF KeepsClaims
<1>2. CASE \E x \in Context : Writes(x)
  <2>1. PICK x \in Context : Writes(x)
    BY <1>2
  <2>2. Holder = x
    BY <2>1, HolderIsWriter
  <2>3. Holder' = x
    BY <2>1 DEF KeepsClaims, Holder, WriterIsAlone
  <2> QED BY <1>1, <2>2, <2>3 DEF Promise!vars
<1>3. CASE ~\E x \in Context : Writes(x)
  <2>1. Holder = NoContext /\ Holder' = NoContext
    BY <1>3 DEF KeepsClaims, Holder
  <2> QED BY <1>1, <2>1 DEF Promise!vars
<1> QED BY <1>2, <1>3

\* Each step of the lock is a step of LockPromise.
LEMMA RWStepKeepsPromise ==
  ASSUME RWLockInv, [Next]_vars
  PROVE  [Promise!Next]_(Promise!vars)
<1>1. /\ RWLockInv'
      /\ \/ KeepsClaims
         \/ \E x \in Context : GainsWrite(x) \/ LosesWrite(x) \/ GainsRead(x) \/ LosesRead(x)
  BY NextRWLockInv, StutterRWLockInv
<1>2. WriterIsAlone /\ WriterIsAlone'
  BY <1>1 DEF RWLockInv
<1>3. CASE KeepsClaims
  BY <1>2, <1>3, KeepsClaimsStutters
<1>4. ASSUME NEW x \in Context, GainsWrite(x) PROVE Promise!ClaimWrite(x)
  <2>1. Holder = NoContext
    BY <1>4 DEF GainsWrite, Holder
  <2>2. Holder' = x
    BY <1>4 DEF GainsWrite, Holder
  <2>3. [y \in Context |-> IF Reads(y) THEN 1 ELSE 0] = [y \in Context |-> 0]
    BY <1>4 DEF GainsWrite
  <2>4. [y \in Context |-> IF Reads(y) THEN 1 ELSE 0]' = [y \in Context |-> 0]
    BY <1>4 DEF GainsWrite
  <2> QED BY <2>1, <2>2, <2>3, <2>4 DEF Promise!ClaimWrite, Promise!Unread
<1>5. ASSUME NEW x \in Context, LosesWrite(x) PROVE Promise!ReleaseWrite(x)
  <2>1. Holder = x
    BY <1>5 DEF LosesWrite, Holder
  <2>2. Holder' = NoContext
    BY <1>5 DEF LosesWrite, Holder
  <2>3. [y \in Context |-> IF Reads(y) THEN 1 ELSE 0]'
          = [y \in Context |-> IF Reads(y) THEN 1 ELSE 0]
    BY <1>5 DEF LosesWrite
  <2> QED BY <2>1, <2>2, <2>3 DEF Promise!ReleaseWrite
<1>6. ASSUME NEW x \in Context, GainsRead(x) PROVE Promise!ClaimRead(x)
  <2>1. Holder = NoContext /\ Holder' = NoContext
    BY <1>6 DEF GainsRead, Holder
  <2>2. [y \in Context |-> IF Reads(y) THEN 1 ELSE 0]'
          = [[y \in Context |-> IF Reads(y) THEN 1 ELSE 0] EXCEPT ![x] = @ + 1]
    <3>1. [y \in Context |-> IF Reads(y) THEN 1 ELSE 0]'
            = [y \in Context |-> IF y = x THEN 1 ELSE IF Reads(y) THEN 1 ELSE 0]
      BY <1>6 DEF GainsRead
    <3>2. [y \in Context |-> IF Reads(y) THEN 1 ELSE 0][x] + 1 = 1
      BY <1>6 DEF GainsRead
    <3> QED BY <3>1, <3>2
  <2> QED BY <2>1, <2>2 DEF Promise!ClaimRead
<1>7. ASSUME NEW x \in Context, LosesRead(x) PROVE Promise!ReleaseRead(x)
  <2>1. Holder = NoContext /\ Holder' = NoContext
    BY <1>7 DEF LosesRead, Holder
  <2>2. [y \in Context |-> IF Reads(y) THEN 1 ELSE 0]'
          = [[y \in Context |-> IF Reads(y) THEN 1 ELSE 0] EXCEPT ![x] = @ - 1]
    <3>1. [y \in Context |-> IF Reads(y) THEN 1 ELSE 0]'
            = [y \in Context |-> IF y = x THEN 0 ELSE IF Reads(y) THEN 1 ELSE 0]
      BY <1>7 DEF LosesRead
    <3>2. [y \in Context |-> IF Reads(y) THEN 1 ELSE 0][x] - 1 = 0
      BY <1>7 DEF LosesRead
    <3> QED BY <3>1, <3>2
  <2>3. [y \in Context |-> IF Reads(y) THEN 1 ELSE 0][x] > 0
    BY <1>7 DEF LosesRead
  <2> QED BY <2>1, <2>2, <2>3 DEF Promise!ReleaseRead
<1> QED BY <1>1, <1>3, <1>4, <1>5, <1>6, <1>7 DEF Promise!Next

\* The lock word, the counter and the store buffers together are a lock for one writer
\* or many readers.
THEOREM RWImplementsPromise == Spec => KeepsPromise
<1>1. Init => Promise!Init
  <2>1. SUFFICES ASSUME Init PROVE Promise!Init
    OBVIOUS
  <2>2. \A x \in Context : ~Writes(x) /\ ~Reads(x)
    BY <2>1 DEF Init, Writes, Reads, HasClaim, WriteOps
  <2>3. Holder = NoContext
    BY <2>2 DEF Holder
  <2>4. [x \in Context |-> IF Reads(x) THEN 1 ELSE 0] = [x \in Context |-> 0]
    BY <2>2
  <2> QED BY <2>3, <2>4 DEF Promise!Init, Promise!Unread
<1>2. RWLockInv /\ [Next]_vars => [Promise!Next]_(Promise!vars)
  BY RWStepKeepsPromise
<1> QED BY <1>1, <1>2, RWLockInvHolds, PTL DEF Spec, KeepsPromise, Promise!Spec
=============================================================================
