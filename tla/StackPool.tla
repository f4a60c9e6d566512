------------------------------ MODULE StackPool ------------------------------
(***************************************************************************)
(* The SVC stacks of real-time routines, castle/RiscOS/Sources/Programmer/ *)
(* RTSupport/module.c.  A routine that does not run has its stack saved at *)
(* svc_stack_copy (scheduler.s 550-590, 750-796), 8K of a dynamic area     *)
(* around a stack that is aligned to a megabyte and shared by all.  A      *)
(* sparse area has memory only where it has been claimed.  Since the       *)
(* kernel refuses claims made under an interrupt, a few stacks that nobody *)
(* uses are kept with their memory: the emergency list.  RT_Register takes *)
(* a stack from it, RT_Deregister puts one back, and each of them then     *)
(* evens the list out with the free list as far as the kernel lets it.     *)
(*                                                                         *)
(* Both calls run with IRQs off, and a heap operation or a change of an    *)
(* area keeps them off: each call is one step.  Addresses are in K.        *)
(***************************************************************************)
EXTENDS Integers, Sequences, FiniteSets, SequencesExt

CONSTANTS
  Routine,           \* thread structures a client may be given
  MB,                \* the alignment of the shared stack, 1024 in the code
  ROUTINES,          \* stacks to be had, 127 in the code
  EMERGENCY_STACKS,  \* stacks kept ready, 8 in the code
  Base,              \* where the kernel may put the dynamic area
  Grants,            \* how many claims or releases in a row may succeed
  MaxLost            \* bound: stacks lost

PAGE_SIZE == 4
STACK_SIZE == 8

ASSUME StackPoolAssumption ==
  /\ MB \in Nat \ {0} /\ MB % STACK_SIZE = 0
  /\ ROUTINES \in Nat \ {0}
  /\ EMERGENCY_STACKS \in Nat \ {0}
  /\ \A da \in Base : da \in Nat /\ da % PAGE_SIZE = 0
  /\ Grants \subseteq Nat /\ Grants # {}
  /\ MaxLost \in Nat

VARIABLES
  static_DA,             \* the base of the area
  static_UseSparseArea,  \* whether memory is claimed as needed
  pool,                  \* the svcstack objects and the memory behind them
  svc_stack_copy,        \* for each routine where its stack is saved, or NoStack
  told,                  \* what the client that registers it has been told
  lost,                  \* history: addresses that went down with a failed RT_Register
  taken                  \* history: stacks taken since a rebalancing was done in full

vars == <<static_DA, static_UseSparseArea, pool, svc_stack_copy, told, lost, taken>>

NoStack == -1
Stack == 1..ROUTINES                                \* static_Stacks
SmallestOf(S) == CHOOSE x \in S : \A y \in S : x <= y
LargestOf(S) == CHOOSE x \in S : \A y \in S : x >= y
Pages(a) == {a, a + PAGE_SIZE}                      \* the pages of the stack at a

-----------------------------------------------------------------------------
(* Where the stacks are *)

DA_SIZE == LargestOf({MB + STACK_SIZE + PAGE_SIZE,
                      STACK_SIZE + STACK_SIZE + PAGE_SIZE + ROUTINES * STACK_SIZE})

(* The top of the shared stack: MB-aligned, with a page below it to spare. *)
RoutineSVCStack(da) == ((da + PAGE_SIZE + MB - 1) \div MB) * MB + STACK_SIZE

(* "x &~ PAGE_SIZE*1024" clears bits 10 and 12 of x up to a page, since ~ binds tighter than   *)
(* *: of a whole number of pages it leaves an even one.                                         *)
EvenPages_AllPages(x) == x - (x % PAGE_SIZE)
EvenPages(x) == x - (x % (2 * PAGE_SIZE))

LastStackBeforeMB(da) == da + EvenPages(RoutineSVCStack(da) - da - STACK_SIZE - PAGE_SIZE)

(* The loop that fills in the pointers.  One stack follows another; if they come to meet       *)
(* LastStackBeforeMB they go on above the shared stack, a page away from it.                    *)
StackAddresses(da) ==
  [s \in Stack |->
     LET straight == da + (s - 1) * STACK_SIZE
         last == LastStackBeforeMB(da)
     IN IF straight >= last /\ (last - da) % STACK_SIZE = 0
        THEN RoutineSVCStack(da) + PAGE_SIZE + (straight - last)
        ELSE straight]

SharedStack(da) == Pages(RoutineSVCStack(da) - STACK_SIZE)
GuardPages(da) == {RoutineSVCStack(da) - STACK_SIZE - PAGE_SIZE, RoutineSVCStack(da)}
AreaPages(da) == {a \in da..(da + DA_SIZE - 1) : a % PAGE_SIZE = 0}

-----------------------------------------------------------------------------
(* RebalanceEmergencyList, when the kernel grants so many claims or releases and then refuses *)

(* The first loop: n stacks get memory and move from the free to the emergency list. *)
ClaimStacks(p, n) ==
  [p EXCEPT !.free = SubSeq(@, n + 1, Len(@)),
            !.emergency = Reverse(SubSeq(p.free, 1, n)) \o @,
            !.NumEmergency = @ + n,
            !.mapped = @ \cup UNION {Pages(p.ptr[p.free[i]]) : i \in 1..n}]

(* The second loop: n stacks give their memory back and move the other way. *)
ReleaseStacks_KeepMemory(p, n) ==
  [p EXCEPT !.emergency = SubSeq(@, n + 1, Len(@)),
            !.free = Reverse(SubSeq(p.emergency, 1, n)) \o @,
            !.NumEmergency = @ - n]
ReleaseStacks(p, n) ==
  [p EXCEPT !.emergency = SubSeq(@, n + 1, Len(@)),
            !.free = Reverse(SubSeq(p.emergency, 1, n)) \o @,
            !.NumEmergency = @ - n,
            !.mapped = @ \ UNION {Pages(p.ptr[p.emergency[i]]) : i \in 1..n}]

(* How many passes one of the loops makes if nothing is refused. *)
Passes_OneShort(p) ==
  IF p.NumEmergency < EMERGENCY_STACKS - 1
  THEN SmallestOf({EMERGENCY_STACKS - 1 - p.NumEmergency, Len(p.free)})
  ELSE LargestOf({0, p.NumEmergency - EMERGENCY_STACKS})
Passes(p) ==
  IF p.NumEmergency < EMERGENCY_STACKS
  THEN SmallestOf({EMERGENCY_STACKS - p.NumEmergency, Len(p.free)})
  ELSE p.NumEmergency - EMERGENCY_STACKS

RebalanceEmergencyList(sparse, p, granted) ==
  LET n == SmallestOf({Passes(p), granted})
  IN IF ~sparse THEN p
     ELSE IF p.NumEmergency < EMERGENCY_STACKS THEN ClaimStacks(p, n) ELSE ReleaseStacks(p, n)

(* Whether it returns an error: too few stacks in the end, for either kind of area. *)
RebalanceFails(sparse, p, granted) ==
  IF sparse
  THEN RebalanceEmergencyList(sparse, p, granted).NumEmergency < EMERGENCY_STACKS
  ELSE p.emergency = <<>>

(* Whether the kernel refused nothing. *)
InFull(sparse, p, granted) == sparse => granted >= Passes(p)

-----------------------------------------------------------------------------
(* module_Initialise, once the area exists and the shared stack has its memory *)

AllFree(da) ==
  [ptr |-> StackAddresses(da),
   free |-> Reverse([s \in Stack |-> s]), emergency |-> <<>>, active |-> <<>>,
   NumEmergency |-> 0,
   mapped |-> SharedStack(da)]

(* Without a sparse area everything has memory, and everything is on the emergency list. *)
AllReady(da) ==
  [AllFree(da) EXCEPT !.free = <<>>, !.emergency = AllFree(da).free,
                      !.NumEmergency = ROUTINES, !.mapped = AreaPages(da)]

Init ==
  /\ static_DA \in Base
  /\ static_UseSparseArea \in BOOLEAN
  /\ \E granted \in Grants :
       IF static_UseSparseArea
       THEN /\ pool = RebalanceEmergencyList(TRUE, AllFree(static_DA), granted)
            /\ taken = IF InFull(TRUE, AllFree(static_DA), granted) THEN 0 ELSE EMERGENCY_STACKS
       ELSE /\ pool = AllReady(static_DA)
            /\ taken = 0
  /\ svc_stack_copy = [r \in Routine |-> NoStack]
  /\ told = [r \in Routine |-> "nothing"]
  /\ lost = {}

-----------------------------------------------------------------------------
(* RT_Register *)

(* An empty emergency list is filled first.  Its error is e, which nothing resets. *)
Refilled(granted) ==
  IF pool.emergency = <<>>
  THEN RebalanceEmergencyList(static_UseSparseArea, pool, granted)
  ELSE pool

(* e, when the routine has been made *)
RegisterError(granted) ==
  pool.emergency = <<>> /\ RebalanceFails(static_UseSparseArea, pool, granted)

(* The first emergency stack becomes active. *)
Grab(p) ==
  [p EXCEPT !.emergency = Tail(@), !.NumEmergency = @ - 1,
            !.active = <<Head(p.emergency)>> \o @]

(* The stack at addr is the routine's.  The client may be told of an error even so, although    *)
(* module.c 634 promises "NULL if successful; otherwise pointer to error block".                *)
Created(r, addr, error) ==
  /\ svc_stack_copy' = [svc_stack_copy EXCEPT ![r] = addr + STACK_SIZE]
  /\ told' = [told EXCEPT ![r] = IF error THEN "error" ELSE "handle"]
  /\ UNCHANGED lost

(* malloc or realloc fails: the stack stays where it is, on the active list. *)
NoMemory(r, addr) ==
  /\ Cardinality(lost) < MaxLost
  /\ lost' = lost \cup {addr}
  /\ told' = [told EXCEPT ![r] = "error"]
  /\ UNCHANGED svc_stack_copy

Register(r) ==
  /\ svc_stack_copy[r] = NoStack
  /\ \E first, second \in Grants :
       LET p == Refilled(first)
           q == Grab(p)
           addr == p.ptr[Head(p.emergency)]
       IN /\ p.emergency # <<>>
          /\ pool' = RebalanceEmergencyList(static_UseSparseArea, q, second)
          /\ taken' = IF InFull(static_UseSparseArea, q, second) THEN 0
                      ELSE SmallestOf({taken + 1, EMERGENCY_STACKS})
          /\ \/ Created(r, addr, RegisterError(first))
             \/ NoMemory(r, addr)
  /\ UNCHANGED <<static_DA, static_UseSparseArea>>

(* There is no stack to be had. *)
RegisterRefused(r) ==
  /\ svc_stack_copy[r] = NoStack
  /\ \E granted \in Grants : Refilled(granted).emergency = <<>>
  /\ told' = [told EXCEPT ![r] = "error"]
  /\ UNCHANGED <<static_DA, static_UseSparseArea, pool, svc_stack_copy, lost, taken>>

-----------------------------------------------------------------------------
(* RT_Deregister, by a client that has the handle *)

(* Some active stack gets the routine's address and heads the emergency list. *)
PutBack_OwnAddress(p, addr) ==
  [p EXCEPT !.active = Tail(@), !.emergency = <<Head(p.active)>> \o @, !.NumEmergency = @ + 1]
PutBack(p, addr) ==
  [p EXCEPT !.active = Tail(@), !.emergency = <<Head(p.active)>> \o @,
            !.NumEmergency = @ + 1, !.ptr[Head(p.active)] = addr]

Deregister(r) ==
  /\ svc_stack_copy[r] # NoStack /\ told[r] = "handle"
  /\ \E granted \in Grants :
       LET p == PutBack(pool, svc_stack_copy[r] - STACK_SIZE)
       IN /\ pool' = RebalanceEmergencyList(static_UseSparseArea, p, granted)
          /\ taken' = IF InFull(static_UseSparseArea, p, granted) THEN 0 ELSE taken
  /\ svc_stack_copy' = [svc_stack_copy EXCEPT ![r] = NoStack]
  /\ told' = [told EXCEPT ![r] = "nothing"]
  /\ UNCHANGED <<static_DA, static_UseSparseArea, lost>>

Next == \E r \in Routine : Register(r) \/ RegisterRefused(r) \/ Deregister(r)

Spec == Init /\ [][Next]_vars

-----------------------------------------------------------------------------
Registered == {r \in Routine : svc_stack_copy[r] # NoStack}
SavedAt(r) == svc_stack_copy[r] - STACK_SIZE
RoutineStacks == {SavedAt(r) : r \in Registered}
AddressesOf(p, list) == {p.ptr[s] : s \in ToSet(list)}
PagesOf(stacks) == UNION {Pages(a) : a \in stacks}

(* The variables have their types; the area reaches no further than DA_SIZE. *)
TypeOK ==
  /\ static_DA \in Base /\ static_UseSparseArea \in BOOLEAN
  /\ pool.ptr \in [Stack -> AreaPages(static_DA)]
  /\ pool.free \in Seq(Stack) /\ pool.emergency \in Seq(Stack) /\ pool.active \in Seq(Stack)
  /\ pool.NumEmergency \in 0..ROUTINES
  /\ pool.mapped \subseteq AreaPages(static_DA)
  /\ svc_stack_copy \in [Routine -> {NoStack} \cup {a + STACK_SIZE : a \in AreaPages(static_DA)}]
  /\ told \in [Routine -> {"nothing", "handle", "error"}]
  /\ lost \subseteq AreaPages(static_DA)
  /\ taken \in 0..EMERGENCY_STACKS

(* No page belongs to two: the stacks of the free and emergency lists and those of routines    *)
(* lie apart from each other, and from the shared stack and its guard pages, inside the area.   *)
(* So PreEmpt and Yielded save a routine's stack over nobody else's.                            *)
StacksApart ==
  LET spare == ToSet(pool.free) \cup ToSet(pool.emergency)
  IN /\ \A s, t \in spare : s # t => Pages(pool.ptr[s]) \cap Pages(pool.ptr[t]) = {}
     /\ \A q, r \in Registered : q # r => Pages(SavedAt(q)) \cap Pages(SavedAt(r)) = {}
     /\ \A s \in spare, r \in Registered : Pages(pool.ptr[s]) \cap Pages(SavedAt(r)) = {}
     /\ \A a \in {pool.ptr[s] : s \in spare} \cup RoutineStacks :
          Pages(a) \subseteq AreaPages(static_DA) \ (SharedStack(static_DA) \cup GuardPages(static_DA))
     /\ SharedStack(static_DA) \cup GuardPages(static_DA) \subseteq AreaPages(static_DA)

(* Every stack that was laid out is on a list or saved for a routine, except those that failed *)
(* calls of RT_Register have taken with them: RT_Deregister gives back what it ought to.       *)
NoneElseLost ==
  AddressesOf(pool, pool.free) \cup AddressesOf(pool, pool.emergency) \cup RoutineStacks \cup lost
    = {StackAddresses(static_DA)[s] : s \in Stack}

(* The lists share no svcstack and between them have all, there is an active one for each      *)
(* routine (RT_Deregister takes the first without a look), and NumEmergency is right.          *)
ListsAgree ==
  /\ IsInjective(pool.free \o pool.emergency \o pool.active)
  /\ ToSet(pool.free \o pool.emergency \o pool.active) = Stack
  /\ Len(pool.active) = Cardinality(Registered) + Cardinality(lost)
  /\ pool.NumEmergency = Len(pool.emergency)

(* In a sparse area exactly the shared stack, the emergency stacks, the routines' and the lost *)
(* have memory: no routine's stack is saved where there is none, and none is held in vain.     *)
MemoryBehind ==
  static_UseSparseArea =>
    pool.mapped = SharedStack(static_DA)
                    \cup PagesOf(AddressesOf(pool, pool.emergency) \cup RoutineStacks \cup lost)

(* The emergency list does what it is for (module.c 87): as long as stacks are left, so many   *)
(* routines can be registered after the kernel last did what it was asked.                     *)
EmergencyReserve ==
  static_UseSparseArea /\ pool.free # <<>> => Len(pool.emergency) >= EMERGENCY_STACKS - taken
=============================================================================
