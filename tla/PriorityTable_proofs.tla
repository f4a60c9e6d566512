------------------------ MODULE PriorityTable_proofs ------------------------
(* TLAPS proofs about RTSupport's table of priorities, for any number of       *)
(* priorities and any limit of the counts: the list visits the priorities in   *)
(* use from the top down, whatever joins and leaves, and the counts count.     *)
(*                                                                             *)
(* Following next is a recursive definition.  What it visits is compared with  *)
(* a set that is a list in the sense of IsList, by the least entry at which    *)
(* the two would differ.                                                       *)
EXTENDS PriorityTable, WellFoundedInduction, TLAPS

\* next links the members of L from the top priority down to the end mark.
IsList(next, L) ==
  /\ TopPriority \in L /\ L \subseteq Priorities \ {0}
  /\ \A q \in L :
       /\ next[q] < q
       /\ next[q] \in L \cup {0}
       /\ \A r \in L : r < q => r <= next[q]

InUse(usage) == {p \in Priorities \ {0} : usage[p] > 0}

\* The entries the loops visit.
Entries(usage) == InUse(usage) \cup {TopPriority}

Linked(pt) ==
  /\ \A p \in Priorities \ {0} : pt.next[p] < p
  /\ IsList(pt.next, Entries(pt.usage))

-----------------------------------------------------------------------------
\* Least and greatest numbers.

LEMMA LeastNat ==
  ASSUME NEW S \in SUBSET Nat, S # {}
  PROVE  \E n \in S : \A m \in S : n <= m
<1>. DEFINE R == {ss \in Nat \X Nat : ss[1] < ss[2]}
<1>1. IsWellFoundedOn(R, Nat)
  BY NatLessThanWellFounded DEF OpToRel
<1>. HIDE DEF R
<1>2. PICK x \in S : \A y \in S : <<y, x>> \notin R
  BY <1>1, WFMin
<1>3. ASSUME NEW m \in S
      PROVE  x <= m
  <2>1. x \in Nat /\ m \in Nat /\ ~(m < x)
    BY <1>2 DEF R
  <2>. QED
    BY <2>1
<1>. QED
  BY <1>3

LEMMA MinIs ==
  ASSUME NEW S \in SUBSET Nat, S # {}
  PROVE  Min(S) \in S /\ \A x \in S : Min(S) <= x
<1>1. PICK n \in S : \A m \in S : n <= m
  BY LeastNat
<1>. QED
  BY <1>1 DEF Min

\* A set of numbers with an upper bound has a greatest one, which is its Max.
LEMMA MaxIs ==
  ASSUME NEW S \in SUBSET Nat, S # {}, NEW b \in Nat, \A x \in S : x <= b
  PROVE  Max(S) \in S /\ \A x \in S : x <= Max(S)
<1>. DEFINE D == {b - x : x \in S}
<1>1. D \in SUBSET Nat /\ D # {}
  <2>1. \A x \in S : b - x \in Nat
    OBVIOUS
  <2>. QED
    BY <2>1
<1>2. PICK d \in D : \A e \in D : d <= e
  <2>. HIDE DEF D
  <2>. QED
    BY <1>1, LeastNat
<1>3. PICK y \in S : d = b - y
  OBVIOUS
<1>4. \A x \in S : y >= x
  <2>. SUFFICES ASSUME NEW x \in S PROVE y >= x
    OBVIOUS
  <2>1. d <= b - x
    BY <1>2
  <2>2. x \in Nat /\ y \in Nat
    OBVIOUS
  <2>. HIDE DEF D
  <2>. QED
    BY <1>3, <2>1, <2>2
<1>. QED
  BY <1>4 DEF Max

-----------------------------------------------------------------------------
\* Following next.

LEMMA Numbers ==
  /\ TopPriority \in Nat \ {0} /\ Saturated \in Nat \ {0}
  /\ Priorities \subseteq Nat /\ 0 \in Priorities /\ TopPriority \in Priorities
  /\ \A p \in Priorities : p <= TopPriority
BY PriorityAssumption DEF Priorities

\* The walk exists: it collects what lies in every set that is closed under next.
LEMMA ChainUnfolds ==
  ASSUME NEW next \in [Priorities -> Priorities], NEW p \in Priorities
  PROVE  Chain(next, p) = IF p = 0 THEN {} ELSE {p} \cup Chain(next, next[p])
<1>. DEFINE Closed(S) == \A s \in S : s # 0 => next[s] \in S
            Reach(q) == {r \in Priorities \ {0} :
                           \A S \in SUBSET Priorities : q \in S /\ Closed(S) => r \in S}
            Walk(w) == w = [q \in Priorities |-> IF q = 0 THEN {} ELSE {q} \cup w[next[q]]]
            reach == [q \in Priorities |-> Reach(q)]
            walk == CHOOSE w : Walk(w)
<1>1. Reach(0) = {}
  <2>1. {0} \in SUBSET Priorities /\ Closed({0})
    BY Numbers
  <2>. QED
    BY <2>1
<1>2. ASSUME NEW q \in Priorities, q # 0
      PROVE  Reach(q) = {q} \cup Reach(next[q])
  <2>1. q \in Reach(q)
    BY <1>2
  <2>2. ASSUME NEW r \in Reach(next[q])
        PROVE  r \in Reach(q)
    BY <1>2, <2>2
  <2>3. ASSUME NEW r \in Reach(q), r # q
        PROVE  r \in Reach(next[q])
    <3>1. ASSUME NEW S \in SUBSET Priorities, next[q] \in S, Closed(S)
          PROVE  r \in S
      <4>1. S \cup {q} \in SUBSET Priorities /\ Closed(S \cup {q})
        BY <3>1
      <4>. HIDE DEF Closed
      <4>. QED
        BY <2>3, <4>1
    <3>. HIDE DEF Closed
    <3>. QED
      BY <2>3, <3>1
  <2>. HIDE DEF Reach
  <2>. QED
    BY <2>1, <2>2, <2>3
<1>3. Walk(reach)
  <2>1. \A q \in Priorities : next[q] \in Priorities
    OBVIOUS
  <2>. HIDE DEF Reach
  <2>. QED
    BY <1>1, <1>2, <2>1
<1>4. Walk(walk)
  <2>. HIDE DEF Walk, reach
  <2>. QED
    BY <1>3
<1>5. \A q \in Priorities : Chain(next, q) = walk[q]
  BY DEF Chain
<1>6. walk[p] = IF p = 0 THEN {} ELSE {p} \cup walk[next[p]]
  <2>. HIDE DEF walk
  <2>. QED
    BY <1>4
<1>. HIDE DEF walk
<1>. QED
  BY <1>5, <1>6

\* From an entry of a list on, next visits the entries from there down.
LEMMA ChainOfList ==
  ASSUME NEW next \in [Priorities -> Priorities], NEW L, IsList(next, L),
         NEW p \in L \cup {0}
  PROVE  Chain(next, p) = {r \in L : r <= p}
<1>. DEFINE Bad == {q \in L \cup {0} : Chain(next, q) # {r \in L : r <= q}}
<1>0. /\ L \cup {0} \subseteq Priorities /\ 0 \notin L /\ 0 \in Nat
      /\ \A r \in L : r \in Nat /\ ~(r <= 0)
  <2>1. L \subseteq Priorities \ {0}
    BY DEF IsList
  <2>2. \A r \in Nat \ {0} : ~(r <= 0)
    OBVIOUS
  <2>. QED
    BY <2>1, <2>2, Numbers
<1>1. SUFFICES ASSUME Bad # {} PROVE FALSE
  OBVIOUS
<1>2. PICK q \in Bad : \A m \in Bad : q <= m
  <2>1. \A r \in Bad : r \in L \cup {0}
    OBVIOUS
  <2>. HIDE DEF Bad
  <2>2. Bad \in SUBSET Nat
    BY <1>0, <2>1
  <2>. QED
    BY <1>1, <2>2, LeastNat
<1>3. q \in L \cup {0} /\ q \in Priorities /\ q \in Nat
      /\ Chain(next, q) # {r \in L : r <= q}
  <2>1. q \in L \cup {0} /\ Chain(next, q) # {r \in L : r <= q}
    OBVIOUS
  <2>. HIDE DEF Bad
  <2>. QED
    BY <1>0, <2>1
<1>4. q # 0
  <2>1. Chain(next, 0) = {}
    BY ChainUnfolds, Numbers
  <2>. HIDE DEF Bad
  <2>2. {r \in L : r <= 0} = {}
    BY <1>0
  <2>. QED
    BY <1>3, <2>1, <2>2
<1>5. /\ q \in L /\ next[q] \in L \cup {0} /\ next[q] \in Nat /\ next[q] < q
      /\ \A r \in L : r < q => r <= next[q]
  <2>. HIDE DEF Bad
  <2>. QED
    BY <1>0, <1>3, <1>4 DEF IsList
<1>6. Chain(next, next[q]) = {r \in L : r <= next[q]}
  <2>1. next[q] \notin Bad
    <3>. HIDE DEF Bad
    <3>. QED
      BY <1>2, <1>3, <1>5
  <2>. QED
    BY <1>5, <2>1
<1>7. Chain(next, q) = {q} \cup {r \in L : r <= next[q]}
  <2>. HIDE DEF Bad
  <2>. QED
    BY <1>3, <1>4, <1>6, ChainUnfolds
<1>8. {q} \cup {r \in L : r <= next[q]} = {r \in L : r <= q}
  <2>. HIDE DEF Bad
  <2>1. ASSUME NEW r \in L
        PROVE  r = q \/ r <= next[q] <=> r <= q
    BY <1>0, <1>3, <1>5
  <2>. QED
    BY <1>5, <2>1
<1>. QED
  BY <1>3, <1>7, <1>8

\* The loops visit the top priority and the priorities in use.
LEMMA ListedIs ==
  ASSUME NEW pt \in Table, Linked(pt)
  PROVE  Listed(pt) = Entries(pt.usage)
<1>1. pt.next \in [Priorities -> Priorities]
  BY DEF Table
<1>2. TopPriority \in Entries(pt.usage) \cup {0} /\ IsList(pt.next, Entries(pt.usage))
  BY DEF Entries, Linked
<1>3. Chain(pt.next, TopPriority) = {r \in Entries(pt.usage) : r <= TopPriority}
  BY <1>1, <1>2, ChainOfList
<1>4. \A r \in Entries(pt.usage) : r <= TopPriority
  BY <1>2, Numbers DEF IsList
<1>. QED
  BY <1>3, <1>4 DEF Listed

\* The scan from priority p, which is an entry or the end mark.
LEMMA ScanIs ==
  ASSUME NEW pt \in Table, Linked(pt), NEW p \in Entries(pt.usage) \cup {0}
  PROVE  Chain(pt.next, p) = {r \in Entries(pt.usage) : r <= p}
BY ChainOfList DEF Table, Linked

LEMMA LinkedIsWellLinked ==
  ASSUME NEW pt \in Table, Linked(pt)
  PROVE  WellLinked(pt)
<1>1. Listed(pt) = InUse(pt.usage) \cup {TopPriority}
  BY ListedIs DEF Entries
<1>. QED
  BY <1>1 DEF WellLinked, Linked, InUse

-----------------------------------------------------------------------------
\* Linking and unlinking.

LEMMA EntriesFacts ==
  ASSUME NEW pt \in Table, Linked(pt)
  PROVE  /\ pt.next \in [Priorities -> Priorities]
         /\ pt.usage \in [Priorities -> UsageCounts]
         /\ pt.last \in [Priorities -> Nat]
         /\ Entries(pt.usage) \subseteq Priorities \ {0}
         /\ TopPriority \in Entries(pt.usage)
         /\ \A q \in Entries(pt.usage) : q \in Nat /\ q # 0 /\ q <= TopPriority
<1>1. Entries(pt.usage) \subseteq Priorities \ {0} /\ TopPriority \in Entries(pt.usage)
  BY Numbers DEF Entries, InUse
<1>. QED
  BY <1>1, Numbers DEF Table

LEMMA BeforeFacts ==
  ASSUME NEW pt \in Table, Linked(pt), NEW p \in Priorities, p # TopPriority
  PROVE  /\ Before(pt, p) \in Entries(pt.usage) /\ p < Before(pt, p)
         /\ \A q \in Entries(pt.usage) : p < q => Before(pt, p) <= q
<1>. DEFINE S == {q \in Entries(pt.usage) : q > p}
<1>1. S \in SUBSET Nat /\ TopPriority \in S
  <2>1. p \in Nat /\ p <= TopPriority /\ TopPriority \in Nat
    BY Numbers
  <2>2. TopPriority > p
    BY <2>1
  <2>. QED
    BY <2>2, EntriesFacts
<1>2. Before(pt, p) = Min(S)
  BY ListedIs DEF Before
<1>3. Min(S) \in S /\ \A x \in S : Min(S) <= x
  <2>. HIDE DEF S
  <2>. QED
    BY <1>1, MinIs
<1>4. Before(pt, p) \in Entries(pt.usage) /\ Before(pt, p) > p
  BY <1>2, <1>3
<1>5. \A q \in Entries(pt.usage) : p < q => Before(pt, p) <= q
  <2>. SUFFICES ASSUME NEW q \in Entries(pt.usage), p < q
                PROVE  Before(pt, p) <= q
    OBVIOUS
  <2>1. q > p
    BY EntriesFacts, Numbers
  <2>2. q \in S
    BY <2>1
  <2>. HIDE DEF S
  <2>. QED
    BY <1>2, <1>3, <2>2
<1>. QED
  BY <1>4, <1>5, EntriesFacts, Numbers

\* A list with p put in after the least entry above it.
LEMMA ListWith ==
  ASSUME NEW next \in [Priorities -> Priorities], NEW L, IsList(next, L),
         NEW p \in Priorities \ (L \cup {0}), NEW b \in L, p < b,
         \A q \in L : p < q => b <= q
  PROVE  IsList([[next EXCEPT ![p] = next[b]] EXCEPT ![b] = p], L \cup {p})
<1>. DEFINE new == [[next EXCEPT ![p] = next[b]] EXCEPT ![b] = p]
<1>1. L \subseteq Priorities \ {0} /\ TopPriority \in L /\ p \in Priorities /\ p # 0
      /\ p \notin L /\ b \in Priorities /\ b # p
  BY DEF IsList
<1>2. \A q \in L \cup {p} : q \in Nat
  BY <1>1, Numbers
<1>3. new[p] = next[b] /\ new[b] = p /\ \A q \in L : q # b => new[q] = next[q]
  BY <1>1
<1>4. \A q \in L : /\ next[q] < q /\ next[q] \in L \cup {0}
                   /\ \A r \in L : r < q => r <= next[q]
  BY DEF IsList
<1>5. next[b] < p
  <2>1. next[b] \in Nat /\ next[b] # p
    BY <1>1, <1>2, <1>4
  <2>2. CASE next[b] = 0
    BY <1>1, <1>2, <2>2
  <2>3. CASE next[b] \in L
    BY <1>2, <1>4, <2>1, <2>3
  <2>. QED
    BY <1>4, <2>2, <2>3
<1>6. ASSUME NEW q \in L \cup {p}
      PROVE  /\ new[q] < q /\ new[q] \in (L \cup {p}) \cup {0}
             /\ \A r \in L \cup {p} : r < q => r <= new[q]
  <2>1. CASE q = p
    <3>1. new[q] < q /\ new[q] \in L \cup {0}
      BY <1>3, <1>4, <1>5, <2>1
    <3>2. ASSUME NEW r \in L \cup {p}, r < q
          PROVE  r <= new[q]
      <4>1. r \in L /\ r < b
        BY <1>2, <2>1, <3>2
      <4>. QED
        BY <1>3, <1>4, <2>1, <4>1
    <3>. QED
      BY <3>1, <3>2
  <2>2. CASE q = b
    <3>1. ASSUME NEW r \in L \cup {p}, r < q
          PROVE  r <= p
      BY <1>2, <2>2, <3>1
    <3>2. new[q] = p
      BY <1>3, <2>2
    <3>. HIDE DEF new
    <3>. QED
      BY <2>2, <3>1, <3>2
  <2>3. CASE q \in L /\ q # b
    <3>1. new[q] = next[q] /\ next[q] < q /\ next[q] \in L \cup {0}
      BY <1>3, <1>4, <2>3
    <3>2. ASSUME p < q
          PROVE  p <= next[q]
      <4>1. b < q
        BY <1>2, <2>3, <3>2
      <4>2. b <= next[q]
        BY <1>4, <2>3, <4>1
      <4>3. next[q] \in Nat
        BY <1>2, <3>1
      <4>. QED
        BY <1>2, <4>2, <4>3
    <3>. QED
      BY <1>4, <2>3, <3>1, <3>2
  <2>. QED
    BY <2>1, <2>2, <2>3
<1>. HIDE DEF new
<1>7. IsList(new, L \cup {p})
  BY <1>1, <1>6 DEF IsList
<1>. QED
  BY <1>7 DEF new

\* A list without an entry other than the first: the one before it takes over its next.
LEMMA ListWithout ==
  ASSUME NEW next \in [Priorities -> Priorities], NEW L, IsList(next, L),
         NEW p \in L, p # TopPriority, NEW b \in L, p < b,
         \A q \in L : p < q => b <= q
  PROVE  IsList([next EXCEPT ![b] = next[p]], L \ {p})
<1>. DEFINE new == [next EXCEPT ![b] = next[p]]
<1>1. L \subseteq Priorities \ {0} /\ TopPriority \in L /\ p \in Priorities /\ b \in Priorities
  BY DEF IsList
<1>2. \A q \in L : q \in Nat
  BY <1>1, Numbers
<1>3. new[b] = next[p] /\ \A q \in L : q # b => new[q] = next[q]
  BY <1>1
<1>4. \A q \in L : /\ next[q] < q /\ next[q] \in L \cup {0}
                   /\ \A r \in L : r < q => r <= next[q]
  BY DEF IsList
<1>5. \A q \in L : next[q] \in Nat
  BY <1>2, <1>4
<1>6. ASSUME NEW q \in L \ {p}
      PROVE  /\ new[q] < q /\ new[q] \in (L \ {p}) \cup {0}
             /\ \A r \in L \ {p} : r < q => r <= new[q]
  <2>1. CASE q = b
    <3>1. new[q] = next[p] /\ next[p] < p /\ next[p] \in L \cup {0}
      BY <1>3, <1>4, <2>1
    <3>2. next[p] < b /\ next[p] # p
      BY <1>2, <1>5, <3>1
    <3>3. ASSUME NEW r \in L \ {p}, r < q
          PROVE  r <= new[q]
      <4>1. r < p
        BY <1>2, <2>1, <3>3
      <4>. QED
        BY <1>4, <3>1, <4>1
    <3>. QED
      BY <2>1, <3>1, <3>2, <3>3
  <2>2. CASE q # b
    <3>1. new[q] = next[q] /\ next[q] < q /\ next[q] \in L \cup {0}
      BY <1>3, <1>4, <2>2
    <3>2. next[q] # p
      <4>. SUFFICES ASSUME next[q] = p PROVE FALSE
        OBVIOUS
      <4>1. p < q /\ b < q
        BY <1>2, <2>2, <3>1
      <4>2. b <= next[q]
        BY <1>4, <4>1
      <4>. QED
        BY <1>2, <4>2
    <3>. QED
      BY <1>4, <3>1, <3>2
  <2>. QED
    BY <2>1, <2>2
<1>. HIDE DEF new
<1>7. IsList(new, L \ {p})
  BY <1>1, <1>6 DEF IsList
<1>. QED
  BY <1>7 DEF new

-----------------------------------------------------------------------------
\* Threads take and give up priorities.

More(usage, p) == [usage EXCEPT ![p] = IF @ = Saturated THEN @ ELSE @ + 1]
Less(usage, p) == [usage EXCEPT ![p] = IF @ = Saturated THEN @ ELSE @ - 1]

LEMMA CountFacts ==
  ASSUME NEW usage \in [Priorities -> UsageCounts], NEW p \in Priorities
  PROVE  /\ usage[p] \in Nat /\ usage[p] <= Saturated
         /\ usage[p] # Saturated => Inc(usage[p]) = usage[p] + 1
         /\ usage[p] # 0 => Dec(usage[p]) = usage[p] - 1
         /\ More(usage, p) \in [Priorities -> UsageCounts]
         /\ usage[p] # 0 => Less(usage, p) \in [Priorities -> UsageCounts]
<1>. DEFINE u == usage[p]
<1>1. u \in Nat /\ u <= Saturated /\ Saturated \in Nat
  BY Numbers DEF UsageCounts
<1>. HIDE DEF u
<1>2. ASSUME u # Saturated
      PROVE  u + 1 \in UsageCounts /\ Inc(u) = u + 1
  <2>1. u + 1 \in 0 .. Saturated
    BY <1>1, <1>2
  <2>2. (u + 1) % (Saturated + 1) = u + 1
    BY <1>1, <2>1
  <2>. QED
    BY <2>1, <2>2 DEF UsageCounts, Inc
<1>3. ASSUME u # 0
      PROVE  u - 1 \in UsageCounts /\ Dec(u) = u - 1
  <2>1. u - 1 \in 0 .. Saturated
    BY <1>1, <1>3
  <2>2. (u - 1) % (Saturated + 1) = u - 1
    BY <1>1, <2>1
  <2>. QED
    BY <2>1, <2>2 DEF UsageCounts, Dec
<1>. QED
  BY <1>1, <1>2, <1>3 DEF u, More, Less

LEMMA LinkFacts ==
  ASSUME NEW pt \in Table, Linked(pt), NEW p \in Priorities \ {0}, pt.usage[p] = 0
  PROVE  /\ Link(pt, p) \in Table
         /\ Link(pt, p).usage = pt.usage /\ Link(pt, p).last = pt.last
         /\ \A q \in Priorities \ {0} : Link(pt, p).next[q] < q
         /\ IsList(Link(pt, p).next, Entries(pt.usage) \cup {p})
<1>1. /\ pt.next \in [Priorities -> Priorities]
      /\ \A q \in Priorities \ {0} : pt.next[q] < q
      /\ IsList(pt.next, Entries(pt.usage))
  BY EntriesFacts DEF Linked
<1>2. CASE p = TopPriority
  <2>1. Entries(pt.usage) \cup {p} = Entries(pt.usage)
    BY <1>2, EntriesFacts
  <2>. QED
    BY <1>1, <1>2, <2>1 DEF Link
<1>3. CASE p # TopPriority
  <2>. DEFINE b == Before(pt, p)
              new == [[pt.next EXCEPT ![p] = pt.next[b]] EXCEPT ![b] = p]
  <2>1. /\ b \in Entries(pt.usage) /\ p < b
        /\ \A q \in Entries(pt.usage) : p < q => b <= q
    BY <1>3, BeforeFacts
  <2>2. p \notin Entries(pt.usage)
    BY <1>3 DEF Entries, InUse
  <2>. HIDE DEF b
  <2>3. IsList(new, Entries(pt.usage) \cup {p})
    BY <1>1, <2>1, <2>2, ListWith
  <2>4. b \in Priorities \ {0} /\ b # p
    BY <2>1, <2>2, EntriesFacts
  <2>5. new \in [Priorities -> Priorities]
    BY <1>1, <2>4
  <2>6. pt.next[b] < p
    <3>1. pt.next[b] < b /\ pt.next[b] \in Entries(pt.usage) \cup {0}
      BY <1>1, <2>1 DEF IsList
    <3>2. pt.next[b] # p /\ pt.next[b] \in Nat /\ p \in Nat /\ p # 0 /\ b \in Nat
      BY <2>2, <2>4, <3>1, EntriesFacts, Numbers
    <3>3. pt.next[b] # 0 => ~(p < pt.next[b])
      <4>. SUFFICES ASSUME pt.next[b] # 0, p < pt.next[b] PROVE FALSE
        OBVIOUS
      <4>1. b <= pt.next[b]
        BY <2>1, <3>1
      <4>. QED
        BY <3>1, <3>2, <4>1
    <3>. QED
      BY <3>2, <3>3
  <2>7. ASSUME NEW q \in Priorities \ {0}
        PROVE  new[q] < q
    <3>1. CASE q = b
      BY <1>1, <2>1, <2>4, <3>1
    <3>2. CASE q = p
      BY <1>1, <2>4, <2>6, <3>2
    <3>3. CASE q # b /\ q # p
      BY <1>1, <3>3
    <3>. QED
      BY <3>1, <3>2, <3>3
  <2>8. Link(pt, p) = [pt EXCEPT !.next = new]
    BY <1>3 DEF Link, b, Table
  <2>. HIDE DEF new
  <2>. QED
    BY <2>3, <2>5, <2>7, <2>8 DEF Table
<1>. QED
  BY <1>2, <1>3

LEMMA UnlinkFacts ==
  ASSUME NEW pt \in Table, Linked(pt), NEW p \in InUse(pt.usage)
  PROVE  /\ Unlink(pt, p) \in Table
         /\ Unlink(pt, p).usage = pt.usage /\ Unlink(pt, p).last = pt.last
         /\ Unlink(pt, p).next[p] = pt.next[p]
         /\ \A q \in Priorities \ {0} : Unlink(pt, p).next[q] < q
         /\ IsList(Unlink(pt, p).next, (Entries(pt.usage) \ {p}) \cup {TopPriority})
<1>1. /\ pt.next \in [Priorities -> Priorities]
      /\ \A q \in Priorities \ {0} : pt.next[q] < q
      /\ IsList(pt.next, Entries(pt.usage))
      /\ p \in Entries(pt.usage) /\ p \in Priorities \ {0}
  BY EntriesFacts DEF Linked, Entries, InUse
<1>2. CASE p = TopPriority
  <2>1. (Entries(pt.usage) \ {p}) \cup {TopPriority} = Entries(pt.usage)
    BY <1>2, EntriesFacts
  <2>. QED
    BY <1>1, <1>2, <2>1 DEF Unlink
<1>3. CASE p # TopPriority
  <2>. DEFINE b == Before(pt, p)
              new == [pt.next EXCEPT ![b] = pt.next[p]]
  <2>1. /\ b \in Entries(pt.usage) /\ p < b
        /\ \A q \in Entries(pt.usage) : p < q => b <= q
    BY <1>1, <1>3, BeforeFacts
  <2>. HIDE DEF b
  <2>2. IsList(new, Entries(pt.usage) \ {p})
    BY <1>1, <1>3, <2>1, ListWithout
  <2>3. (Entries(pt.usage) \ {p}) \cup {TopPriority} = Entries(pt.usage) \ {p}
    BY <1>3, EntriesFacts
  <2>4. b \in Priorities \ {0}
    BY <2>1, EntriesFacts
  <2>5. new \in [Priorities -> Priorities]
    BY <1>1, <2>4
  <2>6. pt.next[p] < b
    <3>1. pt.next[p] < p /\ pt.next[p] \in Nat /\ p \in Nat /\ b \in Nat
      BY <1>1, <2>4, Numbers
    <3>. QED
      BY <2>1, <3>1
  <2>7. ASSUME NEW q \in Priorities \ {0}
        PROVE  new[q] < q
    <3>1. CASE q = b
      BY <1>1, <2>4, <2>6, <3>1
    <3>2. CASE q # b
      BY <1>1, <3>2
    <3>. QED
      BY <3>1, <3>2
  <2>8. Unlink(pt, p) = [pt EXCEPT !.next = new]
    BY <1>3 DEF Unlink, b, Table
  <2>9. new[p] = pt.next[p]
    <3>1. p # b
      <4>1. p \in Nat /\ b \in Nat
        BY <1>1, <2>4, Numbers
      <4>. QED
        BY <2>1, <4>1
    <3>. QED
      BY <1>1, <2>4, <3>1
  <2>. HIDE DEF new
  <2>. QED
    BY <2>2, <2>3, <2>5, <2>7, <2>8, <2>9 DEF Table
<1>. QED
  BY <1>2, <1>3

\* A thread takes priority p: the list stays linked and the count goes up.
LEMMA JoinFacts ==
  ASSUME NEW pt \in Table, Linked(pt), NEW p \in Priorities \ {0}
  PROVE  /\ Join(pt, p) \in Table /\ Linked(Join(pt, p))
         /\ Join(pt, p).usage = More(pt.usage, p)
         /\ Join(pt, p).last = pt.last
<1>1. /\ pt.usage \in [Priorities -> UsageCounts]
      /\ pt.usage[p] \in Nat /\ pt.usage[p] <= Saturated
      /\ pt.usage[p] # Saturated => Inc(pt.usage[p]) = pt.usage[p] + 1
      /\ More(pt.usage, p) \in [Priorities -> UsageCounts]
  BY EntriesFacts, CountFacts
<1>2. CASE pt.usage[p] = Saturated
  <2>1. More(pt.usage, p) = pt.usage
    BY <1>1, <1>2 DEF More
  <2>. QED
    BY <1>2, <2>1 DEF Join
<1>3. More(pt.usage, p)[p] = (IF pt.usage[p] = Saturated THEN Saturated ELSE pt.usage[p] + 1)
      /\ \A q \in Priorities : q # p => More(pt.usage, p)[q] = pt.usage[q]
  BY <1>1 DEF More
<1>4. InUse(More(pt.usage, p)) = InUse(pt.usage) \cup {p}
  <2>1. More(pt.usage, p)[p] > 0
    BY <1>1, <1>3, Numbers
  <2>. QED
    BY <1>3, <2>1 DEF InUse
<1>5. Entries(More(pt.usage, p)) = Entries(pt.usage) \cup {p}
  BY <1>4 DEF Entries
<1>6. CASE pt.usage[p] # Saturated /\ pt.usage[p] = 0
  <2>. DEFINE l == Link(pt, p)
  <2>1. /\ l \in Table /\ l.usage = pt.usage /\ l.last = pt.last
        /\ \A q \in Priorities \ {0} : l.next[q] < q
        /\ IsList(l.next, Entries(pt.usage) \cup {p})
    BY <1>6, LinkFacts
  <2>2. Join(pt, p) = [l EXCEPT !.usage[p] = Inc(@)]
    BY <1>6 DEF Join
  <2>. HIDE DEF l
  <2>3. Join(pt, p) = [l EXCEPT !.usage = More(pt.usage, p)]
    BY <1>1, <1>6, <2>1, <2>2 DEF More, Table
  <2>. QED
    BY <1>1, <1>5, <2>1, <2>3 DEF Linked, Table
<1>7. CASE pt.usage[p] # Saturated /\ pt.usage[p] # 0
  <2>1. Join(pt, p) = [pt EXCEPT !.usage = More(pt.usage, p)]
    BY <1>1, <1>7 DEF More, Table, Join
  <2>2. Entries(pt.usage) \cup {p} = Entries(pt.usage)
    BY <1>1, <1>7 DEF Entries, InUse
  <2>. QED
    BY <1>1, <1>5, <2>1, <2>2 DEF Linked, Table
<1>. QED
  BY <1>2, <1>6, <1>7

\* A thread gives up priority p: the list stays linked and the count goes down.
LEMMA LeaveFacts ==
  ASSUME NEW pt \in Table, Linked(pt), NEW p \in Priorities \ {0}, pt.usage[p] # 0
  PROVE  /\ Leave(pt, p) \in Table /\ Linked(Leave(pt, p))
         /\ Leave(pt, p).usage = Less(pt.usage, p)
         /\ Leave(pt, p).last = pt.last /\ Leave(pt, p).next[p] = pt.next[p]
<1>1. /\ pt.usage \in [Priorities -> UsageCounts]
      /\ pt.usage[p] \in Nat /\ pt.usage[p] <= Saturated
      /\ Dec(pt.usage[p]) = pt.usage[p] - 1
      /\ Less(pt.usage, p) \in [Priorities -> UsageCounts]
  BY EntriesFacts, CountFacts
<1>2. CASE pt.usage[p] = Saturated
  <2>1. Less(pt.usage, p) = pt.usage
    BY <1>1, <1>2 DEF Less
  <2>. QED
    BY <1>2, <2>1 DEF Leave
<1>3. Less(pt.usage, p)[p] = (IF pt.usage[p] = Saturated THEN Saturated ELSE pt.usage[p] - 1)
      /\ \A q \in Priorities : q # p => Less(pt.usage, p)[q] = pt.usage[q]
  BY <1>1 DEF Less
<1>4. p \in InUse(pt.usage)
  BY <1>1 DEF InUse
<1>6. CASE pt.usage[p] # Saturated /\ pt.usage[p] = 1
  <2>. DEFINE l == Unlink(pt, p)
  <2>1. /\ l \in Table /\ l.usage = pt.usage /\ l.last = pt.last /\ l.next[p] = pt.next[p]
        /\ \A q \in Priorities \ {0} : l.next[q] < q
        /\ IsList(l.next, (Entries(pt.usage) \ {p}) \cup {TopPriority})
    BY <1>4, UnlinkFacts
  <2>2. Leave(pt, p) = [l EXCEPT !.usage[p] = Dec(@)]
    BY <1>6 DEF Leave
  <2>. HIDE DEF l
  <2>3. Leave(pt, p) = [l EXCEPT !.usage = Less(pt.usage, p)]
    BY <1>1, <1>6, <2>1, <2>2 DEF Less, Table
  <2>4. InUse(Less(pt.usage, p)) = InUse(pt.usage) \ {p}
    <3>1. ~(Less(pt.usage, p)[p] > 0)
      BY <1>3, <1>6
    <3>. QED
      BY <1>3, <3>1 DEF InUse
  <2>5. Entries(Less(pt.usage, p)) = (Entries(pt.usage) \ {p}) \cup {TopPriority}
    BY <2>4 DEF Entries
  <2>. QED
    BY <1>1, <2>1, <2>3, <2>5 DEF Linked, Table
<1>7. CASE pt.usage[p] # Saturated /\ pt.usage[p] # 1
  <2>1. Leave(pt, p) = [pt EXCEPT !.usage = Less(pt.usage, p)]
    BY <1>1, <1>7 DEF Less, Table, Leave
  <2>2. InUse(Less(pt.usage, p)) = InUse(pt.usage)
    <3>1. Less(pt.usage, p)[p] > 0
      BY <1>1, <1>3, <1>7
    <3>. QED
      BY <1>3, <1>4, <3>1 DEF InUse
  <2>3. Entries(Less(pt.usage, p)) = Entries(pt.usage)
    BY <2>2 DEF Entries
  <2>. QED
    BY <1>1, <2>1, <2>3 DEF Linked, Table
<1>. QED
  BY <1>2, <1>6, <1>7

LEMMA JoinNewFacts ==
  ASSUME NEW pt \in Table, Linked(pt), NEW p \in Priorities \ {0}, NEW start \in Nat
  PROVE  /\ JoinNew(pt, p, start) \in Table /\ Linked(JoinNew(pt, p, start))
         /\ JoinNew(pt, p, start).usage = More(pt.usage, p)
         /\ \A q \in Priorities :
              JoinNew(pt, p, start).last[q] =
                IF q = p /\ pt.usage[p] = 0 THEN start ELSE pt.last[q]
<1>. DEFINE j == Join(pt, p)
<1>1. /\ j \in Table /\ Linked(j) /\ j.usage = More(pt.usage, p) /\ j.last = pt.last
  BY JoinFacts
<1>2. JoinNew(pt, p, start) = IF pt.usage[p] = 0 THEN [j EXCEPT !.last[p] = start] ELSE j
  BY DEF JoinNew
<1>. HIDE DEF j
<1>. QED
  BY <1>1, <1>2 DEF Linked, Table

LEMMA RenumberFacts ==
  ASSUME NEW pt \in Table, Linked(pt), NEW index \in Nat \ {0}
  PROVE  /\ Renumber(pt, index) \in Table /\ Linked(Renumber(pt, index))
         /\ Renumber(pt, index).usage = pt.usage /\ Renumber(pt, index).next = pt.next
         /\ \A p \in Priorities :
              Renumber(pt, index).last[p] =
                IF p \in Entries(pt.usage) /\ pt.last[p] >= index
                THEN pt.last[p] - 1 ELSE pt.last[p]
<1>. DEFINE new == [p \in Priorities |->
                      IF p \in Entries(pt.usage) /\ pt.last[p] >= index
                      THEN pt.last[p] - 1 ELSE pt.last[p]]
<1>1. Renumber(pt, index) = [pt EXCEPT !.last = new]
  BY ListedIs DEF Renumber
<1>2. new \in [Priorities -> Nat]
  <2>. SUFFICES ASSUME NEW p \in Priorities
                PROVE  (IF p \in Entries(pt.usage) /\ pt.last[p] >= index
                        THEN pt.last[p] - 1 ELSE pt.last[p]) \in Nat
    OBVIOUS
  <2>1. pt.last[p] \in Nat
    BY DEF Table
  <2>. QED
    BY <2>1
<1>3. \A p \in Priorities :
        new[p] = IF p \in Entries(pt.usage) /\ pt.last[p] >= index
                 THEN pt.last[p] - 1 ELSE pt.last[p]
  OBVIOUS
<1>. HIDE DEF new
<1>4. Renumber(pt, index).last = new /\ Renumber(pt, index).usage = pt.usage
      /\ Renumber(pt, index).next = pt.next /\ Renumber(pt, index) \in Table
  BY <1>1, <1>2 DEF Table
<1>. QED
  BY <1>3, <1>4 DEF Linked

\* usage counts c, but for what was once too large.
Counts(usage, c) == \A q \in Priorities \ {0} : usage[q] \in {c[q], Saturated}

LEMMA MoreCounts ==
  ASSUME NEW usage \in [Priorities -> UsageCounts], NEW c \in [Priorities -> Nat],
         Counts(usage, c), NEW p \in Priorities \ {0}
  PROVE  /\ Counts(More(usage, p), [c EXCEPT ![p] = @ + 1])
         /\ More(usage, p)[p] # 0
         /\ \A q \in Priorities : q # p => More(usage, p)[q] = usage[q]
<1>. DEFINE d == [c EXCEPT ![p] = @ + 1]
<1>1. /\ d[p] = c[p] + 1 /\ c[p] \in Nat
      /\ \A q \in Priorities : q # p => d[q] = c[q]
  OBVIOUS
<1>2. /\ More(usage, p)[p] = IF usage[p] = Saturated THEN usage[p] ELSE usage[p] + 1
      /\ \A q \in Priorities : q # p => More(usage, p)[q] = usage[q]
  BY DEF More
<1>3. usage[p] \in {c[p], Saturated} /\ Saturated \in Nat /\ Saturated # 0
  BY PriorityAssumption DEF Counts
<1>. HIDE DEF d
<1>4. More(usage, p)[p] \in {d[p], Saturated} /\ More(usage, p)[p] # 0
  BY <1>1, <1>2, <1>3
<1>. QED
  BY <1>1, <1>2, <1>4 DEF Counts, d

LEMMA LessCounts ==
  ASSUME NEW usage \in [Priorities -> UsageCounts], NEW c \in [Priorities -> Nat],
         Counts(usage, c), NEW p \in Priorities \ {0}
  PROVE  /\ Counts(Less(usage, p), [c EXCEPT ![p] = @ - 1])
         /\ \A q \in Priorities : q # p => Less(usage, p)[q] = usage[q]
<1>. DEFINE d == [c EXCEPT ![p] = @ - 1]
<1>1. /\ d[p] = c[p] - 1 /\ c[p] \in Nat
      /\ \A q \in Priorities : q # p => d[q] = c[q]
  OBVIOUS
<1>2. /\ Less(usage, p)[p] = IF usage[p] = Saturated THEN usage[p] ELSE usage[p] - 1
      /\ \A q \in Priorities : q # p => Less(usage, p)[q] = usage[q]
  BY DEF Less
<1>3. usage[p] \in {c[p], Saturated} /\ Saturated \in Nat
  BY PriorityAssumption DEF Counts
<1>. HIDE DEF d
<1>4. Less(usage, p)[p] \in {d[p], Saturated}
  BY <1>1, <1>2, <1>3
<1>. QED
  BY <1>1, <1>2, <1>4 DEF Counts, d

LEMMA EmptyTableFacts == EmptyTable \in Table /\ Linked(EmptyTable)
<1>1. EmptyTable \in Table
  BY Numbers DEF EmptyTable, Table, UsageCounts
<1>2. Entries(EmptyTable.usage) = {TopPriority}
  BY DEF EmptyTable, Entries, InUse
<1>3. \A p \in Priorities \ {0} : EmptyTable.next[p] < p
  BY Numbers DEF EmptyTable
<1>4. IsList(EmptyTable.next, {TopPriority})
  BY Numbers DEF EmptyTable, IsList
<1>. QED
  BY <1>1, <1>2, <1>3, <1>4 DEF Linked
=============================================================================
