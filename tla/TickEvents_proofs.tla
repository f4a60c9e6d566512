--------------------------- MODULE TickEvents_proofs ---------------------------
(* TLAPS proofs about TickEvents, for any nodes, keys and delays, and any      *)
(* number of ticks in the middle of another: types, that no event is called    *)
(* early, that nothing due is left waiting, and that the chain is the exact    *)
(* clock AlarmClock promises.                                                  *)
(*                                                                             *)
(* The chain holds differences, so everything is about its prefix sums         *)
(* (TicksTo).  They are computed by a recursive function; what is proved of it *)
(* by induction is proved by taking the least index that would be an exception.*)
EXTENDS TickEvents, WellFoundedInduction, SequenceTheorems, TLAPS

-----------------------------------------------------------------------------
\* Least and greatest numbers.

LEMMA LeastNat ==
  ASSUME NEW S \in SUBSET Nat, S # {}
  PROVE  \E n \in S : \A m \in S : n <= m
<1>. DEFINE R == {ss \in Nat \X Nat : ss[1] < ss[2]}
<1>1. IsWellFoundedOn(R, Nat)
  BY NatLessThanWellFounded DEF OpToRel
<1>. HIDE DEF R
<1>2. PICK x \in S : \A y \in S : <<y, x>> \notin R
  BY <1>1, WFMin
<1>3. ASSUME NEW m \in S
      PROVE  x <= m
  <2>1. x \in Nat /\ m \in Nat /\ ~(m < x)
    BY <1>2 DEF R
  <2>. QED
    BY <2>1
<1>. QED
  BY <1>3

\* A set of numbers with an upper bound has a greatest one, which is its Max.
LEMMA MaxOfBounded ==
  ASSUME NEW S \in SUBSET Nat, S # {}, NEW b \in Nat, \A x \in S : x <= b
  PROVE  Max(S) \in S /\ \A x \in S : x <= Max(S)
<1>. DEFINE D == {b - x : x \in S}
<1>1. D \in SUBSET Nat /\ D # {}
  <2>1. \A x \in S : b - x \in Nat
    OBVIOUS
  <2>. QED
    BY <2>1
<1>2. PICK d \in D : \A e \in D : d <= e
  <2>. HIDE DEF D
  <2>. QED
    BY <1>1, LeastNat
<1>3. PICK y \in S : d = b - y
  OBVIOUS
<1>4. \A x \in S : y >= x
  <2>. SUFFICES ASSUME NEW x \in S PROVE y >= x
    OBVIOUS
  <2>1. d <= b - x
    BY <1>2
  <2>2. x \in Nat /\ y \in Nat
    OBVIOUS
  <2>. HIDE DEF D
  <2>. QED
    BY <1>3, <2>1, <2>2
<1>. QED
  BY <1>4 DEF Max

LEMMA MaxOfTwo ==
  ASSUME NEW a \in Int, NEW b \in Int
  PROVE  Max({a, b}) = IF a < b THEN b ELSE a
BY DEF Max

-----------------------------------------------------------------------------
\* Prefix sums.

\* A recursive function that walks from 0 to n, a step at a time.
IsWalk(g, n, start, step) ==
  g = [j \in 0 .. n |-> IF j = 0 THEN start ELSE step[<<j, g[j - 1]>>]]

\* It exists when each step stays in a set.
LEMMA WalkExists ==
  ASSUME NEW n \in Nat, NEW S, NEW start \in S, NEW step \in [(1 .. n) \X S -> S]
  PROVE  \E g \in [0 .. n -> S] : IsWalk(g, n, start, step)
<1>. DEFINE Walk(m, g) == g = [j \in 0 .. m |-> IF j = 0 THEN start ELSE step[<<j, g[j - 1]>>]]
            Bad == {m \in 0 .. n : ~ \E g \in [0 .. m -> S] : Walk(m, g)}
<1>1. SUFFICES Bad = {}
  BY DEF IsWalk
<1>2. SUFFICES ASSUME Bad # {} PROVE FALSE
  OBVIOUS
<1>3. PICK m \in Bad : \A k \in Bad : m <= k
  <2>1. Bad \in SUBSET Nat
    OBVIOUS
  <2>. HIDE DEF Bad
  <2>. QED
    BY <1>2, <2>1, LeastNat
<1>4. CASE m = 0
  <2>1. [j \in 0 .. 0 |-> start] \in [0 .. m -> S] /\ Walk(m, [j \in 0 .. 0 |-> start])
    BY <1>4
  <2>. QED
    BY <1>3, <2>1
<1>5. CASE m # 0
  <2>1. m \in Nat \ {0} /\ m \in 1 .. n /\ m - 1 \in 0 .. n /\ m - 1 \notin Bad
    <3>1. m \in 0 .. n
      OBVIOUS
    <3>. HIDE DEF Bad
    <3>. QED
      BY <1>3, <1>5, <3>1
  <2>2. PICK g \in [0 .. m - 1 -> S] : Walk(m - 1, g)
    BY <2>1
  <2>3. \A j \in 0 .. m - 1 : g[j] = IF j = 0 THEN start ELSE step[<<j, g[j - 1]>>]
    BY <2>2
  <2>. DEFINE h == [j \in 0 .. m |-> IF j = m THEN step[<<m, g[m - 1]>>] ELSE g[j]]
  <2>4. h \in [0 .. m -> S]
    <3>1. <<m, g[m - 1]>> \in (1 .. n) \X S
      BY <2>1
    <3>2. step[<<m, g[m - 1]>>] \in S
      BY <3>1
    <3>. QED
      BY <2>1, <3>2
  <2>5. \A j \in 0 .. m : h[j] = IF j = 0 THEN start ELSE step[<<j, h[j - 1]>>]
    <3>. SUFFICES ASSUME NEW j \in 0 .. m
                  PROVE  h[j] = IF j = 0 THEN start ELSE step[<<j, h[j - 1]>>]
      OBVIOUS
    <3>1. CASE j = m
      <4>1. h[j] = step[<<j, g[j - 1]>>] /\ j # 0
        BY <2>1, <3>1
      <4>2. h[j - 1] = g[j - 1]
        BY <2>1, <3>1
      <4>. QED
        BY <4>1, <4>2
    <3>2. CASE j # m
      <4>1. h[j] = g[j] /\ j \in 0 .. m - 1
        BY <2>1, <3>2
      <4>2. j # 0 => h[j - 1] = g[j - 1]
        BY <2>1, <3>2
      <4>. QED
        BY <2>3, <4>1, <4>2
    <3>. QED
      BY <3>1, <3>2
  <2>6. Walk(m, h)
    BY <2>4, <2>5
  <2>. QED
    BY <1>3, <2>4, <2>6
<1>. QED
  BY <1>4, <1>5

\* The recursive function that TicksTo computes exists.
LEMMA SumsExist ==
  ASSUME NEW n \in Nat, NEW f, \A j \in 1 .. n : f[j] \in Int
  PROVE  \E g \in [0 .. n -> Int] :
           g = [j \in 0 .. n |-> IF j = 0 THEN 0 ELSE g[j - 1] + f[j]]
<1>. DEFINE step == [w \in (1 .. n) \X Int |-> w[2] + f[w[1]]]
<1>1. step \in [(1 .. n) \X Int -> Int] /\ 0 \in Int
  OBVIOUS
<1>2. PICK g \in [0 .. n -> Int] : IsWalk(g, n, 0, step)
  <2>. HIDE DEF step
  <2>. QED
    BY <1>1, WalkExists
<1>3. \A j \in 0 .. n : j # 0 => step[<<j, g[j - 1]>>] = g[j - 1] + f[j]
  OBVIOUS
<1>4. \A j \in 0 .. n : (IF j = 0 THEN 0 ELSE step[<<j, g[j - 1]>>])
                            = (IF j = 0 THEN 0 ELSE g[j - 1] + f[j])
  BY <1>3
<1>. HIDE DEF step
<1>5. [j \in 0 .. n |-> IF j = 0 THEN 0 ELSE step[<<j, g[j - 1]>>]]
        = [j \in 0 .. n |-> IF j = 0 THEN 0 ELSE g[j - 1] + f[j]]
  BY <1>4
<1>6. g = [j \in 0 .. n |-> IF j = 0 THEN 0 ELSE g[j - 1] + f[j]]
  BY <1>2, <1>5, Zenon DEF IsWalk
<1>. QED
  BY <1>6

\* What a chain and its ticks are to be for the sums to mean anything.
Timed(chain, left) ==
  /\ chain \in Seq(Node)
  /\ \A j \in 1 .. Len(chain) : left[chain[j]] \in Nat

LEMMA TicksToFacts ==
  ASSUME NEW chain, NEW left, Timed(chain, left)
  PROVE  /\ TicksTo(chain, left, 0) = 0
         /\ \A i \in 1 .. Len(chain) :
              TicksTo(chain, left, i) = TicksTo(chain, left, i - 1) + left[chain[i]]
         /\ \A i \in 0 .. Len(chain) : TicksTo(chain, left, i) \in Int
<1>. DEFINE n == Len(chain)
            f == [j \in 1 .. n |-> left[chain[j]]]
            Rec(g) == g = [j \in 0 .. n |-> IF j = 0 THEN 0 ELSE g[j - 1] + left[chain[j]]]
            ticks == CHOOSE g : Rec(g)
<1>1. n \in Nat /\ \A j \in 1 .. n : f[j] \in Int /\ f[j] = left[chain[j]]
  BY DEF Timed
<1>2. PICK g \in [0 .. n -> Int] : g = [j \in 0 .. n |-> IF j = 0 THEN 0 ELSE g[j - 1] + f[j]]
  <2>. HIDE DEF n, f
  <2>. QED
    BY <1>1, SumsExist
<1>3. Rec(g)
  <2>1. \A j \in 0 .. n : (IF j = 0 THEN 0 ELSE g[j - 1] + f[j]) = (IF j = 0 THEN 0 ELSE g[j - 1] + left[chain[j]])
    BY <1>1
  <2>. HIDE DEF n, f
  <2>. QED
    BY <1>2, <2>1
<1>4. Rec(ticks)
  <2>. HIDE DEF Rec
  <2>. QED
    BY <1>3
<1>5. \A i : TicksTo(chain, left, i) = ticks[i]
  BY DEF TicksTo
<1>6. /\ ticks[0] = 0
      /\ \A i \in 1 .. n : ticks[i] = ticks[i - 1] + left[chain[i]]
  <2>. HIDE DEF n, ticks
  <2>1. \A j \in 0 .. n : ticks[j] = IF j = 0 THEN 0 ELSE ticks[j - 1] + left[chain[j]]
    BY <1>4 DEF n
  <2>. QED
    BY <1>1, <2>1
<1>7. \A i \in 0 .. n : ticks[i] \in Int
  <2>. DEFINE Bad == {m \in 0 .. n : ticks[m] \notin Int}
  <2>. HIDE DEF ticks, n
  <2>1. SUFFICES ASSUME Bad # {} PROVE FALSE
    OBVIOUS
  <2>2. Bad \in SUBSET Nat
    BY <1>1
  <2>3. PICK m \in Bad : \A k \in Bad : m <= k
    <3>. HIDE DEF Bad
    <3>. QED
      BY <2>1, <2>2, LeastNat
  <2>4. m # 0 /\ m - 1 \in 0 .. n /\ m - 1 \notin Bad
    BY <1>1, <1>6, <2>3
  <2>5. left[chain[m]] \in Int
    BY <1>1, <2>4 DEF Timed, n
  <2>. QED
    BY <1>6, <2>3, <2>4, <2>5
<1>. HIDE DEF ticks
<1>. QED
  BY <1>5, <1>6, <1>7

\* The m nodes after the a-th of one chain have the ticks of those after the b-th of
\* another.
SameTicks(c1, l1, a, c2, l2, b, m) ==
  /\ a \in Nat /\ b \in Nat /\ m \in Nat
  /\ a + m <= Len(c1) /\ b + m <= Len(c2)
  /\ \A j \in 1 .. m : l1[c1[a + j]] = l2[c2[b + j]]

LEMMA StepBack ==
  ASSUME NEW a \in Nat, NEW j \in Nat, NEW n \in Nat, a + j \in 1 .. n
  PROVE  a + j - 1 \in 0 .. n
OBVIOUS

\* Sums that agree up to d at one place of each chain agree up to d for as long as the
\* ticks that follow are the same.
LEMMA SumsAgree ==
  ASSUME NEW c1, NEW l1, Timed(c1, l1), NEW c2, NEW l2, Timed(c2, l2),
         NEW a, NEW b, NEW m, SameTicks(c1, l1, a, c2, l2, b, m),
         NEW d \in Int, TicksTo(c1, l1, a) = TicksTo(c2, l2, b) + d
  PROVE  \A j \in 0 .. m : TicksTo(c1, l1, a + j) = TicksTo(c2, l2, b + j) + d
<1>0. /\ a \in Nat /\ b \in Nat /\ m \in Nat
      /\ a + m <= Len(c1) /\ b + m <= Len(c2)
      /\ \A j \in 1 .. m : l1[c1[a + j]] = l2[c2[b + j]]
  BY DEF SameTicks
<1>. DEFINE Bad == {j \in 0 .. m : TicksTo(c1, l1, a + j) # TicksTo(c2, l2, b + j) + d}
<1>1. SUFFICES ASSUME Bad # {} PROVE FALSE
  OBVIOUS
<1>2. PICK j \in Bad : \A k \in Bad : j <= k
  <2>1. Bad \in SUBSET Nat
    BY <1>0
  <2>. HIDE DEF Bad
  <2>. QED
    BY <1>1, <2>1, LeastNat
<1>3. j \in 1 .. m
  BY <1>0
<1>4. TicksTo(c1, l1, a + (j - 1)) = TicksTo(c2, l2, b + (j - 1)) + d
  <2>1. j - 1 \in 0 .. m /\ ~(j <= j - 1)
    BY <1>0, <1>3
  <2>2. j - 1 \notin Bad
    <3>. HIDE DEF Bad
    <3>. QED
      BY <1>2, <2>1
  <2>. QED
    BY <2>1, <2>2
<1>5. Len(c1) \in Nat /\ Len(c2) \in Nat
  BY DEF Timed
<1>6. a + j \in 1 .. Len(c1) /\ b + j \in 1 .. Len(c2)
  <2>. HIDE DEF Bad
  <2>. QED
    BY <1>0, <1>3, <1>5
<1>7. /\ TicksTo(c1, l1, a + j) = TicksTo(c1, l1, a + j - 1) + l1[c1[a + j]]
      /\ TicksTo(c2, l2, b + j) = TicksTo(c2, l2, b + j - 1) + l2[c2[b + j]]
      /\ TicksTo(c1, l1, a + j - 1) \in Int /\ TicksTo(c2, l2, b + j - 1) \in Int
  <2>1. a + j - 1 \in 0 .. Len(c1) /\ b + j - 1 \in 0 .. Len(c2)
    <3>1. a \in Nat /\ b \in Nat /\ j \in Nat
      BY <1>0, <1>3
    <3>. HIDE DEF Bad
    <3>. QED
      BY <1>5, <1>6, <3>1, StepBack
  <2>2. /\ TicksTo(c1, l1, a + j) = TicksTo(c1, l1, a + j - 1) + l1[c1[a + j]]
        /\ TicksTo(c1, l1, a + j - 1) \in Int
    <3>. HIDE DEF Bad
    <3>1. /\ \A i \in 1 .. Len(c1) : TicksTo(c1, l1, i) = TicksTo(c1, l1, i - 1) + l1[c1[i]]
          /\ \A i \in 0 .. Len(c1) : TicksTo(c1, l1, i) \in Int
      BY TicksToFacts
    <3>. QED
      BY <1>0, <1>3, <1>5, <1>6, <2>1, <3>1
  <2>3. /\ TicksTo(c2, l2, b + j) = TicksTo(c2, l2, b + j - 1) + l2[c2[b + j]]
        /\ TicksTo(c2, l2, b + j - 1) \in Int
    <3>. HIDE DEF Bad
    <3>1. /\ \A i \in 1 .. Len(c2) : TicksTo(c2, l2, i) = TicksTo(c2, l2, i - 1) + l2[c2[i]]
          /\ \A i \in 0 .. Len(c2) : TicksTo(c2, l2, i) \in Int
      BY TicksToFacts
    <3>. QED
      BY <1>0, <1>3, <1>5, <1>6, <2>1, <3>1
  <2>. QED
    BY <2>2, <2>3
<1>8. l1[c1[a + j]] = l2[c2[b + j]] /\ l2[c2[b + j]] \in Nat
  BY <1>0, <1>3, <1>6 DEF Timed
<1>9. a + (j - 1) = a + j - 1 /\ b + (j - 1) = b + j - 1
  BY <1>0, <1>3
<1>10. TicksTo(c1, l1, a + j) # TicksTo(c2, l2, b + j) + d
  OBVIOUS
<1>. HIDE DEF Bad
<1>. QED
  BY <1>4, <1>7, <1>8, <1>9, <1>10

\* A node is not called before the nodes it stands behind.
LEMMA SumsGrow ==
  ASSUME NEW chain, NEW left, Timed(chain, left),
         NEW i \in 0 .. Len(chain), NEW k \in i .. Len(chain)
  PROVE  TicksTo(chain, left, i) <= TicksTo(chain, left, k)
<1>. DEFINE Bad == {j \in i .. Len(chain) : ~(TicksTo(chain, left, i) <= TicksTo(chain, left, j))}
<1>0. Len(chain) \in Nat
  BY DEF Timed
<1>1. SUFFICES ASSUME Bad # {} PROVE FALSE
  OBVIOUS
<1>2. PICK j \in Bad : \A n \in Bad : j <= n
  <2>1. Bad \in SUBSET Nat
    BY <1>0
  <2>. HIDE DEF Bad
  <2>. QED
    BY <1>1, <2>1, LeastNat
<1>3. j \in i .. Len(chain) /\ ~(TicksTo(chain, left, i) <= TicksTo(chain, left, j))
  OBVIOUS
<1>4. TicksTo(chain, left, i) \in Int /\ TicksTo(chain, left, j) \in Int
  BY <1>0, <1>3, TicksToFacts
<1>5. j # i
  BY <1>3, <1>4
<1>6. j - 1 \in i .. Len(chain) /\ j \in 1 .. Len(chain)
  BY <1>0, <1>3, <1>5
<1>7. TicksTo(chain, left, i) <= TicksTo(chain, left, j - 1)
  <2>1. j - 1 \notin Bad
    <3>. HIDE DEF Bad
    <3>. QED
      BY <1>2, <1>6
  <2>. QED
    BY <1>6, <2>1
<1>8. /\ TicksTo(chain, left, j) = TicksTo(chain, left, j - 1) + left[chain[j]]
      /\ left[chain[j]] \in Nat /\ TicksTo(chain, left, j - 1) \in Int
  <2>1. j - 1 \in 0 .. Len(chain)
    BY <1>0, <1>6
  <2>2. left[chain[j]] \in Nat
    BY <1>6 DEF Timed
  <2>. QED
    BY <1>6, <2>1, <2>2, TicksToFacts
<1>. HIDE DEF Bad
<1>. QED
  BY <1>3, <1>4, <1>7, <1>8

LEMMA TicksToNat ==
  ASSUME NEW chain, NEW left, Timed(chain, left), NEW i \in 0 .. Len(chain)
  PROVE  TicksTo(chain, left, i) \in Nat
<1>1. 0 \in 0 .. Len(chain) /\ i \in 0 .. Len(chain)
  BY DEF Timed
<1>2. TicksTo(chain, left, 0) <= TicksTo(chain, left, i)
  BY <1>1, SumsGrow
<1>3. TicksTo(chain, left, 0) = 0 /\ TicksTo(chain, left, i) \in Int
  BY <1>1, TicksToFacts
<1>. QED
  BY <1>2, <1>3

-----------------------------------------------------------------------------
\* Insertion.

LEMMA ConcatNodes ==
  ASSUME NEW s \in Seq(Node), NEW t \in Seq(Node)
  PROVE  /\ s \o t \in Seq(Node)
         /\ Len(s \o t) = Len(s) + Len(t)
         /\ \A i \in 1 .. Len(s) + Len(t) :
               (s \o t)[i] = IF i <= Len(s) THEN s[i] ELSE t[i - Len(s)]
BY ConcatProperties

\* Where a node goes: behind all that are due no later.
LEMMA PlaceFacts ==
  ASSUME NEW chain, NEW left, Timed(chain, left), NEW ticks \in Nat
  PROVE  LET p == Place(chain, left, ticks)
         IN  /\ p \in 0 .. Len(chain)
             /\ TicksTo(chain, left, p) <= ticks
             /\ p < Len(chain) => ticks < TicksTo(chain, left, p + 1)
<1>. DEFINE S == {i \in 0 .. Len(chain) : TicksTo(chain, left, i) <= ticks}
            p == Place(chain, left, ticks)
<1>1. Len(chain) \in Nat
  BY DEF Timed
<1>2. 0 \in S
  BY <1>1, TicksToFacts
<1>3. S \in SUBSET Nat /\ \A x \in S : x <= Len(chain)
  BY <1>1
<1>4. p \in S /\ \A x \in S : x <= p
  <2>1. p = Max(S)
    BY DEF Place
  <2>. HIDE DEF S, p
  <2>. QED
    BY <1>1, <1>2, <1>3, <2>1, MaxOfBounded
<1>5. p < Len(chain) => ticks < TicksTo(chain, left, p + 1)
  <2>. SUFFICES ASSUME p < Len(chain), ~(ticks < TicksTo(chain, left, p + 1))
                PROVE  FALSE
    OBVIOUS
  <2>. HIDE DEF p
  <2>1. p \in 0 .. Len(chain)
    BY <1>4
  <2>2. p + 1 \in 0 .. Len(chain)
    BY <1>1, <2>1
  <2>3. TicksTo(chain, left, p + 1) \in Int
    BY <2>2, TicksToFacts
  <2>4. p + 1 \in S
    BY <2>2, <2>3
  <2>. QED
    BY <1>4, <2>1, <2>4
<1>. QED
  BY <1>4, <1>5

\* No node is on the chain twice.
Distinct(chain) == \A i, j \in 1 .. Len(chain) : chain[i] = chain[j] => i = j

\* On this chain m is t ticks away: the one thing that the operations are about.
Away(chain, left, m, t) ==
  \E i \in 1 .. Len(chain) : chain[i] = m /\ TicksTo(chain, left, i) = t

\* The new node is its ticks away, and nothing else moves: what follows it waits for the
\* rest.
LEMMA InsertFacts ==
  ASSUME NEW chain, NEW left \in [Node -> Nat], Timed(chain, left), Distinct(chain),
         NEW n \in Node, \A i \in 1 .. Len(chain) : chain[i] # n,
         NEW ticks \in Nat
  PROVE  LET c2 == ChainAfterInsert(chain, left, n, ticks)
             l2 == LeftAfterInsert(chain, left, n, ticks)
         IN  /\ Timed(c2, l2) /\ Distinct(c2)
             /\ l2 \in [Node -> Nat]
             /\ \A m \in Node : l2[m] <= IF m = n THEN ticks ELSE left[m]
             /\ \A m, t : Away(c2, l2, m, t) <=> Away(chain, left, m, t) \/ (m = n /\ t = ticks)
<1>. DEFINE N == Len(chain)
            p == Place(chain, left, ticks)
            T(i) == TicksTo(chain, left, i)
            rest == ticks - T(p)
            c2 == ChainAfterInsert(chain, left, n, ticks)
            l2 == LeftAfterInsert(chain, left, n, ticks)
            T2(i) == TicksTo(c2, l2, i)
<1>1. N \in Nat /\ chain \in Seq(Node) /\ \A i \in 1 .. N : chain[i] \in Node
  BY DEF Timed
<1>2. p \in 0 .. N /\ T(p) <= ticks /\ (p < N => ticks < T(p + 1)) /\ T(p) \in Nat
  BY PlaceFacts, TicksToNat
<1>3. rest \in Nat /\ rest <= ticks
  BY <1>2
<1>4. p < N => T(p + 1) = T(p) + left[chain[p + 1]] /\ rest < left[chain[p + 1]]
  <2>. SUFFICES ASSUME p < N
                PROVE  T(p + 1) = T(p) + left[chain[p + 1]] /\ rest < left[chain[p + 1]]
    OBVIOUS
  <2>1. p + 1 \in 1 .. N /\ (p + 1) - 1 = p
    BY <1>1, <1>2
  <2>2. T(p + 1) = T(p) + left[chain[p + 1]]
    <3>. HIDE DEF p
    <3>. QED
      BY <2>1, TicksToFacts
  <2>3. left[chain[p + 1]] \in Nat
    BY <1>1, <2>1
  <2>. QED
    BY <1>2, <2>2, <2>3
<1>5. l2 = [m \in Node |-> IF m = n THEN rest
                           ELSE IF p < N /\ m = chain[p + 1] THEN left[m] - rest
                           ELSE left[m]]
  BY DEF LeftAfterInsert
<1>6. /\ c2 \in Seq(Node) /\ Len(c2) = N + 1
      /\ \A i \in 1 .. p : c2[i] = chain[i]
      /\ c2[p + 1] = n
      /\ \A i \in p + 2 .. N + 1 : c2[i] = chain[i - 1]
  <2>1. c2 = SubSeq(chain, 1, p) \o <<n>> \o SubSeq(chain, p + 1, N)
    <3>1. c2 = SubSeq(chain, 1, (p + 1) - 1) \o <<n>> \o SubSeq(chain, p + 1, Len(chain))
      BY DEF ChainAfterInsert, InsertAt
    <3>2. (p + 1) - 1 = p
      BY <1>2
    <3>. QED
      BY <3>1, <3>2
  <2>. DEFINE before == SubSeq(chain, 1, p)
              after == SubSeq(chain, p + 1, N)
  <2>. HIDE DEF p
  <2>2. /\ before \in Seq(Node) /\ Len(before) = p /\ \A i \in 1 .. p : before[i] = chain[i]
    BY <1>1, <1>2
  <2>3. /\ after \in Seq(Node) /\ Len(after) = N - p
        /\ \A i \in 1 .. N - p : after[i] = chain[p + i]
    BY <1>1, <1>2
  <2>. HIDE DEF before, after, c2, N
  <2>4. /\ c2 \in Seq(Node) /\ Len(c2) = N + 1
        /\ \A i \in 1 .. p : c2[i] = before[i]
        /\ c2[p + 1] = n
        /\ \A i \in p + 2 .. N + 1 : c2[i] = after[i - (p + 1)]
    <3>. DEFINE upto == before \o <<n>>
    <3>1. /\ upto \in Seq(Node) /\ Len(upto) = p + 1
          /\ \A i \in 1 .. p + 1 : upto[i] = IF i <= p THEN before[i] ELSE n
      <4>1. <<n>> \in Seq(Node) /\ Len(<<n>>) = 1 /\ <<n>>[1] = n
        OBVIOUS
      <4>2. \A i \in 1 .. p + 1 : ~(i <= p) => i - p = 1
        BY <1>2
      <4>. QED
        BY <2>2, <4>1, <4>2, ConcatNodes
    <3>2. c2 = upto \o after
      BY <2>1 DEF before, after
    <3>. HIDE DEF upto
    <3>3. (p + 1) + (N - p) = N + 1
      BY <1>1, <1>2
    <3>4. /\ upto \o after \in Seq(Node) /\ Len(upto \o after) = Len(upto) + Len(after)
          /\ \A i \in 1 .. Len(upto) + Len(after) :
                (upto \o after)[i] = IF i <= Len(upto) THEN upto[i] ELSE after[i - Len(upto)]
      BY <2>3, <3>1, ConcatNodes
    <3>5. Len(upto) + Len(after) = N + 1
      BY <2>3, <3>1, <3>3
    <3>6. /\ c2 \in Seq(Node) /\ Len(c2) = N + 1
          /\ \A i \in 1 .. N + 1 : c2[i] = IF i <= p + 1 THEN upto[i] ELSE after[i - (p + 1)]
      BY <3>1, <3>2, <3>4, <3>5
    <3>7. ASSUME NEW i \in 1 .. p
          PROVE  c2[i] = before[i]
      <4>1. i \in 1 .. N + 1 /\ i \in 1 .. p + 1 /\ i <= p + 1 /\ i <= p
        BY <1>1, <1>2
      <4>. QED
        BY <3>1, <3>6, <4>1
    <3>8. c2[p + 1] = n
      <4>1. p + 1 \in 1 .. N + 1 /\ p + 1 \in 1 .. p + 1 /\ p + 1 <= p + 1 /\ ~(p + 1 <= p)
        BY <1>1, <1>2
      <4>. QED
        BY <3>1, <3>6, <4>1
    <3>9. ASSUME NEW i \in p + 2 .. N + 1
          PROVE  c2[i] = after[i - (p + 1)]
      <4>1. i \in 1 .. N + 1 /\ ~(i <= p + 1)
        BY <1>1, <1>2
      <4>. QED
        BY <3>6, <4>1
    <3>. QED
      BY <3>6, <3>7, <3>8, <3>9
  <2>5. ASSUME NEW i \in p + 2 .. N + 1 PROVE c2[i] = chain[i - 1]
    <3>1. i - (p + 1) \in 1 .. N - p /\ p + (i - (p + 1)) = i - 1
      BY <1>1, <1>2
    <3>. QED
      BY <2>3, <2>4, <3>1
  <2>. QED
    BY <2>2, <2>4, <2>5
<1>. HIDE DEF p, c2, l2, rest, N
<1>7. /\ l2 \in [Node -> Nat] /\ l2[n] = rest
      /\ \A m \in Node : l2[m] <= IF m = n THEN ticks ELSE left[m]
      /\ \A m \in Node : m # n /\ (p < N => m # chain[p + 1]) => l2[m] = left[m]
      /\ p < N => l2[chain[p + 1]] = left[chain[p + 1]] - rest
  <2>1. ASSUME NEW m \in Node
        PROVE  /\ l2[m] \in Nat
               /\ l2[m] <= IF m = n THEN ticks ELSE left[m]
               /\ m # n /\ (p < N => m # chain[p + 1]) => l2[m] = left[m]
    BY <1>3, <1>4, <1>5
  <2>2. l2[n] = rest
    BY <1>5
  <2>3. p < N => l2[chain[p + 1]] = left[chain[p + 1]] - rest
    <3>. SUFFICES ASSUME p < N PROVE l2[chain[p + 1]] = left[chain[p + 1]] - rest
      OBVIOUS
    <3>1. p + 1 \in 1 .. N
      BY <1>1, <1>2
    <3>2. chain[p + 1] \in Node /\ chain[p + 1] # n
      BY <1>1, <3>1 DEF N
    <3>. QED
      BY <1>5, <3>2
  <2>. QED
    BY <1>5, <2>1, <2>2, <2>3
<1>8. Timed(c2, l2)
  <2>1. Len(c2) \in Nat /\ \A i \in 1 .. Len(c2) : c2[i] \in Node
    BY <1>6
  <2>. QED
    BY <1>6, <1>7, <2>1 DEF Timed
<1>9. Distinct(c2)
  <2>1. ASSUME NEW i \in 1 .. N + 1, i # p + 1
        PROVE  \E k \in 1 .. N : c2[i] = chain[k] /\ k = (IF i <= p THEN i ELSE i - 1)
    <3>1. CASE i <= p
      BY <1>1, <1>2, <1>6, <3>1
    <3>2. CASE ~(i <= p)
      <4>1. i \in p + 2 .. N + 1 /\ i - 1 \in 1 .. N
        BY <1>1, <1>2, <2>1, <3>2
      <4>. QED
        BY <1>6, <3>2, <4>1
    <3>. QED
      BY <3>1, <3>2
  <2>2. ASSUME NEW i \in 1 .. N + 1, NEW j \in 1 .. N + 1, c2[i] = c2[j]
        PROVE  i = j
    <3>1. CASE i = p + 1 \/ j = p + 1
      BY <1>6, <2>1, <2>2, <3>1 DEF N
    <3>2. CASE i # p + 1 /\ j # p + 1
      <4>1. (IF i <= p THEN i ELSE i - 1) = (IF j <= p THEN j ELSE j - 1)
        BY <2>1, <2>2, <3>2 DEF N, Distinct
      <4>. QED
        BY <1>1, <1>2, <3>2, <4>1
    <3>. QED
      BY <3>1, <3>2
  <2>. QED
    BY <1>6, <2>2 DEF Distinct
<1>. HIDE DEF T2, T
<1>10. \A i \in 0 .. p : T2(i) = T(i)
  <2>1. \A j \in 1 .. p : l2[c2[0 + j]] = left[chain[0 + j]]
    <3>. SUFFICES ASSUME NEW j \in 1 .. p PROVE l2[c2[j]] = left[chain[j]]
      BY <1>2
    <3>1. j \in 1 .. N /\ (p < N => p + 1 \in 1 .. N /\ p + 1 # j)
      BY <1>1, <1>2
    <3>2. chain[j] \in Node /\ chain[j] # n /\ (p < N => chain[j] # chain[p + 1])
      BY <1>1, <3>1 DEF N, Distinct
    <3>. QED
      BY <1>6, <1>7, <3>2
  <2>2. SameTicks(c2, l2, 0, chain, left, 0, p)
    BY <1>1, <1>2, <1>6, <2>1 DEF N, SameTicks
  <2>3. TicksTo(c2, l2, 0) = TicksTo(chain, left, 0) + 0
    BY <1>8, TicksToFacts
  <2>4. \A j \in 0 .. p : TicksTo(c2, l2, 0 + j) = TicksTo(chain, left, 0 + j) + 0
    BY <1>8, <2>2, <2>3, SumsAgree
  <2>5. ASSUME NEW j \in 0 .. p
        PROVE  TicksTo(c2, l2, j) = TicksTo(chain, left, j)
    <3>1. 0 + j = j /\ j \in 0 .. Len(chain)
      BY <1>1, <1>2 DEF N
    <3>2. TicksTo(chain, left, j) \in Int
      BY <3>1, TicksToFacts
    <3>. QED
      BY <2>4, <3>1, <3>2
  <2>. QED
    BY <2>5 DEF T, T2
<1>11. T2(p + 1) = ticks
  <2>1. p + 1 \in 1 .. Len(c2) /\ (p + 1) - 1 = p
    BY <1>1, <1>2, <1>6
  <2>2. T2(p + 1) = T2(p) + l2[c2[p + 1]]
    BY <1>8, <2>1, TicksToFacts DEF T2
  <2>3. T2(p) = T(p) /\ T(p) \in Nat
    BY <1>2, <1>10
  <2>4. T2(p + 1) = T(p) + rest
    BY <1>6, <1>7, <2>2, <2>3
  <2>. QED
    BY <1>2, <2>3, <2>4 DEF rest
<1>12. p < N => T2(p + 2) = T(p + 1)
  <2>. SUFFICES ASSUME p < N PROVE T2(p + 2) = T(p + 1)
    OBVIOUS
  <2>1. p + 2 \in 1 .. Len(c2) /\ (p + 2) - 1 = p + 1 /\ p + 2 \in p + 2 .. N + 1
    <3>1. Len(c2) = N + 1
      BY <1>6
    <3>2. p \in Nat /\ N \in Nat /\ p < N
      BY <1>1, <1>2
    <3>. QED
      BY <3>1, <3>2
  <2>2. T2(p + 2) = T2(p + 1) + l2[c2[p + 2]]
    BY <1>8, <2>1, TicksToFacts DEF T2
  <2>3. c2[p + 2] = chain[p + 1]
    BY <1>6, <2>1
  <2>4. left[chain[p + 1]] \in Nat /\ T(p) \in Nat
    <3>1. p + 1 \in 1 .. N
      BY <1>1, <1>2
    <3>. QED
      BY <1>1, <1>2, <3>1
  <2>. QED
    BY <1>4, <1>7, <1>11, <2>2, <2>3, <2>4 DEF rest
<1>13. \A i \in p + 1 .. N : T2(i + 1) = T(i)
  <2>. SUFFICES ASSUME p < N, NEW i \in p + 1 .. N PROVE T2(i + 1) = T(i)
    BY <1>1, <1>2
  <2>. DEFINE m == N - (p + 1)
  <2>1. \A j \in 1 .. m : l2[c2[(p + 2) + j]] = left[chain[(p + 1) + j]]
    <3>. SUFFICES ASSUME NEW j \in 1 .. m PROVE l2[c2[(p + 2) + j]] = left[chain[(p + 1) + j]]
      OBVIOUS
    <3>1. /\ (p + 2) + j \in p + 2 .. N + 1 /\ ((p + 2) + j) - 1 = (p + 1) + j
          /\ (p + 1) + j \in 1 .. N /\ p + 1 \in 1 .. N /\ (p + 1) + j # p + 1
      BY <1>1, <1>2
    <3>. HIDE DEF m
    <3>2. /\ chain[(p + 1) + j] \in Node /\ chain[(p + 1) + j] # n
          /\ chain[(p + 1) + j] # chain[p + 1]
      BY <1>1, <3>1 DEF N, Distinct
    <3>3. c2[(p + 2) + j] = chain[(p + 1) + j]
      <4>1. c2[(p + 2) + j] = chain[((p + 2) + j) - 1]
        BY <1>6, <3>1
      <4>. QED
        BY <3>1, <4>1
    <3>4. l2[chain[(p + 1) + j]] = left[chain[(p + 1) + j]]
      BY <1>7, <3>2
    <3>. QED
      BY <3>3, <3>4
  <2>2. SameTicks(c2, l2, p + 2, chain, left, p + 1, m)
    <3>1. /\ p + 2 \in Nat /\ p + 1 \in Nat /\ m \in Nat
          /\ (p + 2) + m <= Len(c2) /\ (p + 1) + m <= Len(chain)
      <4>1. Len(c2) = N + 1 /\ Len(chain) = N
        BY <1>6 DEF N
      <4>2. p \in Nat /\ N \in Nat /\ p < N
        BY <1>1, <1>2
      <4>. QED
        BY <4>1, <4>2
    <3>. HIDE DEF m
    <3>. QED
      BY <2>1, <3>1 DEF SameTicks
  <2>3. p + 1 \in 0 .. Len(chain)
    BY <1>1, <1>2 DEF N
  <2>4. TicksTo(c2, l2, p + 2) = TicksTo(chain, left, p + 1) + 0
    <3>1. TicksTo(chain, left, p + 1) \in Int
      BY <2>3, TicksToFacts
    <3>. QED
      BY <1>12, <3>1 DEF T, T2
  <2>. HIDE DEF m
  <2>5. \A j \in 0 .. m : TicksTo(c2, l2, (p + 2) + j) = TicksTo(chain, left, (p + 1) + j) + 0
    BY <1>8, <2>2, <2>4, SumsAgree
  <2>6. /\ i - (p + 1) \in 0 .. m
        /\ (p + 2) + (i - (p + 1)) = i + 1 /\ (p + 1) + (i - (p + 1)) = i
        /\ i \in 0 .. Len(chain)
    BY <1>1, <1>2 DEF m, N
  <2>7. TicksTo(chain, left, i) \in Int
    BY <2>6, TicksToFacts
  <2>. QED
    BY <2>5, <2>6, <2>7 DEF T, T2
<1>14. ASSUME NEW x, NEW t
       PROVE  Away(c2, l2, x, t) <=> Away(chain, left, x, t) \/ (x = n /\ t = ticks)
  <2>1. ASSUME Away(c2, l2, x, t)
        PROVE  Away(chain, left, x, t) \/ (x = n /\ t = ticks)
    <3>1. PICK i \in 1 .. N + 1 : c2[i] = x /\ T2(i) = t
      BY <1>6, <2>1 DEF Away, T2
    <3>2. CASE i <= p
      <4>1. i \in 1 .. N /\ i \in 1 .. p /\ i \in 0 .. p
        BY <1>1, <1>2, <3>2
      <4>. QED
        BY <1>6, <1>10, <3>1, <4>1 DEF Away, T, N
    <3>3. CASE i = p + 1
      BY <1>6, <1>11, <3>1, <3>3
    <3>4. CASE i > p + 1
      <4>1. i - 1 \in 1 .. N /\ i \in p + 2 .. N + 1 /\ i - 1 \in p + 1 .. N /\ (i - 1) + 1 = i
        BY <1>1, <1>2, <3>4
      <4>2. c2[i] = chain[i - 1]
        BY <1>6, <4>1
      <4>3. T2((i - 1) + 1) = T(i - 1)
        BY <1>13, <4>1
      <4>. QED
        BY <3>1, <4>1, <4>2, <4>3 DEF Away, T, N
    <3>. QED
      BY <1>1, <1>2, <3>2, <3>3, <3>4
  <2>2. ASSUME Away(chain, left, x, t)
        PROVE  Away(c2, l2, x, t)
    <3>1. PICK i \in 1 .. N : chain[i] = x /\ T(i) = t
      BY <2>2 DEF Away, T, N
    <3>2. CASE i <= p
      <4>1. i \in 1 .. p /\ i \in 0 .. p /\ i \in 1 .. Len(c2)
        BY <1>1, <1>2, <1>6, <3>2
      <4>. QED
        BY <1>6, <1>10, <3>1, <4>1 DEF Away, T2
    <3>3. CASE ~(i <= p)
      <4>1. i \in p + 1 .. N /\ i + 1 \in p + 2 .. N + 1 /\ i + 1 \in 1 .. Len(c2) /\ (i + 1) - 1 = i
        BY <1>1, <1>2, <1>6, <3>3
      <4>2. c2[i + 1] = chain[i]
        BY <1>6, <4>1
      <4>. QED
        BY <1>13, <3>1, <4>1, <4>2 DEF Away, T2
    <3>. QED
      BY <3>2, <3>3
  <2>3. ASSUME x = n, t = ticks
        PROVE  Away(c2, l2, x, t)
    <3>1. p + 1 \in 1 .. Len(c2)
      BY <1>1, <1>2, <1>6
    <3>. QED
      BY <1>6, <1>11, <2>3, <3>1 DEF Away, T2
  <2>. QED
    BY <2>1, <2>2, <2>3
<1>. QED
  BY <1>7, <1>8, <1>9, <1>14 DEF c2, l2
-----------------------------------------------------------------------------
\* How far away the nodes of a chain are.

LEMMA AwayIsNat ==
  ASSUME NEW chain, NEW left, Timed(chain, left), NEW m, NEW t, Away(chain, left, m, t)
  PROVE  t \in Nat /\ m \in Node /\ m \in ToSet(chain)
<1>1. PICK i \in 1 .. Len(chain) : chain[i] = m /\ TicksTo(chain, left, i) = t
  BY DEF Away
<1>2. i \in 0 .. Len(chain) /\ chain \in Seq(Node)
  BY DEF Timed
<1>3. TicksTo(chain, left, i) \in Nat
  BY <1>2, TicksToNat
<1>. QED
  BY <1>1, <1>2, <1>3 DEF ToSet

LEMMA LinkedIsAway ==
  ASSUME NEW chain, NEW left, Timed(chain, left), NEW m \in ToSet(chain)
  PROVE  \E t \in Nat : Away(chain, left, m, t)
<1>1. PICK i \in 1 .. Len(chain) : chain[i] = m
  BY DEF ToSet, Timed
<1>2. i \in 0 .. Len(chain)
  BY DEF Timed
<1>3. TicksTo(chain, left, i) \in Nat
  BY <1>2, TicksToNat
<1>. QED
  BY <1>1, <1>3 DEF Away

\* A node's own ticks are among those it is away.
LEMMA LeftIsWithin ==
  ASSUME NEW chain, NEW left, Timed(chain, left), NEW m, NEW t, Away(chain, left, m, t),
         Distinct(chain)
  PROVE  left[m] \in Nat /\ left[m] <= t
<1>1. PICK i \in 1 .. Len(chain) : chain[i] = m /\ TicksTo(chain, left, i) = t
  BY DEF Away
<1>2. left[chain[i]] \in Nat /\ i - 1 \in 0 .. Len(chain)
  BY DEF Timed
<1>3. TicksTo(chain, left, i - 1) \in Nat
  BY <1>2, TicksToNat
<1>4. TicksTo(chain, left, i) = TicksTo(chain, left, i - 1) + left[chain[i]]
  BY TicksToFacts
<1>. QED
  BY <1>1, <1>2, <1>3, <1>4

\* The head is called first.
LEMMA HeadFacts ==
  ASSUME NEW chain, NEW left, Timed(chain, left), chain # <<>>
  PROVE  /\ Len(chain) \in Nat /\ 1 \in 1 .. Len(chain)
         /\ Head(chain) = chain[1] /\ Head(chain) \in Node
         /\ left[Head(chain)] \in Nat
         /\ TicksTo(chain, left, 1) = left[Head(chain)]
         /\ Away(chain, left, Head(chain), left[Head(chain)])
         /\ \A m, t : Away(chain, left, m, t) => left[Head(chain)] <= t
<1>1. /\ Len(chain) \in Nat /\ 1 \in 1 .. Len(chain) /\ chain \in Seq(Node)
      /\ Head(chain) = chain[1] /\ Head(chain) \in Node /\ left[chain[1]] \in Nat
  BY DEF Timed
<1>2. TicksTo(chain, left, 1) = left[chain[1]]
  <2>1. 1 - 1 = 0
    OBVIOUS
  <2>2. TicksTo(chain, left, 1) = TicksTo(chain, left, 1 - 1) + left[chain[1]]
    BY <1>1, TicksToFacts
  <2>3. TicksTo(chain, left, 0) = 0
    BY TicksToFacts
  <2>. QED
    BY <1>1, <2>1, <2>2, <2>3
<1>3. Away(chain, left, Head(chain), left[Head(chain)])
  BY <1>1, <1>2 DEF Away
<1>4. ASSUME NEW m, NEW t, Away(chain, left, m, t)
      PROVE  left[Head(chain)] <= t
  <2>1. PICK i \in 1 .. Len(chain) : chain[i] = m /\ TicksTo(chain, left, i) = t
    BY <1>4 DEF Away
  <2>2. 1 \in 0 .. Len(chain) /\ i \in 1 .. Len(chain)
    BY <1>1
  <2>3. TicksTo(chain, left, 1) <= TicksTo(chain, left, i)
    BY <2>2, SumsGrow
  <2>. QED
    BY <1>1, <1>2, <2>1, <2>3
<1>. QED
  BY <1>1, <1>2, <1>3, <1>4

\* One more node at the end is its own ticks further away than the last.
LEMMA AppendFacts ==
  ASSUME NEW chain, NEW left, Timed(chain, left), NEW n \in Node, left[n] \in Nat,
         NEW t \in Int, t = TicksTo(chain, left, Len(chain)) + left[n]
  PROVE  LET c2 == Append(chain, n)
         IN  /\ Timed(c2, left)
             /\ Len(c2) = Len(chain) + 1
             /\ TicksTo(c2, left, Len(c2)) = t
             /\ \A m, u : Away(c2, left, m, u) <=> Away(chain, left, m, u) \/ (m = n /\ u = t)
<1>. DEFINE N == Len(chain)
            c2 == Append(chain, n)
<1>1. /\ N \in Nat /\ c2 \in Seq(Node) /\ Len(c2) = N + 1
      /\ \A i \in 1 .. N : c2[i] = chain[i]
      /\ c2[N + 1] = n
  BY DEF Timed
<1>. HIDE DEF c2
<1>2. Timed(c2, left)
  <2>1. ASSUME NEW j \in 1 .. N + 1 PROVE left[c2[j]] \in Nat
    <3>1. CASE j = N + 1
      BY <1>1, <3>1
    <3>2. CASE j # N + 1
      <4>1. j \in 1 .. N
        BY <1>1, <3>2
      <4>. QED
        BY <1>1, <4>1 DEF Timed
    <3>. QED
      BY <3>1, <3>2
  <2>. QED
    BY <1>1, <2>1 DEF Timed
<1>3. \A i \in 0 .. N : TicksTo(c2, left, i) = TicksTo(chain, left, i)
  <2>1. \A j \in 1 .. N : left[c2[0 + j]] = left[chain[0 + j]]
    BY <1>1
  <2>2. SameTicks(c2, left, 0, chain, left, 0, N)
    BY <1>1, <2>1 DEF SameTicks
  <2>3. TicksTo(c2, left, 0) = TicksTo(chain, left, 0) + 0
    BY <1>2, TicksToFacts
  <2>4. \A j \in 0 .. N : TicksTo(c2, left, 0 + j) = TicksTo(chain, left, 0 + j) + 0
    BY <1>2, <2>2, <2>3, SumsAgree
  <2>5. ASSUME NEW i \in 0 .. N
        PROVE  TicksTo(c2, left, i) = TicksTo(chain, left, i)
    <3>1. 0 + i = i /\ i \in 0 .. Len(chain)
      BY <1>1
    <3>2. TicksTo(chain, left, i) \in Int
      BY <3>1, TicksToFacts
    <3>. QED
      BY <2>4, <3>1, <3>2
  <2>. QED
    BY <2>5
<1>4. TicksTo(c2, left, N + 1) = t
  <2>1. N + 1 \in 1 .. Len(c2) /\ (N + 1) - 1 = N /\ N \in 0 .. N
    BY <1>1
  <2>2. TicksTo(c2, left, N + 1) = TicksTo(c2, left, N) + left[c2[N + 1]]
    BY <1>2, <2>1, TicksToFacts
  <2>. QED
    BY <1>1, <1>3, <2>1, <2>2
<1>5. ASSUME NEW m, NEW u
      PROVE  Away(c2, left, m, u) <=> Away(chain, left, m, u) \/ (m = n /\ u = t)
  <2>1. ASSUME NEW i \in 1 .. N + 1
        PROVE  (i \in 1 .. N /\ i \in 0 .. N) \/ i = N + 1
    BY <1>1
  <2>2. Away(c2, left, m, u) => Away(chain, left, m, u) \/ (m = n /\ u = t)
    BY <1>1, <1>3, <1>4, <2>1 DEF Away
  <2>3. \A i \in 1 .. N : i \in 1 .. N + 1 /\ i \in 0 .. N
    BY <1>1
  <2>4. Away(chain, left, m, u) => Away(c2, left, m, u)
    BY <1>1, <1>3, <2>3 DEF Away
  <2>5. Away(c2, left, n, t)
    <3>1. N + 1 \in 1 .. N + 1
      BY <1>1
    <3>. QED
      BY <1>1, <1>4, <3>1 DEF Away
  <2>. QED
    BY <2>2, <2>4, <2>5
<1>. QED
  BY <1>1, <1>2, <1>4, <1>5 DEF c2

\* Without its head, which took its ticks with it, everything is that much nearer.
LEMMA TailFacts ==
  ASSUME NEW chain, NEW left, Timed(chain, left), Distinct(chain), chain # <<>>,
         NEW l2, \A m \in Node : m # Head(chain) => l2[m] = left[m]
  PROVE  /\ Timed(Tail(chain), l2) /\ Distinct(Tail(chain))
         /\ \A m, t : Away(Tail(chain), l2, m, t) =>
              m # Head(chain) /\ Away(chain, left, m, t + left[Head(chain)])
         /\ \A m, t : m # Head(chain) /\ Away(chain, left, m, t) =>
              Away(Tail(chain), l2, m, t - left[Head(chain)])
<1>. DEFINE N == Len(chain)
            h == left[Head(chain)]
            c2 == Tail(chain)
<1>1. /\ N \in Nat /\ 1 \in 1 .. N /\ Head(chain) = chain[1] /\ h \in Nat
      /\ TicksTo(chain, left, 1) = h
  BY HeadFacts
<1>2. /\ c2 \in Seq(Node) /\ Len(c2) = N - 1
      /\ \A i \in 1 .. N - 1 : c2[i] = chain[i + 1]
  BY DEF Timed
<1>. HIDE DEF c2
<1>3. ASSUME NEW i \in 1 .. N - 1
      PROVE  i + 1 \in 1 .. N /\ chain[i + 1] # Head(chain) /\ l2[c2[i]] = left[chain[i + 1]]
  <2>1. i + 1 \in 1 .. N /\ i + 1 # 1
    BY <1>1
  <2>2. chain[i + 1] # Head(chain) /\ chain[i + 1] \in Node
    BY <1>1, <2>1 DEF Distinct, Timed
  <2>. QED
    BY <1>2, <2>1, <2>2
<1>4. Timed(c2, l2)
  <2>1. \A i \in 1 .. N - 1 : l2[c2[i]] \in Nat
    BY <1>3 DEF Timed
  <2>. QED
    BY <1>2, <2>1 DEF Timed
<1>5. Distinct(c2)
  <2>1. ASSUME NEW i \in 1 .. N - 1, NEW j \in 1 .. N - 1, c2[i] = c2[j]
        PROVE  i = j
    <3>1. i + 1 = j + 1
      BY <1>2, <1>3, <2>1 DEF Distinct
    <3>. QED
      BY <3>1
  <2>. QED
    BY <1>2, <2>1 DEF Distinct
<1>6. \A i \in 0 .. N - 1 : TicksTo(c2, l2, i) = TicksTo(chain, left, i + 1) - h
  <2>1. \A j \in 1 .. N - 1 : l2[c2[0 + j]] = left[chain[1 + j]]
    <3>. SUFFICES ASSUME NEW j \in 1 .. N - 1 PROVE l2[c2[j]] = left[chain[1 + j]]
      OBVIOUS
    <3>1. 1 + j = j + 1
      OBVIOUS
    <3>. QED
      BY <1>3, <3>1
  <2>2. SameTicks(c2, l2, 0, chain, left, 1, N - 1)
    <3>1. N - 1 \in Nat /\ 0 + (N - 1) <= Len(c2) /\ 1 + (N - 1) <= Len(chain)
      BY <1>1, <1>2
    <3>. HIDE DEF N
    <3>. QED
      BY <2>1, <3>1 DEF SameTicks
  <2>3. TicksTo(c2, l2, 0) = TicksTo(chain, left, 1) + (-h) /\ -h \in Int
    <3>1. TicksTo(c2, l2, 0) = 0
      BY <1>4, TicksToFacts
    <3>. QED
      BY <1>1, <3>1
  <2>4. \A j \in 0 .. N - 1 : TicksTo(c2, l2, 0 + j) = TicksTo(chain, left, 1 + j) + (-h)
    <3>. HIDE DEF N, h
    <3>. QED
      BY <1>4, <2>2, <2>3, SumsAgree
  <2>5. ASSUME NEW i \in 0 .. N - 1
        PROVE  TicksTo(c2, l2, i) = TicksTo(chain, left, i + 1) - h
    <3>1. 0 + i = i /\ 1 + i = i + 1 /\ i + 1 \in 0 .. Len(chain)
      BY <1>1
    <3>2. TicksTo(chain, left, i + 1) \in Int
      BY <3>1, TicksToFacts
    <3>. HIDE DEF N, h
    <3>. QED
      BY <1>1, <2>4, <3>1, <3>2
  <2>. QED
    BY <2>5
<1>. HIDE DEF N, h
<1>7. ASSUME NEW m, NEW t, Away(c2, l2, m, t)
      PROVE  m # Head(chain) /\ Away(chain, left, m, t + h)
  <2>1. PICK i \in 1 .. N - 1 : c2[i] = m /\ TicksTo(c2, l2, i) = t
    BY <1>2, <1>7 DEF Away
  <2>2. i + 1 \in 1 .. N /\ i \in 0 .. N - 1 /\ i + 1 \in 0 .. N
    BY <1>1
  <2>3. TicksTo(chain, left, i + 1) \in Int
    BY <2>2, TicksToFacts DEF N
  <2>4. TicksTo(chain, left, i + 1) = t + h
    <3>1. TicksTo(c2, l2, i) = TicksTo(chain, left, i + 1) - h
      BY <1>6, <2>2
    <3>. QED
      BY <1>1, <2>1, <2>3, <3>1
  <2>. QED
    BY <1>2, <1>3, <2>1, <2>2, <2>4 DEF Away, N
<1>8. ASSUME NEW m, NEW t, m # Head(chain), Away(chain, left, m, t)
      PROVE  Away(c2, l2, m, t - h)
  <2>1. PICK i \in 1 .. N : chain[i] = m /\ TicksTo(chain, left, i) = t
    BY <1>8 DEF Away, N
  <2>2. i # 1
    BY <1>1, <1>8, <2>1
  <2>3. i - 1 \in 1 .. N - 1 /\ i - 1 \in 0 .. N - 1 /\ (i - 1) + 1 = i
    BY <1>1, <2>2
  <2>4. TicksTo(c2, l2, i - 1) = t - h
    BY <1>6, <2>1, <2>3
  <2>. QED
    BY <1>2, <2>1, <2>3, <2>4 DEF Away
<1>. QED
  BY <1>4, <1>5, <1>7, <1>8 DEF c2, h

\* With a tick less at the head everything is a tick nearer.
LEMMA TickFacts ==
  ASSUME NEW chain, NEW left \in [Node -> Nat], Timed(chain, left), Distinct(chain),
         chain # <<>>, left[Head(chain)] >= 1
  PROVE  LET l2 == [left EXCEPT ![Head(chain)] = left[Head(chain)] - 1]
         IN  /\ Timed(chain, l2) /\ l2 \in [Node -> Nat]
             /\ \A m, t : Away(chain, l2, m, t) => Away(chain, left, m, t + 1)
             /\ \A m, t : Away(chain, left, m, t) => Away(chain, l2, m, t - 1)
<1>. DEFINE N == Len(chain)
            l2 == [left EXCEPT ![Head(chain)] = left[Head(chain)] - 1]
<1>1. /\ N \in Nat /\ 1 \in 1 .. N /\ Head(chain) = chain[1] /\ Head(chain) \in Node
      /\ TicksTo(chain, left, 1) = left[chain[1]]
  BY HeadFacts
<1>2. l2 \in [Node -> Nat] /\ l2[chain[1]] = left[chain[1]] - 1 /\ l2[chain[1]] \in Nat
  BY <1>1
<1>3. Timed(chain, l2)
  <2>1. \A i \in 1 .. N : chain[i] \in Node
    BY DEF Timed
  <2>. HIDE DEF l2
  <2>. QED
    BY <1>2, <2>1 DEF Timed
<1>4. \A i \in 2 .. N : l2[chain[i]] = left[chain[i]]
  <2>. SUFFICES ASSUME NEW i \in 2 .. N PROVE l2[chain[i]] = left[chain[i]]
    OBVIOUS
  <2>1. i \in 1 .. N /\ i # 1 /\ chain[i] \in Node
    BY <1>1 DEF Timed
  <2>2. chain[i] # chain[1]
    BY <1>1, <2>1 DEF Distinct
  <2>. QED
    BY <1>1, <2>1, <2>2
<1>. HIDE DEF l2
<1>5. \A i \in 1 .. N : TicksTo(chain, l2, i) = TicksTo(chain, left, i) - 1
  <2>1. \A j \in 1 .. N - 1 : l2[chain[1 + j]] = left[chain[1 + j]]
    <3>. SUFFICES ASSUME NEW j \in 1 .. N - 1 PROVE l2[chain[1 + j]] = left[chain[1 + j]]
      OBVIOUS
    <3>1. 1 + j \in 2 .. N
      BY <1>1
    <3>. QED
      BY <1>4, <3>1
  <2>2. SameTicks(chain, l2, 1, chain, left, 1, N - 1)
    <3>1. N - 1 \in Nat /\ 1 + (N - 1) <= Len(chain)
      BY <1>1
    <3>. HIDE DEF N
    <3>. QED
      BY <2>1, <3>1 DEF SameTicks
  <2>3. TicksTo(chain, l2, 1) = TicksTo(chain, left, 1) + (-1)
    <3>1. TicksTo(chain, l2, 1) = l2[Head(chain)]
      BY <1>3, HeadFacts
    <3>2. left[chain[1]] \in Nat
      BY <1>1
    <3>. QED
      BY <1>1, <1>2, <3>1, <3>2
  <2>4. \A j \in 0 .. N - 1 : TicksTo(chain, l2, 1 + j) = TicksTo(chain, left, 1 + j) + (-1)
    <3>. HIDE DEF N
    <3>. QED
      BY <1>3, <2>2, <2>3, SumsAgree
  <2>5. ASSUME NEW i \in 1 .. N
        PROVE  TicksTo(chain, l2, i) = TicksTo(chain, left, i) - 1
    <3>1. i - 1 \in 0 .. N - 1 /\ 1 + (i - 1) = i /\ i \in 0 .. Len(chain)
      BY <1>1
    <3>2. TicksTo(chain, left, i) \in Int
      BY <3>1, TicksToFacts
    <3>. HIDE DEF N
    <3>. QED
      BY <2>4, <3>1, <3>2
  <2>. QED
    BY <2>5
<1>6. ASSUME NEW m, NEW t, Away(chain, l2, m, t)
      PROVE  Away(chain, left, m, t + 1)
  <2>1. PICK i \in 1 .. N : chain[i] = m /\ TicksTo(chain, l2, i) = t
    BY <1>6 DEF Away
  <2>2. TicksTo(chain, left, i) \in Int
    <3>1. i \in 0 .. Len(chain)
      BY <1>1
    <3>. QED
      BY <3>1, TicksToFacts
  <2>3. TicksTo(chain, left, i) = t + 1
    BY <1>5, <2>1, <2>2
  <2>. QED
    BY <2>1, <2>3 DEF Away
<1>7. ASSUME NEW m, NEW t, Away(chain, left, m, t)
      PROVE  Away(chain, l2, m, t - 1)
  <2>1. PICK i \in 1 .. N : chain[i] = m /\ TicksTo(chain, left, i) = t
    BY <1>7 DEF Away
  <2>. QED
    BY <1>5, <2>1 DEF Away
<1>. QED
  BY <1>2, <1>3, <1>6, <1>7 DEF l2

-----------------------------------------------------------------------------
\* Removal.

LEMMA MaxIs ==
  ASSUME NEW S \in SUBSET Nat, NEW x \in S, \A y \in S : y <= x
  PROVE  Max(S) = x
<1>1. Max(S) \in S /\ \A y \in S : y <= Max(S)
  <2>1. x \in Nat /\ S # {}
    OBVIOUS
  <2>. QED
    BY <2>1, MaxOfBounded
<1>2. x \in Nat /\ Max(S) \in Nat /\ Max(S) <= x /\ x <= Max(S)
  BY <1>1
<1>. QED
  BY <1>2

LEMMA DistinctAppend ==
  ASSUME NEW chain \in Seq(Node), Distinct(chain), NEW n \in Node, n \notin ToSet(chain)
  PROVE  Distinct(Append(chain, n))
<1>. DEFINE N == Len(chain)
            c2 == Append(chain, n)
<1>1. N \in Nat /\ Len(c2) = N + 1 /\ (\A i \in 1 .. N : c2[i] = chain[i]) /\ c2[N + 1] = n
  OBVIOUS
<1>. HIDE DEF c2
<1>2. \A i \in 1 .. N : chain[i] # n
  BY DEF ToSet
<1>3. ASSUME NEW i \in 1 .. N + 1, NEW j \in 1 .. N + 1, c2[i] = c2[j]
      PROVE  i = j
  <2>1. (i \in 1 .. N \/ i = N + 1) /\ (j \in 1 .. N \/ j = N + 1)
    BY <1>1
  <2>. QED
    BY <1>1, <1>2, <1>3, <2>1 DEF Distinct
<1>4. Distinct(c2)
  BY <1>1, <1>3 DEF Distinct
<1>. QED
  BY <1>4 DEF c2

\* The last node that stays is the one before, or the one that stayed last before that.
LEMMA KeptBeforeFacts ==
  ASSUME NEW k, TickNodeChain \in Seq(Node)
  PROVE  /\ KeptBefore(k, 1) = 0
         /\ \A i \in 1 .. Len(TickNodeChain) :
              /\ KeptBefore(k, i) \in 0 .. i - 1
              /\ KeptBefore(k, i + 1) = IF key[TickNodeChain[i]] # k THEN i ELSE KeptBefore(k, i)
<1>. DEFINE N == Len(TickNodeChain)
            S(i) == {0} \cup {j \in 1 .. i - 1 : key[TickNodeChain[j]] # k}
<1>0. N \in Nat
  OBVIOUS
<1>1. \A i : KeptBefore(k, i) = Max(S(i))
  BY DEF KeptBefore
<1>2. KeptBefore(k, 1) = 0
  <2>1. S(1) = {0}
    OBVIOUS
  <2>2. Max({0}) = 0
    BY MaxIs
  <2>. QED
    BY <1>1, <2>1, <2>2
<1>3. ASSUME NEW i \in 1 .. N
      PROVE  /\ KeptBefore(k, i) \in 0 .. i - 1
             /\ KeptBefore(k, i + 1) = IF key[TickNodeChain[i]] # k THEN i ELSE KeptBefore(k, i)
  <2>1. S(i) \in SUBSET Nat /\ S(i) # {} /\ i - 1 \in Nat /\ \A x \in S(i) : x <= i - 1
    BY <1>0
  <2>2. Max(S(i)) \in S(i)
    <3>. HIDE DEF S
    <3>. QED
      BY <2>1, MaxOfBounded
  <2>3. Max(S(i)) \in 0 .. i - 1
    BY <2>2
  <2>4. CASE key[TickNodeChain[i]] # k
    <3>1. i \in S(i + 1) /\ S(i + 1) \in SUBSET Nat /\ \A x \in S(i + 1) : x <= i
      BY <1>0, <2>4
    <3>2. Max(S(i + 1)) = i
      <4>. HIDE DEF S
      <4>. QED
        BY <3>1, MaxIs
    <3>. QED
      BY <1>1, <2>3, <2>4, <3>2
  <2>5. CASE key[TickNodeChain[i]] = k
    <3>1. S(i + 1) = S(i)
      <4>1. ASSUME NEW j
            PROVE  j \in 1 .. (i + 1) - 1 /\ key[TickNodeChain[j]] # k
                     <=> j \in 1 .. i - 1 /\ key[TickNodeChain[j]] # k
        BY <1>0, <2>5
      <4>. QED
        BY <4>1
    <3>. HIDE DEF S
    <3>. QED
      BY <1>1, <2>3, <2>5, <3>1
  <2>. QED
    BY <2>4, <2>5
<1>. QED
  BY <1>2, <1>3

\* The ticks of a node that stays, with those of the nodes removed in front of it.
LeftAfterRemove(k) ==
  [n \in Node |->
     IF (n \in Linked /\ key[n] # k)
     THEN LET i == CHOOSE i \in DOMAIN TickNodeChain : TickNodeChain[i] = n
          IN  TickNodeLeft[n] + RemovedTicks(k, i)
     ELSE TickNodeLeft[n]]

LEMMA LeftAfterRemoveFacts ==
  ASSUME Timed(TickNodeChain, TickNodeLeft), Distinct(TickNodeChain),
         TickNodeLeft \in [Node -> Nat], NEW k
  PROVE  /\ LeftAfterRemove(k) \in [Node -> Nat]
         /\ \A i \in 1 .. Len(TickNodeChain) : key[TickNodeChain[i]] # k =>
              LeftAfterRemove(k)[TickNodeChain[i]]
                = TickNodeLeft[TickNodeChain[i]] + TicksTo(TickNodeChain, TickNodeLeft, i - 1)
                    - TicksTo(TickNodeChain, TickNodeLeft, KeptBefore(k, i))
         /\ \A n \in Node : (n \in Linked /\ key[n] # k)
                            \/ LeftAfterRemove(k)[n] = TickNodeLeft[n]
<1>. DEFINE N == Len(TickNodeChain)
            T(i) == TicksTo(TickNodeChain, TickNodeLeft, i)
            pos(n) == CHOOSE i \in DOMAIN TickNodeChain : TickNodeChain[i] = n
            l2 == LeftAfterRemove(k)
<1>1. /\ N \in Nat /\ TickNodeChain \in Seq(Node) /\ DOMAIN TickNodeChain = 1 .. N
      /\ \A i \in 1 .. N : TickNodeChain[i] \in Node
  BY DEF Timed
<1>2. ASSUME NEW i \in 1 .. N
      PROVE  /\ pos(TickNodeChain[i]) = i
             /\ RemovedTicks(k, i) = T(i - 1) - T(KeptBefore(k, i)) /\ RemovedTicks(k, i) \in Nat
  <2>1. pos(TickNodeChain[i]) = i
    BY <1>1 DEF Distinct
  <2>2. KeptBefore(k, i) \in 0 .. i - 1
    BY <1>1, KeptBeforeFacts
  <2>3. i - 1 \in KeptBefore(k, i) .. N /\ KeptBefore(k, i) \in 0 .. N /\ i - 1 \in 0 .. N
    BY <1>1, <2>2
  <2>4. T(KeptBefore(k, i)) <= T(i - 1)
    BY <2>3, SumsGrow
  <2>5. T(KeptBefore(k, i)) \in Nat /\ T(i - 1) \in Nat
    BY <2>3, TicksToNat
  <2>. QED
    BY <2>1, <2>4, <2>5 DEF RemovedTicks
<1>3. l2 = [n \in Node |-> IF (n \in Linked /\ key[n] # k)
                           THEN TickNodeLeft[n] + RemovedTicks(k, pos(n))
                           ELSE TickNodeLeft[n]]
  BY DEF LeftAfterRemove
<1>. HIDE DEF l2, pos, T, N
<1>4. ASSUME NEW n \in Node, n \in Linked
      PROVE  RemovedTicks(k, pos(n)) \in Nat
  <2>1. PICK i \in 1 .. N : TickNodeChain[i] = n
    BY <1>1, <1>4 DEF Linked, ToSet
  <2>. QED
    BY <1>2, <2>1
<1>5. l2 \in [Node -> Nat]
  BY <1>3, <1>4
<1>6. ASSUME NEW i \in 1 .. N, key[TickNodeChain[i]] # k
      PROVE  l2[TickNodeChain[i]] = TickNodeLeft[TickNodeChain[i]] + T(i - 1) - T(KeptBefore(k, i))
  <2>1. TickNodeChain[i] \in Node /\ TickNodeChain[i] \in Linked
    BY <1>1 DEF Linked, ToSet
  <2>2. l2[TickNodeChain[i]] = TickNodeLeft[TickNodeChain[i]] + RemovedTicks(k, i)
    BY <1>2, <1>3, <1>6, <2>1
  <2>3. KeptBefore(k, i) \in 0 .. N /\ i - 1 \in 0 .. N
    <3>1. KeptBefore(k, i) \in 0 .. i - 1
      BY <1>1, KeptBeforeFacts DEF N
    <3>. QED
      BY <1>1, <3>1
  <2>4. T(KeptBefore(k, i)) \in Nat /\ T(i - 1) \in Nat /\ TickNodeLeft[TickNodeChain[i]] \in Nat
    BY <2>1, <2>3, TicksToNat DEF T, N
  <2>. QED
    BY <1>2, <2>2, <2>4
<1>7. \A n \in Node : (n \in Linked /\ key[n] # k) \/ l2[n] = TickNodeLeft[n]
  BY <1>3
<1>. QED
  BY <1>5, <1>6, <1>7 DEF l2, T, N

\* The nodes of other keys stay, as far away as they were, and no others do.
LEMMA RemoveFacts ==
  ASSUME Timed(TickNodeChain, TickNodeLeft), Distinct(TickNodeChain),
         TickNodeLeft \in [Node -> Nat], NEW k
  PROVE  LET c2 == KeptChain(k)
             l2 == LeftAfterRemove(k)
         IN  /\ Timed(c2, l2) /\ Distinct(c2)
             /\ \A m, t : Away(c2, l2, m, t) <=>
                  Away(TickNodeChain, TickNodeLeft, m, t) /\ key[m] # k
<1>. DEFINE N == Len(TickNodeChain)
            T(i) == TicksTo(TickNodeChain, TickNodeLeft, i)
            l2 == LeftAfterRemove(k)
            Rec(g) == g = [i \in 0 .. N |->
                             IF i = 0 THEN <<>>
                             ELSE IF key[TickNodeChain[i]] = k THEN g[i - 1]
                             ELSE Append(g[i - 1], TickNodeChain[i])]
            kept == CHOOSE g : Rec(g)
            step == [w \in (1 .. N) \X Seq(Node) |->
                       IF key[TickNodeChain[w[1]]] = k THEN w[2]
                       ELSE Append(w[2], TickNodeChain[w[1]])]
<1>1. /\ N \in Nat /\ TickNodeChain \in Seq(Node)
      /\ \A i \in 1 .. N : TickNodeChain[i] \in Node
  BY DEF Timed
<1>2. KeptChain(k) = kept[N]
  BY DEF KeptChain
<1>3. PICK g \in [0 .. N -> Seq(Node)] : IsWalk(g, N, <<>>, step)
  <2>1. step \in [(1 .. N) \X Seq(Node) -> Seq(Node)]
    BY <1>1
  <2>2. <<>> \in Seq(Node)
    OBVIOUS
  <2>. HIDE DEF step, N
  <2>. QED
    BY <1>1, <2>1, <2>2, WalkExists
<1>4. Rec(g)
  <2>1. g = [i \in 0 .. N |-> IF i = 0 THEN <<>> ELSE step[<<i, g[i - 1]>>]]
    BY <1>3 DEF IsWalk
  <2>2. \A i \in 0 .. N : i # 0 =>
          step[<<i, g[i - 1]>>] = IF key[TickNodeChain[i]] = k THEN g[i - 1]
                                  ELSE Append(g[i - 1], TickNodeChain[i])
    <3>. SUFFICES ASSUME NEW i \in 0 .. N, i # 0
                  PROVE  step[<<i, g[i - 1]>>] = IF key[TickNodeChain[i]] = k THEN g[i - 1]
                                                 ELSE Append(g[i - 1], TickNodeChain[i])
      OBVIOUS
    <3>1. i \in 1 .. N /\ i - 1 \in 0 .. N
      BY <1>1
    <3>2. g[i - 1] \in Seq(Node)
      BY <3>1
    <3>. QED
      BY <3>1, <3>2
  <2>3. [i \in 0 .. N |-> IF i = 0 THEN <<>> ELSE step[<<i, g[i - 1]>>]]
          = [i \in 0 .. N |->
               IF i = 0 THEN <<>>
               ELSE IF key[TickNodeChain[i]] = k THEN g[i - 1]
               ELSE Append(g[i - 1], TickNodeChain[i])]
    <3>. HIDE DEF step, N
    <3>. QED
      BY <2>2
  <2>. HIDE DEF step
  <2>. QED
    BY <2>1, <2>3, Zenon
<1>5. Rec(kept)
  <2>. HIDE DEF Rec
  <2>. QED
    BY <1>4
<1>6. /\ kept[0] = <<>>
      /\ \A i \in 1 .. N : kept[i] = IF key[TickNodeChain[i]] = k THEN kept[i - 1]
                                     ELSE Append(kept[i - 1], TickNodeChain[i])
  <2>. HIDE DEF kept, N
  <2>1. \A i \in 0 .. N : kept[i] = IF i = 0 THEN <<>>
                                    ELSE IF key[TickNodeChain[i]] = k THEN kept[i - 1]
                                    ELSE Append(kept[i - 1], TickNodeChain[i])
    BY <1>5 DEF N
  <2>2. 0 \in 0 .. N /\ \A i \in 1 .. N : i \in 0 .. N /\ i # 0
    BY <1>1
  <2>. QED
    BY <2>1, <2>2
<1>. HIDE DEF kept, l2, step, Rec
<1>7. /\ l2 \in [Node -> Nat]
      /\ \A i \in 1 .. N : key[TickNodeChain[i]] # k =>
           l2[TickNodeChain[i]] = TickNodeLeft[TickNodeChain[i]] + T(i - 1) - T(KeptBefore(k, i))
  BY LeftAfterRemoveFacts DEF l2
<1>. DEFINE Good(i) == /\ Timed(kept[i], l2) /\ Distinct(kept[i])
                       /\ TicksTo(kept[i], l2, Len(kept[i])) = T(KeptBefore(k, i + 1))
                       /\ \A m, t : Away(kept[i], l2, m, t) <=>
                            \E j \in 1 .. i : TickNodeChain[j] = m /\ T(j) = t /\ key[m] # k
            Bad == {i \in 0 .. N : ~Good(i)}
<1>8. Good(0)
  <2>1. Timed(<<>>, l2) /\ Distinct(<<>>)
    BY DEF Timed, Distinct
  <2>2. TicksTo(<<>>, l2, Len(<<>>)) = T(KeptBefore(k, 0 + 1))
    <3>1. TicksTo(<<>>, l2, 0) = 0 /\ TicksTo(TickNodeChain, TickNodeLeft, 0) = 0
      BY <2>1, TicksToFacts
    <3>2. KeptBefore(k, 1) = 0 /\ 0 + 1 = 1 /\ Len(<<>>) = 0
      BY <1>1, KeptBeforeFacts
    <3>. QED
      BY <3>1, <3>2
  <2>3. \A m, t : ~Away(<<>>, l2, m, t)
    BY DEF Away
  <2>. QED
    BY <1>6, <2>1, <2>2, <2>3
<1>9. Bad = {}
  <2>. SUFFICES ASSUME Bad # {} PROVE FALSE
    OBVIOUS
  <2>1. PICK i \in Bad : \A j \in Bad : i <= j
    <3>1. Bad \in SUBSET Nat
      BY <1>1
    <3>. HIDE DEF Bad
    <3>. QED
      BY <3>1, LeastNat
  <2>2. i \in 1 .. N /\ ~Good(i) /\ i - 1 \in 0 .. N /\ (i - 1) + 1 = i
    <3>1. i \in 0 .. N /\ ~Good(i)
      OBVIOUS
    <3>2. i # 0
      BY <1>8, <3>1
    <3>. HIDE DEF Good, Bad
    <3>. QED
      BY <1>1, <3>1, <3>2
  <2>3. Good(i - 1)
    <3>1. i - 1 \notin Bad
      <4>1. i \in Nat /\ ~(i <= i - 1)
        BY <2>2
      <4>. HIDE DEF Bad, Good
      <4>. QED
        BY <2>1, <4>1
    <3>. HIDE DEF Good
    <3>. QED
      BY <2>2, <3>1
  <2>. DEFINE n == TickNodeChain[i]
              last == kept[i - 1]
  <2>4. /\ Timed(last, l2) /\ Distinct(last) /\ last \in Seq(Node)
        /\ TicksTo(last, l2, Len(last)) = T(KeptBefore(k, i))
        /\ \A m, t : Away(last, l2, m, t) <=>
             \E j \in 1 .. i - 1 : TickNodeChain[j] = m /\ T(j) = t /\ key[m] # k
    BY <2>2, <2>3 DEF Timed
  <2>5. /\ n \in Node
        /\ KeptBefore(k, i + 1) = IF key[n] # k THEN i ELSE KeptBefore(k, i)
        /\ KeptBefore(k, i) \in 0 .. i - 1
    BY <1>1, <2>2, KeptBeforeFacts
  <2>6. \A j : j \in 1 .. i <=> j \in 1 .. i - 1 \/ j = i
    <3>. HIDE DEF Bad, Good, last, n
    <3>. QED
      BY <1>1, <2>2
  <2>7. CASE key[n] = k
    <3>1. kept[i] = last
      BY <1>6, <2>2, <2>7
    <3>2. ASSUME NEW m, NEW t
          PROVE  Away(kept[i], l2, m, t) <=>
                   \E j \in 1 .. i : TickNodeChain[j] = m /\ T(j) = t /\ key[m] # k
      <4>1. Away(last, l2, m, t) <=>
              \E j \in 1 .. i - 1 : TickNodeChain[j] = m /\ T(j) = t /\ key[m] # k
        BY <2>4
      <4>. HIDE DEF T, last, Bad
      <4>. QED
        BY <2>6, <2>7, <3>1, <4>1
    <3>3. Good(i)
      <4>. HIDE DEF T, last, n, Bad
      <4>. QED
        BY <2>4, <2>5, <2>7, <3>1, <3>2
    <3>. QED
      BY <2>2, <3>3
  <2>8. CASE key[n] # k
    <3>1. kept[i] = Append(last, n)
      BY <1>6, <2>2, <2>8
    <3>2. T(i) = TicksTo(last, l2, Len(last)) + l2[n] /\ T(i) \in Int /\ l2[n] \in Nat
      <4>1. T(i) = T(i - 1) + TickNodeLeft[n] /\ T(i) \in Int /\ T(i - 1) \in Int
        <5>1. i \in 1 .. N /\ i \in 0 .. N /\ i - 1 \in 0 .. N
          BY <2>2
        <5>. QED
          BY <5>1, TicksToFacts
      <4>2. T(KeptBefore(k, i)) \in Int
        <5>1. KeptBefore(k, i) \in 0 .. N
          BY <1>1, <2>2, <2>5
        <5>. QED
          BY <5>1, TicksToFacts
      <4>3. TickNodeLeft[n] \in Nat /\ l2[n] \in Nat
        BY <1>7, <2>5
      <4>4. l2[n] = TickNodeLeft[n] + T(i - 1) - T(KeptBefore(k, i))
        BY <1>7, <2>2, <2>8
      <4>. HIDE DEF T, n, last, Bad
      <4>. QED
        BY <2>4, <4>1, <4>2, <4>3, <4>4
    <3>3. /\ Timed(kept[i], l2)
          /\ TicksTo(kept[i], l2, Len(kept[i])) = T(i)
          /\ \A m, t : Away(kept[i], l2, m, t) <=> Away(last, l2, m, t) \/ (m = n /\ t = T(i))
      <4>. HIDE DEF T, n, last, Bad
      <4>. QED
        BY <2>4, <2>5, <3>1, <3>2, AppendFacts
    <3>4. Distinct(kept[i])
      <4>1. n \notin ToSet(last)
        <5>. SUFFICES ASSUME n \in ToSet(last) PROVE FALSE
          OBVIOUS
        <5>1. PICK t \in Nat : Away(last, l2, n, t)
          <6>. HIDE DEF n, last
          <6>. QED
            BY <2>4, LinkedIsAway
        <5>2. PICK j \in 1 .. i - 1 : TickNodeChain[j] = n
          BY <2>4, <5>1
        <5>3. j \in 1 .. N /\ j # i
          <6>. HIDE DEF Bad, n, last
          <6>. QED
            BY <1>1, <2>2
        <5>. QED
          BY <2>2, <5>2, <5>3 DEF Distinct
      <4>. HIDE DEF n, last, Bad
      <4>. QED
        BY <2>4, <2>5, <3>1, <4>1, DistinctAppend
    <3>5. ASSUME NEW m, NEW t
          PROVE  Away(kept[i], l2, m, t) <=>
                   \E j \in 1 .. i : TickNodeChain[j] = m /\ T(j) = t /\ key[m] # k
      <4>1. Away(kept[i], l2, m, t) <=> Away(last, l2, m, t) \/ (m = n /\ t = T(i))
        BY <3>3
      <4>2. Away(last, l2, m, t) <=>
              \E j \in 1 .. i - 1 : TickNodeChain[j] = m /\ T(j) = t /\ key[m] # k
        BY <2>4
      <4>. HIDE DEF T, last, Bad
      <4>. QED
        BY <2>6, <2>8, <4>1, <4>2
    <3>6. Good(i)
      <4>1. KeptBefore(k, i + 1) = i
        BY <2>5, <2>8
      <4>. HIDE DEF T, last, n, Bad
      <4>. QED
        BY <3>3, <3>4, <3>5, <4>1
    <3>. QED
      BY <2>2, <3>6
  <2>. QED
    BY <2>7, <2>8
<1>10. Good(N)
  <2>1. N \in 0 .. N
    BY <1>1
  <2>. HIDE DEF Good
  <2>. QED
    BY <1>9, <2>1
<1>11. ASSUME NEW m, NEW t
       PROVE  Away(kept[N], l2, m, t) <=>
                Away(TickNodeChain, TickNodeLeft, m, t) /\ key[m] # k
  <2>1. Away(kept[N], l2, m, t) <=>
          \E j \in 1 .. N : TickNodeChain[j] = m /\ T(j) = t /\ key[m] # k
    BY <1>10
  <2>2. Away(TickNodeChain, TickNodeLeft, m, t) <=>
          \E j \in 1 .. N : TickNodeChain[j] = m /\ T(j) = t
    BY DEF Away
  <2>. HIDE DEF N, T, Good
  <2>. QED
    BY <2>1, <2>2
<1>. QED
  BY <1>2, <1>10, <1>11 DEF l2

-----------------------------------------------------------------------------
\* The inductive invariant.

\* Every node of the chain is called by the time it may be and not before the time that
\* was asked for; when no tick is being processed, none is called too late.
InTime(chain, left, d, idle) ==
  \A i \in DOMAIN chain :
    /\ TicksTo(chain, left, i) <= MaxTicks
    /\ TicksTo(chain, left, i) >= d[chain[i]]
    /\ idle => TicksTo(chain, left, i) > 0

\* No node is called twice at once, nor while it waits to be called.
CalledOnce(chain, run) ==
  /\ \A i, j \in DOMAIN run : run[i].node = run[j].node => i = j
  /\ \A i \in DOMAIN run : run[i].node \notin ToSet(chain)

IInv ==
  /\ TypeOK
  /\ Distinct(TickNodeChain)
  /\ InTime(TickNodeChain, TickNodeLeft, due, running = <<>>)
  /\ CalledOnce(TickNodeChain, running)

LEMMA AwayInTime ==
  ASSUME NEW chain, NEW left, Timed(chain, left), NEW d, NEW idle, InTime(chain, left, d, idle),
         NEW m, NEW t, Away(chain, left, m, t)
  PROVE  m \in Node /\ t \in Nat /\ t <= MaxTicks /\ t >= d[m] /\ (idle => t > 0)
<1>1. t \in Nat /\ m \in Node
  BY AwayIsNat
<1>2. DOMAIN chain = 1 .. Len(chain)
  BY DEF Timed
<1>. QED
  BY <1>1, <1>2 DEF Away, InTime

LEMMA InTimeByAway ==
  ASSUME NEW chain \in Seq(Node), NEW left, NEW d, NEW idle,
         \A m, t : Away(chain, left, m, t) => t <= MaxTicks /\ t >= d[m] /\ (idle => t > 0)
  PROVE  InTime(chain, left, d, idle)
<1>1. DOMAIN chain = 1 .. Len(chain)
  OBVIOUS
<1>2. \A i \in 1 .. Len(chain) : Away(chain, left, chain[i], TicksTo(chain, left, i))
  BY DEF Away
<1>. QED
  BY <1>1, <1>2 DEF InTime

LEMMA InvFacts ==
  ASSUME IInv
  PROVE  /\ MaxTicks \in Nat
         /\ TickNodeLeft \in [Node -> Nat]
         /\ Timed(TickNodeChain, TickNodeLeft)
         /\ Distinct(TickNodeChain)
         /\ \A m, t : Away(TickNodeChain, TickNodeLeft, m, t) =>
              /\ m \in Node /\ m \in Linked
              /\ t \in Nat /\ t <= MaxTicks /\ t >= due[m] /\ due[m] \in Nat
              /\ running = <<>> => t > 0
<1>1. MaxTicks \in Nat
  BY TickEventsAssumption DEF MaxTicks
<1>2. TickNodeLeft \in [Node -> Nat]
  <2>1. 0 .. MaxTicks \subseteq Nat
    BY <1>1
  <2>2. TickNodeLeft \in [Node -> 0 .. MaxTicks]
    BY DEF IInv, TypeOK
  <2>. QED
    BY <2>1, <2>2
<1>3. Timed(TickNodeChain, TickNodeLeft)
  <2>1. TickNodeChain \in Seq(Node)
    BY DEF IInv, TypeOK
  <2>. QED
    BY <1>2, <2>1 DEF Timed
<1>4. ASSUME NEW m, NEW t, Away(TickNodeChain, TickNodeLeft, m, t)
      PROVE  /\ m \in Node /\ m \in Linked
             /\ t \in Nat /\ t <= MaxTicks /\ t >= due[m] /\ due[m] \in Nat
             /\ running = <<>> => t > 0
  <2>1. m \in Node /\ m \in ToSet(TickNodeChain)
    BY <1>3, <1>4, AwayIsNat
  <2>2. t \in Nat /\ t <= MaxTicks /\ t >= due[m] /\ (running = <<>> => t > 0)
    BY <1>3, <1>4, AwayInTime DEF IInv
  <2>3. due[m] \in Nat
    <3>1. due \in [Node -> 0 .. MaxTicks]
      BY DEF IInv, TypeOK
    <3>. QED
      BY <1>1, <2>1, <3>1
  <2>. QED
    BY <2>1, <2>2, <2>3 DEF Linked
<1>. QED
  BY <1>1, <1>2, <1>3, <1>4 DEF IInv

\* Ticks in the range of the types.
LEMMA InRange ==
  ASSUME NEW f \in [Node -> Nat], NEW b \in Nat, \A m \in Node : f[m] <= b
  PROVE  f \in [Node -> 0 .. b]
OBVIOUS

LEMMA InitInv == Init => IInv
<1>. SUFFICES ASSUME Init PROVE IInv
  OBVIOUS
<1>1. MaxTicks \in Nat
  BY TickEventsAssumption DEF MaxTicks
<1>2. TypeOK
  BY <1>1 DEF Init, TypeOK
<1>3. /\ Distinct(TickNodeChain)
      /\ InTime(TickNodeChain, TickNodeLeft, due, running = <<>>)
      /\ CalledOnce(TickNodeChain, running)
  BY DEF Init, Distinct, InTime, CalledOnce
<1>. QED
  BY <1>2, <1>3 DEF IInv

\* An event that is set waits for what was asked, and the others for what they did.
LEMMA CallAfterOrEveryInv ==
  ASSUME IInv, NEW n \in Node, NEW delay \in 1 .. MaxDelay, NEW every \in BOOLEAN,
         CallAfterOrEvery(n, delay, every)
  PROVE  IInv'
<1>. DEFINE ticks == delay + 1
            c2 == ChainAfterInsert(TickNodeChain, TickNodeLeft, n, ticks)
            l2 == LeftAfterInsert(TickNodeChain, TickNodeLeft, n, ticks)
<1>1. /\ n \notin Linked /\ n \notin Called
      /\ TickNodeChain' = c2 /\ TickNodeLeft' = l2
      /\ TickNodeRedo' = [TickNodeRedo EXCEPT ![n] = IF every THEN ticks ELSE 0]
      /\ due' = [due EXCEPT ![n] = ticks]
      /\ running' = running
  BY DEF CallAfterOrEvery
<1>2. ticks \in Nat /\ ticks \in 2 .. MaxTicks /\ ticks \in 0 .. MaxTicks
  BY TickEventsAssumption DEF MaxTicks
<1>3. /\ MaxTicks \in Nat /\ TickNodeLeft \in [Node -> Nat]
      /\ Timed(TickNodeChain, TickNodeLeft) /\ Distinct(TickNodeChain)
      /\ \A m, t : Away(TickNodeChain, TickNodeLeft, m, t) =>
           /\ m \in Node /\ m \in Linked
           /\ t \in Nat /\ t <= MaxTicks /\ t >= due[m] /\ due[m] \in Nat
           /\ running = <<>> => t > 0
  BY InvFacts
<1>4. \A i \in 1 .. Len(TickNodeChain) : TickNodeChain[i] # n
  BY <1>1, <1>3 DEF Linked, ToSet, Timed
<1>. HIDE DEF ticks, c2, l2
<1>5. /\ Timed(c2, l2) /\ Distinct(c2) /\ l2 \in [Node -> Nat]
      /\ \A m \in Node : l2[m] <= IF m = n THEN ticks ELSE TickNodeLeft[m]
      /\ \A m, t : Away(c2, l2, m, t) <=>
           Away(TickNodeChain, TickNodeLeft, m, t) \/ (m = n /\ t = ticks)
  BY <1>2, <1>3, <1>4, InsertFacts DEF c2, l2
<1>6. c2 \in Seq(Node)
  BY <1>5 DEF Timed
<1>7. TypeOK'
  <2>1. l2 \in [Node -> 0 .. MaxTicks]
    <3>1. TickNodeLeft \in [Node -> 0 .. MaxTicks]
      BY DEF IInv, TypeOK
    <3>2. \A m \in Node : l2[m] <= MaxTicks
      BY <1>2, <1>3, <1>5, <3>1
    <3>. QED
      BY <1>3, <1>5, <3>2, InRange
  <2>2. TickNodeRedo' \in [Node -> {0} \cup 2 .. MaxTicks]
    BY <1>1, <1>2 DEF IInv, TypeOK
  <2>3. due' \in [Node -> 0 .. MaxTicks]
    BY <1>1, <1>2 DEF IInv, TypeOK
  <2>4. running' \in Seq(Invocation)
    BY <1>1 DEF IInv, TypeOK
  <2>. QED
    BY <1>1, <1>6, <2>1, <2>2, <2>3, <2>4 DEF TypeOK, MaxTicks, Invocation
<1>8. InTime(c2, l2, due', running = <<>>)
  <2>1. \A m : m # n => due'[m] = due[m] \/ m \notin Node
    BY <1>1 DEF IInv, TypeOK
  <2>2. due'[n] = ticks
    BY <1>1 DEF IInv, TypeOK
  <2>3. ASSUME NEW m, NEW t, Away(c2, l2, m, t)
        PROVE  t <= MaxTicks /\ t >= due'[m] /\ (running = <<>> => t > 0)
    <3>1. CASE m = n /\ t = ticks
      BY <1>2, <2>2, <3>1
    <3>2. CASE Away(TickNodeChain, TickNodeLeft, m, t)
      <4>1. m # n
        BY <1>1, <1>3, <3>2
      <4>. QED
        BY <1>3, <2>1, <3>2, <4>1
    <3>. QED
      BY <1>5, <2>3, <3>1, <3>2
  <2>. QED
    BY <1>6, <2>3, InTimeByAway
<1>9. CalledOnce(c2, running)
  <2>1. ASSUME NEW m \in ToSet(c2)
        PROVE  m \in Linked \/ m = n
    <3>1. PICK t \in Nat : Away(c2, l2, m, t)
      BY <1>5, <2>1, LinkedIsAway
    <3>. QED
      BY <1>3, <1>5, <3>1
  <2>2. CalledOnce(TickNodeChain, running)
    BY DEF IInv
  <2>3. \A i \in DOMAIN running : running[i].node # n
    BY <1>1 DEF Called
  <2>. QED
    BY <2>1, <2>2, <2>3 DEF CalledOnce, Linked
<1>. QED
  BY <1>1, <1>5, <1>7, <1>8, <1>9 DEF IInv

LEMMA RemoveTickerEventInv ==
  ASSUME IInv, NEW k \in Key, RemoveTickerEvent(k)
  PROVE  IInv'
<1>. DEFINE c2 == KeptChain(k)
            l2 == LeftAfterRemove(k)
<1>1. /\ TickNodeChain' = c2 /\ TickNodeLeft' = l2
      /\ TickNodeRedo' = TickNodeRedo /\ running' = running /\ due' = due
  BY DEF RemoveTickerEvent, LeftAfterRemove
<1>2. /\ MaxTicks \in Nat /\ TickNodeLeft \in [Node -> Nat]
      /\ Timed(TickNodeChain, TickNodeLeft) /\ Distinct(TickNodeChain)
      /\ \A m, t : Away(TickNodeChain, TickNodeLeft, m, t) =>
           /\ m \in Node /\ m \in Linked
           /\ t \in Nat /\ t <= MaxTicks /\ t >= due[m] /\ due[m] \in Nat
           /\ running = <<>> => t > 0
  BY InvFacts
<1>. HIDE DEF c2, l2
<1>3. /\ Timed(c2, l2) /\ Distinct(c2) /\ c2 \in Seq(Node)
      /\ \A m, t : Away(c2, l2, m, t) <=>
           Away(TickNodeChain, TickNodeLeft, m, t) /\ key[m] # k
  BY <1>2, RemoveFacts DEF c2, l2, Timed
<1>4. /\ l2 \in [Node -> Nat]
      /\ \A n \in Node : (n \in Linked /\ key[n] # k) \/ l2[n] = TickNodeLeft[n]
  BY <1>2, LeftAfterRemoveFacts DEF l2
<1>5. TypeOK'
  <2>1. ASSUME NEW m \in Node
        PROVE  l2[m] <= MaxTicks
    <3>1. CASE l2[m] = TickNodeLeft[m]
      <4>1. TickNodeLeft \in [Node -> 0 .. MaxTicks]
        BY DEF IInv, TypeOK
      <4>. QED
        BY <1>2, <3>1, <4>1
    <3>2. CASE m \in Linked /\ key[m] # k
      <4>1. PICK t \in Nat : Away(TickNodeChain, TickNodeLeft, m, t)
        BY <1>2, <3>2, LinkedIsAway DEF Linked
      <4>2. Away(c2, l2, m, t) /\ t <= MaxTicks
        BY <1>2, <1>3, <3>2, <4>1
      <4>3. l2[m] \in Nat /\ l2[m] <= t
        BY <1>3, <4>2, LeftIsWithin
      <4>. QED
        BY <1>2, <4>2, <4>3
    <3>. QED
      BY <1>4, <3>1, <3>2
  <2>2. l2 \in [Node -> 0 .. MaxTicks]
    BY <1>2, <1>4, <2>1, InRange
  <2>. QED
    BY <1>1, <1>3, <2>2 DEF IInv, TypeOK, MaxTicks, Invocation
<1>6. InTime(c2, l2, due, running = <<>>)
  BY <1>2, <1>3, InTimeByAway
<1>7. CalledOnce(c2, running)
  <2>1. ASSUME NEW m \in ToSet(c2)
        PROVE  m \in Linked
    <3>1. PICK t \in Nat : Away(c2, l2, m, t)
      BY <1>3, <2>1, LinkedIsAway
    <3>. QED
      BY <1>2, <1>3, <3>1
  <2>2. CalledOnce(TickNodeChain, running)
    BY DEF IInv
  <2>. QED
    BY <2>1, <2>2 DEF CalledOnce, Linked
<1>. QED
  BY <1>1, <1>3, <1>5, <1>6, <1>7 DEF IInv

LEMMA LastOrBefore ==
  ASSUME NEW n \in Nat, n >= 1
  PROVE  /\ n \in 1 .. n
         /\ \A i \in 1 .. n : i \in 1 .. n - 1 \/ i = n
         /\ \A i \in 1 .. n - 1 : i \in 1 .. n /\ i # n
OBVIOUS

LEMMA RunningFacts ==
  ASSUME running \in Seq(Invocation), running # <<>>
  PROVE  /\ Len(running) \in Nat /\ Len(running) >= 1 /\ DOMAIN running = 1 .. Len(running)
         /\ Len(running) \in 1 .. Len(running) /\ running[Len(running)] \in Invocation
         /\ \A i \in 1 .. Len(running) : i \in 1 .. Len(running) - 1 \/ i = Len(running)
         /\ \A i \in 1 .. Len(running) - 1 : i \in 1 .. Len(running) /\ i # Len(running)
<1>1. Len(running) \in Nat /\ Len(running) >= 1 /\ DOMAIN running = 1 .. Len(running)
  OBVIOUS
<1>2. running[Len(running)] \in Invocation
  BY <1>1
<1>. QED
  BY <1>1, <1>2, LastOrBefore

LEMMA ExceptLast ==
  ASSUME running \in Seq(Invocation), running # <<>>, NEW e \in Invocation,
         running' = [running EXCEPT ![Len(running)] = e]
  PROVE  /\ running' \in Seq(Invocation) /\ Len(running') = Len(running)
         /\ DOMAIN running' = 1 .. Len(running)
         /\ \A i \in 1 .. Len(running) - 1 : running'[i] = running[i]
         /\ running'[Len(running)] = e
         /\ running' # <<>>
<1>1. Len(running) \in Nat /\ Len(running) \in 1 .. Len(running)
  OBVIOUS
<1>2. /\ running' \in Seq(Invocation) /\ Len(running') = Len(running)
      /\ \A j \in 1 .. Len(running) : running'[j] = IF j = Len(running) THEN e ELSE running[j]
  BY <1>1, ExceptSeq
<1>3. \A i \in 1 .. Len(running) - 1 : i \in 1 .. Len(running) /\ i # Len(running)
  BY <1>1
<1>4. DOMAIN running' = 1 .. Len(running)
  BY <1>2
<1>5. running' # <<>>
  <2>1. Len(<<>>) = 0
    OBVIOUS
  <2>. QED
    BY <1>1, <1>2, <2>1
<1>. QED
  BY <1>1, <1>2, <1>3, <1>4, <1>5

\* The innermost invocation moves on with its node.
LEMMA AtChanges ==
  ASSUME running \in Seq(Invocation), running # <<>>,
         NEW at \in {"handler", "irqs on", "freeing"},
         running' = [running EXCEPT ![Len(running)].at = at]
  PROVE  /\ running' \in Seq(Invocation) /\ DOMAIN running' = DOMAIN running
         /\ \A i \in DOMAIN running : running'[i].node = running[i].node
         /\ running' # <<>>
<1>. DEFINE e == [running[Len(running)] EXCEPT !.at = at]
<1>1. Len(running) \in Nat /\ DOMAIN running = 1 .. Len(running)
  BY RunningFacts, Zenon
<1>2. Len(running) \in 1 .. Len(running) /\ running[Len(running)] \in Invocation
  BY RunningFacts, Zenon
<1>3. e \in Invocation /\ e.node = running[Len(running)].node
  BY <1>2 DEF Invocation
<1>4. running' = [running EXCEPT ![Len(running)] = e]
  OBVIOUS
<1>. HIDE DEF e
<1>5. /\ running' \in Seq(Invocation) /\ DOMAIN running' = 1 .. Len(running)
      /\ \A i \in 1 .. Len(running) - 1 : running'[i] = running[i]
      /\ running'[Len(running)] = e /\ running' # <<>>
  BY <1>3, <1>4, ExceptLast
<1>6. \A i \in 1 .. Len(running) : i \in 1 .. Len(running) - 1 \/ i = Len(running)
  BY RunningFacts, Zenon
<1>. QED
  BY <1>1, <1>3, <1>5, <1>6

\* The head that is due leaves the chain for its event's code, or the invocation ends.
LEMMA ContinueFacts ==
  ASSUME running \in Seq(Invocation), running # <<>>, MaxTicks \in Nat,
         NEW chain, NEW left \in [Node -> Nat], Timed(chain, left), Distinct(chain), NEW d,
         \A m, t : Away(chain, left, m, t) => t <= MaxTicks /\ t >= d[m],
         \A i, j \in 1 .. Len(running) - 1 : running[i].node = running[j].node => i = j,
         \A i \in 1 .. Len(running) - 1 : running[i].node \notin ToSet(chain),
         Continue(chain, left)
  PROVE  /\ running' \in Seq(Invocation)
         /\ Timed(TickNodeChain', left) /\ Distinct(TickNodeChain')
         /\ InTime(TickNodeChain', left, d, running' = <<>>)
         /\ CalledOnce(TickNodeChain', running')
         /\ \A m, t : Away(TickNodeChain', left, m, t) <=>
              /\ Away(chain, left, m, t)
              /\ chain # <<>> /\ left[Head(chain)] = 0 => m # Head(chain)
<1>. DEFINE N == Len(running)
<1>1. N \in Nat /\ N >= 1 /\ DOMAIN running = 1 .. N
  OBVIOUS
<1>2. CASE chain # <<>> /\ left[Head(chain)] = 0
  <2>. DEFINE h == Head(chain)
  <2>1. /\ running' = [running EXCEPT ![N] = [node |-> h, at |-> "handler"]]
        /\ TickNodeChain' = Tail(chain)
    BY <1>2 DEF Continue
  <2>2. h \in Node /\ h \in ToSet(chain) /\ Away(chain, left, h, 0)
    <3>1. h \in Node /\ Away(chain, left, h, 0)
      BY <1>2, HeadFacts
    <3>. QED
      BY <3>1, AwayIsNat
  <2>3. [node |-> h, at |-> "handler"] \in Invocation
    BY <2>2 DEF Invocation
  <2>. HIDE DEF h
  <2>4. /\ running' \in Seq(Invocation) /\ Len(running') = N /\ DOMAIN running' = 1 .. N
        /\ \A i \in 1 .. N - 1 : running'[i] = running[i]
        /\ running'[N].node = h
    BY <2>1, <2>3, ExceptLast
  <2>5. /\ Timed(TickNodeChain', left) /\ Distinct(TickNodeChain')
        /\ \A m, t : Away(TickNodeChain', left, m, t) => m # h /\ Away(chain, left, m, t + 0)
        /\ \A m, t : m # h /\ Away(chain, left, m, t) => Away(TickNodeChain', left, m, t - 0)
    BY <1>2, <2>1, TailFacts DEF h
  <2>6. \A m, t : Away(TickNodeChain', left, m, t) <=> m # h /\ Away(chain, left, m, t)
    <3>1. \A m, t : Away(TickNodeChain', left, m, t) \/ Away(chain, left, m, t) => t \in Nat
      BY <2>5, AwayIsNat
    <3>2. \A t \in Nat : t + 0 = t /\ t - 0 = t
      OBVIOUS
    <3>. QED
      BY <2>5, <3>1, <3>2
  <2>7. InTime(TickNodeChain', left, d, running' = <<>>)
    <3>1. running' # <<>> /\ TickNodeChain' \in Seq(Node)
      BY <1>1, <2>4, <2>5 DEF Timed
    <3>. QED
      BY <2>6, <3>1, InTimeByAway
  <2>8. \A m \in ToSet(TickNodeChain') : m # h /\ m \in ToSet(chain)
    <3>. SUFFICES ASSUME NEW m \in ToSet(TickNodeChain')
                  PROVE  m # h /\ m \in ToSet(chain)
      OBVIOUS
    <3>1. PICK t \in Nat : Away(TickNodeChain', left, m, t)
      BY <2>5, LinkedIsAway
    <3>. QED
      BY <2>6, <3>1, AwayIsNat
  <2>9. CalledOnce(TickNodeChain', running')
    <3>1. \A i \in 1 .. N : i \in 1 .. N - 1 \/ i = N
      BY RunningFacts
    <3>2. \A i \in 1 .. N - 1 : running'[i].node # h /\ running'[i].node \notin ToSet(chain)
      BY <2>2, <2>4
    <3>3. \A i, j \in 1 .. N - 1 : running'[i].node = running'[j].node => i = j
      BY <2>4
    <3>. HIDE DEF N
    <3>4. ASSUME NEW i \in 1 .. N, NEW j \in 1 .. N, running'[i].node = running'[j].node
          PROVE  i = j
      <4>1. CASE i = N \/ j = N
        BY <2>4, <3>1, <3>2, <3>4, <4>1
      <4>2. CASE i \in 1 .. N - 1 /\ j \in 1 .. N - 1
        BY <3>3, <3>4, <4>2
      <4>. QED
        BY <3>1, <4>1, <4>2
    <3>5. ASSUME NEW i \in 1 .. N
          PROVE  running'[i].node \notin ToSet(TickNodeChain')
      BY <2>4, <2>8, <3>1, <3>2
    <3>. QED
      BY <2>4, <3>4, <3>5 DEF CalledOnce
  <2>. QED
    BY <1>2, <2>4, <2>5, <2>6, <2>7, <2>9 DEF h
<1>3. CASE ~(chain # <<>> /\ left[Head(chain)] = 0)
  <2>1. running' = SubSeq(running, 1, N - 1) /\ TickNodeChain' = chain
    BY <1>3 DEF Continue, Front
  <2>2. /\ running' \in Seq(Invocation) /\ Len(running') = N - 1 /\ DOMAIN running' = 1 .. N - 1
        /\ \A i \in 1 .. N - 1 : running'[i] = running[i]
    BY <1>1, <2>1
  <2>3. \A m, t : Away(chain, left, m, t) => t > 0
    <3>. SUFFICES ASSUME NEW m, NEW t, Away(chain, left, m, t)
                  PROVE  t > 0
      OBVIOUS
    <3>1. t \in Nat /\ chain # <<>>
      <4>1. t \in Nat /\ \E i : i \in 1 .. Len(chain)
        BY AwayIsNat DEF Away
      <4>2. ~ \E i : i \in 1 .. Len(<<>>)
        OBVIOUS
      <4>. QED
        BY <4>1, <4>2
    <3>2. left[Head(chain)] \in Nat /\ left[Head(chain)] <= t
      BY <3>1, HeadFacts
    <3>. QED
      BY <1>3, <3>1, <3>2
  <2>4. InTime(TickNodeChain', left, d, running' = <<>>)
    <3>1. chain \in Seq(Node)
      BY DEF Timed
    <3>2. InTime(chain, left, d, running' = <<>>)
      BY <2>3, <3>1, InTimeByAway
    <3>. QED
      BY <2>1, <3>2
  <2>5. CalledOnce(TickNodeChain', running')
    <3>1. /\ \A i, j \in 1 .. N - 1 : running'[i].node = running'[j].node => i = j
          /\ \A i \in 1 .. N - 1 : running'[i].node \notin ToSet(TickNodeChain')
      BY <2>1, <2>2
    <3>. HIDE DEF N
    <3>. QED
      BY <2>2, <3>1 DEF CalledOnce
  <2>. QED
    BY <1>3, <2>1, <2>2, <2>4, <2>5
<1>. QED
  BY <1>2, <1>3

LEMMA LastIsRunning ==
  ASSUME running \in Seq(Invocation), running # <<>>, CalledOnce(TickNodeChain, running)
  PROVE  /\ Last(running).node \in Node /\ Last(running).node \notin Linked
         /\ \A i, j \in 1 .. Len(running) - 1 : running[i].node = running[j].node => i = j
         /\ \A i \in 1 .. Len(running) - 1 : /\ running[i].node \notin Linked
                                             /\ running[i].node # Last(running).node
<1>1. /\ Len(running) \in Nat /\ Len(running) \in 1 .. Len(running)
      /\ DOMAIN running = 1 .. Len(running)
  BY RunningFacts, Zenon
<1>2. Last(running) = running[Len(running)]
  BY DEF Last
<1>3. running[Len(running)] \in Invocation
  BY RunningFacts, Zenon
<1>4. \A i \in 1 .. Len(running) - 1 : i \in 1 .. Len(running) /\ i # Len(running)
  BY RunningFacts, Zenon
<1>. QED
  BY <1>1, <1>2, <1>3, <1>4 DEF CalledOnce, Linked, Invocation

\* A periodic event is set again, a spent one goes to the heap; what is due with it is
\* called.
LEMMA HandlerReturnsInv ==
  ASSUME IInv, HandlerReturns
  PROVE  IInv'
<1>. DEFINE n == Last(running).node
            ticks == TickNodeRedo[n]
            c2 == ChainAfterInsert(TickNodeChain, TickNodeLeft, n, ticks)
            l2 == LeftAfterInsert(TickNodeChain, TickNodeLeft, n, ticks)
<1>1. /\ MaxTicks \in Nat /\ TickNodeLeft \in [Node -> Nat]
      /\ Timed(TickNodeChain, TickNodeLeft) /\ Distinct(TickNodeChain)
      /\ \A m, t : Away(TickNodeChain, TickNodeLeft, m, t) =>
           /\ m \in Node /\ m \in Linked
           /\ t \in Nat /\ t <= MaxTicks /\ t >= due[m] /\ due[m] \in Nat
           /\ running = <<>> => t > 0
  BY InvFacts
<1>2. /\ running \in Seq(Invocation) /\ running # <<>> /\ Last(running).at # "freeing"
      /\ CalledOnce(TickNodeChain, running)
      /\ TickNodeRedo' = TickNodeRedo
  BY DEF HandlerReturns, IInv, TypeOK
<1>3. /\ n \in Node /\ n \notin Linked
      /\ \A i, j \in 1 .. Len(running) - 1 : running[i].node = running[j].node => i = j
      /\ \A i \in 1 .. Len(running) - 1 : running[i].node \notin Linked /\ running[i].node # n
  BY <1>2, LastIsRunning
<1>4. CASE ticks # 0
  <2>1. /\ TickNodeLeft' = l2 /\ due' = [due EXCEPT ![n] = ticks]
        /\ Continue(c2, l2)
    BY <1>4 DEF HandlerReturns
  <2>2. ticks \in Nat /\ ticks <= MaxTicks /\ ticks \in 0 .. MaxTicks
    <3>1. TickNodeRedo[n] \in {0} \cup 2 .. MaxTicks
      BY <1>3 DEF IInv, TypeOK
    <3>. QED
      BY <1>1, <3>1
  <2>3. \A i \in 1 .. Len(TickNodeChain) : TickNodeChain[i] # n
    BY <1>1, <1>3 DEF Linked, ToSet, Timed
  <2>. HIDE DEF n, ticks, c2, l2
  <2>4. /\ Timed(c2, l2) /\ Distinct(c2) /\ l2 \in [Node -> Nat]
        /\ \A m \in Node : l2[m] <= IF m = n THEN ticks ELSE TickNodeLeft[m]
        /\ \A m, t : Away(c2, l2, m, t) <=>
             Away(TickNodeChain, TickNodeLeft, m, t) \/ (m = n /\ t = ticks)
    BY <1>1, <1>3, <2>2, <2>3, InsertFacts DEF c2, l2
  <2>5. due' \in [Node -> 0 .. MaxTicks] /\ due'[n] = ticks /\ \A m \in Node \ {n} : due'[m] = due[m]
    BY <1>3, <2>1, <2>2 DEF IInv, TypeOK
  <2>6. \A m, t : Away(c2, l2, m, t) => t <= MaxTicks /\ t >= due'[m]
    <3>. SUFFICES ASSUME NEW m, NEW t, Away(c2, l2, m, t)
                  PROVE  t <= MaxTicks /\ t >= due'[m]
      OBVIOUS
    <3>1. CASE m = n /\ t = ticks
      BY <2>2, <2>5, <3>1
    <3>2. CASE Away(TickNodeChain, TickNodeLeft, m, t)
      <4>1. m # n /\ m \in Node
        BY <1>1, <1>3, <3>2
      <4>. QED
        BY <1>1, <2>5, <3>2, <4>1
    <3>. QED
      BY <2>4, <3>1, <3>2
  <2>7. \A m \in ToSet(c2) : m \in Linked \/ m = n
    <3>. SUFFICES ASSUME NEW m \in ToSet(c2) PROVE m \in Linked \/ m = n
      OBVIOUS
    <3>1. PICK t \in Nat : Away(c2, l2, m, t)
      BY <2>4, LinkedIsAway
    <3>. QED
      BY <1>1, <2>4, <3>1
  <2>8. \A i \in 1 .. Len(running) - 1 : running[i].node \notin ToSet(c2)
    BY <1>3, <2>7
  <2>9. /\ running' \in Seq(Invocation)
        /\ Timed(TickNodeChain', l2) /\ Distinct(TickNodeChain')
        /\ InTime(TickNodeChain', l2, due', running' = <<>>)
        /\ CalledOnce(TickNodeChain', running')
    BY <1>1, <1>2, <1>3, <2>1, <2>4, <2>6, <2>8, ContinueFacts
  <2>10. l2 \in [Node -> 0 .. MaxTicks]
    <3>1. TickNodeLeft \in [Node -> 0 .. MaxTicks]
      BY DEF IInv, TypeOK
    <3>2. \A m \in Node : l2[m] <= MaxTicks
      BY <1>1, <2>2, <2>4, <3>1
    <3>. QED
      BY <1>1, <2>4, <3>2, InRange
  <2>11. TickNodeChain' \in Seq(Node)
    BY <2>9 DEF Timed
  <2>12. TickNodeRedo' \in [Node -> {0} \cup 2 .. MaxTicks]
    BY <1>2 DEF IInv, TypeOK
  <2>13. TypeOK'
    BY <2>1, <2>5, <2>9, <2>10, <2>11, <2>12 DEF TypeOK, MaxTicks, Invocation
  <2>. QED
    BY <2>1, <2>9, <2>13 DEF IInv
<1>5. CASE ticks = 0
  <2>1. /\ running' = [running EXCEPT ![Len(running)].at = "freeing"]
        /\ TickNodeChain' = TickNodeChain /\ TickNodeLeft' = TickNodeLeft /\ due' = due
    BY <1>5 DEF HandlerReturns
  <2>2. /\ running' \in Seq(Invocation) /\ DOMAIN running' = DOMAIN running
        /\ \A i \in DOMAIN running : running'[i].node = running[i].node
        /\ running' # <<>>
    BY <1>2, <2>1, AtChanges
  <2>3. CalledOnce(TickNodeChain, running')
    BY <1>2, <2>2 DEF CalledOnce
  <2>4. InTime(TickNodeChain, TickNodeLeft, due, running' = <<>>)
    BY <2>2 DEF IInv, InTime
  <2>5. TypeOK'
    BY <1>2, <2>1, <2>2 DEF IInv, TypeOK, MaxTicks, Invocation
  <2>. QED
    BY <2>1, <2>3, <2>4, <2>5 DEF IInv
<1>. QED
  BY <1>4, <1>5

LEMMA NodeFreedInv ==
  ASSUME IInv, NodeFreed
  PROVE  IInv'
<1>1. /\ MaxTicks \in Nat /\ TickNodeLeft \in [Node -> Nat]
      /\ Timed(TickNodeChain, TickNodeLeft) /\ Distinct(TickNodeChain)
      /\ \A m, t : Away(TickNodeChain, TickNodeLeft, m, t) => t <= MaxTicks /\ t >= due[m]
  BY InvFacts
<1>2. /\ running \in Seq(Invocation) /\ running # <<>> /\ CalledOnce(TickNodeChain, running)
      /\ Continue(TickNodeChain, TickNodeLeft)
      /\ TickNodeLeft' = TickNodeLeft /\ TickNodeRedo' = TickNodeRedo /\ due' = due
  BY DEF NodeFreed, IInv, TypeOK
<1>3. /\ \A i, j \in 1 .. Len(running) - 1 : running[i].node = running[j].node => i = j
      /\ \A i \in 1 .. Len(running) - 1 : running[i].node \notin ToSet(TickNodeChain)
  BY <1>2, LastIsRunning DEF Linked
<1>4. /\ running' \in Seq(Invocation)
      /\ Timed(TickNodeChain', TickNodeLeft) /\ Distinct(TickNodeChain')
      /\ InTime(TickNodeChain', TickNodeLeft, due, running' = <<>>)
      /\ CalledOnce(TickNodeChain', running')
  BY <1>1, <1>2, <1>3, ContinueFacts
<1>5. TypeOK'
  BY <1>2, <1>4 DEF IInv, TypeOK, Timed, MaxTicks, Invocation
<1>. QED
  BY <1>2, <1>4, <1>5 DEF IInv

LEMMA HandlerEnablesIRQsInv ==
  ASSUME IInv, HandlerEnablesIRQs
  PROVE  IInv'
<1>1. /\ running \in Seq(Invocation) /\ running # <<>>
      /\ running' = [running EXCEPT ![Len(running)].at = "irqs on"]
      /\ TickNodeChain' = TickNodeChain /\ TickNodeLeft' = TickNodeLeft
      /\ TickNodeRedo' = TickNodeRedo /\ due' = due
  BY DEF HandlerEnablesIRQs, IInv, TypeOK
<1>2. /\ running' \in Seq(Invocation) /\ DOMAIN running' = DOMAIN running
      /\ \A i \in DOMAIN running : running'[i].node = running[i].node
      /\ running' # <<>>
  BY <1>1, AtChanges
<1>3. CalledOnce(TickNodeChain, running')
  BY <1>2 DEF IInv, CalledOnce
<1>4. InTime(TickNodeChain, TickNodeLeft, due, running' = <<>>)
  BY <1>2 DEF IInv, InTime
<1>5. TypeOK'
  BY <1>1, <1>2 DEF IInv, TypeOK, MaxTicks, Invocation
<1>. QED
  BY <1>1, <1>3, <1>4, <1>5 DEF IInv

\* A tick brings everything a tick nearer, and calls a head that has none left.
LEMMA ProcessTickEventChainInv ==
  ASSUME IInv, ProcessTickEventChain
  PROVE  IInv'
<1>. DEFINE h == Head(TickNodeChain)
            x == TickNodeLeft[h]
<1>1. /\ MaxTicks \in Nat /\ TickNodeLeft \in [Node -> Nat]
      /\ Timed(TickNodeChain, TickNodeLeft) /\ Distinct(TickNodeChain)
      /\ \A m, t : Away(TickNodeChain, TickNodeLeft, m, t) =>
           /\ m \in Node /\ m \in Linked
           /\ t \in Nat /\ t <= MaxTicks /\ t >= due[m] /\ due[m] \in Nat
           /\ running = <<>> => t > 0
  BY InvFacts
<1>2. /\ TickNodeChain # <<>> /\ running \in Seq(Invocation)
      /\ CalledOnce(TickNodeChain, running)
      /\ TickNodeRedo' = TickNodeRedo
      /\ due' = [n \in Node |-> IF n \in Linked THEN Max({due[n] - 1, 0}) ELSE due[n]]
  BY DEF ProcessTickEventChain, IInv, TypeOK
<1>3. /\ h \in Node /\ x \in Nat /\ Away(TickNodeChain, TickNodeLeft, h, x)
      /\ \A m, t : Away(TickNodeChain, TickNodeLeft, m, t) => x <= t
  BY <1>1, <1>2, HeadFacts
<1>4. \A m \in Linked : m \in Node
  BY <1>1, LinkedIsAway DEF Linked
<1>5. ASSUME NEW m \in Node
      PROVE  /\ due'[m] \in 0 .. MaxTicks
             /\ m \in Linked => due'[m] = IF due[m] >= 1 THEN due[m] - 1 ELSE 0
  <2>1. due[m] \in 0 .. MaxTicks
    BY DEF IInv, TypeOK
  <2>2. Max({due[m] - 1, 0}) = IF due[m] >= 1 THEN due[m] - 1 ELSE 0
    BY <1>1, <2>1, MaxOfTwo
  <2>3. due'[m] = IF m \in Linked THEN Max({due[m] - 1, 0}) ELSE due[m]
    BY <1>2
  <2>. QED
    BY <1>1, <2>1, <2>2, <2>3
<1>6. due' \in [Node -> 0 .. MaxTicks]
  BY <1>2, <1>5
<1>7. TickNodeLeft \in [Node -> 0 .. MaxTicks] /\ TickNodeRedo \in [Node -> {0} \cup 2 .. MaxTicks]
  BY DEF IInv, TypeOK
<1>8. CASE x > 1
  <2>1. /\ TickNodeLeft' = [TickNodeLeft EXCEPT ![h] = x - 1]
        /\ TickNodeChain' = TickNodeChain /\ running' = running
    BY <1>8 DEF ProcessTickEventChain
  <2>2. /\ Timed(TickNodeChain, TickNodeLeft') /\ TickNodeLeft' \in [Node -> Nat]
        /\ \A m, t : Away(TickNodeChain, TickNodeLeft', m, t) =>
             Away(TickNodeChain, TickNodeLeft, m, t + 1)
    <3>1. /\ TickNodeLeft[Head(TickNodeChain)] >= 1
          /\ TickNodeLeft' = [TickNodeLeft EXCEPT
               ![Head(TickNodeChain)] = TickNodeLeft[Head(TickNodeChain)] - 1]
      BY <1>3, <1>8, <2>1
    <3>. HIDE DEF x, h
    <3>. QED
      BY <1>1, <1>2, <3>1, TickFacts
  <2>3. ASSUME NEW m, NEW t, Away(TickNodeChain, TickNodeLeft', m, t)
        PROVE  t <= MaxTicks /\ t >= due'[m] /\ t > 0
    <3>1. t \in Nat /\ m \in Node /\ m \in Linked
      BY <2>2, <2>3, AwayIsNat DEF Linked
    <3>2. Away(TickNodeChain, TickNodeLeft, m, t + 1)
      BY <2>2, <2>3
    <3>3. t + 1 <= MaxTicks /\ t + 1 >= due[m] /\ due[m] \in Nat /\ x <= t + 1
      BY <1>1, <1>3, <3>2
    <3>4. due'[m] = IF due[m] >= 1 THEN due[m] - 1 ELSE 0
      BY <1>5, <3>1
    <3>. HIDE DEF x
    <3>. QED
      BY <1>1, <1>3, <1>8, <3>1, <3>3, <3>4
  <2>4. InTime(TickNodeChain, TickNodeLeft', due', running = <<>>)
    <3>1. TickNodeChain \in Seq(Node)
      BY <1>1 DEF Timed
    <3>. QED
      BY <2>3, <3>1, InTimeByAway
  <2>5. TickNodeLeft' \in [Node -> 0 .. MaxTicks]
    <3>1. x - 1 \in 0 .. MaxTicks
      BY <1>1, <1>3, <1>7, <1>8
    <3>. QED
      BY <1>7, <2>1, <3>1
  <2>6. TypeOK'
    BY <1>2, <1>6, <1>7, <2>1, <2>5 DEF IInv, TypeOK, MaxTicks, Invocation
  <2>. QED
    BY <1>1, <1>2, <2>1, <2>4, <2>6 DEF IInv
<1>9. CASE ~(x > 1)
  <2>1. /\ TickNodeLeft' = [TickNodeLeft EXCEPT ![h] = 0]
        /\ TickNodeChain' = Tail(TickNodeChain)
        /\ running' = Append(running, [node |-> h, at |-> "handler"])
    BY <1>9 DEF ProcessTickEventChain
  <2>2. x = 0 \/ x = 1
    BY <1>3, <1>9
  <2>3. \A m \in Node : m # h => TickNodeLeft'[m] = TickNodeLeft[m]
    BY <1>1, <2>1
  <2>4. TickNodeLeft' \in [Node -> 0 .. MaxTicks]
    <3>1. 0 \in 0 .. MaxTicks
      BY <1>1
    <3>. QED
      BY <1>7, <2>1, <3>1
  <2>. HIDE DEF x, h
  <2>5. /\ Timed(TickNodeChain', TickNodeLeft') /\ Distinct(TickNodeChain')
        /\ TickNodeChain' \in Seq(Node)
        /\ \A m, t : Away(TickNodeChain', TickNodeLeft', m, t) =>
             m # h /\ Away(TickNodeChain, TickNodeLeft, m, t + x)
    BY <1>1, <1>2, <2>1, <2>3, TailFacts DEF h, x, Timed
  <2>6. ASSUME NEW m, NEW t, Away(TickNodeChain', TickNodeLeft', m, t)
        PROVE  t <= MaxTicks /\ t >= due'[m] /\ m # h /\ m \in Linked
    <3>1. t \in Nat
      BY <2>5, <2>6, AwayIsNat
    <3>2. Away(TickNodeChain, TickNodeLeft, m, t + x) /\ m # h
      BY <2>5, <2>6
    <3>3. /\ t + x <= MaxTicks /\ t + x >= due[m] /\ due[m] \in Nat
          /\ m \in Node /\ m \in Linked
      BY <1>1, <3>2
    <3>4. due'[m] = IF due[m] >= 1 THEN due[m] - 1 ELSE 0
      BY <1>5, <3>3
    <3>. QED
      BY <1>1, <1>3, <2>2, <3>1, <3>2, <3>3, <3>4
  <2>7. [node |-> h, at |-> "handler"] \in Invocation
    BY <1>3 DEF Invocation
  <2>8. /\ running' \in Seq(Invocation) /\ Len(running) \in Nat
        /\ Len(running') = Len(running) + 1 /\ DOMAIN running' = 1 .. Len(running) + 1
        /\ DOMAIN running = 1 .. Len(running)
        /\ \A i \in 1 .. Len(running) : running'[i] = running[i]
        /\ running'[Len(running) + 1].node = h
    BY <1>2, <2>1, <2>7
  <2>9. InTime(TickNodeChain', TickNodeLeft', due', running' = <<>>)
    <3>1. running' # <<>>
      BY <2>8
    <3>. QED
      BY <2>5, <2>6, <3>1, InTimeByAway
  <2>10. CalledOnce(TickNodeChain', running')
    <3>1. \A m \in ToSet(TickNodeChain') : m # h /\ m \in Linked
      <4>. SUFFICES ASSUME NEW m \in ToSet(TickNodeChain') PROVE m # h /\ m \in Linked
        OBVIOUS
      <4>1. PICK t \in Nat : Away(TickNodeChain', TickNodeLeft', m, t)
        BY <2>5, LinkedIsAway
      <4>. QED
        BY <2>6, <4>1
    <3>2. h \in Linked
      BY <1>1, <1>3
    <3>3. \A i \in 1 .. Len(running) : running'[i].node \notin Linked
      BY <1>2, <2>8 DEF CalledOnce, Linked
    <3>4. \A i \in 1 .. Len(running) + 1 : i \in 1 .. Len(running) \/ i = Len(running) + 1
      BY <2>8
    <3>5. ASSUME NEW i \in 1 .. Len(running) + 1, NEW j \in 1 .. Len(running) + 1,
                 running'[i].node = running'[j].node
          PROVE  i = j
      <4>1. CASE i = Len(running) + 1 \/ j = Len(running) + 1
        BY <2>8, <3>2, <3>3, <3>4, <3>5, <4>1
      <4>2. CASE i \in 1 .. Len(running) /\ j \in 1 .. Len(running)
        BY <1>2, <2>8, <3>5, <4>2 DEF CalledOnce
      <4>. QED
        BY <3>4, <4>1, <4>2
    <3>6. \A i \in 1 .. Len(running) + 1 : running'[i].node \notin ToSet(TickNodeChain')
      BY <2>8, <3>1, <3>3, <3>4
    <3>. QED
      BY <2>8, <3>5, <3>6 DEF CalledOnce
  <2>11. TypeOK'
    BY <1>2, <1>6, <1>7, <2>4, <2>5, <2>8 DEF TypeOK, MaxTicks, Invocation
  <2>. QED
    BY <2>5, <2>9, <2>10, <2>11 DEF IInv
<1>. QED
  BY <1>8, <1>9

LEMMA NextInv == IInv /\ [Next]_vars => IInv'
<1>. SUFFICES ASSUME IInv, [Next]_vars PROVE IInv'
  OBVIOUS
<1>1. CASE ProcessTickEventChain
  BY <1>1, ProcessTickEventChainInv
<1>2. CASE HandlerReturns
  BY <1>2, HandlerReturnsInv
<1>3. CASE NodeFreed
  BY <1>3, NodeFreedInv
<1>4. CASE HandlerEnablesIRQs
  BY <1>4, HandlerEnablesIRQsInv
<1>5. ASSUME NEW k \in Key, RemoveTickerEvent(k)
      PROVE  IInv'
  BY <1>5, RemoveTickerEventInv
<1>6. ASSUME NEW n \in Node, NEW delay \in 1 .. MaxDelay, NEW every \in BOOLEAN,
             CallAfterOrEvery(n, delay, every)
      PROVE  IInv'
  BY <1>6, CallAfterOrEveryInv
<1>7. CASE UNCHANGED vars
  BY <1>7 DEF vars, IInv, TypeOK, CalledOnce, InTime, Distinct, MaxTicks, Invocation
<1>. QED
  BY <1>1, <1>2, <1>3, <1>4, <1>5, <1>6, <1>7 DEF Next

\* The invariant holds throughout, wherever ticks arrive and whatever is set or removed.
THEOREM Invariance == Spec => []IInv
<1>1. Init => IInv
  BY InitInv
<1>2. IInv /\ [Next]_vars => IInv'
  BY NextInv
<1>. QED
  BY <1>1, <1>2, PTL DEF Spec

\* The chain, the ticks it holds and the periods stay within their types: no sum of ticks,
\* however nodes are removed, is more than a delay that was asked for.
THEOREM TypeCorrect == Spec => []TypeOK
<1>1. IInv => TypeOK
  BY DEF IInv
<1>. QED
  BY <1>1, Invariance, PTL

\* No event is called early: its time has passed when no ticks are left to it.
THEOREM CalledNoEarlier == Spec => []NeverEarly
<1>1. IInv => NeverEarly
  BY DEF IInv, InTime, NeverEarly
<1>. QED
  BY <1>1, Invariance, PTL

\* Between ticks nothing that is due is left on the chain.
THEOREM NothingIsLeftDue == Spec => []NothingDueWaits
<1>1. IInv => NothingDueWaits
  BY DEF IInv, InTime, NothingDueWaits
<1>. QED
  BY <1>1, Invariance, PTL

-----------------------------------------------------------------------------
\* The chain is an exact clock.

\* togo, as a function of the chain and its ticks.
Togo(chain, left) ==
  [n \in ToSet(chain) |->
     LET i == CHOOSE i \in DOMAIN chain : chain[i] = n
     IN  TicksTo(chain, left, i)]

LEMMA TogoNow == togo = Togo(TickNodeChain, TickNodeLeft)
BY DEF togo, Togo, Linked

LEMMA TogoFacts ==
  ASSUME NEW chain, NEW left, Timed(chain, left), Distinct(chain)
  PROVE  /\ DOMAIN Togo(chain, left) = ToSet(chain)
         /\ Togo(chain, left) = [m \in ToSet(chain) |-> Togo(chain, left)[m]]
         /\ \A m \in ToSet(chain) : /\ m \in Node
                                    /\ Togo(chain, left)[m] \in Nat
                                    /\ Away(chain, left, m, Togo(chain, left)[m])
         /\ \A m, t : Away(chain, left, m, t) => m \in ToSet(chain) /\ Togo(chain, left)[m] = t
<1>1. /\ DOMAIN Togo(chain, left) = ToSet(chain)
      /\ Togo(chain, left) = [m \in ToSet(chain) |-> Togo(chain, left)[m]]
  BY DEF Togo
<1>2. ASSUME NEW i \in 1 .. Len(chain)
      PROVE  Togo(chain, left)[chain[i]] = TicksTo(chain, left, i)
  <2>1. DOMAIN chain = 1 .. Len(chain) /\ chain[i] \in ToSet(chain)
    BY DEF Timed, ToSet
  <2>2. (CHOOSE j \in DOMAIN chain : chain[j] = chain[i]) = i
    BY <2>1 DEF Distinct
  <2>. QED
    BY <2>1, <2>2 DEF Togo
<1>3. ASSUME NEW m, NEW t, Away(chain, left, m, t)
      PROVE  m \in ToSet(chain) /\ Togo(chain, left)[m] = t
  <2>1. PICK i \in 1 .. Len(chain) : chain[i] = m /\ TicksTo(chain, left, i) = t
    BY <1>3 DEF Away
  <2>. QED
    BY <1>2, <1>3, <2>1, AwayIsNat
<1>4. ASSUME NEW m \in ToSet(chain)
      PROVE  /\ m \in Node
             /\ Togo(chain, left)[m] \in Nat
             /\ Away(chain, left, m, Togo(chain, left)[m])
  <2>1. PICK t \in Nat : Away(chain, left, m, t)
    BY LinkedIsAway
  <2>. QED
    BY <1>3, <2>1, AwayIsNat
<1>. QED
  BY <1>1, <1>3, <1>4

\* The clock reads f when the chain has just f's timers, each where f says.
LEMMA TogoReads ==
  ASSUME NEW chain, NEW left, Timed(chain, left), Distinct(chain),
         NEW S, NEW f, f = [m \in S |-> f[m]],
         \A m \in S : Away(chain, left, m, f[m]),
         \A m, t : Away(chain, left, m, t) => m \in S
  PROVE  Togo(chain, left) = f
<1>1. ToSet(chain) = S
  BY TogoFacts
<1>2. \A m \in S : Togo(chain, left)[m] = f[m]
  BY TogoFacts
<1>3. Togo(chain, left) = [m \in S |-> Togo(chain, left)[m]]
  BY <1>1, TogoFacts
<1>. QED
  BY <1>2, <1>3

\* What the clock reads, by the chain as it is.
LEMMA ClockNow ==
  ASSUME IInv
  PROVE  /\ Clock!Pending = Linked
         /\ togo = [m \in Linked |-> togo[m]]
         /\ \A m \in Linked : m \in Node /\ togo[m] \in Nat
         /\ \A m, t : Away(TickNodeChain, TickNodeLeft, m, t) <=> m \in Linked /\ togo[m] = t
<1>1. Timed(TickNodeChain, TickNodeLeft) /\ Distinct(TickNodeChain)
  BY InvFacts
<1>. QED
  BY <1>1, TogoNow, TogoFacts DEF Clock!Pending, Linked

LEMMA InitClock == Init => togo = [n \in {} |-> 0]
<1>. SUFFICES ASSUME Init PROVE togo = [n \in {} |-> 0]
  OBVIOUS
<1>1. Linked = {}
  BY DEF Init, Linked, ToSet
<1>. QED
  BY <1>1 DEF togo

LEMMA CallAfterOrEveryClock ==
  ASSUME IInv, NEW n \in Node, NEW delay \in 1 .. MaxDelay, NEW every \in BOOLEAN,
         CallAfterOrEvery(n, delay, every)
  PROVE  Clock!Set(n, delay + 1)
<1>. DEFINE ticks == delay + 1
            c2 == ChainAfterInsert(TickNodeChain, TickNodeLeft, n, ticks)
            l2 == LeftAfterInsert(TickNodeChain, TickNodeLeft, n, ticks)
            f == [m \in Linked \cup {n} |-> IF m = n THEN ticks ELSE togo[m]]
<1>1. n \notin Linked /\ TickNodeChain' = c2 /\ TickNodeLeft' = l2
  BY DEF CallAfterOrEvery
<1>2. /\ TickNodeLeft \in [Node -> Nat] /\ Timed(TickNodeChain, TickNodeLeft)
      /\ Distinct(TickNodeChain) /\ ticks \in Nat
  BY InvFacts
<1>3. \A i \in 1 .. Len(TickNodeChain) : TickNodeChain[i] # n
  BY <1>1, <1>2 DEF Linked, ToSet, Timed
<1>4. /\ f = [m \in Linked \cup {n} |-> f[m]] /\ f[n] = ticks
      /\ \A m \in Linked : f[m] = togo[m]
  BY <1>1
<1>. HIDE DEF ticks, c2, l2, f
<1>5. /\ Timed(c2, l2) /\ Distinct(c2)
      /\ \A m, t : Away(c2, l2, m, t) <=>
           Away(TickNodeChain, TickNodeLeft, m, t) \/ (m = n /\ t = ticks)
  BY <1>2, <1>3, InsertFacts DEF c2, l2
<1>6. \A m, t : Away(TickNodeChain, TickNodeLeft, m, t) <=> m \in Linked /\ togo[m] = t
  BY ClockNow
<1>7. \A m \in Linked \cup {n} : Away(c2, l2, m, f[m])
  BY <1>4, <1>5, <1>6
<1>8. \A m, t : Away(c2, l2, m, t) => m \in Linked \cup {n}
  BY <1>5, <1>6
<1>9. Togo(c2, l2) = f
  BY <1>4, <1>5, <1>7, <1>8, TogoReads
<1>10. togo' = f
  BY <1>1, <1>9 DEF togo, Togo, Linked
<1>11. Clock!Pending = Linked
  BY ClockNow
<1>. QED
  BY <1>1, <1>10, <1>11 DEF Clock!Set, f, ticks

LEMMA RemoveTickerEventClock ==
  ASSUME IInv, NEW k \in Key, RemoveTickerEvent(k)
  PROVE  \E N \in SUBSET Clock!Pending : Clock!Cancel(N)
<1>. DEFINE c2 == KeptChain(k)
            l2 == LeftAfterRemove(k)
            N == {m \in Linked : key[m] = k}
            f == [m \in Linked \ N |-> togo[m]]
<1>1. TickNodeChain' = c2 /\ TickNodeLeft' = l2
  BY DEF RemoveTickerEvent, LeftAfterRemove
<1>2. /\ TickNodeLeft \in [Node -> Nat] /\ Timed(TickNodeChain, TickNodeLeft)
      /\ Distinct(TickNodeChain)
  BY InvFacts
<1>3. /\ f = [m \in Linked \ N |-> f[m]]
      /\ \A m \in Linked \ N : f[m] = togo[m]
      /\ \A m : m \in Linked \ N <=> m \in Linked /\ key[m] # k
  OBVIOUS
<1>. HIDE DEF c2, l2, f
<1>4. /\ Timed(c2, l2) /\ Distinct(c2)
      /\ \A m, t : Away(c2, l2, m, t) <=>
           Away(TickNodeChain, TickNodeLeft, m, t) /\ key[m] # k
  BY <1>2, RemoveFacts DEF c2, l2
<1>5. \A m, t : Away(TickNodeChain, TickNodeLeft, m, t) <=> m \in Linked /\ togo[m] = t
  BY ClockNow
<1>6. Clock!Pending = Linked /\ N \in SUBSET Linked
  BY ClockNow
<1>. HIDE DEF N
<1>7. Togo(c2, l2) = f
  BY <1>3, <1>4, <1>5, TogoReads
<1>8. togo' = f
  BY <1>1, <1>7 DEF togo, Togo, Linked
<1>9. Clock!Cancel(N)
  BY <1>6, <1>8 DEF Clock!Cancel, f
<1>. QED
  BY <1>6, <1>9

\* A tick is a tick of the clock, which calls what is due at it; the second of two ticks
\* calls what the first has left due.
LEMMA ProcessTickEventChainClock ==
  ASSUME IInv, ProcessTickEventChain
  PROVE  Clock!Tick \/ \E n \in Node : Clock!Call(n) \/ Clock!TickAndCall(n)
<1>. DEFINE h == Head(TickNodeChain)
            x == TickNodeLeft[h]
<1>1. /\ TickNodeLeft \in [Node -> Nat] /\ Timed(TickNodeChain, TickNodeLeft)
      /\ Distinct(TickNodeChain)
  BY InvFacts
<1>2. TickNodeChain # <<>>
  BY DEF ProcessTickEventChain
<1>3. /\ h \in Node /\ x \in Nat /\ Away(TickNodeChain, TickNodeLeft, h, x)
      /\ \A m, t : Away(TickNodeChain, TickNodeLeft, m, t) => x <= t
  BY <1>1, <1>2, HeadFacts
<1>4. /\ Clock!Pending = Linked
      /\ \A m \in Linked : m \in Node /\ togo[m] \in Nat
      /\ \A m, t : Away(TickNodeChain, TickNodeLeft, m, t) <=> m \in Linked /\ togo[m] = t
  BY ClockNow
<1>5. h \in Linked /\ togo[h] = x /\ \A m \in Linked : togo[m] \in Nat /\ x <= togo[m]
  BY <1>3, <1>4
<1>6. CASE x > 1
  <2>1. TickNodeLeft' = [TickNodeLeft EXCEPT ![h] = x - 1] /\ TickNodeChain' = TickNodeChain
    BY <1>6 DEF ProcessTickEventChain
  <2>. DEFINE f == [m \in Linked |-> togo[m] - 1]
  <2>2. f = [m \in Linked |-> f[m]] /\ \A m \in Linked : f[m] = togo[m] - 1
    OBVIOUS
  <2>3. /\ TickNodeLeft[Head(TickNodeChain)] >= 1
        /\ TickNodeLeft' = [TickNodeLeft EXCEPT
             ![Head(TickNodeChain)] = TickNodeLeft[Head(TickNodeChain)] - 1]
    BY <1>3, <1>6, <2>1
  <2>. HIDE DEF x, h, f
  <2>4. /\ Timed(TickNodeChain, TickNodeLeft')
        /\ \A m, t : Away(TickNodeChain, TickNodeLeft', m, t) =>
             Away(TickNodeChain, TickNodeLeft, m, t + 1)
        /\ \A m, t : Away(TickNodeChain, TickNodeLeft, m, t) =>
             Away(TickNodeChain, TickNodeLeft', m, t - 1)
    BY <1>1, <1>2, <2>3, TickFacts
  <2>5. ASSUME NEW m \in Linked
        PROVE  Away(TickNodeChain, TickNodeLeft', m, f[m])
    <3>1. Away(TickNodeChain, TickNodeLeft, m, togo[m])
      BY <1>4
    <3>2. Away(TickNodeChain, TickNodeLeft', m, togo[m] - 1)
      BY <2>4, <3>1
    <3>. QED
      BY <2>2, <3>2
  <2>6. \A m, t : Away(TickNodeChain, TickNodeLeft', m, t) => m \in Linked
    BY <1>4, <2>4
  <2>7. Togo(TickNodeChain, TickNodeLeft') = f
    BY <1>1, <2>2, <2>4, <2>5, <2>6, TogoReads
  <2>8. togo' = f
    <3>1. Togo(TickNodeChain', TickNodeLeft') = f
      BY <2>1, <2>7
    <3>. QED
      BY <3>1 DEF togo, Togo, Linked
  <2>9. \A m \in Linked : togo[m] > 0
    BY <1>3, <1>5, <1>6
  <2>. QED
    BY <1>4, <2>8, <2>9 DEF Clock!Tick, f
<1>7. CASE ~(x > 1)
  <2>1. TickNodeLeft' = [TickNodeLeft EXCEPT ![h] = 0] /\ TickNodeChain' = Tail(TickNodeChain)
    BY <1>7 DEF ProcessTickEventChain
  <2>2. \A m \in Node : m # h => TickNodeLeft'[m] = TickNodeLeft[m]
    BY <1>1, <2>1
  <2>3. x = 0 \/ x = 1
    BY <1>3, <1>7
  <2>. DEFINE f == [m \in Linked \ {h} |-> togo[m] - x]
  <2>4. f = [m \in Linked \ {h} |-> f[m]] /\ \A m \in Linked \ {h} : f[m] = togo[m] - x
    OBVIOUS
  <2>. HIDE DEF x, h, f
  <2>5. /\ Timed(TickNodeChain', TickNodeLeft') /\ Distinct(TickNodeChain')
        /\ \A m, t : Away(TickNodeChain', TickNodeLeft', m, t) =>
             m # h /\ Away(TickNodeChain, TickNodeLeft, m, t + x)
        /\ \A m, t : m # h /\ Away(TickNodeChain, TickNodeLeft, m, t) =>
             Away(TickNodeChain', TickNodeLeft', m, t - x)
    BY <1>1, <1>2, <2>1, <2>2, TailFacts DEF h, x
  <2>6. ASSUME NEW m \in Linked \ {h}
        PROVE  Away(TickNodeChain', TickNodeLeft', m, f[m])
    <3>1. m # h /\ Away(TickNodeChain, TickNodeLeft, m, togo[m])
      BY <1>4
    <3>2. Away(TickNodeChain', TickNodeLeft', m, togo[m] - x)
      BY <2>5, <3>1
    <3>. QED
      BY <2>4, <3>2
  <2>7. \A m, t : Away(TickNodeChain', TickNodeLeft', m, t) => m \in Linked \ {h}
    BY <1>4, <2>5
  <2>8. Togo(TickNodeChain', TickNodeLeft') = f
    BY <2>4, <2>5, <2>6, <2>7, TogoReads
  <2>9. togo' = f
    BY <2>8 DEF togo, Togo, Linked
  <2>10. CASE x = 0
    <3>1. f = [m \in Linked \ {h} |-> togo[m]]
      <4>1. \A m \in Linked \ {h} : togo[m] - x = togo[m]
        BY <1>4, <2>10
      <4>. QED
        BY <4>1 DEF f
    <3>2. Clock!Call(h)
      BY <1>4, <1>5, <2>9, <2>10, <3>1 DEF Clock!Call
    <3>. QED
      BY <1>3, <3>2
  <2>11. CASE x = 1
    <3>1. \A m \in Linked : togo[m] > 0
      BY <1>5, <2>11
    <3>2. f = [m \in Linked \ {h} |-> togo[m] - 1]
      BY <2>11 DEF f
    <3>3. Clock!TickAndCall(h)
      BY <1>4, <1>5, <2>9, <2>11, <3>1, <3>2 DEF Clock!TickAndCall
    <3>. QED
      BY <1>3, <3>3
  <2>. QED
    BY <2>3, <2>10, <2>11
<1>. QED
  BY <1>6, <1>7

\* What is left of a chain when its head is called, if that is due.
LEMMA ContinueClock ==
  ASSUME IInv, running # <<>>,
         NEW chain, NEW left \in [Node -> Nat], Timed(chain, left), Distinct(chain),
         \A m, t : Away(chain, left, m, t) => t <= MaxTicks,
         \A m \in ToSet(chain) : m \in Linked \/ m = Last(running).node,
         Continue(chain, left), TickNodeLeft' = left
  PROVE  \/ togo' = Togo(chain, left)
         \/ \E h \in ToSet(chain) :
              /\ Togo(chain, left)[h] = 0
              /\ togo' = [m \in ToSet(chain) \ {h} |-> Togo(chain, left)[m]]
<1>. DEFINE due0 == [m \in Node |-> 0]
<1>1. MaxTicks \in Nat /\ running \in Seq(Invocation)
  BY InvFacts DEF IInv, TypeOK
<1>2. /\ \A m \in ToSet(chain) : /\ m \in Node
                                 /\ Away(chain, left, m, Togo(chain, left)[m])
      /\ \A m, t : Away(chain, left, m, t) => m \in ToSet(chain) /\ Togo(chain, left)[m] = t
  BY TogoFacts
<1>3. \A m, t : Away(chain, left, m, t) => t <= MaxTicks /\ t >= due0[m]
  <2>. SUFFICES ASSUME NEW m, NEW t, Away(chain, left, m, t)
                PROVE  t <= MaxTicks /\ t >= due0[m]
    OBVIOUS
  <2>1. t \in Nat /\ m \in Node
    BY AwayIsNat
  <2>. QED
    BY <2>1
<1>4. /\ \A i, j \in 1 .. Len(running) - 1 : running[i].node = running[j].node => i = j
      /\ \A i \in 1 .. Len(running) - 1 : running[i].node \notin ToSet(chain)
  BY <1>1, LastIsRunning DEF IInv
<1>. HIDE DEF due0
<1>5. /\ Timed(TickNodeChain', left) /\ Distinct(TickNodeChain')
      /\ \A m, t : Away(TickNodeChain', left, m, t) <=>
           /\ Away(chain, left, m, t)
           /\ chain # <<>> /\ left[Head(chain)] = 0 => m # Head(chain)
  BY <1>1, <1>3, <1>4, ContinueFacts
<1>6. CASE chain # <<>> /\ left[Head(chain)] = 0
  <2>. DEFINE h == Head(chain)
              f == [m \in ToSet(chain) \ {h} |-> Togo(chain, left)[m]]
  <2>1. h \in ToSet(chain) /\ Togo(chain, left)[h] = 0
    <3>1. Away(chain, left, h, 0)
      BY <1>6, HeadFacts
    <3>. QED
      BY <1>2, <3>1
  <2>2. /\ f = [m \in ToSet(chain) \ {h} |-> f[m]]
        /\ \A m \in ToSet(chain) \ {h} : f[m] = Togo(chain, left)[m]
    OBVIOUS
  <2>3. \A m, t : Away(TickNodeChain', left, m, t) <=> Away(chain, left, m, t) /\ m # h
    BY <1>5, <1>6
  <2>. HIDE DEF h, f
  <2>4. /\ \A m \in ToSet(chain) \ {h} : Away(TickNodeChain', left, m, f[m])
        /\ \A m, t : Away(TickNodeChain', left, m, t) => m \in ToSet(chain) \ {h}
    BY <1>2, <2>2, <2>3
  <2>5. Togo(TickNodeChain', left) = f
    BY <1>5, <2>2, <2>4, TogoReads
  <2>6. togo' = f
    <3>1. Togo(TickNodeChain', TickNodeLeft') = f
      BY <2>5
    <3>. QED
      BY <3>1 DEF togo, Togo, Linked
  <2>. QED
    BY <2>1, <2>6 DEF f
<1>7. CASE ~(chain # <<>> /\ left[Head(chain)] = 0)
  <2>1. TickNodeChain' = chain
    BY <1>7 DEF Continue
  <2>2. Togo(TickNodeChain', TickNodeLeft') = Togo(chain, left)
    BY <2>1
  <2>3. togo' = Togo(TickNodeChain', TickNodeLeft')
    BY DEF togo, Togo, Linked
  <2>. QED
    BY <2>2, <2>3
<1>. QED
  BY <1>6, <1>7

\* What is due at the same tick is called when the event's code returns, a periodic event
\* being set again first, or when its node is free.
LEMMA HandlerReturnsClock ==
  ASSUME IInv, HandlerReturns
  PROVE  \/ togo' = togo
         \/ \E n \in Node, ticks \in 1 .. MaxTicks :
              Clock!Set(n, ticks) \/ \E m \in Node : Clock!SetAndCall(n, ticks, m)
<1>. DEFINE n == Last(running).node
            ticks == TickNodeRedo[n]
            c2 == ChainAfterInsert(TickNodeChain, TickNodeLeft, n, ticks)
            l2 == LeftAfterInsert(TickNodeChain, TickNodeLeft, n, ticks)
            f == [m \in Linked \cup {n} |-> IF m = n THEN ticks ELSE togo[m]]
<1>1. /\ MaxTicks \in Nat /\ TickNodeLeft \in [Node -> Nat]
      /\ Timed(TickNodeChain, TickNodeLeft) /\ Distinct(TickNodeChain)
      /\ \A m, t : Away(TickNodeChain, TickNodeLeft, m, t) => t <= MaxTicks
  BY InvFacts
<1>2. /\ running \in Seq(Invocation) /\ running # <<>>
      /\ CalledOnce(TickNodeChain, running)
  BY DEF HandlerReturns, IInv, TypeOK
<1>3. n \in Node /\ n \notin Linked
  BY <1>2, LastIsRunning
<1>4. /\ Clock!Pending = Linked
      /\ togo = [m \in Linked |-> togo[m]]
      /\ \A m, t : Away(TickNodeChain, TickNodeLeft, m, t) <=> m \in Linked /\ togo[m] = t
  BY ClockNow
<1>5. CASE ticks = 0
  <2>1. TickNodeChain' = TickNodeChain /\ TickNodeLeft' = TickNodeLeft
    BY <1>5 DEF HandlerReturns
  <2>2. togo' = togo
    BY <2>1 DEF togo, Linked
  <2>. QED
    BY <2>2
<1>6. CASE ticks # 0
  <2>1. TickNodeLeft' = l2 /\ Continue(c2, l2)
    BY <1>6 DEF HandlerReturns
  <2>2. ticks \in Nat /\ ticks \in 1 .. MaxTicks /\ ticks <= MaxTicks
    <3>1. TickNodeRedo[n] \in {0} \cup 2 .. MaxTicks
      BY <1>3 DEF IInv, TypeOK
    <3>. QED
      BY <1>1, <1>6, <3>1
  <2>3. \A i \in 1 .. Len(TickNodeChain) : TickNodeChain[i] # n
    BY <1>1, <1>3 DEF Linked, ToSet, Timed
  <2>4. /\ f = [m \in Linked \cup {n} |-> f[m]] /\ f[n] = ticks
        /\ \A m \in Linked : f[m] = togo[m]
    BY <1>3
  <2>. HIDE DEF ticks, c2, l2, f
  <2>5. /\ Timed(c2, l2) /\ Distinct(c2) /\ l2 \in [Node -> Nat]
        /\ \A m, t : Away(c2, l2, m, t) <=>
             Away(TickNodeChain, TickNodeLeft, m, t) \/ (m = n /\ t = ticks)
    BY <1>1, <1>3, <2>2, <2>3, InsertFacts DEF c2, l2
  <2>6. \A m, t : Away(c2, l2, m, t) => t <= MaxTicks /\ m \in Linked \cup {n}
    BY <1>1, <1>4, <2>2, <2>5
  <2>7. Togo(c2, l2) = f
    <3>1. \A m \in Linked \cup {n} : Away(c2, l2, m, f[m])
      BY <1>4, <2>4, <2>5
    <3>. QED
      BY <2>4, <2>5, <2>6, <3>1, TogoReads
  <2>8. ToSet(c2) = Linked \cup {n}
    <3>1. DOMAIN Togo(c2, l2) = ToSet(c2)
      BY <2>5, TogoFacts
    <3>2. DOMAIN f = Linked \cup {n}
      BY DEF f
    <3>. QED
      BY <2>7, <3>1, <3>2
  <2>9. \/ togo' = f
        \/ \E h \in Linked \cup {n} :
             f[h] = 0 /\ togo' = [m \in (Linked \cup {n}) \ {h} |-> f[m]]
    <3>1. \A m \in ToSet(c2) : m \in Linked \/ m = Last(running).node
      BY <2>8
    <3>2. \/ togo' = Togo(c2, l2)
          \/ \E h \in ToSet(c2) :
               /\ Togo(c2, l2)[h] = 0
               /\ togo' = [m \in ToSet(c2) \ {h} |-> Togo(c2, l2)[m]]
      BY <1>2, <2>1, <2>5, <2>6, <3>1, ContinueClock
    <3>. QED
      BY <2>7, <2>8, <3>2
  <2>. HIDE DEF n
  <2>10. CASE togo' = f
    <3>1. Clock!Set(n, ticks)
      BY <1>3, <1>4, <2>10 DEF Clock!Set, f
    <3>. QED
      BY <1>3, <2>2, <3>1
  <2>11. ASSUME NEW h \in Linked \cup {n}, f[h] = 0,
                togo' = [m \in (Linked \cup {n}) \ {h} |-> f[m]]
         PROVE  \E m \in Node : Clock!SetAndCall(n, ticks, m)
    <3>1. h \in Linked /\ togo[h] = 0 /\ h # n
      BY <1>3, <2>2, <2>4, <2>11
    <3>2. h \in Node
      BY <3>1, ClockNow
    <3>3. togo' = [m \in (Linked \cup {n}) \ {h} |-> IF m = n THEN ticks ELSE togo[m]]
      BY <2>4, <2>11
    <3>4. Clock!SetAndCall(n, ticks, h)
      BY <1>3, <1>4, <3>1, <3>3 DEF Clock!SetAndCall
    <3>. QED
      BY <3>2, <3>4
  <2>. QED
    BY <1>3, <2>2, <2>9, <2>10, <2>11
<1>. QED
  BY <1>5, <1>6

LEMMA NodeFreedClock ==
  ASSUME IInv, NodeFreed
  PROVE  togo' = togo \/ \E n \in Node : Clock!Call(n)
<1>1. /\ TickNodeLeft \in [Node -> Nat]
      /\ Timed(TickNodeChain, TickNodeLeft) /\ Distinct(TickNodeChain)
      /\ \A m, t : Away(TickNodeChain, TickNodeLeft, m, t) => t <= MaxTicks
  BY InvFacts
<1>2. /\ running # <<>> /\ Continue(TickNodeChain, TickNodeLeft)
      /\ TickNodeLeft' = TickNodeLeft
  BY DEF NodeFreed
<1>3. togo = Togo(TickNodeChain, TickNodeLeft) /\ ToSet(TickNodeChain) = Linked
  BY TogoNow DEF Linked
<1>4. Clock!Pending = Linked /\ \A m \in Linked : m \in Node
  BY ClockNow
<1>5. \/ togo' = togo
      \/ \E h \in Linked : togo[h] = 0 /\ togo' = [m \in Linked \ {h} |-> togo[m]]
  <2>. DEFINE c == TickNodeChain
              l == TickNodeLeft
  <2>1. \A m \in ToSet(c) : m \in Linked \/ m = Last(running).node
    BY <1>3
  <2>2. \/ togo' = Togo(c, l)
        \/ \E h \in ToSet(c) :
             /\ Togo(c, l)[h] = 0
             /\ togo' = [m \in ToSet(c) \ {h} |-> Togo(c, l)[m]]
    BY <1>1, <1>2, <2>1, ContinueClock
  <2>. QED
    BY <1>3, <2>2
<1>. QED
  BY <1>4, <1>5 DEF Clock!Call

LEMMA NextClock == IInv /\ [Next]_vars => [Clock!Next]_togo
<1>. SUFFICES ASSUME IInv, [Next]_vars PROVE [Clock!Next]_togo
  OBVIOUS
<1>1. CASE ProcessTickEventChain
  BY <1>1, ProcessTickEventChainClock DEF Clock!Next
<1>2. CASE HandlerReturns
  BY <1>2, HandlerReturnsClock DEF Clock!Next
<1>3. CASE NodeFreed
  BY <1>3, NodeFreedClock DEF Clock!Next
<1>4. CASE HandlerEnablesIRQs
  <2>1. TickNodeChain' = TickNodeChain /\ TickNodeLeft' = TickNodeLeft
    BY <1>4 DEF HandlerEnablesIRQs
  <2>2. togo' = togo
    BY <2>1 DEF togo, Linked
  <2>. QED
    BY <2>2
<1>5. ASSUME NEW k \in Key, RemoveTickerEvent(k)
      PROVE  Clock!Next
  BY <1>5, RemoveTickerEventClock DEF Clock!Next
<1>6. ASSUME NEW n \in Node, NEW delay \in 1 .. MaxDelay, NEW every \in BOOLEAN,
             CallAfterOrEvery(n, delay, every)
      PROVE  Clock!Next
  <2>1. Clock!Set(n, delay + 1)
    BY <1>6, CallAfterOrEveryClock
  <2>2. delay + 1 \in 1 .. MaxTicks
    BY TickEventsAssumption DEF MaxTicks
  <2>. QED
    BY <2>1, <2>2 DEF Clock!Next
<1>7. CASE UNCHANGED vars
  <2>1. TickNodeChain' = TickNodeChain /\ TickNodeLeft' = TickNodeLeft
    BY <1>7 DEF vars
  <2>2. togo' = togo
    BY <2>1 DEF togo, Linked
  <2>. QED
    BY <2>2
<1>. QED
  BY <1>1, <1>2, <1>3, <1>4, <1>5, <1>6, <1>7 DEF Next

\* The chain of differences keeps exact time: ticks bring every event one nearer or call
\* what is due, setting and removing events moves no other, and no event is lost.
THEOREM ChainKeepsTime == Spec => KeepsTime
<1>1. Init => togo = [n \in {} |-> 0]
  BY InitClock
<1>2. IInv /\ [Next]_vars => [Clock!Next]_togo
  BY NextClock
<1>. QED
  BY <1>1, <1>2, Invariance, PTL DEF Spec, KeepsTime, Clock!Spec
=============================================================================
