--------------------------- MODULE StackPool_proofs ---------------------------
(***************************************************************************)
(* The SVC stack pool of RTSupport, for any number and size of the areas   *)
(* and lists: module_Initialise, RT_Register and RT_Deregister keep every  *)
(* safety property that the runs of StackPool check.                       *)
(*                                                                         *)
(* First come facts about lists (what moving their first elements does),   *)
(* then the arithmetic of the layout, then the invariant of the pool and   *)
(* what each piece of the calls does to it, then the calls themselves.     *)
(***************************************************************************)
EXTENDS StackPool, TLAPS, SequenceTheorems, FiniteSetTheorems

-----------------------------------------------------------------------------
(* The first n elements of a list, the rest of it, and another list with them at its head,     *)
(* the last of them first: the way the loops of RebalanceEmergencyList move them.               *)
Moved(from, n) == {from[i] : i \in 1..n}
Rest(from, n) == SubSeq(from, n + 1, Len(from))
Joined(from, n, to) == Reverse(SubSeq(from, 1, n)) \o to

(* Two lists without repetition or common elements stay so when some move from one to the other. *)
LEMMA MoveSome ==
  ASSUME NEW S, NEW from \in Seq(S), NEW to \in Seq(S), NEW n \in 0..Len(from),
         IsInjective(from), IsInjective(to), ToSet(from) \cap ToSet(to) = {}
  PROVE  /\ Rest(from, n) \in Seq(S) /\ Len(Rest(from, n)) = Len(from) - n
         /\ Joined(from, n, to) \in Seq(S) /\ Len(Joined(from, n, to)) = Len(to) + n
         /\ IsInjective(Rest(from, n)) /\ IsInjective(Joined(from, n, to))
         /\ Moved(from, n) \subseteq ToSet(from)
         /\ ToSet(Rest(from, n)) = ToSet(from) \ Moved(from, n)
         /\ ToSet(Joined(from, n, to)) = ToSet(to) \cup Moved(from, n)
<1> DEFINE first == SubSeq(from, 1, n)
           back == Reverse(first)
<1>0. PICK rest, joined, moved :
        /\ rest = SubSeq(from, n + 1, Len(from)) /\ rest = Rest(from, n)
        /\ joined = Reverse(SubSeq(from, 1, n)) \o to /\ joined = Joined(from, n, to)
        /\ moved = {from[i] : i \in 1..n} /\ moved = Moved(from, n)
  BY DEF Rest, Joined, Moved
<1>1. /\ Len(from) \in Nat /\ DOMAIN from = 1..Len(from)
      /\ Len(to) \in Nat /\ DOMAIN to = 1..Len(to)
      /\ \A i \in 1..Len(from) : from[i] \in S
      /\ n \in Nat /\ n <= Len(from)
  BY LenProperties
<1>20. Len(from) \in Nat /\ Len(to) \in Nat /\ n \in Nat /\ n <= Len(from)
  BY <1>1
<1>21. /\ \A i \in 1..Len(from), j \in 1..Len(from) : from[i] = from[j] => i = j
      /\ \A i \in 1..Len(to), j \in 1..Len(to) : to[i] = to[j] => i = j
  BY <1>1 DEF IsInjective
<1>2. /\ first \in Seq(S) /\ Len(first) = n
      /\ \A i \in 1..n : first[i] = from[i]
  <2>1. \A i \in 1..n : from[i] \in S
    BY <1>1
  <2>2. /\ SubSeq(from, 1, n) \in Seq(S)
        /\ Len(SubSeq(from, 1, n)) = IF 1 <= n THEN n - 1 + 1 ELSE 0
        /\ \A i \in 1..n - 1 + 1 : SubSeq(from, 1, n)[i] = from[1 + i - 1]
    BY <2>1, <1>1, SubSeqProperties
  <2>3. n - 1 + 1 = n
    BY <1>1
  <2>4. \A i \in 1..n : SubSeq(from, 1, n)[i] = from[i]
    BY <2>2, <2>3
  <2> QED BY <2>2, <2>4, <1>1
<1>3. /\ rest \in Seq(S) /\ Len(rest) = Len(from) - n
      /\ \A i \in 1..Len(from) - n : rest[i] = from[n + i]
  <2>1. \A i \in n + 1 .. Len(from) : from[i] \in S
    BY <1>1
  <2>2. /\ rest \in Seq(S)
        /\ Len(rest) = IF n + 1 <= Len(from) THEN Len(from) - (n + 1) + 1 ELSE 0
        /\ \A i \in 1..Len(from) - (n + 1) + 1 : rest[i] = from[n + 1 + i - 1]
    BY <2>1, <1>0, <1>1, SubSeqProperties
  <2>3. Len(from) - (n + 1) + 1 = Len(from) - n
    BY <1>1
  <2>4. ASSUME NEW i \in 1..Len(from) - n PROVE rest[i] = from[n + i]
    <3>1. n + 1 + i - 1 = n + i
      BY <1>1
    <3>2. i \in 1..Len(from) - (n + 1) + 1
      BY <2>3
    <3>3. rest[i] = from[n + 1 + i - 1]
      BY <2>2, <3>2
    <3> QED BY <3>1, <3>3
  <2>5. Len(rest) = Len(from) - n
    BY <2>2, <1>20
  <2> QED BY <2>2, <2>4, <2>5
<1>4. /\ back \in Seq(S) /\ Len(back) = n
      /\ \A i \in 1..n : back[i] = from[n - i + 1]
  <2>1. back = [i \in 1..n |-> first[(n - i) + 1]]
    BY <1>2 DEF Reverse
  <2>2. \A i \in 1..n : first[(n - i) + 1] = from[n - i + 1] /\ from[n - i + 1] \in S
    BY <1>1, <1>2
  <2>3. back \in [1..n -> S]
    BY <2>1, <2>2
  <2>4. back \in Seq(S)
    BY <2>3, <1>1, SeqDef
  <2>5. Len(back) = n
    BY <2>1, <2>4, <1>1, LenProperties
  <2> QED BY <2>1, <2>2, <2>4, <2>5
<1>5. /\ joined \in Seq(S) /\ Len(joined) = Len(to) + n
      /\ \A i \in 1..Len(to) + n : joined[i] = IF i <= n THEN from[n - i + 1] ELSE to[i - n]
  <2>1. /\ back \o to \in Seq(S)
        /\ Len(back \o to) = Len(back) + Len(to)
        /\ \A i \in 1..Len(back) + Len(to) : (back \o to)[i] = IF i <= Len(back) THEN back[i] ELSE to[i - Len(back)]
    BY <1>4, ConcatProperties
  <2>2. joined = back \o to
    BY <1>0
  <2> HIDE DEF back
  <2>3. n + Len(to) = Len(to) + n
    BY <1>1
  <2>4. ASSUME NEW i \in 1..Len(to) + n
        PROVE  joined[i] = IF i <= n THEN from[n - i + 1] ELSE to[i - n]
    <3>1. joined[i] = IF i <= n THEN back[i] ELSE to[i - n]
      BY <2>1, <2>2, <2>3, <1>4
    <3>2. i <= n => i \in 1..n
      BY <1>1
    <3> QED BY <3>1, <3>2, <1>4
  <2> QED BY <2>1, <2>2, <2>3, <2>4, <1>4
<1>6. DOMAIN rest = 1..Len(from) - n /\ DOMAIN joined = 1..Len(to) + n
  BY <1>3, <1>5, LenProperties
<1>7. IsInjective(rest)
  <2> SUFFICES ASSUME NEW i \in 1..Len(from) - n, NEW j \in 1..Len(from) - n, rest[i] = rest[j]
               PROVE  i = j
    BY <1>6 DEF IsInjective
  <2>1. n + i \in 1..Len(from) /\ n + j \in 1..Len(from)
    BY <1>1
  <2>2. n + i = n + j
    BY <2>1, <1>21, <1>3
  <2> QED BY <2>2, <1>1
<1>8. \A i \in 1..Len(from), j \in 1..Len(to) : from[i] # to[j]
  BY <1>1 DEF ToSet
<1>9. IsInjective(joined)
  <2> SUFFICES ASSUME NEW i \in 1..Len(to) + n, NEW j \in 1..Len(to) + n, joined[i] = joined[j]
               PROVE  i = j
    BY <1>6 DEF IsInjective
  <2>1. CASE i <= n /\ j <= n
    <3>1. n - i + 1 \in 1..Len(from) /\ n - j + 1 \in 1..Len(from)
      BY <2>1, <1>1
    <3>2. n - i + 1 = n - j + 1
      BY <2>1, <3>1, <1>21, <1>5
    <3> QED BY <3>2, <1>1
  <2>2. CASE i > n /\ j > n
    <3>1. i - n \in 1..Len(to) /\ j - n \in 1..Len(to)
      BY <2>2, <1>1
    <3>2. joined[i] = to[i - n] /\ joined[j] = to[j - n]
      BY <2>2, <1>1, <1>5
    <3>3. i - n = j - n
      BY <3>1, <3>2, <1>21
    <3> QED BY <3>3, <1>1
  <2>3. ASSUME NEW a \in 1..Len(to) + n, NEW b \in 1..Len(to) + n, a <= n, b > n
        PROVE  joined[a] # joined[b]
    <3>1. n - a + 1 \in 1..Len(from) /\ b - n \in 1..Len(to) /\ ~(b <= n)
      BY <2>3, <1>20
    <3>2. joined[a] = from[n - a + 1] /\ joined[b] = to[b - n]
      BY <2>3, <3>1, <1>5
    <3> QED BY <3>1, <3>2, <1>8
  <2>4. (i <= n \/ i > n) /\ (j <= n \/ j > n)
    BY <1>1
  <2> QED BY <2>1, <2>2, <2>3, <2>4
<1>10. moved \subseteq ToSet(from)
  <2>1. 1..n \subseteq 1..Len(from)
    BY <1>1
  <2> QED BY <2>1, <1>0, <1>1 DEF ToSet
<1>11. ToSet(rest) = ToSet(from) \ moved
  <2>1. ASSUME NEW x \in ToSet(rest) PROVE x \in ToSet(from) \ moved
    <3>1. PICK i \in 1..Len(from) - n : x = rest[i]
      BY <1>6 DEF ToSet
    <3>2. n + i \in 1..Len(from) /\ x = from[n + i]
      <4>1. n + i \in 1..Len(from)
        BY <1>1
      <4> QED BY <4>1, <3>1, <1>3
    <3>3. ASSUME NEW j \in 1..n, x = from[j] PROVE FALSE
      <4>1. j \in 1..Len(from) /\ j # n + i
        BY <1>1
      <4> QED BY <4>1, <3>2, <3>3, <1>21
    <3> QED BY <3>2, <3>3, <1>0, <1>1 DEF ToSet
  <2>2. ASSUME NEW x \in ToSet(from) \ moved PROVE x \in ToSet(rest)
    <3>1. PICK i \in 1..Len(from) : x = from[i]
      BY <1>1 DEF ToSet
    <3>2. i > n
      <4>1. ~(i \in 1..n)
        BY <3>1, <2>2, <1>0
      <4> QED BY <4>1, <1>1
    <3>3. i - n \in 1..Len(from) - n /\ n + (i - n) = i
      BY <3>2, <1>1
    <3>4. rest[i - n] = x
      BY <3>1, <3>3, <1>3
    <3> QED BY <3>3, <3>4, <1>6 DEF ToSet
  <2> QED BY <2>1, <2>2
<1>12. ToSet(joined) = ToSet(to) \cup moved
  <2>1. ASSUME NEW x \in ToSet(joined) PROVE x \in ToSet(to) \cup moved
    <3>1. PICK i \in 1..Len(to) + n : x = joined[i]
      BY <1>6 DEF ToSet
    <3>2. CASE i <= n
      <4>1. n - i + 1 \in 1..n /\ x = from[n - i + 1]
        BY <3>1, <3>2, <1>1, <1>5
      <4> QED BY <4>1, <1>0
    <3>3. CASE i > n
      <4>1. i - n \in 1..Len(to) /\ x = to[i - n]
        BY <3>1, <3>3, <1>1, <1>5
      <4> QED BY <4>1, <1>1 DEF ToSet
    <3> QED BY <3>2, <3>3
  <2>2. ASSUME NEW x \in ToSet(to) PROVE x \in ToSet(joined)
    <3>1. PICK i \in 1..Len(to) : x = to[i]
      BY <1>1 DEF ToSet
    <3>2. i + n \in 1..Len(to) + n /\ joined[i + n] = x
      BY <3>1, <1>1, <1>5
    <3> QED BY <3>2, <1>6 DEF ToSet
  <2>3. ASSUME NEW x \in moved PROVE x \in ToSet(joined)
    <3>1. PICK i \in 1..n : x = from[i]
      BY <1>0
    <3>2. n - i + 1 \in 1..Len(to) + n /\ n - i + 1 <= n /\ n - (n - i + 1) + 1 = i
      BY <1>1
    <3>3. joined[n - i + 1] = x
      BY <3>1, <3>2, <1>5
    <3> QED BY <3>2, <3>3, <1>6 DEF ToSet
  <2> QED BY <2>1, <2>2, <2>3
<1> QED BY <1>0, <1>3, <1>5, <1>7, <1>9, <1>10, <1>11, <1>12

-----------------------------------------------------------------------------
(* The greater of two numbers. *)
LEMMA LargestOfTwo ==
  ASSUME NEW a \in Int, NEW b \in Int
  PROVE  LargestOf({a, b}) \in {a, b} /\ LargestOf({a, b}) >= a /\ LargestOf({a, b}) >= b
<1>1. \E x \in {a, b} : \A y \in {a, b} : x >= y
  OBVIOUS
<1> QED BY <1>1 DEF LargestOf

(* The lesser of two numbers. *)
LEMMA SmallestOfTwo ==
  ASSUME NEW a \in Int, NEW b \in Int
  PROVE  SmallestOf({a, b}) \in {a, b} /\ SmallestOf({a, b}) <= a /\ SmallestOf({a, b}) <= b
<1>1. \E x \in {a, b} : \A y \in {a, b} : x <= y
  OBVIOUS
<1> QED BY <1>1 DEF SmallestOf

(* m is the bottom of the shared stack: the first multiple of a megabyte that leaves a page    *)
(* below it in the area.                                                                         *)
LEMMA SharedStackPlace ==
  ASSUME NEW da \in Base, NEW m, m = RoutineSVCStack(da) - STACK_SIZE
  PROVE  /\ da \in Nat /\ m \in Int /\ da % 4 = 0 /\ m % 4 = 0
         /\ da + 4 <= m /\ m <= da + MB
<1> DEFINE n == (da + PAGE_SIZE + MB - 1) \div MB
<1>1. da \in Nat /\ da % 4 = 0 /\ MB \in Nat /\ MB > 0 /\ MB % 8 = 0
  BY StackPoolAssumption DEF PAGE_SIZE, STACK_SIZE
<1>2. m = n * MB /\ n \in Int
  BY <1>1 DEF RoutineSVCStack, STACK_SIZE, PAGE_SIZE
<1>3. n * MB <= da + 4 + MB - 1 /\ da + 4 + MB - 1 < n * MB + MB
  <2>1. da + 4 + MB - 1 \in Int
    BY <1>1
  <2>2. ASSUME NEW x \in Int PROVE (x \div MB) * MB <= x /\ x < (x \div MB) * MB + MB
    <3>1. MB \in Int /\ MB > 0
      BY <1>1
    <3>2. x \div MB \in Int /\ x = MB * (x \div MB) + (x % MB)
      BY <3>1
    <3>3. x % MB \in Int /\ 0 <= x % MB /\ x % MB < MB
      BY <3>1
    <3>4. MB * (x \div MB) = (x \div MB) * MB
      BY <3>1, <3>2
    <3> QED BY <3>1, <3>2, <3>3, <3>4
  <2> QED BY <2>1, <2>2 DEF PAGE_SIZE
<1>4. m % 4 = 0 /\ MB % 4 = 0
  <2>1. PICK k \in Int : MB = 4 * k
    <3>1. MB \div 8 \in Int /\ MB = 4 * (2 * (MB \div 8))
      BY <1>1
    <3>2. 2 * (MB \div 8) \in Int
      BY <3>1
    <3> QED BY <3>1, <3>2
  <2>2. n * MB = 4 * (n * k) /\ n * k \in Int
    BY <1>2, <2>1
  <2>3. \A x \in Int : (4 * x) % 4 = 0
    OBVIOUS
  <2> QED BY <2>1, <2>2, <2>3, <1>2
<1> HIDE DEF n
<1>5. da + 4 <= m /\ m < da + 4 + MB /\ m \in Int
  BY <1>1, <1>2, <1>3
<1>6. m <= da + MB
  BY <1>1, <1>4, <1>5
<1> QED BY <1>1, <1>4, <1>5, <1>6

(* Where the stacks are when no record has been given another's. *)
Layout(da) == {StackAddresses(da)[s] : s \in Stack}

(* The arithmetic of module_Initialise: every stack lies in the area, below the lower guard    *)
(* page or above the upper, and the next begins where it ends or later.                         *)
LEMMA LayoutNumbers ==
  ASSUME NEW da \in Base, NEW m, m = RoutineSVCStack(da) - STACK_SIZE
  PROVE  /\ DA_SIZE \in Int /\ m - 4 >= da /\ m + 12 <= da + DA_SIZE
         /\ \A s \in Stack :
              LET a == StackAddresses(da)[s]
              IN /\ a \in Int /\ a % 4 = 0 /\ a >= da /\ a + 8 <= da + DA_SIZE
                 /\ a + 8 <= m - 4 \/ a >= m + 12
         /\ \A s, t \in Stack : s < t => StackAddresses(da)[s] + 8 <= StackAddresses(da)[t]
<1> USE DEF STACK_SIZE, PAGE_SIZE
<1> DEFINE last == LastStackBeforeMB(da)
           straight(s) == da + (s - 1) * 8
<1>1. /\ da \in Nat /\ m \in Int /\ da % 4 = 0 /\ m % 4 = 0
      /\ da + 4 <= m /\ m <= da + MB /\ MB \in Nat /\ ROUTINES \in Nat
  BY SharedStackPlace, StackPoolAssumption
<1>2. RoutineSVCStack(da) = m + 8
  <2>1. RoutineSVCStack(da) \in Int
    BY StackPoolAssumption DEF RoutineSVCStack
  <2> QED BY <2>1, <1>1
<1>3. last = da + ((m - da - 4) - ((m - da - 4) % 8))
  <2>1. PICK r \in Int : r = RoutineSVCStack(da) /\ r = m + 8
    BY <1>1, <1>2
  <2>2. last = da + ((r - da - 8 - 4) - ((r - da - 8 - 4) % (2 * 4)))
    BY <2>1 DEF LastStackBeforeMB, EvenPages
  <2>3. r - da - 8 - 4 = m - da - 4 /\ 2 * 4 = 8
    BY <1>1, <2>1
  <2> HIDE DEF last
  <2> QED BY <2>2, <2>3
<1>4. /\ last \in Int /\ (last - da) % 8 = 0 /\ last >= da
      /\ last <= m - 4 /\ last >= m - 8 /\ last % 4 = 0
  <2>1. PICK d \in Int : d = m - da - 4 /\ d >= 0 /\ d % 4 = 0
    BY <1>1
  <2>2. /\ d - (d % 8) \in Int /\ (d - (d % 8)) % 8 = 0 /\ d - (d % 8) >= 0
        /\ d - (d % 8) <= d /\ d - (d % 8) >= d - 4
    BY <2>1
  <2>3. PICK e \in Int : e = d - (d % 8)
    BY <2>2
  <2>4. last = da + e /\ e % 8 = 0 /\ e >= 0 /\ e <= d /\ e >= d - 4
    BY <2>1, <2>2, <2>3, <1>3
  <2> HIDE DEF last
  <2> QED BY <2>1, <2>4, <1>1
<1>5. ASSUME NEW s \in Stack
      PROVE  /\ straight(s) \in Int /\ straight(s) % 4 = 0 /\ straight(s) >= da
             /\ (straight(s) - da) % 8 = 0
             /\ straight(s) <= da + 8 * ROUTINES - 8
             /\ StackAddresses(da)[s] = IF straight(s) >= last THEN m + 12 + (straight(s) - last)
                                        ELSE straight(s)
  <2>1. s \in Int /\ s >= 1 /\ s <= ROUTINES
    BY <1>1 DEF Stack
  <2>2. StackAddresses(da)[s] = IF straight(s) >= last /\ (last - da) % 8 = 0
                                THEN RoutineSVCStack(da) + 4 + (straight(s) - last)
                                ELSE straight(s)
    BY DEF StackAddresses
  <2>3. /\ straight(s) \in Int /\ straight(s) % 4 = 0 /\ straight(s) >= da
        /\ (straight(s) - da) % 8 = 0
        /\ straight(s) <= da + 8 * ROUTINES - 8
    BY <2>1, <1>1
  <2> HIDE DEF last, straight
  <2> QED BY <2>2, <2>3, <1>1, <1>2, <1>4
<1>6. /\ DA_SIZE \in Int /\ DA_SIZE >= MB + 12 /\ DA_SIZE >= 20 + 8 * ROUTINES
  <2>1. MB + 8 + 4 \in Int /\ 8 + 8 + 4 + ROUTINES * 8 \in Int
    BY <1>1
  <2>2. DA_SIZE = LargestOf({MB + 8 + 4, 8 + 8 + 4 + ROUTINES * 8})
    BY DEF DA_SIZE
  <2>3. /\ DA_SIZE \in {MB + 8 + 4, 8 + 8 + 4 + ROUTINES * 8}
        /\ DA_SIZE >= MB + 8 + 4 /\ DA_SIZE >= 8 + 8 + 4 + ROUTINES * 8
    BY <2>1, <2>2, LargestOfTwo
  <2> QED BY <2>1, <2>3, <1>1
<1>7. m - 4 >= da /\ m + 12 <= da + DA_SIZE
  BY <1>1, <1>6
<1>8. ASSUME NEW s \in Stack, NEW a, a = StackAddresses(da)[s]
      PROVE  /\ a \in Int /\ a % 4 = 0 /\ a >= da /\ a + 8 <= da + DA_SIZE
             /\ a + 8 <= m - 4 \/ a >= m + 12
  <2>1. PICK w \in Int : w = straight(s)
    BY <1>5
  <2> HIDE DEF last, straight
  <2>2. /\ w % 4 = 0 /\ w >= da /\ (w - da) % 8 = 0 /\ w <= da + 8 * ROUTINES - 8
        /\ a = IF w >= last THEN m + 12 + (w - last) ELSE w
    BY <1>5, <2>1, <1>8
  <2>3. CASE w >= last
    BY <2>2, <2>3, <1>1, <1>4, <1>6
  <2>4. CASE w < last
    <3>1. w + 8 <= last
      BY <2>2, <2>4, <1>1, <1>4
    <3>2. a = w /\ a + 8 <= m - 4
      BY <3>1, <2>2, <2>4, <1>1, <1>4
    <3>3. a + 8 <= da + DA_SIZE
      BY <3>2, <1>1, <1>6, <1>7
    <3> QED BY <3>2, <3>3, <2>2
  <2> QED BY <2>3, <2>4, <1>4
<1>9. ASSUME NEW s \in Stack, NEW t \in Stack, s < t
      PROVE  StackAddresses(da)[s] + 8 <= StackAddresses(da)[t]
  <2>1. straight(s) + 8 <= straight(t)
    BY <1>1, <1>9 DEF Stack
  <2>2. PICK v \in Int, w \in Int : v = straight(s) /\ w = straight(t)
    BY <1>5
  <2> HIDE DEF last, straight
  <2>3. /\ v + 8 <= w /\ (v - da) % 8 = 0 /\ (w - da) % 8 = 0
        /\ StackAddresses(da)[s] = IF v >= last THEN m + 12 + (v - last) ELSE v
        /\ StackAddresses(da)[t] = IF w >= last THEN m + 12 + (w - last) ELSE w
    BY <1>5, <2>1, <2>2
  <2>4. v < last => v + 8 <= last
    BY <2>3, <1>1, <1>4
  <2> QED BY <2>3, <2>4, <1>1, <1>4
<1> QED BY <1>6, <1>7, <1>8, <1>9

(* What the numbers come to: the stacks of the layout have pages of their own. *)
LEMMA LayoutPages ==
  ASSUME NEW da \in Base
  PROVE  /\ \A s, t \in Stack : StackAddresses(da)[s] = StackAddresses(da)[t] => s = t
         /\ \A x, y \in Layout(da) : x # y => Pages(x) \cap Pages(y) = {}
         /\ \A x \in Layout(da) :
              /\ x \in Nat /\ x \in AreaPages(da)
              /\ Pages(x) \subseteq AreaPages(da) \ (SharedStack(da) \cup GuardPages(da))
         /\ SharedStack(da) \cup GuardPages(da) \subseteq AreaPages(da)
<1> USE DEF PAGE_SIZE, STACK_SIZE
<1>1. PICK m \in Int : m = RoutineSVCStack(da) - STACK_SIZE
  BY SharedStackPlace
<1>2. /\ da \in Nat /\ m % 4 = 0 /\ da % 4 = 0 /\ ROUTINES \in Nat
      /\ SharedStack(da) = {m, m + 4} /\ GuardPages(da) = {m - 4, m + 8}
  <2>1. /\ da \in Nat /\ m % 4 = 0 /\ da % 4 = 0 /\ ROUTINES \in Nat
    BY <1>1, SharedStackPlace, StackPoolAssumption
  <2>2. RoutineSVCStack(da) = m + 8
    <3>1. RoutineSVCStack(da) \in Int
      BY StackPoolAssumption DEF RoutineSVCStack
    <3> QED BY <3>1, <1>1
  <2>3. SharedStack(da) = {m, m + 4}
    <3>1. RoutineSVCStack(da) - STACK_SIZE = m
      BY <1>1
    <3> QED BY <3>1 DEF SharedStack, Pages
  <2>4. GuardPages(da) = {m - 4, m + 8}
    <3>1. RoutineSVCStack(da) - STACK_SIZE = m
      BY <1>1
    <3> QED BY <3>1, <2>2 DEF GuardPages
  <2> QED BY <2>1, <2>3, <2>4
<1>3. /\ DA_SIZE \in Int /\ m - 4 >= da /\ m + 12 <= da + DA_SIZE
      /\ \A s \in Stack :
           LET a == StackAddresses(da)[s]
           IN /\ a \in Int /\ a % 4 = 0 /\ a >= da /\ a + 8 <= da + DA_SIZE
              /\ a + 8 <= m - 4 \/ a >= m + 12
      /\ \A s, t \in Stack : s < t => StackAddresses(da)[s] + 8 <= StackAddresses(da)[t]
  BY <1>1, LayoutNumbers
<1>4. \A x \in Int : x >= da /\ x <= da + DA_SIZE - 4 /\ x % 4 = 0 => x \in AreaPages(da)
  BY <1>2, <1>3 DEF AreaPages
<1>5. \A s, t \in Stack : s \in Int /\ t \in Int /\ (s < t \/ t < s \/ s = t)
  BY <1>2 DEF Stack
<1>6. \A s, t \in Stack : StackAddresses(da)[s] = StackAddresses(da)[t] => s = t
  BY <1>3, <1>5
<1>7. ASSUME NEW x \in Layout(da), NEW y \in Layout(da), x # y
      PROVE  Pages(x) \cap Pages(y) = {}
  <2>1. PICK s \in Stack, t \in Stack : x = StackAddresses(da)[s] /\ y = StackAddresses(da)[t]
    BY DEF Layout
  <2>2. x \in Int /\ y \in Int /\ (x + 8 <= y \/ y + 8 <= x)
    BY <2>1, <1>3, <1>5, <1>7
  <2> QED BY <2>2 DEF Pages
<1>8. ASSUME NEW x \in Layout(da)
      PROVE  /\ x \in Nat /\ x \in AreaPages(da)
             /\ Pages(x) \subseteq AreaPages(da) \ (SharedStack(da) \cup GuardPages(da))
  <2>1. /\ x \in Int /\ x % 4 = 0 /\ x >= da /\ x + 8 <= da + DA_SIZE
        /\ x + 8 <= m - 4 \/ x >= m + 12
    BY <1>3 DEF Layout
  <2>2. x \in Nat /\ x \in AreaPages(da) /\ x + 4 \in AreaPages(da)
    <3>1. (x + 4) % 4 = 0 /\ x + 4 \in Int /\ x + 4 >= da /\ x + 4 <= da + DA_SIZE - 4
      BY <2>1, <1>2, <1>3
    <3>2. x <= da + DA_SIZE - 4 /\ x >= 0
      BY <2>1, <1>2, <1>3
    <3> QED BY <2>1, <3>1, <3>2, <1>4
  <2>3. {x, x + 4} \cap {m, m + 4, m - 4, m + 8} = {}
    BY <2>1, <1>1
  <2> QED BY <2>2, <2>3, <1>2 DEF Pages
<1>9. SharedStack(da) \cup GuardPages(da) \subseteq AreaPages(da)
  <2>1. /\ m % 4 = 0 /\ (m + 4) % 4 = 0 /\ (m - 4) % 4 = 0 /\ (m + 8) % 4 = 0
    BY <1>2
  <2>2. {m, m + 4, m - 4, m + 8} \subseteq AreaPages(da)
    BY <2>1, <1>2, <1>3, <1>4
  <2> QED BY <2>2, <1>2
<1> QED BY <1>6, <1>7, <1>8, <1>9

-----------------------------------------------------------------------------
(* The same for one element, as RT_Register and RT_Deregister move it. *)
LEMMA FirstOf ==
  ASSUME NEW S, NEW from \in Seq(S), from # <<>>, NEW to \in Seq(S),
         IsInjective(from), IsInjective(to), ToSet(from) \cap ToSet(to) = {}
  PROVE  /\ Head(from) \in ToSet(from)
         /\ Tail(from) \in Seq(S) /\ Len(Tail(from)) = Len(from) - 1
         /\ <<Head(from)>> \o to \in Seq(S) /\ Len(<<Head(from)>> \o to) = Len(to) + 1
         /\ IsInjective(Tail(from)) /\ IsInjective(<<Head(from)>> \o to)
         /\ ToSet(Tail(from)) = ToSet(from) \ {Head(from)}
         /\ ToSet(<<Head(from)>> \o to) = ToSet(to) \cup {Head(from)}
<1>0. PICK rest, joined : rest = Tail(from) /\ joined = <<Head(from)>> \o to
  OBVIOUS
<1>1. Len(from) \in Nat /\ Len(from) >= 1 /\ DOMAIN from = 1..Len(from) /\ from[1] = Head(from)
  BY EmptySeq, LenProperties
<1>2. rest = SubSeq(from, 1 + 1, Len(from))
  BY <1>0, TailIsSubSeq
<1>3. SubSeq(from, 1, 1) = <<Head(from)>>
  <2>1. SubSeq(from, 1, 1) = << from[1] >> \o SubSeq(from, 2, 1)
    BY <1>1, SubSeqRecursiveFirst
  <2>2. SubSeq(from, 2, 1) = <<>>
    BY SubSeqEmpty
  <2>3. << from[1] >> \in Seq(S)
    BY <1>1, ElementOfSeq
  <2>4. << from[1] >> \o <<>> = << from[1] >>
    BY <2>3, ConcatEmptySeq
  <2> QED BY <2>1, <2>2, <2>4, <1>1
<1>4. Reverse(<<Head(from)>>) = <<Head(from)>>
  BY DEF Reverse
<1>5. joined = Reverse(SubSeq(from, 1, 1)) \o to
  BY <1>0, <1>3, <1>4
<1>6. PICK n \in 0..Len(from) : n = 1
  BY <1>1
<1>7. Moved(from, n) = {Head(from)}
  BY <1>1, <1>6 DEF Moved
<1>8. rest = Rest(from, n) /\ joined = Joined(from, n, to)
  BY <1>2, <1>5, <1>6 DEF Rest, Joined
<1>9. /\ Rest(from, n) \in Seq(S) /\ Len(Rest(from, n)) = Len(from) - n
      /\ Joined(from, n, to) \in Seq(S) /\ Len(Joined(from, n, to)) = Len(to) + n
      /\ IsInjective(Rest(from, n)) /\ IsInjective(Joined(from, n, to))
      /\ Moved(from, n) \subseteq ToSet(from)
      /\ ToSet(Rest(from, n)) = ToSet(from) \ Moved(from, n)
      /\ ToSet(Joined(from, n, to)) = ToSet(to) \cup Moved(from, n)
  BY MoveSome
<1> QED BY <1>0, <1>6, <1>7, <1>8, <1>9

(* Two such lists one after the other. *)
LEMMA JoinedLists ==
  ASSUME NEW S, NEW a \in Seq(S), NEW b \in Seq(S), IsInjective(a), IsInjective(b),
         ToSet(a) \cap ToSet(b) = {}
  PROVE  a \o b \in Seq(S) /\ IsInjective(a \o b) /\ ToSet(a \o b) = ToSet(a) \cup ToSet(b)
<1> DEFINE ab == a \o b
<1>1. /\ Len(a) \in Nat /\ DOMAIN a = 1..Len(a) /\ Len(b) \in Nat /\ DOMAIN b = 1..Len(b)
  BY LenProperties
<1>2. /\ ab \in Seq(S) /\ Len(ab) = Len(a) + Len(b)
      /\ \A i \in 1..Len(a) + Len(b) : ab[i] = IF i <= Len(a) THEN a[i] ELSE b[i - Len(a)]
  BY ConcatProperties
<1>3. DOMAIN ab = 1..Len(a) + Len(b)
  BY <1>2, LenProperties
<1> HIDE DEF ab
<1>4. \A i \in 1..Len(a) : i \in 1..Len(a) + Len(b) /\ ab[i] = a[i]
  BY <1>1, <1>2
<1>5. \A i \in 1..Len(b) : i + Len(a) \in 1..Len(a) + Len(b) /\ ab[i + Len(a)] = b[i]
  <2> SUFFICES ASSUME NEW i \in 1..Len(b)
               PROVE  i + Len(a) \in 1..Len(a) + Len(b) /\ ab[i + Len(a)] = b[i]
    OBVIOUS
  <2>1. i + Len(a) \in 1..Len(a) + Len(b) /\ ~(i + Len(a) <= Len(a)) /\ i + Len(a) - Len(a) = i
    BY <1>1
  <2>2. ab[i + Len(a)] = b[i + Len(a) - Len(a)]
    BY <2>1, <1>2
  <2> QED BY <2>1, <2>2
<1>6. ASSUME NEW i \in 1..Len(a) + Len(b)
      PROVE  i \in 1..Len(a) \/ \E k \in 1..Len(b) : i = k + Len(a)
  <2>1. CASE i <= Len(a)
    BY <2>1, <1>1
  <2>2. CASE i > Len(a)
    <3>1. i - Len(a) \in 1..Len(b) /\ i = (i - Len(a)) + Len(a)
      BY <2>2, <1>1
    <3> QED BY <3>1
  <2> QED BY <2>1, <2>2, <1>1
<1>7. \A i \in 1..Len(a), k \in 1..Len(b) : a[i] # b[k]
  BY <1>1 DEF ToSet
<1>8. IsInjective(ab)
  <2> SUFFICES ASSUME NEW i \in 1..Len(a) + Len(b), NEW j \in 1..Len(a) + Len(b), ab[i] = ab[j]
               PROVE  i = j
    BY <1>3 DEF IsInjective
  <2>1. \A x, y \in 1..Len(a) : a[x] = a[y] => x = y
    BY <1>1 DEF IsInjective
  <2>2. \A x, y \in 1..Len(b) : b[x] = b[y] => x = y
    BY <1>1 DEF IsInjective
  <2>3. CASE i \in 1..Len(a) /\ j \in 1..Len(a)
    BY <2>1, <2>3, <1>4
  <2>4. ASSUME NEW x \in 1..Len(a), NEW k \in 1..Len(b) PROVE ab[x] # ab[k + Len(a)]
    BY <1>4, <1>5, <1>7
  <2>5. CASE \E k, l \in 1..Len(b) : i = k + Len(a) /\ j = l + Len(a)
    BY <2>2, <2>5, <1>5
  <2> QED BY <2>3, <2>4, <2>5, <1>6
<1>9. ToSet(ab) = ToSet(a) \cup ToSet(b)
  <2>1. ToSet(ab) \subseteq ToSet(a) \cup ToSet(b)
    <3> SUFFICES ASSUME NEW i \in 1..Len(a) + Len(b) PROVE ab[i] \in ToSet(a) \cup ToSet(b)
      BY <1>3 DEF ToSet
    <3> QED BY <1>1, <1>4, <1>5, <1>6 DEF ToSet
  <2>2. ToSet(a) \subseteq ToSet(ab)
    BY <1>1, <1>3, <1>4 DEF ToSet
  <2>3. ToSet(b) \subseteq ToSet(ab)
    <3> SUFFICES ASSUME NEW k \in 1..Len(b) PROVE b[k] \in ToSet(ab)
      BY <1>1 DEF ToSet
    <3> QED BY <1>3, <1>5 DEF ToSet
  <2> QED BY <2>1, <2>2, <2>3
<1> QED BY <1>2, <1>8, <1>9 DEF ab

(* A list of records without repetition is no longer than the pool. *)
LEMMA ListLength ==
  ASSUME NEW list \in Seq(Stack), IsInjective(list)
  PROVE  Len(list) <= ROUTINES
<1>1. ROUTINES \in Nat /\ Stack = 1..ROUTINES
  BY StackPoolAssumption DEF Stack
<1>2. IsFiniteSet(Stack) /\ Cardinality(Stack) = ROUTINES
  <2>1. IsFiniteSet(1..ROUTINES) /\ Cardinality(1..ROUTINES) = IF 1 > ROUTINES THEN 0 ELSE ROUTINES - 1 + 1
    BY <1>1, FS_Interval
  <2> QED BY <2>1, <1>1
<1>3. Len(list) \in Nat /\ list \in [1..Len(list) -> Stack] /\ DOMAIN list = 1..Len(list)
  BY LenProperties
<1>4. list \in Injection(1..Len(list), Stack)
  BY <1>3 DEF Injection, IsInjective
<1>5. Cardinality(1..Len(list)) <= ROUTINES
  BY <1>2, <1>4, FS_Injection
<1>6. Cardinality(1..Len(list)) = Len(list)
  <2>1. Cardinality(1..Len(list)) = IF 1 > Len(list) THEN 0 ELSE Len(list) - 1 + 1
    BY <1>3, FS_Interval
  <2> QED BY <2>1, <1>3
<1> QED BY <1>5, <1>6

-----------------------------------------------------------------------------
(* What holds of the pool p when the addresses H are in routines' hands or lost.               *)

PoolType(da) ==
  [ptr : [Stack -> Layout(da)],
   free : Seq(Stack), emergency : Seq(Stack), active : Seq(Stack),
   NumEmergency : Nat, mapped : SUBSET AreaPages(da)]

ListsOK(p) ==
  /\ IsInjective(p.free) /\ IsInjective(p.emergency) /\ IsInjective(p.active)
  /\ ToSet(p.free) \cap ToSet(p.emergency) = {}
  /\ ToSet(p.active) \cap (ToSet(p.free) \cup ToSet(p.emergency)) = {}
  /\ ToSet(p.free) \cup ToSet(p.emergency) \cup ToSet(p.active) = Stack
  /\ p.NumEmergency = Len(p.emergency)

(* The pointers of svcstack records off the active list, which alone are current: with H they  *)
(* are the layout, each address once.                                                          *)
AddressesOK(p, H, da) ==
  LET spare == ToSet(p.free) \cup ToSet(p.emergency)
  IN /\ \A s, t \in spare : p.ptr[s] = p.ptr[t] => s = t
     /\ \A s \in spare : p.ptr[s] \notin H
     /\ {p.ptr[s] : s \in spare} \cup H = Layout(da)

MemoryOK(p, H, da) ==
  p.mapped = SharedStack(da) \cup PagesOf(AddressesOf(p, p.emergency) \cup H)

PoolOK(p, H, da, sparse) ==
  /\ p \in PoolType(da)
  /\ ListsOK(p)
  /\ AddressesOK(p, H, da)
  /\ sparse => MemoryOK(p, H, da)

(* The first n free stacks are claimed. *)
LEMMA ClaimKeepsPool ==
  ASSUME NEW da \in Base, NEW p, NEW H, PoolOK(p, H, da, TRUE), NEW n \in 0..Len(p.free)
  PROVE  /\ PoolOK(ClaimStacks(p, n), H, da, TRUE) /\ ClaimStacks(p, n).active = p.active
         /\ ClaimStacks(p, n).NumEmergency = p.NumEmergency + n /\ Len(ClaimStacks(p, n).free) = Len(p.free) - n
<1>0. PICK q : q = ClaimStacks(p, n)
  OBVIOUS
<1>1. /\ p \in PoolType(da) /\ ListsOK(p) /\ AddressesOK(p, H, da) /\ MemoryOK(p, H, da)
  BY DEF PoolOK
<1>2. /\ p.free \in Seq(Stack) /\ p.emergency \in Seq(Stack)
      /\ p.ptr \in [Stack -> Layout(da)] /\ p.NumEmergency \in Nat /\ p.mapped \subseteq AreaPages(da)
      /\ Len(p.free) \in Nat /\ DOMAIN p.free = 1..Len(p.free) /\ n \in Nat /\ n <= Len(p.free)
  BY <1>1, LenProperties DEF PoolType
<1>3. /\ q.ptr = p.ptr /\ q.active = p.active
      /\ q.free = Rest(p.free, n) /\ q.emergency = Joined(p.free, n, p.emergency)
      /\ q.NumEmergency = p.NumEmergency + n
      /\ q.mapped = p.mapped \cup UNION {Pages(p.ptr[p.free[i]]) : i \in 1..n}
      /\ q = [ptr |-> q.ptr, free |-> q.free, emergency |-> q.emergency, active |-> q.active,
              NumEmergency |-> q.NumEmergency, mapped |-> q.mapped]
  BY <1>0, <1>1 DEF PoolType, ClaimStacks, Rest, Joined
<1>4. /\ Rest(p.free, n) \in Seq(Stack) /\ Len(Rest(p.free, n)) = Len(p.free) - n
      /\ Joined(p.free, n, p.emergency) \in Seq(Stack)
      /\ Len(Joined(p.free, n, p.emergency)) = Len(p.emergency) + n
      /\ IsInjective(Rest(p.free, n)) /\ IsInjective(Joined(p.free, n, p.emergency))
      /\ Moved(p.free, n) \subseteq ToSet(p.free)
      /\ ToSet(Rest(p.free, n)) = ToSet(p.free) \ Moved(p.free, n)
      /\ ToSet(Joined(p.free, n, p.emergency)) = ToSet(p.emergency) \cup Moved(p.free, n)
  <2>1. /\ IsInjective(p.free) /\ IsInjective(p.emergency)
        /\ ToSet(p.free) \cap ToSet(p.emergency) = {}
    BY <1>1 DEF ListsOK
  <2>2. n \in 0..Len(p.free)
    OBVIOUS
  <2>3. PICK from, to : from = p.free /\ to = p.emergency
    OBVIOUS
  <2>4. /\ from \in Seq(Stack) /\ to \in Seq(Stack) /\ n \in 0..Len(from)
        /\ IsInjective(from) /\ IsInjective(to) /\ ToSet(from) \cap ToSet(to) = {}
    BY <2>1, <2>2, <2>3, <1>2
  <2>5. /\ Rest(from, n) \in Seq(Stack) /\ Len(Rest(from, n)) = Len(from) - n
        /\ Joined(from, n, to) \in Seq(Stack) /\ Len(Joined(from, n, to)) = Len(to) + n
        /\ IsInjective(Rest(from, n)) /\ IsInjective(Joined(from, n, to))
        /\ Moved(from, n) \subseteq ToSet(from)
        /\ ToSet(Rest(from, n)) = ToSet(from) \ Moved(from, n)
        /\ ToSet(Joined(from, n, to)) = ToSet(to) \cup Moved(from, n)
    BY <2>4, MoveSome
  <2> QED BY <2>3, <2>5
<1>5. UNION {Pages(p.ptr[p.free[i]]) : i \in 1..n} = PagesOf({p.ptr[s] : s \in Moved(p.free, n)})
  BY DEF Moved, PagesOf
<1>6. ToSet(p.free) \subseteq Stack
  BY <1>1 DEF ListsOK
<1>7. PagesOf({p.ptr[s] : s \in Moved(p.free, n)}) \subseteq AreaPages(da)
  <2>1. \A s \in Moved(p.free, n) : p.ptr[s] \in Layout(da)
    BY <1>2, <1>4, <1>6
  <2> QED BY <2>1, LayoutPages DEF PagesOf
<1>8. q \in PoolType(da)
  <2>1. q.mapped \subseteq AreaPages(da)
    BY <1>2, <1>3, <1>5, <1>7
  <2>2. p.active \in Seq(Stack) /\ p.NumEmergency + n \in Nat
    BY <1>1, <1>2 DEF PoolType
  <2> QED BY <2>1, <2>2, <1>2, <1>3, <1>4 DEF PoolType
<1>9. ToSet(q.free) \cup ToSet(q.emergency) = ToSet(p.free) \cup ToSet(p.emergency)
  BY <1>3, <1>4
<1>10. ListsOK(q)
  <2>1. q.NumEmergency = Len(q.emergency)
    <3>1. p.NumEmergency = Len(p.emergency)
      BY <1>1 DEF ListsOK
    <3> QED BY <3>1, <1>3, <1>4
  <2>2. ToSet(q.free) \cap ToSet(q.emergency) = {}
    BY <1>1, <1>3, <1>4 DEF ListsOK
  <2>3. /\ IsInjective(p.active)
        /\ ToSet(p.active) \cap (ToSet(p.free) \cup ToSet(p.emergency)) = {}
        /\ ToSet(p.free) \cup ToSet(p.emergency) \cup ToSet(p.active) = Stack
    BY <1>1 DEF ListsOK
  <2> QED BY <2>1, <2>2, <2>3, <1>3, <1>4, <1>9 DEF ListsOK
<1>11. AddressesOK(q, H, da)
  BY <1>1, <1>3, <1>9 DEF AddressesOK
<1>12. MemoryOK(q, H, da)
  <2>1. AddressesOf(q, q.emergency) = AddressesOf(p, p.emergency) \cup {p.ptr[s] : s \in Moved(p.free, n)}
    BY <1>3, <1>4 DEF AddressesOf
  <2>2. q.mapped = p.mapped \cup PagesOf({p.ptr[s] : s \in Moved(p.free, n)})
    BY <1>3, <1>5
  <2>3. p.mapped = SharedStack(da) \cup PagesOf(AddressesOf(p, p.emergency) \cup H)
    BY <1>1 DEF MemoryOK
  <2>4. PICK A, B : A = AddressesOf(p, p.emergency) /\ B = {p.ptr[s] : s \in Moved(p.free, n)}
    OBVIOUS
  <2>5. q.mapped = SharedStack(da) \cup PagesOf(A \cup H) \cup PagesOf(B)
    BY <2>2, <2>3, <2>4
  <2>6. PagesOf(A \cup H) \cup PagesOf(B) = PagesOf((A \cup B) \cup H)
    BY DEF PagesOf
  <2>7. q.mapped = SharedStack(da) \cup PagesOf(AddressesOf(q, q.emergency) \cup H)
    BY <2>1, <2>4, <2>5, <2>6
  <2> QED BY <2>7 DEF MemoryOK
<1> QED BY <1>0, <1>3, <1>4, <1>8, <1>10, <1>11, <1>12 DEF PoolOK

(* The first n emergency stacks are given up. *)
LEMMA ReleaseKeepsPool ==
  ASSUME NEW da \in Base, NEW p, NEW H, PoolOK(p, H, da, TRUE), NEW n \in 0..Len(p.emergency)
  PROVE  /\ PoolOK(ReleaseStacks(p, n), H, da, TRUE) /\ ReleaseStacks(p, n).active = p.active
         /\ ReleaseStacks(p, n).NumEmergency = p.NumEmergency - n
<1>0. PICK q : q = ReleaseStacks(p, n)
  OBVIOUS
<1>1. /\ p \in PoolType(da) /\ ListsOK(p) /\ AddressesOK(p, H, da) /\ MemoryOK(p, H, da)
  BY DEF PoolOK
<1>2. /\ p.free \in Seq(Stack) /\ p.emergency \in Seq(Stack)
      /\ p.ptr \in [Stack -> Layout(da)] /\ p.NumEmergency \in Nat /\ p.mapped \subseteq AreaPages(da)
      /\ Len(p.emergency) \in Nat /\ DOMAIN p.emergency = 1..Len(p.emergency)
      /\ n \in Nat /\ n <= Len(p.emergency)
  BY <1>1, LenProperties DEF PoolType
<1>3. /\ q.ptr = p.ptr /\ q.active = p.active
      /\ q.emergency = Rest(p.emergency, n) /\ q.free = Joined(p.emergency, n, p.free)
      /\ q.NumEmergency = p.NumEmergency - n
      /\ q.mapped = p.mapped \ UNION {Pages(p.ptr[p.emergency[i]]) : i \in 1..n}
      /\ q = [ptr |-> q.ptr, free |-> q.free, emergency |-> q.emergency, active |-> q.active,
              NumEmergency |-> q.NumEmergency, mapped |-> q.mapped]
  BY <1>0, <1>1 DEF PoolType, ReleaseStacks, Rest, Joined
<1>4. /\ Rest(p.emergency, n) \in Seq(Stack) /\ Len(Rest(p.emergency, n)) = Len(p.emergency) - n
      /\ Joined(p.emergency, n, p.free) \in Seq(Stack)
      /\ Len(Joined(p.emergency, n, p.free)) = Len(p.free) + n
      /\ IsInjective(Rest(p.emergency, n)) /\ IsInjective(Joined(p.emergency, n, p.free))
      /\ Moved(p.emergency, n) \subseteq ToSet(p.emergency)
      /\ ToSet(Rest(p.emergency, n)) = ToSet(p.emergency) \ Moved(p.emergency, n)
      /\ ToSet(Joined(p.emergency, n, p.free)) = ToSet(p.free) \cup Moved(p.emergency, n)
  <2>1. /\ IsInjective(p.free) /\ IsInjective(p.emergency)
        /\ ToSet(p.emergency) \cap ToSet(p.free) = {}
    BY <1>1 DEF ListsOK
  <2>2. n \in 0..Len(p.emergency)
    OBVIOUS
  <2>3. PICK from, to : from = p.emergency /\ to = p.free
    OBVIOUS
  <2>4. /\ from \in Seq(Stack) /\ to \in Seq(Stack) /\ n \in 0..Len(from)
        /\ IsInjective(from) /\ IsInjective(to) /\ ToSet(from) \cap ToSet(to) = {}
    BY <2>1, <2>2, <2>3, <1>2
  <2>5. /\ Rest(from, n) \in Seq(Stack) /\ Len(Rest(from, n)) = Len(from) - n
        /\ Joined(from, n, to) \in Seq(Stack) /\ Len(Joined(from, n, to)) = Len(to) + n
        /\ IsInjective(Rest(from, n)) /\ IsInjective(Joined(from, n, to))
        /\ Moved(from, n) \subseteq ToSet(from)
        /\ ToSet(Rest(from, n)) = ToSet(from) \ Moved(from, n)
        /\ ToSet(Joined(from, n, to)) = ToSet(to) \cup Moved(from, n)
    BY <2>4, MoveSome
  <2> QED BY <2>3, <2>5
<1>5. UNION {Pages(p.ptr[p.emergency[i]]) : i \in 1..n}
        = PagesOf({p.ptr[s] : s \in Moved(p.emergency, n)})
  BY DEF Moved, PagesOf
<1>6. ToSet(p.emergency) \subseteq Stack
  BY <1>1 DEF ListsOK
<1>7. ToSet(q.free) \cup ToSet(q.emergency) = ToSet(p.free) \cup ToSet(p.emergency)
  BY <1>3, <1>4
<1>8. ListsOK(q)
  <2>1. q.NumEmergency = Len(q.emergency) /\ q.NumEmergency \in Nat
    <3>1. p.NumEmergency = Len(p.emergency)
      BY <1>1 DEF ListsOK
    <3> QED BY <3>1, <1>2, <1>3, <1>4
  <2>2. ToSet(q.free) \cap ToSet(q.emergency) = {}
    BY <1>1, <1>3, <1>4 DEF ListsOK
  <2>3. /\ IsInjective(p.active)
        /\ ToSet(p.active) \cap (ToSet(p.free) \cup ToSet(p.emergency)) = {}
        /\ ToSet(p.free) \cup ToSet(p.emergency) \cup ToSet(p.active) = Stack
    BY <1>1 DEF ListsOK
  <2> QED BY <2>1, <2>2, <2>3, <1>3, <1>4, <1>7 DEF ListsOK
<1>9. q \in PoolType(da)
  <2>1. p.active \in Seq(Stack)
    BY <1>1 DEF PoolType
  <2>2. p.NumEmergency - n \in Nat
    BY <1>1, <1>2 DEF ListsOK
  <2>3. q.mapped \subseteq AreaPages(da)
    BY <1>2, <1>3
  <2> QED BY <2>1, <2>2, <2>3, <1>2, <1>3, <1>4 DEF PoolType
<1>10. AddressesOK(q, H, da)
  BY <1>1, <1>3, <1>7 DEF AddressesOK
<1>11. MemoryOK(q, H, da)
  <2> DEFINE given == {p.ptr[s] : s \in Moved(p.emergency, n)}
             kept == AddressesOf(q, q.emergency)
  <2>1. AddressesOf(p, p.emergency) = kept \cup given
    BY <1>3, <1>4 DEF AddressesOf
  <2>2. q.mapped = (SharedStack(da) \cup PagesOf((kept \cup given) \cup H)) \ PagesOf(given)
    BY <1>1, <1>3, <1>5, <2>1 DEF MemoryOK
  <2>3. given \cap (kept \cup H) = {}
    <3>1. /\ \A s, t \in ToSet(p.emergency) : p.ptr[s] = p.ptr[t] => s = t
          /\ \A s \in ToSet(p.emergency) : p.ptr[s] \notin H
      BY <1>1 DEF AddressesOK
    <3>2. given \cap H = {}
      BY <3>1, <1>4
    <3>3. given \cap kept = {}
      BY <3>1, <1>3, <1>4 DEF AddressesOf
    <3> QED BY <3>2, <3>3
  <2>4. given \cup kept \cup H \subseteq Layout(da)
    <3>1. H \subseteq Layout(da)
      BY <1>1 DEF AddressesOK
    <3>2. given \cup kept \subseteq Layout(da)
      BY <1>2, <1>3, <1>4, <1>6 DEF AddressesOf
    <3> QED BY <3>1, <3>2
  <2> HIDE DEF given, kept
  <2>5. PagesOf(given) \cap PagesOf(kept \cup H) = {}
    <3>1. \A x \in given, y \in kept \cup H : Pages(x) \cap Pages(y) = {}
      BY <2>3, <2>4, LayoutPages
    <3> QED BY <3>1 DEF PagesOf
  <2>6. PagesOf(given) \cap SharedStack(da) = {}
    BY <2>4, LayoutPages DEF PagesOf
  <2>7. PagesOf((kept \cup given) \cup H) = PagesOf(kept \cup H) \cup PagesOf(given)
    BY DEF PagesOf
  <2>8. q.mapped = SharedStack(da) \cup PagesOf(kept \cup H)
    BY <2>2, <2>5, <2>6, <2>7
  <2> QED BY <2>8 DEF MemoryOK, kept
<1> QED BY <1>0, <1>3, <1>8, <1>9, <1>10, <1>11 DEF PoolOK

(* Both loops, however far the kernel lets them go. *)
LEMMA RebalanceKeepsPool ==
  ASSUME NEW da \in Base, NEW p, NEW H, NEW sparse \in BOOLEAN, PoolOK(p, H, da, sparse),
         NEW granted \in Grants
  PROVE  LET q == RebalanceEmergencyList(sparse, p, granted)
         IN /\ PoolOK(q, H, da, sparse) /\ q.active = p.active
            /\ sparse /\ InFull(sparse, p, granted) => q.free = <<>> \/ q.NumEmergency >= EMERGENCY_STACKS
            /\ sparse => q.NumEmergency >= EMERGENCY_STACKS
                         \/ (q.NumEmergency >= p.NumEmergency /\ (p.free = <<>> => q.free = <<>>))
<1> DEFINE n == SmallestOf({Passes(p), granted})
<1>0. PICK q : q = RebalanceEmergencyList(sparse, p, granted)
  OBVIOUS
<1>1. /\ EMERGENCY_STACKS \in Nat /\ granted \in Nat
  BY StackPoolAssumption
<1>2. /\ p.NumEmergency \in Nat /\ p.NumEmergency = Len(p.emergency)
      /\ p.free \in Seq(Stack) /\ Len(p.free) \in Nat
  BY LenProperties DEF PoolOK, PoolType, ListsOK
<1>3. CASE ~sparse
  BY <1>0, <1>3 DEF RebalanceEmergencyList
<1>4. CASE sparse /\ p.NumEmergency < EMERGENCY_STACKS
  <2>1. /\ Passes(p) \in {EMERGENCY_STACKS - p.NumEmergency, Len(p.free)}
        /\ Passes(p) <= EMERGENCY_STACKS - p.NumEmergency /\ Passes(p) <= Len(p.free)
    <3>1. Passes(p) = SmallestOf({EMERGENCY_STACKS - p.NumEmergency, Len(p.free)})
      BY <1>4 DEF Passes
    <3>2. EMERGENCY_STACKS - p.NumEmergency \in Int /\ Len(p.free) \in Int
      BY <1>1, <1>2
    <3> QED BY <3>1, <3>2, SmallestOfTwo
  <2>2. Passes(p) \in Nat
    BY <2>1, <1>1, <1>2, <1>4
  <2>3. n \in {Passes(p), granted} /\ n <= Passes(p) /\ n <= granted
    <3>1. Passes(p) \in Int /\ granted \in Int
      BY <2>2, <1>1
    <3> QED BY <3>1, SmallestOfTwo
  <2>4. n \in 0..Len(p.free)
    BY <2>1, <2>2, <2>3, <1>1, <1>2
  <2>5. q = ClaimStacks(p, n)
    BY <1>0, <1>4 DEF RebalanceEmergencyList
  <2>6. PoolOK(p, H, da, TRUE)
    BY <1>4 DEF PoolOK
  <2> HIDE DEF n
  <2>7. /\ PoolOK(q, H, da, TRUE) /\ q.active = p.active
        /\ q.NumEmergency = p.NumEmergency + n /\ Len(q.free) = Len(p.free) - n
    BY <2>4, <2>5, <2>6, ClaimKeepsPool
  <2>8. q.free \in Seq(Stack) /\ Len(q.free) \in Nat
    BY <2>7, LenProperties DEF PoolOK, PoolType
  <2>9. q.NumEmergency >= p.NumEmergency
    BY <2>4, <2>7, <1>2
  <2>10. p.free = <<>> => q.free = <<>>
    <3>1. p.free = <<>> => Len(q.free) = 0
      BY <2>4, <2>7, <1>2, EmptySeq
    <3> QED BY <3>1, <2>8, EmptySeq
  <2>11. ASSUME InFull(sparse, p, granted)
         PROVE  q.free = <<>> \/ q.NumEmergency >= EMERGENCY_STACKS
    <3>1. n = Passes(p)
      BY <2>11, <2>2, <2>3, <1>1, <1>4 DEF InFull
    <3>2. CASE n = Len(p.free)
      <4>1. Len(q.free) = 0
        BY <3>2, <2>7, <1>2
      <4> QED BY <4>1, <2>8, EmptySeq
    <3>3. CASE n = EMERGENCY_STACKS - p.NumEmergency
      BY <3>3, <2>7, <1>1, <1>2
    <3> QED BY <3>1, <3>2, <3>3, <2>1
  <2> QED BY <2>7, <2>9, <2>10, <2>11, <1>0, <1>4 DEF PoolOK
<1>5. CASE sparse /\ p.NumEmergency >= EMERGENCY_STACKS
  <2>1. Passes(p) = p.NumEmergency - EMERGENCY_STACKS
    BY <1>1, <1>2, <1>5 DEF Passes
  <2>2. Passes(p) \in Nat
    BY <2>1, <1>1, <1>2, <1>5
  <2>3. n \in {Passes(p), granted} /\ n <= Passes(p) /\ n <= granted
    <3>1. Passes(p) \in Int /\ granted \in Int
      BY <2>2, <1>1
    <3> QED BY <3>1, SmallestOfTwo
  <2>4. n \in 0..Len(p.emergency)
    BY <2>1, <2>2, <2>3, <1>1, <1>2
  <2>5. q = ReleaseStacks(p, n)
    BY <1>0, <1>1, <1>2, <1>5 DEF RebalanceEmergencyList
  <2>6. PoolOK(p, H, da, TRUE)
    BY <1>5 DEF PoolOK
  <2> HIDE DEF n
  <2>7. PoolOK(q, H, da, TRUE) /\ q.active = p.active /\ q.NumEmergency = p.NumEmergency - n
    BY <2>4, <2>5, <2>6, ReleaseKeepsPool
  <2>8. q.NumEmergency >= EMERGENCY_STACKS
    BY <2>1, <2>2, <2>3, <2>7, <1>1, <1>2
  <2>9. PoolOK(q, H, da, sparse)
    BY <2>7, <1>5 DEF PoolOK
  <2>10. q.active = p.active
    BY <2>7
  <2> QED BY <2>8, <2>9, <2>10, <1>0
<1> QED BY <1>1, <1>2, <1>3, <1>4, <1>5

(* RT_Register takes the first emergency stack. *)
LEMMA GrabKeepsPool ==
  ASSUME NEW da \in Base, NEW p, NEW H, NEW sparse \in BOOLEAN, PoolOK(p, H, da, sparse),
         p.emergency # <<>>
  PROVE  LET q == Grab(p)
             addr == p.ptr[Head(p.emergency)]
         IN /\ PoolOK(q, H \cup {addr}, da, sparse)
            /\ addr \in Layout(da) /\ addr \notin H
            /\ Len(q.active) = Len(p.active) + 1
            /\ q.NumEmergency = p.NumEmergency - 1 /\ q.free = p.free
<1> DEFINE h == Head(p.emergency)
<1>0. PICK q, addr : q = Grab(p) /\ addr = p.ptr[Head(p.emergency)]
  OBVIOUS
<1>1. /\ p \in PoolType(da) /\ ListsOK(p) /\ AddressesOK(p, H, da) /\ (sparse => MemoryOK(p, H, da))
  BY DEF PoolOK
<1>2. /\ p.free \in Seq(Stack) /\ p.emergency \in Seq(Stack) /\ p.active \in Seq(Stack)
      /\ p.ptr \in [Stack -> Layout(da)] /\ p.NumEmergency \in Nat /\ p.mapped \subseteq AreaPages(da)
      /\ Len(p.emergency) \in Nat /\ p.NumEmergency = Len(p.emergency)
  BY <1>1, LenProperties DEF PoolType, ListsOK
<1>3. /\ q.ptr = p.ptr /\ q.free = p.free
      /\ q.emergency = Tail(p.emergency) /\ q.active = <<h>> \o p.active
      /\ q.NumEmergency = p.NumEmergency - 1 /\ q.mapped = p.mapped
      /\ q = [ptr |-> q.ptr, free |-> q.free, emergency |-> q.emergency, active |-> q.active,
              NumEmergency |-> q.NumEmergency, mapped |-> q.mapped]
  BY <1>0, <1>1 DEF PoolType, Grab
<1>4. /\ h \in ToSet(p.emergency)
      /\ q.emergency \in Seq(Stack) /\ Len(q.emergency) = Len(p.emergency) - 1
      /\ q.active \in Seq(Stack) /\ Len(q.active) = Len(p.active) + 1
      /\ IsInjective(q.emergency) /\ IsInjective(q.active)
      /\ ToSet(q.emergency) = ToSet(p.emergency) \ {h}
      /\ ToSet(q.active) = ToSet(p.active) \cup {h}
  <2>1. PICK from, to : from = p.emergency /\ to = p.active
    OBVIOUS
  <2>2. /\ from \in Seq(Stack) /\ from # <<>> /\ to \in Seq(Stack)
        /\ IsInjective(from) /\ IsInjective(to) /\ ToSet(from) \cap ToSet(to) = {}
    BY <2>1, <1>1, <1>2 DEF ListsOK
  <2>3. /\ Head(from) \in ToSet(from)
        /\ Tail(from) \in Seq(Stack) /\ Len(Tail(from)) = Len(from) - 1
        /\ <<Head(from)>> \o to \in Seq(Stack) /\ Len(<<Head(from)>> \o to) = Len(to) + 1
        /\ IsInjective(Tail(from)) /\ IsInjective(<<Head(from)>> \o to)
        /\ ToSet(Tail(from)) = ToSet(from) \ {Head(from)}
        /\ ToSet(<<Head(from)>> \o to) = ToSet(to) \cup {Head(from)}
    BY <2>2, FirstOf
  <2> QED BY <2>1, <2>3, <1>3
<1> HIDE DEF h
<1>5. addr = p.ptr[h] /\ h \in Stack
  BY <1>0, <1>1, <1>4 DEF h, ListsOK
<1>6. addr \in Layout(da) /\ addr \notin H
  BY <1>1, <1>2, <1>4, <1>5 DEF AddressesOK
<1>7. ListsOK(q) /\ q.NumEmergency \in Nat
  <2>1. Len(p.emergency) # 0
    BY <1>2, EmptySeq
  <2>2. q.NumEmergency = Len(q.emergency) /\ q.NumEmergency \in Nat
    BY <2>1, <1>2, <1>3, <1>4
  <2>3. /\ IsInjective(p.free)
        /\ ToSet(p.free) \cap ToSet(p.emergency) = {}
        /\ ToSet(p.active) \cap (ToSet(p.free) \cup ToSet(p.emergency)) = {}
        /\ ToSet(p.free) \cup ToSet(p.emergency) \cup ToSet(p.active) = Stack
    BY <1>1 DEF ListsOK
  <2> QED BY <2>2, <2>3, <1>3, <1>4 DEF ListsOK
<1>8. q \in PoolType(da)
  BY <1>2, <1>3, <1>4, <1>7 DEF PoolType
<1>9. ToSet(q.free) \cup ToSet(q.emergency) = (ToSet(p.free) \cup ToSet(p.emergency)) \ {h}
  BY <1>1, <1>3, <1>4 DEF ListsOK
<1>10. AddressesOK(q, H \cup {addr}, da)
  <2>1. PICK spare : spare = ToSet(p.free) \cup ToSet(p.emergency)
    OBVIOUS
  <2>2. /\ h \in spare
        /\ \A s, t \in spare : p.ptr[s] = p.ptr[t] => s = t
        /\ \A s \in spare : p.ptr[s] \notin H
        /\ {p.ptr[s] : s \in spare} \cup H = Layout(da)
    BY <2>1, <1>1, <1>4 DEF AddressesOK
  <2>3. /\ \A s, t \in spare \ {h} : p.ptr[s] = p.ptr[t] => s = t
        /\ \A s \in spare \ {h} : p.ptr[s] \notin H \cup {addr}
    BY <2>2, <1>5
  <2>4. {p.ptr[s] : s \in spare \ {h}} \cup (H \cup {addr}) = Layout(da)
    BY <2>2, <1>5
  <2> QED BY <2>1, <2>3, <2>4, <1>3, <1>9 DEF AddressesOK
<1>11. ASSUME sparse PROVE MemoryOK(q, H \cup {addr}, da)
  <2>1. AddressesOf(q, q.emergency) \cup (H \cup {addr}) = AddressesOf(p, p.emergency) \cup H
    BY <1>3, <1>4, <1>5 DEF AddressesOf
  <2>2. p.mapped = SharedStack(da) \cup PagesOf(AddressesOf(p, p.emergency) \cup H)
    BY <1>1, <1>11 DEF MemoryOK
  <2> QED BY <2>1, <2>2, <1>3 DEF MemoryOK
<1> QED BY <1>0, <1>3, <1>4, <1>6, <1>7, <1>8, <1>10, <1>11 DEF PoolOK

(* RT_Deregister gives some active record the address that the routine leaves behind. *)
LEMMA PutBackKeepsPool ==
  ASSUME NEW da \in Base, NEW p, NEW H, NEW sparse \in BOOLEAN, PoolOK(p, H, da, sparse),
         p.active # <<>>, NEW addr \in H
  PROVE  LET q == PutBack(p, addr)
         IN /\ PoolOK(q, H \ {addr}, da, sparse)
            /\ Len(q.active) = Len(p.active) - 1
            /\ q.NumEmergency = p.NumEmergency + 1 /\ q.free = p.free
<1> DEFINE h == Head(p.active)
<1>0. PICK q : q = PutBack(p, addr)
  OBVIOUS
<1>1. /\ p \in PoolType(da) /\ ListsOK(p) /\ AddressesOK(p, H, da) /\ (sparse => MemoryOK(p, H, da))
  BY DEF PoolOK
<1>2. /\ p.free \in Seq(Stack) /\ p.emergency \in Seq(Stack) /\ p.active \in Seq(Stack)
      /\ p.ptr \in [Stack -> Layout(da)] /\ p.NumEmergency \in Nat /\ p.mapped \subseteq AreaPages(da)
      /\ Len(p.emergency) \in Nat /\ p.NumEmergency = Len(p.emergency)
  BY <1>1, LenProperties DEF PoolType, ListsOK
<1>3. /\ q.ptr = [p.ptr EXCEPT ![h] = addr] /\ q.free = p.free
      /\ q.active = Tail(p.active) /\ q.emergency = <<h>> \o p.emergency
      /\ q.NumEmergency = p.NumEmergency + 1 /\ q.mapped = p.mapped
      /\ q = [ptr |-> q.ptr, free |-> q.free, emergency |-> q.emergency, active |-> q.active,
              NumEmergency |-> q.NumEmergency, mapped |-> q.mapped]
  BY <1>0, <1>1 DEF PoolType, PutBack
<1>4. /\ h \in ToSet(p.active)
      /\ q.active \in Seq(Stack) /\ Len(q.active) = Len(p.active) - 1
      /\ q.emergency \in Seq(Stack) /\ Len(q.emergency) = Len(p.emergency) + 1
      /\ IsInjective(q.emergency) /\ IsInjective(q.active)
      /\ ToSet(q.active) = ToSet(p.active) \ {h}
      /\ ToSet(q.emergency) = ToSet(p.emergency) \cup {h}
  <2>1. PICK from, to : from = p.active /\ to = p.emergency
    OBVIOUS
  <2>2. /\ from \in Seq(Stack) /\ from # <<>> /\ to \in Seq(Stack)
        /\ IsInjective(from) /\ IsInjective(to) /\ ToSet(from) \cap ToSet(to) = {}
    BY <2>1, <1>1, <1>2 DEF ListsOK
  <2>3. /\ Head(from) \in ToSet(from)
        /\ Tail(from) \in Seq(Stack) /\ Len(Tail(from)) = Len(from) - 1
        /\ <<Head(from)>> \o to \in Seq(Stack) /\ Len(<<Head(from)>> \o to) = Len(to) + 1
        /\ IsInjective(Tail(from)) /\ IsInjective(<<Head(from)>> \o to)
        /\ ToSet(Tail(from)) = ToSet(from) \ {Head(from)}
        /\ ToSet(<<Head(from)>> \o to) = ToSet(to) \cup {Head(from)}
    BY <2>2, FirstOf
  <2> QED BY <2>1, <2>3, <1>3
<1> HIDE DEF h
<1>5. h \in Stack /\ h \notin ToSet(p.free) \cup ToSet(p.emergency) /\ addr \in Layout(da)
  BY <1>1, <1>4 DEF ListsOK, AddressesOK
<1>6. /\ q.ptr \in [Stack -> Layout(da)] /\ q.ptr[h] = addr
      /\ \A s \in Stack : s # h => q.ptr[s] = p.ptr[s]
  BY <1>2, <1>3, <1>5
<1>7. ListsOK(q) /\ q.NumEmergency \in Nat
  <2>1. q.NumEmergency = Len(q.emergency) /\ q.NumEmergency \in Nat
    BY <1>2, <1>3, <1>4
  <2>2. /\ IsInjective(p.free)
        /\ ToSet(p.free) \cap ToSet(p.emergency) = {}
        /\ ToSet(p.active) \cap (ToSet(p.free) \cup ToSet(p.emergency)) = {}
        /\ ToSet(p.free) \cup ToSet(p.emergency) \cup ToSet(p.active) = Stack
    BY <1>1 DEF ListsOK
  <2> QED BY <2>1, <2>2, <1>3, <1>4 DEF ListsOK
<1>8. q \in PoolType(da)
  BY <1>2, <1>3, <1>4, <1>6, <1>7 DEF PoolType
<1>9. PICK spare : spare = ToSet(p.free) \cup ToSet(p.emergency)
  OBVIOUS
<1>10. /\ ToSet(q.free) \cup ToSet(q.emergency) = spare \cup {h}
       /\ \A s \in spare : s \in Stack /\ s # h /\ q.ptr[s] = p.ptr[s]
  BY <1>1, <1>3, <1>4, <1>5, <1>6, <1>9 DEF ListsOK
<1>11. AddressesOK(q, H \ {addr}, da)
  <2>1. /\ \A s, t \in spare : p.ptr[s] = p.ptr[t] => s = t
        /\ \A s \in spare : p.ptr[s] \notin H
        /\ {p.ptr[s] : s \in spare} \cup H = Layout(da)
    BY <1>1, <1>9 DEF AddressesOK
  <2>2. \A s, t \in spare \cup {h} : q.ptr[s] = q.ptr[t] => s = t
    BY <2>1, <1>6, <1>10
  <2>3. \A s \in spare \cup {h} : q.ptr[s] \notin H \ {addr}
    BY <2>1, <1>6, <1>10
  <2>4. {q.ptr[s] : s \in spare \cup {h}} = {p.ptr[s] : s \in spare} \cup {addr}
    BY <1>6, <1>10
  <2>5. {q.ptr[s] : s \in spare \cup {h}} \cup (H \ {addr}) = Layout(da)
    BY <2>1, <2>4
  <2> QED BY <2>2, <2>3, <2>5, <1>10 DEF AddressesOK
<1>12. ASSUME sparse PROVE MemoryOK(q, H \ {addr}, da)
  <2>1. AddressesOf(q, q.emergency) = AddressesOf(p, p.emergency) \cup {addr}
    <3>1. ToSet(p.emergency) \subseteq spare
      BY <1>9
    <3> QED BY <3>1, <1>4, <1>6, <1>10 DEF AddressesOf
  <2>2. AddressesOf(q, q.emergency) \cup (H \ {addr}) = AddressesOf(p, p.emergency) \cup H
    BY <2>1
  <2>3. p.mapped = SharedStack(da) \cup PagesOf(AddressesOf(p, p.emergency) \cup H)
    BY <1>1, <1>12 DEF MemoryOK
  <2> QED BY <2>2, <2>3, <1>3 DEF MemoryOK
<1> QED BY <1>0, <1>3, <1>4, <1>7, <1>8, <1>11, <1>12 DEF PoolOK

-----------------------------------------------------------------------------
(* The inductive invariant.  The addresses that the lists do not have are the routines', each  *)
(* its own, and the lost ones; PoolOK tells the lists, the layout and the memory apart.        *)

Held == RoutineStacks \cup lost

PoolInv ==
  /\ static_DA \in Base /\ static_UseSparseArea \in BOOLEAN
  /\ svc_stack_copy \in [Routine -> {NoStack} \cup {a + STACK_SIZE : a \in Layout(static_DA)}]
  /\ told \in [Routine -> {"nothing", "handle", "error"}]
  /\ \A q, r \in Registered : SavedAt(q) = SavedAt(r) => q = r
  /\ RoutineStacks \cap lost = {}
  /\ PoolOK(pool, Held, static_DA, static_UseSparseArea)
  /\ IsFiniteSet(Registered) /\ IsFiniteSet(lost)
  /\ Len(pool.active) = Cardinality(Registered) + Cardinality(lost)
  /\ taken \in 0..EMERGENCY_STACKS
  /\ EmergencyReserve

(* All stacks are laid out and none is in anybody's hands. *)
LEMMA FreshPool ==
  ASSUME NEW da \in Base
  PROVE  /\ PoolOK(AllFree(da), {}, da, TRUE) /\ AllFree(da).active = <<>>
         /\ PoolOK(AllReady(da), {}, da, FALSE) /\ AllReady(da).active = <<>>
<1> DEFINE all == [s \in Stack |-> s]
<1>1. ROUTINES \in Nat /\ Stack = 1..ROUTINES
  BY StackPoolAssumption DEF Stack
<1>2. all \in Seq(Stack) /\ Len(all) = ROUTINES
  <2>1. all \in [1..ROUTINES -> Stack]
    BY <1>1
  <2> QED BY <2>1, <1>1, SeqDef, LenProperties
<1>3. Reverse(all) = [i \in Stack |-> ROUTINES - i + 1]
  <2>1. Reverse(all) = [i \in 1..ROUTINES |-> all[(ROUTINES - i) + 1]]
    BY <1>2 DEF Reverse
  <2>2. \A i \in 1..ROUTINES : all[(ROUTINES - i) + 1] = ROUTINES - i + 1
    BY <1>1
  <2> QED BY <2>1, <2>2, <1>1
<1>4. PICK list : list = Reverse(all)
  OBVIOUS
<1>5. /\ list \in Seq(Stack) /\ Len(list) = ROUTINES /\ DOMAIN list = Stack
      /\ IsInjective(list) /\ ToSet(list) = Stack
  <2>1. list \in [Stack -> Stack] /\ \A i \in Stack : list[i] = ROUTINES - i + 1
    BY <1>1, <1>3, <1>4
  <2>2. list \in Seq(Stack) /\ Len(list) = ROUTINES /\ DOMAIN list = Stack
    BY <2>1, <1>1, SeqDef, LenProperties
  <2>3. IsInjective(list)
    BY <2>1, <2>2, <1>1 DEF IsInjective
  <2>4. ASSUME NEW s \in Stack PROVE \E i \in Stack : list[i] = s
    <3>1. ROUTINES - s + 1 \in Stack /\ ROUTINES - (ROUTINES - s + 1) + 1 = s
      BY <1>1
    <3> QED BY <3>1, <2>1
  <2>5. ToSet(list) = Stack
    BY <2>1, <2>2, <2>4 DEF ToSet
  <2> QED BY <2>2, <2>3, <2>5
<1>6. StackAddresses(da) \in [Stack -> Layout(da)]
  BY DEF StackAddresses, Layout
<1>7. /\ <<>> \in Seq(Stack) /\ Len(<<>>) = 0 /\ ToSet(<<>>) = {} /\ IsInjective(<<>>)
  BY EmptySeq DEF ToSet, IsInjective
<1>8. SharedStack(da) \subseteq AreaPages(da)
  BY LayoutPages
<1>9. {StackAddresses(da)[s] : s \in Stack} = Layout(da)
  BY DEF Layout
<1> HIDE DEF all
<1>10. PoolOK(AllFree(da), {}, da, TRUE) /\ AllFree(da).active = <<>>
  <2>1. PICK p : p = AllFree(da)
    OBVIOUS
  <2>2. p = [ptr |-> StackAddresses(da), free |-> list, emergency |-> <<>>, active |-> <<>>,
             NumEmergency |-> 0, mapped |-> SharedStack(da)]
    BY <2>1, <1>4 DEF AllFree, all
  <2>3. p \in PoolType(da)
    BY <2>2, <1>5, <1>6, <1>7, <1>8 DEF PoolType
  <2>4. ListsOK(p)
    BY <2>2, <1>5, <1>7 DEF ListsOK
  <2>5. AddressesOK(p, {}, da)
    <3>1. ToSet(p.free) \cup ToSet(p.emergency) = Stack
      BY <2>2, <1>5, <1>7
    <3> QED BY <3>1, <2>2, <1>9, LayoutPages DEF AddressesOK
  <2>6. MemoryOK(p, {}, da)
    BY <2>2, <1>7 DEF MemoryOK, AddressesOf, PagesOf
  <2> QED BY <2>1, <2>2, <2>3, <2>4, <2>5, <2>6 DEF PoolOK
<1>11. PoolOK(AllReady(da), {}, da, FALSE) /\ AllReady(da).active = <<>>
  <2>1. PICK p : p = AllReady(da)
    OBVIOUS
  <2>2. p = [ptr |-> StackAddresses(da), free |-> <<>>, emergency |-> list, active |-> <<>>,
             NumEmergency |-> ROUTINES, mapped |-> AreaPages(da)]
    BY <2>1, <1>4 DEF AllReady, AllFree, all
  <2>3. p \in PoolType(da)
    BY <2>2, <1>1, <1>5, <1>6, <1>7 DEF PoolType
  <2>4. ListsOK(p)
    BY <2>2, <1>5, <1>7 DEF ListsOK
  <2>5. AddressesOK(p, {}, da)
    <3>1. ToSet(p.free) \cup ToSet(p.emergency) = Stack
      BY <2>2, <1>5, <1>7
    <3> QED BY <3>1, <2>2, <1>9, LayoutPages DEF AddressesOK
  <2> QED BY <2>1, <2>2, <2>3, <2>4, <2>5 DEF PoolOK
<1> QED BY <1>10, <1>11

(* The invariant holds when module_Initialise has done. *)
LEMMA PoolInvInit == Init => PoolInv
<1> SUFFICES ASSUME Init PROVE PoolInv
  OBVIOUS
<1>1. /\ static_DA \in Base /\ static_UseSparseArea \in BOOLEAN
      /\ svc_stack_copy = [r \in Routine |-> NoStack]
      /\ told = [r \in Routine |-> "nothing"]
      /\ lost = {}
  BY DEF Init
<1>2. Registered = {} /\ RoutineStacks = {} /\ Held = {}
  BY <1>1 DEF Registered, RoutineStacks, Held
<1>3. EMERGENCY_STACKS \in Nat
  BY StackPoolAssumption
<1>4. /\ PoolOK(pool, {}, static_DA, static_UseSparseArea)
      /\ pool.active = <<>> /\ taken \in 0..EMERGENCY_STACKS
      /\ static_UseSparseArea =>
           taken = EMERGENCY_STACKS \/ (taken = 0 /\ (pool.free = <<>> \/ pool.NumEmergency >= EMERGENCY_STACKS))
  <2>1. CASE static_UseSparseArea
    <3>1. PICK granted \in Grants :
            /\ pool = RebalanceEmergencyList(TRUE, AllFree(static_DA), granted)
            /\ taken = IF InFull(TRUE, AllFree(static_DA), granted) THEN 0 ELSE EMERGENCY_STACKS
      BY <2>1 DEF Init
    <3>2. PICK p : p = AllFree(static_DA)
      OBVIOUS
    <3>3. PoolOK(p, {}, static_DA, TRUE) /\ p.active = <<>>
      BY <3>2, <1>1, FreshPool
    <3>4. /\ PoolOK(pool, {}, static_DA, TRUE) /\ pool.active = p.active
          /\ InFull(TRUE, p, granted) => pool.free = <<>> \/ pool.NumEmergency >= EMERGENCY_STACKS
      <4>1. pool = RebalanceEmergencyList(TRUE, p, granted)
        BY <3>1, <3>2
      <4>2. TRUE \in BOOLEAN
        OBVIOUS
      <4> QED BY <4>1, <4>2, <3>3, <1>1, RebalanceKeepsPool
    <3>5. PoolOK(pool, {}, static_DA, static_UseSparseArea)
      BY <3>4, <2>1 DEF PoolOK
    <3>6. CASE InFull(TRUE, p, granted)
      <4>1. taken = 0 /\ (pool.free = <<>> \/ pool.NumEmergency >= EMERGENCY_STACKS)
        BY <3>1, <3>2, <3>4, <3>6
      <4> QED BY <4>1, <3>3, <3>4, <3>5, <1>3
    <3>7. CASE ~InFull(TRUE, p, granted)
      <4>1. taken = EMERGENCY_STACKS
        BY <3>1, <3>2, <3>7
      <4> QED BY <4>1, <3>3, <3>4, <3>5, <1>3
    <3> QED BY <3>6, <3>7
  <2>2. CASE ~static_UseSparseArea
    <3>1. pool = AllReady(static_DA) /\ taken = 0
      BY <2>2 DEF Init
    <3>2. PoolOK(pool, {}, static_DA, FALSE) /\ pool.active = <<>>
      BY <3>1, <1>1, FreshPool
    <3>3. PoolOK(pool, {}, static_DA, static_UseSparseArea)
      BY <3>2, <2>2 DEF PoolOK
    <3> QED BY <3>1, <3>2, <3>3, <2>2, <1>3
  <2> QED BY <2>1, <2>2
<1>5. Len(pool.active) = Cardinality(Registered) + Cardinality(lost)
  <2>1. Cardinality(Registered) = 0 /\ Cardinality(lost) = 0
    BY <1>1, <1>2, FS_EmptySet
  <2>2. Len(pool.active) = 0
    BY <1>4
  <2> QED BY <2>1, <2>2
<1>6. IsFiniteSet(Registered) /\ IsFiniteSet(lost)
  BY <1>1, <1>2, FS_EmptySet
<1>7. EmergencyReserve
  <2>1. pool.NumEmergency = Len(pool.emergency) /\ pool.NumEmergency \in Nat
    BY <1>4 DEF PoolOK, ListsOK, PoolType
  <2> QED BY <2>1, <1>3, <1>4 DEF EmergencyReserve
<1> QED BY <1>1, <1>2, <1>4, <1>5, <1>6, <1>7 DEF PoolInv

(* What RT_Register finds when it has filled an empty emergency list. *)
LEMMA RefilledPool ==
  ASSUME PoolInv, NEW granted \in Grants
  PROVE  LET p == Refilled(granted)
         IN /\ PoolOK(p, Held, static_DA, static_UseSparseArea) /\ p.active = pool.active
            /\ static_UseSparseArea /\ p.free # <<>> => p.NumEmergency >= EMERGENCY_STACKS - taken
<1>1. /\ static_DA \in Base /\ static_UseSparseArea \in BOOLEAN
      /\ PoolOK(pool, Held, static_DA, static_UseSparseArea)
      /\ EMERGENCY_STACKS \in Nat /\ taken \in Nat /\ taken <= EMERGENCY_STACKS
      /\ static_UseSparseArea /\ pool.free # <<>> => Len(pool.emergency) >= EMERGENCY_STACKS - taken
  BY StackPoolAssumption DEF PoolInv, EmergencyReserve
<1>2. pool.NumEmergency = Len(pool.emergency) /\ pool.NumEmergency \in Nat
  BY <1>1 DEF PoolOK, ListsOK, PoolType
<1>3. CASE pool.emergency # <<>>
  BY <1>1, <1>2, <1>3 DEF Refilled
<1>4. CASE pool.emergency = <<>>
  <2>1. PICK p : p = RebalanceEmergencyList(static_UseSparseArea, pool, granted)
    OBVIOUS
  <2>2. /\ PoolOK(p, Held, static_DA, static_UseSparseArea) /\ p.active = pool.active
        /\ static_UseSparseArea =>
             p.NumEmergency >= EMERGENCY_STACKS
               \/ (p.NumEmergency >= pool.NumEmergency /\ (pool.free = <<>> => p.free = <<>>))
    BY <2>1, <1>1, RebalanceKeepsPool
  <2>3. p.NumEmergency \in Nat
    BY <2>2 DEF PoolOK, PoolType
  <2>4. static_UseSparseArea /\ p.free # <<>> => p.NumEmergency >= EMERGENCY_STACKS - taken
    BY <2>2, <2>3, <1>1, <1>2
  <2>5. p = Refilled(granted)
    BY <2>1, <1>4 DEF Refilled
  <2> QED BY <2>2, <2>4, <2>5
<1> QED BY <1>3, <1>4

(* RT_Register keeps it, whether or not malloc fails in the end. *)
LEMMA PoolInvRegister ==
  ASSUME PoolInv, NEW r \in Routine, Register(r)
  PROVE  PoolInv'
<1>1. /\ static_DA \in Base /\ static_UseSparseArea \in BOOLEAN
      /\ svc_stack_copy \in [Routine -> {NoStack} \cup {a + STACK_SIZE : a \in Layout(static_DA)}]
      /\ told \in [Routine -> {"nothing", "handle", "error"}]
      /\ \A q, s \in Registered : SavedAt(q) = SavedAt(s) => q = s
      /\ RoutineStacks \cap lost = {}
      /\ IsFiniteSet(Registered) /\ IsFiniteSet(lost)
      /\ Len(pool.active) = Cardinality(Registered) + Cardinality(lost)
      /\ EMERGENCY_STACKS \in Nat \ {0} /\ taken \in Nat /\ taken <= EMERGENCY_STACKS
  BY StackPoolAssumption DEF PoolInv
<1>2. PICK first \in Grants, second \in Grants :
        LET p == Refilled(first)
            q == Grab(p)
            addr == p.ptr[Head(p.emergency)]
        IN /\ p.emergency # <<>>
           /\ pool' = RebalanceEmergencyList(static_UseSparseArea, q, second)
           /\ taken' = IF InFull(static_UseSparseArea, q, second) THEN 0
                       ELSE SmallestOf({taken + 1, EMERGENCY_STACKS})
           /\ \/ Created(r, addr, RegisterError(first))
              \/ NoMemory(r, addr)
  BY DEF Register
<1>3. PICK p, q, addr : p = Refilled(first) /\ q = Grab(p) /\ addr = p.ptr[Head(p.emergency)]
  OBVIOUS
<1>4. /\ p.emergency # <<>>
      /\ pool' = RebalanceEmergencyList(static_UseSparseArea, q, second)
      /\ taken' = IF InFull(static_UseSparseArea, q, second) THEN 0
                  ELSE SmallestOf({taken + 1, EMERGENCY_STACKS})
      /\ Created(r, addr, RegisterError(first)) \/ NoMemory(r, addr)
  BY <1>2, <1>3
<1>5. /\ PoolOK(p, Held, static_DA, static_UseSparseArea) /\ p.active = pool.active
      /\ static_UseSparseArea /\ p.free # <<>> => p.NumEmergency >= EMERGENCY_STACKS - taken
  BY <1>3, RefilledPool
<1>6. /\ PoolOK(q, Held \cup {addr}, static_DA, static_UseSparseArea)
      /\ addr \in Layout(static_DA) /\ addr \notin Held
      /\ Len(q.active) = Len(p.active) + 1
      /\ q.NumEmergency = p.NumEmergency - 1 /\ q.free = p.free
  <2>1. PICK H, da, sparse : H = Held /\ da = static_DA /\ sparse = static_UseSparseArea
    OBVIOUS
  <2>2. da \in Base /\ sparse \in BOOLEAN /\ PoolOK(p, H, da, sparse) /\ p.emergency # <<>>
    BY <2>1, <1>1, <1>4, <1>5
  <2>3. /\ PoolOK(Grab(p), H \cup {p.ptr[Head(p.emergency)]}, da, sparse)
        /\ p.ptr[Head(p.emergency)] \in Layout(da) /\ p.ptr[Head(p.emergency)] \notin H
        /\ Len(Grab(p).active) = Len(p.active) + 1
        /\ Grab(p).NumEmergency = p.NumEmergency - 1 /\ Grab(p).free = p.free
    BY <2>2, GrabKeepsPool
  <2> QED BY <2>1, <2>3, <1>3
<1>7. /\ PoolOK(pool', Held \cup {addr}, static_DA, static_UseSparseArea)
      /\ pool'.active = q.active
      /\ static_UseSparseArea /\ InFull(static_UseSparseArea, q, second) =>
           pool'.free = <<>> \/ pool'.NumEmergency >= EMERGENCY_STACKS
      /\ static_UseSparseArea =>
           pool'.NumEmergency >= EMERGENCY_STACKS
             \/ (pool'.NumEmergency >= q.NumEmergency /\ (q.free = <<>> => pool'.free = <<>>))
  BY <1>1, <1>4, <1>6, RebalanceKeepsPool
<1>8. /\ p.NumEmergency \in Nat /\ q.NumEmergency \in Nat
      /\ pool'.NumEmergency \in Nat /\ pool'.NumEmergency = Len(pool'.emergency)
  BY <1>5, <1>6, <1>7 DEF PoolOK, PoolType, ListsOK
<1>9. static_DA' = static_DA /\ static_UseSparseArea' = static_UseSparseArea /\ svc_stack_copy[r] = NoStack
  BY DEF Register
<1>10. /\ taken' \in 0..EMERGENCY_STACKS
       /\ ~InFull(static_UseSparseArea, q, second) => taken' = taken + 1 \/ taken' = EMERGENCY_STACKS
  <2>1. taken + 1 \in Int /\ EMERGENCY_STACKS \in Int
    BY <1>1
  <2>2. /\ SmallestOf({taken + 1, EMERGENCY_STACKS}) \in {taken + 1, EMERGENCY_STACKS}
        /\ SmallestOf({taken + 1, EMERGENCY_STACKS}) <= EMERGENCY_STACKS
    BY <2>1, SmallestOfTwo
  <2> QED BY <2>2, <1>1, <1>4
<1>11. EmergencyReserve'
  <2> SUFFICES ASSUME static_UseSparseArea, pool'.free # <<>>
               PROVE  pool'.NumEmergency >= EMERGENCY_STACKS - taken'
    BY <1>8, <1>9 DEF EmergencyReserve
  <2>1. CASE InFull(static_UseSparseArea, q, second)
    BY <2>1, <1>1, <1>7, <1>8, <1>10
  <2>2. CASE ~InFull(static_UseSparseArea, q, second)
    BY <2>2, <1>1, <1>5, <1>6, <1>7, <1>8, <1>10
  <2> QED BY <2>1, <2>2
<1>12. Len(pool'.active) = Len(pool.active) + 1
  BY <1>5, <1>6, <1>7
<1>13. addr \in Nat /\ addr + STACK_SIZE # NoStack /\ addr + STACK_SIZE - STACK_SIZE = addr
  BY <1>1, <1>6, LayoutPages DEF STACK_SIZE, NoStack
<1>14. addr \notin RoutineStacks /\ addr \notin lost
  BY <1>6 DEF Held
<1>15. CASE Created(r, addr, RegisterError(first))
  <2>1. /\ svc_stack_copy' = [svc_stack_copy EXCEPT ![r] = addr + STACK_SIZE]
        /\ told' = [told EXCEPT ![r] = IF RegisterError(first) THEN "error" ELSE "handle"]
        /\ lost' = lost
    BY <1>15 DEF Created
  <2>2. /\ svc_stack_copy' \in [Routine -> {NoStack} \cup {a + STACK_SIZE : a \in Layout(static_DA)}]
        /\ told' \in [Routine -> {"nothing", "handle", "error"}]
    BY <2>1, <1>1, <1>6
  <2>3. Registered' = Registered \cup {r} /\ r \notin Registered
    BY <2>1, <1>1, <1>9, <1>13 DEF Registered
  <2>4. SavedAt(r)' = addr /\ \A x \in Registered : SavedAt(x)' = SavedAt(x)
    <3>1. svc_stack_copy'[r] = addr + STACK_SIZE
      BY <2>1, <1>1
    <3>2. \A x \in Registered : svc_stack_copy'[x] = svc_stack_copy[x]
      BY <2>1, <2>3, <1>1 DEF Registered
    <3>3. svc_stack_copy'[r] - STACK_SIZE = addr
      BY <3>1, <1>13 DEF STACK_SIZE
    <3>4. SavedAt(r)' = addr
      BY <3>3 DEF SavedAt
    <3>5. \A x \in Registered : SavedAt(x)' = SavedAt(x)
      BY <3>2 DEF SavedAt
    <3> QED BY <3>4, <3>5
  <2>5. RoutineStacks' = RoutineStacks \cup {addr}
    BY <2>3, <2>4 DEF RoutineStacks
  <2>6. Held' = Held \cup {addr}
    BY <2>1, <2>5 DEF Held
  <2>7. \A x, s \in Registered' : SavedAt(x)' = SavedAt(s)' => x = s
    <3>1. \A x \in Registered : SavedAt(x) # addr
      BY <1>14 DEF RoutineStacks
    <3> QED BY <3>1, <2>3, <2>4, <1>1
  <2>8. IsFiniteSet(Registered') /\ Cardinality(Registered') = Cardinality(Registered) + 1
    BY <2>3, <1>1, FS_AddElement
  <2>9. Len(pool'.active) = Cardinality(Registered') + Cardinality(lost')
    <3>1. Cardinality(Registered) \in Nat /\ Cardinality(lost) \in Nat
      BY <1>1, FS_CardinalityType
    <3> QED BY <3>1, <2>1, <2>8, <1>1, <1>12
  <2>10. RoutineStacks' \cap lost' = {}
    BY <2>1, <2>5, <1>1, <1>14
  <2> QED BY <2>1, <2>2, <2>6, <2>7, <2>8, <2>9, <2>10, <1>1, <1>7, <1>9, <1>10, <1>11 DEF PoolInv
<1>16. CASE NoMemory(r, addr)
  <2>1. /\ svc_stack_copy' = svc_stack_copy /\ lost' = lost \cup {addr}
        /\ told' = [told EXCEPT ![r] = "error"]
    BY <1>16 DEF NoMemory
  <2>2. told' \in [Routine -> {"nothing", "handle", "error"}]
    BY <2>1, <1>1
  <2>3. /\ Registered' = Registered /\ RoutineStacks' = RoutineStacks
        /\ \A x \in Routine : SavedAt(x)' = SavedAt(x)
    BY <2>1 DEF Registered, RoutineStacks, SavedAt
  <2>4. Held' = Held \cup {addr}
    BY <2>1, <2>3 DEF Held
  <2>5. IsFiniteSet(lost') /\ Cardinality(lost') = Cardinality(lost) + 1
    BY <2>1, <1>1, <1>14, FS_AddElement
  <2>6. Len(pool'.active) = Cardinality(Registered') + Cardinality(lost')
    <3>1. Cardinality(Registered) \in Nat /\ Cardinality(lost) \in Nat
      BY <1>1, FS_CardinalityType
    <3> QED BY <3>1, <2>3, <2>5, <1>1, <1>12
  <2>7. RoutineStacks' \cap lost' = {}
    BY <2>1, <2>3, <1>1, <1>14
  <2>8. \A x, s \in Registered' : SavedAt(x)' = SavedAt(s)' => x = s
    BY <2>3, <1>1 DEF Registered
  <2> QED BY <2>1, <2>2, <2>3, <2>4, <2>5, <2>6, <2>7, <2>8, <1>1, <1>7, <1>9, <1>10, <1>11 DEF PoolInv
<1> QED BY <1>4, <1>15, <1>16

(* RT_Deregister keeps it: the records' pointers are mended as the addresses come back. *)
LEMMA PoolInvDeregister ==
  ASSUME PoolInv, NEW r \in Routine, Deregister(r)
  PROVE  PoolInv'
<1>1. /\ static_DA \in Base /\ static_UseSparseArea \in BOOLEAN
      /\ svc_stack_copy \in [Routine -> {NoStack} \cup {a + STACK_SIZE : a \in Layout(static_DA)}]
      /\ told \in [Routine -> {"nothing", "handle", "error"}]
      /\ \A q, s \in Registered : SavedAt(q) = SavedAt(s) => q = s
      /\ RoutineStacks \cap lost = {}
      /\ PoolOK(pool, Held, static_DA, static_UseSparseArea)
      /\ IsFiniteSet(Registered) /\ IsFiniteSet(lost)
      /\ Len(pool.active) = Cardinality(Registered) + Cardinality(lost)
      /\ EMERGENCY_STACKS \in Nat /\ taken \in Nat /\ taken <= EMERGENCY_STACKS
      /\ static_UseSparseArea /\ pool.free # <<>> => Len(pool.emergency) >= EMERGENCY_STACKS - taken
  BY StackPoolAssumption DEF PoolInv, EmergencyReserve
<1>2. PICK addr : addr = SavedAt(r)
  OBVIOUS
<1>3. PICK granted \in Grants :
        LET p == PutBack(pool, addr)
        IN /\ pool' = RebalanceEmergencyList(static_UseSparseArea, p, granted)
           /\ taken' = IF InFull(static_UseSparseArea, p, granted) THEN 0 ELSE taken
  BY <1>2 DEF Deregister, SavedAt
<1>4. /\ svc_stack_copy' = [svc_stack_copy EXCEPT ![r] = NoStack]
      /\ told' = [told EXCEPT ![r] = "nothing"]
      /\ static_DA' = static_DA /\ static_UseSparseArea' = static_UseSparseArea /\ lost' = lost
      /\ svc_stack_copy[r] # NoStack
  BY DEF Deregister
<1>5. r \in Registered /\ addr \in RoutineStacks /\ addr \in Held /\ addr \notin lost
  BY <1>1, <1>2, <1>4 DEF Registered, RoutineStacks, Held
(* There is a routine, so there is an active record. *)
<1>6. /\ Cardinality(Registered) \in Nat /\ Cardinality(Registered) # 0 /\ Cardinality(lost) \in Nat
      /\ pool.active # <<>>
  <2>1. Cardinality(Registered) \in Nat /\ Cardinality(lost) \in Nat
    BY <1>1, FS_CardinalityType
  <2>2. Cardinality(Registered) # 0
    BY <1>1, <1>5, FS_EmptySet
  <2>3. Len(pool.active) # 0
    BY <2>1, <2>2, <1>1
  <2> QED BY <2>1, <2>2, <2>3
<1>7. PICK p : p = PutBack(pool, addr)
  OBVIOUS
<1>8. /\ PoolOK(p, Held \ {addr}, static_DA, static_UseSparseArea)
      /\ Len(p.active) = Len(pool.active) - 1
      /\ p.NumEmergency = pool.NumEmergency + 1 /\ p.free = pool.free
  <2>1. PICK H, da, sparse : H = Held /\ da = static_DA /\ sparse = static_UseSparseArea
    OBVIOUS
  <2>2. /\ da \in Base /\ sparse \in BOOLEAN /\ PoolOK(pool, H, da, sparse)
        /\ pool.active # <<>> /\ addr \in H
    BY <2>1, <1>1, <1>5, <1>6
  <2>3. /\ PoolOK(PutBack(pool, addr), H \ {addr}, da, sparse)
        /\ Len(PutBack(pool, addr).active) = Len(pool.active) - 1
        /\ PutBack(pool, addr).NumEmergency = pool.NumEmergency + 1
        /\ PutBack(pool, addr).free = pool.free
    BY <2>2, PutBackKeepsPool
  <2> QED BY <2>1, <2>3, <1>7
<1>9. /\ PoolOK(pool', Held \ {addr}, static_DA, static_UseSparseArea)
      /\ pool'.active = p.active
      /\ static_UseSparseArea /\ InFull(static_UseSparseArea, p, granted) =>
           pool'.free = <<>> \/ pool'.NumEmergency >= EMERGENCY_STACKS
      /\ static_UseSparseArea =>
           pool'.NumEmergency >= EMERGENCY_STACKS
             \/ (pool'.NumEmergency >= p.NumEmergency /\ (p.free = <<>> => pool'.free = <<>>))
  <2>1. pool' = RebalanceEmergencyList(static_UseSparseArea, p, granted)
    BY <1>3, <1>7
  <2> QED BY <2>1, <1>1, <1>8, RebalanceKeepsPool
<1>10. /\ pool.NumEmergency \in Nat /\ pool.NumEmergency = Len(pool.emergency)
       /\ pool'.NumEmergency \in Nat /\ pool'.NumEmergency = Len(pool'.emergency)
  BY <1>1, <1>9 DEF PoolOK, PoolType, ListsOK
<1>11. taken' = IF InFull(static_UseSparseArea, p, granted) THEN 0 ELSE taken
  BY <1>3, <1>7
<1>12. taken' \in 0..EMERGENCY_STACKS
  BY <1>1, <1>11
<1>13. EmergencyReserve'
  <2> SUFFICES ASSUME static_UseSparseArea, pool'.free # <<>>
               PROVE  pool'.NumEmergency >= EMERGENCY_STACKS - taken'
    BY <1>4, <1>10 DEF EmergencyReserve
  <2>1. CASE InFull(static_UseSparseArea, p, granted)
    BY <2>1, <1>1, <1>9, <1>10, <1>11
  <2>2. CASE ~InFull(static_UseSparseArea, p, granted)
    BY <2>2, <1>1, <1>8, <1>9, <1>10, <1>11
  <2> QED BY <2>1, <2>2
<1>14. /\ svc_stack_copy' \in [Routine -> {NoStack} \cup {a + STACK_SIZE : a \in Layout(static_DA)}]
       /\ told' \in [Routine -> {"nothing", "handle", "error"}]
  BY <1>1, <1>4
<1>15. Registered' = Registered \ {r}
  BY <1>1, <1>4 DEF Registered
<1>16. \A x \in Registered \ {r} : SavedAt(x)' = SavedAt(x)
  <2>1. \A x \in Registered \ {r} : svc_stack_copy'[x] = svc_stack_copy[x]
    BY <1>1, <1>4 DEF Registered
  <2> QED BY <2>1 DEF SavedAt
<1>17. RoutineStacks' = RoutineStacks \ {addr}
  <2>1. RoutineStacks' = {SavedAt(x) : x \in Registered \ {r}}
    BY <1>15, <1>16 DEF RoutineStacks
  <2>2. \A x \in Registered \ {r} : SavedAt(x) # addr
    BY <1>1, <1>2, <1>5
  <2> QED BY <2>1, <2>2, <1>2 DEF RoutineStacks
<1>18. Held' = Held \ {addr}
  BY <1>4, <1>5, <1>17 DEF Held
<1>19. \A x, s \in Registered' : SavedAt(x)' = SavedAt(s)' => x = s
  BY <1>1, <1>15, <1>16
<1>20. IsFiniteSet(Registered') /\ Cardinality(Registered') = Cardinality(Registered) - 1
  BY <1>1, <1>5, <1>15, FS_RemoveElement
<1>21. Len(pool'.active) = Cardinality(Registered') + Cardinality(lost')
  BY <1>1, <1>4, <1>6, <1>8, <1>9, <1>20
<1>22. RoutineStacks' \cap lost' = {}
  BY <1>1, <1>4, <1>17
<1> QED
  BY <1>1, <1>4, <1>9, <1>12, <1>13, <1>14, <1>18, <1>19, <1>20, <1>21, <1>22 DEF PoolInv

(* So every call does. *)
LEMMA PoolInvStep == PoolInv /\ [Next]_vars => PoolInv'
<1> SUFFICES ASSUME PoolInv, [Next]_vars PROVE PoolInv'
  OBVIOUS
<1>1. ASSUME NEW r \in Routine, Register(r) PROVE PoolInv'
  BY <1>1, PoolInvRegister
<1>2. ASSUME NEW r \in Routine, RegisterRefused(r) PROVE PoolInv'
  <2>1. /\ UNCHANGED <<static_DA, static_UseSparseArea, pool, svc_stack_copy, lost, taken>>
        /\ told' = [told EXCEPT ![r] = "error"]
    BY <1>2 DEF RegisterRefused
  <2>2. told' \in [Routine -> {"nothing", "handle", "error"}]
    BY <2>1 DEF PoolInv
  <2>3. /\ Registered' = Registered /\ RoutineStacks' = RoutineStacks /\ Held' = Held
        /\ \A x \in Routine : SavedAt(x)' = SavedAt(x)
    BY <2>1 DEF Registered, RoutineStacks, Held, SavedAt
  <2>4. \A x, s \in Registered' : SavedAt(x)' = SavedAt(s)' => x = s
    BY <2>3 DEF PoolInv, Registered
  <2> QED BY <2>1, <2>2, <2>3, <2>4 DEF PoolInv, EmergencyReserve
<1>3. ASSUME NEW r \in Routine, Deregister(r) PROVE PoolInv'
  BY <1>3, PoolInvDeregister
<1>4. CASE UNCHANGED vars
  <2>1. UNCHANGED <<static_DA, static_UseSparseArea, pool, svc_stack_copy, told, lost, taken>>
    BY <1>4 DEF vars
  <2>2. /\ Registered' = Registered /\ RoutineStacks' = RoutineStacks /\ Held' = Held
        /\ \A x \in Routine : SavedAt(x)' = SavedAt(x)
    BY <2>1 DEF Registered, RoutineStacks, Held, SavedAt
  <2>3. \A x, s \in Registered' : SavedAt(x)' = SavedAt(s)' => x = s
    BY <2>2 DEF PoolInv, Registered
  <2> QED BY <2>1, <2>2, <2>3 DEF PoolInv, EmergencyReserve
<1> QED BY <1>1, <1>2, <1>3, <1>4 DEF Next

(* The invariant of every behaviour. *)
LEMMA PoolInvHolds == Spec => []PoolInv
BY PoolInvInit, PoolInvStep, PTL DEF Spec

-----------------------------------------------------------------------------
(* What the invariant says of the types. *)
LEMMA TypeFromInv == PoolInv => TypeOK
<1> SUFFICES ASSUME PoolInv PROVE TypeOK
  OBVIOUS
<1>1. static_DA \in Base /\ pool \in PoolType(static_DA) /\ ListsOK(pool)
  BY DEF PoolInv, PoolOK
<1>2. Layout(static_DA) \subseteq AreaPages(static_DA)
  BY <1>1, LayoutPages
<1>3. pool.ptr \in [Stack -> AreaPages(static_DA)]
  BY <1>1, <1>2 DEF PoolType
<1>4. /\ pool.free \in Seq(Stack) /\ pool.emergency \in Seq(Stack) /\ pool.active \in Seq(Stack)
      /\ pool.mapped \subseteq AreaPages(static_DA) /\ pool.NumEmergency \in Nat
  BY <1>1 DEF PoolType
<1>5. pool.NumEmergency \in 0..ROUTINES
  <2>1. PICK list : list = pool.emergency
    OBVIOUS
  <2>2. list \in Seq(Stack) /\ IsInjective(list) /\ pool.NumEmergency = Len(list)
    BY <2>1, <1>1, <1>4 DEF ListsOK
  <2>3. Len(list) <= ROUTINES
    BY <2>2, ListLength
  <2> QED BY <2>2, <2>3, <1>4, StackPoolAssumption
<1>6. svc_stack_copy \in [Routine -> {NoStack} \cup {a + STACK_SIZE : a \in AreaPages(static_DA)}]
  <2>1. {a + STACK_SIZE : a \in Layout(static_DA)} \subseteq {a + STACK_SIZE : a \in AreaPages(static_DA)}
    BY <1>2
  <2> QED BY <2>1 DEF PoolInv
<1>7. lost \subseteq AreaPages(static_DA)
  <2>1. lost \subseteq Layout(static_DA)
    BY DEF PoolInv, PoolOK, AddressesOK, Held
  <2> QED BY <2>1, <1>2
<1> QED BY <1>1, <1>3, <1>4, <1>5, <1>6, <1>7 DEF TypeOK, PoolInv

(* The variables keep their types, and no stack reaches beyond the area.                       *)
THEOREM TypeCorrect == Spec => []TypeOK
BY PoolInvHolds, TypeFromInv, PTL

(* Different places of the layout have different pages. *)
LEMMA StacksApartFromInv == PoolInv => StacksApart
<1> SUFFICES ASSUME PoolInv PROVE StacksApart
  OBVIOUS
<1>1. static_DA \in Base /\ AddressesOK(pool, Held, static_DA) /\ pool \in PoolType(static_DA)
  BY DEF PoolInv, PoolOK
<1>2. PICK spare : spare = ToSet(pool.free) \cup ToSet(pool.emergency)
  OBVIOUS
<1>3. /\ \A s, t \in spare : pool.ptr[s] = pool.ptr[t] => s = t
      /\ \A s \in spare : pool.ptr[s] \notin Held
      /\ {pool.ptr[s] : s \in spare} \cup Held = Layout(static_DA)
  BY <1>1, <1>2 DEF AddressesOK
<1>4. /\ \A x, y \in Layout(static_DA) : x # y => Pages(x) \cap Pages(y) = {}
      /\ \A x \in Layout(static_DA) :
           Pages(x) \subseteq AreaPages(static_DA) \ (SharedStack(static_DA) \cup GuardPages(static_DA))
      /\ SharedStack(static_DA) \cup GuardPages(static_DA) \subseteq AreaPages(static_DA)
  BY <1>1, LayoutPages
<1>5. \A r \in Registered : SavedAt(r) \in RoutineStacks
  BY DEF RoutineStacks
<1>6. RoutineStacks \subseteq Held
  BY DEF Held
<1>7. \A s, t \in spare : s # t => Pages(pool.ptr[s]) \cap Pages(pool.ptr[t]) = {}
  BY <1>3, <1>4
<1>8. \A q, r \in Registered : q # r => Pages(SavedAt(q)) \cap Pages(SavedAt(r)) = {}
  <2>1. \A q, r \in Registered : SavedAt(q) = SavedAt(r) => q = r
    BY DEF PoolInv
  <2> QED BY <2>1, <1>3, <1>4, <1>5, <1>6
<1>9. \A s \in spare, r \in Registered : Pages(pool.ptr[s]) \cap Pages(SavedAt(r)) = {}
  BY <1>3, <1>4, <1>5, <1>6
<1>10. {pool.ptr[s] : s \in spare} \cup RoutineStacks \subseteq Layout(static_DA)
  BY <1>3, <1>6
<1> QED BY <1>2, <1>4, <1>7, <1>8, <1>9, <1>10 DEF StacksApart

(* No page of the area belongs to two, whatever the size of the stacks' pool, wherever the     *)
(* kernel puts the area and however the calls follow each other.                               *)
THEOREM StacksStayApart == Spec => []StacksApart
BY PoolInvHolds, StacksApartFromInv, PTL

(* The spare addresses and the held ones are all. *)
LEMMA NoneElseLostFromInv == PoolInv => NoneElseLost
<1> SUFFICES ASSUME PoolInv PROVE NoneElseLost
  OBVIOUS
<1>1. {pool.ptr[s] : s \in ToSet(pool.free) \cup ToSet(pool.emergency)} \cup Held = Layout(static_DA)
  BY DEF PoolInv, PoolOK, AddressesOK
<1>2. AddressesOf(pool, pool.free) \cup AddressesOf(pool, pool.emergency)
        = {pool.ptr[s] : s \in ToSet(pool.free) \cup ToSet(pool.emergency)}
  BY DEF AddressesOf
<1> QED BY <1>1, <1>2 DEF NoneElseLost, Layout, Held

(* Only failed registrations lose stacks. *)
THEOREM OnlyFailuresLose == Spec => []NoneElseLost
BY PoolInvHolds, NoneElseLostFromInv, PTL

(* The three lists in a row. *)
LEMMA ListsAgreeFromInv == PoolInv => ListsAgree
<1> SUFFICES ASSUME PoolInv PROVE ListsAgree
  OBVIOUS
<1>1. pool \in PoolType(static_DA) /\ ListsOK(pool)
  BY DEF PoolInv, PoolOK
<1>2. PICK a, b, c : a = pool.free /\ b = pool.emergency /\ c = pool.active
  OBVIOUS
<1>3. /\ a \in Seq(Stack) /\ b \in Seq(Stack) /\ c \in Seq(Stack)
      /\ IsInjective(a) /\ IsInjective(b) /\ IsInjective(c)
      /\ ToSet(a) \cap ToSet(b) = {} /\ ToSet(c) \cap (ToSet(a) \cup ToSet(b)) = {}
      /\ ToSet(a) \cup ToSet(b) \cup ToSet(c) = Stack
  BY <1>1, <1>2 DEF PoolType, ListsOK
<1>4. a \o b \in Seq(Stack) /\ IsInjective(a \o b) /\ ToSet(a \o b) = ToSet(a) \cup ToSet(b)
  BY <1>3, JoinedLists
<1>5. PICK ab : ab = a \o b
  OBVIOUS
<1>6. ab \in Seq(Stack) /\ IsInjective(ab) /\ ToSet(ab) \cap ToSet(c) = {}
  BY <1>3, <1>4, <1>5
<1>7. IsInjective(ab \o c) /\ ToSet(ab \o c) = ToSet(ab) \cup ToSet(c)
  BY <1>3, <1>6, JoinedLists
<1>8. IsInjective(pool.free \o pool.emergency \o pool.active)
      /\ ToSet(pool.free \o pool.emergency \o pool.active) = Stack
  BY <1>2, <1>3, <1>4, <1>5, <1>7
<1> QED BY <1>1, <1>8 DEF ListsAgree, PoolInv, ListsOK

(* The lists part the records between them, so that RT_Deregister finds an active one. *)
THEOREM ListsStayInStep == Spec => []ListsAgree
BY PoolInvHolds, ListsAgreeFromInv, PTL

(* The memory that the invariant tells of. *)
LEMMA MemoryBehindFromInv == PoolInv => MemoryBehind
<1> SUFFICES ASSUME PoolInv, static_UseSparseArea
             PROVE  pool.mapped = SharedStack(static_DA)
                      \cup PagesOf(AddressesOf(pool, pool.emergency) \cup RoutineStacks \cup lost)
  BY DEF MemoryBehind
<1>1. pool.mapped = SharedStack(static_DA) \cup PagesOf(AddressesOf(pool, pool.emergency) \cup Held)
  BY DEF PoolInv, PoolOK, MemoryOK
<1>2. AddressesOf(pool, pool.emergency) \cup Held
        = AddressesOf(pool, pool.emergency) \cup RoutineStacks \cup lost
  BY DEF Held
<1> QED BY <1>1, <1>2

(* A sparse area has memory where it is needed and nowhere else. *)
THEOREM MemoryWhereNeeded == Spec => []MemoryBehind
BY PoolInvHolds, MemoryBehindFromInv, PTL

(* The emergency list lasts as long as it is meant to. *)
THEOREM ReserveLasts == Spec => []EmergencyReserve
<1>1. PoolInv => EmergencyReserve
  BY DEF PoolInv
<1> QED BY <1>1, PoolInvHolds, PTL
=============================================================================
