--------------------------- MODULE TranscriptProofs ---------------------------
(***************************************************************************)
(* Lemmas about Transcript, for files of any length: that the walk up the  *)
(* tree of records ends and is the only one, and what each surgery on the  *)
(* file makes of the tree and of the conversation.                         *)
(***************************************************************************)
EXTENDS Transcript, FunctionTheorems, SequenceTheorems, FiniteSetTheorems, WellFoundedInduction, TLAPS

-----------------------------------------------------------------------------
(***************************************************************************)
(* Numbers.  Induction is by sets of numbers: the numbers a fact holds for *)
(* are all numbers, if 0 is one of them and every next one is.             *)
(***************************************************************************)
Less == OpToRel(<, Nat)

LEMMA LeastNumber ==
  ASSUME NEW S \in SUBSET Nat, S # {}
  PROVE  \E n \in S : \A m \in S : n <= m
<1>1. \A x, y \in Nat : x < y => <<x, y>> \in Less
  BY DEF OpToRel, Less
<1>2. IsWellFoundedOn(Less, Nat)
  BY NatLessThanWellFounded DEF Less
<1>3. PICK x \in S : \A y \in S : ~(<<y, x>> \in Less)
  BY <1>2, WFMin
<1>4. \A y \in S : ~(y < x) /\ y \in Nat /\ x \in Nat
  BY <1>1, <1>3
<1>5. \A y \in S : x <= y
  BY <1>4
<1> QED
  BY <1>5

LEMMA AllNumbers ==
  ASSUME NEW S, 0 \in S, \A n \in Nat : n \in S => n + 1 \in S
  PROVE  Nat \subseteq S
<1> SUFFICES ASSUME Nat \ S # {} PROVE FALSE
  OBVIOUS
<1>1. PICK m \in Nat \ S : \A k \in Nat \ S : m <= k
  BY LeastNumber
<1>2. m # 0 /\ m - 1 \in Nat
  BY <1>1
<1>3. m - 1 \in S
  BY <1>1, <1>2
<1> QED
  BY <1>1, <1>2, <1>3

LEMMA GreatestNumber ==
  ASSUME NEW S \in SUBSET Nat, S # {}, NEW b \in Nat, \A n \in S : n <= b
  PROVE  \E n \in S : \A m \in S : m <= n
<1> DEFINE U == {n \in Nat : \A m \in S : m <= n}
<1>1. PICK n \in U : \A k \in U : n <= k
  <2>1. b \in U /\ U \in SUBSET Nat
    OBVIOUS
  <2> HIDE DEF U
  <2> QED
    BY <2>1, LeastNumber
<1>2. CASE n \in S
  BY <1>1, <1>2
<1>3. CASE n \notin S
  <2>1. \A m \in S : m \in Nat /\ m <= n /\ m # n
    BY <1>1, <1>3
  <2>2. n \in Nat /\ n - 1 \in Int /\ \A m \in S : m <= n - 1
    BY <1>1, <2>1
  <2>3. n - 1 \in Nat
    <3>1. PICK m \in S : TRUE
      OBVIOUS
    <3> QED
      BY <2>1, <2>2, <3>1
  <2>4. n - 1 \in U
    BY <2>2, <2>3
  <2>5. n <= n - 1
    BY <1>1, <2>4
  <2> QED
    BY <2>2, <2>5
<1> QED
  BY <1>2, <1>3

LEMMA MaxOfIndexes ==
  ASSUME NEW N \in Nat, NEW S \in SUBSET (1 .. N), S # {}
  PROVE  /\ Max(S) \in S /\ \A m \in S : m <= Max(S)
         /\ \A n \in S : (\A m \in S : m <= n) => Max(S) = n
<1>1. \E n \in S : \A m \in S : n >= m
  <2>1. S \in SUBSET Nat /\ \A n \in S : n <= N
    OBVIOUS
  <2>2. PICK n \in S : \A m \in S : m <= n
    BY <2>1, GreatestNumber
  <2>3. \A m \in S : n >= m
    BY <2>1, <2>2
  <2> QED
    BY <2>3
<1>2. Max(S) \in S /\ \A m \in S : Max(S) >= m
  BY <1>1 DEF Max
<1>3. \A m \in S : m \in Nat
  OBVIOUS
<1>4. \A m \in S : m <= Max(S)
  BY <1>2, <1>3
<1>5. ASSUME NEW n \in S, \A m \in S : m <= n PROVE Max(S) = n
  <2>1. n <= Max(S) /\ Max(S) <= n /\ n \in Nat /\ Max(S) \in Nat
    BY <1>2, <1>3, <1>4, <1>5
  <2> QED
    BY <2>1
<1> QED
  BY <1>2, <1>4, <1>5

\* A set of indexes without gaps.
LEMMA NoGaps ==
  ASSUME NEW N \in Nat, NEW S \in SUBSET (1 .. N), \A n \in S : n > 1 => n - 1 \in S
  PROVE  S = 1 .. Cardinality(S) /\ Cardinality(S) \in 0 .. N
<1>1. CASE S = {}
  <2>1. Cardinality(S) = 0 /\ 1 .. 0 = {}
    BY <1>1, FS_EmptySet
  <2> QED
    BY <1>1, <2>1
<1>2. CASE S # {}
  <2>1. PICK n \in S : \A m \in S : m <= n
    BY <1>2, MaxOfIndexes
  <2> DEFINE G == {k \in Nat : k < n => n - k \in S}
  <2>2. 0 \in G
    BY <2>1
  <2>3. \A k \in Nat : k \in G => k + 1 \in G
    <3> SUFFICES ASSUME NEW k \in Nat, k \in G, k + 1 < n PROVE n - (k + 1) \in S
      OBVIOUS
    <3>1. n - k \in S /\ n - k > 1
      BY <2>1
    <3>2. (n - k) - 1 = n - (k + 1)
      BY <2>1
    <3> QED
      BY <3>1, <3>2
  <2>4. Nat \subseteq G
    <3> HIDE DEF G
    <3> QED
      BY <2>2, <2>3, AllNumbers
  <2>5. ASSUME NEW i \in 1 .. n PROVE i \in S
    <3>1. n - i \in Nat /\ n - i < n /\ n - (n - i) = i
      BY <2>1
    <3> QED
      BY <2>4, <3>1
  <2>6. S = 1 .. n /\ n \in 1 .. N
    <3>1. n \in 1 .. N /\ \A m \in S : m \in 1 .. n
      BY <2>1
    <3> QED
      BY <2>5, <3>1
  <2>7. Cardinality(S) = n
    BY <2>6, FS_Interval
  <2> QED
    BY <2>6, <2>7
<1> QED
  BY <1>1, <1>2

\* What goes down step by step goes down.
LEMMA Decreasing ==
  ASSUME NEW n \in Nat, NEW f \in [1 .. n -> Nat], \A i \in 1 .. n : i > 1 => f[i] < f[i - 1]
  PROVE  \A i, j \in 1 .. n : i < j => f[j] < f[i]
<1> DEFINE G == {d \in Nat : \A i \in 1 .. n : i + d + 1 <= n => f[i + d + 1] < f[i]}
<1>1. 0 \in G
  <2> SUFFICES ASSUME NEW i \in 1 .. n, i + 0 + 1 <= n PROVE f[i + 0 + 1] < f[i]
    OBVIOUS
  <2>1. i + 1 \in 1 .. n /\ i + 1 > 1 /\ (i + 1) - 1 = i /\ i + 0 + 1 = i + 1
    OBVIOUS
  <2> QED
    BY <2>1
<1>2. \A d \in Nat : d \in G => d + 1 \in G
  <2> SUFFICES ASSUME NEW d \in Nat, d \in G, NEW i \in 1 .. n, i + (d + 1) + 1 <= n
               PROVE  f[i + (d + 1) + 1] < f[i]
    OBVIOUS
  <2>1. i + d + 1 <= n /\ f[i + d + 1] < f[i]
    OBVIOUS
  <2>2. i + d + 2 \in 1 .. n /\ i + d + 2 > 1 /\ (i + d + 2) - 1 = i + d + 1 /\ i + (d + 1) + 1 = i + d + 2
        /\ i + d + 1 \in 1 .. n
    BY <2>1
  <2>3. f[i + d + 2] < f[i + d + 1]
    BY <2>2
  <2>4. f[i + d + 2] \in Nat /\ f[i + d + 1] \in Nat /\ f[i] \in Nat
    BY <2>2
  <2> QED
    BY <2>1, <2>2, <2>3, <2>4
<1>3. Nat \subseteq G
  <2> HIDE DEF G
  <2> QED
    BY <1>1, <1>2, AllNumbers
<1> SUFFICES ASSUME NEW i \in 1 .. n, NEW j \in 1 .. n, i < j PROVE f[j] < f[i]
  OBVIOUS
<1>4. PICK d \in Nat : d = j - i - 1
  <2>1. j - i - 1 \in Nat
    OBVIOUS
  <2> QED
    BY <2>1
<1>5. d \in G
  BY <1>3
<1>6. i + d + 1 <= n => f[i + d + 1] < f[i]
  BY <1>5
<1> HIDE DEF G
<1>7. i + d + 1 = j /\ j <= n
  BY <1>4
<1> QED
  BY <1>6, <1>7
-----------------------------------------------------------------------------
(***************************************************************************)
(* Picked.                                                                 *)
(***************************************************************************)
\* The how manieth of I the index i is.
Count(I, i) == Cardinality({j \in I : j <= i})

\* The indexes of I in order.
Order(I) == [k \in 1 .. Cardinality(I) |-> CHOOSE i \in I : Count(I, i) = k]

LEMMA Counting ==
  ASSUME NEW N \in Nat, NEW I \in SUBSET (1 .. N)
  PROVE  /\ Cardinality(I) \in Nat /\ IsFiniteSet(I)
         /\ \A i \in I : Count(I, i) \in 1 .. Cardinality(I)
         /\ \A i, j \in I : i < j => Count(I, i) < Count(I, j)
         /\ \A k \in 1 .. Cardinality(I) : \E i \in I : Count(I, i) = k
<1> DEFINE upto(i) == {j \in I : j <= i}
<1>1. IsFiniteSet(I) /\ Cardinality(I) \in Nat
  <2>1. IsFiniteSet(1 .. N)
    BY FS_Interval
  <2>2. IsFiniteSet(I)
    BY <2>1, FS_Subset
  <2> QED
    BY <2>2, FS_CardinalityType
<1>2. ASSUME NEW i \in I
      PROVE  /\ IsFiniteSet(upto(i)) /\ Cardinality(upto(i)) \in Nat
             /\ Cardinality(upto(i)) <= Cardinality(I) /\ Cardinality(upto(i)) # 0
  <2>1. upto(i) \in SUBSET I /\ i \in upto(i)
    OBVIOUS
  <2> HIDE DEF upto
  <2>2. IsFiniteSet(upto(i)) /\ Cardinality(upto(i)) <= Cardinality(I)
    BY <1>1, <2>1, FS_Subset
  <2>3. Cardinality(upto(i)) \in Nat
    BY <2>2, FS_CardinalityType
  <2>4. Cardinality(upto(i)) # 0
    BY <2>1, <2>2, FS_EmptySet
  <2> QED
    BY <2>2, <2>3, <2>4
<1>3. ASSUME NEW i \in I, NEW j \in I, i < j
      PROVE  Cardinality(upto(i)) < Cardinality(upto(j))
  <2>1. upto(i) \in SUBSET upto(j) /\ j \in upto(j) /\ j \notin upto(i)
    <3>1. i \in Nat /\ j \in Nat /\ \A k \in I : k \in Nat
      OBVIOUS
    <3>2. \A k \in I : k <= i => k <= j
      BY <1>3, <3>1
    <3>3. j \in upto(j) /\ j \notin upto(i)
      BY <1>3, <3>1
    <3>4. upto(i) \subseteq upto(j)
      BY <3>2
    <3> QED
      BY <3>3, <3>4
  <2>2. /\ IsFiniteSet(upto(j)) /\ Cardinality(upto(i)) \in Nat /\ Cardinality(upto(j)) \in Nat
    BY <1>2
  <2> HIDE DEF upto
  <2>3. Cardinality(upto(i)) <= Cardinality(upto(j)) /\ Cardinality(upto(i)) # Cardinality(upto(j))
    BY <2>1, <2>2, FS_Subset
  <2> QED
    BY <2>2, <2>3
<1>4. \A i \in I : Cardinality(upto(i)) \in 1 .. Cardinality(I)
  <2> HIDE DEF upto
  <2> QED
    BY <1>1, <1>2
<1>5. \A k \in 1 .. Cardinality(I) : \E i \in I : Cardinality(upto(i)) = k
  <2> DEFINE f == [i \in I |-> Cardinality(upto(i))]
  <2>1. f \in [I -> 1 .. Cardinality(I)]
    <3> HIDE DEF upto
    <3> QED
      BY <1>4
  <2>2. \A i, j \in I : f[i] = f[j] => i = j
    <3> SUFFICES ASSUME NEW i \in I, NEW j \in I, f[i] = f[j], i # j PROVE FALSE
      OBVIOUS
    <3>1. i < j \/ j < i
      OBVIOUS
    <3>2. Cardinality(upto(i)) \in Nat /\ Cardinality(upto(j)) \in Nat
      BY <1>2
    <3> HIDE DEF upto
    <3> QED
      BY <1>3, <3>1, <3>2
  <2>3. IsFiniteSet(1 .. Cardinality(I)) /\ Cardinality(1 .. Cardinality(I)) = Cardinality(I)
    BY <1>1, FS_Interval
  <2> HIDE DEF f
  <2>4. f \in Injection(I, 1 .. Cardinality(I))
    BY <2>1, <2>2 DEF Injection, IsInjective
  <2>5. f \in Surjection(I, 1 .. Cardinality(I))
    BY <2>3, <2>4, FS_Injection
  <2>6. \A k \in 1 .. Cardinality(I) : \E i \in I : f[i] = k
    BY <2>5 DEF Surjection
  <2> QED
    BY <2>6 DEF f
<1> QED
  BY <1>1, <1>3, <1>4, <1>5 DEF Count

\* The one index of I that has k - 1 others before it.
LEMMA OrderAt ==
  ASSUME NEW N \in Nat, NEW I \in SUBSET (1 .. N), NEW i \in I
  PROVE  Order(I)[Count(I, i)] = i
<1> DEFINE k == Count(I, i)
<1>1. k \in 1 .. Cardinality(I) /\ \A j \in I : i # j => Count(I, j) # k
  <2>1. \A j \in I : Count(I, j) \in 1 .. Cardinality(I)
    BY Counting
  <2>2. \A j \in I : i # j => i < j \/ j < i
    <3>1. \A j \in I : j \in Nat /\ i \in Nat
      OBVIOUS
    <3> QED
      BY <3>1
  <2>3. \A j \in I : /\ i < j => Count(I, i) < Count(I, j)
                     /\ j < i => Count(I, j) < Count(I, i)
    BY Counting
  <2>4. Cardinality(I) \in Nat
    BY Counting
  <2> QED
    BY <2>1, <2>2, <2>3, <2>4
<1> HIDE DEF k
<1>2. (CHOOSE j \in I : Count(I, j) = k) = i
  BY <1>1 DEF k
<1>3. Order(I)[k] = i
  BY <1>1, <1>2 DEF Order
<1> QED
  BY <1>3 DEF k

LEMMA OrderIs ==
  ASSUME NEW N \in Nat, NEW I \in SUBSET (1 .. N)
  PROVE  /\ Cardinality(I) \in Nat
         /\ Order(I) \in [1 .. Cardinality(I) -> I]
         /\ \A i \in I : \E k \in 1 .. Cardinality(I) : Order(I)[k] = i
         /\ \A k, l \in 1 .. Cardinality(I) : k < l <=> Order(I)[k] < Order(I)[l]
         /\ \A k, l \in 1 .. Cardinality(I) : Order(I)[k] = Order(I)[l] => k = l
<1>1. /\ Cardinality(I) \in Nat
      /\ \A i \in I : Count(I, i) \in 1 .. Cardinality(I)
      /\ \A i, j \in I : i < j => Count(I, i) < Count(I, j)
      /\ \A k \in 1 .. Cardinality(I) : \E i \in I : Count(I, i) = k
  BY Counting
<1>2. \A i \in I : Order(I)[Count(I, i)] = i
  BY OrderAt
<1>3. \A k \in 1 .. Cardinality(I) : Order(I)[k] \in I /\ Count(I, Order(I)[k]) = k
  BY <1>1, <1>2
<1>4. Order(I) \in [1 .. Cardinality(I) -> I]
  <2>1. Order(I) = [k \in 1 .. Cardinality(I) |-> Order(I)[k]]
    BY DEF Order
  <2> QED
    BY <1>3, <2>1
<1>5. \A i \in I : \E k \in 1 .. Cardinality(I) : Order(I)[k] = i
  BY <1>1, <1>2
<1>6. ASSUME NEW k \in 1 .. Cardinality(I), NEW l \in 1 .. Cardinality(I)
      PROVE  /\ k < l <=> Order(I)[k] < Order(I)[l]
             /\ Order(I)[k] = Order(I)[l] => k = l
  <2> DEFINE i == Order(I)[k]  j == Order(I)[l]
  <2>1. i \in I /\ j \in I /\ Count(I, i) = k /\ Count(I, j) = l
    BY <1>3
  <2>2. i \in Nat /\ j \in Nat
    <3>1. \A x \in I : x \in Nat
      OBVIOUS
    <3> HIDE DEF i, j
    <3> QED
      BY <2>1, <3>1
  <2>3. i < j \/ i = j \/ j < i
    BY <2>2
  <2> HIDE DEF i, j
  <2>4. (i < j => k < l) /\ (j < i => l < k) /\ (i = j => k = l)
    BY <1>1, <2>1
  <2>5. (k < l <=> i < j) /\ (i = j => k = l)
    BY <2>2, <2>3, <2>4, <1>1
  <2> QED
    BY <2>5 DEF i, j
<1> QED
  BY <1>1, <1>4, <1>5, <1>6

LEMMA PickedIs ==
  ASSUME NEW T, NEW s \in Seq(T), NEW I \in SUBSET DOMAIN s
  PROVE  /\ Picked(s, I) = [k \in 1 .. Cardinality(I) |-> s[Order(I)[k]]]
         /\ Picked(s, I) \in Seq(T) /\ Len(Picked(s, I)) = Cardinality(I)
         /\ DOMAIN Picked(s, I) = 1 .. Cardinality(I)
<1>1. Len(s) \in Nat /\ I \in SUBSET (1 .. Len(s)) /\ \A i \in I : s[i] \in T
  OBVIOUS
<1>2. Cardinality(I) \in Nat /\ Order(I) \in [1 .. Cardinality(I) -> I]
  BY <1>1, OrderIs
<1>3. \A k \in 1 .. Cardinality(I) : s[Order(I)[k]] \in T
  BY <1>1, <1>2
<1>4. Picked(s, I) = [k \in 1 .. Cardinality(I) |-> s[Order(I)[k]]]
  BY DEF Picked, Order, Count
<1> QED
  BY <1>2, <1>3, <1>4

\* To leave one out.
LEMMA OrderOthers ==
  ASSUME NEW N \in Nat, NEW d \in 1 .. N
  PROVE  /\ Cardinality((1 .. N) \ {d}) = N - 1
         /\ \A k \in 1 .. N - 1 : Order((1 .. N) \ {d})[k] = IF k < d THEN k ELSE k + 1
<1> DEFINE I == (1 .. N) \ {d}
<1>1. I \in SUBSET (1 .. N)
  OBVIOUS
<1>2. Cardinality(I) = N - 1
  <2>1. IsFiniteSet(1 .. N) /\ Cardinality(1 .. N) = N
    <3>1. 1 \in Int /\ N \in Int /\ (1 > N <=> N = 0) /\ N - 1 + 1 = N
      OBVIOUS
    <3> QED
      BY <3>1, FS_Interval
  <2> QED
    BY <2>1, FS_RemoveElement
<1>3. ASSUME NEW k \in 1 .. N - 1, k < d PROVE k \in I /\ Count(I, k) = k
  <2>1. k \in I /\ {j \in I : j <= k} = 1 .. k
    BY <1>3
  <2>2. Cardinality(1 .. k) = k
    <3>1. 1 \in Int /\ k \in Int /\ ~(1 > k) /\ k - 1 + 1 = k
      OBVIOUS
    <3> QED
      BY <3>1, FS_Interval
  <2> QED
    BY <2>1, <2>2 DEF Count
<1>4. ASSUME NEW k \in 1 .. N - 1, ~(k < d) PROVE k + 1 \in I /\ Count(I, k + 1) = k
  <2>1. k + 1 \in I /\ {j \in I : j <= k + 1} = (1 .. (k + 1)) \ {d} /\ d \in 1 .. (k + 1)
    BY <1>4
  <2>2. IsFiniteSet(1 .. (k + 1)) /\ Cardinality(1 .. (k + 1)) = k + 1
    <3>1. 1 \in Int /\ k + 1 \in Int /\ ~(1 > k + 1) /\ (k + 1) - 1 + 1 = k + 1
      OBVIOUS
    <3> QED
      BY <3>1, FS_Interval
  <2>3. Cardinality((1 .. (k + 1)) \ {d}) = (k + 1) - 1
    BY ZenonT(30), <2>1, <2>2, FS_RemoveElement
  <2> QED
    BY <2>1, <2>3 DEF Count
<1> HIDE DEF I
<1>5. \A i \in I : Order(I)[Count(I, i)] = i
  BY <1>1, OrderAt
<1>6. \A k \in 1 .. N - 1 : Order(I)[k] = IF k < d THEN k ELSE k + 1
  BY <1>3, <1>4, <1>5
<1> QED
  BY <1>2, <1>6 DEF I

LEMMA PickedOthers ==
  ASSUME NEW T, NEW s \in Seq(T), NEW d \in DOMAIN s
  PROVE  Picked(s, DOMAIN s \ {d}) = [k \in 1 .. Len(s) - 1 |-> IF k < d THEN s[k] ELSE s[k + 1]]
<1>1. PICK N \in Nat : N = Len(s)
  OBVIOUS
<1>2. DOMAIN s = 1 .. N /\ d \in 1 .. N
  BY <1>1
<1>3. PICK I \in SUBSET DOMAIN s : I = DOMAIN s \ {d}
  OBVIOUS
<1>4. Cardinality(I) = N - 1 /\ \A k \in 1 .. N - 1 : Order(I)[k] = IF k < d THEN k ELSE k + 1
  BY ZenonT(30), <1>2, <1>3, OrderOthers
<1>5. Picked(s, I) = [k \in 1 .. Cardinality(I) |-> s[Order(I)[k]]]
  BY PickedIs
<1>6. \A k \in 1 .. N - 1 : s[Order(I)[k]] = IF k < d THEN s[k] ELSE s[k + 1]
  BY <1>4
<1> QED
  BY <1>1, <1>3, <1>4, <1>5, <1>6
-----------------------------------------------------------------------------
(***************************************************************************)
(* The tree.  A file is one if its uuids are distinct, the parents are     *)
(* there, and no way up comes back to where it has been: the records have  *)
(* ranks, and a parent's is below its children's.                          *)
(***************************************************************************)
Ranks(R, rank) ==
  /\ rank \in [Uuids -> Nat]
  /\ \A i \in DOMAIN R : R[i].parent # Root => rank[R[i].parent] < rank[R[i].uuid]

Tree(R) ==
  /\ R \in Seq(Records)
  /\ \A i, j \in DOMAIN R : R[i].uuid = R[j].uuid => i = j
  /\ \A i \in DOMAIN R : R[i].parent \in UuidsOf(R) \cup {Root}
  /\ \E rank : Ranks(R, rank)

LEMMA RecordTyped ==
  ASSUME NEW R, Tree(R), NEW i \in DOMAIN R
  PROVE  /\ R[i] \in Records /\ R[i].uuid \in Uuids /\ R[i].parent \in Uuids \cup {Root}
         /\ R[i].isSidechain \in BOOLEAN /\ R[i].uuid # Root /\ R[i].uuid \in UuidsOf(R)
<1>1. R[i] \in Records
  BY DEF Tree
<1> QED
  BY <1>1, UuidAssumption DEF Records, UuidsOf

LEMMA LookupFinds ==
  ASSUME NEW R, Tree(R), NEW i \in DOMAIN R
  PROVE  Lookup(R, R[i].uuid) = i
<1>1. \A j \in DOMAIN R : R[j].uuid = R[i].uuid => j = i
  BY DEF Tree
<1> QED
  BY <1>1 DEF Lookup

LEMMA ParentOfIs ==
  ASSUME NEW R, Tree(R)
  PROVE  /\ ParentOf(R) \in [0 .. Len(R) -> 0 .. Len(R)] /\ ParentOf(R)[0] = 0
         /\ \A i \in 1 .. Len(R) :
              IF R[i].parent = Root THEN ParentOf(R)[i] = 0
              ELSE ParentOf(R)[i] \in 1 .. Len(R) /\ R[ParentOf(R)[i]].uuid = R[i].parent
<1>1. R \in Seq(Records) /\ Len(R) \in Nat /\ DOMAIN R = 1 .. Len(R)
  BY DEF Tree
<1>2. ASSUME NEW i \in 1 .. Len(R), R[i].parent # Root
      PROVE  /\ R[i].parent \in UuidsOf(R) /\ Lookup(R, R[i].parent) \in 1 .. Len(R)
             /\ R[Lookup(R, R[i].parent)].uuid = R[i].parent
  <2>1. R[i].parent \in UuidsOf(R)
    BY <1>1, <1>2 DEF Tree
  <2>2. PICK j \in DOMAIN R : R[j].uuid = R[i].parent
    BY <2>1 DEF UuidsOf
  <2>3. Lookup(R, R[i].parent) = j
    BY <2>2, LookupFinds
  <2> QED
    BY <1>1, <2>1, <2>2, <2>3
<1>3. ASSUME NEW i \in 1 .. Len(R), R[i].parent = Root PROVE R[i].parent \notin UuidsOf(R)
  BY <1>1, <1>3, RecordTyped DEF UuidsOf
<1>4. \A i \in 0 .. Len(R) :
        ParentOf(R)[i] = IF i # 0 /\ R[i].parent \in UuidsOf(R) THEN Lookup(R, R[i].parent) ELSE 0
  BY DEF ParentOf
<1>5. ParentOf(R)[0] = 0
  BY <1>1, <1>4
<1>6. \A i \in 1 .. Len(R) : i \in 0 .. Len(R) /\ i # 0
  BY <1>1
<1>7. \A i \in 1 .. Len(R) :
              IF R[i].parent = Root THEN ParentOf(R)[i] = 0
              ELSE ParentOf(R)[i] \in 1 .. Len(R) /\ R[ParentOf(R)[i]].uuid = R[i].parent
  BY <1>2, <1>3, <1>4, <1>6
<1>8. \A i \in 0 .. Len(R) : ParentOf(R)[i] \in 0 .. Len(R)
  <2> SUFFICES ASSUME NEW i \in 0 .. Len(R) PROVE ParentOf(R)[i] \in 0 .. Len(R)
    OBVIOUS
  <2>1. CASE i = 0
    BY <1>1, <1>5, <2>1
  <2>2. CASE i # 0
    BY <1>1, <1>7, <2>2
  <2> QED
    BY <2>1, <2>2
<1>9. ParentOf(R) = [i \in 0 .. Len(R) |-> ParentOf(R)[i]]
  BY DEF ParentOf
<1> QED
  BY <1>5, <1>7, <1>8, <1>9

\* The ranks of a record and of its parent.
LEMMA ParentRank ==
  ASSUME NEW R, Tree(R), NEW rank, Ranks(R, rank), NEW i \in 1 .. Len(R), ParentOf(R)[i] # 0
  PROVE  /\ ParentOf(R)[i] \in 1 .. Len(R)
         /\ rank[R[ParentOf(R)[i]].uuid] < rank[R[i].uuid]
<1>1. DOMAIN R = 1 .. Len(R)
  BY DEF Tree
<1> QED
  BY <1>1, ParentOfIs DEF Ranks

\* Any records but none have one of highest rank.
LEMMA HighestRank ==
  ASSUME NEW R, Tree(R), NEW rank, Ranks(R, rank), NEW S \in SUBSET DOMAIN R, S # {}
  PROVE  \E i \in S : \A j \in S : rank[R[j].uuid] <= rank[R[i].uuid]
<1>1. DOMAIN R = 1 .. Len(R) /\ Len(R) \in Nat
  BY DEF Tree
<1>2. \A i \in DOMAIN R : rank[R[i].uuid] \in Nat
  BY RecordTyped DEF Ranks
\* Some number bounds the ranks of the first k.
<1> DEFINE G == {k \in Nat : k <= Len(R) => \E b \in Nat : \A i \in 1 .. k : rank[R[i].uuid] <= b}
<1>3. 0 \in G
  <2>1. 0 \in Nat /\ \A i \in 1 .. 0 : rank[R[i].uuid] <= 0
    OBVIOUS
  <2> QED
    BY <2>1
<1>4. \A k \in Nat : k \in G => k + 1 \in G
  <2> SUFFICES ASSUME NEW k \in Nat, k \in G
               PROVE  k + 1 <= Len(R) => \E b \in Nat : \A i \in 1 .. (k + 1) : rank[R[i].uuid] <= b
    <3>1. \A n \in Nat : n + 1 \in Nat
      OBVIOUS
    <3> QED
      BY <3>1
  <2> SUFFICES ASSUME k + 1 <= Len(R)
               PROVE  \E b \in Nat : \A i \in 1 .. (k + 1) : rank[R[i].uuid] <= b
    OBVIOUS
  <2>1. PICK b \in Nat : \A i \in 1 .. k : rank[R[i].uuid] <= b
    <3>1. k <= Len(R)
      BY <1>1
    <3>2. k <= Len(R) => \E b \in Nat : \A i \in 1 .. k : rank[R[i].uuid] <= b
      OBVIOUS
    <3> QED
      BY Zenon, <3>1, <3>2
  <2>2. k + 1 \in DOMAIN R
    BY <1>1
  <2>3. PICK c \in Nat : c = rank[R[k + 1].uuid]
    BY <1>2, <2>2
  <2>4. \A i \in 1 .. (k + 1) : i \in DOMAIN R
    BY <1>1
  <2>5. \A i \in 1 .. (k + 1) : rank[R[i].uuid] <= b + c
    <3> SUFFICES ASSUME NEW i \in 1 .. (k + 1) PROVE rank[R[i].uuid] <= b + c
      OBVIOUS
    <3>1. CASE i = k + 1
      BY <2>3, <3>1
    <3>2. CASE i # k + 1
      <4>1. i \in 1 .. k /\ rank[R[i].uuid] \in Nat
        BY <1>2, <2>4, <3>2
      <4> QED
        BY <2>1, <4>1
    <3> QED
      BY <3>1, <3>2
  <2>6. b + c \in Nat
    OBVIOUS
  <2> QED
    BY <2>5, <2>6
<1>5. Nat \subseteq G
  <2> HIDE DEF G
  <2> QED
    BY <1>3, <1>4, AllNumbers
<1>6. PICK b \in Nat : \A i \in 1 .. Len(R) : rank[R[i].uuid] <= b
  <2>1. Len(R) \in G
    BY <1>1, <1>5
  <2> QED
    BY <1>1, <2>1
<1> DEFINE V == {rank[R[i].uuid] : i \in S}
<1>7. V \in SUBSET Nat /\ V # {} /\ \A v \in V : v <= b
  BY <1>1, <1>2, <1>6
<1>8. PICK v \in V : \A w \in V : w <= v
  <2> HIDE DEF V
  <2> QED
    BY <1>7, GreatestNumber
<1>9. PICK i \in S : v = rank[R[i].uuid]
  BY <1>8
<1> QED
  BY <1>8, <1>9

\* A file that is not empty has a leaf.
LEMMA LeafExists ==
  ASSUME NEW R, Tree(R), R # <<>>
  PROVE  /\ Leaves(R) # {} /\ Leaves(R) \subseteq AllLeaves(R) /\ AllLeaves(R) \subseteq 1 .. Len(R)
         /\ Max(Leaves(R)) \in Leaves(R) /\ \A i \in Leaves(R) : i <= Max(Leaves(R))
<1>1. DOMAIN R = 1 .. Len(R) /\ Len(R) \in Nat /\ Len(R) # 0 /\ R \in Seq(Records)
  BY DEF Tree
<1>2. PICK rank : Ranks(R, rank)
  BY DEF Tree
<1>3. PICK i \in DOMAIN R : \A j \in DOMAIN R : rank[R[j].uuid] <= rank[R[i].uuid]
  <2>1. 1 \in DOMAIN R /\ DOMAIN R \in SUBSET DOMAIN R
    BY <1>1
  <2> QED
    BY <1>2, <2>1, HighestRank
<1>4. R[i].uuid \notin HasChildren(R)
  <2> SUFFICES ASSUME NEW j \in DOMAIN R, R[j].parent = R[i].uuid PROVE FALSE
    BY DEF HasChildren
  <2>1. rank[R[i].uuid] < rank[R[j].uuid]
    BY <1>2, RecordTyped DEF Ranks
  <2>2. rank[R[i].uuid] \in Nat /\ rank[R[j].uuid] \in Nat
    BY <1>2, RecordTyped DEF Ranks
  <2> QED
    BY <1>3, <2>1, <2>2
<1>5. AllLeaves(R) # {} /\ AllLeaves(R) \subseteq 1 .. Len(R)
  BY <1>1, <1>4 DEF AllLeaves
<1>6. Leaves(R) # {} /\ Leaves(R) \subseteq AllLeaves(R)
  BY <1>5 DEF Leaves
<1>7. Leaves(R) \in SUBSET (1 .. Len(R))
  BY <1>5, <1>6
<1> QED
  BY <1>1, <1>5, <1>6, <1>7, MaxOfIndexes

(***************************************************************************)
(* The walk up from the last leaf.                                         *)
(***************************************************************************)
\* The recursion of Ascent has a solution, built up step by step.
LEMMA AscentIs ==
  ASSUME NEW R, Tree(R), R # <<>>
  PROVE  /\ Ascent(R) \in [1 .. Len(R) -> 0 .. Len(R)]
         /\ Ascent(R)[1] = Max(Leaves(R))
         /\ \A n \in 1 .. Len(R) : n > 1 => Ascent(R)[n] = ParentOf(R)[Ascent(R)[n - 1]]
<1> DEFINE N == Len(R)
           Next(f, n) == IF n = 1 THEN Max(Leaves(R)) ELSE ParentOf(R)[f[n - 1]]
           Walk(f, k) == f \in [1 .. k -> 0 .. N] /\ \A n \in 1 .. k : f[n] = Next(f, n)
           G == {k \in Nat : k <= N => \E f : Walk(f, k)}
<1>1. N \in Nat /\ Max(Leaves(R)) \in 0 .. N /\ \A i \in 0 .. N : ParentOf(R)[i] \in 0 .. N
  <2>1. N \in Nat
    BY DEF Tree
  <2>2. Max(Leaves(R)) \in 1 .. N
    BY LeafExists
  <2> QED
    BY <2>1, <2>2, ParentOfIs
<1> HIDE DEF N
<1>2. 0 \in G
  <2>1. Walk([n \in 1 .. 0 |-> 0], 0)
    OBVIOUS
  <2> HIDE DEF Walk
  <2> QED
    BY <2>1
<1>3. \A k \in Nat : k \in G => k + 1 \in G
  <2> SUFFICES ASSUME NEW k \in Nat, k \in G
               PROVE  k + 1 <= N => \E f : Walk(f, k + 1)
    <3>1. \A n \in Nat : n + 1 \in Nat
      OBVIOUS
    <3> HIDE DEF Walk
    <3> QED
      BY <3>1
  <2> SUFFICES ASSUME k + 1 <= N PROVE \E f : Walk(f, k + 1)
    OBVIOUS
  <2>1. PICK f : Walk(f, k)
    <3> HIDE DEF Walk
    <3> QED
      BY <1>1
  <2> DEFINE g == [n \in 1 .. (k + 1) |-> IF n = k + 1 THEN Next(f, n) ELSE f[n]]
  <2>2. \A n \in 1 .. (k + 1) : (n = k + 1 /\ (n = 1 \/ n - 1 \in 1 .. k)) \/ n \in 1 .. k
    OBVIOUS
  <2>3. \A n \in 1 .. k : f[n] \in 0 .. N /\ n \in 1 .. (k + 1) /\ n # k + 1 /\ (n = 1 \/ n - 1 \in 1 .. k)
    BY <2>1
  <2>4. \A n \in 1 .. k : g[n] = f[n]
    BY <2>3
  <2>5. \A n \in 1 .. (k + 1) : n > 1 => g[n - 1] = f[n - 1]
    BY <2>2, <2>3, <2>4
  <2>6. \A n \in 1 .. (k + 1) : Next(g, n) = Next(f, n)
    BY <2>5
  <2>7. Next(f, k + 1) \in 0 .. N
    BY <1>1, <2>2, <2>3
  <2>8. \A n \in 1 .. (k + 1) : g[n] \in 0 .. N /\ g[n] = Next(f, n)
    <3> HIDE DEF Next
    <3> QED
      BY <2>1, <2>2, <2>3, <2>4, <2>7
  <2>9. g \in [1 .. (k + 1) -> 0 .. N]
    <3>1. g = [n \in 1 .. (k + 1) |-> g[n]]
      OBVIOUS
    <3> HIDE DEF g
    <3> QED
      BY <2>8, <3>1
  <2>10. Walk(g, k + 1)
    <3> HIDE DEF g, Next
    <3> QED
      BY <2>6, <2>8, <2>9
  <2> QED
    BY <2>10
<1>4. Nat \subseteq G
  <2> HIDE DEF G
  <2> QED
    BY <1>2, <1>3, AllNumbers
<1>5. PICK f : Walk(f, N)
  <2> HIDE DEF Walk
  <2> QED
    BY <1>1, <1>4
<1>6. f = [n \in 1 .. N |-> IF n = 1 THEN Max(Leaves(R)) ELSE ParentOf(R)[f[n - 1]]]
  BY <1>5
<1>7. Ascent(R) = [n \in 1 .. N |-> IF n = 1 THEN Max(Leaves(R)) ELSE ParentOf(R)[Ascent(R)[n - 1]]]
  <2> DEFINE up == Ascent(R)
  <2>1. up = CHOOSE g : g = [n \in 1 .. N |-> IF n = 1 THEN Max(Leaves(R)) ELSE ParentOf(R)[g[n - 1]]]
    BY DEF Ascent, N
  <2> HIDE DEF up
  <2>2. up = [n \in 1 .. N |-> IF n = 1 THEN Max(Leaves(R)) ELSE ParentOf(R)[up[n - 1]]]
    BY <1>6, <2>1
  <2> QED
    BY <2>2 DEF up
<1> DEFINE up == Ascent(R)
<1> HIDE DEF up
<1>8. \A n \in 1 .. N : up[n] = IF n = 1 THEN Max(Leaves(R)) ELSE ParentOf(R)[up[n - 1]]
  BY <1>7 DEF up
<1>9. 1 \in 1 .. N
  <2>1. N # 0 
    BY DEF N, Tree
  <2> QED
    BY <1>1, <2>1
<1> DEFINE H == {k \in Nat : k <= N => k = 0 \/ up[k] \in 0 .. N}
<1>10. Nat \subseteq H
  <2>1. 0 \in H
    OBVIOUS
  <2>2. ASSUME NEW k \in Nat, k \in H PROVE k + 1 \in H
    <3>1. k + 1 \in Nat
      OBVIOUS
    <3>2. CASE k + 1 <= N
      <4>1. k + 1 \in 1 .. N /\ (k + 1) - 1 = k /\ k <= N
        BY <1>1, <3>2
      <4>2. CASE k = 0
        BY <1>1, <1>8, <4>1, <4>2
      <4>3. CASE k # 0
        <5>1. up[k] \in 0 .. N /\ k + 1 # 1
          BY <2>2, <4>1, <4>3
        <5>2. up[k + 1] = ParentOf(R)[up[k]]
          BY <1>8, <4>1, <5>1
        <5> QED
          BY <1>1, <3>1, <5>1, <5>2
      <4> QED
        BY <4>2, <4>3
    <3> QED
      BY <3>1, <3>2
  <2> HIDE DEF H
  <2> QED
    BY <2>1, <2>2, AllNumbers
<1>11. \A n \in 1 .. N : up[n] \in 0 .. N
  BY <1>1, <1>10
<1>12. up \in [1 .. N -> 0 .. N]
  BY <1>7, <1>11 DEF up
<1>13. \A n \in 1 .. N : n > 1 => up[n] = ParentOf(R)[up[n - 1]]
  BY <1>8
<1> QED
  BY <1>8, <1>9, <1>12, <1>13 DEF up, N

\* The places on the way up.
AscentLen(R) == Cardinality({n \in DOMAIN Ascent(R) : Ascent(R)[n] # 0})

LEMMA AscentEnds ==
  ASSUME NEW R, Tree(R), R # <<>>
  PROVE  /\ AscentLen(R) \in 1 .. Len(R)
         /\ \A n \in 1 .. AscentLen(R) : Ascent(R)[n] \in 1 .. Len(R)
         /\ \A n \in 1 .. AscentLen(R) : n > 1 => Ascent(R)[n] = ParentOf(R)[Ascent(R)[n - 1]]
         /\ ParentOf(R)[Ascent(R)[AscentLen(R)]] = 0
<1> DEFINE N == Len(R)
           up == Ascent(R)
           Z == {n \in 1 .. N : up[n] # 0}
           L == Cardinality(Z)
<1>1. /\ N \in Nat /\ N # 0 /\ up \in [1 .. N -> 0 .. N]
      /\ up[1] \in 1 .. N
      /\ \A n \in 1 .. N : n > 1 => up[n] = ParentOf(R)[up[n - 1]]
  <2>1. N \in Nat /\ N # 0
    BY DEF Tree
  <2>2. Max(Leaves(R)) \in 1 .. N
    BY LeafExists
  <2> QED
    BY <2>1, <2>2, AscentIs
<1>2. ParentOf(R) \in [0 .. N -> 0 .. N] /\ ParentOf(R)[0] = 0
  BY ParentOfIs
<1>3. AscentLen(R) = L
  BY <1>1 DEF AscentLen
<1> HIDE DEF N, up
<1>4. Z = 1 .. L /\ L \in 0 .. N
  <2>1. \A n \in Z : n > 1 => n - 1 \in Z
    <3> SUFFICES ASSUME NEW n \in Z, n > 1 PROVE n - 1 \in Z
      OBVIOUS
    <3>1. n - 1 \in 1 .. N /\ up[n] = ParentOf(R)[up[n - 1]] /\ up[n] # 0
      BY <1>1
    <3> QED
      BY <1>2, <3>1
  <2>2. Z \in SUBSET (1 .. N)
    OBVIOUS
  <2> HIDE DEF Z
  <2> QED
    BY <1>1, <2>1, <2>2, NoGaps
<1>5. 1 \in Z
  BY <1>1
<1>6. L \in 1 .. N
  BY <1>4, <1>5
<1>7. \A n \in 1 .. L : up[n] \in 1 .. N
  <2>1. \A n \in Z : up[n] \in 1 .. N
    BY <1>1
  <2> QED
    BY <1>4, <2>1
<1>8. \A n \in 1 .. L : n > 1 => up[n] = ParentOf(R)[up[n - 1]]
  BY <1>1, <1>6
<1>9. ParentOf(R)[up[L]] = 0
  <2>1. CASE L < N
    <3>1. L + 1 \in 1 .. N /\ L + 1 > 1 /\ (L + 1) - 1 = L /\ L + 1 \notin 1 .. L
      BY <1>1, <1>6, <2>1
    <3>2. L + 1 \notin Z
      BY <1>4, <3>1
    <3> HIDE DEF L
    <3> QED
      BY <1>1, <3>1, <3>2
  \* All places have been visited: there is none left to go to.
  <2>2. CASE L = N
    <3> SUFFICES ASSUME ParentOf(R)[up[N]] # 0 PROVE FALSE
      BY <2>2
    <3>1. PICK rank : Ranks(R, rank)
      BY DEF Tree
    <3> DEFINE f == [n \in 1 .. N |-> rank[R[up[n]].uuid]]
    <3>2. \A i \in 1 .. N : rank[R[i].uuid] \in Nat
      <4>1. DOMAIN R = 1 .. N
        BY DEF Tree, N
      <4> QED
        BY <3>1, <4>1, RecordTyped DEF Ranks
    <3>3. f \in [1 .. N -> Nat]
      BY <1>7, <2>2, <3>2
    <3>4. \A n \in 1 .. N : n > 1 => f[n] < f[n - 1]
      <4> SUFFICES ASSUME NEW n \in 1 .. N, n > 1 PROVE f[n] < f[n - 1]
        OBVIOUS
      <4>1. n - 1 \in 1 .. N /\ up[n - 1] \in 1 .. N /\ up[n] = ParentOf(R)[up[n - 1]] /\ up[n] # 0
        <5>1. n - 1 \in 1 .. N
          BY <1>1
        <5>2. up[n - 1] \in 1 .. N /\ up[n] \in 1 .. N
          BY <1>7, <2>2, <5>1
        <5> QED
          BY <1>1, <5>1, <5>2
      <4>2. rank[R[up[n]].uuid] < rank[R[up[n - 1]].uuid]
        BY <3>1, <4>1, ParentRank DEF N
      <4> QED
        BY <4>1, <4>2
    <3>5. \A i, j \in 1 .. N : i < j => f[j] < f[i]
      <4> HIDE DEF f
      <4> QED
        BY <1>1, <3>3, <3>4, Decreasing
    <3>6. \A i, j \in 1 .. N : up[i] = up[j] => i = j
      <4> SUFFICES ASSUME NEW i \in 1 .. N, NEW j \in 1 .. N, up[i] = up[j], i # j PROVE FALSE
        OBVIOUS
      <4>1. f[i] = f[j] /\ f[i] \in Nat
        BY <3>3
      <4>2. i < j \/ j < i
        OBVIOUS
      <4> HIDE DEF f
      <4>3. f[i] < f[j] \/ f[j] < f[i]
        BY <3>5, <4>2
      <4> QED
        BY <4>1, <4>3
    <3>7. up \in Injection(1 .. N, 1 .. N)
      <4>1. up \in [1 .. N -> 1 .. N]
        BY <1>1, <1>7, <2>2
      <4> QED
        BY <3>6, <4>1 DEF Injection, IsInjective
    <3>8. up \in Surjection(1 .. N, 1 .. N)
      <4>1. IsFiniteSet(1 .. N)
        BY <1>1, FS_Interval
      <4> QED
        BY <3>7, <4>1, FS_Injection
    <3>9. /\ up[N] \in 1 .. N /\ ParentOf(R)[up[N]] \in 1 .. N
          /\ rank[R[ParentOf(R)[up[N]]].uuid] < rank[R[up[N]].uuid]
      <4>1. up[N] \in 1 .. N
        BY <1>1, <1>7, <2>2
      <4> QED
        BY <3>1, <4>1, ParentRank DEF N
    <3>10. PICK m \in 1 .. N : up[m] = ParentOf(R)[up[N]]
      BY <3>8, <3>9 DEF Surjection
    <3>11. f[m] < f[N] /\ f[m] \in Nat /\ f[N] \in Nat
      BY <1>1, <3>3, <3>9, <3>10
    <3>12. m = N \/ m < N
      BY <1>1
    <3> HIDE DEF f
    <3>13. m < N => f[N] < f[m]
      BY <1>1, <3>5
    <3> QED
      BY <3>11, <3>12, <3>13
  <2> HIDE DEF L
  <2> QED
    BY <1>1, <1>6, <2>1, <2>2
<1> QED
  BY <1>3, <1>6, <1>7, <1>8, <1>9 DEF up, N

(***************************************************************************)
(* The conversation.  It is a chain: it begins with a record that has no   *)
(* parent, each message follows its parent, and the last leaf ends it.     *)
(***************************************************************************)
Linked(R, u, p) == \E i \in DOMAIN R : R[i].uuid = u /\ R[i].parent = p

Before(c, i) == IF i = 1 THEN Root ELSE c[i - 1]

Tip(R) == R[Max(Leaves(R))].uuid

IsChain(R, c) ==
  /\ c \in Seq(Uuids)
  /\ \A i \in DOMAIN c : Linked(R, c[i], Before(c, i))
  /\ R = <<>> => c = <<>>
  /\ R # <<>> => c # <<>> /\ c[Len(c)] = Tip(R)

LEMMA BuildChainIs ==
  ASSUME NEW R, Tree(R)
  PROVE  /\ IsChain(R, ReadSessionChain(R))
         /\ BuildChain(R) \in Seq(Records) /\ DOMAIN BuildChain(R) = DOMAIN ReadSessionChain(R)
         /\ Len(BuildChain(R)) = Len(ReadSessionChain(R))
         /\ \A i \in DOMAIN BuildChain(R) : /\ ReadSessionChain(R)[i] = BuildChain(R)[i].uuid
                                           /\ \E j \in DOMAIN R : BuildChain(R)[i] = R[j]
<1> DEFINE up == Ascent(R)
           L == AscentLen(R)
           b == BuildChain(R)
           c == ReadSessionChain(R)
<1>1. b = [i \in 1 .. L |-> R[up[L + 1 - i]]]
  BY DEF BuildChain, AscentLen
<1>2. c = [i \in DOMAIN b |-> b[i].uuid]
  BY DEF ReadSessionChain
<1>3. R \in Seq(Records) /\ Len(R) \in Nat /\ DOMAIN R = 1 .. Len(R)
  BY DEF Tree
<1>4. CASE R = <<>>
  <2>1. Len(R) = 0 /\ 1 .. Len(R) = {}
    BY <1>4
  <2>2. \E g : g = [n \in 1 .. Len(R) |-> IF n = 1 THEN Max(Leaves(R)) ELSE ParentOf(R)[g[n - 1]]]
    <3>1. [n \in 1 .. Len(R) |-> 0] =
            [n \in 1 .. Len(R) |-> IF n = 1 THEN Max(Leaves(R)) ELSE ParentOf(R)[[m \in 1 .. Len(R) |-> 0][n - 1]]]
      BY <2>1
    <3> QED
      BY <3>1
  <2>3. up = CHOOSE g : g = [n \in 1 .. Len(R) |-> IF n = 1 THEN Max(Leaves(R)) ELSE ParentOf(R)[g[n - 1]]]
    BY DEF Ascent
  <2> HIDE DEF up
  <2>4. up = [n \in 1 .. Len(R) |-> IF n = 1 THEN Max(Leaves(R)) ELSE ParentOf(R)[up[n - 1]]]
    BY <2>2, <2>3
  <2>5. DOMAIN up = {}
    BY <2>1, <2>4
  <2>6. L = 0
    <3>1. {n \in DOMAIN up : up[n] # 0} = {}
      BY <2>5
    <3> QED
      BY <3>1, FS_EmptySet DEF AscentLen, up
  <2> HIDE DEF L, b, c
  <2>7. b = <<>> /\ c = <<>>
    <3>1. b = [i \in 1 .. 0 |-> R[up[L + 1 - i]]] /\ 1 .. 0 = {}
      BY <1>1, <2>6
    <3>2. DOMAIN b = {} /\ b = <<>>
      BY <3>1
    <3> QED
      BY <1>2, <3>2
  <2>8. <<>> \in Seq(Records) /\ <<>> \in Seq(Uuids) /\ DOMAIN <<>> = {}
    OBVIOUS
  <2> QED
    BY <1>4, <2>7, <2>8 DEF IsChain, b, c
<1>5. CASE R # <<>>
  <2>1. /\ L \in 1 .. Len(R) /\ L \in Nat
        /\ \A n \in 1 .. L : up[n] \in 1 .. Len(R)
        /\ \A n \in 1 .. L : n > 1 => up[n] = ParentOf(R)[up[n - 1]]
        /\ ParentOf(R)[up[L]] = 0
        /\ up[1] = Max(Leaves(R))
    BY <1>3, <1>5, AscentIs, AscentEnds
  <2> HIDE DEF L, b, c, up
  <2>2. \A i \in 1 .. L : L + 1 - i \in 1 .. L /\ b[i] = R[up[L + 1 - i]]
    BY <1>1, <2>1
  <2>3. \A i \in 1 .. L : b[i] \in Records /\ up[L + 1 - i] \in DOMAIN R
    BY <1>3, <2>1, <2>2, RecordTyped
  <2>4. b \in Seq(Records) /\ Len(b) = L /\ DOMAIN b = 1 .. L
    <3>1. b = [i \in 1 .. L |-> b[i]] /\ DOMAIN b = 1 .. L
      BY <1>1
    <3> QED
      BY <2>1, <2>3, <3>1
  <2>5. \A i \in 1 .. L : c[i] = b[i].uuid /\ c[i] \in Uuids
    BY <1>2, <2>2, <2>3, <2>4, RecordTyped
  <2>6. c \in Seq(Uuids) /\ Len(c) = L /\ DOMAIN c = 1 .. L
    <3>1. c = [i \in 1 .. L |-> c[i]] /\ DOMAIN c = 1 .. L
      BY <1>2, <2>4
    <3> QED
      BY <2>1, <2>5, <3>1
  <2>7. ASSUME NEW i \in 1 .. L PROVE Linked(R, c[i], Before(c, i))
    <3> DEFINE k == up[L + 1 - i]
    <3>1. k \in DOMAIN R /\ R[k].uuid = c[i] /\ k \in 1 .. Len(R)
      BY <1>3, <2>2, <2>3, <2>5
    <3>2. CASE i = 1
      <4>1. L + 1 - i = L
        BY <2>1, <3>2
      <4>2. R[k].parent = Root
        BY <2>1, <3>1, <4>1, ParentOfIs
      <4> QED
        BY <3>1, <3>2, <4>2 DEF Linked, Before
    <3>3. CASE i # 1
      <4>1. i - 1 \in 1 .. L /\ L + 1 - (i - 1) = (L + 1 - i) + 1 /\ L + 1 - (i - 1) \in 1 .. L
            /\ L + 1 - (i - 1) > 1 /\ (L + 1 - (i - 1)) - 1 = L + 1 - i
        BY <2>1, <3>3
      <4>2. up[L + 1 - (i - 1)] = ParentOf(R)[k] /\ up[L + 1 - (i - 1)] \in 1 .. Len(R)
        BY <2>1, <4>1
      <4>3. c[i - 1] = R[ParentOf(R)[k]].uuid
        <5>1. c[i - 1] = b[i - 1].uuid
          BY <2>5, <4>1
        <5>2. b[i - 1] = R[up[L + 1 - (i - 1)]]
          BY <2>2, <4>1
        <5> HIDE DEF k
        <5> QED
          BY <4>2, <5>1, <5>2
      <4>4. R[k].parent = c[i - 1]
        <5>1. ParentOf(R)[k] # 0
          BY <4>2, <1>3
        <5> HIDE DEF k
        <5> QED
          BY <3>1, <4>3, <5>1, ParentOfIs
      <4> QED
        BY <3>1, <3>3, <4>4 DEF Linked, Before
    <3> QED
      BY <3>2, <3>3
  <2>8. c # <<>> /\ c[Len(c)] = Tip(R)
    <3>1. L \in 1 .. L /\ L + 1 - L = 1
      BY <2>1
    <3>2. c[L] = b[L].uuid /\ b[L] = R[up[1]]
      BY <2>2, <2>5, <3>1
    <3>3. c # <<>>
      BY <2>6, <3>1
    <3> QED
      BY <2>1, <2>6, <3>2, <3>3 DEF Tip
  <2>9. IsChain(R, c)
    BY <1>5, <2>6, <2>7, <2>8 DEF IsChain
  <2> QED
    BY <2>2, <2>3, <2>4, <2>5, <2>6, <2>9 DEF b, c
<1> QED
  BY <1>4, <1>5

LEMMA OneLink ==
  ASSUME NEW R, Tree(R), NEW u, NEW p, NEW q, Linked(R, u, p), Linked(R, u, q)
  PROVE  p = q
BY DEF Tree, Linked

LEMMA ChainTyped ==
  ASSUME NEW R, NEW c, IsChain(R, c)
  PROVE  /\ c \in Seq(Uuids) /\ Len(c) \in Nat /\ DOMAIN c = 1 .. Len(c)
         /\ \A i \in 1 .. Len(c) : c[i] \in Uuids /\ c[i] # Root /\ c[i] \in UuidsOf(R)
<1>1. c \in Seq(Uuids)
  BY DEF IsChain
<1>2. Len(c) \in Nat /\ DOMAIN c = 1 .. Len(c) /\ \A i \in 1 .. Len(c) : c[i] \in Uuids
  BY <1>1
<1>3. \A i \in 1 .. Len(c) : c[i] \in UuidsOf(R)
  BY <1>2 DEF IsChain, Linked, UuidsOf
<1> QED
  BY <1>1, <1>2, <1>3, UuidAssumption

\* Two chains of a file are one: going up from the tip there is no choice.
LEMMA OneChain ==
  ASSUME NEW R, Tree(R), NEW c, NEW d, IsChain(R, c), IsChain(R, d)
  PROVE  c = d
<1> DEFINE m == Len(c)
           n == Len(d)
           G == {k \in Nat : k < m /\ k < n => c[m - k] = d[n - k]}
<1>1. /\ c \in Seq(Uuids) /\ m \in Nat /\ DOMAIN c = 1 .. m /\ \A i \in 1 .. m : c[i] # Root
      /\ d \in Seq(Uuids) /\ n \in Nat /\ DOMAIN d = 1 .. n /\ \A i \in 1 .. n : d[i] # Root
  BY ChainTyped
<1>2. CASE R = <<>>
  BY <1>2 DEF IsChain
<1>3. CASE R # <<>>
  <2>1. m # 0 /\ n # 0 /\ c[m] = d[n]
    BY <1>1, <1>3 DEF IsChain
  <2> HIDE DEF m, n
  <2>2. 0 \in G
    BY <1>1, <2>1
  \* Equal messages follow equal ones, or none.
  <2>3. ASSUME NEW i \in 1 .. m, NEW j \in 1 .. n, c[i] = d[j]
        PROVE  /\ i = 1 <=> j = 1
               /\ i # 1 => c[i - 1] = d[j - 1]
    <3>1. Before(c, i) = Before(d, j)
      BY <1>1, <2>3, OneLink DEF IsChain
    <3>2. i # 1 => i - 1 \in 1 .. m
      BY <1>1
    <3>3. j # 1 => j - 1 \in 1 .. n
      BY <1>1
    <3> QED
      BY <1>1, <3>1, <3>2, <3>3 DEF Before
  <2>4. \A k \in Nat : k \in G => k + 1 \in G
    <3> SUFFICES ASSUME NEW k \in Nat, k \in G PROVE k + 1 < m /\ k + 1 < n => c[m - (k + 1)] = d[n - (k + 1)]
      <4>1. \A i \in Nat : i + 1 \in Nat
        OBVIOUS
      <4> QED
        BY <4>1
    <3> SUFFICES ASSUME k + 1 < m, k + 1 < n PROVE c[m - (k + 1)] = d[n - (k + 1)]
      OBVIOUS
    <3>1. /\ m - k \in 1 .. m /\ n - k \in 1 .. n /\ m - k # 1
          /\ (m - k) - 1 = m - (k + 1) /\ (n - k) - 1 = n - (k + 1) /\ k < m /\ k < n
      BY <1>1
    <3>2. c[m - k] = d[n - k]
      BY <3>1
    <3> QED
      BY <2>3, <3>1, <3>2
  <2>5. Nat \subseteq G
    <3> HIDE DEF G
    <3> QED
      BY <2>2, <2>4, AllNumbers
  <2>6. m = n
    <3>1. ~(m < n)
      <4> SUFFICES ASSUME m < n PROVE FALSE
        OBVIOUS
      <4>1. m - 1 \in Nat /\ m - 1 < m /\ m - 1 < n /\ m - (m - 1) = 1 /\ n - (m - 1) \in 1 .. n /\ n - (m - 1) # 1
            /\ 1 \in 1 .. m
        BY <1>1, <2>1
      <4>2. c[1] = d[n - (m - 1)]
        BY <2>5, <4>1
      <4> QED
        BY <2>3, <4>1, <4>2
    <3>2. ~(n < m)
      <4> SUFFICES ASSUME n < m PROVE FALSE
        OBVIOUS
      <4>1. n - 1 \in Nat /\ n - 1 < n /\ n - 1 < m /\ n - (n - 1) = 1 /\ m - (n - 1) \in 1 .. m /\ m - (n - 1) # 1
            /\ 1 \in 1 .. n
        BY <1>1, <2>1
      <4>2. d[1] = c[m - (n - 1)]
        BY <2>5, <4>1
      <4> QED
        BY <2>3, <4>1, <4>2
    <3> QED
      BY <1>1, <3>1, <3>2
  <2>7. \A i \in 1 .. m : c[i] = d[i]
    <3> SUFFICES ASSUME NEW i \in 1 .. m PROVE c[i] = d[i]
      OBVIOUS
    <3>1. m - i \in Nat /\ m - i < m /\ m - (m - i) = i
      BY <1>1
    <3> QED
      BY <2>5, <2>6, <3>1
  <2> QED
    BY <1>1, <2>6, <2>7 DEF m, n
<1> QED
  BY <1>2, <1>3

\* The conversation is the chain of the file.
LEMMA ChainIs ==
  ASSUME NEW R, Tree(R), NEW c, IsChain(R, c)
  PROVE  ReadSessionChain(R) = c
BY BuildChainIs, OneChain

\* Further up ranks are lower: no message stands twice in a conversation, and
\* all but the last have a child.
LEMMA ChainShape ==
  ASSUME NEW R, Tree(R), NEW c, IsChain(R, c)
  PROVE  /\ \A i, j \in 1 .. Len(c) : c[i] = c[j] => i = j
         /\ \A i \in 1 .. Len(c) : i < Len(c) => c[i] \in HasChildren(R)
         /\ c # <<>> => c[Len(c)] \notin HasChildren(R)
<1> DEFINE n == Len(c)
<1>1. c \in Seq(Uuids) /\ n \in Nat /\ DOMAIN c = 1 .. n /\ \A i \in 1 .. n : c[i] \in Uuids /\ c[i] # Root
  BY ChainTyped
<1> HIDE DEF n
<1>2. ASSUME NEW i \in 1 .. n, i > 1
      PROVE  \E k \in DOMAIN R : R[k].uuid = c[i] /\ R[k].parent = c[i - 1] /\ i - 1 \in 1 .. n
  <2>1. i - 1 \in 1 .. n /\ Before(c, i) = c[i - 1]
    BY <1>1, <1>2 DEF Before
  <2> QED
    BY <1>1, <2>1 DEF IsChain, Linked
<1>3. PICK rank : Ranks(R, rank)
  BY DEF Tree
<1>4. ASSUME NEW i \in 1 .. n, i > 1 PROVE rank[c[i - 1]] < rank[c[i]]
  <2>1. PICK k \in DOMAIN R : R[k].uuid = c[i] /\ R[k].parent = c[i - 1] /\ i - 1 \in 1 .. n
    BY <1>2, <1>4
  <2>2. R[k].parent # Root
    BY <1>1, <2>1
  <2> QED
    BY <1>3, <2>1, <2>2 DEF Ranks
<1> DEFINE f == [i \in 1 .. n |-> rank[c[n + 1 - i]]]
<1>5. \A i \in 1 .. n : n + 1 - i \in 1 .. n /\ rank[c[i]] \in Nat
  BY <1>1, <1>3 DEF Ranks
<1>6. f \in [1 .. n -> Nat]
  BY <1>5
<1>7. \A i \in 1 .. n : i > 1 => f[i] < f[i - 1]
  <2> SUFFICES ASSUME NEW i \in 1 .. n, i > 1 PROVE f[i] < f[i - 1]
    OBVIOUS
  <2>1. /\ i - 1 \in 1 .. n /\ n + 1 - (i - 1) \in 1 .. n /\ n + 1 - (i - 1) > 1
        /\ (n + 1 - (i - 1)) - 1 = n + 1 - i
    BY <1>1
  <2>2. rank[c[n + 1 - i]] < rank[c[n + 1 - (i - 1)]]
    BY <1>4, <2>1
  <2> QED
    BY <2>1, <2>2
<1>8. \A i, j \in 1 .. n : i < j => f[j] < f[i]
  <2> HIDE DEF f
  <2> QED
    BY <1>1, <1>6, <1>7, Decreasing
<1>9. ASSUME NEW i \in 1 .. n, NEW j \in 1 .. n, i < j PROVE rank[c[i]] < rank[c[j]]
  <2>1. /\ n + 1 - i \in 1 .. n /\ n + 1 - j \in 1 .. n /\ n + 1 - j < n + 1 - i
        /\ n + 1 - (n + 1 - i) = i /\ n + 1 - (n + 1 - j) = j
    BY <1>1, <1>9
  <2>2. f[n + 1 - i] < f[n + 1 - j]
    <3> HIDE DEF f
    <3> QED
      BY <1>8, <2>1
  <2>3. f[n + 1 - i] = rank[c[i]] /\ f[n + 1 - j] = rank[c[j]]
    BY <2>1
  <2> QED
    BY <2>2, <2>3
<1>10. \A i, j \in 1 .. n : c[i] = c[j] => i = j
  <2> SUFFICES ASSUME NEW i \in 1 .. n, NEW j \in 1 .. n, c[i] = c[j], i # j PROVE FALSE
    OBVIOUS
  <2>1. i < j \/ j < i
    BY <1>1
  <2>2. rank[c[i]] \in Nat /\ rank[c[j]] \in Nat
    BY <1>5
  <2> QED
    BY <1>9, <2>1, <2>2
<1>11. ASSUME NEW i \in 1 .. n, i < n PROVE c[i] \in HasChildren(R)
  <2>1. i + 1 \in 1 .. n /\ i + 1 > 1 /\ (i + 1) - 1 = i
    BY <1>1, <1>11
  <2> QED
    BY <1>2, <2>1 DEF HasChildren
<1>12. ASSUME c # <<>> PROVE c[n] \notin HasChildren(R)
  <2>1. R # <<>> /\ c[n] = Tip(R)
    BY <1>12 DEF IsChain, n
  <2>2. Max(Leaves(R)) \in AllLeaves(R)
    BY <2>1, LeafExists
  <2> QED
    BY <2>1, <2>2 DEF AllLeaves, Tip
<1> QED
  BY <1>10, <1>11, <1>12 DEF n

\* When the records of the file are all in a chain, it is the conversation.
LEMMA OnlyChain ==
  ASSUME NEW R, Tree(R), R # <<>>, NEW c \in Seq(Uuids),
         \A i \in DOMAIN c : Linked(R, c[i], Before(c, i)),
         \A k \in DOMAIN R : \E i \in DOMAIN c : R[k].uuid = c[i]
  PROVE  IsChain(R, c)
<1>1. Len(c) \in Nat /\ DOMAIN c = 1 .. Len(c)
  OBVIOUS
<1>2. Max(Leaves(R)) \in AllLeaves(R) /\ Max(Leaves(R)) \in DOMAIN R
  <2>1. DOMAIN R = 1 .. Len(R)
    BY DEF Tree
  <2> QED
    BY <2>1, LeafExists
<1>3. PICK i \in DOMAIN c : Tip(R) = c[i]
  BY <1>2 DEF Tip
<1>4. i = Len(c)
  <2> SUFFICES ASSUME i < Len(c) PROVE FALSE
    BY <1>1
  <2>1. i + 1 \in DOMAIN c /\ i + 1 # 1 /\ (i + 1) - 1 = i
    BY <1>1
  <2>2. Linked(R, c[i + 1], c[i])
    BY <2>1 DEF Before
  <2>3. c[i] \in HasChildren(R)
    BY <2>2 DEF Linked, HasChildren
  <2> QED
    BY <1>2, <1>3, <2>3 DEF AllLeaves, Tip
<1>5. c # <<>>
  BY <1>1
<1> QED
  BY <1>3, <1>4, <1>5 DEF IsChain

\* With only one leaf the conversation is the whole file: every record but the
\* leaf has children, and the highest of those off the chain would have none.
LEMMA OneLeaf ==
  ASSUME NEW R, Tree(R), NEW c, IsChain(R, c), Cardinality(AllLeaves(R)) = 1
  PROVE  \A k \in DOMAIN R : \E i \in DOMAIN c : R[k].uuid = c[i]
<1> DEFINE S == {k \in DOMAIN R : \A i \in DOMAIN c : R[k].uuid # c[i]}
<1> SUFFICES ASSUME S # {} PROVE FALSE
  OBVIOUS
<1>1. R # <<>> /\ DOMAIN R = 1 .. Len(R) /\ Len(R) \in Nat /\ S \in SUBSET DOMAIN R
  BY DEF Tree
<1>2. PICK rank : Ranks(R, rank)
  BY DEF Tree
<1>3. PICK k \in S : \A j \in S : rank[R[j].uuid] <= rank[R[k].uuid]
  <2> HIDE DEF S
  <2> QED
    BY <1>1, <1>2, HighestRank
<1>4. /\ c # <<>> /\ c[Len(c)] = Tip(R) /\ Len(c) \in DOMAIN c
      /\ DOMAIN c = 1 .. Len(c) /\ Len(c) \in Nat /\ \A i \in 1 .. Len(c) : c[i] # Root
  <2>1. c # <<>> /\ c[Len(c)] = Tip(R) /\ c \in Seq(Uuids)
    BY <1>1 DEF IsChain
  <2> QED
    BY <2>1, ChainTyped
<1>5. k \notin AllLeaves(R)
  <2>1. IsFiniteSet(AllLeaves(R)) /\ Max(Leaves(R)) \in AllLeaves(R)
    <3>1. IsFiniteSet(1 .. Len(R))
      BY <1>1, FS_Interval
    <3> QED
      BY <1>1, <3>1, LeafExists, FS_Subset
  <2>2. \A l \in AllLeaves(R) : l = Max(Leaves(R))
    BY <2>1, FS_Singleton
  <2>3. k # Max(Leaves(R))
    BY <1>3, <1>4 DEF Tip
  <2> QED
    BY <2>2, <2>3
<1>6. PICK j \in DOMAIN R : R[j].parent = R[k].uuid
  BY <1>3, <1>5 DEF AllLeaves, HasChildren
<1>7. j \notin S
  <2>1. rank[R[k].uuid] < rank[R[j].uuid]
    BY <1>2, <1>3, <1>6, RecordTyped DEF Ranks
  <2>2. rank[R[k].uuid] \in Nat /\ rank[R[j].uuid] \in Nat
    BY <1>2, <1>3, RecordTyped DEF Ranks
  <2> HIDE DEF S
  <2> QED
    BY <1>3, <2>1, <2>2
<1>8. PICK i \in DOMAIN c : R[j].uuid = c[i]
  BY <1>7
<1>9. R[j].parent = Before(c, i)
  <2>1. Linked(R, c[i], Before(c, i)) /\ Linked(R, c[i], R[j].parent)
    BY <1>8 DEF IsChain, Linked
  <2> QED
    BY <2>1, OneLink
<1>10. R[k].uuid # Root
  BY <1>3, RecordTyped
<1>11. i # 1 /\ i - 1 \in DOMAIN c /\ R[k].uuid = c[i - 1]
  BY <1>4, <1>6, <1>9, <1>10 DEF Before
<1> QED
  BY <1>3, <1>11
-----------------------------------------------------------------------------
(***************************************************************************)
(* A record is added at the end.                                           *)
(***************************************************************************)
LEMMA AppendIs ==
  ASSUME NEW T, NEW s \in Seq(T), NEW e \in T
  PROVE  /\ Append(s, e) \in Seq(T) /\ Len(Append(s, e)) = Len(s) + 1 /\ Len(s) \in Nat
         /\ DOMAIN Append(s, e) = 1 .. (Len(s) + 1) /\ DOMAIN s = 1 .. Len(s)
         /\ \A i \in 1 .. Len(s) : Append(s, e)[i] = s[i]
         /\ Append(s, e)[Len(s) + 1] = e
         /\ \A i \in 1 .. (Len(s) + 1) : i \in 1 .. Len(s) \/ i = Len(s) + 1
BY AppendProperties

\* A leaf of the main conversation at the end of the file is the tip.
LEMMA TipAtEnd ==
  ASSUME NEW R, Tree(R), R # <<>>, ~R[Len(R)].isSidechain, R[Len(R)].uuid \notin HasChildren(R)
  PROVE  Tip(R) = R[Len(R)].uuid
<1> DEFINE n == Len(R)
<1>1. n \in Nat /\ n # 0 /\ DOMAIN R = 1 .. n
  BY DEF Tree
<1> HIDE DEF n
<1>2. n \in AllLeaves(R) /\ ~R[n].isSidechain /\ AllLeaves(R) \subseteq 1 .. n
  BY <1>1 DEF AllLeaves, n
<1>3. n \in Leaves(R) /\ Leaves(R) \in SUBSET (1 .. n)
  <2>1. n \in {i \in AllLeaves(R) : ~R[i].isSidechain}
    BY <1>2
  <2> QED
    BY <1>2, <2>1 DEF Leaves
<1>4. \A i \in Leaves(R) : i <= n
  BY <1>1, <1>3
<1>5. Max(Leaves(R)) = n
  BY <1>1, <1>3, <1>4, MaxOfIndexes
<1> QED
  BY <1>5 DEF Tip, n

LEMMA Appended ==
  ASSUME NEW R, Tree(R), NEW r \in Records, r.uuid \notin UuidsOf(R),
         r.parent \in UuidsOf(R) \cup {Root}
  PROVE  /\ Tree(Append(R, r)) /\ UuidsOf(Append(R, r)) = UuidsOf(R) \cup {r.uuid}
         /\ ~r.isSidechain => Tip(Append(R, r)) = r.uuid
<1> DEFINE Q == Append(R, r)
           n == Len(R)
<1>1. /\ Q \in Seq(Records) /\ Len(Q) = n + 1 /\ n \in Nat
      /\ DOMAIN Q = 1 .. (n + 1) /\ DOMAIN R = 1 .. n
      /\ \A i \in 1 .. n : Q[i] = R[i]
      /\ Q[n + 1] = r
      /\ \A i \in 1 .. (n + 1) : i \in 1 .. n \/ i = n + 1
  <2>1. R \in Seq(Records)
    BY DEF Tree
  <2> QED
    BY <2>1, AppendIs
<1> HIDE DEF Q, n
<1>2. r.uuid \in Uuids /\ r.parent \in Uuids \cup {Root} /\ r.uuid # Root /\ Root \notin Uuids
  BY UuidAssumption DEF Records
<1>3. \A i \in 1 .. n : /\ R[i].uuid \in Uuids /\ R[i].uuid \in UuidsOf(R) /\ R[i].uuid # r.uuid
                        /\ R[i].parent \in UuidsOf(R) \cup {Root} /\ R[i].parent # r.uuid
  <2>1. \A i \in 1 .. n : R[i].parent \in UuidsOf(R) \cup {Root}
    BY <1>1 DEF Tree
  <2> QED
    BY <1>1, <1>2, <2>1, RecordTyped
<1>4. UuidsOf(Q) = UuidsOf(R) \cup {r.uuid}
  <2>1. \A i \in 1 .. n : i \in 1 .. (n + 1)
    BY <1>1
  <2>2. n + 1 \in 1 .. (n + 1)
    BY <1>1
  <2> QED
    BY <1>1, <2>1, <2>2 DEF UuidsOf
<1>5. \A i, j \in DOMAIN Q : Q[i].uuid = Q[j].uuid => i = j
  <2> SUFFICES ASSUME NEW i \in 1 .. (n + 1), NEW j \in 1 .. (n + 1), Q[i].uuid = Q[j].uuid PROVE i = j
    BY <1>1
  <2>1. CASE i \in 1 .. n /\ j \in 1 .. n
    BY <1>1, <2>1 DEF Tree
  <2>2. CASE ~(i \in 1 .. n /\ j \in 1 .. n)
    BY <1>1, <1>3, <2>2
  <2> QED
    BY <2>1, <2>2
<1>6. \A i \in DOMAIN Q : Q[i].parent \in UuidsOf(Q) \cup {Root}
  BY <1>1, <1>3, <1>4
<1>7. \E rank : Ranks(Q, rank)
  <2>1. PICK rank : Ranks(R, rank)
    BY DEF Tree
  <2> DEFINE new == [v \in Uuids |-> IF v # r.uuid THEN rank[v] ELSE IF r.parent = Root THEN 0 ELSE rank[r.parent] + 1]
  <2>2. \A v \in Uuids : rank[v] \in Nat
    BY <2>1 DEF Ranks
  <2>3. new \in [Uuids -> Nat]
    BY <1>2, <2>2
  <2>4. ASSUME NEW i \in DOMAIN Q, Q[i].parent # Root PROVE new[Q[i].parent] < new[Q[i].uuid]
    <3>1. CASE i \in 1 .. n
      <4>1. rank[R[i].parent] < rank[R[i].uuid] /\ R[i].parent \in Uuids
        <5>1. R[i].parent # Root
          BY <1>1, <2>4, <3>1
        <5> QED
          BY <1>1, <2>1, <3>1, <5>1, RecordTyped DEF Ranks
      <4> QED
        BY <1>1, <1>3, <3>1, <4>1
    <3>2. CASE i = n + 1
      <4>1. Q[i] = r /\ r.parent \in Uuids /\ r.parent # r.uuid
        BY <1>1, <1>2, <2>4, <3>2
      <4>2. new[r.parent] = rank[r.parent] /\ new[r.uuid] = rank[r.parent] + 1 /\ rank[r.parent] \in Nat
        BY <1>2, <2>2, <2>4, <4>1
      <4> QED
        BY <4>1, <4>2
    <3> QED
      BY <1>1, <3>1, <3>2
  <2>5. Ranks(Q, new)
    <3> HIDE DEF new
    <3> QED
      BY <2>3, <2>4 DEF Ranks
  <2> QED
    BY <2>5
<1>8. Tree(Q)
  BY <1>1, <1>5, <1>6, <1>7 DEF Tree
<1>9. ASSUME ~r.isSidechain PROVE Tip(Q) = r.uuid
  <2>1. r.uuid \notin HasChildren(Q)
    BY <1>1, <1>2, <1>3 DEF HasChildren
  <2>2. Q # <<>> /\ Q[Len(Q)] = r
    BY <1>1
  <2> QED
    BY <1>8, <1>9, <2>1, <2>2, TipAtEnd
<1> QED
  BY <1>4, <1>8, <1>9 DEF Q

\* The end of a conversation that may be empty.
EndOf(c) == IF c = <<>> THEN Root ELSE c[Len(c)]

LEMMA AppendedToChain ==
  ASSUME NEW R, Tree(R), NEW c, IsChain(R, c), NEW r \in Records, r.uuid \notin UuidsOf(R),
         r.parent = EndOf(c), ~r.isSidechain
  PROVE  /\ Tree(Append(R, r)) /\ UuidsOf(Append(R, r)) = UuidsOf(R) \cup {r.uuid}
         /\ IsChain(Append(R, r), Append(c, r.uuid))
<1> DEFINE Q == Append(R, r)
           d == Append(c, r.uuid)
           n == Len(c)
<1>1. /\ c \in Seq(Uuids) /\ n \in Nat /\ DOMAIN c = 1 .. n
      /\ \A i \in 1 .. n : c[i] \in UuidsOf(R)
  BY ChainTyped
<1>2. r.parent \in UuidsOf(R) \cup {Root}
  <2>1. c # <<>> => n \in 1 .. n
    BY <1>1
  <2> QED
    BY <1>1, <2>1 DEF EndOf
<1>3. Tree(Q) /\ UuidsOf(Q) = UuidsOf(R) \cup {r.uuid} /\ Tip(Q) = r.uuid
  BY <1>2, Appended
<1>4. r.uuid \in Uuids
  BY DEF Records
<1>5. /\ d \in Seq(Uuids) /\ Len(d) = n + 1 /\ DOMAIN d = 1 .. (n + 1)
      /\ (\A i \in 1 .. n : d[i] = c[i]) /\ d[n + 1] = r.uuid
      /\ \A i \in 1 .. (n + 1) : i \in 1 .. n \/ i = n + 1
  BY <1>1, <1>4, AppendIs
<1>6. \A i \in DOMAIN R : i \in DOMAIN Q /\ Q[i] = R[i]
  BY AppendIs DEF Tree
<1>7. Len(R) + 1 \in DOMAIN Q /\ Q[Len(R) + 1] = r
  <2>1. Len(R) \in Nat /\ DOMAIN Q = 1 .. (Len(R) + 1) /\ Q[Len(R) + 1] = r
    BY AppendIs DEF Tree
  <2> HIDE DEF Q
  <2> QED
    BY <2>1
<1> HIDE DEF Q, d, n
<1>8. \A i \in 1 .. n : Linked(Q, d[i], Before(d, i))
  <2> SUFFICES ASSUME NEW i \in 1 .. n PROVE Linked(Q, d[i], Before(d, i))
    OBVIOUS
  <2>1. Linked(Q, c[i], Before(c, i))
    BY <1>1, <1>6 DEF IsChain, Linked
  <2>2. i # 1 => i - 1 \in 1 .. n
    BY <1>1
  <2> QED
    BY <1>5, <2>1, <2>2 DEF Before
<1>9. Linked(Q, d[n + 1], Before(d, n + 1))
  <2>1. Before(d, n + 1) = EndOf(c)
    <3>1. CASE c = <<>>
      <4>1. n + 1 = 1
        BY <1>1, <3>1 DEF n
      <4> QED
        BY <3>1, <4>1 DEF Before, EndOf
    <3>2. CASE c # <<>>
      <4>1. n + 1 # 1 /\ (n + 1) - 1 = n /\ n \in 1 .. n
        BY <1>1, <3>2 DEF n
      <4>2. d[n] = c[n] /\ Before(d, n + 1) = d[n]
        BY <1>5, <4>1 DEF Before
      <4> QED
        BY <3>2, <4>2 DEF EndOf, n
    <3> QED
      BY <3>1, <3>2
  <2> QED
    BY <1>5, <1>7, <2>1 DEF Linked
<1>10. Q # <<>> /\ d # <<>> /\ d[Len(d)] = Tip(Q)
  <2>1. Q # <<>>
    BY <1>7
  <2>2. d # <<>>
    BY <1>1, <1>5
  <2> QED
    BY <1>3, <1>5, <2>1, <2>2
<1> QED
  BY <1>3, <1>5, <1>8, <1>9, <1>10 DEF IsChain, Q, d
-----------------------------------------------------------------------------
(***************************************************************************)
(* A record is put between another, or none, and some of its children.     *)
(***************************************************************************)
UserRecord(u, p) == [uuid |-> u, parent |-> p, type |-> "user", isSidechain |-> FALSE]

Moved(R, u, J) == [i \in DOMAIN R |-> IF i \in J THEN [R[i] EXCEPT !.parent = u] ELSE R[i]]

LEMMA MovedIs ==
  ASSUME NEW R, Tree(R), NEW u \in Uuids, NEW p \in Uuids \cup {Root}, NEW J \in SUBSET DOMAIN R
  PROVE  LET Q == Append(Moved(R, u, J), UserRecord(u, p))
             n == Len(R)
         IN  /\ Q \in Seq(Records) /\ n \in Nat
             /\ DOMAIN Q = 1 .. (n + 1) /\ DOMAIN R = 1 .. n
             /\ \A i \in 1 .. n : /\ Q[i].uuid = R[i].uuid /\ Q[i].isSidechain = R[i].isSidechain
                                  /\ Q[i].parent = IF i \in J THEN u ELSE R[i].parent
             /\ Q[n + 1] = UserRecord(u, p)
             /\ \A i \in 1 .. (n + 1) : i \in 1 .. n \/ i = n + 1
<1> DEFINE n == Len(R)
           M == Moved(R, u, J)
<1>1. R \in Seq(Records) /\ n \in Nat /\ DOMAIN R = 1 .. n
  BY DEF Tree
<1>2. \A i \in 1 .. n : R[i] \in Records
  BY <1>1
<1>3. \A i \in 1 .. n : M[i] = IF i \in J THEN [R[i] EXCEPT !.parent = u] ELSE R[i]
  BY <1>1 DEF Moved
<1>4. \A i \in 1 .. n : /\ M[i] \in Records /\ M[i].uuid = R[i].uuid /\ M[i].isSidechain = R[i].isSidechain
                        /\ M[i].parent = IF i \in J THEN u ELSE R[i].parent
  BY <1>2, <1>3 DEF Records
<1>5. M \in Seq(Records) /\ Len(M) = n
  <2>1. M = [i \in 1 .. n |-> M[i]]
    BY <1>1 DEF Moved
  <2> QED
    BY <1>1, <1>4, <2>1
<1>6. UserRecord(u, p) \in Records
  BY DEF UserRecord, Records, Kinds
<1> HIDE DEF n, M
<1>7. /\ Append(M, UserRecord(u, p)) \in Seq(Records)
      /\ DOMAIN Append(M, UserRecord(u, p)) = 1 .. (n + 1)
      /\ \A i \in 1 .. n : Append(M, UserRecord(u, p))[i] = M[i]
      /\ Append(M, UserRecord(u, p))[n + 1] = UserRecord(u, p)
      /\ \A i \in 1 .. (n + 1) : i \in 1 .. n \/ i = n + 1
  BY <1>5, <1>6, AppendIs
<1> QED
  BY <1>1, <1>4, <1>7 DEF n, M

LEMMA Inserted ==
  ASSUME NEW R, Tree(R), NEW u \in Uuids, u \notin UuidsOf(R), NEW p \in UuidsOf(R) \cup {Root},
         NEW J \in SUBSET DOMAIN R, \A j \in J : R[j].parent = p
  PROVE  LET Q == Append(Moved(R, u, J), UserRecord(u, p))
         IN  /\ Tree(Q) /\ UuidsOf(Q) = UuidsOf(R) \cup {u}
             /\ J # {} => Tip(Q) = Tip(R)
<1> DEFINE Q == Append(Moved(R, u, J), UserRecord(u, p))
           n == Len(R)
<1>1. p \in Uuids \cup {Root}
  BY RecordTyped DEF UuidsOf
<1>2. /\ Q \in Seq(Records) /\ n \in Nat
      /\ DOMAIN Q = 1 .. (n + 1) /\ DOMAIN R = 1 .. n
      /\ \A i \in 1 .. n : /\ Q[i].uuid = R[i].uuid /\ Q[i].isSidechain = R[i].isSidechain
                           /\ Q[i].parent = IF i \in J THEN u ELSE R[i].parent
      /\ Q[n + 1].uuid = u /\ Q[n + 1].parent = p
      /\ \A i \in 1 .. (n + 1) : i \in 1 .. n \/ i = n + 1
      /\ n + 1 \in 1 .. (n + 1) /\ \A i \in 1 .. n : i \in 1 .. (n + 1) /\ i # n + 1
  <2>1. n \in Nat
    BY DEF Tree
  <2>2. n + 1 \in 1 .. (n + 1) /\ \A i \in 1 .. n : i \in 1 .. (n + 1) /\ i # n + 1
    BY <2>1
  <2>3. UserRecord(u, p).uuid = u /\ UserRecord(u, p).parent = p
    BY DEF UserRecord
  <2>4. /\ Q \in Seq(Records)
        /\ DOMAIN Q = 1 .. (n + 1) /\ DOMAIN R = 1 .. n
        /\ \A i \in 1 .. n : /\ Q[i].uuid = R[i].uuid /\ Q[i].isSidechain = R[i].isSidechain
                             /\ Q[i].parent = IF i \in J THEN u ELSE R[i].parent
        /\ Q[n + 1] = UserRecord(u, p)
        /\ \A i \in 1 .. (n + 1) : i \in 1 .. n \/ i = n + 1
    BY <1>1, MovedIs
  <2> HIDE DEF Q, n
  <2> QED
    BY <2>1, <2>2, <2>3, <2>4
<1> HIDE DEF Q, n
<1>3. \A i \in 1 .. n : /\ R[i].uuid \in Uuids /\ R[i].uuid \in UuidsOf(R) /\ R[i].uuid # u /\ R[i].uuid # Root
                        /\ R[i].parent \in UuidsOf(R) \cup {Root} /\ R[i].parent \in Uuids \cup {Root}
  <2>1. \A i \in 1 .. n : R[i].parent \in UuidsOf(R) \cup {Root}
    BY <1>2 DEF Tree
  <2> QED
    BY <1>2, <2>1, RecordTyped
<1>4. UuidsOf(Q) = UuidsOf(R) \cup {u}
  BY <1>2 DEF UuidsOf
<1>5. u # Root /\ p # u /\ Root \notin UuidsOf(R)
  BY <1>2, <1>3, UuidAssumption DEF UuidsOf
<1>6. \A i, j \in DOMAIN Q : Q[i].uuid = Q[j].uuid => i = j
  <2> SUFFICES ASSUME NEW i \in 1 .. (n + 1), NEW j \in 1 .. (n + 1), Q[i].uuid = Q[j].uuid PROVE i = j
    BY <1>2
  <2>1. CASE i \in 1 .. n /\ j \in 1 .. n
    BY <1>2, <2>1 DEF Tree
  <2>2. CASE ~(i \in 1 .. n /\ j \in 1 .. n)
    BY <1>2, <1>3, <2>2
  <2> QED
    BY <2>1, <2>2
<1>7. \A i \in DOMAIN Q : Q[i].parent \in UuidsOf(Q) \cup {Root}
  BY <1>2, <1>3, <1>4
<1>8. \E rank : Ranks(Q, rank)
  <2>1. PICK rank : Ranks(R, rank)
    BY DEF Tree
  <2> DEFINE own == IF p = Root THEN 0 ELSE 2 * rank[p] + 3
             new == [v \in Uuids |-> IF v = u THEN own ELSE 2 * rank[v] + 2]
  <2>2. \A v \in Uuids : rank[v] \in Nat
    BY <2>1 DEF Ranks
  <2>3. own \in Nat
    BY <1>1, <2>2
  <2>4. new \in [Uuids -> Nat]
    <3>1. \A v \in Uuids : 2 * rank[v] + 2 \in Nat
      BY <2>2
    <3> HIDE DEF own
    <3> QED
      BY <2>3, <3>1
  <2>5. \A v \in Uuids : new[v] = IF v = u THEN own ELSE 2 * rank[v] + 2
    OBVIOUS
  <2> HIDE DEF new
  <2>6. ASSUME NEW i \in DOMAIN Q, Q[i].parent # Root PROVE new[Q[i].parent] < new[Q[i].uuid]
    \* One of the children: the new record is between its parent's rank and its.
    <3>1. CASE i \in 1 .. n /\ i \in J
      <4>1. /\ Q[i].parent = u /\ Q[i].uuid = R[i].uuid /\ R[i].uuid # u /\ R[i].uuid \in Uuids
            /\ R[i].parent = p
        BY <1>2, <1>3, <3>1
      <4>2. new[u] = own /\ new[R[i].uuid] = 2 * rank[R[i].uuid] + 2 /\ rank[R[i].uuid] \in Nat
        BY <2>2, <2>5, <4>1
      <4>3. CASE p = Root
        BY <4>1, <4>2, <4>3
      <4>4. CASE p # Root
        <5>1. p \in Uuids /\ rank[p] \in Nat /\ rank[p] < rank[R[i].uuid]
          BY <1>1, <1>2, <2>1, <2>2, <3>1, <4>1, <4>4 DEF Ranks
        <5> QED
          BY <4>1, <4>2, <4>4, <5>1
      <4> QED
        BY <4>3, <4>4
    <3>2. CASE i \in 1 .. n /\ i \notin J
      <4>1. /\ Q[i].parent = R[i].parent /\ Q[i].uuid = R[i].uuid /\ R[i].uuid # u /\ R[i].uuid \in Uuids
            /\ R[i].parent \in Uuids /\ R[i].parent \in UuidsOf(R) /\ R[i].parent # Root
        BY <1>2, <1>3, <2>6, <3>2
      <4>2. rank[R[i].parent] < rank[R[i].uuid] /\ rank[R[i].parent] \in Nat /\ rank[R[i].uuid] \in Nat
        BY <1>2, <2>1, <2>2, <3>2, <4>1 DEF Ranks
      <4>3. new[R[i].parent] = 2 * rank[R[i].parent] + 2 /\ new[R[i].uuid] = 2 * rank[R[i].uuid] + 2
        BY <2>5, <4>1
      <4> QED
        BY <4>1, <4>2, <4>3
    <3>3. CASE i = n + 1
      <4>1. Q[i].parent = p /\ Q[i].uuid = u /\ p \in Uuids /\ p # u /\ p # Root
        BY <1>1, <1>2, <1>5, <2>6, <3>3
      <4>2. new[p] = 2 * rank[p] + 2 /\ new[u] = 2 * rank[p] + 3 /\ rank[p] \in Nat
        BY <2>2, <2>5, <4>1
      <4> QED
        BY <4>1, <4>2
    <3> QED
      BY <1>2, <3>1, <3>2, <3>3
  <2>7. Ranks(Q, new)
    BY <2>4, <2>6 DEF Ranks
  <2> QED
    BY <2>7
<1>9. Tree(Q)
  BY <1>2, <1>6, <1>7, <1>8 DEF Tree
\* The new record has children, and its parent has one as before.
<1>10. ASSUME J # {} PROVE Tip(Q) = Tip(R)
  <2>1. PICK k \in J : k \in 1 .. n /\ R[k].parent = p /\ Q[k].parent = u
    BY <1>2, <1>10
  <2>2. \A i \in 1 .. n : R[i].uuid \in HasChildren(Q) <=> R[i].uuid \in HasChildren(R)
    <3> SUFFICES ASSUME NEW i \in 1 .. n
                 PROVE  R[i].uuid \in HasChildren(Q) <=> R[i].uuid \in HasChildren(R)
      OBVIOUS
    <3>1. ASSUME NEW j \in 1 .. n, R[j].parent = R[i].uuid PROVE R[i].uuid \in HasChildren(Q)
      <4>1. CASE j \in J
        BY <1>2, <3>1, <4>1 DEF HasChildren
      <4>2. CASE j \notin J
        BY <1>2, <3>1, <4>2 DEF HasChildren
      <4> QED
        BY <4>1, <4>2
    <3>2. ASSUME NEW j \in 1 .. (n + 1), Q[j].parent = R[i].uuid PROVE R[i].uuid \in HasChildren(R)
      <4>1. CASE j \in 1 .. n
        <5>1. R[j].parent = R[i].uuid
          BY <1>2, <1>3, <3>2, <4>1
        <5> QED
          BY <1>2, <4>1, <5>1 DEF HasChildren
      <4>2. CASE j = n + 1
        BY <1>2, <2>1, <3>2, <4>2 DEF HasChildren
      <4> QED
        BY <1>2, <4>1, <4>2
    <3> QED
      BY <1>2, <3>1, <3>2 DEF HasChildren
  <2>3. u \in HasChildren(Q)
    BY <1>2, <2>1 DEF HasChildren
  <2>4. AllLeaves(Q) = AllLeaves(R)
    BY <1>2, <2>2, <2>3 DEF AllLeaves
  <2>5. AllLeaves(R) \subseteq 1 .. n
    BY <1>2 DEF AllLeaves
  <2>6. {i \in AllLeaves(Q) : ~Q[i].isSidechain} = {i \in AllLeaves(R) : ~R[i].isSidechain}
    BY <1>2, <2>4, <2>5
  <2>7. Leaves(Q) = Leaves(R)
    BY <2>4, <2>6 DEF Leaves
  <2>8. Max(Leaves(R)) \in 1 .. n
    <3>1. R # <<>>
      BY <1>2, <2>1
    <3> QED
      BY <3>1, LeafExists DEF n
  <2> QED
    BY <1>2, <2>7, <2>8 DEF Tip
<1> QED
  BY <1>4, <1>9, <1>10 DEF Q

Widened(c, k, u) ==
  [i \in 1 .. Len(c) + 1 |-> IF i <= k THEN c[i] ELSE IF i = k + 1 THEN u ELSE c[i - 1]]

LEMMA InsertedInChain ==
  ASSUME NEW R, Tree(R), NEW c, IsChain(R, c), NEW u \in Uuids, u \notin UuidsOf(R),
         NEW k \in 0 .. Len(c), k < Len(c), NEW p, p = IF k = 0 THEN Root ELSE c[k],
         NEW J \in SUBSET DOMAIN R, \A j \in J : R[j].parent = p,
         \A j \in DOMAIN R : R[j].uuid = c[k + 1] => j \in J
  PROVE  IsChain(Append(Moved(R, u, J), UserRecord(u, p)), Widened(c, k, u))
<1> DEFINE Q == Append(Moved(R, u, J), UserRecord(u, p))
           d == Widened(c, k, u)
           n == Len(c)
<1>1. /\ c \in Seq(Uuids) /\ n \in Nat /\ DOMAIN c = 1 .. n
      /\ \A i \in 1 .. n : c[i] \in Uuids /\ c[i] # Root /\ c[i] \in UuidsOf(R)
  BY ChainTyped
<1>2. \A i, j \in 1 .. n : c[i] = c[j] => i = j
  BY ChainShape
<1>3. p \in UuidsOf(R) \cup {Root} /\ p \in Uuids \cup {Root} /\ p # u
  <2>1. k # 0 => k \in 1 .. n
    BY <1>1
  <2> QED
    BY <1>1, <2>1, UuidAssumption
<1>4. /\ DOMAIN Q = 1 .. (Len(R) + 1) /\ DOMAIN R = 1 .. Len(R) /\ Len(R) \in Nat
      /\ \A i \in 1 .. Len(R) : /\ Q[i].uuid = R[i].uuid
                                /\ Q[i].parent = IF i \in J THEN u ELSE R[i].parent
      /\ Q[Len(R) + 1] = UserRecord(u, p)
  BY <1>3, MovedIs
<1>5. UserRecord(u, p).uuid = u /\ UserRecord(u, p).parent = p
  BY DEF UserRecord
<1>6. \A i \in DOMAIN R : i \in DOMAIN Q
  BY <1>4
<1> HIDE DEF Q
<1>7. Linked(Q, u, p)
  <2>1. Len(R) + 1 \in DOMAIN Q
    BY <1>4
  <2> QED
    BY <1>4, <1>5, <2>1 DEF Linked
<1>8. ASSUME NEW i \in 1 .. n
      PROVE  Linked(Q, c[i], IF i = k + 1 THEN u ELSE Before(c, i))
  <2>1. PICK x \in DOMAIN R : R[x].uuid = c[i] /\ R[x].parent = Before(c, i)
    BY <1>1 DEF IsChain, Linked
  <2>2. CASE i = k + 1
    <3>1. x \in J
      BY <2>1, <2>2
    <3> QED
      BY <1>4, <1>6, <2>1, <2>2, <3>1 DEF Linked
  <2>3. CASE i # k + 1
    <3>1. Before(c, i) # p
      <4>1. CASE i = 1
        <5>1. k # 0 /\ k \in 1 .. n
          BY <1>1, <2>3, <4>1
        <5> QED
          BY <1>1, <4>1, <5>1 DEF Before
      <4>2. CASE i # 1
        <5>1. i - 1 \in 1 .. n /\ i - 1 # k /\ Before(c, i) = c[i - 1]
          BY <1>1, <2>3, <4>2 DEF Before
        <5>2. k # 0 => k \in 1 .. n
          BY <1>1
        <5> QED
          BY <1>1, <1>2, <5>1, <5>2
      <4> QED
        BY <4>1, <4>2
    <3>2. x \notin J
      BY <2>1, <3>1
    <3> QED
      BY <1>4, <1>6, <2>1, <2>3, <3>2 DEF Linked
  <2> QED
    BY <2>2, <2>3
<1>9. \A i \in 1 .. (n + 1) : d[i] = IF i <= k THEN c[i] ELSE IF i = k + 1 THEN u ELSE c[i - 1]
  BY DEF Widened
<1>10. \A i \in 1 .. (n + 1) : /\ i <= k => i \in 1 .. n
                               /\ ~(i <= k) /\ i # k + 1 => i - 1 \in 1 .. n /\ i - 1 > k /\ i # 1
  BY <1>1
<1>11. d \in Seq(Uuids) /\ Len(d) = n + 1 /\ DOMAIN d = 1 .. (n + 1)
  <2>1. \A i \in 1 .. (n + 1) : d[i] \in Uuids
    BY <1>1, <1>9, <1>10
  <2>2. d = [i \in 1 .. (n + 1) |-> d[i]] /\ n + 1 \in Nat
    BY <1>1 DEF Widened
  <2> HIDE DEF d
  <2> QED
    BY <2>1, <2>2
<1> HIDE DEF d, n
<1>12. ASSUME NEW i \in 1 .. (n + 1) PROVE Linked(Q, d[i], Before(d, i))
  <2>1. CASE i <= k
    <3>1. i \in 1 .. n /\ d[i] = c[i] /\ i # k + 1
      BY <1>1, <1>9, <1>10, <2>1
    <3>2. i # 1 => i - 1 \in 1 .. (n + 1) /\ i - 1 <= k
      BY <1>1, <2>1
    <3>3. Before(d, i) = Before(c, i)
      BY <1>9, <3>2 DEF Before
    <3> QED
      BY <1>8, <3>1, <3>3
  <2>2. CASE i = k + 1
    <3>1. d[i] = u
      BY <1>1, <1>9, <2>2
    <3>2. CASE k = 0
      BY <1>7, <2>2, <3>1, <3>2 DEF Before
    <3>3. CASE k # 0
      <4>1. i # 1 /\ i - 1 = k /\ k \in 1 .. (n + 1) /\ k <= k
        BY <1>1, <2>2, <3>3
      <4> QED
        BY <1>7, <1>9, <3>1, <3>3, <4>1 DEF Before
    <3> QED
      BY <3>2, <3>3
  <2>3. CASE ~(i <= k) /\ i # k + 1
    <3>1. d[i] = c[i - 1] /\ i - 1 \in 1 .. n /\ i # 1 /\ i - 1 \in 1 .. (n + 1) /\ i - 1 > k
      BY <1>1, <1>9, <1>10, <2>3
    <3>2. Before(d, i) = IF i - 1 = k + 1 THEN u ELSE Before(c, i - 1)
      <4>1. Before(d, i) = d[i - 1]
        BY <3>1 DEF Before
      <4>2. CASE i - 1 = k + 1
        BY <1>1, <1>9, <3>1, <4>1, <4>2
      <4>3. CASE i - 1 # k + 1
        <5>1. ~(i - 1 <= k) /\ i - 1 # 1 /\ (i - 1) - 1 \in 1 .. n
          BY <1>1, <3>1, <4>3
        <5> QED
          BY <1>9, <3>1, <4>1, <4>3, <5>1 DEF Before
      <4> QED
        BY <4>2, <4>3
    <3> QED
      BY <1>8, <3>1, <3>2
  <2> QED
    BY <2>1, <2>2, <2>3
<1>13. Q # <<>> /\ d # <<>> /\ d[Len(d)] = Tip(Q)
  <2>1. J # {}
    <3>1. k + 1 \in 1 .. n
      BY <1>1 DEF n
    <3> QED
      BY <1>1, <3>1 DEF UuidsOf
  <2>2. Tip(Q) = Tip(R)
    BY <1>3, <2>1, Inserted DEF Q
  <2>3. n + 1 \in 1 .. (n + 1) /\ ~(n + 1 <= k) /\ n + 1 # k + 1 /\ (n + 1) - 1 = n
    BY <1>1 DEF n
  <2>4. d[n + 1] = c[n]
    BY <1>9, <2>3
  <2>5. R # <<>> /\ c[n] = Tip(R)
    <3>1. R # <<>>
      BY <1>4, <2>1
    <3> QED
      BY <3>1 DEF IsChain, n
  <2>6. Q # <<>>
    BY <1>4
  <2>7. d # <<>>
    BY <1>1, <1>11
  <2> QED
    BY <1>11, <2>2, <2>4, <2>5, <2>6, <2>7
<1> QED
  BY <1>11, <1>12, <1>13 DEF IsChain, Q, d

LEMMA NoneMoved ==
  ASSUME NEW R, Tree(R), NEW u
  PROVE  Moved(R, u, {}) = R
<1>1. R = [i \in DOMAIN R |-> R[i]]
  BY DEF Tree
<1> QED
  BY <1>1 DEF Moved

LEMMA WidenedAtEnd ==
  ASSUME NEW c \in Seq(Uuids), NEW u \in Uuids
  PROVE  Widened(c, Len(c), u) = Append(c, u)
<1>1. /\ Append(c, u) \in Seq(Uuids) /\ Len(c) \in Nat
      /\ DOMAIN Append(c, u) = 1 .. (Len(c) + 1)
      /\ \A i \in 1 .. Len(c) : Append(c, u)[i] = c[i]
      /\ Append(c, u)[Len(c) + 1] = u
      /\ \A i \in 1 .. (Len(c) + 1) : i \in 1 .. Len(c) \/ i = Len(c) + 1
  BY AppendIs
<1>2. \A i \in 1 .. (Len(c) + 1) : Widened(c, Len(c), u)[i] = Append(c, u)[i]
  BY <1>1 DEF Widened
<1>3. Append(c, u) = [i \in 1 .. (Len(c) + 1) |-> Append(c, u)[i]]
  <2>1. \A q \in Seq(Uuids) : q = [i \in DOMAIN q |-> q[i]]
    BY SeqDef
  <2> QED
    BY <1>1, <2>1
<1>4. Widened(c, Len(c), u) = [i \in 1 .. (Len(c) + 1) |-> Widened(c, Len(c), u)[i]]
  BY DEF Widened
<1> QED
  BY <1>2, <1>3, <1>4

\* What an injection makes of the file and of the conversation.
LEMMA InjectIs ==
  ASSUME NEW R, Tree(R), NEW u \in Uuids, u \notin UuidsOf(R),
         NEW after \in UuidsOf(R) \cup {Start, End}
  PROVE  LET c == ReadSessionChain(R)
             Q == InjectMessage(R, u, after)
         IN  /\ Tree(Q) /\ UuidsOf(Q) = UuidsOf(R) \cup {u}
             /\ after = Start => ReadSessionChain(Q) = Widened(c, 0, u)
             /\ after = End => ReadSessionChain(Q) = Append(c, u)
             /\ \A k \in 1 .. Len(c) : after = c[k] => ReadSessionChain(Q) = Widened(c, k, u)
<1> DEFINE c == ReadSessionChain(R)
           Q == InjectMessage(R, u, after)
           rec(p) == UserRecord(u, p)
<1>1. IsChain(R, c)
  BY BuildChainIs
<1> HIDE DEF c
<1>2. /\ c \in Seq(Uuids) /\ Len(c) \in Nat /\ DOMAIN c = 1 .. Len(c)
      /\ \A i \in 1 .. Len(c) : c[i] \in Uuids /\ c[i] # Root /\ c[i] \in UuidsOf(R)
  BY <1>1, ChainTyped
<1>3. \A p \in Uuids \cup {Root} : rec(p) \in Records /\ rec(p).uuid = u /\ rec(p).parent = p /\ ~rec(p).isSidechain
  BY DEF UserRecord, Records, Kinds
<1>4. UuidsOf(R) \subseteq Uuids /\ Start \notin Uuids /\ End \notin Uuids /\ Start # End /\ Root \notin Uuids
  BY RecordTyped, UuidAssumption DEF UuidsOf
<1>5. EndOf(c) \in Uuids \cup {Root}
  BY <1>2 DEF EndOf
\* At the end of the conversation.
<1>6. ASSUME NEW p, p = EndOf(c), Q = Append(R, rec(p))
      PROVE  /\ Tree(Q) /\ UuidsOf(Q) = UuidsOf(R) \cup {u}
             /\ ReadSessionChain(Q) = Append(c, u)
  <2>1. rec(p) \in Records /\ rec(p).uuid = u /\ rec(p).parent = EndOf(c) /\ ~rec(p).isSidechain
    BY <1>3, <1>5, <1>6
  <2> HIDE DEF rec, Q
  <2>2. Tree(Q) /\ UuidsOf(Q) = UuidsOf(R) \cup {u} /\ IsChain(Q, Append(c, u))
    BY <1>1, <1>6, <2>1, AppendedToChain
  <2> QED
    BY <2>2, ChainIs
<1>7. CASE after = Start
  <2> DEFINE J == {i \in DOMAIN R : c # <<>> /\ R[i].uuid = c[1] /\ R[i].parent = Root}
  <2>1. Q = Append(Moved(R, u, J), rec(Root))
    <3>1. Moved(R, u, J) = [i \in DOMAIN R |->
                              IF c # <<>> /\ R[i].uuid = c[1] /\ R[i].parent = Root
                              THEN [R[i] EXCEPT !.parent = u] ELSE R[i]]
      BY DEF Moved
    <3>2. Q = Append([i \in DOMAIN R |->
                        IF c # <<>> /\ R[i].uuid = c[1] /\ R[i].parent = Root
                        THEN [R[i] EXCEPT !.parent = u] ELSE R[i]], rec(Root))
      BY <1>4, <1>7, Zenon DEF InjectMessage, UserRecord, c
    <3> QED
      BY <3>1, <3>2
  <2>2. CASE c = <<>>
    <3>1. J = {}
      BY <2>2
    <3>2. Q = Append(R, rec(Root)) /\ Root = EndOf(c)
      BY <2>1, <2>2, <3>1, NoneMoved DEF EndOf
    <3>3. Tree(Q) /\ UuidsOf(Q) = UuidsOf(R) \cup {u} /\ ReadSessionChain(Q) = Append(c, u)
      BY <1>6, <3>2
    <3>4. Len(c) = 0
      BY <2>2
    <3>5. Widened(c, 0, u) = Append(c, u)
      BY <1>2, <3>4, WidenedAtEnd
    <3>6. \A k \in 1 .. Len(c) : after # c[k]
      BY <1>2, <1>4, <1>7
    <3> QED
      BY <1>4, <1>7, <3>3, <3>5, <3>6 DEF c
  <2>3. CASE c # <<>>
    <3>1. 0 \in 0 .. Len(c) /\ 0 < Len(c) /\ 1 \in 1 .. Len(c) /\ 0 + 1 = 1
      BY <1>2, <2>3
    <3>2. J \in SUBSET DOMAIN R /\ \A j \in J : R[j].parent = Root
      OBVIOUS
    <3>3. \A j \in DOMAIN R : R[j].uuid = c[0 + 1] => j \in J
      <4> SUFFICES ASSUME NEW j \in DOMAIN R, R[j].uuid = c[1] PROVE R[j].parent = Root
        BY <2>3, <3>1
      <4>1. Linked(R, c[1], Root) /\ Linked(R, c[1], R[j].parent)
        BY <1>1, <1>2, <3>1 DEF IsChain, Before, Linked
      <4> QED
        BY <4>1, OneLink
    <3>4. Root = IF 0 = 0 THEN Root ELSE c[0]
      OBVIOUS
    <3> HIDE DEF J
    <3>5. IsChain(Q, Widened(c, 0, u))
      BY <1>1, <2>1, <3>1, <3>2, <3>3, <3>4, InsertedInChain
    <3>6. Tree(Q) /\ UuidsOf(Q) = UuidsOf(R) \cup {u}
      BY <2>1, <3>2, Inserted
    <3>7. ReadSessionChain(Q) = Widened(c, 0, u)
      BY <3>5, <3>6, ChainIs
    <3>8. \A k \in 1 .. Len(c) : after # c[k]
      BY <1>2, <1>4, <1>7
    <3> QED
      BY <1>4, <1>7, <3>6, <3>7, <3>8 DEF c
  <2> QED
    BY <2>2, <2>3
<1>8. CASE after = End
  <2>1. Q = Append(R, rec(EndOf(c)))
    BY <1>4, <1>8 DEF InjectMessage, EndOf, UserRecord, Last, c
  <2>2. Tree(Q) /\ UuidsOf(Q) = UuidsOf(R) \cup {u} /\ ReadSessionChain(Q) = Append(c, u)
    BY <1>6, <2>1
  <2>3. \A k \in 1 .. Len(c) : after # c[k]
    BY <1>2, <1>4, <1>8
  <2> QED
    BY <1>4, <1>8, <2>2, <2>3 DEF c
<1>9. CASE after \in UuidsOf(R)
  <2> DEFINE J == {i \in DOMAIN R : R[i].parent = after}
  <2>1. after # Start /\ after # End /\ after \in Uuids
    BY <1>4, <1>9
  <2>2. Q = Append(Moved(R, u, J), rec(after))
    <3>1. Moved(R, u, J) = Reparent(R, after, u)
      BY DEF Moved, Reparent
    <3> QED
      BY <2>1, <3>1 DEF InjectMessage, UserRecord
  <2>3. J \in SUBSET DOMAIN R /\ \A j \in J : R[j].parent = after
    OBVIOUS
  <2>4. Tree(Q) /\ UuidsOf(Q) = UuidsOf(R) \cup {u}
    <3> HIDE DEF J
    <3> QED
      BY <1>9, <2>2, <2>3, Inserted
  <2>5. ASSUME NEW k \in 1 .. Len(c), after = c[k]
        PROVE  ReadSessionChain(Q) = Widened(c, k, u)
    <3>1. CASE k < Len(c)
      <4>1. k \in 0 .. Len(c) /\ k # 0 /\ k + 1 \in 1 .. Len(c) /\ k + 1 # 1 /\ (k + 1) - 1 = k
        BY <1>2, <3>1
      <4>2. after = IF k = 0 THEN Root ELSE c[k]
        BY <2>5, <4>1
      <4>3. \A j \in DOMAIN R : R[j].uuid = c[k + 1] => j \in J
        <5> SUFFICES ASSUME NEW j \in DOMAIN R, R[j].uuid = c[k + 1] PROVE R[j].parent = c[k]
          BY <2>5
        <5>1. Before(c, k + 1) = c[k]
          BY <4>1, Zenon DEF Before
        <5>2. Linked(R, c[k + 1], c[k])
          BY <1>1, <1>2, <4>1, <5>1 DEF IsChain
        <5>3. Linked(R, c[k + 1], R[j].parent)
          BY DEF Linked
        <5> QED
          BY <5>2, <5>3, OneLink
      <4> HIDE DEF J
      <4>4. IsChain(Q, Widened(c, k, u))
        BY <1>1, <2>2, <2>3, <3>1, <4>1, <4>2, <4>3, InsertedInChain
      <4> QED
        BY <2>4, <4>4, ChainIs
    <3>2. CASE k = Len(c)
      <4>1. c # <<>>
        BY <1>2, <3>2
      <4>2. J = {}
        <5>1. c[Len(c)] \notin HasChildren(R)
          BY <1>1, <4>1, ChainShape
        <5> QED
          BY <2>5, <3>2, <5>1 DEF HasChildren
      <4>3. Q = Append(R, rec(after)) /\ after = EndOf(c)
        BY <2>2, <2>5, <3>2, <4>1, <4>2, NoneMoved DEF EndOf
      <4>4. ReadSessionChain(Q) = Append(c, u)
        BY <1>6, <4>3
      <4> QED
        BY <1>2, <3>2, <4>4, WidenedAtEnd
    <3>3. k < Len(c) \/ k = Len(c)
      <4>1. \A m \in Nat : \A i \in 1 .. m : i < m \/ i = m
        OBVIOUS
      <4> QED
        BY <1>2, <4>1
    <3> QED
      BY <3>1, <3>2, <3>3
  <2> QED
    BY <2>1, <2>4, <2>5 DEF c
<1> QED
  BY <1>7, <1>8, <1>9
-----------------------------------------------------------------------------
(***************************************************************************)
(* A removal.  The d-th record goes, and those behind it move up.          *)
(***************************************************************************)
Behind(d, k) == IF k < d THEN k ELSE k + 1

LEMMA BehindIs ==
  ASSUME NEW n \in Nat, NEW d \in 1 .. n
  PROVE  /\ \A k \in 1 .. n - 1 : Behind(d, k) \in 1 .. n /\ Behind(d, k) # d
         /\ \A k, l \in 1 .. n - 1 : /\ Behind(d, k) = Behind(d, l) => k = l
                                     /\ Behind(d, k) <= Behind(d, l) => k <= l
         /\ \A i \in 1 .. n : i # d => \E k \in 1 .. n - 1 : Behind(d, k) = i
<1>1. /\ \A k \in 1 .. n - 1 : Behind(d, k) \in 1 .. n /\ Behind(d, k) # d
      /\ \A k, l \in 1 .. n - 1 : /\ Behind(d, k) = Behind(d, l) => k = l
                                  /\ Behind(d, k) <= Behind(d, l) => k <= l
  BY DEF Behind
<1>2. ASSUME NEW i \in 1 .. n, i # d PROVE \E k \in 1 .. n - 1 : Behind(d, k) = i
  <2>1. CASE i < d
    <3>1. i \in 1 .. n - 1 /\ Behind(d, i) = i
      BY <2>1 DEF Behind
    <3> QED
      BY <3>1
  <2>2. CASE i > d
    <3>1. i - 1 \in 1 .. n - 1 /\ Behind(d, i - 1) = i
      BY <2>2 DEF Behind
    <3> QED
      BY <3>1
  <2> QED
    BY <1>2, <2>1, <2>2
<1> QED
  BY <1>1, <1>2

LEMMA RemovedIs ==
  ASSUME NEW R, Tree(R), NEW d \in DOMAIN R
  PROVE  LET Q == RemoveMessage(R, R[d].uuid)
             n == Len(R)
         IN  /\ Q \in Seq(Records) /\ n \in Nat /\ DOMAIN R = 1 .. n /\ DOMAIN Q = 1 .. n - 1
             /\ \A k \in 1 .. n - 1 :
                  /\ Q[k].uuid = R[Behind(d, k)].uuid
                  /\ Q[k].isSidechain = R[Behind(d, k)].isSidechain
                  /\ Q[k].parent = IF R[Behind(d, k)].parent = R[d].uuid THEN R[d].parent
                                   ELSE R[Behind(d, k)].parent
<1> DEFINE u == R[d].uuid
           Q == RemoveMessage(R, u)
           n == Len(R)
           P == Picked(R, DOMAIN R \ {d})
<1>1. R \in Seq(Records) /\ n \in Nat /\ n - 1 \in Nat /\ DOMAIN R = 1 .. n
  <2>1. R \in Seq(Records) /\ DOMAIN R = 1 .. n /\ n \in Nat
    BY DEF Tree
  <2> QED
    BY <2>1
<1>2. Q = Reparent(P, u, R[d].parent)
  <2>1. {i \in DOMAIN R : R[i].uuid # u} = DOMAIN R \ {d}
    BY DEF Tree
  <2>2. Lookup(R, u) = d
    BY LookupFinds
  <2> QED
    BY <2>1, <2>2 DEF RemoveMessage
<1>3. P = [k \in 1 .. n - 1 |-> R[Behind(d, k)]]
  <2>1. P = [k \in 1 .. n - 1 |-> IF k < d THEN R[k] ELSE R[k + 1]]
    BY <1>1, PickedOthers
  <2>2. \A k \in 1 .. n - 1 : (IF k < d THEN R[k] ELSE R[k + 1]) = R[Behind(d, k)]
    BY DEF Behind
  <2> HIDE DEF P
  <2> QED
    BY <2>1, <2>2
<1> HIDE DEF P
<1>4. \A k \in 1 .. n - 1 : Behind(d, k) \in DOMAIN R
  BY <1>1, BehindIs
<1>5. Q = [k \in 1 .. n - 1 |-> IF R[Behind(d, k)].parent = u
                                THEN [R[Behind(d, k)] EXCEPT !.parent = R[d].parent] ELSE R[Behind(d, k)]]
  BY <1>2, <1>3 DEF Reparent
<1> HIDE DEF Q, u
<1>6. \A r \in Records : \A p \in Uuids \cup {Root} :
        /\ [r EXCEPT !.parent = p] \in Records
        /\ [r EXCEPT !.parent = p].parent = p /\ [r EXCEPT !.parent = p].uuid = r.uuid
        /\ [r EXCEPT !.parent = p].isSidechain = r.isSidechain
  BY DEF Records
<1>7. R[d].parent \in Uuids \cup {Root} /\ \A k \in 1 .. n - 1 : R[Behind(d, k)] \in Records
  BY <1>4, RecordTyped
<1>8. \A k \in 1 .. n - 1 :
        /\ Q[k] \in Records
        /\ Q[k].uuid = R[Behind(d, k)].uuid
        /\ Q[k].isSidechain = R[Behind(d, k)].isSidechain
        /\ Q[k].parent = IF R[Behind(d, k)].parent = u THEN R[d].parent ELSE R[Behind(d, k)].parent
  <2> SUFFICES ASSUME NEW k \in 1 .. n - 1
               PROVE  /\ Q[k] \in Records
                      /\ Q[k].uuid = R[Behind(d, k)].uuid
                      /\ Q[k].isSidechain = R[Behind(d, k)].isSidechain
                      /\ Q[k].parent = IF R[Behind(d, k)].parent = u THEN R[d].parent
                                       ELSE R[Behind(d, k)].parent
    OBVIOUS
  <2> DEFINE r == R[Behind(d, k)]
             p == R[d].parent
  <2>1. r \in Records /\ p \in Uuids \cup {Root}
    BY <1>7
  <2>2. Q[k] = IF r.parent = u THEN [r EXCEPT !.parent = p] ELSE r
    BY <1>5
  <2> HIDE DEF r, p
  <2>3. /\ Q[k] \in Records /\ Q[k].uuid = r.uuid /\ Q[k].isSidechain = r.isSidechain
        /\ Q[k].parent = IF r.parent = u THEN p ELSE r.parent
    BY <1>6, <2>1, <2>2
  <2> QED
    BY <2>3 DEF r, p
<1>9. Q \in Seq(Records) /\ DOMAIN Q = 1 .. n - 1
  <2>1. Q = [k \in 1 .. n - 1 |-> Q[k]]
    BY <1>5
  <2> HIDE DEF n
  <2> QED
    BY <1>1, <1>8, <2>1
<1> QED
  BY <1>1, <1>8, <1>9 DEF Q, u

LEMMA RemovedTree ==
  ASSUME NEW R, Tree(R), NEW d \in DOMAIN R
  PROVE  LET Q == RemoveMessage(R, R[d].uuid)
         IN  /\ Tree(Q) /\ UuidsOf(Q) = UuidsOf(R) \ {R[d].uuid}
             /\ R[d].parent # R[d].uuid
<1> DEFINE u == R[d].uuid
           q == R[d].parent
           Q == RemoveMessage(R, u)
           n == Len(R)
<1>1. /\ Q \in Seq(Records) /\ n \in Nat /\ DOMAIN R = 1 .. n /\ DOMAIN Q = 1 .. n - 1
      /\ \A k \in 1 .. n - 1 :
           /\ Q[k].uuid = R[Behind(d, k)].uuid
           /\ Q[k].parent = IF R[Behind(d, k)].parent = u THEN q ELSE R[Behind(d, k)].parent
  BY RemovedIs
<1> HIDE DEF Q, n
<1>2. /\ \A k \in 1 .. n - 1 : Behind(d, k) \in 1 .. n /\ Behind(d, k) # d
      /\ \A k, l \in 1 .. n - 1 : Behind(d, k) = Behind(d, l) => k = l
      /\ \A i \in 1 .. n : i # d => \E k \in 1 .. n - 1 : Behind(d, k) = i
  BY <1>1, BehindIs
<1>3. PICK rank : Ranks(R, rank)
  BY DEF Tree
<1>4. /\ \A i \in 1 .. n : rank[R[i].uuid] \in Nat /\ (R[i].parent # Root => rank[R[i].parent] \in Nat)
      /\ \A i \in 1 .. n : R[i].parent # Root => rank[R[i].parent] < rank[R[i].uuid]
  BY <1>1, <1>3, RecordTyped DEF Ranks
<1>5. u # Root /\ q # u
  <2>1. u # Root
    BY RecordTyped
  <2>2. q # Root => rank[q] < rank[u] /\ rank[u] \in Nat
    BY <1>1, <1>4
  <2> HIDE DEF u, q
  <2> QED
    BY <2>1, <2>2
<1>6. UuidsOf(Q) = UuidsOf(R) \ {u}
  <2>1. \A x \in UuidsOf(Q) : x \in UuidsOf(R) /\ x # u
    BY <1>1, <1>2 DEF UuidsOf, Tree
  <2>2. \A x \in UuidsOf(R) : x # u => x \in UuidsOf(Q)
    <3> SUFFICES ASSUME NEW i \in 1 .. n, R[i].uuid # u PROVE R[i].uuid \in UuidsOf(Q)
      BY <1>1 DEF UuidsOf
    <3>1. PICK k \in 1 .. n - 1 : Behind(d, k) = i
      BY <1>2
    <3> QED
      BY <1>1, <3>1 DEF UuidsOf
  <2> QED
    BY <2>1, <2>2
<1>7. \A i, j \in DOMAIN Q : Q[i].uuid = Q[j].uuid => i = j
  BY SMTT(30), <1>1, <1>2 DEF Tree
<1>8. \A i \in DOMAIN Q : Q[i].parent \in UuidsOf(Q) \cup {Root}
  <2>1. \A i \in DOMAIN R : R[i].parent \in UuidsOf(R) \cup {Root}
    BY DEF Tree
  <2> QED
    BY <1>1, <1>2, <1>5, <1>6, <2>1
<1>9. Ranks(Q, rank)
  <2> SUFFICES ASSUME NEW k \in 1 .. n - 1, Q[k].parent # Root
               PROVE  rank[Q[k].parent] < rank[Q[k].uuid]
    BY <1>1, <1>3 DEF Ranks
  <2> DEFINE i == Behind(d, k)
  <2>1. i \in 1 .. n
    BY <1>2
  <2>2. CASE R[i].parent = u
    <3>1. Q[k].parent = q /\ Q[k].uuid = R[i].uuid
      BY <1>1, <2>2
    <3>2. rank[q] < rank[u] /\ rank[q] \in Nat /\ rank[u] \in Nat
      BY <1>1, <1>4, <2>2, <3>1
    <3>3. rank[u] < rank[R[i].uuid] /\ rank[R[i].uuid] \in Nat
      BY <1>4, <1>5, <2>1, <2>2
    <3> HIDE DEF q, u, i
    <3> QED
      BY <3>1, <3>2, <3>3
  <2>3. CASE R[i].parent # u
    BY <1>1, <1>4, <2>1, <2>3
  <2> QED
    BY <2>2, <2>3
<1> QED
  BY <1>1, <1>5, <1>6, <1>7, <1>8, <1>9 DEF Tree, Q

\* The removal of a message something follows leaves the leaves as they are.
LEMMA RemovedTip ==
  ASSUME NEW R, Tree(R), NEW d \in DOMAIN R, R[d].uuid \in HasChildren(R)
  PROVE  Tip(RemoveMessage(R, R[d].uuid)) = Tip(R)
<1> DEFINE u == R[d].uuid
           q == R[d].parent
           Q == RemoveMessage(R, u)
           n == Len(R)
           Main(S) == {i \in AllLeaves(S) : ~S[i].isSidechain}
<1>1. /\ n \in Nat /\ DOMAIN R = 1 .. n /\ DOMAIN Q = 1 .. n - 1
      /\ \A k \in 1 .. n - 1 :
           /\ Q[k].uuid = R[Behind(d, k)].uuid
           /\ Q[k].isSidechain = R[Behind(d, k)].isSidechain
           /\ Q[k].parent = IF R[Behind(d, k)].parent = u THEN q ELSE R[Behind(d, k)].parent
  BY RemovedIs
<1>2. Tree(Q) /\ UuidsOf(Q) = UuidsOf(R) \ {u} /\ q # u
  BY RemovedTree
<1>3. u \in HasChildren(R)
  OBVIOUS
<1> HIDE DEF Q, n
<1>4. /\ \A k \in 1 .. n - 1 : Behind(d, k) \in 1 .. n /\ Behind(d, k) # d
      /\ \A k, l \in 1 .. n - 1 : Behind(d, k) <= Behind(d, l) => k <= l
      /\ \A i \in 1 .. n : i # d => \E k \in 1 .. n - 1 : Behind(d, k) = i
  BY <1>1, BehindIs
<1>5. PICK m \in 1 .. n : R[m].parent = u /\ m # d
  BY <1>1, <1>2, <1>3 DEF HasChildren
<1>6. PICK km \in 1 .. n - 1 : Behind(d, km) = m
  BY <1>4, <1>5
<1>7. ASSUME NEW x, x # u PROVE x \in HasChildren(Q) <=> x \in HasChildren(R)
  <2>1. ASSUME NEW k \in 1 .. n - 1, Q[k].parent = x PROVE x \in HasChildren(R)
    <3>1. Behind(d, k) \in DOMAIN R
      BY <1>1, <1>4
    <3>2. Q[k].parent = q \/ Q[k].parent = R[Behind(d, k)].parent
      BY <1>1
    <3> QED
      BY <2>1, <3>1, <3>2 DEF HasChildren
  <2>2. ASSUME NEW i \in 1 .. n, R[i].parent = x PROVE x \in HasChildren(Q)
    <3>1. CASE i = d
      <4>1. Q[km].parent = x
        BY <1>1, <1>5, <1>6, <2>2, <3>1
      <4> QED
        BY <1>1, <4>1 DEF HasChildren
    <3>2. CASE i # d
      <4>1. PICK k \in 1 .. n - 1 : Behind(d, k) = i
        BY <1>4, <3>2
      <4>2. Q[k].parent = x
        BY <1>1, <1>7, <2>2, <4>1
      <4> QED
        BY <1>1, <4>2 DEF HasChildren
    <3> QED
      BY <3>1, <3>2
  <2> QED
    BY <1>1, <2>1, <2>2 DEF HasChildren
<1>8. \A k \in 1 .. n - 1 : R[Behind(d, k)].uuid # u
  BY <1>1, <1>4 DEF Tree
<1>9. AllLeaves(Q) = {k \in 1 .. n - 1 : Behind(d, k) \in AllLeaves(R)}
  <2>1. \A k \in 1 .. n - 1 : Q[k].uuid \notin HasChildren(Q) <=> R[Behind(d, k)].uuid \notin HasChildren(R)
    BY <1>1, <1>7, <1>8
  <2> QED
    BY <1>1, <1>4, <2>1 DEF AllLeaves
<1>10. d \notin AllLeaves(R)
  BY <1>3 DEF AllLeaves
<1>11. Main(Q) = {k \in 1 .. n - 1 : Behind(d, k) \in Main(R)}
  BY <1>1, <1>9
<1>12. \A i \in AllLeaves(R) : i \in 1 .. n /\ i # d
  BY <1>1, <1>10 DEF AllLeaves
<1>13. Main(Q) # {} <=> Main(R) # {}
  BY <1>4, <1>11, <1>12
<1>14. Leaves(Q) = {k \in 1 .. n - 1 : Behind(d, k) \in Leaves(R)}
  <2>1. Leaves(Q) = IF Main(Q) # {} THEN Main(Q) ELSE AllLeaves(Q)
    BY DEF Leaves
  <2>2. Leaves(R) = IF Main(R) # {} THEN Main(R) ELSE AllLeaves(R)
    BY DEF Leaves
  <2> HIDE DEF Main
  <2> QED
    BY <1>9, <1>11, <1>13, <2>1, <2>2
<1>15. /\ Max(Leaves(R)) \in Leaves(R) /\ Leaves(R) \subseteq AllLeaves(R)
       /\ \A i \in Leaves(R) : i <= Max(Leaves(R))
  <2>1. R # <<>>
    BY <1>1
  <2> QED
    BY <2>1, LeafExists
<1>16. PICK k \in 1 .. n - 1 : Behind(d, k) = Max(Leaves(R))
  BY <1>4, <1>12, <1>15
<1>17. Max(Leaves(Q)) = k
  <2>1. k \in Leaves(Q) /\ Leaves(Q) \in SUBSET (1 .. n - 1)
    BY <1>14, <1>15, <1>16
  <2>2. \A l \in Leaves(Q) : l <= k
    BY <1>4, <1>14, <1>15, <1>16
  <2>3. n - 1 \in Nat
    <3>1. n # 0
      BY <1>1
    <3> QED
      BY <1>1, <3>1
  <2> QED
    BY <2>1, <2>2, <2>3, MaxOfIndexes
<1> QED
  BY <1>1, <1>16, <1>17 DEF Tip, Q

\* The conversation without its k-th message.
Narrowed(c, k) == [i \in 1 .. Len(c) - 1 |-> c[Behind(k, i)]]

LEMMA RemovedFromChain ==
  ASSUME NEW R, Tree(R), NEW c, IsChain(R, c), NEW k \in 1 .. Len(c),
         k < Len(c) \/ Cardinality(AllLeaves(R)) = 1
  PROVE  ReadSessionChain(RemoveMessage(R, c[k])) = Narrowed(c, k)
<1> DEFINE u == c[k]
           Q == RemoveMessage(R, u)
           e == Narrowed(c, k)
           m == Len(c)
<1>1. /\ c \in Seq(Uuids) /\ m \in Nat /\ DOMAIN c = 1 .. m
      /\ \A i \in 1 .. m : c[i] \in Uuids /\ c[i] # Root /\ c[i] \in UuidsOf(R)
      /\ \A i \in 1 .. m : Linked(R, c[i], Before(c, i))
  BY ChainTyped DEF IsChain
<1>2. PICK d \in DOMAIN R : R[d].uuid = u
  BY <1>1 DEF UuidsOf
<1> DEFINE q == R[d].parent
           n == Len(R)
<1>3. Tree(Q) /\ q # u
  BY <1>2, RemovedTree
<1>4. /\ n \in Nat /\ DOMAIN R = 1 .. n /\ DOMAIN Q = 1 .. n - 1
      /\ \A l \in 1 .. n - 1 :
           /\ Q[l].uuid = R[Behind(d, l)].uuid
           /\ Q[l].parent = IF R[Behind(d, l)].parent = u THEN q ELSE R[Behind(d, l)].parent
  BY <1>2, RemovedIs
<1> HIDE DEF Q, n, m, q
<1>5. /\ \A l \in 1 .. n - 1 : Behind(d, l) \in 1 .. n /\ Behind(d, l) # d
      /\ \A i \in 1 .. n : i # d => \E l \in 1 .. n - 1 : Behind(d, l) = i
  BY <1>4, BehindIs
<1>6. /\ \A i \in 1 .. m - 1 : Behind(k, i) \in 1 .. m /\ Behind(k, i) # k
      /\ \A i \in 1 .. m : i # k => \E l \in 1 .. m - 1 : Behind(k, l) = i
  BY <1>1, BehindIs DEF m
<1>7. /\ DOMAIN e = 1 .. m - 1 /\ \A i \in 1 .. m - 1 : e[i] = c[Behind(k, i)]
  BY DEF Narrowed, m
<1>8. e \in Seq(Uuids) /\ Len(e) = m - 1
  <2>1. e = [i \in 1 .. m - 1 |-> e[i]] /\ m - 1 \in Nat
    BY <1>1 DEF Narrowed, m
  <2>2. \A i \in 1 .. m - 1 : e[i] \in Uuids
    BY <1>1, <1>6, <1>7
  <2> HIDE DEF e
  <2> QED
    BY <2>1, <2>2
<1> HIDE DEF e
<1>9. k \in 1 .. m /\ \A i \in 1 .. m : c[i] = u => i = k
  BY ChainShape DEF m
<1>10. ASSUME NEW x, NEW p, Linked(R, x, p), x # u
       PROVE  Linked(Q, x, IF p = u THEN q ELSE p)
  <2>1. PICK i \in 1 .. n : R[i].uuid = x /\ R[i].parent = p
    BY <1>4, <1>10 DEF Linked
  <2>2. PICK l \in 1 .. n - 1 : Behind(d, l) = i
    BY <1>2, <1>5, <1>10, <2>1
  <2> QED
    BY <1>4, <2>1, <2>2 DEF Linked
<1>11. q = Before(c, k)
  <2>1. Linked(R, u, q)
    BY <1>2 DEF Linked, q
  <2> QED
    BY <1>1, <2>1, OneLink DEF m
<1>12. ASSUME NEW i \in 1 .. m - 1 PROVE Linked(Q, e[i], Before(e, i))
  <2> DEFINE j == Behind(k, i)
  <2>1. j \in 1 .. m /\ j # k /\ e[i] = c[j] /\ e[i] # u
    BY <1>6, <1>7, <1>9
  <2>2. Linked(Q, e[i], IF Before(c, j) = u THEN q ELSE Before(c, j))
    BY <1>1, <1>10, <2>1
  <2>3. CASE i < k
    <3>1. j = i /\ (i # 1 => i - 1 \in 1 .. m - 1 /\ i - 1 \in 1 .. m /\ i - 1 # k /\ Behind(k, i - 1) = i - 1)
      BY <1>1, <2>3 DEF Behind
    <3>2. Before(c, j) = Before(e, i)
      BY <1>7, <3>1 DEF Before
    <3>3. Before(c, j) # u
      BY <1>1, <1>9, <3>1 DEF Before
    <3> QED
      BY <2>2, <3>2, <3>3
  <2>4. CASE i = k
    <3>1. j = k + 1 /\ j # 1 /\ j - 1 = k
      BY <1>1, <2>4 DEF Behind
    <3>2. Before(c, j) = u
      BY <3>1 DEF Before
    <3>3. Before(e, i) = Before(c, k)
      <4>1. k # 1 => k - 1 \in 1 .. m - 1 /\ Behind(k, k - 1) = k - 1
        BY <1>1, <2>4 DEF Behind
      <4> QED
        BY <1>7, <2>4, <4>1 DEF Before
    <3> QED
      BY <1>11, <2>2, <3>2, <3>3
  <2>5. CASE i > k
    <3>1. /\ j = i + 1 /\ j # 1 /\ j - 1 = i /\ i # 1 /\ i \in 1 .. m /\ i # k
          /\ i - 1 \in 1 .. m - 1 /\ Behind(k, i - 1) = i
      BY <1>1, <2>5 DEF Behind
    <3>2. Before(c, j) = c[i] /\ c[i] # u /\ Before(e, i) = c[i]
      <4>1. Before(c, j) = c[i] /\ Before(e, i) = e[i - 1]
        BY <3>1, Zenon DEF Before
      <4>2. e[i - 1] = c[i] /\ c[i] # u
        BY <1>7, <1>9, <3>1
      <4> QED
        BY <4>1, <4>2
    <3> QED
      BY <2>2, <3>2
  <2> QED
    BY <1>1, <2>3, <2>4, <2>5
<1>13. CASE k < m
  <2>1. m - 1 \in 1 .. m - 1 /\ Behind(k, m - 1) = m
    BY <1>1, <1>13 DEF Behind
  <2>2. e # <<>> /\ e[Len(e)] = c[m]
    BY <1>7, <1>8, <2>1
  <2>3. u \in HasChildren(R)
    BY <1>13, ChainShape DEF m
  <2>4. Tip(Q) = Tip(R)
    BY <1>2, <2>3, RemovedTip DEF Q
  <2>5. c[m] = Tip(R)
    BY <1>4 DEF IsChain, m
  <2>6. Q # <<>>
    BY <1>4, <1>7, <1>12, <2>1 DEF Linked
  <2>7. IsChain(Q, e)
    BY <1>7, <1>8, <1>12, <2>2, <2>4, <2>5, <2>6 DEF IsChain
  <2> QED
    BY <1>3, <2>7, ChainIs DEF Q, e
<1>14. CASE Cardinality(AllLeaves(R)) = 1
  <2>1. \A i \in DOMAIN R : \E j \in 1 .. m : R[i].uuid = c[j]
    BY <1>1, <1>14, OneLeaf
  <2>2. \A l \in DOMAIN Q : \E i \in DOMAIN e : Q[l].uuid = e[i]
    <3> SUFFICES ASSUME NEW l \in 1 .. n - 1 PROVE \E i \in 1 .. m - 1 : Q[l].uuid = e[i]
      BY <1>4, <1>7
    <3>1. PICK j \in 1 .. m : R[Behind(d, l)].uuid = c[j]
      BY <1>4, <1>5, <2>1
    <3>2. j # k
      BY <1>2, <1>4, <1>5, <3>1 DEF Tree
    <3>3. PICK i \in 1 .. m - 1 : Behind(k, i) = j
      BY <1>6, <3>2
    <3> QED
      BY <1>4, <1>7, <3>1, <3>3
  <2>3. CASE Q # <<>>
    <3>1. IsChain(Q, e)
      BY <1>3, <1>7, <1>8, <1>12, <2>2, <2>3, OnlyChain
    <3> QED
      BY <1>3, <3>1, ChainIs DEF Q, e
  <2>4. CASE Q = <<>>
    <3>1. \A i \in 1 .. m - 1 : FALSE
      BY <1>12, <2>4 DEF Linked
    <3>2. e = <<>>
      BY <1>7, <1>8, <3>1
    <3>3. IsChain(Q, e)
      BY <1>8, <2>4, <3>2 DEF IsChain
    <3> QED
      BY <1>3, <3>3, ChainIs DEF Q, e
  <2> QED
    BY <2>3, <2>4
<1> QED
  BY <1>13, <1>14 DEF m
-----------------------------------------------------------------------------
(***************************************************************************)
(* A truncation.                                                           *)
(***************************************************************************)
\* From some number in I on there are as many as wanted, if there are enough.
LEMMA CountedFromEnd ==
  ASSUME NEW N \in Nat, NEW I \in SUBSET (1 .. N), NEW w \in Nat, 0 < w, w <= Cardinality(I)
  PROVE  \E i \in I : Cardinality({j \in I : j >= i}) = w
<1> DEFINE From(i) == {j \in I : j >= i}
           To(i) == {j \in I : j <= i}
           C == Cardinality(I)
<1>1. /\ C \in Nat /\ IsFiniteSet(I)
      /\ \A k \in 1 .. C : \E i \in I : Cardinality(To(i)) = k
  BY Counting DEF Count
<1>2. C - w + 1 \in 1 .. C
  <2> HIDE DEF C
  <2> QED
    BY <1>1 DEF C
<1>3. PICK i \in I : Cardinality(To(i)) = C - w + 1
  BY <1>1, <1>2
<1>4. Cardinality(From(i)) = w
  <2>1. To(i) \cup From(i) = I /\ To(i) \cap From(i) = {i}
    <3>1. \A j \in I : j \in Nat /\ i \in Nat
      OBVIOUS
    <3>2. \A j \in I : (j <= i \/ j >= i) /\ (j <= i /\ j >= i <=> j = i)
      BY <3>1
    <3>3. i \in I
      OBVIOUS
    <3> QED
      BY <3>2, <3>3
  <2>2. IsFiniteSet(To(i)) /\ IsFiniteSet(From(i))
    BY <1>1, FS_Subset
  <2>3. C = Cardinality(To(i)) + Cardinality(From(i)) - Cardinality({i})
    <3> HIDE DEF To, From
    <3> QED
      BY <2>1, <2>2, FS_Union
  <2>4. Cardinality({i}) = 1 /\ Cardinality(From(i)) \in Nat
    BY <2>2, FS_Singleton, FS_CardinalityType
  <2> HIDE DEF C, To, From
  <2> QED
    BY <1>1, <1>3, <2>3, <2>4
<1> QED
  BY <1>4

\* Where in the conversation the messages of users and assistants stand.
SpokenIn(R) == {i \in DOMAIN ReadSessionChain(R) : BuildChain(R)[i].type # "system"}

\* What is counted from some number on, counted from 1 on.
LEMMA CountedAnew ==
  ASSUME NEW N \in Nat, NEW I \in SUBSET (1 .. N), NEW from \in 1 .. N
  PROVE  Cardinality({k \in 1 .. N - from + 1 : from + k - 1 \in I}) = Cardinality({j \in I : j >= from})
<1> DEFINE S == {j \in I : j >= from}
           T == {k \in 1 .. N - from + 1 : from + k - 1 \in I}
           f == [j \in S |-> j - from + 1]
<1>1. IsFiniteSet(S)
  BY Counting, FS_Subset
<1>2. /\ \A j \in S : /\ j - from + 1 \in 1 .. N - from + 1
                      /\ from + (j - from + 1) - 1 = j
      /\ \A i, j \in S : i - from + 1 = j - from + 1 => i = j
  OBVIOUS
<1>3. \A k \in 1 .. N - from + 1 : from + k - 1 >= from /\ (from + k - 1) - from + 1 = k
  OBVIOUS
<1>4. f \in [S -> T]
  <2>1. \A j \in S : j - from + 1 \in T
    BY <1>2
  <2> HIDE DEF S, T
  <2> QED
    BY <2>1
<1>5. \A k \in T : \E j \in S : f[j] = k
  <2> SUFFICES ASSUME NEW k \in T PROVE \E j \in S : f[j] = k
    OBVIOUS
  <2>1. from + k - 1 \in S
    BY <1>3
  <2> HIDE DEF S
  <2>2. f[from + k - 1] = k
    BY <1>3, <2>1
  <2> QED
    BY <2>1, <2>2
<1>6. \A i, j \in S : f[i] = f[j] => i = j
  BY <1>2
<1> HIDE DEF S, T, f
<1>7. f \in Bijection(S, T)
  BY <1>4, <1>5, <1>6 DEF Bijection, Injection, Surjection, IsInjective
<1>8. Cardinality(T) = Cardinality(S)
  BY <1>1, <1>7, FS_Bijection DEF ExistsBijection
<1> QED
  BY <1>8 DEF S, T

\* The records a truncation keeps: those of the conversation from some message
\* on, which loses its parent.
KeptFrom(R, c, from) ==
  {i \in DOMAIN R : \E j \in from .. Len(c) : R[i].uuid = c[j]}

CutFrom(R, c, from) ==
  LET file == Picked(R, KeptFrom(R, c, from))
  IN  [k \in DOMAIN file |->
         IF file[k].uuid = c[from] THEN [file[k] EXCEPT !.parent = Root] ELSE file[k]]

LEMMA CutIs ==
  ASSUME NEW R, Tree(R), NEW c, IsChain(R, c), NEW from \in 1 .. Len(c)
  PROVE  LET Q == CutFrom(R, c, from)
             I == KeptFrom(R, c, from)
             n == Cardinality(I)
         IN  /\ Q \in Seq(Records) /\ DOMAIN Q = 1 .. n
             /\ \A k \in 1 .. n :
                  /\ Order(I)[k] \in DOMAIN R /\ Order(I)[k] \in I
                  /\ Q[k].uuid = R[Order(I)[k]].uuid /\ Q[k].type = R[Order(I)[k]].type
                  /\ Q[k].parent = IF Q[k].uuid = c[from] THEN Root ELSE R[Order(I)[k]].parent
             /\ \A i \in I : \E k \in 1 .. n : Order(I)[k] = i
             /\ \A k, l \in 1 .. n : Order(I)[k] = Order(I)[l] => k = l
<1> DEFINE Q == CutFrom(R, c, from)
           I == KeptFrom(R, c, from)
           n == Cardinality(I)
           P == Picked(R, I)
<1>1. R \in Seq(Records) /\ DOMAIN R = 1 .. Len(R) /\ Len(R) \in Nat /\ I \in SUBSET DOMAIN R
  BY DEF Tree, KeptFrom
<1>2. Q = [k \in DOMAIN P |-> IF P[k].uuid = c[from] THEN [P[k] EXCEPT !.parent = Root] ELSE P[k]]
  BY DEF CutFrom
<1> HIDE DEF I, P, Q
<1>3. P = [k \in 1 .. n |-> R[Order(I)[k]]] /\ P \in Seq(Records) /\ DOMAIN P = 1 .. n
  BY <1>1, PickedIs DEF P
<1>4. /\ n \in Nat
      /\ Order(I) \in [1 .. n -> I]
      /\ \A i \in I : \E k \in 1 .. n : Order(I)[k] = i
      /\ \A k, l \in 1 .. n : Order(I)[k] = Order(I)[l] => k = l
  BY <1>1, OrderIs
<1> HIDE DEF n
<1>5. \A r \in Records : /\ [r EXCEPT !.parent = Root] \in Records
                         /\ [r EXCEPT !.parent = Root].parent = Root
                         /\ [r EXCEPT !.parent = Root].uuid = r.uuid
                         /\ [r EXCEPT !.parent = Root].type = r.type
  BY DEF Records
<1>6. ASSUME NEW k \in 1 .. n
      PROVE  /\ Order(I)[k] \in DOMAIN R /\ Order(I)[k] \in I
             /\ Q[k] \in Records
             /\ Q[k].uuid = R[Order(I)[k]].uuid /\ Q[k].type = R[Order(I)[k]].type
             /\ Q[k].parent = IF Q[k].uuid = c[from] THEN Root ELSE R[Order(I)[k]].parent
  <2> DEFINE r == R[Order(I)[k]]
  <2>1. Order(I)[k] \in I /\ Order(I)[k] \in DOMAIN R
    BY <1>1, <1>4
  <2>2. r \in Records
    BY <2>1, RecordTyped
  <2>3. Q[k] = IF r.uuid = c[from] THEN [r EXCEPT !.parent = Root] ELSE r
    BY <1>2, <1>3
  <2> HIDE DEF r
  <2>4. Q[k] \in Records /\ Q[k].uuid = r.uuid /\ Q[k].type = r.type /\ Q[k].parent = IF Q[k].uuid = c[from] THEN Root ELSE r.parent
    BY <1>5, <2>2, <2>3
  <2> QED
    BY <2>1, <2>4 DEF r
<1>7. Q \in Seq(Records) /\ DOMAIN Q = 1 .. n
  <2>1. Q = [k \in 1 .. n |-> Q[k]]
    BY <1>2, <1>3
  <2> QED
    BY <1>4, <1>6, <2>1
<1> QED
  BY <1>4, <1>6, <1>7 DEF Q, I, n

LEMMA CutTree ==
  ASSUME NEW R, Tree(R), NEW c, IsChain(R, c), NEW from \in 1 .. Len(c)
  PROVE  LET Q == CutFrom(R, c, from)
         IN  /\ Tree(Q) /\ UuidsOf(Q) \subseteq UuidsOf(R)
             /\ \A i \in from .. Len(c) : Linked(Q, c[i], IF i = from THEN Root ELSE c[i - 1])
             /\ \A k \in DOMAIN Q : \E i \in from .. Len(c) : Q[k].uuid = c[i]
<1> DEFINE Q == CutFrom(R, c, from)
           I == KeptFrom(R, c, from)
           n == Cardinality(I)
           o == Order(I)
           m == Len(c)
<1>1. /\ Q \in Seq(Records) /\ DOMAIN Q = 1 .. n
      /\ \A k \in 1 .. n :
           /\ o[k] \in DOMAIN R /\ o[k] \in I
           /\ Q[k].uuid = R[o[k]].uuid
           /\ Q[k].parent = IF Q[k].uuid = c[from] THEN Root ELSE R[o[k]].parent
      /\ \A i \in I : \E k \in 1 .. n : o[k] = i
      /\ \A k, l \in 1 .. n : o[k] = o[l] => k = l
  BY CutIs
<1>2. \A i \in DOMAIN R : i \in I <=> \E j \in from .. m : R[i].uuid = c[j]
  BY DEF KeptFrom
<1>3. /\ m \in Nat /\ \A i \in 1 .. m : c[i] \in UuidsOf(R) /\ Linked(R, c[i], Before(c, i))
      /\ \A i, j \in 1 .. m : c[i] = c[j] => i = j
      /\ from \in 1 .. m
  BY ChainTyped, ChainShape DEF IsChain
<1> HIDE DEF Q, I, n, o, m
<1>4. \A i \in from .. m : i \in 1 .. m /\ (i # from => i # 1 /\ i - 1 \in from .. m)
  BY <1>3
<1>5. \A k \in 1 .. n : \E i \in from .. m : Q[k].uuid = c[i]
  BY <1>1, <1>2
\* What the parents are.
<1>6. ASSUME NEW k \in 1 .. n, NEW i \in from .. m, Q[k].uuid = c[i]
      PROVE  /\ Q[k].parent = IF i = from THEN Root ELSE c[i - 1]
             /\ i # from => R[o[k]].parent = c[i - 1]
  <2>1. CASE i = from
    BY <1>1, <1>6, <2>1
  <2>2. CASE i # from
    <3>1. Q[k].uuid # c[from]
      BY <1>3, <1>4, <1>6, <2>2
    <3>2. Linked(R, c[i], Before(c, i)) /\ Before(c, i) = c[i - 1]
      BY <1>3, <1>4, <2>2 DEF Before
    <3>3. Linked(R, c[i], R[o[k]].parent)
      BY <1>1, <1>6 DEF Linked
    <3>4. R[o[k]].parent = c[i - 1]
      BY <3>2, <3>3, OneLink
    <3> QED
      BY <1>1, <2>2, <3>1, <3>4
  <2> QED
    BY <2>1, <2>2
<1>7. ASSUME NEW i \in from .. m PROVE \E k \in 1 .. n : Q[k].uuid = c[i]
  <2>1. PICK j \in DOMAIN R : R[j].uuid = c[i]
    BY <1>3, <1>4 DEF UuidsOf
  <2>2. PICK k \in 1 .. n : o[k] = j
    BY <1>1, <1>2, <2>1
  <2> QED
    BY <1>1, <2>1, <2>2
<1>8. \A i \in from .. m : Linked(Q, c[i], IF i = from THEN Root ELSE c[i - 1])
  BY <1>1, <1>6, <1>7 DEF Linked
<1>9. UuidsOf(Q) \subseteq UuidsOf(R)
  BY <1>1 DEF UuidsOf
<1>10. \A k, l \in DOMAIN Q : Q[k].uuid = Q[l].uuid => k = l
  BY <1>1 DEF Tree
<1>11. \A k \in DOMAIN Q : Q[k].parent \in UuidsOf(Q) \cup {Root}
  <2> SUFFICES ASSUME NEW k \in 1 .. n, Q[k].parent # Root PROVE Q[k].parent \in UuidsOf(Q)
    BY <1>1
  <2>1. PICK i \in from .. m : Q[k].uuid = c[i]
    BY <1>5
  <2>2. i # from /\ Q[k].parent = c[i - 1] /\ i - 1 \in from .. m
    BY <1>4, <1>6, <2>1
  <2>3. PICK l \in 1 .. n : Q[l].uuid = c[i - 1]
    BY <1>7, <2>2
  <2> QED
    BY SMTT(30), <1>1, <2>2, <2>3 DEF UuidsOf
<1>12. \E rank : Ranks(Q, rank)
  <2>1. PICK rank : Ranks(R, rank)
    BY DEF Tree
  <2>2. \A k \in DOMAIN Q : Q[k].parent # Root => rank[Q[k].parent] < rank[Q[k].uuid]
    <3> SUFFICES ASSUME NEW k \in 1 .. n, Q[k].parent # Root
                 PROVE  rank[Q[k].parent] < rank[Q[k].uuid]
      BY <1>1
    <3>1. Q[k].parent = R[o[k]].parent /\ Q[k].uuid = R[o[k]].uuid /\ o[k] \in DOMAIN R
      BY <1>1
    <3> QED
      BY <2>1, <3>1 DEF Ranks
  <2> QED
    BY <2>1, <2>2 DEF Ranks
<1> QED
  BY <1>1, <1>5, <1>8, <1>9, <1>10, <1>11, <1>12 DEF Tree, Q, m

LEMMA CutChain ==
  ASSUME NEW R, Tree(R), NEW c, IsChain(R, c), NEW from \in 1 .. Len(c)
  PROVE  ReadSessionChain(CutFrom(R, c, from)) = SubSeq(c, from, Len(c))
<1> DEFINE Q == CutFrom(R, c, from)
           m == Len(c)
           e == SubSeq(c, from, m)
<1>1. /\ Tree(Q)
      /\ \A i \in from .. m : Linked(Q, c[i], IF i = from THEN Root ELSE c[i - 1])
      /\ \A k \in DOMAIN Q : \E i \in from .. m : Q[k].uuid = c[i]
  BY CutTree
<1>2. /\ m \in Nat /\ from \in 1 .. m /\ \A i \in 1 .. m : c[i] \in Uuids
  BY ChainTyped
<1>3. /\ e \in Seq(Uuids) /\ Len(e) = m - from + 1 /\ DOMAIN e = 1 .. m - from + 1
      /\ \A i \in 1 .. m - from + 1 : e[i] = c[from + i - 1]
  <2>1. from \in Int /\ m \in Int /\ from <= m /\ \A i \in from .. m : c[i] \in Uuids
    BY <1>2
  <2>2. /\ e \in Seq(Uuids) /\ Len(e) = m - from + 1
        /\ \A i \in 1 .. m - from + 1 : e[i] = c[from + i - 1]
    <3> HIDE DEF m
    <3> QED
      BY <2>1, SubSeqProperties
  <2>3. DOMAIN e = 1 .. Len(e)
    BY <2>2
  <2> QED
    BY <2>2, <2>3
<1> HIDE DEF Q, e, m
<1>4. ASSUME NEW i \in DOMAIN e PROVE Linked(Q, e[i], Before(e, i))
  <2>1. i \in 1 .. m - from + 1 /\ from + i - 1 \in from .. m /\ (from + i - 1 = from <=> i = 1)
    BY <1>2, <1>3
  <2>2. e[i] = c[from + i - 1]
    BY <1>3, <2>1
  <2>3. CASE i = 1
    BY <1>1, <2>1, <2>2, <2>3 DEF Before
  <2>4. CASE i # 1
    <3>1. i - 1 \in 1 .. m - from + 1 /\ from + (i - 1) - 1 = (from + i - 1) - 1
      BY <1>2, <2>1, <2>4
    <3>2. e[i - 1] = c[(from + i - 1) - 1]
      BY <1>3, <3>1
    <3> QED
      BY <1>1, <2>1, <2>2, <2>4, <3>2 DEF Before
  <2> QED
    BY <2>3, <2>4
<1>5. \A k \in DOMAIN Q : \E i \in DOMAIN e : Q[k].uuid = e[i]
  <2> SUFFICES ASSUME NEW k \in DOMAIN Q PROVE \E i \in DOMAIN e : Q[k].uuid = e[i]
    OBVIOUS
  <2>1. PICK j \in from .. m : Q[k].uuid = c[j]
    BY <1>1
  <2>2. j - from + 1 \in 1 .. m - from + 1 /\ from + (j - from + 1) - 1 = j
    BY <1>2
  <2> QED
    BY <1>3, <2>1, <2>2
<1>6. Q # <<>>
  <2>1. from \in from .. m
    BY <1>2
  <2> QED
    BY <1>1, <2>1 DEF Linked
<1>7. IsChain(Q, e)
  BY <1>1, <1>3, <1>4, <1>5, <1>6, OnlyChain
<1> QED
  BY <1>1, <1>7, ChainIs DEF Q, e, m

\* The messages that remain are of users and assistants if they were before.
LEMMA CutSpoken ==
  ASSUME NEW R, Tree(R), NEW from \in 1 .. Len(ReadSessionChain(R))
  PROVE  SpokenIn(CutFrom(R, ReadSessionChain(R), from)) =
           {k \in 1 .. Len(ReadSessionChain(R)) - from + 1 : from + k - 1 \in SpokenIn(R)}
<1> DEFINE c == ReadSessionChain(R)
           b == BuildChain(R)
           m == Len(c)
           Q == CutFrom(R, c, from)
           I == KeptFrom(R, c, from)
           d == ReadSessionChain(Q)
           e == BuildChain(Q)
<1>1. /\ IsChain(R, c) /\ DOMAIN b = DOMAIN c
      /\ \A i \in DOMAIN b : c[i] = b[i].uuid /\ \E j \in DOMAIN R : b[i] = R[j]
  BY BuildChainIs
<1>2. Tree(Q) /\ d = SubSeq(c, from, m)
  BY <1>1, CutTree, CutChain
<1>3. /\ DOMAIN e = DOMAIN d
      /\ \A i \in DOMAIN e : d[i] = e[i].uuid /\ \E j \in DOMAIN Q : e[i] = Q[j]
  BY <1>2, BuildChainIs
<1>4. \A k \in DOMAIN Q : \E j \in DOMAIN R : Q[k].uuid = R[j].uuid /\ Q[k].type = R[j].type
  <2>1. DOMAIN Q = 1 .. Cardinality(I)
        /\ \A k \in 1 .. Cardinality(I) : /\ Order(I)[k] \in DOMAIN R
                                         /\ Q[k].uuid = R[Order(I)[k]].uuid
                                         /\ Q[k].type = R[Order(I)[k]].type
    <3> HIDE DEF c
    <3> QED
      BY <1>1, CutIs DEF c
  <2> HIDE DEF Q
  <2> QED
    BY <2>1
<1> HIDE DEF b, c, d, e, Q
<1>5. c \in Seq(Uuids) /\ m \in Nat /\ DOMAIN c = 1 .. m /\ from \in 1 .. m
  BY <1>1, ChainTyped DEF c
<1> HIDE DEF m
<1>6. /\ DOMAIN d = 1 .. m - from + 1
      /\ \A k \in 1 .. m - from + 1 : d[k] = c[from + k - 1] /\ from + k - 1 \in 1 .. m
  <2>1. from \in Int /\ m \in Int /\ from <= m /\ \A i \in from .. m : c[i] \in Uuids
    BY <1>5
  <2>2. d \in Seq(Uuids) /\ Len(d) = m - from + 1 /\ \A k \in 1 .. m - from + 1 : d[k] = c[from + k - 1]
    BY <1>2, <2>1, SubSeqProperties
  <2>3. \A k \in 1 .. m - from + 1 : from + k - 1 \in 1 .. m
    BY <1>5
  <2> QED
    BY <2>2, <2>3
<1>7. ASSUME NEW k \in 1 .. m - from + 1
      PROVE  e[k].type = b[from + k - 1].type
  <2>1. PICK l \in DOMAIN Q : e[k] = Q[l]
    BY <1>3, <1>6
  <2>2. PICK i \in DOMAIN R : Q[l].uuid = R[i].uuid /\ Q[l].type = R[i].type
    BY <1>4
  <2>3. PICK j \in DOMAIN R : b[from + k - 1] = R[j]
    BY <1>1, <1>5, <1>6
  <2>4. R[i].uuid = R[j].uuid
    BY <1>1, <1>3, <1>5, <1>6, <2>1, <2>2, <2>3
  <2>5. i = j
    BY <2>4 DEF Tree
  <2> QED
    BY <2>1, <2>2, <2>3, <2>5
<1>8. /\ SpokenIn(Q) = {k \in DOMAIN d : e[k].type # "system"}
      /\ SpokenIn(R) = {i \in DOMAIN c : b[i].type # "system"}
  BY DEF SpokenIn, d, e, c, b
<1>9. SpokenIn(Q) = {k \in 1 .. m - from + 1 : from + k - 1 \in SpokenIn(R)}
  BY <1>5, <1>6, <1>7, <1>8
<1> QED
  BY <1>9 DEF Q, m, c

LEMMA SuffixIs ==
  ASSUME NEW T, NEW s \in Seq(T), NEW from \in 1 .. Len(s)
  PROVE  IsSuffix(SubSeq(s, from, Len(s)), s) /\ Len(SubSeq(s, from, Len(s))) = Len(s) - from + 1
<1> DEFINE m == Len(s)
           e == SubSeq(s, from, m)
           n == m - from + 1
           re == Reverse(e)
           rs == Reverse(s)
<1>1. m \in Nat /\ from \in 1 .. m /\ n \in 1 .. m /\ \A i \in 1 .. m : s[i] \in T
  BY DEF m
<1>2. e \in Seq(T) /\ Len(e) = n /\ \A i \in 1 .. n : e[i] = s[from + i - 1]
  <2>1. from \in Int /\ m \in Int /\ from <= m /\ \A i \in from .. m : s[i] \in T
    BY <1>1
  <2> HIDE DEF m
  <2> QED
    BY <2>1, SubSeqProperties
<1> HIDE DEF e
<1>3. /\ rs = [i \in 1 .. m |-> s[(m - i) + 1]]
      /\ re = [i \in 1 .. n |-> e[(n - i) + 1]]
  BY <1>2 DEF Reverse
<1> HIDE DEF m, n, rs, re
<1>4. /\ \A i \in 1 .. n : /\ i \in 1 .. m /\ (n - i) + 1 \in 1 .. n
                           /\ from + ((n - i) + 1) - 1 = (m - i) + 1
                           /\ (m - i) + 1 \in 1 .. m
  BY <1>1 DEF n
<1>5. \A i \in 1 .. n : re[i] = rs[i] /\ re[i] \in T
  BY <1>1, <1>2, <1>3, <1>4
<1>6. Len(re) = n /\ Len(rs) = m
  <2>1. DOMAIN re = 1 .. n /\ DOMAIN rs = 1 .. m /\ n \in Nat /\ re \in Seq(T) /\ rs \in Seq(T)
    <3>1. \A i \in 1 .. m : (m - i) + 1 \in 1 .. m
      BY <1>1
    <3>2. \A i \in 1 .. m : rs[i] \in T
      BY <1>1, <1>3, <3>1
    <3>3. n \in Nat
      BY <1>1
    <3>4. rs = [i \in 1 .. m |-> rs[i]] /\ re = [i \in 1 .. n |-> re[i]]
      BY <1>3
    <3>5. \A f, k : k \in Nat /\ f = [i \in 1 .. k |-> f[i]] /\ (\A i \in 1 .. k : f[i] \in T)
                     => f \in Seq(T) /\ DOMAIN f = 1 .. k
      OBVIOUS
    <3>6. rs \in Seq(T) /\ DOMAIN rs = 1 .. m
      BY <1>1, <3>2, <3>4, <3>5
    <3>7. re \in Seq(T) /\ DOMAIN re = 1 .. n
      BY <1>5, <3>3, <3>4, <3>5
    <3> QED
      BY <3>3, <3>6, <3>7
  <2> QED
    BY <1>1, <2>1
<1>7. SubSeq(re, 1, n) = SubSeq(rs, 1, n)
  BY <1>1, <1>5
<1>8. IsPrefix(re, rs)
  BY <1>1, <1>6, <1>7 DEF IsPrefix
<1> QED
  BY <1>2, <1>8 DEF IsSuffix, re, rs, m, n, e

\* A truncation keeps the records or cuts the conversation to a suffix of it that
\* begins with a message of a user or an assistant and has as many as asked for.
LEMMA TruncateIs ==
  ASSUME NEW R, Tree(R), NEW n \in Nat \ {0}
  PROVE  LET Q == TruncateToLastN(R, n)
             c == ReadSessionChain(R)
         IN  /\ Tree(Q) /\ UuidsOf(Q) \subseteq UuidsOf(R)
             /\ Q # R => /\ IsSuffix(ReadSessionChain(Q), c)
                         /\ 1 \in SpokenIn(Q) /\ Cardinality(SpokenIn(Q)) = 2 * n
<1> DEFINE Q == TruncateToLastN(R, n)
           b == BuildChain(R)
           c == ReadSessionChain(R)
           spoken == {i \in DOMAIN b : b[i].type # "system"}
           w == 2 * n
           from == CHOOSE i \in spoken : Cardinality({j \in spoken : j >= i}) = w
           m == Len(c)
<1>1. /\ IsChain(R, c) /\ b \in Seq(Records) /\ DOMAIN b = DOMAIN c /\ Len(b) = m
      /\ \A i \in DOMAIN b : c[i] = b[i].uuid
  BY BuildChainIs
<1> HIDE DEF b, c
<1>2. c \in Seq(Uuids) /\ m \in Nat /\ DOMAIN c = 1 .. m
  BY <1>1, ChainTyped
<1>3. w \in Nat /\ 0 < w
  OBVIOUS
<1>4. spoken \in SUBSET (1 .. m)
  BY <1>1, <1>2
<1> HIDE DEF m
<1>5. Cardinality(spoken) \in Nat
  BY <1>2, <1>4, Counting
<1> HIDE DEF w, spoken
<1>6. CASE Cardinality(spoken) <= w
  <2>1. Q = R
    BY <1>6 DEF TruncateToLastN, b, spoken, w
  <2> QED
    BY <2>1
<1>7. CASE ~(Cardinality(spoken) <= w)
  <2>1. from \in spoken /\ Cardinality({j \in spoken : j >= from}) = w
    <3>1. w <= Cardinality(spoken)
      BY <1>3, <1>5, <1>7
    <3>2. \A I \in SUBSET (1 .. m) :
            w <= Cardinality(I) => \E i \in I : Cardinality({j \in I : j >= i}) = w
      BY ZenonT(30), <1>2, <1>3, CountedFromEnd
    <3>3. \E i \in spoken : Cardinality({j \in spoken : j >= i}) = w
      BY <1>4, <3>1, <3>2
    <3> QED
      BY <3>3
  <2> DEFINE kept == UuidsOf(SubSeq(b, from, Len(b)))
             file == Picked(R, {i \in DOMAIN R : R[i].uuid \in kept})
  <2>2. Q = [i \in DOMAIN file |->
               IF file[i].uuid = b[from].uuid THEN [file[i] EXCEPT !.parent = Root] ELSE file[i]]
    BY <1>7, Zenon DEF TruncateToLastN, b, spoken, w
  <2> HIDE DEF from
  <2>3. from \in 1 .. m /\ b[from].uuid = c[from] /\ from \in 1 .. Len(c)
    BY <1>1, <1>2, <1>4, <2>1 DEF m
  <2>4. \A x : x \in kept <=> \E j \in from .. m : x = c[j]
    <3> DEFINE s == SubSeq(b, from, Len(b))
    <3>1. s \in Seq(Records) /\ Len(s) = m - from + 1 /\ \A i \in 1 .. m - from + 1 : s[i] = b[from + i - 1]
      <4>1. from \in Int /\ m \in Int /\ from <= m /\ \A i \in from .. m : b[i] \in Records
        BY <1>1, <1>2, <2>3
      <4> QED
        BY <1>1, <4>1, SubSeqProperties
    <3>2. DOMAIN s = 1 .. m - from + 1
      BY <3>1
    <3> HIDE DEF s
    <3>3. ASSUME NEW i \in 1 .. m - from + 1
          PROVE  from + i - 1 \in from .. m /\ s[i].uuid = c[from + i - 1]
      <4>1. from + i - 1 \in from .. m /\ from + i - 1 \in 1 .. m
        BY <1>2, <2>3
      <4> QED
        BY <1>1, <1>2, <3>1, <4>1
    <3>4. ASSUME NEW j \in from .. m PROVE \E i \in 1 .. m - from + 1 : s[i].uuid = c[j]
      <4>1. j - from + 1 \in 1 .. m - from + 1 /\ from + (j - from + 1) - 1 = j
        BY <1>2, <2>3
      <4> QED
        BY <3>3, <4>1
    <3>5. kept = {s[i].uuid : i \in 1 .. m - from + 1}
      BY <3>2, Zenon DEF UuidsOf, s
    <3> HIDE DEF kept
    <3> QED
      BY <3>3, <3>4, <3>5
  <2> HIDE DEF kept
  <2>5. {i \in DOMAIN R : R[i].uuid \in kept} = KeptFrom(R, c, from)
    BY <2>4 DEF KeptFrom, m
  <2>6. Q = CutFrom(R, c, from)
    BY <2>2, <2>3, <2>5 DEF CutFrom
  <2>7. Tree(Q) /\ UuidsOf(Q) \subseteq UuidsOf(R) /\ ReadSessionChain(Q) = SubSeq(c, from, m)
    BY <1>1, <2>3, <2>6, CutTree, CutChain DEF m
  <2>8. IsSuffix(SubSeq(c, from, m), c) /\ Len(SubSeq(c, from, m)) = m - from + 1
    BY <1>2, <2>3, SuffixIs DEF m
  <2>9. spoken = SpokenIn(R)
    BY <1>1 DEF SpokenIn, spoken, b, c
  <2>10. SpokenIn(Q) = {k \in 1 .. m - from + 1 : from + k - 1 \in spoken}
    BY <2>3, <2>6, <2>9, CutSpoken DEF c, m
  <2>11. 1 \in SpokenIn(Q)
    <3>1. 1 \in 1 .. m - from + 1 /\ from + 1 - 1 = from
      BY <1>2, <2>3
    <3> QED
      BY <2>1, <2>10, <3>1
  <2>12. Cardinality(SpokenIn(Q)) = w
    <3>1. Cardinality({k \in 1 .. m - from + 1 : from + k - 1 \in spoken}) = w
      BY <1>2, <1>4, <2>1, <2>3, CountedAnew
    <3> QED
      BY <2>10, <3>1
  <2> QED
    BY <2>7, <2>8, <2>11, <2>12 DEF c, w
<1> QED
  BY <1>6, <1>7
=============================================================================
