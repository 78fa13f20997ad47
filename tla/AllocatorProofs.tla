--------------------------- MODULE AllocatorProofs ---------------------------
(***************************************************************************)
(* Lemmas about sorting and filtering (Ranked, Arranged, Kept), and what   *)
(* ledger.Allocate promises for every total and list of shares.            *)
(***************************************************************************)
EXTENDS Allocator, MoneyProofs

-----------------------------------------------------------------------------
(* Orders.                                                                   *)

\* A strict total order of a finite set: each element with those before it.
IsOrder(before) ==
  /\ IsFiniteSet(DOMAIN before)
  /\ \A x \in DOMAIN before : before[x] \subseteq DOMAIN before \ {x}
  /\ \A x, y \in DOMAIN before : y \in before[x] => before[y] \subseteq before[x]
  /\ \A x, y \in DOMAIN before : x = y \/ x \in before[y] \/ y \in before[x]

Place(before, x) == Cardinality(before[x])

\* Places are counted from nothing, and grow along the order.
LEMMA PlacesGrow ==
  ASSUME NEW before, IsOrder(before)
  PROVE  /\ Cardinality(DOMAIN before) \in Nat
         /\ \A x \in DOMAIN before : Place(before, x) \in 0..(Cardinality(DOMAIN before) - 1)
         /\ \A x, y \in DOMAIN before : y \in before[x] <=> Place(before, y) < Place(before, x)
         /\ \A x, y \in DOMAIN before : Place(before, y) = Place(before, x) => y = x
<1> DEFINE D == DOMAIN before
<1>1. IsFiniteSet(D) /\ Cardinality(D) \in Nat
  BY FS_CardinalityType DEF IsOrder
<1>2. \A x \in D : IsFiniteSet(before[x]) /\ Place(before, x) \in 0..(Cardinality(D) - 1)
  <2> TAKE x \in D
  <2>1. before[x] \subseteq D \ {x}
    BY DEF IsOrder
  <2>2. IsFiniteSet(D \ {x}) /\ Cardinality(D \ {x}) = Cardinality(D) - 1
    BY <1>1, FS_RemoveElement
  <2>3. IsFiniteSet(before[x]) /\ Cardinality(before[x]) <= Cardinality(D \ {x})
    BY <2>1, <2>2, FS_Subset
  <2>4. Cardinality(before[x]) \in Nat
    BY <2>3, FS_CardinalityType
  <2>5. QED BY <1>1, <2>2, <2>3, <2>4 DEF Place
<1>3. ASSUME NEW x \in D, NEW y \in D, y \in before[x]
      PROVE  Place(before, y) < Place(before, x)
  <2>1. y \notin before[y] /\ before[y] \cup {y} \subseteq before[x]
    BY <1>3 DEF IsOrder
  <2>2. IsFiniteSet(before[y]) /\ IsFiniteSet(before[x])
    BY <1>2
  <2>3. Cardinality(before[y] \cup {y}) = Cardinality(before[y]) + 1
    BY <2>1, <2>2, FS_AddElement
  <2>4. Cardinality(before[y] \cup {y}) <= Cardinality(before[x])
    BY <2>1, <2>2, FS_Subset
  <2>5. Cardinality(before[y]) \in Nat /\ Cardinality(before[x]) \in Nat
    BY <2>2, FS_CardinalityType
  <2>6. QED BY <2>3, <2>4, <2>5 DEF Place
<1>4. \A x \in D : Place(before, x) \in Int
  BY <1>2
<1>5. \A x, y \in D : x = y \/ x \in before[y] \/ y \in before[x]
  BY DEF IsOrder
<1> HIDE DEF D
<1>6. \A x, y \in D : y \in before[x] <=> Place(before, y) < Place(before, x)
  BY <1>3, <1>4, <1>5
<1>7. \A x, y \in D : Place(before, y) = Place(before, x) => y = x
  BY <1>3, <1>4, <1>5
<1>8. QED BY <1>1, <1>2, <1>6, <1>7 DEF D

\* Each place is taken.
LEMMA PlaceTaken ==
  ASSUME NEW before, IsOrder(before), NEW k \in 1..Cardinality(DOMAIN before)
  PROVE  \E x \in DOMAIN before : Place(before, x) = k - 1
<1> DEFINE D == DOMAIN before
           n == Cardinality(D)
           T == (0..(n - 1)) \ {k - 1}
           f == [x \in D |-> Place(before, x)]
<1>1. IsFiniteSet(D) /\ n \in Nat /\ \A x \in D : Place(before, x) \in 0..(n - 1)
  BY PlacesGrow DEF IsOrder
<1>2. \A x, y \in D : Place(before, y) = Place(before, x) => y = x
  BY PlacesGrow
<1>3. IsFiniteSet(T) /\ Cardinality(T) = n - 1
  <2>1. IsFiniteSet(0..(n - 1)) /\ Cardinality(0..(n - 1)) = n
    <3> HIDE DEF D, n
    <3>1. PICK m \in Int : m = n - 1 /\ m >= 0
      BY <1>1 DEF n, D
    <3>2. IsFiniteSet(0..m) /\ Cardinality(0..m) = m + 1
      BY <3>1, FS_Interval
    <3>3. QED BY <1>1, <3>1, <3>2
  <2>2. k - 1 \in 0..(n - 1)
    BY <1>1
  <2> HIDE DEF D, n
  <2>3. QED BY <2>1, <2>2, FS_RemoveElement
<1>4. SUFFICES ASSUME \A x \in D : Place(before, x) # k - 1 PROVE FALSE
  OBVIOUS
<1>5. f \in [D -> T]
  BY <1>1, <1>4
<1>6. Cardinality(T) < Cardinality(D)
  BY <1>1, <1>3
<1>7. \A x, y \in D : f[x] = f[y] => x = y
  BY <1>2
<1> HIDE DEF D, T, f
<1>8. \E x, y \in D : x # y /\ f[x] = f[y]
  BY <1>1, <1>3, <1>5, <1>6, FS_PigeonHole
<1>9. QED BY <1>7, <1>8

\* Ranked lists every element once, along the order.
LEMMA RankedLists ==
  ASSUME NEW before, IsOrder(before)
  PROVE  /\ Ranked(before) \in Seq(DOMAIN before)
         /\ Len(Ranked(before)) = Cardinality(DOMAIN before) /\ Cardinality(DOMAIN before) \in Nat
         /\ DOMAIN Ranked(before) = 1..Cardinality(DOMAIN before)
         /\ \A k \in 1..Cardinality(DOMAIN before) :
              Ranked(before)[k] \in DOMAIN before /\ Place(before, Ranked(before)[k]) = k - 1
         /\ \A x \in DOMAIN before :
              Place(before, x) + 1 \in 1..Cardinality(DOMAIN before) /\ Ranked(before)[Place(before, x) + 1] = x
         /\ \A j, k \in 1..Cardinality(DOMAIN before) : Ranked(before)[j] = Ranked(before)[k] => j = k
         /\ \A j, k \in 1..Cardinality(DOMAIN before) : j < k <=> Ranked(before)[j] \in before[Ranked(before)[k]]
<1> DEFINE D == DOMAIN before
           n == Cardinality(D)
           at == Ranked(before)
<1>1. /\ n \in Nat /\ \A x \in D : Place(before, x) \in 0..(n - 1)
      /\ \A x, y \in D : y \in before[x] <=> Place(before, y) < Place(before, x)
      /\ \A x, y \in D : Place(before, y) = Place(before, x) => y = x
  BY PlacesGrow
<1>2. at = [k \in 1..n |-> CHOOSE x \in D : Place(before, x) = k - 1]
  BY DEF Ranked, Place
<1>3. \A k \in 1..n : \E x \in D : Place(before, x) = k - 1
  BY PlaceTaken
<1> HIDE DEF D, n, at
<1>4. \A k \in 1..n : at[k] \in D /\ Place(before, at[k]) = k - 1
  <2> TAKE k \in 1..n
  <2>1. at[k] = CHOOSE x \in D : Place(before, x) = k - 1
    BY <1>2
  <2>2. QED BY <1>3, <2>1
<1>5. \A x \in D : Place(before, x) + 1 \in 1..n /\ at[Place(before, x) + 1] = x
  <2> TAKE x \in D
  <2> DEFINE k == Place(before, x) + 1
  <2>1. k \in 1..n /\ k - 1 = Place(before, x)
    BY <1>1
  <2> HIDE DEF k
  <2>2. at[k] \in D /\ Place(before, at[k]) = Place(before, x)
    BY <1>4, <2>1
  <2>3. QED BY <1>1, <2>1, <2>2 DEF k
<1>6. \A j, k \in 1..n : at[j] = at[k] => j = k
  <2> SUFFICES ASSUME NEW j \in 1..n, NEW k \in 1..n, at[j] = at[k] PROVE j = k
    OBVIOUS
  <2>1. j - 1 = k - 1
    BY <1>4
  <2>2. QED BY <1>1, <2>1
<1>7. \A j, k \in 1..n : j < k <=> at[j] \in before[at[k]]
  <2> TAKE j, k \in 1..n
  <2>1. at[j] \in before[at[k]] <=> j - 1 < k - 1
    BY <1>1, <1>4
  <2>2. QED BY <1>1, <2>1
<1>8. at \in Seq(D) /\ Len(at) = n /\ DOMAIN at = 1..n
  <2>1. at \in [1..n -> D]
    <3>1. at = [k \in 1..n |-> at[k]]
      BY <1>2
    <3>2. QED BY <1>4, <3>1
  <2>2. QED BY <1>1, <2>1
<1>9. QED BY <1>1, <1>4, <1>5, <1>6, <1>7, <1>8 DEF D, n, at

-----------------------------------------------------------------------------
(* Sums of what is sorted or filtered.                                       *)

\* x has the elements of y in another order, the k-th from r[k], and leaves out zeros only: the sums
\* are equal.
Picks(x, y, r) ==
  /\ \A k \in 1..Len(x) : r[k] \in 1..Len(y) /\ x[k] = y[r[k]]
  /\ \A j, k \in 1..Len(x) : r[j] = r[k] => j = k
  /\ \A i \in 1..Len(y) : (\A k \in 1..Len(x) : r[k] # i) => y[i] = 0
LEMMA TotalPicked ==
  ASSUME NEW x \in Seq(Int), NEW y \in Seq(Int), NEW r, Picks(x, y, r)
  PROVE  Total(x) = Total(y)
<1> DEFINE m == Len(x)
           n == Len(y)
<1>1. m \in Nat /\ n \in Nat
  BY LenProperties
<1>2. m <= n
  <2> DEFINE f == [k \in 1..m |-> r[k]]
  <2>1. IsFiniteSet(1..m) /\ Cardinality(1..m) = m /\ IsFiniteSet(1..n) /\ Cardinality(1..n) = n
    <3> HIDE DEF m, n
    <3>1. \A k \in Nat : IsFiniteSet(1..k) /\ Cardinality(1..k) = k
      BY FS_Interval
    <3>2. QED BY <1>1, <3>1
  <2>2. f \in [1..m -> 1..n]
    BY DEF Picks
  <2>a. \A j, k \in 1..m : f[j] = f[k] => j = k
    BY DEF Picks
  <2> HIDE DEF f, m, n
  <2> SUFFICES ASSUME n < m PROVE FALSE
    BY <1>1
  <2>3. Cardinality(1..n) < Cardinality(1..m)
    BY <2>1
  <2>4. \E j, k \in 1..m : j # k /\ f[j] = f[k]
    BY <2>1, <2>2, <2>3, FS_PigeonHole
  <2>5. QED BY <2>a, <2>4
<1> DEFINE z == [k \in 1..(n - m) |-> 0]
           t == x \o z
           g == [k \in 1..n |-> IF k <= m THEN r[k] ELSE 0]
<1>3. z \in Seq(Int) /\ Len(z) = n - m /\ Total(z) = 0
  <2>1. z \in Seq(Int) /\ Len(z) = n - m /\ \A i \in 1..Len(z) : z[i] = 0
    BY <1>1, <1>2
  <2> HIDE DEF z
  <2>2. QED BY <2>1, TotalZero
<1>4. t \in Seq(Int) /\ Len(t) = n /\ \A k \in 1..n : t[k] = IF k <= m THEN x[k] ELSE 0
  BY <1>1, <1>2
<1>5. Total(t) = Total(x)
  <2> HIDE DEF z
  <2>1. Total(t) = Total(x) + Total(z) /\ Total(x) \in Int
    BY <1>3, TotalConcat, TotalType
  <2>2. QED BY <1>3, <2>1
<1> HIDE DEF t
<1>6. \A k \in 1..n : IF g[k] \in 1..Len(y) THEN y[g[k]] = t[k] ELSE t[k] = 0
  BY <1>1, <1>2, <1>4 DEF Picks
<1>7. \A j, k \in 1..n : g[j] \in 1..Len(y) /\ g[j] = g[k] => j = k
  BY <1>1, <1>2 DEF Picks
<1>8. \A i \in 1..Len(y) : (\A k \in 1..n : g[k] # i) => y[i] = 0
  <2> SUFFICES ASSUME NEW i \in 1..Len(y), \A k \in 1..n : g[k] # i PROVE y[i] = 0
    OBVIOUS
  <2>1. \A k \in 1..m : r[k] # i
    BY <1>1, <1>2
  <2>2. QED BY <2>1 DEF Picks
<1> HIDE DEF g
<1>9. Total(y) = Total(t)
  <2>1. \A k \in 1..Len(t) : IF g[k] \in 1..Len(y) THEN y[g[k]] = t[k] ELSE t[k] = 0
    BY <1>4, <1>6
  <2>2. \A j, k \in 1..Len(t) : g[j] \in 1..Len(y) /\ g[j] = g[k] => j = k
    BY <1>4, <1>7
  <2>3. \A i \in 1..Len(y) : (\A k \in 1..Len(t) : g[k] # i) => y[i] = 0
    BY <1>4, <1>8
  <2>4. t \in Seq(Int) /\ Len(y) = Len(t)
    BY <1>4
  <2> HIDE DEF n
  <2>5. QED BY <2>1, <2>2, <2>3, <2>4, TotalMatched
<1>10. QED BY <1>5, <1>9

\* Numbers are ordered.
LEMMA NumbersAreOrdered ==
  ASSUME NEW S \in SUBSET Int, IsFiniteSet(S)
  PROVE  IsOrder([a \in S |-> {b \in S : b < a}])
<1> DEFINE o == [a \in S |-> {b \in S : b < a}]
<1>1. DOMAIN o = S /\ \A a, b \in S : b \in o[a] <=> b < a
  OBVIOUS
<1>2. \A a \in S : o[a] \subseteq S
  OBVIOUS
<1> HIDE DEF o
<1>3. \A x \in S : o[x] \subseteq S \ {x}
  BY <1>1, <1>2
<1>4. ASSUME NEW x \in S, NEW y \in S, y \in o[x] PROVE o[y] \subseteq o[x]
  <2> SUFFICES ASSUME NEW z \in o[y] PROVE z \in o[x]
    OBVIOUS
  <2>1. z \in S /\ z < y /\ y < x
    BY <1>1, <1>2, <1>4
  <2>2. x \in Int /\ y \in Int /\ z \in Int
    BY <2>1
  <2>3. z < x
    BY <2>1, <2>2
  <2>4. QED BY <1>1, <2>1, <2>3
<1>5. ASSUME NEW x \in S, NEW y \in S PROVE x = y \/ x \in o[y] \/ y \in o[x]
  <2>1. x \in Int /\ y \in Int
    OBVIOUS
  <2>2. x = y \/ x < y \/ y < x
    BY <2>1
  <2>3. QED BY <1>1, <2>2
<1>6. QED BY <1>1, <1>3, <1>4, <1>5 DEF IsOrder, o

\* InOrder lists every number of a finite set once, from the least up.
LEMMA OrderLists ==
  ASSUME NEW S \in SUBSET Int, IsFiniteSet(S)
  PROVE  /\ InOrder(S) \in Seq(S) /\ Len(InOrder(S)) = Cardinality(S)
         /\ DOMAIN InOrder(S) = 1..Cardinality(S) /\ Cardinality(S) \in Nat
         /\ \A k \in 1..Cardinality(S) : InOrder(S)[k] \in S
         /\ \A j, k \in 1..Cardinality(S) : InOrder(S)[j] = InOrder(S)[k] => j = k
         /\ \A j, k \in 1..Cardinality(S) : j < k <=> InOrder(S)[j] < InOrder(S)[k]
         /\ \A a \in S : \E k \in 1..Cardinality(S) : InOrder(S)[k] = a
<1> DEFINE o == [a \in S |-> {b \in S : b < a}]
           at == InOrder(S)
<1>1. IsOrder(o) /\ DOMAIN o = S /\ \A a, b \in S : b \in o[a] <=> b < a
  BY NumbersAreOrdered
<1>2. at = Ranked(o)
  BY DEF InOrder
<1> HIDE DEF o, at
<1>3. /\ Ranked(o) \in Seq(S) /\ Len(Ranked(o)) = Cardinality(S) /\ Cardinality(S) \in Nat
      /\ DOMAIN Ranked(o) = 1..Cardinality(S)
      /\ \A k \in 1..Cardinality(S) : Ranked(o)[k] \in S
      /\ \A x \in S : Place(o, x) + 1 \in 1..Cardinality(S) /\ Ranked(o)[Place(o, x) + 1] = x
      /\ \A j, k \in 1..Cardinality(S) : Ranked(o)[j] = Ranked(o)[k] => j = k
      /\ \A j, k \in 1..Cardinality(S) : j < k <=> Ranked(o)[j] \in o[Ranked(o)[k]]
  BY <1>1, RankedLists
<1>4. \A j, k \in 1..Cardinality(S) : j < k <=> at[j] < at[k]
  BY <1>1, <1>2, <1>3
<1>5. \A a \in S : \E k \in 1..Cardinality(S) : at[k] = a
  BY <1>2, <1>3
<1>6. QED BY <1>2, <1>3, <1>4, <1>5 DEF at

\* What Kept keeps, and where it was.
LEMMA KeptLists ==
  ASSUME NEW T, NEW s \in Seq(T), NEW S \in SUBSET DOMAIN s
  PROVE  /\ S \in SUBSET Int /\ IsFiniteSet(S) /\ Cardinality(S) \in Nat
         /\ Kept(s, S) \in Seq(T) /\ Len(Kept(s, S)) = Cardinality(S) /\ DOMAIN Kept(s, S) = 1..Cardinality(S)
         /\ \A k \in 1..Cardinality(S) : InOrder(S)[k] \in S /\ Kept(s, S)[k] = s[InOrder(S)[k]]
         /\ \A j, k \in 1..Cardinality(S) : j < k <=> InOrder(S)[j] < InOrder(S)[k]
         /\ \A j, k \in 1..Cardinality(S) : InOrder(S)[j] = InOrder(S)[k] => j = k
         /\ \A i \in S : \E k \in 1..Cardinality(S) : InOrder(S)[k] = i
<1> DEFINE at == InOrder(S)
           n == Cardinality(S)
           kept == Kept(s, S)
<1>1. S \in SUBSET Int /\ IsFiniteSet(S)
  <2>1. DOMAIN s = 1..Len(s) /\ Len(s) \in Nat
    BY LenProperties
  <2>2. IsFiniteSet(1..Len(s))
    BY <2>1, FS_Interval
  <2>3. QED BY <2>1, <2>2, FS_Subset
<1>2. /\ DOMAIN at = 1..n /\ n \in Nat /\ \A k \in 1..n : at[k] \in S
      /\ \A j, k \in 1..n : at[j] = at[k] => j = k
      /\ \A j, k \in 1..n : j < k <=> at[j] < at[k]
      /\ \A a \in S : \E k \in 1..n : at[k] = a
  BY <1>1, OrderLists
<1>3. kept = [k \in DOMAIN at |-> s[at[k]]]
  BY DEF Kept, Arranged, InOrder
<1> HIDE DEF at, n, kept
<1>4. \A k \in 1..n : s[at[k]] \in T
  BY <1>2, ElementOfSeq, LenProperties
<1>5. kept \in Seq(T) /\ Len(kept) = n /\ DOMAIN kept = 1..n /\ \A k \in 1..n : kept[k] = s[at[k]]
  BY <1>2, <1>3, <1>4
<1>6. QED BY <1>1, <1>2, <1>5 DEF at, n, kept

\* A filter keeps the elements it is about, and no other.
LEMMA KeptReaches ==
  ASSUME NEW T, NEW s \in Seq(T), NEW S \in SUBSET DOMAIN s
  PROVE  /\ Kept(s, S) \in Seq(T) /\ Len(Kept(s, S)) \in Nat /\ DOMAIN Kept(s, S) = 1..Len(Kept(s, S))
         /\ \A k \in 1..Len(Kept(s, S)) : \E i \in S : Kept(s, S)[k] = s[i]
         /\ \A i \in S : \E k \in 1..Len(Kept(s, S)) : Kept(s, S)[k] = s[i]
<1> DEFINE at == InOrder(S)
           n == Cardinality(S)
           kept == Kept(s, S)
<1>1. n \in Nat /\ kept \in Seq(T) /\ Len(kept) = n /\ DOMAIN kept = 1..n
  BY KeptLists
<1>2. \A k \in 1..n : at[k] \in S /\ kept[k] = s[at[k]]
  BY KeptLists
<1>3. \A i \in S : \E k \in 1..n : at[k] = i
  BY KeptLists
<1> HIDE DEF at, n, kept
<1>4. \A k \in 1..n : \E i \in S : kept[k] = s[i]
  BY <1>2
<1>5. \A i \in S : \E k \in 1..n : kept[k] = s[i]
  BY <1>2, <1>3
<1>6. QED BY <1>1, <1>4, <1>5 DEF kept

\* The first it keeps is the first it is about.
LEMMA KeptFirst ==
  ASSUME NEW T, NEW s \in Seq(T), NEW S \in SUBSET DOMAIN s, S # {}
  PROVE  Len(Kept(s, S)) >= 1 /\ \E i \in S : Kept(s, S)[1] = s[i] /\ \A j \in S : i <= j
<1> DEFINE at == InOrder(S)
           n == Cardinality(S)
           kept == Kept(s, S)
<1>1. n \in Nat /\ Len(kept) = n /\ S \in SUBSET Int
  BY KeptLists
<1>2. \A k \in 1..n : at[k] \in S /\ kept[k] = s[at[k]]
  BY KeptLists
<1>3. \A i \in S : \E k \in 1..n : at[k] = i
  BY KeptLists
<1>4. \A j, k \in 1..n : j < k <=> at[j] < at[k]
  BY KeptLists
<1> HIDE DEF at, n, kept
<1>5. n >= 1
  BY <1>1, <1>3
<1>6. 1 \in 1..n /\ at[1] \in S /\ kept[1] = s[at[1]]
  BY <1>1, <1>2, <1>5
<1>7. ASSUME NEW j \in S PROVE at[1] <= j
  <2>1. PICK k \in 1..n : at[k] = j
    BY <1>3
  <2>2. k = 1 \/ 1 < k
    BY <1>1
  <2>3. CASE k = 1
    BY <1>1, <2>1, <2>3
  <2>4. CASE 1 < k
    <3>1. at[1] < j
      BY <1>4, <1>6, <2>1, <2>4
    <3>2. QED BY <1>1, <1>6, <3>1
  <2>5. QED BY <2>2, <2>3, <2>4
<1>8. QED BY <1>1, <1>5, <1>6, <1>7 DEF kept

\* Dropping zeros changes no sum.
LEMMA KeptTotal ==
  ASSUME NEW x \in Seq(Int), NEW S \in SUBSET DOMAIN x, \A i \in DOMAIN x \ S : x[i] = 0
  PROVE  Total(Kept(x, S)) = Total(x)
<1> DEFINE at == InOrder(S)
           n == Cardinality(S)
           kept == Kept(x, S)
<1>1. /\ n \in Nat /\ kept \in Seq(Int) /\ Len(kept) = n
      /\ \A k \in 1..n : at[k] \in S /\ kept[k] = x[at[k]]
  BY KeptLists
<1>a. /\ \A j, k \in 1..n : at[j] = at[k] => j = k
      /\ \A i \in S : \E k \in 1..n : at[k] = i
  BY KeptLists
<1>2. DOMAIN x = 1..Len(x)
  BY LenProperties
<1> HIDE DEF at, n, kept
<1>3. Picks(kept, x, at)
  BY <1>1, <1>2, <1>a DEF Picks
<1>6. Total(kept) = Total(x)
  BY <1>1, <1>3, TotalPicked
<1>7. QED BY <1>6 DEF kept

-----------------------------------------------------------------------------
(* Entries that are sorted, and lose the zeros among them.                   *)

\* out has entries of es in another order, the k-th from r[k], and leaves out zero amounts only.
Keeps(out, es, r) ==
  /\ \A k \in DOMAIN out : r[k] \in DOMAIN es /\ out[k] = es[r[k]]
  /\ \A j, k \in DOMAIN out : r[j] = r[k] => j = k
  /\ \A i \in DOMAIN es : (\A k \in DOMAIN out : r[k] # i) => es[i].amount = 0

\* What is kept of what is kept is kept.
LEMMA KeepsTwice ==
  ASSUME NEW a, NEW b, NEW c, NEW q, NEW r, Keeps(a, b, q), Keeps(b, c, r)
  PROVE  Keeps(a, c, [k \in DOMAIN a |-> r[q[k]]])
<1> DEFINE p == [k \in DOMAIN a |-> r[q[k]]]
<1>1. \A k \in DOMAIN a : p[k] \in DOMAIN c /\ a[k] = c[p[k]]
  BY DEF Keeps
<1>2. \A j, k \in DOMAIN a : p[j] = p[k] => j = k
  BY DEF Keeps
<1>3. ASSUME NEW i \in DOMAIN c, \A k \in DOMAIN a : p[k] # i PROVE c[i].amount = 0
  <2>1. CASE \E m \in DOMAIN b : r[m] = i
    <3>1. PICK m \in DOMAIN b : r[m] = i
      BY <2>1
    <3>2. \A k \in DOMAIN a : q[k] # m
      BY <1>3, <3>1
    <3>3. b[m].amount = 0 /\ b[m] = c[i]
      BY <3>1, <3>2 DEF Keeps
    <3>4. QED BY <3>3
  <2>2. CASE \A m \in DOMAIN b : r[m] # i
    BY <2>2 DEF Keeps
  <2>3. QED BY <2>1, <2>2
<1> HIDE DEF p
<1>4. QED BY <1>1, <1>2, <1>3 DEF Keeps, p

\* x and y count the same for the same entry of out and es, and nothing for a zero amount.
Tallies(x, y, out, es) ==
  /\ Len(x) = Len(out) /\ Len(y) = Len(es)
  /\ \A k \in DOMAIN out : \A i \in DOMAIN es : out[k] = es[i] => x[k] = y[i]
  /\ \A i \in DOMAIN es : es[i].amount = 0 => y[i] = 0

\* A sum over what is kept is the sum over all, if zero amounts count nothing.
LEMMA KeepsTotal ==
  ASSUME NEW T, NEW out \in Seq(T), NEW es \in Seq(T), NEW r, Keeps(out, es, r),
         NEW x \in Seq(Int), NEW y \in Seq(Int), Tallies(x, y, out, es)
  PROVE  Total(x) = Total(y)
<1>1. DOMAIN out = 1..Len(x) /\ DOMAIN es = 1..Len(y)
  BY LenProperties DEF Tallies
<1>2. \A k \in 1..Len(x) : r[k] \in 1..Len(y) /\ x[k] = y[r[k]]
  BY <1>1 DEF Keeps, Tallies
<1>3. \A j, k \in 1..Len(x) : r[j] = r[k] => j = k
  BY <1>1 DEF Keeps, Tallies
<1>4. \A i \in 1..Len(y) : (\A k \in 1..Len(x) : r[k] # i) => y[i] = 0
  BY <1>1 DEF Keeps, Tallies
<1>5. Picks(x, y, r)
  BY <1>2, <1>3, <1>4 DEF Picks
<1>6. QED BY <1>5, TotalPicked

\* NonZero drops zeros and nothing else.
LEMMA NonZeroKeeps ==
  ASSUME NEW T, NEW es \in Seq(T)
  PROVE  /\ NonZero(es) \in Seq(T)
         /\ \E r : Keeps(NonZero(es), es, r)
         /\ \A k \in DOMAIN NonZero(es) : NonZero(es)[k].amount # 0
<1> DEFINE S == {i \in DOMAIN es : es[i].amount # 0}
           n == Cardinality(S)
           at == InOrder(S)
           out == Kept(es, S)
<1>1. NonZero(es) = out
  BY DEF NonZero
<1>2. S \in SUBSET DOMAIN es
  OBVIOUS
<1> HIDE DEF S
<1>3. out \in Seq(T) /\ DOMAIN out = 1..n /\ \A k \in 1..n : at[k] \in S /\ out[k] = es[at[k]]
  BY <1>2, KeptLists
<1>4. \A j, k \in 1..n : at[j] = at[k] => j = k
  BY <1>2, KeptLists
<1>5. \A i \in S : \E k \in 1..n : at[k] = i
  BY <1>2, KeptLists
<1> HIDE DEF n, at, out
<1>6. \A k \in DOMAIN out : at[k] \in DOMAIN es /\ out[k] = es[at[k]] /\ out[k].amount # 0
  BY <1>2, <1>3 DEF S
<1>7. \A i \in DOMAIN es : (\A k \in DOMAIN out : at[k] # i) => es[i].amount = 0
  BY <1>3, <1>5 DEF S
<1>8. Keeps(out, es, at)
  BY <1>3, <1>4, <1>6, <1>7 DEF Keeps
<1>9. QED BY <1>1, <1>3, <1>6, <1>8

AccountOrder(s) == [i \in DOMAIN s |-> SortedBefore(s, i)]

\* Ids order what they are the ids of.
LEMMA AccountsAreOrdered ==
  ASSUME NEW T, NEW s \in Seq(T), \A i \in DOMAIN s : s[i].account \in Int
  PROVE  IsOrder(AccountOrder(s)) /\ DOMAIN AccountOrder(s) = DOMAIN s
<1> DEFINE o == AccountOrder(s)
           D == DOMAIN s
<1>1. D = 1..Len(s) /\ Len(s) \in Nat /\ IsFiniteSet(D)
  <2>1. D = 1..Len(s) /\ Len(s) \in Nat
    BY LenProperties
  <2>2. IsFiniteSet(1..Len(s))
    BY <2>1, FS_Interval
  <2>3. QED BY <2>1, <2>2
<1>a. DOMAIN o = D /\ \A i \in D : o[i] = SortedBefore(s, i)
  BY DEF AccountOrder
<1> HIDE DEF o
<1>2. \A i, j \in D : j \in o[i] <=> (s[j].account < s[i].account \/ (s[j].account = s[i].account /\ j < i))
  <2> TAKE i, j \in D
  <2>1. j \in SortedBefore(s, i) <=> (s[j].account < s[i].account \/ (s[j].account = s[i].account /\ j < i))
    BY DEF SortedBefore
  <2>2. QED BY <1>a, <2>1
<1>3. \A i \in D : o[i] \subseteq D
  BY <1>a DEF SortedBefore
<1>4. \A i \in D : i \in Int /\ s[i].account \in Int
  BY <1>1
<1> HIDE DEF D
<1>5. \A x \in D : o[x] \subseteq D \ {x}
  BY <1>2, <1>3, <1>4
<1>6. ASSUME NEW x \in D, NEW y \in D, y \in o[x] PROVE o[y] \subseteq o[x]
  <2> SUFFICES ASSUME NEW z \in o[y] PROVE z \in o[x]
    OBVIOUS
  <2>1. z \in D
    BY <1>3
  <2>2. QED BY <1>2, <1>4, <1>6, <2>1
<1>7. ASSUME NEW x \in D, NEW y \in D PROVE x = y \/ x \in o[y] \/ y \in o[x]
  <2> DEFINE u == s[x].account
             v == s[y].account
  <2>1. u \in Int /\ v \in Int /\ x \in Int /\ y \in Int
    BY <1>4
  <2>2. /\ x \in o[y] <=> (u < v \/ (u = v /\ x < y))
        /\ y \in o[x] <=> (v < u \/ (v = u /\ y < x))
    BY <1>2
  <2> HIDE DEF u, v
  <2>3. QED BY <2>1, <2>2
<1>8. QED BY <1>1, <1>a, <1>5, <1>6, <1>7 DEF IsOrder, o, D

\* SortByAccount leaves out nothing.
LEMMA SortKeeps ==
  ASSUME NEW T, NEW s \in Seq(T), \A i \in DOMAIN s : s[i].account \in Int
  PROVE  /\ SortByAccount(s) \in Seq(T) /\ Len(SortByAccount(s)) = Len(s)
         /\ SortByAccount(s) = [k \in 1..Len(s) |-> s[Ranked(AccountOrder(s))[k]]]
         /\ \A k \in 1..Len(s) : Ranked(AccountOrder(s))[k] \in 1..Len(s)
         /\ Keeps(SortByAccount(s), s, Ranked(AccountOrder(s)))
<1> DEFINE o == AccountOrder(s)
           at == Ranked(o)
           out == SortByAccount(s)
           n == Len(s)
<1>1. IsOrder(o) /\ DOMAIN o = DOMAIN s
  BY AccountsAreOrdered
<1>2. DOMAIN s = 1..n /\ n \in Nat /\ Cardinality(1..n) = n
  <2>1. DOMAIN s = 1..n /\ n \in Nat
    BY LenProperties
  <2> HIDE DEF n
  <2>2. Cardinality(1..n) = n
    BY <2>1, FS_Interval
  <2>3. QED BY <2>1, <2>2
<1> HIDE DEF o, n
<1>a. Cardinality(DOMAIN o) = n
  BY <1>1, <1>2
<1>b. /\ DOMAIN at = 1..Cardinality(DOMAIN o)
      /\ \A k \in 1..Cardinality(DOMAIN o) : at[k] \in DOMAIN o
      /\ \A x \in DOMAIN o : Place(o, x) + 1 \in 1..Cardinality(DOMAIN o) /\ at[Place(o, x) + 1] = x
      /\ \A j, k \in 1..Cardinality(DOMAIN o) : at[j] = at[k] => j = k
  BY <1>1, RankedLists
<1> HIDE DEF at
<1>3. DOMAIN at = 1..n /\ \A k \in 1..n : at[k] \in 1..n
  BY <1>1, <1>2, <1>a, <1>b
<1>4. \A j, k \in 1..n : at[j] = at[k] => j = k
  BY <1>a, <1>b
<1>5. \A i \in 1..n : \E k \in 1..n : at[k] = i
  BY <1>1, <1>2, <1>a, <1>b
<1>6. out = [k \in DOMAIN at |-> s[at[k]]]
  BY DEF SortByAccount, Arranged, AccountOrder, o, at
<1> HIDE DEF out
<1>7. \A k \in 1..n : s[at[k]] \in T
  BY <1>2, <1>3, ElementOfSeq
<1>8. out = [k \in 1..n |-> s[at[k]]]
  BY <1>3, <1>6
<1>9. out \in Seq(T) /\ Len(out) = n /\ DOMAIN out = 1..n
  BY <1>2, <1>7, <1>8
<1>10. Keeps(out, s, at)
  BY <1>2, <1>3, <1>4, <1>5, <1>8, <1>9 DEF Keeps
<1>11. QED BY <1>3, <1>8, <1>9, <1>10 DEF out, at, o, n

-----------------------------------------------------------------------------
(* Multiples and quotients.                                                  *)

\* A sum of multiples is a multiple of the sum.
LEMMA TotalScaled ==
  ASSUME NEW s \in Seq(Int), NEW t \in Seq(Int), Len(s) = Len(t), NEW c \in Int,
         \A i \in 1..Len(s) : t[i] = c * s[i]
  PROVE  Total(t) = c * Total(s)
<1>1. Len(s) \in Nat /\ \A i \in 1..Len(s) : s[i] \in Int /\ t[i] \in Int
  BY LenProperties, ElementOfSeq
<1>2. PICK f \in [0..Len(s) -> Int] : /\ f[0] = 0 /\ Total(s) = f[Len(s)]
                                      /\ \A i \in 1..Len(s) : f[i] = f[i - 1] + s[i]
  BY RunningSums
<1>3. PICK g \in [0..Len(t) -> Int] : /\ g[0] = 0 /\ Total(t) = g[Len(t)]
                                      /\ \A i \in 1..Len(t) : g[i] = g[i - 1] + t[i]
  BY RunningSums
<1> DEFINE N == {k \in Nat : k <= Len(s) => g[k] = c * f[k]}
<1>4. 0 \in N
  BY <1>2, <1>3
<1>5. ASSUME NEW k \in Nat, k \in N PROVE k + 1 \in N
  <2>1. SUFFICES ASSUME k + 1 <= Len(s) PROVE g[k + 1] = c * f[k + 1]
    OBVIOUS
  <2>2. k + 1 \in 1..Len(s) /\ k \in 0..Len(s) /\ k \in 0..Len(t) /\ k + 1 - 1 = k
    BY <1>1, <2>1
  <2>3. f[k + 1] = f[k] + s[k + 1] /\ g[k + 1] = g[k] + c * s[k + 1]
    BY <1>2, <1>3, <2>2
  <2>4. g[k] = c * f[k]
    BY <1>1, <1>5, <2>1
  <2>5. PICK u \in Int, v \in Int : u = f[k] /\ v = s[k + 1]
    BY <1>1, <2>2
  <2>6. c * (u + v) = c * u + c * v
    OBVIOUS
  <2>7. QED BY <2>3, <2>4, <2>5, <2>6
<1>6. Nat \subseteq N
  <2> HIDE DEF N
  <2>1. QED BY <1>4, <1>5, NatInductive
<1>7. QED BY <1>1, <1>2, <1>3, <1>6

\* Equal elements sum to a multiple of their number.
LEMMA TotalConstant ==
  ASSUME NEW s \in Seq(Int), NEW c \in Int, \A i \in 1..Len(s) : s[i] = c
  PROVE  Total(s) = c * Len(s)
<1>1. Len(s) \in Nat /\ \A i \in 1..Len(s) : s[i] \in Int
  BY LenProperties, ElementOfSeq
<1>2. PICK f \in [0..Len(s) -> Int] : /\ f[0] = 0 /\ Total(s) = f[Len(s)]
                                      /\ \A i \in 1..Len(s) : f[i] = f[i - 1] + s[i]
  BY RunningSums
<1> DEFINE N == {k \in Nat : k <= Len(s) => f[k] = c * k}
<1>3. 0 \in N
  BY <1>2
<1>4. ASSUME NEW k \in Nat, k \in N PROVE k + 1 \in N
  <2>1. SUFFICES ASSUME k + 1 <= Len(s) PROVE f[k + 1] = c * (k + 1)
    OBVIOUS
  <2>2. k + 1 \in 1..Len(s) /\ k \in 0..Len(s) /\ k + 1 - 1 = k
    BY <1>1, <2>1
  <2>3. f[k + 1] = f[k] + c
    BY <1>2, <2>2
  <2>4. f[k] = c * k
    BY <1>1, <1>4, <2>1
  <2>5. c * (k + 1) = c * k + c
    OBVIOUS
  <2>6. QED BY <2>3, <2>4, <2>5
<1>5. Nat \subseteq N
  <2> HIDE DEF N
  <2>1. QED BY <1>3, <1>4, NatInductive
<1>6. QED BY <1>1, <1>2, <1>5

\* A natural is its quotient and remainder by w.
LEMMA Divided ==
  ASSUME NEW x \in Nat, NEW w \in Nat \ {0}
  PROVE  x \div w \in Nat /\ x % w \in 0..(w - 1) /\ x = w * (x \div w) + (x % w)
<1>1. x % w \in 0..(w - 1) /\ x \div w \in Int
  OBVIOUS
<1>2. x = w * (x \div w) + (x % w)
  BY SMTT(20)
<1>3. x \div w >= 0
  <2>1. PICK q \in Int, r \in Int : q = x \div w /\ r = x % w
    BY <1>1
  <2>2. SUFFICES ASSUME q <= -1 PROVE FALSE
    BY <1>1, <2>1
  <2>3. w * q <= w * (-1)
    BY <2>2
  <2>4. QED BY <1>1, <1>2, <2>1, <2>3
<1>4. QED BY <1>1, <1>2, <1>3

-----------------------------------------------------------------------------
(* Largest remainder.                                                        *)

\* Shares that can be split over: no account twice, no negative weight.
IsShares(shares) ==
  /\ DOMAIN shares = 1..Len(shares) /\ Len(shares) \in Nat
  /\ \A i \in DOMAIN shares : shares[i].account \in Int /\ shares[i].weight \in Nat
  /\ \A i, j \in DOMAIN shares : shares[i].account = shares[j].account => i = j

RoundedUp(total, shares, i) == Cardinality(RoundedBefore(total, shares, i)) < Shortfall(total, shares)

\* Exact shares are a quota and a remainder.
LEMMA ExactShares ==
  ASSUME NEW total \in Int, NEW shares, IsShares(shares), Total(Weights(shares)) > 0
  PROVE  /\ Magnitude(total) \in Nat
         /\ Weights(shares) \in Seq(Int) /\ Len(Weights(shares)) = Len(shares)
         /\ Total(Weights(shares)) \in Nat \ {0}
         /\ \A i \in 1..Len(shares) :
              /\ Quota(total, shares, i) \in Nat
              /\ Remainder(total, shares, i) \in 0..(Total(Weights(shares)) - 1)
              /\ Magnitude(total) * shares[i].weight =
                   Total(Weights(shares)) * Quota(total, shares, i) + Remainder(total, shares, i)
<1> DEFINE m == Magnitude(total)
           W == Total(Weights(shares))
<1>1. m \in Nat
  BY DEF Magnitude
<1>2. Weights(shares) \in Seq(Int) /\ Len(Weights(shares)) = Len(shares)
  BY DEF Weights, IsShares
<1>3. W \in Nat \ {0}
  <2>1. W \in Int
    BY <1>2, TotalType
  <2>2. QED BY <2>1
<1>4. ASSUME NEW i \in 1..Len(shares)
      PROVE  /\ Quota(total, shares, i) \in Nat
             /\ Remainder(total, shares, i) \in 0..(W - 1)
             /\ m * shares[i].weight = W * Quota(total, shares, i) + Remainder(total, shares, i)
  <2> DEFINE x == m * shares[i].weight
  <2>1. x \in Nat
    <3>1. shares[i].weight \in Nat
      BY DEF IsShares
    <3> HIDE DEF m
    <3>2. QED BY <1>1, <3>1
  <2>2. Quota(total, shares, i) = x \div W /\ Remainder(total, shares, i) = x % W
    BY DEF Quota, Remainder
  <2> HIDE DEF x, W
  <2>3. x \div W \in Nat /\ x % W \in 0..(W - 1) /\ x = W * (x \div W) + (x % W)
    BY <1>3, <2>1, Divided
  <2>4. QED BY <2>2, <2>3 DEF x
<1>5. QED BY <1>1, <1>2, <1>3, <1>4

RoundingOrder(total, shares) == [i \in DOMAIN shares |-> RoundedBefore(total, shares, i)]

\* Remainders and account ids order the shares.
LEMMA RoundingIsAnOrder ==
  ASSUME NEW total \in Int, NEW shares, IsShares(shares), Total(Weights(shares)) > 0
  PROVE  /\ IsOrder(RoundingOrder(total, shares)) /\ DOMAIN RoundingOrder(total, shares) = 1..Len(shares)
         /\ \A i \in 1..Len(shares) :
              Place(RoundingOrder(total, shares), i) = Cardinality(RoundedBefore(total, shares, i))
<1> DEFINE o == RoundingOrder(total, shares)
           D == 1..Len(shares)
           R(i) == Remainder(total, shares, i)
           A(i) == shares[i].account
<1>1. DOMAIN shares = D /\ IsFiniteSet(D)
  <2>1. DOMAIN shares = D /\ Len(shares) \in Nat
    BY DEF IsShares
  <2>2. QED BY <2>1, FS_Interval
<1>2. DOMAIN o = D /\ \A i \in D : o[i] = RoundedBefore(total, shares, i)
  BY <1>1 DEF RoundingOrder
<1>3. \A i \in D : R(i) \in Int /\ A(i) \in Int
  <2>1. \A i \in D : R(i) \in 0..(Total(Weights(shares)) - 1) /\ Total(Weights(shares)) \in Nat
    BY ExactShares
  <2>2. \A i \in D : A(i) \in Int
    BY <1>1 DEF IsShares
  <2>3. QED BY <2>1, <2>2
<1>4. \A i, j \in D : A(i) = A(j) => i = j
  BY <1>1 DEF IsShares
<1>5. \A i, j \in D : j \in o[i] <=> (R(j) > R(i) \/ (R(j) = R(i) /\ A(j) < A(i)))
  <2> TAKE i, j \in D
  <2>1. j \in RoundedBefore(total, shares, i) <=> (R(j) > R(i) \/ (R(j) = R(i) /\ A(j) < A(i)))
    BY <1>1 DEF RoundedBefore
  <2>2. QED BY <1>2, <2>1
<1>6. \A i \in D : o[i] \subseteq D
  BY <1>1, <1>2 DEF RoundedBefore
<1> HIDE DEF o, D, R, A
<1>7. \A x \in D : o[x] \subseteq D \ {x}
  BY <1>3, <1>5, <1>6
<1>8. ASSUME NEW x \in D, NEW y \in D, y \in o[x] PROVE o[y] \subseteq o[x]
  <2> SUFFICES ASSUME NEW z \in o[y] PROVE z \in o[x]
    OBVIOUS
  <2>1. z \in D
    BY <1>6
  <2>2. QED BY <1>3, <1>5, <1>8, <2>1
<1>9. ASSUME NEW x \in D, NEW y \in D PROVE x = y \/ x \in o[y] \/ y \in o[x]
  <2>1. A(x) # A(y) \/ x = y
    BY <1>4
  <2>2. QED BY <1>3, <1>5, <2>1
<1>10. IsOrder(o)
  BY <1>1, <1>2, <1>7, <1>8, <1>9 DEF IsOrder
<1>11. QED BY <1>2, <1>10 DEF o, D, Place

\* The remainders make up the shortfall, which is less than one cent a share.
LEMMA ShortfallBound ==
  ASSUME NEW total \in Int, NEW shares, IsShares(shares), Total(Weights(shares)) > 0
  PROVE  /\ Shortfall(total, shares) \in 0..(Len(shares) - 1)
         /\ Total([i \in 1..Len(shares) |-> Remainder(total, shares, i)]) =
              Total(Weights(shares)) * Shortfall(total, shares)
         /\ Total([i \in 1..Len(shares) |-> Quota(total, shares, i)]) =
              Magnitude(total) - Shortfall(total, shares)
<1> DEFINE m == Magnitude(total)
           w == Weights(shares)
           W == Total(w)
           n == Len(shares)
           q == [i \in 1..n |-> Quota(total, shares, i)]
           rem == [i \in 1..n |-> Remainder(total, shares, i)]
           exact == [i \in 1..n |-> m * w[i]]
           whole == [i \in 1..n |-> W * q[i]]
           S == Shortfall(total, shares)
<1>1. m \in Nat /\ w \in Seq(Int) /\ Len(w) = n /\ n \in Nat /\ W \in Nat \ {0} /\ DOMAIN shares = 1..n
  BY ExactShares DEF IsShares
<1>2. \A i \in 1..n : /\ q[i] \in Nat /\ rem[i] \in 0..(W - 1)
                      /\ m * w[i] = W * q[i] + rem[i]
  <2>1. \A i \in 1..n : /\ Quota(total, shares, i) \in Nat
                        /\ Remainder(total, shares, i) \in 0..(W - 1)
                        /\ m * shares[i].weight = W * Quota(total, shares, i) + Remainder(total, shares, i)
    BY ExactShares
  <2>2. \A i \in 1..n : w[i] = shares[i].weight
    BY <1>1 DEF Weights
  <2> HIDE DEF m, w, W
  <2>3. QED BY <2>1, <2>2
<1>3. S = m - Total(q)
  BY <1>1 DEF Shortfall
<1> HIDE DEF m, w, n, S
<1>4. \A i \in 1..n : w[i] \in Int
  BY <1>1, ElementOfSeq
<1>5. q \in Seq(Int) /\ Len(q) = n /\ rem \in Seq(Int) /\ Len(rem) = n
  <2> HIDE DEF W
  <2>1. \A i \in 1..n : Quota(total, shares, i) \in Int /\ Remainder(total, shares, i) \in Int
    BY <1>1, <1>2
  <2>2. QED BY <1>1, <2>1
<1>6. exact \in Seq(Int) /\ Len(exact) = n /\ Total(exact) = m * W
  <2>1. exact \in Seq(Int) /\ Len(exact) = n /\ \A i \in 1..n : exact[i] = m * w[i]
    BY <1>1, <1>4
  <2> HIDE DEF exact
  <2>2. Len(w) = Len(exact) /\ (\A i \in 1..Len(w) : exact[i] = m * w[i]) /\ m \in Int /\ w \in Seq(Int)
    BY <1>1, <2>1
  <2>3. Total(exact) = m * Total(w)
    BY <2>1, <2>2, TotalScaled
  <2>4. QED BY <2>1, <2>3
<1> HIDE DEF W, q, rem
<1>7. whole \in Seq(Int) /\ Len(whole) = n /\ Total(whole) = W * Total(q)
  <2>1. whole \in Seq(Int) /\ Len(whole) = n /\ \A i \in 1..n : whole[i] = W * q[i]
    BY <1>1, <1>2
  <2> HIDE DEF whole
  <2>2. Len(q) = Len(whole) /\ (\A i \in 1..Len(q) : whole[i] = W * q[i]) /\ W \in Int
    BY <1>1, <1>5, <2>1
  <2>3. Total(whole) = W * Total(q)
    BY <1>5, <2>1, <2>2, TotalScaled
  <2>4. QED BY <2>1, <2>3
<1>8. Total(exact) = Total(whole) + Total(rem)
  <2>1. \A i \in 1..Len(exact) : exact[i] = whole[i] + rem[i]
    BY <1>2, <1>6
  <2> HIDE DEF exact, whole
  <2>2. QED BY <1>5, <1>6, <1>7, <2>1, TotalPlus
<1>9. Total(q) \in Int /\ Total(rem) \in Int /\ S \in Int
  <2>1. Total(q) \in Int /\ Total(rem) \in Int
    BY <1>5, TotalType
  <2>2. QED BY <1>1, <1>3, <2>1
<1> HIDE DEF exact, whole
<1>10. Total(rem) = W * S
  <2>1. W * (m - Total(q)) = m * W - W * Total(q)
    BY <1>1, <1>9
  <2>2. m * W = W * Total(q) + Total(rem)
    BY <1>6, <1>7, <1>8
  <2>3. W * S = m * W - W * Total(q)
    BY <1>3, <2>1
  <2>4. W * Total(q) \in Int /\ m * W \in Int
    BY <1>1, <1>9
  <2>5. QED BY <1>9, <2>2, <2>3, <2>4
<1>11. 0 <= Total(rem) /\ Total(rem) <= (W - 1) * n
  <2> DEFINE low == [i \in 1..n |-> 0]
             high == [i \in 1..n |-> W - 1]
  <2>1. low \in Seq(Int) /\ Len(low) = n /\ \A i \in 1..Len(low) : low[i] = 0 /\ low[i] <= rem[i]
    BY <1>1, <1>2
  <2>2. high \in Seq(Int) /\ Len(high) = n /\ \A i \in 1..Len(rem) : rem[i] <= high[i]
    BY <1>1, <1>2, <1>5
  <2>3. \A i \in 1..Len(high) : high[i] = W - 1
    BY <2>2
  <2> HIDE DEF low, high
  <2>4. Total(low) = 0
    BY <2>1, TotalZero
  <2>5. Total(low) <= Total(rem)
    BY <1>5, <2>1, TotalMonotone
  <2>6. Total(high) = (W - 1) * n
    <3>1. W - 1 \in Int
      BY <1>1
    <3>2. QED BY <2>2, <2>3, <3>1, TotalConstant
  <2>7. Total(rem) <= Total(high)
    BY <1>5, <2>2, TotalMonotone
  <2>8. QED BY <2>4, <2>5, <2>6, <2>7
<1>12. n >= 1
  <2>1. SUFFICES ASSUME n = 0 PROVE FALSE
    BY <1>1
  <2>2. \A i \in 1..Len(w) : w[i] = 0
    BY <1>1, <2>1
  <2>3. W = 0
    BY <1>1, <2>2, TotalZero DEF W
  <2>4. QED BY <1>1, <2>3
<1>13. S >= 0
  <2>1. SUFFICES ASSUME S <= -1 PROVE FALSE
    BY <1>9
  <2>2. W * S <= -W
    <3>1. W * S <= W * (-1)
      BY <1>1, <1>9, <2>1
    <3>2. QED BY <1>1, <3>1
  <2>3. Total(rem) <= -W
    BY <1>10, <2>2
  <2>4. 0 <= Total(rem)
    BY <1>11
  <2>5. QED BY <1>1, <1>9, <2>3, <2>4
<1>14. S < n
  <2>1. SUFFICES ASSUME n <= S PROVE FALSE
    BY <1>1, <1>9
  <2>2. W * n <= W * S
    BY <1>1, <1>9, <2>1
  <2>3. (W - 1) * n = W * n - n /\ W * n \in Int /\ W * S \in Int
    BY <1>1, <1>9
  <2>4. W * S <= (W - 1) * n
    BY <1>10, <1>11
  <2>5. W * S <= W * n - n
    BY <2>3, <2>4
  <2>6. QED BY <1>1, <1>12, <2>2, <2>3, <2>5
<1>15. Total(q) = m - S
  BY <1>1, <1>3, <1>9
<1>16. S \in 0..(n - 1)
  BY <1>1, <1>9, <1>13, <1>14
<1>17. QED BY <1>10, <1>15, <1>16 DEF m, w, W, n, S, q, rem

\* Just as many shares are rounded up as there are cents short, those with the largest remainders.
LEMMA RoundedUpCounted ==
  ASSUME NEW total \in Int, NEW shares, IsShares(shares), Total(Weights(shares)) > 0
  PROVE  Total([i \in 1..Len(shares) |-> IF RoundedUp(total, shares, i) THEN 1 ELSE 0])
           = Shortfall(total, shares)
<1> DEFINE n == Len(shares)
           S == Shortfall(total, shares)
           o == RoundingOrder(total, shares)
           at == Ranked(o)
           ups == [i \in 1..n |-> IF RoundedUp(total, shares, i) THEN 1 ELSE 0]
           ones == [k \in 1..S |-> 1]
<1>1. n \in Nat /\ S \in 0..(n - 1)
  BY ShortfallBound DEF IsShares
<1>2. IsOrder(o) /\ DOMAIN o = 1..n /\ \A i \in 1..n : RoundedUp(total, shares, i) <=> Place(o, i) < S
  BY RoundingIsAnOrder DEF RoundedUp
<1> HIDE DEF n, S, o
<1>3. Cardinality(DOMAIN o) = n
  <2>1. Cardinality(1..n) = n
    BY <1>1, FS_Interval
  <2>2. QED BY <1>2, <2>1
<1>4. /\ \A k \in 1..n : at[k] \in 1..n /\ Place(o, at[k]) = k - 1
      /\ \A x \in 1..n : Place(o, x) + 1 \in 1..n /\ at[Place(o, x) + 1] = x
      /\ \A j, k \in 1..n : at[j] = at[k] => j = k
  <2>1. /\ \A k \in 1..Cardinality(DOMAIN o) : at[k] \in DOMAIN o /\ Place(o, at[k]) = k - 1
        /\ \A x \in DOMAIN o : Place(o, x) + 1 \in 1..Cardinality(DOMAIN o) /\ at[Place(o, x) + 1] = x
        /\ \A j, k \in 1..Cardinality(DOMAIN o) : at[j] = at[k] => j = k
    BY <1>2, RankedLists
  <2> HIDE DEF at
  <2>2. QED BY <1>2, <1>3, <2>1
<1>a. \A x \in DOMAIN o : Place(o, x) \in 0..(Cardinality(DOMAIN o) - 1)
  BY <1>2, PlacesGrow
<1>b. \A x \in 1..n : Place(o, x) \in Nat
  BY <1>1, <1>2, <1>3, <1>a
<1> HIDE DEF at
<1>5. ups \in Seq(Int) /\ Len(ups) = n /\ \A i \in 1..n : ups[i] = IF Place(o, i) < S THEN 1 ELSE 0
  BY <1>1, <1>2
<1>6. ones \in Seq(Int) /\ Len(ones) = S /\ S \in Nat /\ \A k \in 1..S : ones[k] = 1
  BY <1>1
<1> HIDE DEF ups, ones
<1>7. Picks(ones, ups, at)
  <2>1. \A k \in 1..S : at[k] \in 1..n /\ ones[k] = ups[at[k]]
    <3> TAKE k \in 1..S
    <3>1. k \in 1..n
      BY <1>1, <1>6
    <3>2. at[k] \in 1..n /\ Place(o, at[k]) = k - 1 /\ k - 1 < S
      BY <1>4, <1>6, <3>1
    <3>3. QED BY <1>5, <1>6, <3>2
  <2>2. \A j, k \in 1..S : at[j] = at[k] => j = k
    BY <1>1, <1>4
  <2>3. ASSUME NEW i \in 1..n, \A k \in 1..S : at[k] # i PROVE ups[i] = 0
    <3>1. Place(o, i) + 1 \notin 1..S
      BY <1>4, <2>3
    <3>2. ~(Place(o, i) < S)
      BY <1>b, <1>6, <3>1
    <3>3. QED BY <1>5, <3>2
  <2>4. QED BY <1>5, <1>6, <2>1, <2>2, <2>3 DEF Picks
<1>8. Total(ones) = Total(ups)
  BY <1>5, <1>6, <1>7, TotalPicked
<1>9. Total(ones) = S
  <2>1. Total(ones) = 1 * Len(ones)
    BY <1>6, TotalConstant
  <2>2. QED BY <1>6, <2>1
<1>10. QED BY <1>8, <1>9 DEF ups, n, S

\* The portions are natural, and add up to the magnitude that is split.
LEMMA PortionsAddUp ==
  ASSUME NEW total \in Int, NEW shares, IsShares(shares), Total(Weights(shares)) > 0
  PROVE  /\ \A i \in 1..Len(shares) : Portion(total, shares, i) \in Nat
         /\ Total([i \in 1..Len(shares) |-> Portion(total, shares, i)]) = Magnitude(total)
<1> DEFINE n == Len(shares)
           q == [i \in 1..n |-> Quota(total, shares, i)]
           ups == [i \in 1..n |-> IF RoundedUp(total, shares, i) THEN 1 ELSE 0]
           whole == [i \in 1..n |-> Portion(total, shares, i)]
<1>1. \A i \in 1..n : Quota(total, shares, i) \in Nat
  BY ExactShares
<1>2. \A i \in 1..n : Portion(total, shares, i) = q[i] + ups[i]
  BY DEF Portion, RoundedUp
<1>3. n \in Nat /\ Magnitude(total) \in Nat
  BY ExactShares DEF IsShares
<1>4. Total(q) = Magnitude(total) - Shortfall(total, shares) /\ Shortfall(total, shares) \in Int
  <2>1. Shortfall(total, shares) \in 0..(Len(shares) - 1)
    BY ShortfallBound
  <2>2. Total(q) = Magnitude(total) - Shortfall(total, shares)
    BY ShortfallBound
  <2>3. QED BY <2>1, <2>2
<1>5. Total(ups) = Shortfall(total, shares)
  BY RoundedUpCounted
<1> HIDE DEF n
<1>6. q \in Seq(Int) /\ Len(q) = n /\ \A i \in 1..n : q[i] \in Nat
  BY <1>1, <1>3
<1>7. ups \in Seq(Int) /\ Len(ups) = n /\ \A i \in 1..n : ups[i] \in Nat
  BY <1>3
<1> HIDE DEF q, ups
<1>8. \A i \in 1..n : Portion(total, shares, i) \in Nat
  BY <1>2, <1>6, <1>7
<1>9. whole \in Seq(Int) /\ Len(whole) = n /\ \A i \in 1..n : whole[i] = q[i] + ups[i]
  BY <1>2, <1>3, <1>8
<1> HIDE DEF whole
<1>10. Total(whole) = Total(q) + Total(ups)
  BY <1>6, <1>7, <1>9, TotalPlus
<1>11. Total(whole) = Magnitude(total)
  BY <1>3, <1>4, <1>5, <1>10
<1>12. QED BY <1>8, <1>11 DEF whole, n

\* Nobody is a cent or more away from their exact share.
LEMMA PortionsAreClose ==
  ASSUME NEW total \in Int, NEW shares, IsShares(shares), Total(Weights(shares)) > 0,
         NEW i \in 1..Len(shares)
  PROVE  /\ Total(Weights(shares)) * Portion(total, shares, i) - Magnitude(total) * shares[i].weight
              \in (1 - Total(Weights(shares)))..(Total(Weights(shares)) - 1)
         /\ RoundedUp(total, shares, i) <=>
              Total(Weights(shares)) * Portion(total, shares, i) > Magnitude(total) * shares[i].weight
<1> DEFINE n == Len(shares)
           W == Total(Weights(shares))
           S == Shortfall(total, shares)
           R(j) == Remainder(total, shares, j)
           rem == [j \in 1..n |-> R(j)]
           ups == [j \in 1..n |-> IF RoundedUp(total, shares, j) THEN 1 ELSE 0]
           room == [j \in 1..n |-> (W - 1) * ups[j]]
           q == Quota(total, shares, i)
           x == Magnitude(total) * shares[i].weight
<1>1. W \in Nat \ {0} /\ n \in Nat /\ \A j \in 1..n : R(j) \in 0..(W - 1)
  BY ExactShares DEF IsShares
<1>2. q \in Nat /\ x = W * q + R(i)
  BY ExactShares
<1>3. Total(rem) = W * S /\ S \in Nat
  <2>1. Shortfall(total, shares) \in 0..(Len(shares) - 1)
    BY ShortfallBound
  <2>2. Total(rem) = W * S
    BY ShortfallBound
  <2>3. QED BY <2>1, <2>2
<1>4. Total(ups) = S
  BY RoundedUpCounted
<1>5. RoundedUp(total, shares, i) => R(i) >= 1
  <2>1. SUFFICES ASSUME RoundedUp(total, shares, i), R(i) = 0 PROVE FALSE
    BY <1>1
  <2>2. \A j \in 1..n : RoundedUp(total, shares, j) \/ R(j) = 0
    <3> SUFFICES ASSUME NEW j \in 1..n, R(j) > 0 PROVE RoundedUp(total, shares, j)
      BY <1>1
    <3> DEFINE o == RoundingOrder(total, shares)
    <3>1. j \in o[i]
      BY <2>1 DEF RoundingOrder, RoundedBefore, IsShares
    <3>2. /\ IsOrder(o) /\ DOMAIN o = 1..n
          /\ \A k \in 1..n : Place(o, k) = Cardinality(RoundedBefore(total, shares, k))
      BY RoundingIsAnOrder
    <3> HIDE DEF o
    <3>3. Place(o, j) < Place(o, i) /\ Place(o, j) \in Int /\ Place(o, i) \in Int
      <4>1. /\ \A y \in DOMAIN o : Place(o, y) \in 0..(Cardinality(DOMAIN o) - 1)
            /\ \A y, z \in DOMAIN o : z \in o[y] <=> Place(o, z) < Place(o, y)
        BY <3>2, PlacesGrow
      <4>2. QED BY <3>1, <3>2, <4>1
    <3>4. Place(o, i) < S
      BY <2>1, <3>2 DEF RoundedUp
    <3>5. Place(o, j) < S
      BY <1>3, <3>3, <3>4
    <3>6. QED BY <3>2, <3>5 DEF RoundedUp
  <2>3. ups \in Seq(Int) /\ Len(ups) = n /\ \A j \in 1..n : ups[j] = IF RoundedUp(total, shares, j) THEN 1 ELSE 0
    BY <1>1
  <2> HIDE DEF W, S, R, n, ups
  <2>4. room \in Seq(Int) /\ Len(room) = n /\ \A j \in 1..n : room[j] = (W - 1) * ups[j]
    <3>1. \A j \in 1..n : (W - 1) * ups[j] \in Int
      BY <1>1, <2>3
    <3>2. QED BY <1>1, <3>1
  <2>5. rem \in Seq(Int) /\ Len(rem) = n /\ \A j \in 1..n : rem[j] = R(j)
    BY <1>1
  <2> HIDE DEF room, rem
  <2>6. \A j \in 1..Len(rem) : rem[j] <= room[j]
    <3> SUFFICES ASSUME NEW j \in 1..n PROVE R(j) <= room[j]
      BY <2>5
    <3>1. CASE RoundedUp(total, shares, j)
      <4>1. ups[j] = 1
        BY <2>3, <3>1
      <4>2. room[j] = W - 1
        BY <1>1, <2>4, <4>1
      <4>3. QED BY <1>1, <4>2
    <3>2. CASE ~RoundedUp(total, shares, j)
      <4>1. ups[j] = 0 /\ R(j) = 0
        BY <2>2, <2>3, <3>2
      <4>2. room[j] = 0
        BY <1>1, <2>4, <4>1
      <4>3. QED BY <4>1, <4>2
    <3>3. QED BY <3>1, <3>2
  <2>7. Total(rem) <= Total(room)
    BY <2>4, <2>5, <2>6, TotalMonotone
  <2>8. Total(room) = (W - 1) * S
    <3>1. W - 1 \in Int /\ Len(ups) = Len(room) /\ \A j \in 1..Len(ups) : room[j] = (W - 1) * ups[j]
      BY <1>1, <2>3, <2>4
    <3>2. Total(room) = (W - 1) * Total(ups)
      BY <2>3, <2>4, <3>1, TotalScaled
    <3>3. QED BY <1>4, <3>2
  <2>9. S >= 1
    <3>1. Cardinality(RoundedBefore(total, shares, i)) < S
      BY <2>1 DEF RoundedUp, S
    <3>2. Cardinality(RoundedBefore(total, shares, i)) \in Nat
      <4>1. Place(RoundingOrder(total, shares), i) \in 0..(Cardinality(DOMAIN RoundingOrder(total, shares)) - 1)
        BY RoundingIsAnOrder, PlacesGrow
      <4>2. Place(RoundingOrder(total, shares), i) = Cardinality(RoundedBefore(total, shares, i))
        BY RoundingIsAnOrder
      <4>3. Cardinality(DOMAIN RoundingOrder(total, shares)) \in Nat
        BY RoundingIsAnOrder, PlacesGrow
      <4>4. QED BY <4>1, <4>2, <4>3
    <3>3. QED BY <1>3, <3>1, <3>2
  <2>10. (W - 1) * S = W * S - S /\ W * S \in Int
    BY <1>1, <1>3
  <2>11. W * S <= W * S - S
    BY <1>3, <2>7, <2>8, <2>10
  <2>12. QED BY <1>3, <2>9, <2>10, <2>11
<1> DEFINE up == IF RoundedUp(total, shares, i) THEN 1 ELSE 0
<1>6. Portion(total, shares, i) = q + up
  BY DEF Portion, RoundedUp
<1>7. W * (q + up) = W * q + W * up /\ W * up = IF RoundedUp(total, shares, i) THEN W ELSE 0
  <2> HIDE DEF W, q
  <2>1. QED BY <1>1, <1>2
<1> HIDE DEF W, q, x, R, up
<1>8. W * Portion(total, shares, i) - x = IF RoundedUp(total, shares, i) THEN W - R(i) ELSE -R(i)
  <2>1. W * q \in Int
    BY <1>1, <1>2
  <2>2. QED BY <1>1, <1>2, <1>6, <1>7, <2>1
<1>9. W * Portion(total, shares, i) \in Int /\ x \in Int
  BY <1>1, <1>2, <1>6, <1>7 DEF up
<1>10. R(i) \in 0..(W - 1)
  BY <1>1 DEF n
<1>11. QED BY <1>1, <1>5, <1>8, <1>9, <1>10 DEF W, x

-----------------------------------------------------------------------------
(* Sorting forgets the order of what it sorts.                               *)

AccountsDiffer(s) == \A i, j \in DOMAIN s : s[i].account = s[j].account => i = j

\* t has the elements of s, the i-th from f[i].
Rearranges(t, s, f) ==
  /\ \A i \in DOMAIN t : f[i] \in DOMAIN s /\ t[i] = s[f[i]]
  /\ \A i, j \in DOMAIN t : f[i] = f[j] => i = j
  /\ \A j \in DOMAIN s : \E i \in DOMAIN t : f[i] = j

\* Sets that f pairs off have the same size.
LEMMA SameSize ==
  ASSUME NEW S, NEW T, IsFiniteSet(S), NEW f, \A x \in S : f[x] \in T,
         \A x, y \in S : f[x] = f[y] => x = y, \A z \in T : \E x \in S : f[x] = z
  PROVE  Cardinality(S) = Cardinality(T)
<1> DEFINE g == [x \in S |-> f[x]]
<1>1. g \in [S -> T] /\ (\A z \in T : \E x \in S : g[x] = z) /\ \A x, y \in S : g[x] = g[y] => x = y
  OBVIOUS
<1> HIDE DEF g
<1>2. g \in Surjection(S, T) /\ g \in Injection(S, T)
  BY <1>1 DEF Surjection, Injection, IsInjective
<1>3. QED BY <1>2, FS_Surjection

\* A sorted list has what was sorted, each element after those that come before it.
LEMMA ArrangedLists ==
  ASSUME NEW T, NEW s \in Seq(T), NEW o, IsOrder(o), DOMAIN o = DOMAIN s
  PROVE  /\ Arranged(s, o) \in Seq(T) /\ Len(Arranged(s, o)) = Len(s)
         /\ Rearranges(Arranged(s, o), s, Ranked(o))
         /\ \A j, k \in 1..Len(s) : j < k <=> Ranked(o)[j] \in o[Ranked(o)[k]]
<1> DEFINE at == Ranked(o)
           out == Arranged(s, o)
           n == Len(s)
<1>1. DOMAIN s = 1..n /\ n \in Nat /\ Cardinality(1..n) = n
  <2>1. DOMAIN s = 1..n /\ n \in Nat
    BY LenProperties
  <2> HIDE DEF n
  <2>2. Cardinality(1..n) = n
    BY <2>1, FS_Interval
  <2>3. QED BY <2>1, <2>2
<1> HIDE DEF n
<1>2. Cardinality(DOMAIN o) = n
  BY <1>1
<1>3. /\ DOMAIN at = 1..n
      /\ \A k \in 1..n : at[k] \in DOMAIN o
      /\ \A x \in DOMAIN o : Place(o, x) + 1 \in 1..n /\ at[Place(o, x) + 1] = x
      /\ \A j, k \in 1..n : at[j] = at[k] => j = k
      /\ \A j, k \in 1..n : j < k <=> at[j] \in o[at[k]]
  BY <1>2, RankedLists
<1>4. out = [k \in DOMAIN at |-> s[at[k]]]
  BY DEF Arranged
<1> HIDE DEF at, out
<1>5. \A k \in 1..n : s[at[k]] \in T
  BY <1>1, <1>3, ElementOfSeq
<1>6. out = [k \in 1..n |-> s[at[k]]]
  BY <1>3, <1>4
<1>7. out \in Seq(T) /\ Len(out) = n /\ DOMAIN out = 1..n
  BY <1>1, <1>5, <1>6
<1>8. \A i \in DOMAIN s : \E k \in 1..n : at[k] = i
  BY <1>3
<1>9. Rearranges(out, s, at)
  BY <1>1, <1>3, <1>6, <1>7, <1>8 DEF Rearranges
<1>10. QED BY <1>3, <1>7, <1>9 DEF out, at, n

\* What sorting returns does not depend on where its elements were.
LEMMA ArrangedIgnoresOrder ==
  ASSUME NEW T, NEW s \in Seq(T), NEW t \in Seq(T), NEW f, Rearranges(t, s, f), Len(t) = Len(s),
         NEW o, IsOrder(o), DOMAIN o = DOMAIN s, NEW p, IsOrder(p), DOMAIN p = DOMAIN t,
         \A i, j \in DOMAIN t : j \in p[i] <=> f[j] \in o[f[i]]
  PROVE  Arranged(t, p) = Arranged(s, o)
<1> DEFINE n == Len(s)
<1>1. n \in Nat /\ DOMAIN s = 1..n /\ DOMAIN t = 1..n
  BY LenProperties
<1>2. \A i \in 1..n : f[i] \in 1..n /\ t[i] = s[f[i]]
  BY <1>1 DEF Rearranges
<1>3. \A i, j \in 1..n : f[i] = f[j] => i = j
  BY <1>1 DEF Rearranges
<1>4. \A j \in 1..n : \E i \in 1..n : f[i] = j
  BY <1>1 DEF Rearranges
<1>5. \A i \in 1..n : o[i] \subseteq 1..n /\ p[i] \subseteq 1..n
  BY <1>1 DEF IsOrder
<1>6. \A i, j \in 1..n : j \in p[i] <=> f[j] \in o[f[i]]
  BY <1>1
<1> HIDE DEF n
<1>7. \A i \in 1..n : Place(p, i) = Place(o, f[i])
  <2> TAKE i \in 1..n
  <2> DEFINE S == p[i]
             U == o[f[i]]
  <2>1. IsFiniteSet(S)
    <3>1. IsFiniteSet(1..n)
      BY <1>1, FS_Interval
    <3>2. QED BY <1>5, <3>1, FS_Subset
  <2>2. \A x \in S : f[x] \in U
    BY <1>5, <1>6
  <2>3. \A x, y \in S : f[x] = f[y] => x = y
    BY <1>3, <1>5
  <2>4. \A z \in U : \E x \in S : f[x] = z
    <3> TAKE z \in U
    <3>1. z \in 1..n
      BY <1>2, <1>5
    <3>2. PICK x \in 1..n : f[x] = z
      BY <1>4, <3>1
    <3>3. QED BY <1>6, <3>2
  <2> HIDE DEF S, U
  <2>5. Cardinality(S) = Cardinality(U)
    BY <2>1, <2>2, <2>3, <2>4, SameSize
  <2>6. QED BY <2>5 DEF S, U, Place
<1>8. Cardinality(DOMAIN o) = n /\ Cardinality(DOMAIN p) = n
  <2>1. Cardinality(1..n) = n
    BY <1>1, FS_Interval
  <2>2. QED BY <1>1, <2>1
<1>9. /\ DOMAIN Ranked(p) = 1..n
      /\ \A k \in 1..n : Ranked(p)[k] \in 1..n /\ Place(p, Ranked(p)[k]) = k - 1
  <2>1. /\ DOMAIN Ranked(p) = 1..Cardinality(DOMAIN p)
        /\ \A k \in 1..Cardinality(DOMAIN p) : Ranked(p)[k] \in DOMAIN p /\ Place(p, Ranked(p)[k]) = k - 1
    BY RankedLists
  <2>2. QED BY <1>1, <1>8, <2>1
<1>10. /\ DOMAIN Ranked(o) = 1..n
       /\ \A k \in 1..n : Ranked(o)[k] \in 1..n /\ Place(o, Ranked(o)[k]) = k - 1
  <2>1. /\ DOMAIN Ranked(o) = 1..Cardinality(DOMAIN o)
        /\ \A k \in 1..Cardinality(DOMAIN o) : Ranked(o)[k] \in DOMAIN o /\ Place(o, Ranked(o)[k]) = k - 1
    BY RankedLists
  <2>2. QED BY <1>1, <1>8, <2>1
<1>11. \A x, y \in 1..n : Place(o, y) = Place(o, x) => y = x
  <2>1. \A x, y \in DOMAIN o : Place(o, y) = Place(o, x) => y = x
    BY PlacesGrow
  <2>2. QED BY <1>1, <2>1
<1>12. \A k \in 1..n : t[Ranked(p)[k]] = s[Ranked(o)[k]]
  <2> TAKE k \in 1..n
  <2>1. Place(o, f[Ranked(p)[k]]) = k - 1 /\ f[Ranked(p)[k]] \in 1..n
    BY <1>2, <1>7, <1>9
  <2>2. f[Ranked(p)[k]] = Ranked(o)[k]
    BY <1>10, <1>11, <2>1
  <2>3. QED BY <1>2, <1>9, <2>2
<1>13. Arranged(t, p) = [k \in 1..n |-> t[Ranked(p)[k]]] /\ Arranged(s, o) = [k \in 1..n |-> s[Ranked(o)[k]]]
  BY <1>9, <1>10 DEF Arranged
<1>14. QED BY <1>12, <1>13

\* sortedAccounts forgets the order of what it sorts.
LEMMA SortIgnoresOrder ==
  ASSUME NEW T, NEW s \in Seq(T), NEW t \in Seq(T), NEW f, Rearranges(t, s, f), Len(t) = Len(s),
         \A i \in DOMAIN s : s[i].account \in Int, AccountsDiffer(s)
  PROVE  SortByAccount(t) = SortByAccount(s)
<1> DEFINE o == AccountOrder(s)
           p == AccountOrder(t)
<1>1. \A i \in DOMAIN t : f[i] \in DOMAIN s /\ t[i] = s[f[i]]
  BY DEF Rearranges
<1>2. \A i, j \in DOMAIN t : f[i] = f[j] => i = j
  BY DEF Rearranges
<1>3. IsOrder(o) /\ DOMAIN o = DOMAIN s
  BY AccountsAreOrdered
<1>4. IsOrder(p) /\ DOMAIN p = DOMAIN t
  <2>1. \A i \in DOMAIN t : t[i].account \in Int
    BY <1>1
  <2>2. QED BY <2>1, AccountsAreOrdered
<1>5. \A i, j \in DOMAIN s : j \in o[i] <=> s[j].account < s[i].account
  <2> TAKE i, j \in DOMAIN s
  <2>1. o[i] = SortedBefore(s, i)
    BY DEF AccountOrder
  <2>2. s[j].account = s[i].account => ~(j < i)
    <3>1. i \in Int /\ j \in Int
      BY LenProperties
    <3>2. QED BY <3>1 DEF AccountsDiffer
  <2>3. j \in SortedBefore(s, i) <=> (s[j].account < s[i].account \/ (s[j].account = s[i].account /\ j < i))
    BY DEF SortedBefore
  <2>4. QED BY <2>1, <2>2, <2>3
<1>6. \A i, j \in DOMAIN t : j \in p[i] <=> s[f[j]].account < s[f[i]].account
  <2> TAKE i, j \in DOMAIN t
  <2>1. p[i] = SortedBefore(t, i)
    BY DEF AccountOrder
  <2>2. t[j].account = t[i].account => ~(j < i)
    <3>1. t[j].account = t[i].account => f[i] = f[j]
      BY <1>1 DEF AccountsDiffer
    <3>2. i \in Int
      BY LenProperties
    <3>3. QED BY <1>2, <3>1, <3>2
  <2>3. j \in SortedBefore(t, i) <=> (t[j].account < t[i].account \/ (t[j].account = t[i].account /\ j < i))
    BY DEF SortedBefore
  <2>4. t[i] = s[f[i]] /\ t[j] = s[f[j]]
    BY <1>1
  <2>5. QED BY <2>1, <2>2, <2>3, <2>4
<1>7. \A i, j \in DOMAIN t : j \in p[i] <=> f[j] \in o[f[i]]
  BY <1>1, <1>5, <1>6
<1>8. Arranged(t, p) = Arranged(s, o)
  <2> HIDE DEF o, p
  <2>1. QED BY <1>3, <1>4, <1>7, ArrangedIgnoresOrder
<1>9. QED BY <1>8 DEF SortByAccount, AccountOrder

\* As many elements as before.
LEMMA RearrangedLength ==
  ASSUME NEW T, NEW s \in Seq(T), NEW t \in Seq(T), NEW f, Rearranges(t, s, f)
  PROVE  Len(t) = Len(s)
<1>1. DOMAIN s = 1..Len(s) /\ DOMAIN t = 1..Len(t) /\ Len(s) \in Nat /\ Len(t) \in Nat
  BY LenProperties
<1>2. IsFiniteSet(1..Len(t)) /\ Cardinality(1..Len(t)) = Len(t) /\ Cardinality(1..Len(s)) = Len(s)
  <2>1. \A k \in Nat : IsFiniteSet(1..k) /\ Cardinality(1..k) = k
    BY FS_Interval
  <2>2. QED BY <1>1, <2>1
<1>3. (\A i \in 1..Len(t) : f[i] \in 1..Len(s)) /\ (\A j \in 1..Len(s) : \E i \in 1..Len(t) : f[i] = j)
  BY <1>1 DEF Rearranges
<1>4. \A i, j \in 1..Len(t) : f[i] = f[j] => i = j
  BY <1>1 DEF Rearranges
<1> DEFINE S == 1..Len(t)
           U == 1..Len(s)
<1>5. /\ IsFiniteSet(S) /\ \A i \in S : f[i] \in U
      /\ \A i, j \in S : f[i] = f[j] => i = j
      /\ \A j \in U : \E i \in S : f[i] = j
  BY <1>2, <1>3, <1>4
<1> HIDE DEF S, U
<1>6. Cardinality(S) = Cardinality(U)
  BY <1>5, SameSize
<1>7. QED BY <1>2, <1>6 DEF S, U

\* A list backwards is the same list in another order.
LEMMA ReverseRearranges ==
  ASSUME NEW T, NEW s \in Seq(T)
  PROVE  Reverse(s) \in Seq(T) /\ \E f : Rearranges(Reverse(s), s, f)
<1> DEFINE n == Len(s)
           t == Reverse(s)
           f == [i \in 1..n |-> (n - i) + 1]
<1>1. n \in Nat /\ DOMAIN s = 1..n /\ \A i \in 1..n : s[i] \in T
  BY LenProperties, ElementOfSeq
<1>2. t = [i \in 1..n |-> s[(n - i) + 1]]
  BY DEF Reverse
<1> HIDE DEF n, t
<1>3. \A i \in 1..n : f[i] \in 1..n /\ f[i] = (n - i) + 1
  BY <1>1
<1>4. t \in Seq(T) /\ DOMAIN t = 1..n /\ \A i \in 1..n : t[i] = s[f[i]]
  BY <1>1, <1>2, <1>3
<1>5. \A i, j \in 1..n : f[i] = f[j] => i = j
  BY <1>1, <1>3
<1>6. \A j \in 1..n : (n - j) + 1 \in 1..n /\ f[(n - j) + 1] = j
  BY <1>1
<1> HIDE DEF f
<1>7. Rearranges(t, s, f)
  BY <1>1, <1>3, <1>4, <1>5, <1>6 DEF Rearranges
<1>8. QED BY <1>4, <1>7 DEF t

\* What is kept of a list is kept of it in another order.
LEMMA KeptRearranges ==
  ASSUME NEW T, NEW s \in Seq(T), NEW t \in Seq(T), NEW f, Rearranges(t, s, f),
         NEW S \in SUBSET DOMAIN s, NEW U \in SUBSET DOMAIN t,
         \A i \in DOMAIN t : i \in U <=> f[i] \in S
  PROVE  \E g : Rearranges(Kept(t, U), Kept(s, S), g)
<1> DEFINE a == InOrder(S)
           b == InOrder(U)
           m == Cardinality(S)
           n == Cardinality(U)
           x == Kept(s, S)
           y == Kept(t, U)
           g == [k \in 1..n |-> CHOOSE j \in 1..m : a[j] = f[b[k]]]
<1>1. DOMAIN x = 1..m /\ \A k \in 1..m : a[k] \in S /\ x[k] = s[a[k]]
  BY KeptLists
<1>2. (\A j, k \in 1..m : a[j] = a[k] => j = k) /\ (\A i \in S : \E k \in 1..m : a[k] = i)
  BY KeptLists
<1>3. DOMAIN y = 1..n /\ \A k \in 1..n : b[k] \in U /\ y[k] = t[b[k]]
  BY KeptLists
<1>4. (\A j, k \in 1..n : b[j] = b[k] => j = k) /\ (\A i \in U : \E k \in 1..n : b[k] = i)
  BY KeptLists
<1> HIDE DEF a, b, m, n, x, y
<1>5. \A k \in 1..n : g[k] \in 1..m /\ a[g[k]] = f[b[k]]
  <2> TAKE k \in 1..n
  <2>1. f[b[k]] \in S
    BY <1>3
  <2>2. \E j \in 1..m : a[j] = f[b[k]]
    BY <1>2, <2>1
  <2>3. QED BY <2>2
<1> HIDE DEF g
<1>6. \A k \in DOMAIN y : g[k] \in DOMAIN x /\ y[k] = x[g[k]]
  <2> TAKE k \in DOMAIN y
  <2>1. k \in 1..n /\ b[k] \in DOMAIN t
    BY <1>3
  <2>2. t[b[k]] = s[f[b[k]]]
    BY <2>1 DEF Rearranges
  <2>3. QED BY <1>1, <1>3, <1>5, <2>1, <2>2
<1>7. \A j, k \in DOMAIN y : g[j] = g[k] => j = k
  <2> SUFFICES ASSUME NEW j \in DOMAIN y, NEW k \in DOMAIN y, g[j] = g[k] PROVE j = k
    OBVIOUS
  <2>1. j \in 1..n /\ k \in 1..n /\ b[j] \in DOMAIN t /\ b[k] \in DOMAIN t
    BY <1>3
  <2>2. f[b[j]] = f[b[k]]
    BY <1>5, <2>1
  <2>3. b[j] = b[k]
    BY <2>1, <2>2 DEF Rearranges
  <2>4. QED BY <1>4, <2>1, <2>3
<1>8. \A j \in DOMAIN x : \E k \in DOMAIN y : g[k] = j
  <2> TAKE j \in DOMAIN x
  <2>1. j \in 1..m /\ a[j] \in S
    BY <1>1
  <2>2. PICK i \in DOMAIN t : f[i] = a[j]
    BY <2>1 DEF Rearranges
  <2>3. i \in U
    BY <2>1, <2>2
  <2>4. PICK k \in 1..n : b[k] = i
    BY <1>4, <2>3
  <2>5. a[g[k]] = a[j] /\ g[k] \in 1..m
    BY <1>5, <2>2, <2>4
  <2>6. g[k] = j
    BY <1>2, <2>1, <2>5
  <2>7. QED BY <1>3, <2>6
<1>9. Rearranges(y, x, g)
  BY <1>6, <1>7, <1>8 DEF Rearranges
<1>10. QED BY <1>9 DEF x, y

-----------------------------------------------------------------------------
(* What Allocate promises.                                                   *)

Sign(total) == IF total < 0 THEN -1 ELSE 1
Portions(total, shares) == [i \in DOMAIN shares |-> [account |-> shares[i].account,
                                                     amount  |-> Sign(total) * Portion(total, shares, i)]]
GivenTo(es, a) == Total([k \in DOMAIN es |-> IF es[k].account = a THEN es[k].amount ELSE 0])

\* Split returns the portions that are not zero, of the sign of the total, sorted.
LEMMA SplitKeeps ==
  ASSUME NEW total \in Int, NEW shares, IsShares(shares), Total(Weights(shares)) > 0
  PROVE  /\ Split(total, shares) \in Seq([account : Int, amount : Int])
         /\ Portions(total, shares) \in Seq([account : Int, amount : Int])
         /\ Len(Portions(total, shares)) = Len(shares)
         /\ \E r : Keeps(Split(total, shares), Portions(total, shares), r)
         /\ \A k \in DOMAIN Split(total, shares) : Split(total, shares)[k].amount # 0
<1> DEFINE es == Portions(total, shares)
           T == [account : Int, amount : Int]
           sorted == SortByAccount(es)
           out == NonZero(sorted)
<1>1. Split(total, shares) = out
  BY DEF Split, Portions, Sign
<1>2. DOMAIN shares = 1..Len(shares) /\ Len(shares) \in Nat
  BY DEF IsShares
<1>3. \A i \in 1..Len(shares) : shares[i].account \in Int /\ Sign(total) * Portion(total, shares, i) \in Int
  <2>1. \A i \in 1..Len(shares) : Portion(total, shares, i) \in Nat
    BY PortionsAddUp
  <2>2. Sign(total) \in Int
    BY DEF Sign
  <2>3. \A i \in 1..Len(shares) : shares[i].account \in Int
    BY <1>2 DEF IsShares
  <2>4. QED BY <2>1, <2>2, <2>3
<1>4. es \in Seq(T) /\ Len(es) = Len(shares)
  BY <1>2, <1>3 DEF Portions
<1> HIDE DEF es
<1>5. \A i \in DOMAIN es : es[i].account \in Int
  <2>1. \A i \in DOMAIN es : es[i] \in T
    BY <1>4, LenProperties
  <2>2. QED BY <2>1
<1> HIDE DEF T
<1>6. sorted \in Seq(T) /\ \E r : Keeps(sorted, es, r)
  <2>1. sorted \in Seq(T)
    BY <1>4, <1>5, SortKeeps
  <2>2. Keeps(sorted, es, Ranked(AccountOrder(es)))
    BY <1>4, <1>5, SortKeeps
  <2>3. QED BY <2>1, <2>2
<1> HIDE DEF sorted
<1>7. PICK r : Keeps(sorted, es, r)
  BY <1>6
<1>8. /\ out \in Seq(T)
      /\ \E q : Keeps(out, sorted, q)
      /\ \A k \in DOMAIN out : out[k].amount # 0
  BY <1>6, NonZeroKeeps
<1> HIDE DEF out
<1>9. PICK q : Keeps(out, sorted, q)
  BY <1>8
<1>10. Keeps(out, es, [k \in DOMAIN out |-> r[q[k]]])
  BY <1>7, <1>9, KeepsTwice
<1>11. QED BY <1>1, <1>4, <1>8, <1>10 DEF es, T

\* What a split gives: to each share its portion, to nobody else, together exactly the total.
LEMMA SplitGives ==
  ASSUME NEW total \in Int, NEW shares, IsShares(shares), Total(Weights(shares)) > 0
  PROVE  /\ Total(Amounts(Split(total, shares))) = total
         /\ \A k \in DOMAIN Split(total, shares) :
              /\ total > 0 => Split(total, shares)[k].amount > 0
              /\ total < 0 => Split(total, shares)[k].amount < 0
              /\ \E i \in 1..Len(shares) : Split(total, shares)[k].account = shares[i].account
         /\ AccountsDiffer(Split(total, shares))
         /\ \A i \in 1..Len(shares) :
              GivenTo(Split(total, shares), shares[i].account) = Sign(total) * Portion(total, shares, i)
<1> DEFINE es == Portions(total, shares)
           T == [account : Int, amount : Int]
           out == Split(total, shares)
           n == Len(shares)
           P(i) == Portion(total, shares, i)
           sg == Sign(total)
<1>1. /\ out \in Seq(T) /\ es \in Seq(T) /\ Len(es) = n
      /\ \A k \in DOMAIN out : out[k].amount # 0
  BY SplitKeeps
<1>2. PICK r : Keeps(out, es, r)
  BY SplitKeeps
<1>3. n \in Nat /\ DOMAIN shares = 1..n /\ \A i, j \in 1..n : shares[i].account = shares[j].account => i = j
  BY DEF IsShares
<1>4. /\ DOMAIN es = 1..n
      /\ \A i \in 1..n : es[i].account = shares[i].account /\ es[i].amount = sg * P(i)
  BY <1>3 DEF Portions
<1>5. (\A i \in 1..n : P(i) \in Nat) /\ Total([i \in 1..n |-> P(i)]) = Magnitude(total)
  BY PortionsAddUp
<1>6. sg \in {-1, 1} /\ sg * Magnitude(total) = total /\ (total < 0 <=> sg = -1)
  BY DEF Sign, Magnitude
<1>7. \A i \in 1..n : es[i].amount \in Int /\ sg * P(i) \in Int
  BY <1>4, <1>5, <1>6
<1>8. DOMAIN out = 1..Len(out) /\ Len(out) \in Nat /\ \A k \in DOMAIN out : out[k].amount \in Int
  <2>1. DOMAIN out = 1..Len(out) /\ Len(out) \in Nat
    BY <1>1, LenProperties
  <2>2. \A k \in 1..Len(out) : out[k] \in T
    BY <1>1, ElementOfSeq
  <2> HIDE DEF out
  <2>3. QED BY <2>1, <2>2
<1>9. \A k \in DOMAIN out : r[k] \in 1..n /\ out[k] = es[r[k]]
  BY <1>2, <1>4 DEF Keeps
<1>10. \A j, k \in DOMAIN out : r[j] = r[k] => j = k
  BY <1>2 DEF Keeps
<1> HIDE DEF es, out, n, P, sg, T
<1>11. Total(Amounts(out)) = total
  <2> DEFINE x == Amounts(out)
             y == [i \in 1..n |-> es[i].amount]
             p == [i \in 1..n |-> P(i)]
  <2>1. x \in Seq(Int) /\ Len(x) = Len(out) /\ \A k \in DOMAIN out : x[k] = out[k].amount
    BY <1>8 DEF Amounts
  <2>2. y \in Seq(Int) /\ Len(y) = n /\ \A i \in 1..n : y[i] = es[i].amount
    BY <1>3, <1>7
  <2>3. p \in Seq(Int) /\ Len(p) = n /\ \A i \in 1..n : p[i] = P(i)
    BY <1>3, <1>5
  <2> HIDE DEF x, y, p
  <2>4. Total(x) = Total(y)
    <3>1. \A k \in DOMAIN out : \A i \in DOMAIN es : out[k] = es[i] => x[k] = y[i]
      BY <1>4, <2>1, <2>2
    <3>2. \A i \in DOMAIN es : es[i].amount = 0 => y[i] = 0
      BY <1>4, <2>2
    <3>3. Len(x) = Len(out) /\ Len(y) = Len(es)
      BY <1>1, <2>1, <2>2
    <3>4. Tallies(x, y, out, es)
      BY <3>1, <3>2, <3>3 DEF Tallies
    <3>5. QED BY <1>1, <1>2, <2>1, <2>2, <3>4, KeepsTotal
  <2>5. Total(y) = sg * Total(p)
    <3>1. \A i \in 1..Len(p) : y[i] = sg * p[i]
      BY <1>4, <2>2, <2>3
    <3>2. sg \in Int /\ Len(p) = Len(y)
      BY <1>6, <2>2, <2>3
    <3>3. QED BY <2>2, <2>3, <3>1, <3>2, TotalScaled
  <2>6. Total(p) = Magnitude(total)
    BY <1>5 DEF p
  <2>7. QED BY <1>6, <2>4, <2>5, <2>6 DEF x
<1>12. ASSUME NEW k \in DOMAIN out
       PROVE  /\ total > 0 => out[k].amount > 0
              /\ total < 0 => out[k].amount < 0
              /\ \E i \in 1..n : out[k].account = shares[i].account
  <2>1. PICK i \in 1..n : out[k] = es[i]
    BY <1>9
  <2>2. out[k].amount = sg * P(i) /\ out[k].amount # 0 /\ out[k].account = shares[i].account
    BY <1>1, <1>4, <2>1
  <2>3. P(i) \in Nat
    BY <1>5
  <2>4. CASE sg = 1
    BY <1>6, <2>2, <2>3, <2>4
  <2>5. CASE sg = -1
    BY <1>6, <2>2, <2>3, <2>5
  <2>6. QED BY <1>6, <2>4, <2>5
<1>13. AccountsDiffer(out)
  <2> SUFFICES ASSUME NEW j \in DOMAIN out, NEW k \in DOMAIN out, out[j].account = out[k].account PROVE j = k
    BY DEF AccountsDiffer
  <2>1. shares[r[j]].account = shares[r[k]].account
    BY <1>4, <1>9
  <2>2. r[j] = r[k]
    BY <1>3, <1>9, <2>1
  <2>3. QED BY <1>10, <2>2
<1>14. ASSUME NEW i \in 1..n PROVE GivenTo(out, shares[i].account) = sg * P(i)
  <2> DEFINE a == shares[i].account
             x == [k \in DOMAIN out |-> IF out[k].account = a THEN out[k].amount ELSE 0]
             y == [j \in 1..n |-> IF es[j].account = a THEN es[j].amount ELSE 0]
             z == [j \in 1..n |-> 0]
  <2>1. x \in Seq(Int) /\ Len(x) = Len(out)
        /\ \A k \in DOMAIN out : x[k] = IF out[k].account = a THEN out[k].amount ELSE 0
    BY <1>8
  <2>2. y \in Seq(Int) /\ Len(y) = n /\ \A j \in 1..n : y[j] = IF es[j].account = a THEN es[j].amount ELSE 0
    BY <1>3, <1>7
  <2>3. z \in Seq(Int) /\ Len(z) = n /\ \A j \in 1..n : z[j] = 0
    BY <1>3
  <2>4. y[i] = sg * P(i) /\ \A j \in 1..n : j # i => y[j] = 0
    BY <1>3, <1>4, <2>2
  <2>5. GivenTo(out, a) = Total(x)
    BY DEF GivenTo
  <2> HIDE DEF x, y, z, a
  <2>6. Total(x) = Total(y)
    <3>1. \A k \in DOMAIN out : \A j \in DOMAIN es : out[k] = es[j] => x[k] = y[j]
      <4> TAKE k \in DOMAIN out
      <4>1. x[k] = IF out[k].account = a THEN out[k].amount ELSE 0
        BY <2>1
      <4> TAKE j \in DOMAIN es
      <4>2. y[j] = IF es[j].account = a THEN es[j].amount ELSE 0
        BY <1>4, <2>2
      <4>3. QED BY <4>1, <4>2
    <3>2. \A j \in DOMAIN es : es[j].amount = 0 => y[j] = 0
      BY <1>4, <2>2
    <3>3. Len(x) = Len(out) /\ Len(y) = Len(es)
      BY <1>1, <2>1, <2>2
    <3>4. Tallies(x, y, out, es)
      BY <3>1, <3>2, <3>3 DEF Tallies
    <3>5. QED BY <1>1, <1>2, <2>1, <2>2, <3>4, KeepsTotal
  <2>7. Total(z) = 0
    BY <2>3, TotalZero
  <2>8. Total(y) = Total(z) + sg * P(i)
    <3> DEFINE d == sg * P(i)
    <3>1. d \in Int /\ i \in 1..Len(z) /\ Len(z) = Len(y) /\ y[i] = z[i] + d
      BY <1>7, <2>2, <2>3, <2>4
    <3>2. \A j \in 1..Len(z) : j # i => y[j] = z[j]
      BY <2>3, <2>4
    <3> HIDE DEF d
    <3>3. Total(y) = Total(z) + d
      BY <2>2, <2>3, <3>1, <3>2, TotalPoint
    <3>4. QED BY <3>3 DEF d
  <2>9. sg * P(i) \in Int
    BY <1>7
  <2>10. QED BY <2>5, <2>6, <2>7, <2>8, <2>9 DEF a
<1>15. QED BY <1>11, <1>12, <1>13, <1>14 DEF out, n, P, sg

\* ledger.Allocate loses and invents nothing: what it returns adds up to exactly the total, and no
\* entry is zero or has the other sign, whatever the shares, the weights and the width of the integer.
THEOREM AllocateIsExact ==
  ASSUME NEW total \in Int, NEW shares, IsShares(shares), NEW empty,
         Allocate(total, shares, empty) # Refused
  PROVE  /\ Total(Amounts(Allocate(total, shares, empty))) = total
         /\ \A k \in DOMAIN Allocate(total, shares, empty) :
              /\ total > 0 => Allocate(total, shares, empty)[k].amount > 0
              /\ total < 0 => Allocate(total, shares, empty)[k].amount < 0
<1> DEFINE out == Allocate(total, shares, empty)
<1>1. total # 0 /\ SummableWeights(shares)
  BY DEF Allocate
<1>2. ASSUME NEW a, out = <<[account |-> a, amount |-> total]>>
      PROVE  /\ Total(Amounts(out)) = total
             /\ \A k \in DOMAIN out : (total > 0 => out[k].amount > 0) /\ (total < 0 => out[k].amount < 0)
  <2>1. Len(out) = 1 /\ DOMAIN out = 1..1 /\ out[1].amount = total
    BY <1>2
  <2> HIDE DEF out
  <2>2. Amounts(out) \in Seq(Int) /\ Len(Amounts(out)) = 1 /\ \A i \in 1..Len(Amounts(out)) : Amounts(out)[i] = total
    BY <2>1 DEF Amounts
  <2>3. Total(Amounts(out)) = total * Len(Amounts(out))
    BY <2>2, TotalConstant
  <2>4. QED BY <2>1, <2>2, <2>3
<1>3. CASE shares = <<>>
  <2>1. out = <<[account |-> empty, amount |-> total]>>
    BY <1>1, <1>3 DEF Allocate
  <2> HIDE DEF out
  <2>2. QED BY <1>2, <2>1 DEF out
<1>4. CASE shares # <<>> /\ Total(Weights(shares)) = 0
  <2>1. out = <<[account |-> Residue, amount |-> total]>>
    BY <1>1, <1>4 DEF Allocate
  <2> HIDE DEF out
  <2>2. QED BY <1>2, <2>1 DEF out
<1>5. CASE shares # <<>> /\ Total(Weights(shares)) # 0
  <2>1. out = Split(total, shares)
    BY <1>1, <1>5 DEF Allocate
  <2>2. Total(Weights(shares)) > 0
    <3> DEFINE w == Weights(shares)
               z == [i \in 1..Len(shares) |-> 0]
    <3>1. w \in Seq(Int) /\ z \in Seq(Int) /\ Len(z) = Len(w) /\ \A i \in 1..Len(z) : z[i] = 0 /\ z[i] <= w[i]
      BY DEF Weights, IsShares
    <3> HIDE DEF w, z
    <3>2. Total(z) = 0 /\ Total(z) <= Total(w) /\ Total(w) \in Int
      <4>1. Total(z) = 0
        BY <3>1, TotalZero
      <4>2. Total(z) <= Total(w)
        BY <3>1, TotalMonotone
      <4>3. QED BY <3>1, <4>1, <4>2, TotalType
    <3>3. QED BY <1>5, <3>2 DEF w
  <2>3. /\ Total(Amounts(Split(total, shares))) = total
        /\ \A k \in DOMAIN Split(total, shares) :
             /\ total > 0 => Split(total, shares)[k].amount > 0
             /\ total < 0 => Split(total, shares)[k].amount < 0
    BY <2>2, SplitGives
  <2>4. QED BY <2>1, <2>3
<1>6. QED BY <1>3, <1>4, <1>5

\* Over shares with some weight, an accepted split is one by largest remainder.
LEMMA AllocateSplits ==
  ASSUME NEW total \in Int, NEW shares, IsShares(shares), Total(Weights(shares)) > 0, NEW empty,
         Allocate(total, shares, empty) # Refused
  PROVE  Allocate(total, shares, empty) = Split(total, shares)
<1> DEFINE sum == Total(Weights(shares))
<1>1. shares # <<>>
  <2>1. SUFFICES ASSUME shares = <<>> PROVE FALSE
    OBVIOUS
  <2>2. Weights(shares) \in Seq(Int) /\ \A i \in 1..Len(Weights(shares)) : Weights(shares)[i] = 0
    BY <2>1 DEF Weights
  <2>3. sum = 0
    BY <2>2, TotalZero
  <2>4. QED BY <2>3
<1>2. sum # 0
  OBVIOUS
<1> HIDE DEF sum
<1>3. QED BY <1>1, <1>2 DEF Allocate, sum

\* It is fair, over any shares with some weight: nobody is a centipoint or more from their exact
\* share, a share is rounded up only past another whose remainder is no larger, and nobody else
\* is given anything.
THEOREM AllocateIsFair ==
  ASSUME NEW total \in Int, NEW shares, IsShares(shares), Total(Weights(shares)) > 0, NEW empty,
         Allocate(total, shares, empty) # Refused
  PROVE  LET out     == Allocate(total, shares, empty)
             sum     == Total(Weights(shares))
             Got(i)   == Magnitude(GivenTo(out, shares[i].account))
             Exact(i) == Magnitude(total) * shares[i].weight
         IN  /\ \A k \in DOMAIN out : \E i \in 1..Len(shares) : out[k].account = shares[i].account
             /\ \A i \in 1..Len(shares) : sum * Got(i) - Exact(i) \in (1 - sum)..(sum - 1)
             /\ \A i, j \in 1..Len(shares) :
                  sum * Got(i) > Exact(i) /\ sum * Got(j) <= Exact(j) => Exact(i) % sum >= Exact(j) % sum
<1> DEFINE out == Allocate(total, shares, empty)
           sum == Total(Weights(shares))
           n == Len(shares)
           Got(i) == Magnitude(GivenTo(out, shares[i].account))
           Exact(i) == Magnitude(total) * shares[i].weight
           P(i) == Portion(total, shares, i)
           Up(i) == RoundedUp(total, shares, i)
<1>1. out = Split(total, shares)
  BY AllocateSplits
<1> HIDE DEF out
<1>2. \A k \in DOMAIN out : \E i \in 1..n : out[k].account = shares[i].account
  <2>1. \A k \in DOMAIN Split(total, shares) : \E i \in 1..n : Split(total, shares)[k].account = shares[i].account
    BY SplitGives
  <2>2. QED BY <1>1, <2>1
<1>3. \A i \in 1..n : Got(i) = P(i)
  <2> TAKE i \in 1..n
  <2>1. GivenTo(out, shares[i].account) = Sign(total) * P(i)
    <3>1. \A j \in 1..n : GivenTo(Split(total, shares), shares[j].account) = Sign(total) * Portion(total, shares, j)
      BY SplitGives
    <3>2. QED BY <1>1, <3>1
  <2>2. P(i) \in Nat
    BY PortionsAddUp
  <2> HIDE DEF P
  <2>3. QED BY <2>1, <2>2 DEF Sign, Magnitude
<1>4. \A i \in 1..n : /\ sum * P(i) - Exact(i) \in (1 - sum)..(sum - 1)
                      /\ Up(i) <=> sum * P(i) > Exact(i)
  <2> TAKE i \in 1..n
  <2>1. sum * P(i) - Exact(i) \in (1 - sum)..(sum - 1)
    BY PortionsAreClose
  <2>2. Up(i) <=> sum * P(i) > Exact(i)
    BY PortionsAreClose
  <2>3. QED BY <2>1, <2>2
<1>5. ASSUME NEW i \in 1..n, NEW j \in 1..n, Up(i), ~Up(j)
      PROVE  Exact(i) % sum >= Exact(j) % sum
  <2> DEFINE o == RoundingOrder(total, shares)
             R(x) == Remainder(total, shares, x)
  <2>1. SUFFICES ASSUME R(i) < R(j) PROVE FALSE
    <3>1. \A x \in 1..n : R(x) = Exact(x) % sum
      BY DEF Remainder
    <3>2. \A x \in 1..n : R(x) \in 0..(sum - 1) /\ sum \in Nat
      BY ExactShares
    <3> HIDE DEF R, Exact, sum
    <3>3. \A x \in 1..n : R(x) \in Int
      BY <3>2
    <3>4. R(i) \in Int /\ R(j) \in Int /\ R(i) = Exact(i) % sum /\ R(j) = Exact(j) % sum
      BY <3>1, <3>3
    <3>5. QED BY <3>4
  <2>2. j \in o[i]
    BY <2>1 DEF RoundingOrder, RoundedBefore, IsShares
  <2>3. /\ IsOrder(o) /\ DOMAIN o = 1..n
        /\ \A x \in 1..n : Place(o, x) = Cardinality(RoundedBefore(total, shares, x))
    BY RoundingIsAnOrder
  <2> HIDE DEF o, R
  <2>4. /\ \A x \in DOMAIN o : Place(o, x) \in 0..(Cardinality(DOMAIN o) - 1)
        /\ \A x, y \in DOMAIN o : y \in o[x] <=> Place(o, y) < Place(o, x)
    BY <2>3, PlacesGrow
  <2>5. Place(o, j) < Place(o, i) /\ Place(o, i) \in Int /\ Place(o, j) \in Int
    BY <2>2, <2>3, <2>4
  <2>6. Shortfall(total, shares) \in Int
    <3>1. Shortfall(total, shares) \in 0..(n - 1)
      BY ShortfallBound
    <3>2. QED BY <3>1
  <2>7. Place(o, i) < Shortfall(total, shares)
    BY <1>5, <2>3 DEF RoundedUp
  <2>8. Place(o, j) < Shortfall(total, shares)
    BY <2>5, <2>6, <2>7
  <2>9. QED BY <1>5, <2>3, <2>8 DEF RoundedUp
<1>6. \A i \in 1..n : sum * Got(i) - Exact(i) \in (1 - sum)..(sum - 1)
  BY <1>3, <1>4
<1>7. \A i, j \in 1..n : sum * Got(i) > Exact(i) /\ sum * Got(j) <= Exact(j) => Exact(i) % sum >= Exact(j) % sum
  <2> SUFFICES ASSUME NEW i \in 1..n, NEW j \in 1..n, sum * Got(i) > Exact(i), sum * Got(j) <= Exact(j)
               PROVE  Exact(i) % sum >= Exact(j) % sum
    OBVIOUS
  <2>1. Got(i) = P(i) /\ Got(j) = P(j)
    BY <1>3
  <2>2. Up(i)
    BY <1>4, <2>1
  <2>3. ~Up(j)
    <3>1. Exact(j) \in Int /\ sum * P(j) \in Int
      <4>1. P(j) \in Nat
        BY PortionsAddUp
      <4>2. Magnitude(total) \in Nat /\ sum \in Nat /\ shares[j].weight \in Nat
        BY ExactShares DEF IsShares
      <4> HIDE DEF P, sum
      <4>3. QED BY <4>1, <4>2
    <3>2. Up(j) => sum * P(j) > Exact(j)
      BY <1>4
    <3>3. sum * P(j) <= Exact(j)
      BY <2>1
    <3> HIDE DEF P, Exact, sum, Got, Up
    <3>4. QED BY <3>1, <3>2, <3>3
  <2>4. QED BY <1>5, <2>2, <2>3
<1> HIDE DEF n, Got, Exact, sum
<1>8. QED BY <1>2, <1>6, <1>7 DEF n, Got, Exact, sum, out
=============================================================================
