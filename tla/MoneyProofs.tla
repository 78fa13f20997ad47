----------------------------- MODULE MoneyProofs -----------------------------
(***************************************************************************)
(* Lemmas about sums (Money), by induction over the naturals.  A proof by  *)
(* induction names the SET of the numbers, or sequences, the claim holds   *)
(* of, and shows that it is all of them.                                   *)
(***************************************************************************)
EXTENDS Money, SequenceTheorems, FiniteSetTheorems, WellFoundedInduction, TLAPS

-----------------------------------------------------------------------------
(* Induction.                                                                *)

\* A set of naturals with an element has a least one.
LEMMA LeastNatural ==
  ASSUME NEW T \in SUBSET Nat, NEW k \in T
  PROVE  \E n \in T : \A m \in T : n <= m
<1> DEFINE R == OpToRel(<, Nat)
<1>1. IsWellFoundedOn(R, Nat)
  BY NatLessThanWellFounded
<1>2. \E x \in T : \A y \in T : ~(<<y, x>> \in R)
  <2> HIDE DEF R
  <2> QED BY <1>1, WFMin
<1>3. \A x, y \in Nat : y < x => <<y, x>> \in R
  BY DEF OpToRel
<1> HIDE DEF R
<1>4. PICK x \in T : \A y \in T : ~(<<y, x>> \in R)
  BY <1>2
<1>5. ASSUME NEW m \in T, m < x PROVE FALSE
  <2>1. m \in Nat /\ x \in Nat
    OBVIOUS
  <2>2. <<m, x>> \in R
    BY <2>1, <1>3, <1>5
  <2>3. QED
    BY <2>2, <1>4
<1>6. QED
  BY <1>4, <1>5

\* A set that has 0 and the successor of each natural it has, has every natural.
LEMMA NatInductive ==
  ASSUME NEW T, 0 \in T, \A n \in Nat : n \in T => n + 1 \in T
  PROVE  Nat \subseteq T
<1>1. SUFFICES ASSUME NEW k \in Nat \ T PROVE FALSE
  OBVIOUS
<1>2. PICK n \in Nat \ T : \A m \in Nat \ T : n <= m
  BY LeastNatural
<1>3. n # 0 /\ n - 1 \in Nat /\ n - 1 \in T
  BY <1>2
<1>4. QED
  BY <1>3

\* A set of sequences that has the empty one and each extension of one it has, has all.
LEMMA SeqInductive ==
  ASSUME NEW S, NEW T, <<>> \in T, \A s \in Seq(S), x \in S : s \in T => Append(s, x) \in T
  PROVE  Seq(S) \subseteq T
<1> DEFINE N == {n \in Nat : \A s \in Seq(S) : Len(s) = n => s \in T}
<1>1. 0 \in N
  BY EmptySeq
<1>2. ASSUME NEW n \in Nat, n \in N PROVE n + 1 \in N
  <2>1. SUFFICES ASSUME NEW s \in Seq(S), Len(s) = n + 1 PROVE s \in T
    OBVIOUS
  <2>2. s # <<>>
    BY <2>1, EmptySeq
  <2>3. PICK t \in Seq(S), x \in S : s = Append(t, x)
    BY <2>2, SequenceEmptyOrAppend
  <2>4. Len(t) = n
    BY <2>1, <2>3, AppendProperties, LenProperties
  <2>5. QED
    BY <1>2, <2>3, <2>4
<1>3. Nat \subseteq N
  <2> HIDE DEF N
  <2>1. QED BY <1>1, <1>2, NatInductive
<1>4. QED
  BY <1>3, LenProperties

-----------------------------------------------------------------------------
(* Total.                                                                    *)

\* f holds the running sums of s up to its n-th element.
Running(f, s, n) == f = [i \in 0..n |-> IF i = 0 THEN 0 ELSE f[i - 1] + s[i]]

\* The recursion of Total is well defined.
LEMMA RunningExists ==
  ASSUME NEW s, NEW n \in Nat
  PROVE  \E f : Running(f, s, n)
<1> DEFINE N == {k \in Nat : \E f : Running(f, s, k)}
<1>1. 0 \in N
  <2>1. Running([i \in 0..0 |-> 0], s, 0)
    BY DEF Running
  <2>2. QED BY <2>1
<1>2. ASSUME NEW k \in Nat, k \in N PROVE k + 1 \in N
  <2>1. PICK f : Running(f, s, k)
    BY <1>2
  <2> DEFINE g == [i \in 0..(k + 1) |-> IF i = k + 1 THEN f[k] + s[k + 1] ELSE f[i]]
  <2>2. \A i \in 0..k : f[i] = IF i = 0 THEN 0 ELSE f[i - 1] + s[i]
    BY <2>1 DEF Running
  <2>3. \A i \in 0..(k + 1) : g[i] = IF i = 0 THEN 0 ELSE g[i - 1] + s[i]
    <3> TAKE i \in 0..(k + 1)
    <3>1. CASE i = k + 1
      BY <3>1
    <3>2. CASE i \in 0..k
      BY <3>2, <2>2
    <3>3. QED BY <3>1, <3>2
  <2>4. g = [i \in 0..(k + 1) |-> g[i]]
    OBVIOUS
  <2> HIDE DEF g
  <2>5. Running(g, s, k + 1)
    BY <2>3, <2>4 DEF Running
  <2>6. QED BY <2>5
<1>3. Nat \subseteq N
  <2> HIDE DEF N
  <2>1. QED BY <1>1, <1>2, NatInductive
<1>4. QED BY <1>3

\* What the running sums start with and how they go on.
LEMMA RunningStep ==
  ASSUME NEW f, NEW s, NEW n \in Nat, Running(f, s, n)
  PROVE  f[0] = 0 /\ \A i \in 1..n : f[i] = f[i - 1] + s[i]
  BY DEF Running

\* Total unfolds to running sums.
LEMMA TotalIsRunning ==
  ASSUME NEW s, Len(s) \in Nat
  PROVE  \E f : Running(f, s, Len(s)) /\ Total(s) = f[Len(s)]
<1> DEFINE g == CHOOSE f : Running(f, s, Len(s))
<1>1. Running(g, s, Len(s))
  BY RunningExists
<1>2. Total(s) = g[Len(s)]
  BY DEF Total, Running
<1>3. QED BY <1>1, <1>2

\* Sequences that agree up to n have the same running sums up to n.
LEMMA RunningAgree ==
  ASSUME NEW s, NEW t, NEW n \in Nat, NEW m \in Nat, NEW l \in Nat, n <= m, n <= l,
         NEW f, Running(f, s, m), NEW g, Running(g, t, l), \A i \in 1..n : s[i] = t[i]
  PROVE  f[n] = g[n]
<1> DEFINE N == {k \in Nat : k <= n => f[k] = g[k]}
<1>1. 0 \in N
  BY DEF Running
<1>2. ASSUME NEW k \in Nat, k \in N PROVE k + 1 \in N
  <2>1. SUFFICES ASSUME k + 1 <= n PROVE f[k + 1] = g[k + 1]
    OBVIOUS
  <2>2. f[k] = g[k] /\ s[k + 1] = t[k + 1]
    BY <1>2, <2>1
  <2>3. f[k + 1] = f[k] + s[k + 1]
    BY <2>1 DEF Running
  <2>4. g[k + 1] = g[k] + t[k + 1]
    BY <2>1 DEF Running
  <2>5. QED BY <2>2, <2>3, <2>4
<1>3. Nat \subseteq N
  <2> HIDE DEF N
  <2>1. QED BY <1>1, <1>2, NatInductive
<1>4. QED BY <1>3

\* The sum of nothing.
LEMMA TotalEmpty == Total(<<>>) = 0
<1>1. Len(<<>>) = 0
  OBVIOUS
<1>2. PICK f : Running(f, <<>>, 0) /\ Total(<<>>) = f[0]
  BY <1>1, TotalIsRunning
<1>3. QED BY <1>2 DEF Running

\* The sum of one element more.
LEMMA TotalExtend ==
  ASSUME NEW s, NEW t, Len(t) \in Nat, Len(s) = Len(t) + 1, \A i \in 1..Len(t) : s[i] = t[i]
  PROVE  Total(s) = Total(t) + s[Len(s)]
<1>1. PICK f : Running(f, s, Len(s)) /\ Total(s) = f[Len(s)]
  BY TotalIsRunning
<1>2. PICK g : Running(g, t, Len(t)) /\ Total(t) = g[Len(t)]
  BY TotalIsRunning
<1>3. f[Len(t)] = g[Len(t)]
  <2> DEFINE n == Len(t)
  <2>1. n \in Nat /\ n + 1 \in Nat /\ n <= n + 1 /\ n <= n
    OBVIOUS
  <2>2. Running(f, s, n + 1) /\ Running(g, t, n) /\ \A i \in 1..n : s[i] = t[i]
    BY <1>1, <1>2
  <2> HIDE DEF n
  <2>3. f[n] = g[n]
    BY <2>1, <2>2, RunningAgree, SMTT(30)
  <2>4. QED BY <2>3 DEF n
<1>4. f[Len(s)] = f[Len(t)] + s[Len(s)]
  BY <1>1 DEF Running
<1>5. QED BY <1>1, <1>2, <1>3, <1>4

\* The running sums of a sequence of integers: what the inductions below unfold Total to.
LEMMA RunningSums ==
  ASSUME NEW s \in Seq(Int)
  PROVE  \E f \in [0..Len(s) -> Int] :
           /\ f[0] = 0 /\ Total(s) = f[Len(s)]
           /\ \A i \in 1..Len(s) : f[i] = f[i - 1] + s[i]
<1>1. Len(s) \in Nat /\ \A i \in 1..Len(s) : s[i] \in Int
  BY LenProperties, ElementOfSeq
<1>2. PICK f : Running(f, s, Len(s)) /\ Total(s) = f[Len(s)]
  BY <1>1, TotalIsRunning
<1>3. f[0] = 0 /\ \A i \in 1..Len(s) : f[i] = f[i - 1] + s[i]
  BY <1>1, <1>2, RunningStep
<1> DEFINE N == {k \in Nat : k <= Len(s) => f[k] \in Int}
<1>4. 0 \in N
  BY <1>3
<1>5. ASSUME NEW k \in Nat, k \in N PROVE k + 1 \in N
  <2>1. SUFFICES ASSUME k + 1 <= Len(s) PROVE f[k + 1] \in Int
    OBVIOUS
  <2>2. f[k] \in Int /\ s[k + 1] \in Int /\ f[k + 1] = f[k] + s[k + 1]
    BY <1>1, <1>3, <1>5, <2>1
  <2>3. QED BY <2>2
<1>6. Nat \subseteq N
  <2> HIDE DEF N
  <2>1. QED BY <1>4, <1>5, NatInductive
<1>7. f = [i \in 0..Len(s) |-> f[i]]
  BY <1>2 DEF Running
<1>8. f \in [0..Len(s) -> Int]
  BY <1>1, <1>6, <1>7
<1>9. QED BY <1>2, <1>3, <1>8

\* The sum of a sequence of integers is an integer.
LEMMA TotalType == ASSUME NEW s \in Seq(Int) PROVE Total(s) \in Int
<1>1. Len(s) \in Nat
  BY LenProperties
<1>2. QED BY <1>1, RunningSums

\* The sum of a sequence with one integer appended.
LEMMA TotalAppend ==
  ASSUME NEW s \in Seq(Int), NEW x \in Int
  PROVE  Total(Append(s, x)) = Total(s) + x
<1> DEFINE t == Append(s, x)
<1>1. Len(s) \in Nat /\ Len(t) = Len(s) + 1 /\ t[Len(t)] = x /\ \A i \in 1..Len(s) : t[i] = s[i]
  BY AppendProperties, LenProperties
<1> HIDE DEF t
<1>2. Total(t) = Total(s) + t[Len(t)]
  BY <1>1, TotalExtend
<1>3. QED BY <1>1, <1>2 DEF t

\* Sums of as many elements compare as the elements do.
LEMMA TotalMonotone ==
  ASSUME NEW s \in Seq(Int), NEW t \in Seq(Int), Len(s) = Len(t),
         \A i \in 1..Len(s) : s[i] <= t[i]
  PROVE  Total(s) <= Total(t)
<1>1. Len(s) \in Nat /\ \A i \in 1..Len(s) : s[i] \in Int /\ t[i] \in Int
  BY LenProperties, ElementOfSeq
<1>2. PICK f \in [0..Len(s) -> Int] : /\ f[0] = 0 /\ Total(s) = f[Len(s)]
                                      /\ \A i \in 1..Len(s) : f[i] = f[i - 1] + s[i]
  BY RunningSums
<1>3. PICK g \in [0..Len(t) -> Int] : /\ g[0] = 0 /\ Total(t) = g[Len(t)]
                                      /\ \A i \in 1..Len(t) : g[i] = g[i - 1] + t[i]
  BY RunningSums
<1> DEFINE N == {k \in Nat : k <= Len(s) => f[k] <= g[k]}
<1>4. 0 \in N
  BY <1>2, <1>3
<1>5. ASSUME NEW k \in Nat, k \in N PROVE k + 1 \in N
  <2>1. SUFFICES ASSUME k + 1 <= Len(s) PROVE f[k + 1] <= g[k + 1]
    OBVIOUS
  <2>0. k + 1 \in 1..Len(s) /\ k \in 0..Len(s) /\ k \in 0..Len(t) /\ k + 1 - 1 = k
    BY <1>1, <2>1
  <2>2. s[k + 1] \in Int /\ t[k + 1] \in Int /\ s[k + 1] <= t[k + 1]
    BY <1>1, <2>0
  <2>3. f[k + 1] = f[k] + s[k + 1] /\ g[k + 1] = g[k] + t[k + 1]
    BY <1>2, <1>3, <2>0
  <2>4. f[k] \in Int /\ g[k] \in Int
    BY <2>0
  <2>5. f[k] <= g[k]
    BY <1>1, <1>5, <2>1
  <2>6. QED BY <2>2, <2>3, <2>4, <2>5
<1>6. Nat \subseteq N
  <2> HIDE DEF N
  <2>1. QED BY <1>4, <1>5, NatInductive
<1>7. QED BY <1>1, <1>2, <1>3, <1>6

\* The sum of the sums of two columns is the sum of what their rows add up to.
LEMMA TotalPlus ==
  ASSUME NEW s \in Seq(Int), NEW t \in Seq(Int), NEW u \in Seq(Int),
         Len(s) = Len(u), Len(t) = Len(u), \A i \in 1..Len(u) : u[i] = s[i] + t[i]
  PROVE  Total(u) = Total(s) + Total(t)
<1>1. Len(u) \in Nat /\ \A i \in 1..Len(u) : s[i] \in Int /\ t[i] \in Int
  BY LenProperties, ElementOfSeq
<1>2. PICK f \in [0..Len(s) -> Int] : /\ f[0] = 0 /\ Total(s) = f[Len(s)]
                                      /\ \A i \in 1..Len(s) : f[i] = f[i - 1] + s[i]
  BY RunningSums
<1>3. PICK g \in [0..Len(t) -> Int] : /\ g[0] = 0 /\ Total(t) = g[Len(t)]
                                      /\ \A i \in 1..Len(t) : g[i] = g[i - 1] + t[i]
  BY RunningSums
<1>4. PICK h \in [0..Len(u) -> Int] : /\ h[0] = 0 /\ Total(u) = h[Len(u)]
                                      /\ \A i \in 1..Len(u) : h[i] = h[i - 1] + u[i]
  BY RunningSums
<1> DEFINE N == {k \in Nat : k <= Len(u) => h[k] = f[k] + g[k]}
<1>5. 0 \in N
  BY <1>2, <1>3, <1>4
<1>6. ASSUME NEW k \in Nat, k \in N PROVE k + 1 \in N
  <2>1. SUFFICES ASSUME k + 1 <= Len(u) PROVE h[k + 1] = f[k + 1] + g[k + 1]
    OBVIOUS
  <2>0. k + 1 \in 1..Len(u) /\ k \in 0..Len(u) /\ k + 1 - 1 = k
    BY <1>1, <2>1
  <2>2. s[k + 1] \in Int /\ t[k + 1] \in Int /\ u[k + 1] = s[k + 1] + t[k + 1]
    BY <1>1, <2>0
  <2>3. f[k + 1] = f[k] + s[k + 1]
    BY <1>2, <2>0
  <2>4. g[k + 1] = g[k] + t[k + 1]
    BY <1>3, <2>0
  <2>5. h[k + 1] = h[k] + u[k + 1]
    BY <1>4, <2>0
  <2>6. f[k] \in Int /\ g[k] \in Int
    BY <2>0
  <2>7. h[k] = f[k] + g[k]
    BY <1>1, <1>6, <2>1
  <2>8. QED BY <2>2, <2>3, <2>4, <2>5, <2>6, <2>7
<1>7. Nat \subseteq N
  <2> HIDE DEF N
  <2>1. QED BY <1>5, <1>6, NatInductive
<1>8. QED BY <1>1, <1>2, <1>3, <1>4, <1>7

\* Adding d to one element adds d to the sum.
LEMMA TotalPoint ==
  ASSUME NEW s \in Seq(Int), NEW t \in Seq(Int), Len(s) = Len(t),
         NEW c \in 1..Len(s), NEW d \in Int, t[c] = s[c] + d,
         \A i \in 1..Len(s) : i # c => t[i] = s[i]
  PROVE  Total(t) = Total(s) + d
<1>1. Len(s) \in Nat /\ \A i \in 1..Len(s) : s[i] \in Int /\ t[i] \in Int
  BY LenProperties, ElementOfSeq
<1>2. PICK f \in [0..Len(s) -> Int] : /\ f[0] = 0 /\ Total(s) = f[Len(s)]
                                      /\ \A i \in 1..Len(s) : f[i] = f[i - 1] + s[i]
  BY RunningSums
<1>3. PICK g \in [0..Len(t) -> Int] : /\ g[0] = 0 /\ Total(t) = g[Len(t)]
                                      /\ \A i \in 1..Len(t) : g[i] = g[i - 1] + t[i]
  BY RunningSums
<1> DEFINE N == {k \in Nat : k <= Len(s) => g[k] = f[k] + (IF c <= k THEN d ELSE 0)}
<1>4. 0 \in N
  BY <1>2, <1>3
<1>5. ASSUME NEW k \in Nat, k \in N PROVE k + 1 \in N
  <2>1. SUFFICES ASSUME k + 1 <= Len(s)
                 PROVE  g[k + 1] = f[k + 1] + (IF c <= k + 1 THEN d ELSE 0)
    OBVIOUS
  <2>2. k + 1 \in 1..Len(s) /\ k \in 0..Len(s) /\ k + 1 - 1 = k
    BY <1>1, <2>1
  <2>3. f[k + 1] = f[k] + s[k + 1]
    BY <1>2, <2>2
  <2>4. g[k + 1] = g[k] + t[k + 1]
    BY <1>3, <2>2
  <2>5. f[k] \in Int /\ g[k] \in Int /\ s[k + 1] \in Int
    BY <1>1, <2>2
  <2>6. g[k] = f[k] + (IF c <= k THEN d ELSE 0)
    BY <1>1, <1>5, <2>1
  <2>7. CASE c = k + 1
    <3>1. t[k + 1] = s[k + 1] + d /\ c <= k + 1 /\ ~(c <= k)
      BY <2>7
    <3>2. g[k] = f[k]
      BY <2>5, <2>6, <3>1
    <3>3. QED BY <2>3, <2>4, <2>5, <3>1, <3>2
  <2>8. CASE c # k + 1
    <3>1. t[k + 1] = s[k + 1] /\ (c <= k + 1 <=> c <= k)
      BY <1>1, <2>2, <2>8
    <3>2. g[k + 1] = g[k] + s[k + 1]
      BY <2>4, <3>1
    <3> DEFINE e == IF c <= k THEN d ELSE 0
    <3>3. e \in Int /\ g[k] = f[k] + e
      BY <2>6
    <3>4. (IF c <= k + 1 THEN d ELSE 0) = e
      BY <3>1
    <3> HIDE DEF e
    <3>5. g[k + 1] = f[k + 1] + e
      <4> DEFINE x == f[k]
                 y == s[k + 1]
      <4>1. x \in Int /\ y \in Int /\ g[k + 1] = (x + e) + y /\ f[k + 1] = x + y
        BY <2>3, <2>5, <3>2, <3>3
      <4> HIDE DEF x, y
      <4>2. QED BY <3>3, <4>1
    <3>6. QED BY <3>4, <3>5
  <2>9. QED BY <2>7, <2>8
<1>6. Len(s) \in N
  <2>1. Nat \subseteq N
    <3> HIDE DEF N
    <3>1. QED BY <1>4, <1>5, NatInductive
  <2>2. QED BY <1>1, <2>1
<1>7. g[Len(s)] = f[Len(s)] + d
  BY <1>1, <1>6
<1>8. QED BY <1>2, <1>3, <1>7

\* A sequence of zeros adds up to zero.
LEMMA TotalZero ==
  ASSUME NEW s \in Seq(Int), \A i \in 1..Len(s) : s[i] = 0
  PROVE  Total(s) = 0
<1>1. Total(s) = Total(s) + Total(s)
  BY TotalPlus
<1>2. QED BY <1>1, TotalType

\* Two sums are equal when f matches the elements of y, each once, with equal elements of x, and
\* what is not matched is zero.
LEMMA TotalMatched ==
  ASSUME NEW x \in Seq(Int), NEW y \in Seq(Int), Len(x) = Len(y), NEW f,
         \A m \in 1..Len(y) : IF f[m] \in 1..Len(x) THEN x[f[m]] = y[m] ELSE y[m] = 0,
         \A m, n \in 1..Len(y) : f[m] \in 1..Len(x) /\ f[m] = f[n] => m = n,
         \A n \in 1..Len(x) : (\A m \in 1..Len(y) : f[m] # n) => x[n] = 0
  PROVE  Total(x) = Total(y)
<1> DEFINE L == Len(y)
           X(k) == [n \in 1..L |-> IF \E m \in 1..k : f[m] = n THEN x[n] ELSE 0]
           Y(k) == [m \in 1..L |-> IF m <= k THEN y[m] ELSE 0]
           N == {k \in Nat : k <= L => Total(X(k)) = Total(Y(k))}
<1>1. L \in Nat /\ \A i \in 1..L : x[i] \in Int /\ y[i] \in Int
  BY LenProperties, ElementOfSeq
<1>2. \A k \in Nat : X(k) \in Seq(Int) /\ Len(X(k)) = L /\ Y(k) \in Seq(Int) /\ Len(Y(k)) = L
  BY <1>1
<1>3. 0 \in N
  <2>1. \A i \in 1..L : X(0)[i] = 0 /\ Y(0)[i] = 0
    BY <1>1
  <2> HIDE DEF X, Y
  <2>2. Total(X(0)) = 0
    BY <1>2, <2>1, TotalZero
  <2>3. Total(Y(0)) = 0
    BY <1>2, <2>1, TotalZero
  <2>4. QED BY <2>2, <2>3
<1>4. ASSUME NEW k \in Nat, k \in N PROVE k + 1 \in N
  <2>1. SUFFICES ASSUME k + 1 <= L PROVE Total(X(k + 1)) = Total(Y(k + 1))
    OBVIOUS
  <2> DEFINE j == k + 1
  <2>2. j \in 1..L /\ j \in Nat /\ Total(X(k)) = Total(Y(k))
    BY <1>1, <1>4, <2>1
  <2>3. \A m : m \in 1..j <=> m \in 1..k \/ m = j
    OBVIOUS
  <2>4. \A m \in 1..L : m <= j <=> m <= k \/ m = j
    BY <1>1
  <2>5. j \notin 1..k /\ ~(j <= k)
    OBVIOUS
  <2> HIDE DEF j
  <2>6. CASE f[j] \in 1..L
    <3> DEFINE n == f[j]
               d == y[j]
    <3>1. n \in 1..L /\ x[n] = d /\ d \in Int
      BY <1>1, <2>2, <2>6
    <3>2. \A m \in 1..k : f[m] # n
      <4>1. \A m \in 1..k : m \in 1..L /\ m # j
        BY <1>1, <2>1, <2>5
      <4>2. QED BY <2>2, <2>6, <4>1
    <3>3. X(k)[n] = 0 /\ X(j)[n] = d
      BY <2>3, <3>1, <3>2
    <3>4. \A i \in 1..L : i # n => X(j)[i] = X(k)[i]
      BY <2>3
    <3>5. Y(k)[j] = 0 /\ Y(j)[j] = d
      BY <2>2, <2>4, <2>5
    <3>6. \A i \in 1..L : i # j => Y(j)[i] = Y(k)[i]
      BY <2>4
    <3> HIDE DEF X, Y, n, d
    <3>7. X(j)[n] = X(k)[n] + d /\ Y(j)[j] = Y(k)[j] + d
      BY <3>1, <3>3, <3>5
    <3> DEFINE s == X(k)
               t == X(j)
               v == Y(k)
               w == Y(j)
    <3>11. /\ s \in Seq(Int) /\ t \in Seq(Int) /\ v \in Seq(Int) /\ w \in Seq(Int)
           /\ Len(s) = L /\ Len(t) = L /\ Len(v) = L /\ Len(w) = L
      BY <1>2, <2>2
    <3>12. /\ n \in 1..Len(s) /\ t[n] = s[n] + d /\ \A i \in 1..Len(s) : i # n => t[i] = s[i]
           /\ j \in 1..Len(v) /\ w[j] = v[j] + d /\ \A i \in 1..Len(v) : i # j => w[i] = v[i]
      BY <2>2, <3>1, <3>4, <3>6, <3>7, <3>11
    <3> HIDE DEF s, t, v, w, L
    <3>13. Total(t) = Total(s) + d
      BY <3>1, <3>11, <3>12, TotalPoint, ZenonT(60)
    <3>14. Total(w) = Total(v) + d
      BY <3>1, <3>11, <3>12, TotalPoint, ZenonT(60)
    <3>8. Total(X(j)) = Total(X(k)) + d
      BY <3>13 DEF s, t
    <3>9. Total(Y(j)) = Total(Y(k)) + d
      BY <3>14 DEF v, w
    <3>10. QED BY <2>2, <3>8, <3>9 DEF j
  <2>7. CASE f[j] \notin 1..L
    <3>1. \A i \in 1..L : X(j)[i] = X(k)[i] /\ Y(j)[i] = Y(k)[i]
      BY <2>2, <2>3, <2>4, <2>5, <2>7
    <3>2. X(j) = X(k) /\ Y(j) = Y(k)
      BY <3>1
    <3>3. QED BY <2>2, <3>2 DEF j
  <2>8. QED BY <2>6, <2>7
<1>5. Nat \subseteq N
  <2> HIDE DEF N
  <2>1. QED BY <1>3, <1>4, NatInductive
<1>6. \A i \in 1..L : X(L)[i] = x[i] /\ Y(L)[i] = y[i]
  BY <1>1
<1>7. X(L) = x /\ Y(L) = y
  <2>1. x = [i \in 1..L |-> x[i]] /\ y = [i \in 1..L |-> y[i]]
    BY <1>1
  <2>2. X(L) = [i \in 1..L |-> x[i]]
    BY <1>6
  <2>3. Y(L) = [i \in 1..L |-> y[i]]
    BY <1>6
  <2>4. QED BY <2>1, <2>2, <2>3
<1>8. Total(X(L)) = Total(Y(L))
  <2>1. L \in Nat /\ L <= L
    BY <1>1
  <2> HIDE DEF L, X, Y
  <2>2. QED BY <1>5, <2>1
<1>9. QED BY <1>7, <1>8

\* Negating every element negates the sum.
LEMMA TotalNegated ==
  ASSUME NEW s \in Seq(Int), NEW t \in Seq(Int), Len(s) = Len(t),
         \A i \in 1..Len(s) : t[i] = -s[i]
  PROVE  Total(t) = -Total(s)
<1> DEFINE z == [i \in 1..Len(s) |-> 0]
<1>1. z \in Seq(Int) /\ Len(z) = Len(s) /\ \A i \in 1..Len(s) : z[i] = 0
  BY LenProperties
<1>2. \A i \in 1..Len(s) : s[i] \in Int /\ t[i] \in Int
  BY ElementOfSeq
<1> HIDE DEF z
<1>3. Total(z) = 0
  BY <1>1, TotalZero
<1>4. Total(z) = Total(s) + Total(t)
  BY <1>1, <1>2, TotalPlus
<1>5. QED BY <1>3, <1>4, TotalType

\* The sum of two sequences one after the other.
LEMMA TotalConcat ==
  ASSUME NEW s \in Seq(Int), NEW t \in Seq(Int)
  PROVE  Total(s \o t) = Total(s) + Total(t)
<1> DEFINE T == {u \in Seq(Int) : Total(s \o u) = Total(s) + Total(u)}
<1>1. <<>> \in T
  BY TotalEmpty, TotalType, EmptySeq, ConcatEmptySeq
<1>2. ASSUME NEW u \in Seq(Int), NEW x \in Int, u \in T PROVE Append(u, x) \in T
  <2>1. s \o Append(u, x) = Append(s \o u, x)
    BY AppendProperties, ConcatProperties, LenProperties
  <2>2. s \o u \in Seq(Int) /\ Append(u, x) \in Seq(Int)
    BY ConcatProperties, AppendProperties
  <2>3. Total(Append(s \o u, x)) = Total(s \o u) + x /\ Total(Append(u, x)) = Total(u) + x
    BY <2>2, TotalAppend
  <2>4. Total(s) \in Int /\ Total(u) \in Int /\ Total(s \o u) = Total(s) + Total(u)
    BY <1>2, TotalType
  <2>5. Total(s \o Append(u, x)) = Total(s) + Total(Append(u, x))
    BY <2>1, <2>3, <2>4
  <2>6. QED BY <2>2, <2>5
<1>3. Seq(Int) \subseteq T
  <2> HIDE DEF T
  <2>1. QED BY <1>1, <1>2, SeqInductive
<1>4. QED BY <1>3

-----------------------------------------------------------------------------
(* Sums over a finite set.  MapThenSumSet adds up the elements in the order  *)
(* CHOOSE picks them; what it adds up to does not depend on the order.       *)

\* g holds the sums of f over the subsets of A, as MapThenSumSet computes them.
SumFold(g, f, A) ==
  g = [S \in SUBSET A |-> IF S = {} THEN 0
                          ELSE f[CHOOSE x \in S : TRUE] + g[S \ {CHOOSE x \in S : TRUE}]]

\* The element CHOOSE picks from a finite set, and what is left without it.
LEMMA Picked ==
  ASSUME NEW S, IsFiniteSet(S), S # {}
  PROVE  /\ (CHOOSE x \in S : TRUE) \in S
         /\ IsFiniteSet(S \ {CHOOSE x \in S : TRUE})
         /\ Cardinality(S) \in Nat
         /\ Cardinality(S \ {CHOOSE x \in S : TRUE}) = Cardinality(S) - 1
<1>1. (CHOOSE x \in S : TRUE) \in S
  OBVIOUS
<1> DEFINE c == CHOOSE x \in S : TRUE
<1>2. c \in S
  BY <1>1
<1> HIDE DEF c
<1>3. /\ IsFiniteSet(S \ {c}) /\ Cardinality(S) \in Nat
      /\ Cardinality(S \ {c}) = Cardinality(S) - 1
  BY <1>2, FS_RemoveElement, FS_CardinalityType
<1>4. QED BY <1>1, <1>3 DEF c

\* The recursion of MapThenSumSet is well defined on a finite set.
LEMMA SumFoldExists ==
  ASSUME NEW A, IsFiniteSet(A), NEW f
  PROVE  \E g : SumFold(g, f, A)
<1> DEFINE ch(S) == CHOOSE x \in S : TRUE
           upTo(k) == {S \in SUBSET A : Cardinality(S) <= k}
           sums(g, k) == \A S \in upTo(k) : g[S] = IF S = {} THEN 0 ELSE f[ch(S)] + g[S \ {ch(S)}]
           N == {k \in Nat : \E g : sums(g, k)}
<1>1. \A S \in SUBSET A : IsFiniteSet(S) /\ Cardinality(S) \in Nat
  BY FS_Subset, FS_CardinalityType
<1>2. 0 \in N
  <2>1. \A S \in upTo(0) : S = {}
    BY <1>1, FS_EmptySet
  <2>2. sums([S \in SUBSET A |-> 0], 0)
    BY <2>1
  <2>3. QED BY <2>2
<1>3. ASSUME NEW k \in Nat, k \in N PROVE k + 1 \in N
  <2>1. PICK g : sums(g, k)
    BY <1>3
  <2> DEFINE h == [S \in SUBSET A |-> IF Cardinality(S) = k + 1 THEN f[ch(S)] + g[S \ {ch(S)}]
                                       ELSE g[S]]
  <2>2. ASSUME NEW S \in upTo(k + 1)
        PROVE  h[S] = IF S = {} THEN 0 ELSE f[ch(S)] + h[S \ {ch(S)}]
    <3>1. CASE S = {}
      <4>1. S \in upTo(k) /\ Cardinality(S) # k + 1
        BY <3>1, FS_EmptySet
      <4>2. g[S] = 0
        BY <2>1, <3>1, <4>1
      <4>3. QED BY <3>1, <4>1, <4>2
    <3>2. CASE S # {}
      <4>1. Cardinality(S \ {ch(S)}) = Cardinality(S) - 1 /\ Cardinality(S) \in Nat
        BY <1>1, <3>2, Picked
      <4>2. S \ {ch(S)} \in SUBSET A /\ Cardinality(S \ {ch(S)}) # k + 1 /\ Cardinality(S) <= k + 1
        BY <4>1
      <4>3. h[S \ {ch(S)}] = g[S \ {ch(S)}]
        BY <4>2
      <4>4. h[S] = f[ch(S)] + g[S \ {ch(S)}]
        <5>1. CASE Cardinality(S) = k + 1
          BY <5>1
        <5>2. CASE Cardinality(S) # k + 1
          <6>1. S \in upTo(k)
            BY <4>1, <4>2, <5>2
          <6>2. g[S] = f[ch(S)] + g[S \ {ch(S)}]
            BY <2>1, <3>2, <6>1
          <6>3. QED BY <5>2, <6>2
        <5>3. QED BY <5>1, <5>2
      <4>5. QED BY <3>2, <4>3, <4>4
    <3>3. QED BY <3>1, <3>2
  <2> HIDE DEF h
  <2>3. sums(h, k + 1)
    BY <2>2
  <2> HIDE DEF sums
  <2>4. QED BY <2>3
<1>4. Nat \subseteq N
  <2> HIDE DEF N
  <2>1. QED BY <1>2, <1>3, NatInductive
<1>5. Cardinality(A) \in Nat
  BY FS_CardinalityType
<1>6. PICK g : sums(g, Cardinality(A))
  BY <1>4, <1>5
<1>7. \A S \in SUBSET A : S \in upTo(Cardinality(A))
  BY FS_Subset
<1> DEFINE h == [S \in SUBSET A |-> g[S]]
<1>8. \A S \in SUBSET A : h[S] = IF S = {} THEN 0 ELSE f[ch(S)] + h[S \ {ch(S)}]
  <2> TAKE S \in SUBSET A
  <2>1. g[S] = IF S = {} THEN 0 ELSE f[ch(S)] + g[S \ {ch(S)}]
    BY <1>6, <1>7
  <2>2. S \ {ch(S)} \in SUBSET A
    OBVIOUS
  <2>3. h[S] = g[S] /\ h[S \ {ch(S)}] = g[S \ {ch(S)}]
    BY <2>2
  <2> HIDE DEF h
  <2>4. QED BY <2>1, <2>3
<1>9. h = [S \in SUBSET A |-> h[S]]
  OBVIOUS
<1> HIDE DEF h
<1>10. SumFold(h, f, A)
  BY <1>8, <1>9 DEF SumFold
<1>11. QED BY <1>10

\* One step of the sum over a subset.
LEMMA SumFoldStep ==
  ASSUME NEW A, IsFiniteSet(A), NEW f \in [A -> Int], NEW g, SumFold(g, f, A)
  PROVE  /\ g[{}] = 0
         /\ \A S \in SUBSET A : S # {} =>
              \E x \in S : /\ g[S] = f[x] + g[S \ {x}] /\ x = CHOOSE y \in S : TRUE
                         /\ Cardinality(S \ {x}) + 1 = Cardinality(S)
<1>1. g[{}] = 0
  BY DEF SumFold
<1>2. ASSUME NEW S \in SUBSET A, S # {}
      PROVE  \E x \in S : /\ g[S] = f[x] + g[S \ {x}] /\ x = CHOOSE y \in S : TRUE
                         /\ Cardinality(S \ {x}) + 1 = Cardinality(S)
  <2> DEFINE c == CHOOSE y \in S : TRUE
  <2>1. g[S] = f[c] + g[S \ {c}]
    BY <1>2 DEF SumFold
  <2>2. IsFiniteSet(S)
    BY FS_Subset
  <2>3. c \in S /\ Cardinality(S \ {c}) = Cardinality(S) - 1 /\ Cardinality(S) \in Nat
    BY <1>2, <2>2, Picked
  <2>4. c = CHOOSE y \in S : TRUE
    OBVIOUS
  <2> HIDE DEF c
  <2>5. Cardinality(S \ {c}) + 1 = Cardinality(S)
    BY <2>3
  <2>6. QED BY <2>1, <2>3, <2>4, <2>5
<1>3. QED BY <1>1, <1>2

\* Adding d to the value at c adds d to the sum of every set that has c.
LEMMA SumFoldPoint ==
  ASSUME NEW A, IsFiniteSet(A), NEW f \in [A -> Int], NEW g, SumFold(g, f, A),
         NEW e \in [A -> Int], NEW h, SumFold(h, e, A),
         NEW c \in A, NEW d \in Int, e[c] = f[c] + d, \A a \in A \ {c} : e[a] = f[a]
  PROVE  g[A] \in Int /\ h[A] = g[A] + d
<1> DEFINE more(S) == g[S] \in Int /\ h[S] = g[S] + (IF c \in S THEN d ELSE 0)
           N == {k \in Nat : \A S \in SUBSET A : Cardinality(S) = k => more(S)}
<1>1. \A S \in SUBSET A : IsFiniteSet(S) /\ Cardinality(S) \in Nat
  BY FS_Subset, FS_CardinalityType
<1>2. 0 \in N
  <2>1. SUFFICES ASSUME NEW S \in SUBSET A, Cardinality(S) = 0 PROVE more(S)
    OBVIOUS
  <2>2. S = {}
    BY <1>1, <2>1, FS_EmptySet
  <2>3. g[{}] = 0 /\ h[{}] = 0
    BY SumFoldStep
  <2>4. QED BY <2>2, <2>3
<1>3. ASSUME NEW k \in Nat, k \in N PROVE k + 1 \in N
  <2>1. SUFFICES ASSUME NEW S \in SUBSET A, Cardinality(S) = k + 1 PROVE more(S)
    OBVIOUS
  <2>2. S # {}
    <3>1. Cardinality({}) = 0
      BY FS_EmptySet
    <3>2. Cardinality(S) # 0
      BY <1>3, <2>1
    <3>3. QED BY <3>1, <3>2
  <2>3. PICK x \in S : /\ g[S] = f[x] + g[S \ {x}] /\ x = (CHOOSE y \in S : TRUE)
                      /\ Cardinality(S \ {x}) + 1 = Cardinality(S)
    BY <2>2, SumFoldStep
  <2>4. h[S] = e[x] + h[S \ {x}]
    <3>1. PICK y \in S : h[S] = e[y] + h[S \ {y}] /\ y = (CHOOSE z \in S : TRUE)
      BY <2>2, SumFoldStep
    <3>2. QED BY <2>3, <3>1
  <2>5. S \ {x} \in SUBSET A /\ Cardinality(S \ {x}) = k
    BY <1>1, <2>1, <2>3
  <2>6. more(S \ {x})
    <3> HIDE DEF more
    <3>1. QED BY <1>3, <2>5
  <2>7. f[x] \in Int /\ e[x] \in Int /\ e[x] = f[x] + (IF x = c THEN d ELSE 0)
    OBVIOUS
  <2> DEFINE R == S \ {x}
  <2>8. c \in R <=> c \in S /\ x # c
    OBVIOUS
  <2>9. g[S] = f[x] + g[R] /\ h[S] = e[x] + h[R]
        /\ g[R] \in Int /\ h[R] = g[R] + (IF c \in R THEN d ELSE 0)
    BY <2>3, <2>4, <2>6
  <2> HIDE DEF R
  <2>10. QED BY <2>7, <2>8, <2>9
<1>4. Nat \subseteq N
  <2> HIDE DEF N
  <2>1. QED BY <1>2, <1>3, NatInductive
<1>5. Cardinality(A) \in N
  BY <1>1, <1>4
<1>6. more(A)
  <2> HIDE DEF more
  <2>1. QED BY <1>5
<1>7. QED BY <1>6

\* Two ways of adding up the same numbers agree.
LEMMA SumFoldUnique ==
  ASSUME NEW A, IsFiniteSet(A), NEW f \in [A -> Int], NEW g, SumFold(g, f, A),
         NEW e \in [A -> Int], NEW h, SumFold(h, e, A), \A a \in A : e[a] = f[a]
  PROVE  g[A] \in Int /\ h[A] = g[A]
<1>1. CASE A = {}
  <2>1. g[{}] = 0 /\ h[{}] = 0
    BY SumFoldStep
  <2>2. QED BY <1>1, <2>1
<1>2. CASE A # {}
  <2>1. PICK c \in A : TRUE
    BY <1>2
  <2>2. g[A] \in Int /\ h[A] = g[A] + 0
    <3>1. e[c] = f[c] + 0 /\ \A a \in A \ {c} : e[a] = f[a]
      BY <2>1
    <3>2. 0 \in Int
      OBVIOUS
    <3>3. QED BY <3>1, <3>2, SumFoldPoint
  <2>3. QED BY <2>2
<1>3. QED BY <1>1, <1>2

\* No running sum is farther from zero than the sizes of all elements come to.
LEMMA RunsBounded ==
  ASSUME NEW s \in Seq(Int), NEW u \in Seq(Int), Len(s) = Len(u),
         \A i \in 1..Len(s) : -u[i] <= s[i] /\ s[i] <= u[i], NEW k \in 1..Len(s)
  PROVE  -Total(u) <= Total(SubSeq(s, 1, k)) /\ Total(SubSeq(s, 1, k)) <= Total(u)
<1> DEFINE v == SubSeq(s, 1, k)
           w == [i \in 1..(Len(s) - k) |-> 0]
           t == [i \in 1..Len(u) |-> -u[i]]
<1>1. Len(s) \in Nat /\ \A i \in 1..Len(s) : s[i] \in Int /\ u[i] \in Int
  BY LenProperties, ElementOfSeq
<1>2. v \in Seq(Int) /\ Len(v) = k /\ \A i \in 1..k : v[i] = s[i]
  <2>1. k \in Int /\ 1 \in Int /\ 1 <= k /\ k <= Len(s) /\ \A i \in 1..k : s[i] \in Int
    BY <1>1
  <2>2. /\ v \in Seq(Int) /\ Len(v) = (IF 1 <= k THEN k - 1 + 1 ELSE 0)
        /\ \A i \in 1..(k - 1 + 1) : v[i] = s[1 + i - 1]
    BY <2>1, SubSeqProperties
  <2>3. \A i \in 1..k : v[i] = s[i]
    BY <2>1, <2>2
  <2> HIDE DEF v
  <2>4. QED BY <2>1, <2>2, <2>3
<1>3. w \in Seq(Int) /\ Len(w) = Len(s) - k /\ \A i \in 1..Len(w) : w[i] = 0
  BY <1>1
<1>4. t \in Seq(Int) /\ Len(t) = Len(u) /\ \A i \in 1..Len(u) : t[i] = -u[i]
  BY <1>1
<1> HIDE DEF v, w, t
<1>5. v \o w \in Seq(Int) /\ Len(v \o w) = Len(s)
      /\ \A i \in 1..Len(s) : (v \o w)[i] = IF i <= k THEN s[i] ELSE 0
  <2>1. /\ v \o w \in Seq(Int) /\ Len(v \o w) = Len(v) + Len(w)
        /\ \A i \in 1..(Len(v) + Len(w)) : (v \o w)[i] = IF i <= Len(v) THEN v[i] ELSE w[i - Len(v)]
    BY <1>2, <1>3, ConcatProperties
  <2>2. Len(v) + Len(w) = Len(s)
    BY <1>1, <1>2, <1>3
  <2>3. ASSUME NEW i \in 1..Len(s) PROVE (v \o w)[i] = IF i <= k THEN s[i] ELSE 0
    <3>1. (v \o w)[i] = IF i <= Len(v) THEN v[i] ELSE w[i - Len(v)]
      BY <2>1, <2>2
    <3>2. CASE i <= k
      BY <1>1, <1>2, <3>1, <3>2
    <3>3. CASE ~(i <= k)
      <4>1. i - k \in 1..Len(w)
        BY <1>1, <1>3, <3>3
      <4>2. QED BY <1>2, <1>3, <3>1, <3>3, <4>1
    <3>4. QED BY <3>2, <3>3
  <2>4. QED BY <2>1, <2>2, <2>3
<1>6. Total(v \o w) = Total(v) /\ Total(v) \in Int /\ Total(u) \in Int /\ Total(t) = -Total(u)
  <2>1. Total(v \o w) = Total(v) + Total(w) /\ Total(w) = 0 /\ Total(v) \in Int /\ Total(u) \in Int
    BY <1>2, <1>3, TotalConcat, TotalZero, TotalType
  <2>2. Total(t) = -Total(u)
    BY <1>4, TotalNegated
  <2>3. QED BY <2>1, <2>2
<1>7. ASSUME NEW i \in 1..Len(s) PROVE t[i] <= (v \o w)[i] /\ (v \o w)[i] <= u[i]
  <2>1. t[i] = -u[i] /\ u[i] \in Int /\ s[i] \in Int /\ -u[i] <= s[i] /\ s[i] <= u[i]
    BY <1>1, <1>4
  <2>2. (v \o w)[i] = s[i] \/ (v \o w)[i] = 0
    BY <1>5
  <2> DEFINE x == (v \o w)[i]
             y == t[i]
             z == u[i]
  <2>3. y = -z /\ z \in Int /\ s[i] \in Int /\ -z <= s[i] /\ s[i] <= z /\ (x = s[i] \/ x = 0)
    BY <2>1, <2>2
  <2> HIDE DEF x, y, z
  <2>4. y <= x /\ x <= z
    BY <2>3
  <2>5. QED BY <2>4 DEF x, y, z
<1>8. Total(t) <= Total(v \o w) /\ Total(v \o w) <= Total(u)
  BY <1>4, <1>5, <1>7, TotalMonotone
<1>9. QED BY <1>6, <1>8 DEF v
=============================================================================
