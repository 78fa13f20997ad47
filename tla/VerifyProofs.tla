----------------------------- MODULE VerifyProofs -----------------------------
(***************************************************************************)
(* Theorems about the replay (LedgerVerify), for any number of pools and   *)
(* requests and every integer width: an honest ledger gives no finding, an *)
(* edit of one row always gives one, and what is found is where the edit   *)
(* was.                                                                    *)
(***************************************************************************)
EXTENDS LedgerVerify, BalanceProofs

-----------------------------------------------------------------------------
(* foldEntries: the entries of a log, one batch after the other.             *)

\* f holds the first batches of s, flattened, up to the n-th.
Flat(f, s, n) == f = [i \in 1..n |-> IF i = 1 THEN s[i] ELSE f[i - 1] \o s[i]]

\* The recursion of FlattenSeq is well defined.
LEMMA FlatExists ==
  ASSUME NEW s, NEW n \in Nat
  PROVE  \E f : Flat(f, s, n)
<1> DEFINE N == {k \in Nat : \E f : Flat(f, s, k)}
<1>1. 0 \in N
  <2>1. Flat([i \in 1..0 |-> 0], s, 0)
    BY DEF Flat
  <2>2. QED BY <2>1
<1>2. ASSUME NEW k \in Nat, k \in N PROVE k + 1 \in N
  <2>1. PICK f : Flat(f, s, k)
    BY <1>2
  <2> DEFINE new == IF k = 0 THEN s[1] ELSE f[k] \o s[k + 1]
             g == [i \in 1..(k + 1) |-> IF i = k + 1 THEN new ELSE f[i]]
  <2>2. \A i \in 1..k : f[i] = IF i = 1 THEN s[i] ELSE f[i - 1] \o s[i]
    BY <2>1 DEF Flat
  <2>3. \A i \in 1..(k + 1) : g[i] = IF i = 1 THEN s[i] ELSE g[i - 1] \o s[i]
    <3> TAKE i \in 1..(k + 1)
    <3>1. CASE i = k + 1
      BY <3>1
    <3>2. CASE i \in 1..k
      BY <3>2, <2>2
    <3>3. QED BY <3>1, <3>2
  <2>4. g = [i \in 1..(k + 1) |-> g[i]]
    OBVIOUS
  <2> HIDE DEF g
  <2>5. Flat(g, s, k + 1)
    BY <2>3, <2>4 DEF Flat
  <2>6. QED BY <2>5
<1>3. Nat \subseteq N
  <2> HIDE DEF N
  <2>1. QED BY <1>1, <1>2, NatInductive
<1>4. QED BY <1>3

\* What it starts with and how it goes on.
LEMMA FlatStep ==
  ASSUME NEW f, NEW s, NEW n \in Nat, Flat(f, s, n)
  PROVE  /\ n # 0 => f[1] = s[1]
         /\ \A k \in 1..n : k + 1 \in 1..n => f[k + 1] = f[k] \o s[k + 1]
<1>1. \A i \in 1..n : f[i] = IF i = 1 THEN s[i] ELSE f[i - 1] \o s[i]
  BY DEF Flat
<1>2. ASSUME NEW k \in 1..n, k + 1 \in 1..n PROVE f[k + 1] = f[k] \o s[k + 1]
  <2> DEFINE j == k + 1
  <2>1. j \in 1..n /\ j # 1 /\ j - 1 = k
    BY <1>2
  <2> HIDE DEF j
  <2>2. f[j] = f[j - 1] \o s[j]
    BY <1>1, <2>1
  <2>3. QED BY <2>1, <2>2 DEF j
<1>3. n # 0 => f[1] = s[1]
  BY <1>1
<1>4. QED BY <1>2, <1>3

\* Sequences that agree up to n flatten to the same up to n.
LEMMA FlatAgree ==
  ASSUME NEW s, NEW t, NEW n \in Nat, NEW m \in Nat, n <= m,
         NEW f, Flat(f, s, m), NEW g, Flat(g, t, n), \A i \in 1..n : s[i] = t[i]
  PROVE  \A i \in 1..n : f[i] = g[i]
<1> DEFINE N == {k \in Nat : k \in 1..n => f[k] = g[k]}
<1>1. 0 \in N
  OBVIOUS
<1>2. ASSUME NEW k \in Nat, k \in N PROVE k + 1 \in N
  <2>1. SUFFICES ASSUME k + 1 \in 1..n PROVE f[k + 1] = g[k + 1]
    OBVIOUS
  <2>2. CASE k = 0
    BY <2>1, <2>2 DEF Flat
  <2>3. CASE k # 0
    <3>1. f[k] = g[k] /\ s[k + 1] = t[k + 1]
      BY <1>2, <2>1, <2>3
    <3>2. k \in 1..m /\ k + 1 \in 1..m /\ k \in 1..n /\ k + 1 \in 1..n
      BY <2>1, <2>3
    <3>3. f[k + 1] = f[k] \o s[k + 1] /\ g[k + 1] = g[k] \o t[k + 1]
      BY <3>2, FlatStep, ZenonT(60)
    <3>4. QED BY <3>1, <3>3
  <2>4. QED BY <2>2, <2>3
<1>3. Nat \subseteq N
  <2> HIDE DEF N
  <2>1. QED BY <1>1, <1>2, NatInductive
<1>4. QED BY <1>3

\* FlattenSeq is the last of them.
LEMMA FlattenIsFlat ==
  ASSUME NEW s, Len(s) \in Nat, Len(s) # 0
  PROVE  \E f : Flat(f, s, Len(s)) /\ FlattenSeq(s) = f[Len(s)]
<1> DEFINE g == CHOOSE f : Flat(f, s, Len(s))
<1>1. Flat(g, s, Len(s))
  BY FlatExists
<1>2. FlattenSeq(s) = g[Len(s)]
  BY DEF FlattenSeq, Flat
<1>3. QED BY <1>1, <1>2

\* Flattening one sequence more.
LEMMA FlattenExtend ==
  ASSUME NEW s, NEW t, Len(t) \in Nat, Len(t) # 0, Len(s) = Len(t) + 1,
         \A i \in 1..Len(t) : s[i] = t[i]
  PROVE  FlattenSeq(s) = FlattenSeq(t) \o s[Len(s)]
<1> DEFINE n == Len(t)
<1>1. PICK f : Flat(f, s, n + 1) /\ FlattenSeq(s) = f[n + 1]
  BY FlattenIsFlat
<1>2. PICK g : Flat(g, t, n) /\ FlattenSeq(t) = g[n]
  BY FlattenIsFlat
<1>3. n \in Nat /\ n # 0 /\ n \in 1..n /\ n + 1 \in Nat /\ n + 1 \in 1..(n + 1) /\ n \in 1..(n + 1)
      /\ n <= n + 1 /\ n <= n /\ \A i \in 1..n : s[i] = t[i]
  OBVIOUS
<1>4. s[Len(s)] = s[n + 1]
  OBVIOUS
<1> HIDE DEF n
<1>5. f[n] = g[n]
  <2> DEFINE m == n + 1
  <2>1. m \in Nat /\ n <= m /\ n <= n /\ Flat(f, s, m)
    BY <1>1, <1>3
  <2> HIDE DEF m
  <2>2. \A i \in 1..n : f[i] = g[i]
    BY <1>2, <1>3, <2>1, FlatAgree
  <2>3. QED BY <1>3, <2>2
<1>6. f[n + 1] = f[n] \o s[n + 1]
  BY <1>1, <1>3, FlatStep, ZenonT(60)
<1>7. QED BY <1>1, <1>2, <1>4, <1>5, <1>6

\* The entries of a log, and of the log with a batch more.
LEMMA EntriesEmpty == EntriesIn(<<>>) = <<>>
  BY DEF EntriesIn, FlattenSeq

\* The entries of a log are entry rows, and a batch more appends its own.
LEMMA EntriesExtend ==
  ASSUME NEW s \in Seq(StoredSet)
  PROVE  /\ EntriesIn(s) \in Seq(EntryRowSet)
         /\ \A b \in StoredSet : EntriesIn(Append(s, b)) = EntriesIn(s) \o b.entries
<1> DEFINE cols(t) == [n \in DOMAIN t |-> t[n].entries]
           T == {t \in Seq(StoredSet) :
                   /\ EntriesIn(t) \in Seq(EntryRowSet)
                   /\ \A b \in StoredSet : EntriesIn(Append(t, b)) = EntriesIn(t) \o b.entries}
<1>1. ASSUME NEW t \in Seq(StoredSet), EntriesIn(t) \in Seq(EntryRowSet), NEW b \in StoredSet
      PROVE  EntriesIn(Append(t, b)) = EntriesIn(t) \o b.entries
  <2> DEFINE u == Append(t, b)
  <2>1. /\ Len(t) \in Nat /\ DOMAIN t = 1..Len(t) /\ DOMAIN u = 1..(Len(t) + 1)
        /\ u[Len(t) + 1] = b /\ \A i \in 1..Len(t) : u[i] = t[i]
    BY AppendProperties, LenProperties
  <2>2. b.entries \in Seq(EntryRowSet)
    BY DEF StoredSet
  <2> HIDE DEF u
  <2>3. /\ Len(cols(t)) = Len(t) /\ Len(cols(u)) = Len(t) + 1
        /\ cols(u)[Len(t) + 1] = b.entries /\ \A i \in 1..Len(t) : cols(u)[i] = cols(t)[i]
    BY <2>1
  <2>4. EntriesIn(t) = FlattenSeq(cols(t)) /\ EntriesIn(u) = FlattenSeq(cols(u))
    BY DEF EntriesIn
  <2> HIDE DEF cols
  <2>5. CASE Len(t) = 0
    <3>1. t = <<>>
      BY <2>5, EmptySeq
    <3>2. EntriesIn(t) = <<>>
      BY <3>1, EntriesEmpty
    <3>3. PICK f : Flat(f, cols(u), Len(cols(u))) /\ FlattenSeq(cols(u)) = f[Len(cols(u))]
      <4>1. Len(cols(u)) \in Nat /\ Len(cols(u)) # 0
        BY <2>1, <2>3
      <4>2. QED BY <4>1, FlattenIsFlat
    <3>4. Len(cols(u)) = 1 /\ cols(u)[1] = b.entries
      BY <2>1, <2>3, <2>5
    <3>5. FlattenSeq(cols(u)) = b.entries
      <4>1. Flat(f, cols(u), 1) /\ FlattenSeq(cols(u)) = f[1] /\ 1 # 0
        BY <3>3, <3>4
      <4>2. f[1] = cols(u)[1]
        BY <4>1, FlatStep
      <4>3. QED BY <3>4, <4>1, <4>2
    <3>6. <<>> \o b.entries = b.entries
      BY <2>2, ConcatEmptySeq
    <3>7. QED BY <2>4, <3>2, <3>5, <3>6 DEF u
  <2>6. CASE Len(t) # 0
    <3>1. FlattenSeq(cols(u)) = FlattenSeq(cols(t)) \o cols(u)[Len(cols(u))]
      BY <2>1, <2>3, <2>6, FlattenExtend
    <3>2. QED BY <2>3, <2>4, <3>1 DEF u
  <2>7. QED BY <2>5, <2>6
<1>2. <<>> \in T
  <2>1. <<>> \in Seq(StoredSet) /\ EntriesIn(<<>>) \in Seq(EntryRowSet)
    <3>1. <<>> \in Seq(StoredSet) /\ <<>> \in Seq(EntryRowSet)
      BY EmptySeq
    <3>2. QED BY <3>1, EntriesEmpty
  <2>2. \A b \in StoredSet : EntriesIn(Append(<<>>, b)) = EntriesIn(<<>>) \o b.entries
    BY <1>1, <2>1
  <2>3. QED BY <2>1, <2>2
<1>3. ASSUME NEW t \in Seq(StoredSet), NEW b \in StoredSet, t \in T PROVE Append(t, b) \in T
  <2>1. Append(t, b) \in Seq(StoredSet) /\ b.entries \in Seq(EntryRowSet)
    BY AppendProperties DEF StoredSet
  <2>2. EntriesIn(Append(t, b)) = EntriesIn(t) \o b.entries /\ EntriesIn(t) \in Seq(EntryRowSet)
    BY <1>3
  <2>3. EntriesIn(Append(t, b)) \in Seq(EntryRowSet)
    BY <2>1, <2>2, ConcatProperties
  <2>4. QED BY <1>1, <2>1, <2>3
<1>4. Seq(StoredSet) \subseteq T
  <2> HIDE DEF T
  <2>1. QED BY <1>2, <1>3, SeqInductive
<1>5. QED BY <1>4

-----------------------------------------------------------------------------
(* The cached row of a holder over a sequence of entries.                    *)

CachedRow(es, h) ==
  IF RowsIn(es, h) = {} THEN None
  ELSE [amount |-> Total(AmountsOf(es, h)), count |-> Cardinality(RowsIn(es, h)),
        asOf |-> Max({es[i].seq : i \in RowsIn(es, h)})]

\* The rows of a sequence of entries that move a holder are finitely many.
LEMMA RowsInFinite ==
  ASSUME NEW es \in Seq(EntryRowSet), NEW h
  PROVE  /\ IsFiniteSet(RowsIn(es, h)) /\ Cardinality(RowsIn(es, h)) \in Nat
         /\ RowsIn(es, h) \subseteq 1..Len(es) /\ Len(es) \in Nat
<1>1. DOMAIN es = 1..Len(es) /\ Len(es) \in Nat
  BY LenProperties
<1>2. IsFiniteSet(1..Len(es))
  BY <1>1, FS_Interval
<1>3. RowsIn(es, h) \in SUBSET (1..Len(es))
  BY <1>1 DEF RowsIn
<1>4. IsFiniteSet(RowsIn(es, h))
  BY <1>2, <1>3, FS_Subset
<1>5. QED BY <1>1, <1>3, <1>4, FS_CardinalityType

\* An entry more is counted once, for its holder.
LEMMA CountAppended ==
  ASSUME NEW es \in Seq(EntryRowSet), NEW e \in EntryRowSet, NEW h
  PROVE  Cardinality(RowsIn(Append(es, e), h))
           = Cardinality(RowsIn(es, h)) + (IF HolderOf(e) = h THEN 1 ELSE 0)
<1> DEFINE n == Len(es) + 1
<1>1. /\ DOMAIN Append(es, e) = 1..n /\ DOMAIN es = 1..Len(es) /\ Len(es) \in Nat
      /\ Append(es, e)[n] = e /\ \A i \in 1..Len(es) : Append(es, e)[i] = es[i]
  BY AppendProperties, LenProperties
<1>2. IsFiniteSet(RowsIn(es, h)) /\ Cardinality(RowsIn(es, h)) \in Nat /\ n \notin RowsIn(es, h)
  BY <1>1, RowsInFinite
<1>3. CASE HolderOf(e) = h
  <2>1. RowsIn(Append(es, e), h) = RowsIn(es, h) \cup {n}
    BY <1>1, <1>3 DEF RowsIn
  <2> HIDE DEF n
  <2>2. Cardinality(RowsIn(es, h) \cup {n}) = Cardinality(RowsIn(es, h)) + 1
    BY <1>2, FS_AddElement
  <2>3. QED BY <1>3, <2>1, <2>2
<1>4. CASE HolderOf(e) # h
  <2>1. RowsIn(Append(es, e), h) = RowsIn(es, h)
    BY <1>1, <1>4 DEF RowsIn
  <2>2. QED BY <1>2, <1>4, <2>1
<1>5. QED BY <1>3, <1>4

\* The indexes of two sequences one after the other.
LEMMA ConcatIndexes ==
  ASSUME NEW S, NEW es \in Seq(S), NEW bs \in Seq(S)
  PROVE  LET u == es \o bs
         IN  /\ u \in Seq(S) /\ Len(u) = Len(es) + Len(bs)
             /\ Len(es) \in Nat /\ Len(bs) \in Nat
             /\ \A i \in 1..Len(es) : u[i] = es[i]
             /\ \A i \in 1..Len(bs) : u[Len(es) + i] = bs[i]
             /\ \A i \in 1..Len(u) : i \notin 1..Len(es) => i - Len(es) \in 1..Len(bs)
             /\ DOMAIN u = 1..Len(u) /\ DOMAIN es = 1..Len(es) /\ DOMAIN bs = 1..Len(bs)
<1> DEFINE u == es \o bs
<1>1. /\ u \in Seq(S) /\ Len(u) = Len(es) + Len(bs) /\ Len(es) \in Nat /\ Len(bs) \in Nat
      /\ \A i \in 1..(Len(es) + Len(bs)) : u[i] = IF i <= Len(es) THEN es[i] ELSE bs[i - Len(es)]
  BY ConcatProperties, LenProperties
<1> HIDE DEF u
<1>2. \A i \in 1..Len(es) : u[i] = es[i]
  BY <1>1
<1>3. ASSUME NEW i \in 1..Len(bs) PROVE u[Len(es) + i] = bs[i]
  <2> DEFINE j == Len(es) + i
  <2>1. j \in 1..(Len(es) + Len(bs)) /\ ~(j <= Len(es)) /\ j - Len(es) = i
    BY <1>1
  <2> HIDE DEF j
  <2>2. u[j] = bs[i]
    BY <1>1, <2>1
  <2>3. QED BY <2>2 DEF j
<1>4. \A i \in 1..Len(u) : i \notin 1..Len(es) => i - Len(es) \in 1..Len(bs)
  BY <1>1
<1>5. DOMAIN u = 1..Len(u) /\ DOMAIN es = 1..Len(es) /\ DOMAIN bs = 1..Len(bs)
  BY <1>1, LenProperties
<1>6. QED BY <1>1, <1>2, <1>3, <1>4, <1>5 DEF u

\* An element more at the end of the second of two sequences is one more at the end.
LEMMA ConcatAppended ==
  ASSUME NEW S, NEW s \in Seq(S), NEW t \in Seq(S), NEW x \in S
  PROVE  s \o Append(t, x) = Append(s \o t, x)
<1>1. Append(t, x) = t \o <<x>> /\ <<x>> \in Seq(S) /\ s \o t \in Seq(S)
  BY AppendIsConcat, ConcatProperties
<1>2. Append(s \o t, x) = (s \o t) \o <<x>>
  BY <1>1, AppendIsConcat
<1>3. QED BY <1>1, <1>2, ConcatAssociative

\* A holder some entry moves has a cached row.
LEMMA CachedRowIsRow ==
  ASSUME NEW es \in Seq(EntryRowSet), NEW h, RowsIn(es, h) # {},
         NEW n \in Nat, \A i \in 1..Len(es) : es[i].seq <= n
  PROVE  /\ CachedRow(es, h) \in [amount : Int, count : Nat, asOf : Nat]
         /\ CachedRow(es, h) # None
<1> DEFINE seqs == {es[i].seq : i \in RowsIn(es, h)}
<1>1. Total(AmountsOf(es, h)) \in Int /\ Cardinality(RowsIn(es, h)) \in Nat
  BY AmountsOfType, TotalType, RowsInFinite
<1>2. seqs # {} /\ seqs \in SUBSET (1..n)
  <2>1. \A i \in RowsIn(es, h) : es[i].seq \in 1..n
    <3> TAKE i \in RowsIn(es, h)
    <3>1. i \in 1..Len(es) /\ es[i] \in EntryRowSet
      BY RowsInFinite, ElementOfSeq
    <3>2. QED BY <3>1 DEF EntryRowSet, Seqs
  <2>2. QED BY <2>1
<1>3. Max(seqs) \in Nat
  <2> HIDE DEF seqs
  <2>1. PICK m \in seqs : \A y \in seqs : m >= y
    BY <1>2, GreatestOf
  <2>2. Max(seqs) \in seqs
    BY <2>1 DEF Max
  <2>3. Max(seqs) \in 1..n
    BY <1>2, <2>2
  <2>4. QED BY <2>3
<1>4. CachedRow(es, h) = [amount |-> Total(AmountsOf(es, h)), count |-> Cardinality(RowsIn(es, h)),
                          asOf |-> Max(seqs)]
  BY DEF CachedRow
<1> HIDE DEF seqs
<1>5. CachedRow(es, h) \in [amount : Int, count : Nat, asOf : Nat]
  BY <1>1, <1>3, <1>4
<1>6. QED BY <1>5, NoneAssumption

\* Sums and counts over two sequences one after the other are those of the two.
LEMMA ConcatAdds ==
  ASSUME NEW es \in Seq(EntryRowSet), NEW bs \in Seq(EntryRowSet), NEW h
  PROVE  /\ Total(AmountsOf(es \o bs, h)) = Total(AmountsOf(es, h)) + Total(AmountsOf(bs, h))
         /\ Cardinality(RowsIn(es \o bs, h)) = Cardinality(RowsIn(es, h)) + Cardinality(RowsIn(bs, h))
<1> DEFINE sum(t) == Total(AmountsOf(t, h))
           count(t) == Cardinality(RowsIn(t, h))
           T == {t \in Seq(EntryRowSet) : /\ sum(es \o t) = sum(es) + sum(t)
                                          /\ count(es \o t) = count(es) + count(t)}
<1>1. \A t \in Seq(EntryRowSet) : sum(t) \in Int /\ count(t) \in Nat
  BY AmountsOfType, TotalType, RowsInFinite
<1>2. <<>> \in T
  <2>1. es \o <<>> = es /\ <<>> \in Seq(EntryRowSet)
    BY ConcatEmptySeq
  <2>2. sum(<<>>) = 0
    <3>1. AmountsOf(<<>>, h) = <<>>
      BY DEF AmountsOf
    <3>2. QED BY <3>1, TotalEmpty
  <2>3. count(<<>>) = 0
    <3>1. RowsIn(<<>>, h) = {}
      BY DEF RowsIn
    <3>2. QED BY <3>1, FS_EmptySet
  <2>4. sum(es) \in Int /\ count(es) \in Nat
    BY <1>1
  <2> HIDE DEF sum, count
  <2>5. QED BY <2>1, <2>2, <2>3, <2>4
<1>3. ASSUME NEW t \in Seq(EntryRowSet), NEW x \in EntryRowSet, t \in T PROVE Append(t, x) \in T
  <2>1. es \o Append(t, x) = Append(es \o t, x) /\ es \o t \in Seq(EntryRowSet)
    BY ConcatAppended, ConcatProperties
  <2> DEFINE d == IF HolderOf(x) = h THEN x.amount ELSE 0
             o == IF HolderOf(x) = h THEN 1 ELSE 0
  <2>2. Append(t, x) \in Seq(EntryRowSet) /\ d \in Int /\ o \in Int
    BY AppendProperties DEF EntryRowSet, Cp
  <2>3. sum(Append(t, x)) = sum(t) + d
    BY EntryAppended
  <2>4. sum(Append(es \o t, x)) = sum(es \o t) + d
    <3> DEFINE u == es \o t
    <3>1. u \in Seq(EntryRowSet)
      BY <2>1
    <3> HIDE DEF u
    <3>2. sum(Append(u, x)) = sum(u) + d
      BY <3>1, EntryAppended
    <3>3. QED BY <3>2 DEF u
  <2>5. count(Append(t, x)) = count(t) + o
    BY CountAppended
  <2>6. count(Append(es \o t, x)) = count(es \o t) + o
    <3> DEFINE u == es \o t
    <3>1. u \in Seq(EntryRowSet)
      BY <2>1
    <3> HIDE DEF u
    <3>2. count(Append(u, x)) = count(u) + o
      BY <3>1, CountAppended
    <3>3. QED BY <3>2 DEF u
  <2>7. /\ sum(es \o t) = sum(es) + sum(t) /\ count(es \o t) = count(es) + count(t)
        /\ sum(es) \in Int /\ sum(t) \in Int /\ count(es) \in Int /\ count(t) \in Int
    BY <1>1, <1>3
  <2> HIDE DEF sum, count, d, o
  <2>8. sum(es \o Append(t, x)) = sum(es) + sum(Append(t, x))
    BY <2>1, <2>2, <2>3, <2>4, <2>7
  <2>9. count(es \o Append(t, x)) = count(es) + count(Append(t, x))
    BY <2>1, <2>2, <2>5, <2>6, <2>7
  <2>10. QED BY <2>2, <2>8, <2>9
<1>4. Seq(EntryRowSet) \subseteq T
  <2> HIDE DEF T
  <2>1. QED BY <1>2, <1>3, SeqInductive
<1>5. QED BY <1>4

\* upsertSnapshots takes the cached rows of a log to those of the log with a batch more,
\* when the batch is newer than every entry before it.
LEMMA CachedExtends ==
  ASSUME NEW es \in Seq(EntryRowSet), NEW bs \in Seq(EntryRowSet), NEW n \in Nat,
         \A i \in 1..Len(es) : es[i].seq <= n, \A i \in 1..Len(bs) : bs[i].seq = n,
         NEW cache \in Caches, NEW h \in Holders, cache[h] = CachedRow(es, h)
  PROVE  Upserted(cache, bs, n)[h] = CachedRow(es \o bs, h)
<1> DEFINE u == es \o bs
<1>1. /\ u \in Seq(EntryRowSet) /\ Len(u) = Len(es) + Len(bs)
      /\ Len(es) \in Nat /\ Len(bs) \in Nat
      /\ \A i \in 1..Len(es) : u[i] = es[i]
      /\ \A i \in 1..Len(bs) : u[Len(es) + i] = bs[i]
      /\ \A i \in 1..Len(u) : i \notin 1..Len(es) => i - Len(es) \in 1..Len(bs)
      /\ DOMAIN u = 1..Len(u) /\ DOMAIN es = 1..Len(es) /\ DOMAIN bs = 1..Len(bs)
  BY ConcatIndexes
<1>2. /\ Total(AmountsOf(u, h)) = Total(AmountsOf(es, h)) + Total(AmountsOf(bs, h))
      /\ Cardinality(RowsIn(u, h)) = Cardinality(RowsIn(es, h)) + Cardinality(RowsIn(bs, h))
  BY ConcatAdds
<1> HIDE DEF u
<1>3. /\ \A i \in RowsIn(es, h) : i \in RowsIn(u, h) /\ u[i] = es[i] /\ es[i].seq \in Nat /\ es[i].seq <= n
      /\ \A i \in RowsIn(bs, h) : Len(es) + i \in RowsIn(u, h) /\ u[Len(es) + i].seq = n
      /\ \A i \in RowsIn(u, h) : i \in RowsIn(es, h) \/ i - Len(es) \in RowsIn(bs, h)
  <2>1. \A i \in 1..Len(es) : es[i].seq \in Nat
    <3> TAKE i \in 1..Len(es)
    <3>1. es[i] \in EntryRowSet
      BY ElementOfSeq
    <3>2. QED BY <3>1 DEF EntryRowSet, Seqs
  <2>2. \A i \in RowsIn(es, h) : i \in RowsIn(u, h) /\ u[i] = es[i] /\ es[i].seq \in Nat /\ es[i].seq <= n
    BY <1>1, <2>1 DEF RowsIn
  <2>3. \A i \in RowsIn(bs, h) : Len(es) + i \in RowsIn(u, h) /\ u[Len(es) + i].seq = n
    BY <1>1 DEF RowsIn
  <2>4. ASSUME NEW i \in RowsIn(u, h), i \notin RowsIn(es, h) PROVE i - Len(es) \in RowsIn(bs, h)
    <3>1. i \in 1..Len(u) /\ HolderOf(u[i]) = h
      BY <1>1 DEF RowsIn
    <3>2. i \notin 1..Len(es)
      BY <1>1, <2>4, <3>1 DEF RowsIn
    <3> DEFINE j == i - Len(es)
    <3>3. j \in 1..Len(bs) /\ Len(es) + j = i
      BY <1>1, <3>1, <3>2
    <3> HIDE DEF j
    <3>4. u[i] = bs[j]
      BY <1>1, <3>3
    <3>5. j \in RowsIn(bs, h)
      BY <1>1, <3>1, <3>3, <3>4 DEF RowsIn
    <3>6. QED BY <3>5 DEF j
  <2>5. QED BY <2>2, <2>3, <2>4
<1>4. h \in Touched(bs) <=> RowsIn(bs, h) # {}
  BY DeltaType
<1>5. CASE RowsIn(bs, h) = {}
  <2>1. Upserted(cache, bs, n)[h] = cache[h]
    BY <1>4, <1>5 DEF Upserted
  <2>2. RowsIn(u, h) = RowsIn(es, h)
    BY <1>3, <1>5
  <2>3. Total(AmountsOf(u, h)) = Total(AmountsOf(es, h))
    <3>1. Total(AmountsOf(bs, h)) = 0
      BY <1>4, <1>5, DeltaIsTotal DEF Delta
    <3>2. Total(AmountsOf(es, h)) \in Int
      BY AmountsOfType, TotalType
    <3>3. QED BY <1>2, <3>1, <3>2
  <2>4. {u[i].seq : i \in RowsIn(u, h)} = {es[i].seq : i \in RowsIn(es, h)}
    BY <1>3, <2>2
  <2>5. CachedRow(u, h) = CachedRow(es, h)
    BY <2>2, <2>3, <2>4 DEF CachedRow
  <2>6. QED BY <2>1, <2>5 DEF u
<1>6. CASE RowsIn(bs, h) # {}
  <2>1. RowsIn(u, h) # {}
    BY <1>3, <1>6
  <2>2. Max({u[i].seq : i \in RowsIn(u, h)}) = n
    <3> DEFINE seqs == {u[i].seq : i \in RowsIn(u, h)}
    <3>1. n \in seqs
      BY <1>3, <1>6
    <3>2. \A y \in seqs : y \in Nat /\ n >= y
      <4> TAKE y \in seqs
      <4>1. PICK i \in RowsIn(u, h) : y = u[i].seq
        OBVIOUS
      <4>2. CASE i \in RowsIn(es, h)
        BY <1>3, <4>1, <4>2
      <4>3. CASE i - Len(es) \in RowsIn(bs, h)
        <5> DEFINE j == i - Len(es)
        <5>1. Len(es) + j = i
          BY <1>1, RowsInFinite
        <5>2. j \in RowsIn(bs, h)
          BY <4>3
        <5> HIDE DEF j
        <5>3. u[i].seq = n
          BY <1>3, <5>1, <5>2
        <5>4. QED BY <4>1, <5>3
      <4>4. QED BY <1>3, <4>2, <4>3
    <3> HIDE DEF seqs
    <3>3. Max(seqs) \in seqs /\ \A y \in seqs : Max(seqs) >= y
      BY <3>1, <3>2 DEF Max
    <3> DEFINE m == Max(seqs)
    <3>4. m \in Nat /\ n >= m /\ m >= n
      BY <3>1, <3>2, <3>3
    <3> HIDE DEF m
    <3>5. m = n
      BY <3>4
    <3>6. QED BY <3>5 DEF m, seqs
  <2>3. CachedAmount(cache[h]) = Total(AmountsOf(es, h)) /\ CachedCount(cache[h]) = Cardinality(RowsIn(es, h))
    <3>1. CASE RowsIn(es, h) = {}
      <4>1. cache[h] = None
        BY <3>1 DEF CachedRow
      <4>2. Total(AmountsOf(es, h)) = 0
        BY <3>1, DeltaIsTotal, DeltaType
      <4>3. Cardinality(RowsIn(es, h)) = 0
        BY <3>1, FS_EmptySet
      <4>4. QED BY <4>1, <4>2, <4>3 DEF CachedAmount, CachedCount
    <3>2. CASE RowsIn(es, h) # {}
      <4>1. CachedRow(es, h) # None
        BY <3>2, CachedRowIsRow
      <4>2. QED BY <3>2, <4>1 DEF CachedRow, CachedAmount, CachedCount
    <3>3. QED BY <3>1, <3>2
  <2>4. Delta(bs, h) = Total(AmountsOf(bs, h))
    BY DeltaIsTotal
  <2>5. QED BY <1>2, <1>4, <1>6, <2>1, <2>2, <2>3, <2>4 DEF CachedRow, Upserted, RowsIn, u
<1>7. QED BY <1>5, <1>6
-----------------------------------------------------------------------------
(* What a replay of rows nobody edited finds.                                *)

CleanBatch(p, s, n) ==
  /\ s[n].row.pool = p /\ s[n].row.seq = n
  /\ s[n].prev = PrevHash(s, n)
  /\ s[n].hash = BatchHash(s[n].prev, s[n].row, s[n].entries)
  /\ s[n].row.count = Len(s[n].entries)
  /\ RunsInRange(Amounts(s[n].entries)) /\ s[n].row.net = Total(Amounts(s[n].entries))
  /\ \A i \in DOMAIN s[n].entries : s[n].entries[i].pool = p /\ s[n].entries[i].seq = n

CleanLog(p, s) ==
  /\ s \in Seq(StoredSet)
  /\ \A n \in 1..Len(s) : CleanBatch(p, s, n)
  /\ \A i \in 1..Len(EntriesIn(s)) : EntriesIn(s)[i].seq <= Len(s)
CleanHead(s, hd) == hd = PrevHash(s, Len(s) + 1)
CleanCache(s, cache) ==
  cache \in Caches /\ \A h \in Holders : cache[h] = CachedRow(EntriesIn(s), h)
CleanTrail(s) ==
  /\ s \in Seq(AuditRowSet)
  /\ \A n \in 1..Len(s) : /\ s[n].seq = n /\ s[n].prev = PrevHash(s, n)
                          /\ s[n].hash = AuditHash(s[n].prev, s[n].seq, s[n].batch)

Overflows(findings) == \A f \in findings : f.kind = "balance_overflow"

\* A log in order has no finding.
LEMMA CleanLogFinds ==
  ASSUME NEW p, NEW s, CleanLog(p, s)
  PROVE  BatchFindings(p, s) = {}
<1>1. DOMAIN s = 1..Len(s) /\ Len(s) \in Nat
  BY LenProperties DEF CleanLog
<1>2. ASSUME NEW n \in 1..Len(s), NEW kind PROVE ~BatchHas(kind, s, n)
  <2>1. CleanBatch(p, s, n)
    BY DEF CleanLog
  <2>2. s[n].row.seq = WantSeq([m \in DOMAIN s |-> s[m].row.seq], n)
    <3>1. CASE n = 1
      BY <2>1, <3>1 DEF WantSeq, CleanBatch
    <3>2. CASE n # 1
      <4> DEFINE m == n - 1
      <4>1. m \in 1..Len(s) /\ m + 1 = n
        BY <1>1, <3>2
      <4>2. WantSeq([i \in DOMAIN s |-> s[i].row.seq], n) = s[m].row.seq + 1
        BY <1>1, <3>2, <4>1 DEF WantSeq
      <4> HIDE DEF m
      <4>3. s[m].row.seq = m
        BY <4>1 DEF CleanLog, CleanBatch
      <4>4. QED BY <2>1, <4>1, <4>2, <4>3 DEF CleanBatch
    <3>3. QED BY <3>1, <3>2
  <2>3. QED BY <2>1, <2>2 DEF BatchHas, CleanBatch
<1>3. QED BY <1>1, <1>2 DEF BatchFindings

\* A head in place has no finding.
LEMMA CleanHeadFinds ==
  ASSUME NEW s, NEW hd, CleanHead(s, hd), NEW kind, NEW p, NEW n
  PROVE  HeadFindings(kind, p, hd, PrevHash(s, Len(s) + 1), n) = {}
  BY DEF HeadFindings, CleanHead

\* A cache that is the fold of the log has no finding but an overflow.
LEMMA CleanCacheFinds ==
  ASSUME NEW p, NEW s, NEW cache, CleanLog(p, s), CleanCache(s, cache)
  PROVE  Overflows(CacheFindings(p, s, cache))
<1> DEFINE es == EntriesIn(s)
<1>1. es \in Seq(EntryRowSet) /\ Len(s) \in Nat /\ \A i \in 1..Len(es) : es[i].seq <= Len(s)
  BY EntriesExtend, LenProperties DEF CleanLog
<1> HIDE DEF es
<1>2. ASSUME NEW h \in Holders, NEW kind \in CacheKinds, CacheRowHas(kind, cache[h], es, h)
      PROVE  kind = "balance_overflow"
  <2>1. cache[h] = CachedRow(es, h)
    BY DEF CleanCache, es
  <2>2. CASE RowsIn(es, h) = {}
    <3>1. cache[h] = None
      BY <2>1, <2>2 DEF CachedRow
    <3>2. QED BY <1>2, <2>2, <3>1 DEF CacheRowHas, RowsIn
  <2>3. CASE RowsIn(es, h) # {}
    <3>1. cache[h] # None
      BY <1>1, <2>1, <2>3, CachedRowIsRow
    <3>2. cache[h] = [amount |-> Total(AmountsOf(es, h)), count |-> Cardinality(RowsIn(es, h)),
                      asOf |-> Max({es[i].seq : i \in RowsIn(es, h)})]
      BY <2>1, <2>3 DEF CachedRow
    <3>3. /\ cache[h].amount = Total(AmountsOf(es, h))
          /\ cache[h].count = Cardinality({i \in DOMAIN es : HolderOf(es[i]) = h})
          /\ cache[h].asOf = Max({es[i].seq : i \in {i \in DOMAIN es : HolderOf(es[i]) = h}})
      BY <3>2 DEF RowsIn
    <3>4. {i \in DOMAIN es : HolderOf(es[i]) = h} # {}
      BY <2>3 DEF RowsIn
    <3>5. QED BY <1>2, <3>1, <3>3, <3>4 DEF CacheRowHas
  <2>4. QED BY <2>2, <2>3
<1>3. \A f \in CacheFindings(p, s, cache) : \E kind \in CacheKinds, h \in Holders :
        f = Finding(kind, p, 0) /\ CacheRowHas(kind, cache[h], es, h)
  BY DEF CacheFindings, es
<1>4. QED BY <1>2, <1>3 DEF Overflows, Finding

\* An audit trail in order has no finding.
LEMMA CleanTrailFinds ==
  ASSUME NEW s, CleanTrail(s)
  PROVE  AuditFindings(s) = {}
<1>1. DOMAIN s = 1..Len(s) /\ Len(s) \in Nat
  BY LenProperties DEF CleanTrail
<1>2. ASSUME NEW n \in 1..Len(s), NEW kind PROVE ~AuditRowHas(kind, s, n)
  <2>1. /\ s[n].seq = n /\ s[n].prev = PrevHash(s, n)
        /\ s[n].hash = AuditHash(s[n].prev, s[n].seq, s[n].batch)
    BY DEF CleanTrail
  <2>2. s[n].seq = WantSeq([m \in DOMAIN s |-> s[m].seq], n)
    <3>1. CASE n = 1
      BY <2>1, <3>1 DEF WantSeq
    <3>2. CASE n # 1
      <4> DEFINE m == n - 1
      <4>1. m \in 1..Len(s) /\ m + 1 = n
        BY <1>1, <3>2
      <4>2. WantSeq([i \in DOMAIN s |-> s[i].seq], n) = s[m].seq + 1
        BY <1>1, <3>2, <4>1 DEF WantSeq
      <4> HIDE DEF m
      <4>3. s[m].seq = m
        BY <4>1 DEF CleanTrail
      <4>4. QED BY <2>1, <4>1, <4>2, <4>3
    <3>3. QED BY <3>1, <3>2
  <2>3. QED BY <2>1, <2>2 DEF AuditRowHas
<1>3. QED BY <1>1, <1>2 DEF AuditFindings

-----------------------------------------------------------------------------
(* A commit keeps the rows in order.                                         *)

\* What a batch in order appended to a log in order leaves.
LEMMA CleanLogExtends ==
  ASSUME NEW p \in Pools, NEW s, CleanLog(p, s), NEW hd, CleanHead(s, hd), hd \in LedgerHashes,
         NEW r \in Requests, r.pool = p, ValidRequest(r), UniversalHold(r),
         NEW b, b = Stored(BatchRow(r, Len(s) + 1, hd), EntryRows(r, Len(s) + 1))
  PROVE  /\ CleanLog(p, Append(s, b)) /\ CleanHead(Append(s, b), b.hash)
         /\ b.hash \in LedgerHashes
         /\ EntriesIn(Append(s, b)) = EntriesIn(s) \o EntryRows(r, Len(s) + 1)
<1> DEFINE n == Len(s) + 1
           t == Append(s, b)
           es == EntryRows(r, n)
<1>1. /\ s \in Seq(StoredSet) /\ Len(s) \in Nat /\ n \in Seqs /\ n \in Nat /\ DOMAIN s = 1..Len(s)
      /\ n - 1 = Len(s)
  BY LenProperties DEF CleanLog, Seqs
<1>2. es \in Seq(EntryRowSet) /\ BatchRow(r, n, hd) \in BatchRowSet
  BY <1>1, EntryRowsType, BatchRowType
<1>3. /\ b.row = BatchColumns(r, n) /\ b.prev = hd /\ b.entries = es
      /\ b.hash = BatchHash(hd, BatchColumns(r, n), es)
  BY DEF Stored, BatchRow
<1>4. b \in StoredSet /\ b.hash \in LedgerHashes
  <2>1. b = [row |-> BatchRow(r, n, hd).row, prev |-> BatchRow(r, n, hd).prev,
             hash |-> BatchRow(r, n, hd).hash, entries |-> es]
    BY DEF Stored
  <2> HIDE DEF n, es
  <2>2. QED BY <1>2, <2>1 DEF BatchRowSet, StoredSet
<1>5. /\ t \in Seq(StoredSet) /\ Len(t) = n /\ t[n] = b /\ \A m \in 1..Len(s) : t[m] = s[m]
  BY <1>1, <1>4, AppendProperties
<1>6. EntriesIn(t) = EntriesIn(s) \o es
  BY <1>1, <1>3, <1>4, EntriesExtend
<1>7. /\ DOMAIN es = 1..Len(es) /\ Len(es) = Len(r.entries)
      /\ \A i \in DOMAIN es : es[i].pool = p /\ es[i].seq = n
      /\ Amounts(es) = Amounts(r.entries)
  BY <1>1, <1>2, EntryRowsType, RowsKeepAmounts, LenProperties
<1>8. r.entries \in Seq(EntryProposals) /\ RunsInRange(Amounts(r.entries))
  BY RequestType DEF UniversalHold
<1> HIDE DEF t, es
<1>9. CleanBatch(p, t, n)
  <2>1. b.row.pool = p /\ b.row.seq = n /\ b.row.count = Len(r.entries)
        /\ b.row.net = Total(Amounts(r.entries))
    BY <1>3 DEF BatchColumns
  <2>2. t[n].prev = PrevHash(t, n)
    <3>1. hd = PrevHash(s, n)
      BY DEF CleanHead
    <3>2. PrevHash(t, n) = PrevHash(s, n)
      <4>1. CASE n = 1
        BY <4>1 DEF PrevHash
      <4>2. CASE n # 1
        <5>1. n - 1 \in 1..Len(s)
          BY <1>1, <4>2
        <5>2. t[n - 1] = s[n - 1]
          BY <1>5, <5>1
        <5>3. QED BY <4>2, <5>2 DEF PrevHash
      <4>3. QED BY <4>1, <4>2
    <3>3. QED BY <1>3, <1>5, <3>1, <3>2
  <2> HIDE DEF n
  <2>3. QED BY <1>3, <1>5, <1>7, <1>8, <2>1, <2>2 DEF CleanBatch
<1>10. ASSUME NEW m \in 1..Len(s) PROVE CleanBatch(p, t, m)
  <2>1. CleanBatch(p, s, m) /\ t[m] = s[m]
    BY <1>5 DEF CleanLog
  <2>2. PrevHash(t, m) = PrevHash(s, m)
    <3>1. CASE m = 1
      BY <3>1 DEF PrevHash
    <3>2. CASE m # 1
      <4>1. m - 1 \in 1..Len(s)
        BY <1>1, <3>2
      <4>2. t[m - 1] = s[m - 1]
        BY <1>5, <4>1
      <4>3. QED BY <3>2, <4>2 DEF PrevHash
    <3>3. QED BY <3>1, <3>2
  <2>3. QED BY <2>1, <2>2 DEF CleanBatch
<1>11. \A i \in 1..Len(EntriesIn(t)) : EntriesIn(t)[i].seq <= n
  <2> DEFINE old == EntriesIn(s)
             u == old \o es
  <2>1. old \in Seq(EntryRowSet) /\ \A i \in 1..Len(old) : old[i].seq <= Len(s)
    BY <1>1, EntriesExtend DEF CleanLog
  <2> HIDE DEF old
  <2>2. /\ Len(old) \in Nat /\ Len(es) \in Nat
        /\ \A i \in 1..Len(old) : u[i] = old[i]
        /\ \A i \in 1..Len(es) : u[Len(old) + i] = es[i]
        /\ \A i \in 1..Len(u) : i \notin 1..Len(old) => i - Len(old) \in 1..Len(es)
    BY <1>2, <2>1, ConcatIndexes DEF es
  <2>3. \A i \in 1..Len(old) : old[i].seq \in Nat
    <3> TAKE i \in 1..Len(old)
    <3>1. old[i] \in EntryRowSet
      BY <2>1, ElementOfSeq
    <3>2. QED BY <3>1 DEF EntryRowSet, Seqs
  <2> HIDE DEF u
  <2>4. ASSUME NEW i \in 1..Len(u) PROVE u[i].seq <= n
    <3>1. CASE i \in 1..Len(old)
      BY <1>1, <2>1, <2>2, <2>3, <3>1
    <3>2. CASE i \notin 1..Len(old)
      <4> DEFINE j == i - Len(old)
      <4>1. j \in 1..Len(es) /\ Len(old) + j = i
        BY <2>2, <3>2
      <4> HIDE DEF j
      <4>2. u[i] = es[j]
        BY <2>2, <4>1
      <4>3. es[j].seq = n
        BY <1>7, <4>1
      <4>4. QED BY <1>1, <4>2, <4>3
    <3>3. QED BY <3>1, <3>2
  <2>5. QED BY <1>6, <2>4 DEF old, u
<1>12. \A m \in 1..Len(t) : CleanBatch(p, t, m)
  <2>1. \A m \in 1..Len(t) : m \in 1..Len(s) \/ m = n
    BY <1>1, <1>5
  <2>2. QED BY <1>9, <1>10, <2>1
<1>13. CleanHead(t, b.hash)
  BY <1>1, <1>5 DEF CleanHead, PrevHash
<1>14. QED BY <1>4, <1>5, <1>6, <1>11, <1>12, <1>13 DEF CleanLog, t, es

\* upsertSnapshots keeps the cache of a clean log clean.
LEMMA CleanCacheExtends ==
  ASSUME NEW p, NEW s, CleanLog(p, s), NEW cache, CleanCache(s, cache),
         NEW es \in Seq(EntryRowSet), \A i \in 1..Len(es) : es[i].seq = Len(s) + 1,
         UpsertAdmitted(cache, es), NEW t, EntriesIn(t) = EntriesIn(s) \o es
  PROVE  CleanCache(t, Upserted(cache, es, Len(s) + 1))
<1> DEFINE n == Len(s) + 1
           old == EntriesIn(s)
<1>1. n \in Seqs /\ n \in Nat /\ Len(s) \in Nat /\ s \in Seq(StoredSet)
  BY LenProperties DEF CleanLog, Seqs
<1>2. old \in Seq(EntryRowSet) /\ \A i \in 1..Len(old) : old[i].seq <= n
  <2>1. old \in Seq(EntryRowSet) /\ \A i \in 1..Len(old) : old[i].seq <= Len(s)
    BY <1>1, EntriesExtend DEF CleanLog
  <2>2. ASSUME NEW i \in 1..Len(old) PROVE old[i].seq <= n
    <3>1. old[i] \in EntryRowSet /\ old[i].seq <= Len(s)
      BY <2>1, ElementOfSeq
    <3>2. old[i].seq \in Nat
      BY <3>1 DEF EntryRowSet, Seqs
    <3>3. QED BY <1>1, <3>1, <3>2
  <2>3. QED BY <2>1, <2>2
<1>3. cache \in Caches /\ \A h \in Holders : cache[h] = CachedRow(old, h)
  BY DEF CleanCache
<1>4. Upserted(cache, es, n) \in Caches
  BY <1>1, <1>3, UpsertedType
<1> HIDE DEF n, old
<1>5. ASSUME NEW h \in Holders PROVE Upserted(cache, es, n)[h] = CachedRow(old \o es, h)
  <2>1. cache[h] = CachedRow(old, h) /\ \A i \in 1..Len(es) : es[i].seq = n
    BY <1>3 DEF n
  <2>2. QED BY <1>1, <1>2, <1>3, <2>1, CachedExtends
<1>6. QED BY <1>4, <1>5 DEF CleanCache, n, old

\* An audit row more keeps the trail in order.
LEMMA CleanTrailExtends ==
  ASSUME NEW s, CleanTrail(s), NEW hd, CleanHead(s, hd), hd \in AuditHashes,
         NEW batch \in BatchIds, NEW row, row = AuditRow(Len(s) + 1, batch, hd)
  PROVE  /\ CleanTrail(Append(s, row)) /\ CleanHead(Append(s, row), row.hash)
         /\ row.hash \in AuditHashes
<1> DEFINE n == Len(s) + 1
           t == Append(s, row)
<1>1. /\ s \in Seq(AuditRowSet) /\ Len(s) \in Nat /\ n \in Seqs /\ n \in Nat /\ n - 1 = Len(s)
  BY LenProperties DEF CleanTrail, Seqs
<1>2. /\ row = [seq |-> n, batch |-> batch, prev |-> hd, hash |-> AuditHash(hd, n, batch)]
  BY DEF AuditRow
<1>3. AuditHash(hd, n, batch) \in AuditHashes
  BY <1>1 DEF AuditHash, AuditHashes
<1>4. row \in AuditRowSet /\ row.hash \in AuditHashes
  BY <1>1, <1>2, <1>3 DEF AuditRowSet
<1>5. /\ t \in Seq(AuditRowSet) /\ Len(t) = n /\ t[n] = row /\ \A m \in 1..Len(s) : t[m] = s[m]
  BY <1>1, <1>4, AppendProperties
<1> HIDE DEF t
<1>6. ASSUME NEW m \in 1..n PROVE PrevHash(t, m) = PrevHash(s, m)
  <2>1. CASE m = 1
    BY <2>1 DEF PrevHash
  <2>2. CASE m # 1
    <3>1. m - 1 \in 1..Len(s)
      BY <1>1, <2>2
    <3>2. t[m - 1] = s[m - 1]
      BY <1>5, <3>1
    <3>3. QED BY <2>2, <3>2 DEF PrevHash
  <2>3. QED BY <2>1, <2>2
<1>7. ASSUME NEW m \in 1..n
      PROVE  /\ t[m].seq = m /\ t[m].prev = PrevHash(t, m)
             /\ t[m].hash = AuditHash(t[m].prev, t[m].seq, t[m].batch)
  <2>1. CASE m \in 1..Len(s)
    BY <1>5, <1>6, <2>1 DEF CleanTrail
  <2>2. CASE m = n
    <3>1. t[n].prev = PrevHash(t, n)
      BY <1>1, <1>2, <1>5, <1>6, <2>2 DEF CleanHead
    <3> HIDE DEF n
    <3>2. QED BY <1>2, <1>5, <2>2, <3>1
  <2>3. QED BY <1>1, <2>1, <2>2
<1>8. CleanTrail(t)
  BY <1>5, <1>7 DEF CleanTrail
<1>9. CleanHead(t, row.hash)
  BY <1>1, <1>5 DEF CleanHead, PrevHash
<1>10. QED BY <1>4, <1>8, <1>9 DEF t

-----------------------------------------------------------------------------
(* An edit of one row.                                                       *)

\* A row that agrees with itself, whatever is around it.
OwnOrder(b) ==
  /\ b.hash = BatchHash(b.prev, b.row, b.entries)
  /\ b.row.count = Len(b.entries)
  /\ RunsInRange(Amounts(b.entries)) /\ b.row.net = Total(Amounts(b.entries))
  /\ \A i \in DOMAIN b.entries : b.entries[i].pool = b.row.pool /\ b.entries[i].seq = b.row.seq

\* ... and with the row before it.
InOrder(t, m) ==
  /\ OwnOrder(t[m])
  /\ t[m].row.seq = IF m = 1 THEN 1 ELSE t[m - 1].row.seq + 1
  /\ t[m].prev = PrevHash(t, m)

\* The replay can number the rows it reads.
Readable(t) == /\ Len(t) \in Nat /\ DOMAIN t = 1..Len(t) /\ (t = <<>> \/ Len(t) # 0)
               /\ \A m \in 1..Len(t) : t[m].row.seq \in Nat

\* One edit of the batch at n leaves findings there or at the next row, and at least one, be
\* it the head's.
LogEdited(p, t, hd, n) ==
  /\ Readable(t)
  /\ \A f \in BatchFindings(p, t) : f.seq \in {n, n + 1}
  /\ BatchFindings(p, t) # {} \/ hd # PrevHash(t, Len(t) + 1)

\* What a hash attests cannot be changed under it.
LEMMA AppendTells ==
  ASSUME NEW S, NEW s \in Seq(S), NEW x, NEW y
  PROVE  /\ Append(s, x) # s
         /\ Append(s, x) = Append(s, y) => x = y
<1> DEFINE X == S \cup {x, y}
<1>1. s \in Seq(X) /\ x \in X /\ y \in X
  OBVIOUS
<1> HIDE DEF X
<1>2. /\ Len(Append(s, x)) = Len(s) + 1 /\ Len(s) \in Nat
      /\ Append(s, x)[Len(s) + 1] = x /\ Append(s, y)[Len(s) + 1] = y
  BY <1>1, AppendProperties, LenProperties
<1>3. QED BY <1>2

\* A clean row agrees with itself and with the row before it.
LEMMA CleanInOrder ==
  ASSUME NEW p, NEW s, CleanLog(p, s), NEW n \in 1..Len(s)
  PROVE  /\ InOrder(s, n) /\ OwnOrder(s[n]) /\ s[n].row.seq = n
         /\ s[n] \in StoredSet /\ s[n].prev = PrevHash(s, n)
<1>1. CleanBatch(p, s, n) /\ s[n] \in StoredSet /\ Len(s) \in Nat
  BY ElementOfSeq, LenProperties DEF CleanLog
<1>2. OwnOrder(s[n]) /\ s[n].row.seq = n /\ s[n].prev = PrevHash(s, n)
  BY <1>1 DEF CleanBatch, OwnOrder
<1>3. s[n].row.seq = IF n = 1 THEN 1 ELSE s[n - 1].row.seq + 1
  <2>1. CASE n = 1
    BY <1>2, <2>1
  <2>2. CASE n # 1
    <3> DEFINE m == n - 1
    <3>1. m \in 1..Len(s) /\ m + 1 = n
      BY <1>1, <2>2
    <3> HIDE DEF m
    <3>2. s[m].row.seq = m
      BY <3>1 DEF CleanLog, CleanBatch
    <3>3. QED BY <1>2, <2>2, <3>1, <3>2 DEF m
  <2>3. QED BY <2>1, <2>2
<1>4. QED BY <1>1, <1>2, <1>3 DEF InOrder

\* The findings are those of the rows out of order.
LEMMA FindingsOf ==
  ASSUME NEW p, NEW t, Readable(t)
  PROVE  /\ \A f \in BatchFindings(p, t) : \E m \in 1..Len(t) :
              /\ f.kind \in ChainKinds /\ f.pool = p /\ f.seq = t[m].row.seq /\ ~InOrder(t, m)
         /\ \A m \in 1..Len(t) :
              t[m].hash # BatchHash(t[m].prev, t[m].row, t[m].entries) => BatchFindings(p, t) # {}
         /\ \A m \in 1..Len(t) : t[m].prev # PrevHash(t, m) => BatchFindings(p, t) # {}
         /\ \A m \in 1..Len(t) :
              t[m].row.seq # (IF m = 1 THEN 1 ELSE t[m - 1].row.seq + 1) => BatchFindings(p, t) # {}
<1> DEFINE cols == [m \in DOMAIN t |-> t[m].row.seq]
<1>1. DOMAIN t = 1..Len(t) /\ Len(t) \in Nat
  BY DEF Readable
<1>2. ASSUME NEW m \in 1..Len(t)
      PROVE  WantSeq(cols, m) = IF m = 1 THEN 1 ELSE t[m - 1].row.seq + 1
  <2>1. m # 1 => m - 1 \in DOMAIN t
    BY <1>1
  <2>2. QED BY <2>1 DEF WantSeq
<1>3. ASSUME NEW m \in 1..Len(t), NEW kind, InOrder(t, m) PROVE ~BatchHas(kind, t, m)
  BY <1>2, <1>3 DEF BatchHas, InOrder, OwnOrder
<1>4. \A f \in BatchFindings(p, t) : \E kind \in ChainKinds, m \in DOMAIN t :
        f = Finding(kind, p, t[m].row.seq) /\ BatchHas(kind, t, m)
  BY DEF BatchFindings
<1>5. \A f \in BatchFindings(p, t) : \E m \in 1..Len(t) :
        /\ f.kind \in ChainKinds /\ f.pool = p /\ f.seq = t[m].row.seq /\ ~InOrder(t, m)
  BY <1>1, <1>3, <1>4 DEF Finding
<1>6. ASSUME NEW m \in 1..Len(t), NEW kind \in ChainKinds, BatchHas(kind, t, m)
      PROVE  BatchFindings(p, t) # {}
  <2>1. <<kind, m>> \in {y \in ChainKinds \X DOMAIN t : BatchHas(y[1], t, y[2])}
    BY <1>1, <1>6
  <2>2. QED BY <2>1 DEF BatchFindings
<1>7. ASSUME NEW m \in 1..Len(t), t[m].hash # BatchHash(t[m].prev, t[m].row, t[m].entries)
      PROVE  BatchFindings(p, t) # {}
  <2>1. BatchHas("batch_hash_mismatch", t, m) /\ "batch_hash_mismatch" \in ChainKinds
    BY <1>7 DEF BatchHas, ChainKinds
  <2>2. QED BY <1>6, <2>1
<1>8. ASSUME NEW m \in 1..Len(t), t[m].prev # PrevHash(t, m) PROVE BatchFindings(p, t) # {}
  <2>1. BatchHas("prev_hash_mismatch", t, m) /\ "prev_hash_mismatch" \in ChainKinds
    BY <1>8 DEF BatchHas, ChainKinds
  <2>2. QED BY <1>6, <2>1
<1>9. ASSUME NEW m \in 1..Len(t), t[m].row.seq # (IF m = 1 THEN 1 ELSE t[m - 1].row.seq + 1)
      PROVE  BatchFindings(p, t) # {}
  <2>1. BatchHas("seq_gap", t, m) /\ "seq_gap" \in ChainKinds
    BY <1>2, <1>9 DEF BatchHas, ChainKinds
  <2>2. QED BY <1>6, <2>1
<1>10. QED BY <1>5, <1>7, <1>8, <1>9

\* A row of ledger_batch an edit left: the position it had, and a hash, a link or a content
\* that no longer fits.
Tampered(b, c) ==
  /\ b.row.seq = c.row.seq
  /\ \/ b.prev # c.prev
     \/ b.hash # BatchHash(b.prev, b.row, b.entries)

\* Every edit of one batch leaves such a row.
LEMMA EditTampers ==
  ASSUME NEW c \in StoredSet, c.hash = BatchHash(c.prev, c.row, c.entries),
         NEW b \in BatchEdits(c), b # c
  PROVE  Tampered(b, c)
<1>1. /\ c = [row |-> c.row, prev |-> c.prev, hash |-> c.hash, entries |-> c.entries]
      /\ c.row \in BatchColumnSet /\ c.prev \in LedgerHashes /\ c.hash \in LedgerHashes
  BY DEF StoredSet
<1>2. \A x : Append(c.prev, x) # c.prev /\ Append(c.hash, x) # c.hash
  BY <1>1, AppendTells DEF LedgerHashes
<1>3. ASSUME NEW row, NEW es, row # c.row \/ es # c.entries, row.seq = c.row.seq,
             b = [row |-> row, prev |-> c.prev, hash |-> c.hash, entries |-> es]
      PROVE  Tampered(b, c)
  <2>1. [row |-> row, entries |-> es] # [row |-> c.row, entries |-> c.entries]
    BY <1>3
  <2>2. BatchHash(c.prev, row, es) # BatchHash(c.prev, c.row, c.entries)
    BY <1>1, <2>1, AppendTells DEF BatchHash, LedgerHashes
  <2>3. QED BY <1>3, <2>2 DEF Tampered
<1>4. ASSUME NEW row, row.seq = c.row.seq, b = [c EXCEPT !.row = row] PROVE Tampered(b, c)
  <2>1. b = [row |-> row, prev |-> c.prev, hash |-> c.hash, entries |-> c.entries]
    BY <1>1, <1>4
  <2>2. row # c.row
    BY <1>1, <2>1
  <2>3. QED BY <1>3, <1>4, <2>1, <2>2
<1>5. ASSUME NEW es, b = [c EXCEPT !.entries = es] PROVE Tampered(b, c)
  <2>1. b = [row |-> c.row, prev |-> c.prev, hash |-> c.hash, entries |-> es]
    BY <1>1, <1>5
  <2>2. es # c.entries
    BY <1>1, <2>1
  <2>3. QED BY <1>3, <2>1, <2>2
<1>6. CASE b = [c EXCEPT !.row.net = @ + 1]
  <2>1. [c.row EXCEPT !.net = @ + 1].seq = c.row.seq
    BY <1>1 DEF BatchColumnSet
  <2>2. b = [c EXCEPT !.row = [c.row EXCEPT !.net = @ + 1]]
    BY <1>1, <1>6
  <2>3. QED BY <1>4, <2>1, <2>2
<1>7. CASE b = [c EXCEPT !.row.count = @ + 1]
  <2>1. [c.row EXCEPT !.count = @ + 1].seq = c.row.seq
    BY <1>1 DEF BatchColumnSet
  <2>2. b = [c EXCEPT !.row = [c.row EXCEPT !.count = @ + 1]]
    BY <1>1, <1>7
  <2>3. QED BY <1>4, <2>1, <2>2
<1>8. CASE b = [c EXCEPT !.row.key = None]
  <2>1. [c.row EXCEPT !.key = None].seq = c.row.seq
    BY <1>1 DEF BatchColumnSet
  <2>2. b = [c EXCEPT !.row = [c.row EXCEPT !.key = None]]
    BY <1>1, <1>8
  <2>3. QED BY <1>4, <2>1, <2>2
<1>9. CASE b = [c EXCEPT !.prev = Append(@, "other")]
  <2>1. b.prev = Append(c.prev, "other") /\ b.row = c.row
    BY <1>1, <1>9
  <2>2. QED BY <1>2, <2>1 DEF Tampered
<1>10. CASE b = [c EXCEPT !.hash = Append(@, "other")]
  <2>1. b = [row |-> c.row, prev |-> c.prev, hash |-> Append(c.hash, "other"), entries |-> c.entries]
    BY <1>1, <1>10
  <2>2. QED BY <1>2, <2>1 DEF Tampered
<1>11. CASE b = [c EXCEPT !.entries = Tail(@)]
  <2>1. b = [c EXCEPT !.entries = Tail(c.entries)]
    BY <1>11
  <2>2. QED BY <1>5, <2>1
<1>12. CASE b = [c EXCEPT !.entries[1].amount = 0 - @]
  <2>1. b = [c EXCEPT !.entries = [c.entries EXCEPT ![1].amount = 0 - @]]
    BY <1>1, <1>12
  <2>2. QED BY <1>5, <2>1
<1>13. CASE b = [c EXCEPT !.entries[1].seq = @ + 1]
  <2>1. b = [c EXCEPT !.entries = [c.entries EXCEPT ![1].seq = @ + 1]]
    BY <1>1, <1>13
  <2>2. QED BY <1>5, <2>1
<1>14. CASE b = [c EXCEPT !.entries[1].account = CHOOSE a \in Accounts : a # c.entries[1].account]
  <2> DEFINE other == CHOOSE a \in Accounts : a # c.entries[1].account
  <2>1. b = [c EXCEPT !.entries = [c.entries EXCEPT ![1].account = other]]
    BY <1>1, <1>14
  <2> HIDE DEF other
  <2>2. QED BY <1>5, <2>1
<1>15. QED BY <1>6, <1>7, <1>8, <1>9, <1>10, <1>11, <1>12, <1>13, <1>14 DEF BatchEdits

\* An edited batch is found where it is, or at the batch after it.
LEMMA BatchEdited ==
  ASSUME NEW p, NEW s, CleanLog(p, s), NEW hd, NEW n \in 1..Len(s),
         NEW b, Tampered(b, s[n])
  PROVE  LogEdited(p, [s EXCEPT ![n] = b], hd, n)
<1> DEFINE t == [s EXCEPT ![n] = b]
<1>1. s \in Seq(StoredSet) /\ Len(s) \in Nat /\ DOMAIN s = 1..Len(s)
  BY LenProperties DEF CleanLog
<1>2. DOMAIN t = 1..Len(s) /\ t[n] = b /\ \A m \in 1..Len(s) : m # n => t[m] = s[m]
  BY <1>1
<1>3. Len(t) = Len(s)
  <2>1. t \in [1..Len(s) -> StoredSet \cup {b}]
    BY <1>1, ElementOfSeq
  <2>2. QED BY <1>1, <2>1
<1> HIDE DEF t
<1>4. b.row.seq = n /\ s[n].prev = PrevHash(s, n)
  BY CleanInOrder DEF Tampered
<1>5. \A m \in 1..Len(t) : t[m].row.seq = m
  BY <1>2, <1>3, <1>4, CleanInOrder
<1>6. Readable(t)
  BY <1>1, <1>2, <1>3, <1>5 DEF Readable
<1>7. ASSUME NEW m \in 1..Len(t), m \notin {n, n + 1} PROVE InOrder(t, m)
  <2>1. t[m] = s[m] /\ InOrder(s, m)
    BY <1>2, <1>3, <1>7, CleanInOrder
  <2>2. m # 1 => t[m - 1] = s[m - 1]
    <3>1. m # 1 => m - 1 \in 1..Len(s) /\ m - 1 # n
      BY <1>1, <1>3, <1>7
    <3>2. QED BY <1>2, <3>1
  <2>3. QED BY <2>1, <2>2 DEF InOrder, PrevHash
<1>8. \A f \in BatchFindings(p, t) : f.seq \in {n, n + 1}
  BY <1>5, <1>6, <1>7, FindingsOf
<1>9. BatchFindings(p, t) # {}
  <2>1. CASE b.prev # s[n].prev
    <3>1. PrevHash(t, n) = PrevHash(s, n)
      <4>1. n # 1 => n - 1 \in 1..Len(s) /\ n - 1 # n
        BY <1>1
      <4>2. QED BY <1>2, <4>1 DEF PrevHash
    <3>2. t[n].prev # PrevHash(t, n)
      BY <1>2, <1>4, <2>1, <3>1
    <3>3. QED BY <1>3, <1>6, <3>2, FindingsOf
  <2>2. CASE b.hash # BatchHash(b.prev, b.row, b.entries)
    BY <1>2, <1>3, <1>6, <2>2, FindingsOf
  <2>3. QED BY <2>1, <2>2 DEF Tampered
<1>10. QED BY <1>6, <1>8, <1>9 DEF LogEdited, t

\* Removing one row of a sequence.
LEMMA Removed ==
  ASSUME NEW S, NEW s \in Seq(S), NEW n \in 1..Len(s)
  PROVE  LET t == RemoveAt(s, n)
         IN  /\ t \in Seq(S) /\ Len(t) = Len(s) - 1 /\ Len(t) \in Nat /\ DOMAIN t = 1..Len(t)
             /\ t = <<>> \/ Len(t) # 0
             /\ \A m \in 1..Len(t) : t[m] = IF m < n THEN s[m] ELSE s[m + 1]
<1> DEFINE u == SubSeq(s, 1, n - 1)
           v == SubSeq(s, n + 1, Len(s))
<1>1. Len(s) \in Nat /\ n \in Nat /\ n <= Len(s) /\ n >= 1 /\ DOMAIN s = 1..Len(s)
      /\ \A i \in 1..Len(s) : s[i] \in S
  BY LenProperties, ElementOfSeq
<1>2. u \in Seq(S) /\ Len(u) = n - 1 /\ \A i \in 1..(n - 1) : u[i] = s[i]
  <2>1. \A i \in 1..(n - 1) : s[i] \in S
    BY <1>1
  <2> DEFINE k == n - 1
  <2>2. k \in Int /\ (1 <= k => k - 1 + 1 = k) /\ (~(1 <= k) => k = 0) /\ \A i \in 1..k : 1 + i - 1 = i /\ i \in 1..(k - 1 + 1)
    BY <1>1
  <2> HIDE DEF k
  <2>3. /\ SubSeq(s, 1, k) \in Seq(S)
        /\ Len(SubSeq(s, 1, k)) = IF 1 <= k THEN k - 1 + 1 ELSE 0
        /\ \A i \in 1..(k - 1 + 1) : SubSeq(s, 1, k)[i] = s[1 + i - 1]
    BY <2>1, <2>2, SubSeqProperties DEF k
  <2>4. QED BY <2>2, <2>3 DEF k
<1>3. v \in Seq(S) /\ Len(v) = Len(s) - n /\ \A i \in 1..(Len(s) - n) : v[i] = s[n + i]
  <2> DEFINE k == n + 1
             l == Len(s)
  <2>1. k \in Int /\ l \in Int /\ \A i \in k..l : s[i] \in S
    BY <1>1
  <2>2. /\ l - k + 1 = l - n /\ (k <= l <=> l - n >= 1) /\ l - n >= 0
        /\ \A i \in 1..(l - n) : k + i - 1 = n + i
    BY <1>1
  <2> HIDE DEF k, l
  <2>3. /\ SubSeq(s, k, l) \in Seq(S)
        /\ Len(SubSeq(s, k, l)) = IF k <= l THEN l - k + 1 ELSE 0
        /\ \A i \in 1..(l - k + 1) : SubSeq(s, k, l)[i] = s[k + i - 1]
    BY <2>1, SubSeqProperties
  <2>4. Len(SubSeq(s, k, l)) = l - n
    BY <1>1, <2>1, <2>2, <2>3
  <2>5. QED BY <2>2, <2>3, <2>4 DEF k, l
<1> HIDE DEF u, v
<1> DEFINE t == u \o v
<1>4. /\ t \in Seq(S) /\ Len(t) = Len(s) - 1
      /\ \A m \in 1..(Len(u) + Len(v)) : t[m] = IF m <= Len(u) THEN u[m] ELSE v[m - Len(u)]
  <2>1. u \in Seq(S) /\ v \in Seq(S)
    BY <1>2, <1>3
  <2>2. /\ t \in Seq(S) /\ Len(t) = Len(u) + Len(v)
        /\ \A m \in 1..(Len(u) + Len(v)) : t[m] = IF m <= Len(u) THEN u[m] ELSE v[m - Len(u)]
    BY <2>1, ConcatProperties
  <2>3. Len(u) + Len(v) = Len(s) - 1
    BY <1>1, <1>2, <1>3
  <2>4. QED BY <2>2, <2>3
<1>5. RemoveAt(s, n) = t
  BY DEF RemoveAt, u, v
<1> HIDE DEF t
<1>6. ASSUME NEW m \in 1..(Len(s) - 1) PROVE t[m] = IF m < n THEN s[m] ELSE s[m + 1]
  <2>1. CASE m < n
    <3>1. m \in 1..(n - 1) /\ m <= Len(u) /\ m \in 1..(Len(u) + Len(v))
      BY <1>1, <1>2, <1>3, <2>1
    <3>2. QED BY <1>2, <1>4, <2>1, <3>1
  <2>2. CASE ~(m < n)
    <3> DEFINE i == m - (n - 1)
    <3>1. i \in 1..(Len(s) - n) /\ n + i = m + 1 /\ ~(m <= n - 1) /\ m \in 1..(Len(u) + Len(v))
      BY <1>1, <1>2, <1>3, <2>2
    <3>2. t[m] = v[i]
      BY <1>2, <1>4, <3>1
    <3> HIDE DEF i
    <3>3. v[i] = s[m + 1]
      BY <1>3, <3>1
    <3>4. QED BY <2>2, <3>2, <3>3
  <2>3. QED BY <2>1, <2>2
<1>7. Len(t) \in Nat /\ DOMAIN t = 1..Len(t) /\ (t = <<>> \/ Len(t) # 0)
  BY <1>4, LenProperties, EmptySeq
<1>8. QED BY <1>4, <1>5, <1>6, <1>7

\* A removed batch leaves a gap at the batch after it, or the head.
LEMMA BatchRemoved ==
  ASSUME NEW p, NEW s, CleanLog(p, s), NEW hd, CleanHead(s, hd), NEW n \in 1..Len(s)
  PROVE  LogEdited(p, RemoveAt(s, n), hd, n)
<1> DEFINE t == RemoveAt(s, n)
<1>1. s \in Seq(StoredSet) /\ Len(s) \in Nat /\ n \in Nat /\ n >= 1 /\ n <= Len(s)
  BY LenProperties DEF CleanLog
<1>2. /\ Len(t) = Len(s) - 1 /\ Len(t) \in Nat /\ DOMAIN t = 1..Len(t)
      /\ t = <<>> \/ Len(t) # 0
      /\ \A m \in 1..Len(t) : t[m] = IF m < n THEN s[m] ELSE s[m + 1]
  BY <1>1, Removed
<1> HIDE DEF t
<1>3. ASSUME NEW m \in 1..Len(t)
      PROVE  /\ m < n => t[m] = s[m] /\ t[m].row.seq = m
             /\ m >= n => t[m] = s[m + 1] /\ t[m].row.seq = m + 1
  <2>1. m \in 1..Len(s) /\ m + 1 \in 1..Len(s)
    BY <1>1, <1>2
  <2> DEFINE k == m + 1
  <2>2. s[m].row.seq = m
    BY <2>1, CleanInOrder
  <2>3. s[k].row.seq = k
    BY <2>1, CleanInOrder
  <2>4. m < n \/ (m >= n /\ ~(m < n))
    BY <1>1
  <2>5. QED BY <1>2, <2>2, <2>3, <2>4
<1>4. Readable(t)
  <2>1. ASSUME NEW m \in 1..Len(t) PROVE t[m].row.seq \in Nat
    <3>1. m < n \/ m >= n
      BY <1>1
    <3>2. m \in Nat /\ m + 1 \in Nat
      BY <1>2
    <3>3. QED BY <1>3, <3>1, <3>2
  <2>2. QED BY <1>2, <2>1 DEF Readable
<1>5. ASSUME NEW m \in 1..Len(t), m # n PROVE InOrder(t, m)
  <2>1. CASE m < n
    <3>1. m \in 1..Len(s) /\ (m # 1 => m - 1 \in 1..Len(t) /\ m - 1 < n)
      BY <1>1, <1>2, <2>1
    <3>2. t[m] = s[m] /\ (m # 1 => t[m - 1] = s[m - 1])
      BY <1>3, <2>1, <3>1
    <3>3. InOrder(s, m)
      BY <3>1, CleanInOrder
    <3>4. QED BY <3>2, <3>3 DEF InOrder, PrevHash
  <2>2. CASE m > n
    <3> DEFINE k == m + 1
               j == m - 1
    <3>1. k \in 1..Len(s) /\ k # 1 /\ k - 1 = m /\ j \in 1..Len(t) /\ j >= n /\ j + 1 = m /\ m # 1
          /\ m >= n
      BY <1>1, <1>2, <2>2
    <3> HIDE DEF j
    <3>2. t[m] = s[k] /\ t[j] = s[m]
      BY <1>3, <3>1
    <3> HIDE DEF k
    <3>3. InOrder(s, k)
      BY <3>1, CleanInOrder
    <3>4. s[k].row.seq = s[m].row.seq + 1 /\ s[k].prev = s[m].hash /\ OwnOrder(s[k])
      BY <3>1, <3>3 DEF InOrder, PrevHash
    <3>5. QED BY <3>1, <3>2, <3>4 DEF InOrder, PrevHash, j
  <2>3. QED BY <1>1, <1>5, <2>1, <2>2
<1>6. \A f \in BatchFindings(p, t) : f.seq \in {n, n + 1}
  <2> TAKE f \in BatchFindings(p, t)
  <2>1. PICK m \in 1..Len(t) : f.seq = t[m].row.seq /\ ~InOrder(t, m)
    BY <1>4, FindingsOf
  <2>2. m = n
    BY <1>5, <2>1
  <2>3. QED BY <1>1, <1>3, <2>1, <2>2
<1>7. CASE n \in 1..Len(t)
  <2>1. t[n].row.seq = n + 1
    BY <1>1, <1>3, <1>7
  <2>2. t[n].row.seq # IF n = 1 THEN 1 ELSE t[n - 1].row.seq + 1
    <3>1. CASE n = 1
      BY <2>1, <3>1
    <3>2. CASE n # 1
      <4> DEFINE m == n - 1
      <4>1. m \in 1..Len(t) /\ m < n /\ m + 1 = n
        BY <1>1, <1>7, <3>2
      <4> HIDE DEF m
      <4>2. t[m].row.seq = m
        BY <1>3, <4>1
      <4>3. t[m].row.seq + 1 # n + 1
        BY <1>1, <4>1, <4>2
      <4>4. QED BY <2>1, <3>2, <4>3 DEF m
    <3>3. QED BY <3>1, <3>2
  <2>3. BatchFindings(p, t) # {}
    BY <1>4, <1>7, <2>2, FindingsOf
  <2>4. QED BY <1>4, <1>6, <2>3 DEF LogEdited, t
<1>8. CASE n \notin 1..Len(t)
  <2>1. n = Len(s) /\ Len(t) + 1 = n
    BY <1>1, <1>2, <1>8
  <2>2. PrevHash(t, n) = PrevHash(s, n)
    <3>1. n # 1 => n - 1 \in 1..Len(t) /\ n - 1 < n
      BY <1>1, <2>1
    <3>2. n # 1 => t[n - 1] = s[n - 1]
      BY <1>3, <3>1
    <3>3. QED BY <3>2 DEF PrevHash
  <2>3. hd = s[n].hash
    BY <1>1, <2>1 DEF CleanHead, PrevHash
  <2>4. s[n].hash # s[n].prev /\ s[n].prev = PrevHash(s, n)
    <3>1. s[n].prev \in LedgerHashes /\ s[n].prev = PrevHash(s, n)
          /\ s[n].hash = BatchHash(s[n].prev, s[n].row, s[n].entries)
      BY CleanInOrder DEF StoredSet, OwnOrder
    <3>2. QED BY <3>1, AppendTells DEF BatchHash, LedgerHashes
  <2>5. hd # PrevHash(t, Len(t) + 1)
    BY <2>1, <2>2, <2>3, <2>4
  <2>6. QED BY <1>4, <1>6, <2>5 DEF LogEdited, t
<1>9. QED BY <1>7, <1>8

\* A renumbered last batch leaves a gap before it.
LEMMA LastRenumbered ==
  ASSUME NEW p, NEW s, CleanLog(p, s), NEW hd, NEW n \in 1..Len(s), n = Len(s)
  PROVE  LogEdited(p, [s EXCEPT ![n].row.seq = @ + 1], hd, n)
<1> DEFINE t == [s EXCEPT ![n].row.seq = @ + 1]
           b == t[n]
<1>1. s \in Seq(StoredSet) /\ Len(s) \in Nat /\ DOMAIN s = 1..Len(s) /\ n \in Nat /\ n >= 1
  BY LenProperties DEF CleanLog
<1>2. DOMAIN t = 1..Len(s) /\ \A m \in 1..Len(s) : m # n => t[m] = s[m]
  BY <1>1
<1>3. t[n].row.seq = n + 1
  <2>1. s[n] \in StoredSet /\ s[n].row.seq = n
    BY CleanInOrder
  <2>2. t[n] = [s[n] EXCEPT !.row.seq = @ + 1]
    BY <1>1
  <2>3. t[n].row.seq = s[n].row.seq + 1
    BY <2>1, <2>2 DEF StoredSet, BatchColumnSet
  <2>4. QED BY <2>1, <2>3
<1>4. Len(t) = Len(s)
  <2>1. t \in [1..Len(s) -> StoredSet \cup {b}]
    <3>1. \A m \in 1..Len(s) : t[m] \in StoredSet \cup {b}
      BY <1>1, <1>2, ElementOfSeq
    <3> HIDE DEF b
    <3>2. QED BY <1>1, <3>1
  <2>2. QED BY <1>1, <2>1
<1> HIDE DEF t
<1>5. \A m \in 1..Len(t) : m # n => t[m].row.seq = m
  BY <1>2, <1>4, CleanInOrder
<1>6. Readable(t)
  BY <1>1, <1>2, <1>3, <1>4, <1>5 DEF Readable
<1>7. ASSUME NEW m \in 1..Len(t), m # n PROVE InOrder(t, m)
  <2>1. t[m] = s[m] /\ InOrder(s, m)
    BY <1>2, <1>4, <1>7, CleanInOrder
  <2>2. m # 1 => t[m - 1] = s[m - 1]
    <3>1. m # 1 => m - 1 \in 1..Len(s) /\ m - 1 # n
      BY <1>1, <1>4, <1>7
    <3>2. QED BY <1>2, <3>1
  <2>3. QED BY <2>1, <2>2 DEF InOrder, PrevHash
<1>8. \A f \in BatchFindings(p, t) : f.seq \in {n, n + 1}
  <2> TAKE f \in BatchFindings(p, t)
  <2>1. PICK m \in 1..Len(t) : f.seq = t[m].row.seq /\ ~InOrder(t, m)
    BY <1>6, FindingsOf
  <2>2. QED BY <1>3, <1>7, <2>1
<1>9. t[n].row.seq # IF n = 1 THEN 1 ELSE t[n - 1].row.seq + 1
  <2>1. CASE n = 1
    BY <1>3, <2>1
  <2>2. CASE n # 1
    <3> DEFINE m == n - 1
    <3>1. m \in 1..Len(t) /\ m # n /\ m + 1 = n
      BY <1>1, <1>4, <2>2
    <3> HIDE DEF m
    <3>2. t[m].row.seq = m
      BY <1>5, <3>1
    <3>3. t[m].row.seq + 1 # n + 1
      BY <1>1, <3>1, <3>2
    <3>4. QED BY <1>3, <2>2, <3>3 DEF m
  <2>3. QED BY <2>1, <2>2
<1>10. BatchFindings(p, t) # {}
  BY <1>4, <1>6, <1>9, FindingsOf
<1>11. QED BY <1>6, <1>8, <1>10 DEF LogEdited, t

\* An edited row of the cache is found.
LEMMA CacheEdited ==
  ASSUME NEW p, NEW s, CleanLog(p, s), NEW cache, CleanCache(s, cache), NEW h \in Holders,
         NEW row \in CacheEdits(cache[h])
  PROVE  CacheFindings(p, s, [cache EXCEPT ![h] = row]) # {}
<1> DEFINE es == EntriesIn(s)
           new == [cache EXCEPT ![h] = row]
<1>1. es \in Seq(EntryRowSet) /\ Len(s) \in Nat /\ \A i \in 1..Len(es) : es[i].seq <= Len(s)
  BY EntriesExtend, LenProperties DEF CleanLog
<1>2. new[h] = row
  BY DEF CleanCache, Caches
<1>3. cache[h] = CachedRow(es, h)
  BY DEF CleanCache
<1> HIDE DEF es, new
<1>4. ASSUME NEW kind \in CacheKinds, CacheRowHas(kind, row, es, h)
      PROVE  CacheFindings(p, s, new) # {}
  <2>1. <<kind, h>> \in {y \in CacheKinds \X Holders : CacheRowHas(y[1], new[y[2]], es, y[2])}
    BY <1>2, <1>4
  <2>2. QED BY <2>1 DEF CacheFindings, es
<1>5. \A kind \in {"snapshot_orphan", "snapshot_missing", "balance_overflow", "snapshot_amount_mismatch",
                   "snapshot_entry_count_mismatch", "snapshot_as_of_seq_mismatch"} : kind \in CacheKinds
  BY DEF CacheKinds
<1>6. CASE RowsIn(es, h) = {}
  <2>1. cache[h] = None
    BY <1>3, <1>6 DEF CachedRow
  <2>2. row = [amount |-> 0, count |-> 1, asOf |-> 1]
    BY <2>1 DEF CacheEdits
  <2>3. row # None
    <3>1. row \in [amount : Int, count : Nat, asOf : Nat]
      BY <2>2
    <3>2. QED BY <3>1, NoneAssumption
  <2>4. CacheRowHas("snapshot_orphan", row, es, h)
    BY <1>6, <2>3 DEF CacheRowHas, RowsIn
  <2>5. QED BY <1>4, <1>5, <2>4 DEF new
<1>7. CASE RowsIn(es, h) # {}
  <2>1. cache[h] # None /\ cache[h] \in [amount : Int, count : Nat, asOf : Nat]
    BY <1>1, <1>3, <1>7, CachedRowIsRow
  <2>2. cache[h] = [amount |-> Total(AmountsOf(es, h)), count |-> Cardinality(RowsIn(es, h)),
                    asOf |-> Max({es[i].seq : i \in RowsIn(es, h)})]
    BY <1>3, <1>7 DEF CachedRow
  <2>3. /\ cache[h].amount = Total(AmountsOf(es, h))
        /\ cache[h].count = Cardinality({i \in DOMAIN es : HolderOf(es[i]) = h})
        /\ cache[h].asOf = Max({es[i].seq : i \in {i \in DOMAIN es : HolderOf(es[i]) = h}})
        /\ {i \in DOMAIN es : HolderOf(es[i]) = h} # {}
    BY <1>7, <2>2 DEF RowsIn
  <2>4. CASE ~RunsInRange(AmountsOf(es, h))
    <3>1. CacheRowHas("balance_overflow", row, es, h)
      BY <2>4 DEF CacheRowHas
    <3>2. QED BY <1>4, <1>5, <3>1 DEF new
  <2>5. ASSUME RunsInRange(AmountsOf(es, h)), row = None PROVE CacheFindings(p, s, new) # {}
    <3>1. CacheRowHas("snapshot_missing", row, es, h)
      BY <2>3, <2>5 DEF CacheRowHas
    <3>2. QED BY <1>4, <1>5, <3>1
  <2>6. ASSUME row = [cache[h] EXCEPT !.amount = 0 - @ - 1], RunsInRange(AmountsOf(es, h))
        PROVE  CacheFindings(p, s, new) # {}
    <3>1. row \in [amount : Int, count : Nat, asOf : Nat] /\ row.amount # cache[h].amount
      BY <2>1, <2>6
    <3>2. row # None
      BY <3>1, NoneAssumption
    <3>3. CacheRowHas("snapshot_amount_mismatch", row, es, h)
      BY <2>3, <2>6, <3>1, <3>2 DEF CacheRowHas
    <3>4. QED BY <1>4, <1>5, <3>3
  <2>7. ASSUME row = [cache[h] EXCEPT !.count = @ + 1] PROVE CacheFindings(p, s, new) # {}
    <3>1. row \in [amount : Int, count : Nat, asOf : Nat] /\ row.count # cache[h].count
      BY <2>1, <2>7
    <3>2. row # None
      BY <3>1, NoneAssumption
    <3>3. CacheRowHas("snapshot_entry_count_mismatch", row, es, h)
      BY <2>3, <3>1, <3>2 DEF CacheRowHas
    <3>4. QED BY <1>4, <1>5, <3>3
  <2>8. ASSUME row = [cache[h] EXCEPT !.asOf = @ + 1] PROVE CacheFindings(p, s, new) # {}
    <3>1. row \in [amount : Int, count : Nat, asOf : Nat] /\ row.asOf # cache[h].asOf
      BY <2>1, <2>8
    <3>2. row # None
      BY <3>1, NoneAssumption
    <3>3. CacheRowHas("snapshot_as_of_seq_mismatch", row, es, h)
      BY <2>3, <3>1, <3>2 DEF CacheRowHas
    <3>4. QED BY <1>4, <1>5, <3>3
  <2>9. \/ row = None
        \/ row = [cache[h] EXCEPT !.amount = 0 - @ - 1]
        \/ row = [cache[h] EXCEPT !.count = @ + 1]
        \/ row = [cache[h] EXCEPT !.asOf = @ + 1]
    BY <2>1 DEF CacheEdits
  <2>10. CacheFindings(p, s, new) # {}
    <3>1. CASE RunsInRange(AmountsOf(es, h))
      BY <2>5, <2>6, <2>7, <2>8, <2>9, <3>1
    <3>2. QED BY <2>4, <3>1 DEF new
  <2>11. QED BY <2>10 DEF new
<1>8. QED BY <1>6, <1>7 DEF new

\* The replay can number the rows of the trail, and a finding or the head tells of the edit.
ReadableTrail(t) == /\ Len(t) \in Nat /\ DOMAIN t = 1..Len(t) /\ (t = <<>> \/ Len(t) # 0)
                    /\ \A m \in 1..Len(t) : t[m].seq \in Nat
TrailEdited(t, hd) ==
  ReadableTrail(t) /\ (AuditFindings(t) # {} \/ hd # PrevHash(t, Len(t) + 1))

\* A trail in order is readable, and its rows have the types of their table.
LEMMA CleanTrailRows ==
  ASSUME NEW s, CleanTrail(s)
  PROVE  /\ ReadableTrail(s)
         /\ \A n \in 1..Len(s) :
              /\ s[n] = [seq |-> n, batch |-> s[n].batch, prev |-> s[n].prev, hash |-> s[n].hash]
              /\ s[n].batch \in BatchIds /\ s[n].prev \in AuditHashes /\ s[n].hash \in AuditHashes
              /\ s[n].seq = n
<1>1. s \in Seq(AuditRowSet) /\ Len(s) \in Nat /\ DOMAIN s = 1..Len(s)
      /\ (s = <<>> \/ Len(s) # 0)
  BY LenProperties, EmptySeq DEF CleanTrail
<1>2. \A n \in 1..Len(s) : s[n] \in AuditRowSet /\ s[n].seq = n
  BY <1>1, ElementOfSeq DEF CleanTrail
<1>3. QED BY <1>1, <1>2 DEF ReadableTrail, AuditRowSet

\* A row of the trail out of order is found.
LEMMA TrailFindingsOf ==
  ASSUME NEW t, ReadableTrail(t), NEW m \in 1..Len(t)
  PROVE  /\ t[m].hash # AuditHash(t[m].prev, t[m].seq, t[m].batch) => AuditFindings(t) # {}
         /\ t[m].prev # PrevHash(t, m) => AuditFindings(t) # {}
         /\ t[m].seq # (IF m = 1 THEN 1 ELSE t[m - 1].seq + 1) => AuditFindings(t) # {}
<1> DEFINE cols == [i \in DOMAIN t |-> t[i].seq]
<1>1. DOMAIN t = 1..Len(t) /\ Len(t) \in Nat
  BY DEF ReadableTrail
<1>2. WantSeq(cols, m) = IF m = 1 THEN 1 ELSE t[m - 1].seq + 1
  <2>1. m # 1 => m - 1 \in DOMAIN t
    BY <1>1
  <2>2. QED BY <2>1 DEF WantSeq
<1>3. ASSUME NEW kind \in AuditKinds, AuditRowHas(kind, t, m) PROVE AuditFindings(t) # {}
  <2>1. <<kind, m>> \in {y \in AuditKinds \X DOMAIN t : AuditRowHas(y[1], t, y[2])}
    BY <1>1, <1>3
  <2>2. QED BY <2>1 DEF AuditFindings
<1>4. ASSUME t[m].hash # AuditHash(t[m].prev, t[m].seq, t[m].batch) PROVE AuditFindings(t) # {}
  <2>1. AuditRowHas("audit_hash_mismatch", t, m) /\ "audit_hash_mismatch" \in AuditKinds
    BY <1>4 DEF AuditRowHas, AuditKinds
  <2>2. QED BY <1>3, <2>1
<1>5. ASSUME t[m].prev # PrevHash(t, m) PROVE AuditFindings(t) # {}
  <2>1. AuditRowHas("audit_prev_hash_mismatch", t, m) /\ "audit_prev_hash_mismatch" \in AuditKinds
    BY <1>5 DEF AuditRowHas, AuditKinds
  <2>2. QED BY <1>3, <2>1
<1>6. ASSUME t[m].seq # (IF m = 1 THEN 1 ELSE t[m - 1].seq + 1) PROVE AuditFindings(t) # {}
  <2>1. AuditRowHas("audit_seq_gap", t, m) /\ "audit_seq_gap" \in AuditKinds
    BY <1>2, <1>6 DEF AuditRowHas, AuditKinds
  <2>2. QED BY <1>3, <2>1
<1>7. QED BY <1>4, <1>5, <1>6

\* Every edit of one audit row tells.
LEMMA AuditRowEdited ==
  ASSUME NEW s, CleanTrail(s), NEW hd, NEW n \in 1..Len(s), NEW t,
         \/ t = [s EXCEPT ![n].batch[2] = @ + 1]
         \/ t = [s EXCEPT ![n].prev = Append(@, "other")]
         \/ t = [s EXCEPT ![n].hash = Append(@, "other")]
  PROVE  TrailEdited(t, hd)
<1> DEFINE b == t[n]
           c == s[n]
<1>1. s \in Seq(AuditRowSet) /\ Len(s) \in Nat /\ DOMAIN s = 1..Len(s) /\ n \in Nat /\ n >= 1
  BY LenProperties DEF CleanTrail
<1>2. DOMAIN t = 1..Len(s) /\ \A m \in 1..Len(s) : m # n => t[m] = s[m]
  BY <1>1
<1>3. Len(t) = Len(s)
  <2>1. t \in [1..Len(s) -> AuditRowSet \cup {b}]
    <3>1. \A m \in 1..Len(s) : t[m] \in AuditRowSet \cup {b}
      BY <1>1, <1>2, ElementOfSeq
    <3>2. t = [m \in 1..Len(s) |-> t[m]]
      BY <1>1
    <3> HIDE DEF b
    <3>3. QED BY <3>1, <3>2
  <2>2. QED BY <1>1, <2>1
<1>4. /\ c = [seq |-> n, batch |-> c.batch, prev |-> c.prev, hash |-> c.hash]
      /\ c.batch \in BatchIds /\ c.prev \in AuditHashes /\ c.hash \in AuditHashes /\ c.seq = n
  BY CleanTrailRows
<1>5. \/ b = [c EXCEPT !.batch[2] = @ + 1]
      \/ b = [c EXCEPT !.prev = Append(@, "other")]
      \/ b = [c EXCEPT !.hash = Append(@, "other")]
  BY <1>1
<1>6. c.hash = AuditHash(c.prev, n, c.batch) /\ c.prev = PrevHash(s, n)
  BY <1>4 DEF CleanTrail
<1>7. b.seq = n
  BY <1>4, <1>5
<1>8. ReadableTrail(t)
  <2>1. ASSUME NEW m \in 1..Len(t) PROVE t[m].seq = m
    <3>1. CASE m = n
      BY <1>7, <3>1
    <3>2. CASE m # n
      <4>1. m \in 1..Len(s) /\ t[m] = s[m]
        BY <1>2, <1>3, <3>2
      <4>2. s[m].seq = m
        BY <4>1, CleanTrailRows
      <4>3. QED BY <4>1, <4>2
    <3>3. QED BY <3>1, <3>2
  <2>2. QED BY <1>1, <1>2, <1>3, <2>1 DEF ReadableTrail
<1>9. n \in 1..Len(t)
  BY <1>3
<1>10. CASE b = [c EXCEPT !.batch[2] = @ + 1]
  <2>1. b.batch = [c.batch EXCEPT ![2] = @ + 1] /\ b.prev = c.prev /\ b.hash = c.hash
    BY <1>4, <1>10
  <2>2. b.batch # c.batch
    <3>1. c.batch \in Pools \X (Nat \ {0})
      BY <1>4 DEF BatchIds
    <3>2. b.batch[2] = c.batch[2] + 1 /\ c.batch[2] \in Nat
      BY <2>1, <3>1
    <3>3. QED BY <3>2
  <2>3. [seq |-> n, batch |-> b.batch] # [seq |-> n, batch |-> c.batch]
    BY <2>2
  <2>4. AuditHash(c.prev, n, b.batch) # AuditHash(c.prev, n, c.batch)
    <3> DEFINE x == [seq |-> n, batch |-> b.batch]
               y == [seq |-> n, batch |-> c.batch]
    <3>1. c.prev \in Seq([seq : Seqs, batch : BatchIds])
      BY <1>4 DEF AuditHashes
    <3>2. x # y
      BY <2>3
    <3> HIDE DEF x, y
    <3>3. Append(c.prev, x) # Append(c.prev, y)
      BY <3>1, <3>2, AppendTells
    <3>4. QED BY <3>3 DEF AuditHash, x, y
  <2>5. t[n].hash # AuditHash(t[n].prev, t[n].seq, t[n].batch)
    BY <1>6, <1>7, <2>1, <2>4
  <2> HIDE DEF b, c
  <2>6. AuditFindings(t) # {}
    BY <1>8, <1>9, <2>5, TrailFindingsOf
  <2>7. QED BY <1>8, <2>6 DEF TrailEdited
<1>11. CASE b = [c EXCEPT !.prev = Append(@, "other")]
  <2>1. b.prev = Append(c.prev, "other")
    BY <1>4, <1>11
  <2>2. b.prev # c.prev
    BY <1>4, <2>1, AppendTells DEF AuditHashes
  <2>3. PrevHash(t, n) = PrevHash(s, n)
    <3>1. n # 1 => n - 1 \in 1..Len(s) /\ n - 1 # n
      BY <1>1
    <3>2. n # 1 => t[n - 1] = s[n - 1]
      BY <1>2, <3>1
    <3>3. QED BY <3>2 DEF PrevHash
  <2>4. t[n].prev # PrevHash(t, n)
    BY <1>6, <2>2, <2>3
  <2> HIDE DEF b, c
  <2>5. AuditFindings(t) # {}
    BY <1>8, <1>9, <2>4, TrailFindingsOf
  <2>6. QED BY <1>8, <2>5 DEF TrailEdited
<1>12. CASE b = [c EXCEPT !.hash = Append(@, "other")]
  <2>1. b.hash = Append(c.hash, "other") /\ b.prev = c.prev /\ b.batch = c.batch
    BY <1>4, <1>12
  <2>2. b.hash # c.hash
    BY <1>4, <2>1, AppendTells DEF AuditHashes
  <2>3. t[n].hash # AuditHash(t[n].prev, t[n].seq, t[n].batch)
    BY <1>6, <1>7, <2>1, <2>2
  <2> HIDE DEF b, c
  <2>4. AuditFindings(t) # {}
    BY <1>8, <1>9, <2>3, TrailFindingsOf
  <2>5. QED BY <1>8, <2>4 DEF TrailEdited
<1>13. QED BY <1>5, <1>10, <1>11, <1>12

\* A removed audit row leaves a gap, or the head.
LEMMA AuditRowRemoved ==
  ASSUME NEW s, CleanTrail(s), NEW hd, CleanHead(s, hd), NEW n \in 1..Len(s)
  PROVE  TrailEdited(RemoveAt(s, n), hd)
<1> DEFINE t == RemoveAt(s, n)
<1>1. s \in Seq(AuditRowSet) /\ Len(s) \in Nat /\ n \in Nat /\ n >= 1 /\ n <= Len(s)
  BY LenProperties DEF CleanTrail
<1>2. /\ Len(t) = Len(s) - 1 /\ Len(t) \in Nat /\ DOMAIN t = 1..Len(t)
      /\ t = <<>> \/ Len(t) # 0
      /\ \A m \in 1..Len(t) : t[m] = IF m < n THEN s[m] ELSE s[m + 1]
  BY <1>1, Removed
<1> HIDE DEF t
<1>3. ASSUME NEW m \in 1..Len(t)
      PROVE  /\ m < n => t[m] = s[m] /\ t[m].seq = m
             /\ m >= n => t[m].seq = m + 1
  <2> DEFINE k == m + 1
  <2>1. m \in 1..Len(s) /\ k \in 1..Len(s)
    BY <1>1, <1>2
  <2>2. s[m].seq = m /\ s[k].seq = k
    <3> HIDE DEF k
    <3>1. QED BY <2>1, CleanTrailRows
  <2>3. m < n \/ (m >= n /\ ~(m < n))
    BY <1>1
  <2>4. QED BY <1>2, <2>2, <2>3
<1>4. ReadableTrail(t)
  <2>1. ASSUME NEW m \in 1..Len(t) PROVE t[m].seq \in Nat
    <3>1. (m < n \/ m >= n) /\ m \in Nat /\ m + 1 \in Nat
      BY <1>1, <1>2
    <3>2. QED BY <1>3, <3>1
  <2>2. QED BY <1>2, <2>1 DEF ReadableTrail
<1>5. CASE n \in 1..Len(t)
  <2>1. t[n].seq = n + 1
    BY <1>1, <1>3, <1>5
  <2>2. t[n].seq # IF n = 1 THEN 1 ELSE t[n - 1].seq + 1
    <3>1. CASE n = 1
      BY <2>1, <3>1
    <3>2. CASE n # 1
      <4> DEFINE m == n - 1
      <4>1. m \in 1..Len(t) /\ m < n /\ m + 1 = n
        BY <1>1, <1>5, <3>2
      <4> HIDE DEF m
      <4>2. t[m].seq = m
        BY <1>3, <4>1
      <4>3. t[m].seq + 1 # n + 1
        BY <1>1, <4>1, <4>2
      <4>4. QED BY <2>1, <3>2, <4>3 DEF m
    <3>3. QED BY <3>1, <3>2
  <2>3. AuditFindings(t) # {}
    BY <1>4, <1>5, <2>2, TrailFindingsOf
  <2>4. QED BY <1>4, <2>3 DEF TrailEdited, t
<1>6. CASE n \notin 1..Len(t)
  <2>1. n = Len(s) /\ Len(t) + 1 = n
    BY <1>1, <1>2, <1>6
  <2>2. PrevHash(t, n) = PrevHash(s, n)
    <3>1. n # 1 => n - 1 \in 1..Len(t) /\ n - 1 < n
      BY <1>1, <2>1
    <3>2. n # 1 => t[n - 1] = s[n - 1]
      BY <1>3, <3>1
    <3>3. QED BY <3>2 DEF PrevHash
  <2>3. hd = s[n].hash
    BY <1>1, <2>1 DEF CleanHead, PrevHash
  <2>4. s[n].prev \in AuditHashes /\ s[n].prev = PrevHash(s, n)
        /\ s[n].hash = AuditHash(s[n].prev, s[n].seq, s[n].batch)
    BY CleanTrailRows DEF CleanTrail
  <2>5. s[n].hash # s[n].prev
    BY <2>4, AppendTells DEF AuditHash, AuditHashes
  <2>6. hd # PrevHash(t, Len(t) + 1)
    BY <2>1, <2>2, <2>3, <2>4, <2>5
  <2>7. QED BY <1>4, <2>6 DEF TrailEdited, t
<1>7. QED BY <1>5, <1>6

-----------------------------------------------------------------------------
(* What a replay of one snapshot can find.                                   *)

CleanPool(v, p) ==
  /\ CleanLog(p, v.log[p])
  /\ CleanHead(v.log[p], v.head[p]) /\ v.head[p] \in LedgerHashes
  /\ CleanCache(v.log[p], v.snap[p])
CleanAudit(v) ==
  CleanTrail(v.audit) /\ CleanHead(v.audit, v.auditHead) /\ v.auditHead \in AuditHashes

LedgerHeadFindings(v, p) ==
  HeadFindings("ledger_head_mismatch", p, v.head[p], PrevHash(v.log[p], Len(v.log[p]) + 1),
               LastSeq(v.log[p]))
PoolFindings(v, p) ==
  BatchFindings(p, v.log[p]) \cup LedgerHeadFindings(v, p) \cup CacheFindings(p, v.log[p], v.snap[p])
LastAudit(s) == IF s = <<>> THEN 0 ELSE s[Len(s)].seq
AuditHeadFindings(v) ==
  HeadFindings("audit_head_mismatch", None, v.auditHead, PrevHash(v.audit, Len(v.audit) + 1),
               LastAudit(v.audit))
TrailFindings(v) == AuditFindings(v.audit) \cup AuditHeadFindings(v)
AllFindings(v) ==
  {f \in Findings : f \in TrailFindings(v) \/ \E p \in Pools : f \in PoolFindings(v, p)}

\* An edit within pool q: something is found, and of the batches only those at the edit.
EditedPool(v, q) ==
  /\ v.edit.pool = q /\ Readable(v.log[q]) /\ PoolFindings(v, q) # {}
  /\ \A f \in BatchFindings(q, v.log[q]) : f.seq \in {v.edit.seq, v.edit.seq + 1}

\* A snapshot nobody edited, or one edited in one place.
Sound(v) ==
  /\ v.edit \in EditedPart \cup {None}
  /\ \/ v.edit = None /\ CleanAudit(v) /\ \A p \in Pools : CleanPool(v, p)
     \/ /\ v.edit # None /\ CleanAudit(v)
        /\ \E q \in Pools : EditedPool(v, q) /\ \A p \in Pools \ {q} : CleanPool(v, p)
     \/ /\ v.edit # None /\ v.edit.pool = None /\ TrailEdited(v.audit, v.auditHead)
        /\ \A p \in Pools : CleanPool(v, p)

\* A clean log can be numbered.
LEMMA CleanReadable ==
  ASSUME NEW p, NEW s, CleanLog(p, s)
  PROVE  Readable(s)
<1>1. Len(s) \in Nat /\ DOMAIN s = 1..Len(s) /\ (s = <<>> \/ Len(s) # 0)
  BY LenProperties, EmptySeq DEF CleanLog
<1>2. QED BY <1>1, CleanInOrder DEF Readable

\* A clean pool has no finding but an overflow of its own.
LEMMA CleanPoolFinds ==
  ASSUME NEW p \in Pools, NEW v, CleanPool(v, p)
  PROVE  /\ BatchFindings(p, v.log[p]) = {} /\ Overflows(PoolFindings(v, p)) /\ Readable(v.log[p])
         /\ LedgerHeadFindings(v, p) = {}
<1>1. BatchFindings(p, v.log[p]) = {} /\ Readable(v.log[p])
  BY CleanLogFinds, CleanReadable DEF CleanPool
<1>2. LedgerHeadFindings(v, p) = {}
  BY CleanHeadFinds DEF CleanPool, LedgerHeadFindings
<1>3. Overflows(CacheFindings(p, v.log[p], v.snap[p]))
  BY CleanCacheFinds DEF CleanPool
<1>4. QED BY <1>1, <1>2, <1>3 DEF PoolFindings, Overflows

\* A clean trail has none.
LEMMA CleanAuditFinds ==
  ASSUME NEW v, CleanAudit(v)
  PROVE  TrailFindings(v) = {} /\ ReadableTrail(v.audit)
<1>1. AuditFindings(v.audit) = {} /\ ReadableTrail(v.audit)
  BY CleanTrailFinds, CleanTrailRows DEF CleanAudit
<1>2. AuditHeadFindings(v) = {}
  BY CleanHeadFinds DEF CleanAudit, AuditHeadFindings
<1>3. QED BY <1>1, <1>2 DEF TrailFindings

\* Every finding in a pool names that pool, and a batch finding a batch of it.
LEMMA PoolFindingsType ==
  ASSUME NEW p \in Pools, NEW v, Readable(v.log[p])
  PROVE  /\ LastSeq(v.log[p]) \in Nat
         /\ \A f \in PoolFindings(v, p) :
              /\ f \in Findings /\ f.pool = p
              /\ f.kind \in ChainKinds => f \in BatchFindings(p, v.log[p])
<1> DEFINE s == v.log[p]
<1>1. LastSeq(s) \in Nat
  <2>1. CASE s = <<>>
    BY <2>1 DEF LastSeq
  <2>2. CASE s # <<>>
    <3>1. Len(s) \in 1..Len(s)
      BY <2>2 DEF Readable
    <3>2. QED BY <2>2, <3>1 DEF LastSeq, Readable
  <2>3. QED BY <2>1, <2>2
<1>2. ASSUME NEW f \in BatchFindings(p, s) PROVE f \in Findings /\ f.pool = p
  <2>1. PICK kind \in ChainKinds, m \in DOMAIN s : f = Finding(kind, p, s[m].row.seq)
    BY DEF BatchFindings
  <2>2. s[m].row.seq \in Nat
    BY DEF Readable
  <2>3. QED BY <2>1, <2>2 DEF Finding, Findings
<1>3. ASSUME NEW f \in LedgerHeadFindings(v, p)
      PROVE  f \in Findings /\ f.pool = p /\ f.kind = "ledger_head_mismatch"
  BY <1>1 DEF LedgerHeadFindings, HeadFindings, Finding, Findings
<1>4. ASSUME NEW f \in CacheFindings(p, s, v.snap[p])
      PROVE  f \in Findings /\ f.pool = p /\ f.kind \in CacheKinds
  BY DEF CacheFindings, Finding, Findings
<1>5. "ledger_head_mismatch" \notin ChainKinds /\ \A k \in CacheKinds : k \notin ChainKinds
  BY DEF ChainKinds, CacheKinds
<1>6. QED BY <1>1, <1>2, <1>3, <1>4, <1>5 DEF PoolFindings

\* Every finding in the trail names no pool.
LEMMA TrailFindingsType ==
  ASSUME NEW v, ReadableTrail(v.audit)
  PROVE  /\ LastAudit(v.audit) \in Nat
         /\ \A f \in TrailFindings(v) : f \in Findings /\ f.pool = None /\ f.kind \notin ChainKinds
<1> DEFINE s == v.audit
<1>1. LastAudit(s) \in Nat
  <2>1. CASE s = <<>>
    BY <2>1 DEF LastAudit
  <2>2. CASE s # <<>>
    <3>1. Len(s) \in 1..Len(s)
      BY <2>2 DEF ReadableTrail
    <3>2. QED BY <2>2, <3>1 DEF LastAudit, ReadableTrail
  <2>3. QED BY <2>1, <2>2
<1>2. ASSUME NEW f \in AuditFindings(s)
      PROVE  f \in Findings /\ f.pool = None /\ f.kind \in AuditKinds
  <2>1. PICK kind \in AuditKinds, m \in DOMAIN s : f = Finding(kind, None, s[m].seq)
    BY DEF AuditFindings
  <2>2. s[m].seq \in Nat
    BY DEF ReadableTrail
  <2>3. QED BY <2>1, <2>2 DEF Finding, Findings
<1>3. ASSUME NEW f \in AuditHeadFindings(v)
      PROVE  f \in Findings /\ f.pool = None /\ f.kind = "audit_head_mismatch"
  BY <1>1 DEF AuditHeadFindings, HeadFindings, Finding, Findings
<1>4. "audit_head_mismatch" \notin ChainKinds /\ \A k \in AuditKinds : k \notin ChainKinds
  BY DEF ChainKinds, AuditKinds
<1>5. QED BY <1>1, <1>2, <1>3, <1>4 DEF TrailFindings

\* The snapshot can be numbered, in every pool and in the trail.
LEMMA SoundReadable ==
  ASSUME NEW v, Sound(v)
  PROVE  ReadableTrail(v.audit) /\ \A p \in Pools : Readable(v.log[p])
<1>1. \A p \in Pools : CleanPool(v, p) => Readable(v.log[p])
  BY CleanPoolFinds
<1>2. CleanAudit(v) => ReadableTrail(v.audit)
  BY CleanAuditFinds
<1>3. CASE v.edit = None /\ CleanAudit(v) /\ \A p \in Pools : CleanPool(v, p)
  BY <1>1, <1>2, <1>3
<1>4. CASE /\ CleanAudit(v)
           /\ \E q \in Pools : EditedPool(v, q) /\ \A p \in Pools \ {q} : CleanPool(v, p)
  BY <1>1, <1>2, <1>4 DEF EditedPool
<1>5. CASE TrailEdited(v.audit, v.auditHead) /\ \A p \in Pools : CleanPool(v, p)
  BY <1>1, <1>5 DEF TrailEdited
<1>6. QED BY <1>3, <1>4, <1>5 DEF Sound

\* The finding is at the edit.
PointsAt(v, f) ==
  /\ f.pool = v.edit.pool
  /\ f.kind \in ChainKinds => f.seq \in {v.edit.seq, v.edit.seq + 1}

\* What there is to find: at most overflows when nobody edited, something when somebody did,
\* and then, overflows aside, only where the edit is.
LEMMA SoundFindings ==
  ASSUME NEW v, Sound(v)
  PROVE  /\ \A f \in TrailFindings(v) : f \in AllFindings(v)
         /\ \A p \in Pools : \A f \in PoolFindings(v, p) : f \in AllFindings(v)
         /\ v.edit = None => Overflows(AllFindings(v))
         /\ v.edit # None => AllFindings(v) # {}
         /\ v.edit # None =>
              \A f \in AllFindings(v) : f.kind = "balance_overflow" \/ PointsAt(v, f)
<1>1. ReadableTrail(v.audit) /\ \A p \in Pools : Readable(v.log[p])
  BY SoundReadable
<1>2. /\ \A f \in TrailFindings(v) : f \in AllFindings(v)
      /\ \A p \in Pools : \A f \in PoolFindings(v, p) : f \in AllFindings(v)
  <2>1. \A f \in TrailFindings(v) : f \in Findings
    BY <1>1, TrailFindingsType
  <2>2. \A p \in Pools : \A f \in PoolFindings(v, p) : f \in Findings
    BY <1>1, PoolFindingsType
  <2>3. QED BY <2>1, <2>2 DEF AllFindings
<1>3. \A f \in AllFindings(v) : f \in TrailFindings(v) \/ \E p \in Pools : f \in PoolFindings(v, p)
  BY DEF AllFindings
<1>4. \A p \in Pools : CleanPool(v, p) => Overflows(PoolFindings(v, p))
  BY CleanPoolFinds
<1>5. CleanAudit(v) => TrailFindings(v) = {}
  BY CleanAuditFinds
<1>6. CASE v.edit = None /\ CleanAudit(v) /\ \A p \in Pools : CleanPool(v, p)
  BY <1>2, <1>3, <1>4, <1>5, <1>6 DEF Overflows
<1>7. CASE /\ v.edit # None /\ CleanAudit(v)
           /\ \E q \in Pools : EditedPool(v, q) /\ \A p \in Pools \ {q} : CleanPool(v, p)
  <2>1. PICK q \in Pools : EditedPool(v, q) /\ \A p \in Pools \ {q} : CleanPool(v, p)
    BY <1>7
  <2>2. AllFindings(v) # {}
    BY <1>2, <2>1 DEF EditedPool
  <2>3. ASSUME NEW f \in AllFindings(v) PROVE f.kind = "balance_overflow" \/ PointsAt(v, f)
    <3>1. PICK p \in Pools : f \in PoolFindings(v, p)
      BY <1>3, <1>5, <1>7
    <3>2. CASE p # q
      BY <1>4, <2>1, <3>1, <3>2 DEF Overflows
    <3>3. CASE p = q
      <4>1. f.pool = q /\ (f.kind \in ChainKinds => f \in BatchFindings(q, v.log[q]))
        BY <1>1, <3>1, <3>3, PoolFindingsType
      <4>2. QED BY <2>1, <4>1 DEF EditedPool, PointsAt
    <3>4. QED BY <3>2, <3>3
  <2>4. QED BY <1>2, <1>7, <2>2, <2>3
<1>8. CASE /\ v.edit # None /\ v.edit.pool = None /\ TrailEdited(v.audit, v.auditHead)
           /\ \A p \in Pools : CleanPool(v, p)
  <2>1. TrailFindings(v) # {}
    BY <1>8 DEF TrailEdited, TrailFindings, AuditHeadFindings, HeadFindings
  <2>2. \A f \in TrailFindings(v) : PointsAt(v, f)
    BY <1>1, <1>8, TrailFindingsType DEF PointsAt
  <2>3. \A f \in AllFindings(v) : f.kind = "balance_overflow" \/ PointsAt(v, f)
    BY <1>3, <1>4, <1>8, <2>2 DEF Overflows
  <2>4. QED BY <1>2, <1>8, <2>1, <2>3
<1>9. QED BY <1>6, <1>7, <1>8 DEF Sound

-----------------------------------------------------------------------------
(* The tables the replay reads stay sound.                                   *)

Tables == [log |-> log, snap |-> snap, head |-> head, audit |-> audit, auditHead |-> auditHead,
           edit |-> edit]

\* Nobody edited the tables yet, and they are tables.
Unedited ==
  /\ log \in [Pools -> Seq(StoredSet)] /\ snap \in [Pools -> Caches] /\ head \in [Pools -> LedgerHashes]
  /\ edit = None
TablesSound == Sound(Tables) /\ (edit = None => Unedited)

\* The empty tables.
LEMMA InitSound == VerifyInit => TablesSound
<1> SUFFICES ASSUME VerifyInit PROVE TablesSound
  OBVIOUS
<1>1. /\ log = [p \in Pools |-> <<>>] /\ snap = [p \in Pools |-> [h \in Holders |-> None]]
      /\ head = [p \in Pools |-> <<>>] /\ audit = <<>> /\ auditHead = <<>> /\ edit = None
  BY DEF VerifyInit, Init, NoHash
<1>2. /\ Tables.log = log /\ Tables.snap = snap /\ Tables.head = head /\ Tables.audit = audit
      /\ Tables.auditHead = auditHead /\ Tables.edit = edit
  BY DEF Tables
<1>3. <<>> \in Seq(StoredSet) /\ <<>> \in LedgerHashes /\ <<>> \in AuditHashes /\ <<>> \in Seq(AuditRowSet)
      /\ Len(<<>>) = 0
  BY EmptySeq DEF LedgerHashes, AuditHashes
<1>4. [h \in Holders |-> None] \in Caches
  BY DEF Caches
<1>5. Unedited
  BY <1>1, <1>3, <1>4 DEF Unedited
<1>6. \A p : CleanLog(p, <<>>)
  BY <1>3, EntriesEmpty DEF CleanLog
<1>7. \A h : CachedRow(<<>>, h) = None
  BY DEF CachedRow, RowsIn
<1>8. CleanCache(<<>>, [h \in Holders |-> None])
  BY <1>4, <1>7, EntriesEmpty DEF CleanCache
<1>9. CleanHead(<<>>, <<>>) /\ CleanTrail(<<>>)
  BY <1>3 DEF CleanHead, CleanTrail, PrevHash, NoHash
<1>10. \A p \in Pools : CleanPool(Tables, p)
  BY <1>1, <1>2, <1>3, <1>6, <1>8, <1>9 DEF CleanPool
<1>11. CleanAudit(Tables)
  BY <1>1, <1>2, <1>3, <1>9 DEF CleanAudit
<1>12. QED BY <1>1, <1>2, <1>5, <1>10, <1>11 DEF TablesSound, Sound

\* A commit.
LEMMA PostSound ==
  ASSUME TablesSound, NEW r \in Requests, Post(r)
  PROVE  TablesSound'
<1> DEFINE p == r.pool
           s == log[p]
           n == Len(s) + 1
           es == EntryRows(r, n)
           row == BatchRow(r, n, head[p])
           b == Stored(row, es)
           trail == AuditRow(Len(audit) + 1, <<p, n>>, auditHead)
<1>1. edit = None /\ edit' = None /\ Unedited /\ p \in Pools
  BY RequestType DEF Post, TablesSound
<1>2. /\ Tables.log = log /\ Tables.snap = snap /\ Tables.head = head /\ Tables.audit = audit
      /\ Tables.auditHead = auditHead /\ Tables.edit = None
  BY <1>1 DEF Tables
<1>3. /\ Tables'.log = log' /\ Tables'.snap = snap' /\ Tables'.head = head' /\ Tables'.audit = audit'
      /\ Tables'.auditHead = auditHead' /\ Tables'.edit = None
  BY <1>1 DEF Tables
<1>4. CleanAudit(Tables) /\ \A q \in Pools : CleanPool(Tables, q)
  BY <1>2 DEF TablesSound, Sound
<1>5. /\ ValidRequest(r) /\ UniversalHold(r) /\ UpsertAdmitted(snap[p], es)
      /\ log' = [log EXCEPT ![p] = Append(s, b)]
      /\ snap' = [snap EXCEPT ![p] = Upserted(snap[p], es, n)]
      /\ head' = [head EXCEPT ![p] = row.hash]
      /\ audit' = Append(audit, trail) /\ auditHead' = trail.hash
  BY DEF Post, NextPoolSeq, InvariantsHold
<1>6. /\ CleanLog(p, s) /\ CleanHead(s, head[p]) /\ head[p] \in LedgerHashes /\ CleanCache(s, snap[p])
      /\ CleanTrail(audit) /\ CleanHead(audit, auditHead) /\ auditHead \in AuditHashes
  BY <1>1, <1>2, <1>4 DEF CleanPool, CleanAudit
<1>7. b.hash = row.hash
  BY DEF Stored
<1>8. /\ CleanLog(p, Append(s, b)) /\ CleanHead(Append(s, b), b.hash) /\ b.hash \in LedgerHashes
      /\ EntriesIn(Append(s, b)) = EntriesIn(s) \o es
  <2> HIDE DEF s
  <2>1. QED BY <1>1, <1>5, <1>6, CleanLogExtends
<1>9. es \in Seq(EntryRowSet) /\ \A i \in 1..Len(es) : es[i].seq = n
  <2>1. n \in Seqs
    BY <1>6, LenProperties DEF CleanLog, Seqs
  <2> HIDE DEF n
  <2>2. QED BY <2>1, EntryRowsType, LenProperties
<1>10. CleanCache(Append(s, b), Upserted(snap[p], es, n))
  <2> DEFINE t == Append(s, b)
             cache == snap[p]
  <2>1. EntriesIn(t) = EntriesIn(s) \o es /\ CleanLog(p, s) /\ CleanCache(s, cache)
        /\ UpsertAdmitted(cache, es)
    BY <1>5, <1>6, <1>8
  <2>2. \A i \in 1..Len(es) : es[i].seq = Len(s) + 1
    BY <1>9
  <2> HIDE DEF t, cache, s, es
  <2>3. es \in Seq(EntryRowSet)
    BY <1>9
  <2>4. QED BY <2>1, <2>2, <2>3, CleanCacheExtends DEF t, cache
<1>11. CleanTrail(audit') /\ CleanHead(audit', auditHead') /\ auditHead' \in AuditHashes
  <2>1. <<p, n>> \in BatchIds
    BY <1>1, <1>6, LenProperties DEF CleanLog, BatchIds
  <2> DEFINE batch == <<p, n>>
  <2>2. batch \in BatchIds /\ trail = AuditRow(Len(audit) + 1, batch, auditHead)
    BY <2>1
  <2> HIDE DEF batch, trail
  <2>3. QED BY <1>5, <1>6, <2>2, CleanTrailExtends
<1> HIDE DEF es, row, b, trail
<1>12. /\ log'[p] = Append(s, b) /\ snap'[p] = Upserted(snap[p], es, n) /\ head'[p] = b.hash
       /\ \A q \in Pools \ {p} : log'[q] = log[q] /\ snap'[q] = snap[q] /\ head'[q] = head[q]
  BY <1>1, <1>5, <1>7 DEF Unedited
<1>13. \A q \in Pools : CleanPool(Tables', q)
  <2> TAKE q \in Pools
  <2>1. CASE q = p
    BY <1>3, <1>8, <1>10, <1>12, <2>1 DEF CleanPool
  <2>2. CASE q # p
    <3>1. CleanPool(Tables, q)
      BY <1>4
    <3>2. QED BY <1>2, <1>3, <1>12, <2>2, <3>1 DEF CleanPool
  <2>3. QED BY <2>1, <2>2
<1>14. CleanAudit(Tables')
  BY <1>3, <1>11 DEF CleanAudit
<1>15. Sound(Tables')
  BY <1>3, <1>13, <1>14 DEF Sound
<1>16. Unedited'
  <2>1. Append(s, b) \in Seq(StoredSet) /\ Upserted(snap[p], es, n) \in Caches /\ b.hash \in LedgerHashes
    BY <1>8, <1>10 DEF CleanLog, CleanCache
  <2> HIDE DEF p, s, n
  <2>2. QED BY <1>1, <1>5, <1>7, <2>1 DEF Unedited
<1>17. QED BY <1>15, <1>16 DEF TablesSound

\* A pool with findings and the rest clean.
LEMMA OnePoolEdited ==
  ASSUME TablesSound, edit = None, NEW q \in Pools, NEW n \in Nat, NEW part \in {"batch", "cache", "head"},
         edit' = [part |-> part, pool |-> q, seq |-> n],
         audit' = audit, auditHead' = auditHead, EditedPool(Tables', q),
         \A p \in Pools \ {q} : log'[p] = log[p] /\ snap'[p] = snap[p] /\ head'[p] = head[p]
  PROVE  TablesSound'
<1>1. /\ Tables.log = log /\ Tables.snap = snap /\ Tables.head = head /\ Tables.audit = audit
      /\ Tables.auditHead = auditHead /\ Tables.edit = None
  BY DEF Tables
<1>2. /\ Tables'.log = log' /\ Tables'.snap = snap' /\ Tables'.head = head' /\ Tables'.audit = audit
      /\ Tables'.auditHead = auditHead /\ Tables'.edit = edit'
  BY DEF Tables
<1>3. edit' \in EditedPart /\ edit' # None
  BY EditAssumption DEF EditedPart
<1>4. CleanAudit(Tables) /\ \A p \in Pools : CleanPool(Tables, p)
  BY <1>1 DEF TablesSound, Sound
<1>5. CleanAudit(Tables')
  BY <1>1, <1>2, <1>4 DEF CleanAudit
<1>6. \A p \in Pools \ {q} : CleanPool(Tables', p)
  BY <1>1, <1>2, <1>4 DEF CleanPool
<1>7. QED BY <1>2, <1>3, <1>5, <1>6 DEF TablesSound, Sound

\* An edit of one row.
LEMMA EditSound == ASSUME TablesSound, Edit PROVE TablesSound'
<1>1. edit = None /\ Unedited
  BY DEF Edit, TablesSound
<1>2. /\ Tables.log = log /\ Tables.snap = snap /\ Tables.head = head /\ Tables.audit = audit
      /\ Tables.auditHead = auditHead /\ Tables.edit = None
  BY <1>1 DEF Tables
<1>3. /\ Tables'.log = log' /\ Tables'.snap = snap' /\ Tables'.head = head' /\ Tables'.audit = audit'
      /\ Tables'.auditHead = auditHead' /\ Tables'.edit = edit'
  BY DEF Tables
<1>4. CleanAudit(Tables) /\ \A p \in Pools : CleanPool(Tables, p)
  BY <1>2 DEF TablesSound, Sound
<1>5. ASSUME NEW q \in Pools
      PROVE  /\ CleanLog(q, log[q]) /\ CleanHead(log[q], head[q]) /\ CleanCache(log[q], snap[q])
             /\ BatchFindings(q, log[q]) = {} /\ Readable(log[q])
  BY <1>2, <1>4, CleanPoolFinds DEF CleanPool
<1>6. ASSUME NEW q \in Pools, EditLedger(q) PROVE TablesSound'
  <2>1. PICK n \in DOMAIN log[q] :
          /\ \/ \E b \in BatchEdits(log[q][n]) \ {log[q][n]} : log' = [log EXCEPT ![q][n] = b]
             \/ log' = [log EXCEPT ![q] = RemoveAt(@, n)]
             \/ n = Len(log[q]) /\ log' = [log EXCEPT ![q][n].row.seq = @ + 1]
          /\ edit' = [part |-> "batch", pool |-> q, seq |-> n]
    BY <1>6 DEF EditLedger
  <2>2. n \in 1..Len(log[q]) /\ n \in Nat
    BY <1>5 DEF Readable
  <2>3. UNCHANGED <<snap, head, audit, auditHead>>
    BY <1>6 DEF EditLedger
  <2>4. LogEdited(q, log'[q], head[q], n) /\ \A p \in Pools \ {q} : log'[p] = log[p]
    <3> DEFINE s == log[q]
    <3>1. CleanLog(q, s) /\ CleanHead(s, head[q]) /\ n \in 1..Len(s)
      BY <1>5, <2>2
    <3>2. CASE \E b \in BatchEdits(s[n]) \ {s[n]} : log' = [log EXCEPT ![q][n] = b]
      <4>1. PICK b \in BatchEdits(s[n]) : b # s[n] /\ log' = [log EXCEPT ![q][n] = b]
        BY <3>2
      <4>2. log'[q] = [s EXCEPT ![n] = b] /\ \A p \in Pools \ {q} : log'[p] = log[p]
        BY <1>1, <4>1 DEF Unedited
      <4> HIDE DEF s
      <4>3. Tampered(b, s[n])
        <5>1. s[n] \in StoredSet /\ s[n].hash = BatchHash(s[n].prev, s[n].row, s[n].entries)
          BY <3>1, CleanInOrder DEF OwnOrder
        <5>2. QED BY <4>1, <5>1, EditTampers
      <4>4. LogEdited(q, [s EXCEPT ![n] = b], head[q], n)
        BY <3>1, <4>3, BatchEdited
      <4>5. QED BY <4>2, <4>4
    <3>3. CASE log' = [log EXCEPT ![q] = RemoveAt(@, n)]
      <4>1. log'[q] = RemoveAt(s, n) /\ \A p \in Pools \ {q} : log'[p] = log[p]
        BY <1>1, <3>3 DEF Unedited
      <4> HIDE DEF s
      <4>2. QED BY <3>1, <4>1, BatchRemoved
    <3>4. CASE n = Len(s) /\ log' = [log EXCEPT ![q][n].row.seq = @ + 1]
      <4>1. log'[q] = [s EXCEPT ![n].row.seq = @ + 1] /\ \A p \in Pools \ {q} : log'[p] = log[p]
        BY <1>1, <3>4 DEF Unedited
      <4>2. n = Len(s)
        BY <3>4
      <4> HIDE DEF s
      <4>3. LogEdited(q, [s EXCEPT ![n].row.seq = @ + 1], head[q], n)
        BY <3>1, <4>2, LastRenumbered
      <4>4. QED BY <4>1, <4>3
    <3>5. QED BY <2>1, <3>2, <3>3, <3>4
  <2>5. EditedPool(Tables', q)
    <3>1. /\ Readable(log'[q]) /\ \A f \in BatchFindings(q, log'[q]) : f.seq \in {n, n + 1}
          /\ BatchFindings(q, log'[q]) # {} \/ head'[q] # PrevHash(log'[q], Len(log'[q]) + 1)
      BY <2>3, <2>4 DEF LogEdited
    <3>2. PoolFindings(Tables', q) # {}
      BY <1>3, <3>1 DEF PoolFindings, LedgerHeadFindings, HeadFindings
    <3>3. QED BY <1>3, <2>1, <3>1, <3>2 DEF EditedPool
  <2>6. QED BY <1>1, <2>1, <2>2, <2>3, <2>4, <2>5, OnePoolEdited
<1>7. ASSUME NEW q \in Pools, EditCache(q) PROVE TablesSound'
  <2>0. PICK h \in Holders : \E row \in CacheEdits(snap[q][h]) : snap' = [snap EXCEPT ![q][h] = row]
    BY <1>7 DEF EditCache
  <2>1. PICK row \in CacheEdits(snap[q][h]) : snap' = [snap EXCEPT ![q][h] = row]
    BY <2>0
  <2>2. UNCHANGED <<log, head, audit, auditHead>> /\ edit' = [part |-> "cache", pool |-> q, seq |-> 0]
    BY <1>7 DEF EditCache
  <2>3. snap'[q] = [snap[q] EXCEPT ![h] = row] /\ \A p \in Pools \ {q} : snap'[p] = snap[p]
    BY <1>1, <2>1 DEF Unedited
  <2>4. CacheFindings(q, log[q], snap'[q]) # {}
    <3> DEFINE s == log[q]
               cache == snap[q]
    <3>1. CleanLog(q, s) /\ CleanCache(s, cache) /\ row \in CacheEdits(cache[h])
      BY <1>5, <2>1
    <3> HIDE DEF s, cache
    <3>2. CacheFindings(q, s, [cache EXCEPT ![h] = row]) # {}
      BY <3>1, CacheEdited
    <3>3. QED BY <2>3, <3>2 DEF s, cache
  <2>5. EditedPool(Tables', q)
    <3>1. PoolFindings(Tables', q) # {}
      BY <1>3, <2>2, <2>4 DEF PoolFindings
    <3>2. QED BY <1>3, <1>5, <2>2, <3>1 DEF EditedPool
  <2>6. QED BY <1>1, <2>2, <2>3, <2>5, OnePoolEdited
<1>8. ASSUME NEW q \in Pools, EditHead(q) PROVE TablesSound'
  <2>1. PICK h : h # head[q] /\ head' = [head EXCEPT ![q] = h]
    BY <1>8 DEF EditHead
  <2>2. UNCHANGED <<log, snap, audit, auditHead>> /\ edit' = [part |-> "head", pool |-> q, seq |-> 0]
    BY <1>8 DEF EditHead
  <2>3. head'[q] = h /\ \A p \in Pools \ {q} : head'[p] = head[p]
    BY <1>1, <2>1 DEF Unedited
  <2>4. head[q] = PrevHash(log[q], Len(log[q]) + 1)
    BY <1>5 DEF CleanHead
  <2>5. EditedPool(Tables', q)
    <3>1. PoolFindings(Tables', q) # {}
      BY <1>3, <2>1, <2>2, <2>3, <2>4 DEF PoolFindings, LedgerHeadFindings, HeadFindings
    <3>2. QED BY <1>3, <1>5, <2>2, <3>1 DEF EditedPool
  <2>6. QED BY <1>1, <2>2, <2>3, <2>5, OnePoolEdited
<1>9. ASSUME EditAudit PROVE TablesSound'
  <2>1. UNCHANGED <<log, snap, head>> /\ edit' = [part |-> "audit", pool |-> None, seq |-> 0]
    BY <1>9 DEF EditAudit
  <2>2. CleanTrail(audit) /\ CleanHead(audit, auditHead) /\ ReadableTrail(audit)
    BY <1>2, <1>4, CleanTrailRows DEF CleanAudit
  <2>3. TrailEdited(audit', auditHead')
    <3>1. ASSUME NEW n \in DOMAIN audit, auditHead' = auditHead,
                 \/ audit' = RemoveAt(audit, n)
                 \/ audit' = [audit EXCEPT ![n].batch[2] = @ + 1]
                 \/ audit' = [audit EXCEPT ![n].prev = Append(@, "other")]
                 \/ audit' = [audit EXCEPT ![n].hash = Append(@, "other")]
          PROVE  TrailEdited(audit', auditHead')
      <4>1. n \in 1..Len(audit)
        BY <2>2 DEF ReadableTrail
      <4>2. CASE audit' = RemoveAt(audit, n)
        BY <2>2, <3>1, <4>1, <4>2, AuditRowRemoved
      <4>3. CASE \/ audit' = [audit EXCEPT ![n].batch[2] = @ + 1]
                 \/ audit' = [audit EXCEPT ![n].prev = Append(@, "other")]
                 \/ audit' = [audit EXCEPT ![n].hash = Append(@, "other")]
        BY <2>2, <4>1, <4>3, AuditRowEdited
      <4>4. QED BY <3>1, <4>2, <4>3
    <3>2. ASSUME auditHead' # auditHead, audit' = audit PROVE TrailEdited(audit', auditHead')
      BY <2>2, <3>2 DEF TrailEdited, CleanHead
    <3>3. \/ \E h \in {NoHash, <<Garbled>>} \ {auditHead} : auditHead' = h /\ audit' = audit
          \/ \E n \in DOMAIN audit : /\ auditHead' = auditHead
               /\ \/ audit' = RemoveAt(audit, n)
                  \/ audit' = [audit EXCEPT ![n].batch[2] = @ + 1]
                  \/ audit' = [audit EXCEPT ![n].prev = Append(@, "other")]
                  \/ audit' = [audit EXCEPT ![n].hash = Append(@, "other")]
      BY <1>9 DEF EditAudit
    <3>4. QED BY <3>1, <3>2, <3>3
  <2>4. edit' \in EditedPart /\ edit' # None /\ edit'.pool = None
    BY <2>1, EditAssumption DEF EditedPart
  <2>5. \A p \in Pools : CleanPool(Tables', p)
    BY <1>2, <1>3, <1>4, <2>1 DEF CleanPool
  <2>6. QED BY <1>3, <2>3, <2>4, <2>5 DEF TablesSound, Sound
<1>10. QED BY <1>6, <1>7, <1>8, <1>9 DEF Edit

-----------------------------------------------------------------------------
(* The inductive invariant of the replay: what it has found so far is part of*)
(* what there is to find, and all of it for what it has walked.              *)

Busy == step[1] # "idle"
Complete ==
  /\ \A p \in Pools \ left : PoolFindings(view, p) \subseteq found
  /\ \A p \in Pools :
       /\ step = <<"head", p>> => BatchFindings(p, view.log[p]) \subseteq found
       /\ step = <<"cache", p>> =>
            BatchFindings(p, view.log[p]) \cup LedgerHeadFindings(view, p) \subseteq found
  /\ step[1] = "audit head" => left = {} /\ AuditFindings(view.audit) \subseteq found
  /\ step[1] = "report" => left = {} /\ TrailFindings(view) \subseteq found

ReplayInv ==
  /\ TablesSound /\ ReplayTypeOK
  /\ Busy => verdict = "none"
  /\ Busy \/ verdict # "none" => Sound(view)
  /\ Busy /\ ~unread => found \subseteq AllFindings(view) /\ Complete
  /\ Reported => found = AllFindings(view)

\* Nothing is being replayed at the start.
LEMMA InitReplay == VerifyInit => ReplayInv
<1> SUFFICES ASSUME VerifyInit PROVE ReplayInv
  OBVIOUS
<1>1. TablesSound
  BY InitSound
<1>2. /\ edit = None /\ left = {} /\ step = <<"idle", None>> /\ found = {} /\ unread = FALSE
      /\ verdict = "none"
  BY DEF VerifyInit
<1>3. ReplayTypeOK
  BY <1>2 DEF ReplayTypeOK
<1>4. QED BY <1>1, <1>2, <1>3 DEF ReplayInv, Busy, Reported

\* What the replay is at does not depend on the ledger beside it.
LEMMA LedgerBeside ==
  ASSUME ReplayInv, UNCHANGED replay, TablesSound'
  PROVE  ReplayInv'
<1>1. /\ view' = view /\ left' = left /\ step' = step /\ found' = found /\ unread' = unread
      /\ verdict' = verdict
  BY DEF replay
<1>2. edit' \in EditedPart \cup {None}
  BY DEF TablesSound, Sound, Tables
<1>3. ReplayTypeOK'
  BY <1>1, <1>2 DEF ReplayInv, ReplayTypeOK
<1>4. Busy' = Busy /\ Complete' = Complete /\ Reported' = Reported
  BY <1>1 DEF Busy, Complete, Reported
<1>5. QED BY <1>1, <1>3, <1>4 DEF ReplayInv

\* The replay leaves the ledger alone.
LEMMA TablesKept ==
  ASSUME TablesSound, LedgerUnchanged
  PROVE  TablesSound' /\ edit' = edit
<1>1. /\ log' = log /\ snap' = snap /\ head' = head /\ audit' = audit /\ auditHead' = auditHead
      /\ edit' = edit
  BY DEF LedgerUnchanged, committed
<1>2. Tables' = Tables /\ Unedited' = Unedited
  BY <1>1 DEF Tables, Unedited
<1>3. QED BY <1>1, <1>2 DEF TablesSound

\* The replay pins the tables as they are now, which are sound.
LEMMA BeginKeeps == ASSUME ReplayInv, BeginVerify PROVE ReplayInv'
<1>1. TablesSound' /\ edit' = edit
  BY TablesKept DEF ReplayInv, BeginVerify
<1>2. /\ view' = Tables /\ left' = Pools /\ step' = <<"pool", None>> /\ found' = {}
      /\ unread' = FALSE /\ verdict' = "none"
  BY DEF BeginVerify, Tables
<1>3. Sound(view')
  BY <1>2 DEF ReplayInv, TablesSound
<1>4. ReplayTypeOK'
  BY <1>1, <1>2 DEF ReplayTypeOK, ReplayInv
<1>5. step'[1] = "pool" /\ \A p : step' # <<"head", p>> /\ step' # <<"cache", p>>
  BY <1>2
<1>6. Complete'
  BY <1>2, <1>5 DEF Complete
<1>7. QED BY <1>1, <1>2, <1>3, <1>4, <1>5, <1>6 DEF ReplayInv, Busy, Reported

\* A query whose answer is recorded.
LEMMA RecordKeeps ==
  ASSUME ReplayInv, Busy, NEW findings, findings \subseteq Findings,
         NEW next \in {"pool", "head", "cache", "audit head", "report"} \X (Pools \cup {None}),
         Record(findings, next), view' = view, left' \subseteq Pools, unread' \in BOOLEAN,
         verdict' = verdict,
         ~unread' => ~unread /\ findings \subseteq AllFindings(view) /\ Complete'
  PROVE  ReplayInv'
<1>1. TablesSound' /\ edit' = edit
  BY TablesKept DEF ReplayInv, Record
<1>2. found' = found \cup findings /\ step' = next
  BY DEF Record
<1>3. ReplayTypeOK'
  BY <1>1, <1>2 DEF ReplayInv, ReplayTypeOK
<1>4. Sound(view') /\ verdict' = "none" /\ Busy'
  BY <1>2 DEF ReplayInv, Busy
<1>5. ~unread' => found' \subseteq AllFindings(view')
  BY <1>2 DEF ReplayInv
<1>6. QED BY <1>1, <1>3, <1>4, <1>5 DEF ReplayInv, Reported

\* verifier.pool records what is wrong with the batches of one pool.
LEMMA WalkKeeps == ASSUME ReplayInv, NEW p \in Pools, WalkBatches(p) PROVE ReplayInv'
<1> DEFINE new == BatchFindings(p, view.log[p])
<1>1. /\ step[1] = "pool" /\ Record(new, <<"head", p>>)
      /\ view' = view /\ left' = left /\ unread' = unread /\ verdict' = verdict
  BY DEF WalkBatches, Seen
<1>2. found' = found \cup new /\ step' = <<"head", p>>
  BY <1>1 DEF Record
<1>3. Busy /\ Sound(view)
  BY <1>1 DEF Busy, ReplayInv
<1>4. new \subseteq Findings /\ new \subseteq AllFindings(view)
  <2>1. new \subseteq PoolFindings(view, p)
    BY DEF PoolFindings
  <2>2. PoolFindings(view, p) \subseteq AllFindings(view)
    BY <1>3, SoundFindings
  <2>3. QED BY <2>1, <2>2 DEF AllFindings
<1> HIDE DEF new
<1>5. ~unread => Complete'
  <2>1. step'[1] = "head" /\ \A q : step' # <<"cache", q>> /\ (step' = <<"head", q>> => q = p)
    BY <1>2
  <2>2. ~unread => \A q \in Pools \ left : PoolFindings(view, q) \subseteq found
    BY <1>3 DEF ReplayInv, Complete
  <2>3. QED BY <1>1, <1>2, <2>1, <2>2 DEF Complete, new
<1>6. left \subseteq Pools /\ unread \in BOOLEAN
  BY DEF ReplayInv, ReplayTypeOK
<1>7. <<"head", p>> \in {"pool", "head", "cache", "audit head", "report"} \X (Pools \cup {None})
  OBVIOUS
<1>8. QED BY <1>1, <1>3, <1>4, <1>5, <1>6, <1>7, RecordKeeps

\* checkHead compares the ledger head of the pool, or could not read it.
LEMMA HeadKeeps == ASSUME ReplayInv, NEW p \in Pools, CheckLedgerHead(p) PROVE ReplayInv'
<1> DEFINE bad == {Finding("ledger_head_mismatch", p, LastSeq(view.log[p]))}
<1>1. /\ step = <<"head", p>> /\ view' = view /\ left' = left /\ verdict' = verdict
      /\ \/ Record(LedgerHeadFindings(view, p), <<"cache", p>>) /\ unread' = unread
         \/ Record(bad, <<"cache", p>>) /\ unread' = TRUE
  BY DEF CheckLedgerHead, Seen, LedgerHeadFindings
<1>2. Busy /\ Sound(view)
  BY <1>1 DEF Busy, ReplayInv
<1>3. left \subseteq Pools /\ unread \in BOOLEAN
  BY DEF ReplayInv, ReplayTypeOK
<1>4. <<"cache", p>> \in {"pool", "head", "cache", "audit head", "report"} \X (Pools \cup {None})
  OBVIOUS
<1>5. CASE Record(LedgerHeadFindings(view, p), <<"cache", p>>) /\ unread' = unread
  <2> DEFINE new == LedgerHeadFindings(view, p)
  <2>1. found' = found \cup new /\ step' = <<"cache", p>>
    BY <1>5 DEF Record
  <2>2. new \subseteq Findings /\ new \subseteq AllFindings(view)
    <3>1. new \subseteq PoolFindings(view, p)
      BY DEF PoolFindings
    <3>2. PoolFindings(view, p) \subseteq AllFindings(view)
      BY <1>2, SoundFindings
    <3>3. QED BY <3>1, <3>2 DEF AllFindings
  <2> HIDE DEF new
  <2>3. ~unread => Complete'
    <3>1. step'[1] = "cache" /\ \A q : step' # <<"head", q>> /\ (step' = <<"cache", q>> => q = p)
      BY <2>1
    <3>2. ~unread => /\ \A q \in Pools \ left : PoolFindings(view, q) \subseteq found
                     /\ BatchFindings(p, view.log[p]) \subseteq found
      BY <1>1, <1>2 DEF ReplayInv, Complete
    <3>3. QED BY <1>1, <2>1, <3>1, <3>2 DEF Complete, new
  <2>4. QED BY <1>1, <1>2, <1>3, <1>4, <1>5, <2>2, <2>3, RecordKeeps DEF new
<1>6. CASE Record(bad, <<"cache", p>>) /\ unread' = TRUE
  <2>1. LastSeq(view.log[p]) \in Nat
    BY <1>2, SoundReadable, PoolFindingsType
  <2>2. bad \subseteq Findings
    BY <2>1 DEF Findings, Finding
  <2> HIDE DEF bad
  <2>3. QED BY <1>1, <1>2, <1>3, <1>4, <1>6, <2>2, RecordKeeps
<1>7. QED BY <1>1, <1>5, <1>6

\* checkSnapshots refolds the cache of the pool, which is then done.
LEMMA SnapshotsKeep == ASSUME ReplayInv, NEW p \in Pools, CheckSnapshots(p) PROVE ReplayInv'
<1> DEFINE new == CacheFindings(p, view.log[p], view.snap[p])
<1>1. /\ step = <<"cache", p>> /\ Record(new, <<"pool", None>>)
      /\ view' = view /\ left' = left \ {p} /\ unread' = unread /\ verdict' = verdict
  BY DEF CheckSnapshots, Seen
<1>2. found' = found \cup new /\ step' = <<"pool", None>>
  BY <1>1 DEF Record
<1>3. Busy /\ Sound(view)
  BY <1>1 DEF Busy, ReplayInv
<1>4. new \subseteq Findings /\ new \subseteq AllFindings(view)
  <2>1. new \subseteq PoolFindings(view, p)
    BY DEF PoolFindings
  <2>2. PoolFindings(view, p) \subseteq AllFindings(view)
    BY <1>3, SoundFindings
  <2>3. QED BY <2>1, <2>2 DEF AllFindings
<1>5. ~unread => Complete'
  <2>1. step'[1] = "pool" /\ \A q : step' # <<"cache", q>> /\ step' # <<"head", q>>
    BY <1>2
  <2>2. ~unread => /\ \A q \in Pools \ left : PoolFindings(view, q) \subseteq found
                   /\ BatchFindings(p, view.log[p]) \cup LedgerHeadFindings(view, p) \subseteq found
    BY <1>1, <1>3 DEF ReplayInv, Complete
  <2>3. ~unread => PoolFindings(view, p) \subseteq found'
    BY <1>2, <2>2 DEF PoolFindings
  <2> HIDE DEF new
  <2>4. ~unread => \A q \in Pools \ left' : PoolFindings(view', q) \subseteq found'
    BY <1>1, <1>2, <2>2, <2>3
  <2>5. QED BY <2>1, <2>4 DEF Complete
<1> HIDE DEF new
<1>6. left' \subseteq Pools /\ unread \in BOOLEAN
  BY <1>1 DEF ReplayInv, ReplayTypeOK
<1>7. <<"pool", None>> \in {"pool", "head", "cache", "audit head", "report"} \X (Pools \cup {None})
  OBVIOUS
<1>8. QED BY <1>1, <1>3, <1>4, <1>5, <1>6, <1>7, RecordKeeps

\* With every pool done, the audit chain is walked.
LEMMA AuditKeeps == ASSUME ReplayInv, WalkAudit PROVE ReplayInv'
<1> DEFINE new == AuditFindings(view.audit)
<1>1. /\ step[1] = "pool" /\ left = {} /\ Record(new, <<"audit head", None>>)
      /\ view' = view /\ left' = left /\ unread' = unread /\ verdict' = verdict
  BY DEF WalkAudit, Seen
<1>2. found' = found \cup new /\ step' = <<"audit head", None>>
  BY <1>1 DEF Record
<1>3. Busy /\ Sound(view)
  BY <1>1 DEF Busy, ReplayInv
<1>4. new \subseteq Findings /\ new \subseteq AllFindings(view)
  <2>1. new \subseteq TrailFindings(view)
    BY DEF TrailFindings
  <2>2. TrailFindings(view) \subseteq AllFindings(view)
    BY <1>3, SoundFindings
  <2>3. QED BY <2>1, <2>2 DEF AllFindings
<1> HIDE DEF new
<1>5. ~unread => Complete'
  <2>1. step'[1] = "audit head" /\ \A q : step' # <<"cache", q>> /\ step' # <<"head", q>>
    BY <1>2
  <2>2. ~unread => \A q \in Pools \ left : PoolFindings(view, q) \subseteq found
    BY <1>3 DEF ReplayInv, Complete
  <2>3. QED BY <1>1, <1>2, <2>1, <2>2 DEF Complete, new
<1>6. left \subseteq Pools /\ unread \in BOOLEAN
  BY DEF ReplayInv, ReplayTypeOK
<1>7. <<"audit head", None>> \in {"pool", "head", "cache", "audit head", "report"} \X (Pools \cup {None})
  OBVIOUS
<1>8. QED BY <1>1, <1>3, <1>4, <1>5, <1>6, <1>7, RecordKeeps

\* checkHead again, for the head of the audit chain.
LEMMA AuditHeadKeeps == ASSUME ReplayInv, CheckAuditHead PROVE ReplayInv'
<1> DEFINE bad == {Finding("audit_head_mismatch", None, LastAudit(view.audit))}
<1>1. /\ step[1] = "audit head" /\ view' = view /\ left' = left /\ verdict' = verdict
      /\ \/ Record(AuditHeadFindings(view), <<"report", None>>) /\ unread' = unread
         \/ Record(bad, <<"report", None>>) /\ unread' = TRUE
  BY DEF CheckAuditHead, Seen, AuditHeadFindings, LastAudit
<1>2. Busy /\ Sound(view)
  BY <1>1 DEF Busy, ReplayInv
<1>3. left \subseteq Pools /\ unread \in BOOLEAN
  BY DEF ReplayInv, ReplayTypeOK
<1>4. <<"report", None>> \in {"pool", "head", "cache", "audit head", "report"} \X (Pools \cup {None})
  OBVIOUS
<1>5. CASE Record(AuditHeadFindings(view), <<"report", None>>) /\ unread' = unread
  <2> DEFINE new == AuditHeadFindings(view)
  <2>1. found' = found \cup new /\ step' = <<"report", None>>
    BY <1>5 DEF Record
  <2>2. new \subseteq Findings /\ new \subseteq AllFindings(view)
    <3>1. new \subseteq TrailFindings(view)
      BY DEF TrailFindings
    <3>2. TrailFindings(view) \subseteq AllFindings(view)
      BY <1>2, SoundFindings
    <3>3. QED BY <3>1, <3>2 DEF AllFindings
  <2>3. ~unread => TrailFindings(view) \subseteq found'
    BY <1>1, <1>2, <2>1 DEF ReplayInv, Complete, TrailFindings
  <2> HIDE DEF new
  <2>4. ~unread => Complete'
    <3>1. step'[1] = "report" /\ \A q : step' # <<"head", q>> /\ step' # <<"cache", q>>
      BY <2>1
    <3>2. ~unread => left = {} /\ \A q \in Pools \ left : PoolFindings(view, q) \subseteq found
      BY <1>1, <1>2 DEF ReplayInv, Complete
    <3>3. QED BY <1>1, <2>1, <2>3, <3>1, <3>2 DEF Complete
  <2>5. QED BY <1>1, <1>2, <1>3, <1>4, <1>5, <2>2, <2>4, RecordKeeps DEF new
<1>6. CASE Record(bad, <<"report", None>>) /\ unread' = TRUE
  <2>1. LastAudit(view.audit) \in Nat
    BY <1>2, SoundReadable, TrailFindingsType
  <2>2. bad \subseteq Findings
    BY <2>1 DEF Findings, Finding
  <2> HIDE DEF bad
  <2>3. QED BY <1>1, <1>2, <1>3, <1>4, <1>6, <2>2, RecordKeeps
<1>7. QED BY <1>1, <1>5, <1>6

\* A report whose queries all read covers every pool and the trail: it holds all there is to find.
LEMMA ReportKeeps == ASSUME ReplayInv, Report PROVE ReplayInv'
<1>1. /\ step[1] = "report" /\ verdict' \in {"clean", "findings"} /\ step' = <<"idle", None>>
      /\ view' = view /\ left' = left /\ found' = found /\ unread' = unread
  BY DEF Report
<1>2. TablesSound' /\ edit' = edit
  BY TablesKept DEF ReplayInv, Report
<1>3. Busy /\ Sound(view) /\ ~Busy'
  BY <1>1 DEF Busy, ReplayInv
<1>4. ReplayTypeOK'
  BY <1>1, <1>2 DEF ReplayInv, ReplayTypeOK
<1>5. ASSUME ~unread PROVE found = AllFindings(view)
  <2>1. found \subseteq AllFindings(view) /\ Complete
    BY <1>3, <1>5 DEF ReplayInv
  <2>2. TrailFindings(view) \subseteq found /\ \A p \in Pools : PoolFindings(view, p) \subseteq found
    BY <1>1, <2>1 DEF Complete
  <2>3. AllFindings(view) \subseteq found
    BY <2>2 DEF AllFindings
  <2>4. QED BY <2>1, <2>3
<1>6. QED BY <1>1, <1>2, <1>3, <1>4, <1>5 DEF ReplayInv, Reported

\* A failed query reports nothing.
LEMMA FailKeeps == ASSUME ReplayInv, ReadFails PROVE ReplayInv'
<1>1. /\ step[1] \in {"pool", "cache"} /\ verdict' = "error" /\ step' = <<"idle", None>>
      /\ view' = view /\ left' = left /\ found' = found /\ unread' = unread
  BY DEF ReadFails
<1>2. TablesSound' /\ edit' = edit
  BY TablesKept DEF ReplayInv, ReadFails
<1>3. Busy /\ Sound(view) /\ ~Busy' /\ ~Reported'
  BY <1>1 DEF Busy, ReplayInv, Reported
<1>4. ReplayTypeOK'
  BY <1>1, <1>2 DEF ReplayInv, ReplayTypeOK
<1>5. QED BY <1>1, <1>2, <1>3, <1>4 DEF ReplayInv

\* Every step, of the replay, of the ledger beside it and of the editor, keeps the invariant.
LEMMA StepReplay == ReplayInv /\ [VerifyNext]_verifyVars => ReplayInv'
<1> SUFFICES ASSUME ReplayInv, [VerifyNext]_verifyVars PROVE ReplayInv'
  OBVIOUS
<1>1. CASE Register
  <2>1. TablesSound' /\ UNCHANGED replay
    <3>1. /\ log' = log /\ snap' = snap /\ head' = head /\ audit' = audit /\ auditHead' = auditHead
          /\ edit' = edit /\ UNCHANGED replay
      BY <1>1 DEF Register
    <3>2. Tables' = Tables /\ Unedited' = Unedited
      BY <3>1 DEF Tables, Unedited
    <3>3. QED BY <3>1, <3>2 DEF ReplayInv, TablesSound
  <2>2. QED BY <2>1, LedgerBeside
<1>2. ASSUME NEW r \in Requests, Post(r) PROVE ReplayInv'
  <2>1. UNCHANGED replay
    BY <1>2 DEF Post
  <2>2. QED BY <1>2, <2>1, PostSound, LedgerBeside DEF ReplayInv
<1>3. CASE Edit
  <2>1. UNCHANGED replay
    BY <1>3 DEF Edit
  <2>2. QED BY <1>3, <2>1, EditSound, LedgerBeside DEF ReplayInv
<1>4. CASE UNCHANGED verifyVars
  <2>1. UNCHANGED replay /\ LedgerUnchanged
    BY <1>4 DEF verifyVars, LedgerUnchanged
  <2>2. QED BY <2>1, TablesKept, LedgerBeside DEF ReplayInv
<1>5. QED BY <1>1, <1>2, <1>3, <1>4, BeginKeeps, WalkKeeps, HeadKeeps, SnapshotsKeep, AuditKeeps,
         AuditHeadKeeps, ReportKeeps, FailKeeps DEF VerifyNext

\* The replay's invariant: its findings are those of the snapshot it pinned, for what it walked so
\* far, and that snapshot is unedited or has one edit (ledger.Verify in verify.go).
THEOREM ReplayCorrect == VerifySpec => []ReplayInv
  BY InitReplay, StepReplay, PTL DEF VerifySpec

\* The replay's own state keeps its types; every finding names a pool or none, and a seq.
THEOREM ReplayTypeCorrect == VerifySpec => []ReplayTypeOK
<1>1. ReplayInv => ReplayTypeOK
  BY DEF ReplayInv
<1>2. QED BY <1>1, ReplayCorrect, PTL

\* No false alarm (verify.go): whatever lands during the replay, a ledger nobody edited gives no
\* finding but an overflow.
THEOREM NoFalseAlarms == VerifySpec => []NoFalseAlarm
<1>1. ReplayInv => NoFalseAlarm
  <2> SUFFICES ASSUME ReplayInv, Reported, EditedAt = None
               PROVE  \A f \in found : f.kind = "balance_overflow"
    BY DEF NoFalseAlarm
  <2>1. Sound(view) /\ found = AllFindings(view)
    BY DEF ReplayInv, Reported
  <2>2. QED BY <2>1, SoundFindings DEF Overflows, EditedAt
<1>2. QED BY <1>1, ReplayCorrect, PTL

\* An edit of one row, whichever and wherever, is never reported clean (verify.go).
THEOREM EditsAreFound == VerifySpec => []EveryEditIsFound
<1>1. ReplayInv => EveryEditIsFound
  <2> SUFFICES ASSUME ReplayInv, Reported, EditedAt # None PROVE found # {}
    BY DEF EveryEditIsFound
  <2>1. Sound(view) /\ found = AllFindings(view)
    BY DEF ReplayInv, Reported
  <2>2. QED BY <2>1, SoundFindings DEF EditedAt
<1>2. QED BY <1>1, ReplayCorrect, PTL

\* What is found, overflows aside, is where the edit was: its pool, its batch or the next
\* (checkBatch, checkHead, checkSnapshots in verify.go).
THEOREM FindingsPoint == VerifySpec => []FindingsPointAtTheEdit
<1>1. ReplayInv => FindingsPointAtTheEdit
  <2> SUFFICES ASSUME ReplayInv, Reported, EditedAt # None, NEW f \in found,
                      f.kind # "balance_overflow"
               PROVE  /\ f.pool = EditedAt.pool
                      /\ f.kind \in ChainKinds => f.seq \in {EditedAt.seq, EditedAt.seq + 1}
    BY DEF FindingsPointAtTheEdit
  <2>1. Sound(view) /\ found = AllFindings(view)
    BY DEF ReplayInv, Reported
  <2>2. f.kind = "balance_overflow" \/ PointsAt(view, f)
    BY <2>1, SoundFindings DEF EditedAt
  <2>3. QED BY <2>2 DEF PointsAt, EditedAt
<1>2. QED BY <1>1, ReplayCorrect, PTL

=============================================================================
