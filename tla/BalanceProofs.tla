---------------------------- MODULE BalanceProofs ----------------------------
(***************************************************************************)
(* Theorems about what balances are (snapshot.go, rules.go): the cache is  *)
(* the fold of the log, and the rules a caller declares hold of the        *)
(* standings before and after.                                             *)
(***************************************************************************)
EXTENDS LedgerProofs, MoneyProofs

-----------------------------------------------------------------------------
(* What one batch moves.                                                     *)

\* The rows of es that move holder h.
RowsIn(es, h) == {i \in DOMAIN es : HolderOf(es[i]) = h}

\* A holder's share of a batch is a sequence of integers as long as the batch.
LEMMA AmountsOfType ==
  ASSUME NEW es \in Seq(EntryRowSet), NEW h
  PROVE  /\ AmountsOf(es, h) \in Seq(Int) /\ Len(AmountsOf(es, h)) = Len(es)
         /\ Len(es) \in Nat /\ DOMAIN es = 1..Len(es)
         /\ \A i \in 1..Len(es) : es[i].amount \in Int
<1>1. Len(es) \in Nat /\ DOMAIN es = 1..Len(es)
  BY LenProperties
<1>2. \A i \in 1..Len(es) : es[i].amount \in Int
  <2> TAKE i \in 1..Len(es)
  <2>1. es[i] \in EntryRowSet
    BY ElementOfSeq
  <2>2. QED BY <2>1 DEF EntryRowSet, Cp
<1>3. AmountsOf(es, h) \in [1..Len(es) -> Int]
  BY <1>1, <1>2 DEF AmountsOf
<1>4. QED BY <1>1, <1>2, <1>3

\* What a batch moves is an integer, and nothing for a holder it does not touch.
LEMMA DeltaType ==
  ASSUME NEW es \in Seq(EntryRowSet), NEW h
  PROVE  /\ Delta(es, h) \in Int
         /\ h \in Touched(es) <=> RowsIn(es, h) # {}
         /\ h \notin Touched(es) => Delta(es, h) = 0
  BY AmountsOfType, TotalType DEF Delta, Touched, RowsIn

\* Numbers up to n have a greatest one.
LEMMA GreatestOf ==
  ASSUME NEW n \in Nat, NEW T \in SUBSET (1..n), T # {}
  PROVE  \E m \in T : \A y \in T : m >= y
<1> DEFINE U == {k \in Nat : \A y \in T : k >= y}
<1>1. n \in U /\ U \in SUBSET Nat
  OBVIOUS
<1>2. PICK m \in U : \A k \in U : m <= k
  <2> HIDE DEF U
  <2>1. QED BY <1>1, LeastNatural
<1>3. m \in T
  <2>1. ASSUME m \notin T PROVE FALSE
    <3>1. PICK y \in T : TRUE
      OBVIOUS
    <3>2. m \in Nat /\ \A z \in T : z \in Nat /\ m >= z /\ z # m
      BY <1>2, <2>1
    <3>3. m - 1 \in Nat /\ \A z \in T : m - 1 >= z
      BY <3>1, <3>2
    <3>4. m - 1 \in U
      BY <3>3
    <3>5. QED BY <1>2, <3>2, <3>4
  <2>2. QED BY <2>1
<1>4. QED BY <1>2, <1>3

\* What a batch moves is the sum of the holder's entries, 0 when there are none.
LEMMA DeltaIsTotal ==
  ASSUME NEW es \in Seq(EntryRowSet), NEW h
  PROVE  Delta(es, h) = Total(AmountsOf(es, h))
<1>1. CASE h \in Touched(es)
  BY <1>1 DEF Delta
<1>2. CASE h \notin Touched(es)
  <2>1. AmountsOf(es, h) \in Seq(Int) /\ Len(AmountsOf(es, h)) = Len(es) /\ DOMAIN es = 1..Len(es)
    BY AmountsOfType
  <2>2. \A i \in 1..Len(es) : AmountsOf(es, h)[i] = 0
    BY <1>2, <2>1 DEF AmountsOf, Touched
  <2>3. QED BY <1>2, <2>1, <2>2, TotalZero DEF Delta
<1>3. QED BY <1>1, <1>2

-----------------------------------------------------------------------------
(* What a log adds up to, for one holder.                                    *)

FoldOf(s, h) == Total([n \in 1..Len(s) |-> Delta(s[n].entries, h)])
RowsOf(s, h) ==
  {x \in UNION {{n} \X DOMAIN s[n].entries : n \in DOMAIN s} :
     HolderOf(s[x[1]].entries[x[2]]) = h}
FoldedRow(s, h) ==
  IF RowsOf(s, h) = {} THEN None
  ELSE [amount |-> FoldOf(s, h), count |-> Cardinality(RowsOf(s, h)),
        asOf |-> Max({x[1] : x \in RowsOf(s, h)})]

\* CacheIsFold says that every cached row is the fold of its pool's log.
LEMMA CacheIsFolded == CacheIsFold <=> \A p \in Pools, h \in Holders : snap[p][h] = FoldedRow(log[p], h)
  BY DEF CacheIsFold, FoldedRow, RowsOf, EntriesOf, FoldOf, BalanceAsOfSeq

\* The batches of a log and their entries.
LEMMA StoredEntries ==
  ASSUME NEW s \in Seq(StoredSet)
  PROVE  /\ Len(s) \in Nat /\ DOMAIN s = 1..Len(s)
         /\ \A n \in 1..Len(s) : s[n].entries \in Seq(EntryRowSet)
<1>1. Len(s) \in Nat /\ DOMAIN s = 1..Len(s)
  BY LenProperties
<1>2. \A n \in 1..Len(s) : s[n].entries \in Seq(EntryRowSet)
  <2> TAKE n \in 1..Len(s)
  <2>1. s[n] \in StoredSet
    BY ElementOfSeq
  <2>2. QED BY <2>1 DEF StoredSet
<1>3. QED BY <1>1, <1>2

\* A batch more adds what it moves.
LEMMA FoldExtends ==
  ASSUME NEW s \in Seq(StoredSet), NEW b \in StoredSet, NEW h
  PROVE  /\ FoldOf(s, h) \in Int
         /\ FoldOf(Append(s, b), h) = FoldOf(s, h) + Delta(b.entries, h)
<1> DEFINE d(t) == [n \in 1..Len(t) |-> Delta(t[n].entries, h)]
           t == Append(s, b)
<1>1. Len(s) \in Nat /\ \A n \in 1..Len(s) : s[n].entries \in Seq(EntryRowSet)
  BY StoredEntries
<1>2. /\ t \in Seq(StoredSet) /\ Len(t) = Len(s) + 1 /\ t[Len(t)] = b
      /\ \A n \in 1..Len(s) : t[n] = s[n]
  <2>1. t \in Seq(StoredSet) /\ Len(t) = Len(s) + 1
    BY AppendProperties
  <2>2. t[Len(s) + 1] = b /\ \A n \in 1..Len(s) : t[n] = s[n]
    BY AppendProperties
  <2> HIDE DEF t
  <2>3. QED BY <2>1, <2>2
<1>3. d(s) \in Seq(Int) /\ Len(d(s)) = Len(s)
  <2>1. d(s) \in [1..Len(s) -> Int]
    BY <1>1, DeltaType
  <2>2. QED BY <1>1, <2>1
<1>4. Len(d(t)) = Len(t) /\ d(t)[Len(t)] = Delta(b.entries, h)
      /\ \A n \in 1..Len(s) : d(t)[n] = d(s)[n]
  <2> HIDE DEF t
  <2>1. QED BY <1>1, <1>2
<1> HIDE DEF d, t
<1>5. Total(d(t)) = Total(d(s)) + d(t)[Len(t)]
  BY <1>1, <1>2, <1>3, <1>4, TotalExtend
<1>6. QED BY <1>3, <1>4, <1>5, TotalType DEF FoldOf, d, t

\* The rows of a log are those of the batches before the last and of the last.
LEMMA RowsExtend ==
  ASSUME NEW s \in Seq(StoredSet), NEW b \in StoredSet, NEW h
  PROVE  /\ RowsOf(Append(s, b), h) = RowsOf(s, h) \cup ({Len(s) + 1} \X RowsIn(b.entries, h))
         /\ \A x \in RowsOf(s, h) : x[1] \in 1..Len(s)
<1> DEFINE t == Append(s, b)
<1>1. /\ t \in Seq(StoredSet) /\ Len(t) = Len(s) + 1 /\ t[Len(s) + 1] = b /\ Len(s) \in Nat
      /\ \A n \in 1..Len(s) : t[n] = s[n]
      /\ DOMAIN t = 1..(Len(s) + 1) /\ DOMAIN s = 1..Len(s)
  BY AppendProperties, LenProperties
<1> HIDE DEF t
<1>2. \A x \in RowsOf(s, h) : x[1] \in 1..Len(s)
  BY <1>1 DEF RowsOf
<1>3. RowsOf(t, h) = RowsOf(s, h) \cup ({Len(s) + 1} \X RowsIn(b.entries, h))
  BY <1>1 DEF RowsOf, RowsIn
<1>4. QED BY <1>2, <1>3 DEF t

\* A log has finitely many rows of a holder.
LEMMA RowsFinite ==
  ASSUME NEW s \in Seq(StoredSet), NEW h
  PROVE  IsFiniteSet(RowsOf(s, h))
<1> DEFINE T == {t \in Seq(StoredSet) : IsFiniteSet(RowsOf(t, h))}
<1>1. <<>> \in T
  <2>1. RowsOf(<<>>, h) = {}
    BY DEF RowsOf
  <2>2. QED BY <2>1, FS_EmptySet, EmptySeq
<1>2. ASSUME NEW t \in Seq(StoredSet), NEW b \in StoredSet, t \in T PROVE Append(t, b) \in T
  <2>0. Append(t, b) \in Seq(StoredSet)
    BY AppendProperties
  <2>1. IsFiniteSet(RowsIn(b.entries, h))
    <3>1. IsFiniteSet(DOMAIN b.entries)
      BY AmountsOfType, FS_Interval DEF StoredSet
    <3>2. QED BY <3>1, FS_Subset DEF RowsIn
  <2>2. IsFiniteSet({Len(t) + 1} \X RowsIn(b.entries, h))
    BY <2>1, FS_Singleton, FS_Product
  <2>3. RowsOf(Append(t, b), h) = RowsOf(t, h) \cup ({Len(t) + 1} \X RowsIn(b.entries, h))
    BY RowsExtend
  <2>4. IsFiniteSet(RowsOf(t, h))
    BY <1>2
  <2>5. IsFiniteSet(RowsOf(t, h) \cup ({Len(t) + 1} \X RowsIn(b.entries, h)))
    BY <2>2, <2>4, FS_Union
  <2>6. QED BY <2>0, <2>3, <2>5
<1>3. Seq(StoredSet) \subseteq T
  <2> HIDE DEF T
  <2>1. QED BY <1>1, <1>2, SeqInductive
<1>4. QED BY <1>3

\* A holder no row moves has nothing.
LEMMA FoldOfNothing ==
  ASSUME NEW s \in Seq(StoredSet), NEW h, RowsOf(s, h) = {}
  PROVE  FoldOf(s, h) = 0
<1> DEFINE d == [n \in 1..Len(s) |-> Delta(s[n].entries, h)]
<1>1. Len(s) \in Nat /\ DOMAIN s = 1..Len(s) /\ \A n \in 1..Len(s) : s[n].entries \in Seq(EntryRowSet)
  BY StoredEntries
<1>2. \A n \in 1..Len(s) : Delta(s[n].entries, h) = 0
  <2> TAKE n \in 1..Len(s)
  <2>1. RowsIn(s[n].entries, h) = {}
    <3>1. ASSUME NEW i \in RowsIn(s[n].entries, h) PROVE FALSE
      <4>1. <<n, i>> \in {n} \X DOMAIN s[n].entries
        BY <3>1 DEF RowsIn
      <4>2. <<n, i>> \in RowsOf(s, h)
        BY <1>1, <3>1, <4>1 DEF RowsOf, RowsIn
      <4>3. QED BY <4>2
    <3>2. QED BY <3>1
  <2>2. QED BY <1>1, <2>1, DeltaType
<1>3. d \in Seq(Int) /\ Len(d) = Len(s) /\ \A n \in 1..Len(s) : d[n] = 0
  <2>1. d \in [1..Len(s) -> Int]
    BY <1>2
  <2>2. QED BY <1>1, <1>2, <2>1
<1>4. Total(d) = 0
  <2> HIDE DEF d
  <2>1. QED BY <1>1, <1>3, TotalZero
<1>5. QED BY <1>4 DEF FoldOf

\* A holder some row moves has a cached row.
LEMMA FoldedRowIsRow ==
  ASSUME NEW s \in Seq(StoredSet), NEW h, RowsOf(s, h) # {}
  PROVE  FoldedRow(s, h) # None
<1> DEFINE seqs == {x[1] : x \in RowsOf(s, h)}
<1>1. FoldOf(s, h) \in Int
  <2>1. PICK x : x \in RowsOf(s, h)
    OBVIOUS
  <2>2. x[1] \in DOMAIN s /\ Len(s) \in Nat /\ DOMAIN s = 1..Len(s)
    BY <2>1, LenProperties DEF RowsOf
  <2>3. s[x[1]] \in StoredSet
    BY <2>2, ElementOfSeq
  <2>4. QED BY <2>3, FoldExtends
<1>2. Cardinality(RowsOf(s, h)) \in Nat
  BY RowsFinite, FS_CardinalityType
<1>3. Max(seqs) \in Nat
  <2>1. seqs # {} /\ seqs \subseteq 1..Len(s) /\ Len(s) \in Nat
    BY LenProperties DEF RowsOf
  <2> HIDE DEF seqs
  <2>2. PICK m \in seqs : \A y \in seqs : m >= y
    BY <2>1, GreatestOf
  <2>3. Max(seqs) \in seqs
    BY <2>2 DEF Max
  <2>4. Max(seqs) \in 1..Len(s)
    BY <2>1, <2>3
  <2>5. QED BY <2>1, <2>4
<1>4. FoldedRow(s, h) \in [amount : Int, count : Nat, asOf : Nat]
  BY <1>1, <1>2, <1>3 DEF FoldedRow
<1>5. QED BY <1>4, NoneAssumption

\* upsertSnapshots keeps the cached row the fold of the log.
LEMMA UpsertFolds ==
  ASSUME NEW s \in Seq(StoredSet), NEW b \in StoredSet, NEW cache \in Caches, NEW h \in Holders,
         cache[h] = FoldedRow(s, h)
  PROVE  Upserted(cache, b.entries, Len(s) + 1)[h] = FoldedRow(Append(s, b), h)
<1> DEFINE n == Len(s) + 1
           t == Append(s, b)
           new == {n} \X RowsIn(b.entries, h)
<1>1. b.entries \in Seq(EntryRowSet) /\ n \in Nat
  BY LenProperties DEF StoredSet
<1>2. /\ FoldOf(t, h) = FoldOf(s, h) + Delta(b.entries, h) /\ FoldOf(s, h) \in Int
      /\ RowsOf(t, h) = RowsOf(s, h) \cup new
      /\ IsFiniteSet(RowsOf(s, h)) /\ IsFiniteSet(RowsOf(t, h))
      /\ \A x \in RowsOf(s, h) : x[1] \in 1..Len(s)
  <2>1. t \in Seq(StoredSet)
    BY AppendProperties
  <2>2. FoldOf(t, h) = FoldOf(s, h) + Delta(b.entries, h) /\ FoldOf(s, h) \in Int
    BY FoldExtends
  <2>3. RowsOf(t, h) = RowsOf(s, h) \cup new /\ \A x \in RowsOf(s, h) : x[1] \in 1..Len(s)
    BY RowsExtend
  <2> HIDE DEF t, new
  <2>4. IsFiniteSet(RowsOf(s, h)) /\ IsFiniteSet(RowsOf(t, h))
    BY <2>1, RowsFinite
  <2>5. QED BY <2>2, <2>3, <2>4
<1>3. CASE h \notin Touched(b.entries)
  <2>1. Delta(b.entries, h) = 0 /\ new = {}
    BY <1>1, <1>3, DeltaType
  <2>2. RowsOf(t, h) = RowsOf(s, h) /\ FoldOf(t, h) = FoldOf(s, h)
    BY <1>2, <2>1
  <2>3. FoldedRow(t, h) = FoldedRow(s, h)
    <3> HIDE DEF t
    <3>1. QED BY <2>2 DEF FoldedRow
  <2>4. Upserted(cache, b.entries, n)[h] = cache[h]
    BY <1>3 DEF Upserted
  <2>5. QED BY <2>3, <2>4
<1>4. CASE h \in Touched(b.entries)
  <2>1. RowsIn(b.entries, h) # {} /\ IsFiniteSet(RowsIn(b.entries, h))
    <3>1. IsFiniteSet(DOMAIN b.entries)
      <4>1. DOMAIN b.entries = 1..Len(b.entries) /\ Len(b.entries) \in Nat
        BY <1>1, LenProperties
      <4>2. IsFiniteSet(1..Len(b.entries))
        BY <4>1, FS_Interval
      <4>3. QED BY <4>1, <4>2
    <3>2. RowsIn(b.entries, h) \in SUBSET DOMAIN b.entries
      BY DEF RowsIn
    <3>3. IsFiniteSet(RowsIn(b.entries, h))
      BY <3>1, <3>2, FS_Subset
    <3>4. QED BY <1>1, <1>4, <3>3, DeltaType
  <2>2. IsFiniteSet(new) /\ Cardinality(new) = Cardinality(RowsIn(b.entries, h))
    <3>1. IsFiniteSet({n}) /\ Cardinality({n}) = 1
      BY FS_Singleton
    <3>2. Cardinality(RowsIn(b.entries, h)) \in Nat
      BY <2>1, FS_CardinalityType
    <3>3. IsFiniteSet(new) /\ Cardinality(new) = Cardinality({n}) * Cardinality(RowsIn(b.entries, h))
      BY <2>1, <3>1, FS_Product
    <3>4. QED BY <3>1, <3>2, <3>3
  <2>3. Cardinality(RowsOf(t, h)) = Cardinality(RowsOf(s, h)) + Cardinality(new)
    <3>1. RowsOf(s, h) \cap new = {}
      BY <1>1, <1>2
    <3>2. /\ Cardinality(RowsOf(s, h)) \in Nat /\ Cardinality(new) \in Nat
          /\ Cardinality(RowsOf(s, h) \cap new) = 0
      BY <1>2, <2>2, <3>1, FS_CardinalityType, FS_EmptySet
    <3>3. Cardinality(RowsOf(s, h) \cup new)
            = Cardinality(RowsOf(s, h)) + Cardinality(new) - Cardinality(RowsOf(s, h) \cap new)
      <4> HIDE DEF new
      <4>1. QED BY <1>2, <2>2, FS_Union
    <3>4. QED BY <1>2, <3>2, <3>3
  <2>4. RowsOf(t, h) # {} /\ Max({x[1] : x \in RowsOf(t, h)}) = n
    <3> DEFINE seqs == {x[1] : x \in RowsOf(t, h)}
    <3>1. n \in seqs /\ \A y \in seqs : y \in Nat /\ n >= y
      <4>1. PICK i : i \in RowsIn(b.entries, h)
        BY <2>1
      <4>2. <<n, i>> \in new /\ <<n, i>>[1] = n
        BY <4>1
      <4>3. \A x \in new : x[1] = n
        OBVIOUS
      <4> HIDE DEF new
      <4>4. n \in seqs
        BY <1>2, <4>2
      <4>5. \A x \in RowsOf(t, h) : x[1] \in Nat /\ n >= x[1]
        <5> TAKE x \in RowsOf(t, h)
        <5>1. CASE x \in new
          BY <1>1, <4>3, <5>1
        <5>2. CASE x \in RowsOf(s, h)
          BY <1>1, <1>2, <5>2, LenProperties
        <5>3. QED BY <1>2, <5>1, <5>2
      <4>6. QED BY <4>4, <4>5
    <3>2. Max(seqs) \in seqs /\ \A y \in seqs : Max(seqs) >= y
      <4> HIDE DEF seqs, n
      <4>1. QED BY <3>1 DEF Max
    <3> HIDE DEF seqs, n
    <3>3. Max(seqs) = n
      BY <3>1, <3>2
    <3>4. QED BY <3>1, <3>3 DEF seqs
  <2>5. CachedAmount(cache[h]) = FoldOf(s, h) /\ CachedCount(cache[h]) = Cardinality(RowsOf(s, h))
    <3>1. CASE RowsOf(s, h) = {}
      <4>1. cache[h] = None /\ Cardinality(RowsOf(s, h)) = 0
        BY <3>1, FS_EmptySet DEF FoldedRow
      <4>2. FoldOf(s, h) = 0
        BY <3>1, FoldOfNothing
      <4>3. QED BY <4>1, <4>2 DEF CachedAmount, CachedCount
    <3>2. CASE RowsOf(s, h) # {}
      <4>1. cache[h] # None
        BY <1>2, <3>2, FoldedRowIsRow
      <4>2. QED BY <3>2, <4>1 DEF FoldedRow, CachedAmount, CachedCount
    <3>3. QED BY <3>1, <3>2
  <2>6. FoldedRow(t, h) = [amount |-> FoldOf(s, h) + Delta(b.entries, h),
                           count  |-> Cardinality(RowsOf(s, h)) + Cardinality(RowsIn(b.entries, h)),
                           asOf   |-> n]
    BY <1>2, <2>2, <2>3, <2>4 DEF FoldedRow
  <2>7. QED BY <1>4, <2>5, <2>6 DEF Upserted, RowsIn
<1>5. QED BY <1>3, <1>4

\* The step that commits a batch keeps every pool's cache the fold of its log.
LEMMA CommitFolds == ASSUME Inv, CacheIsFold, CommitBatch PROVE CacheIsFold'
<1> DEFINE P == ThisPool
           es == EntryRows(tx.req, ThisSeq)
<1>1. /\ P \in Pools /\ ThisSeq = Len(log[P]) + 1 /\ log[P] \in Seq(StoredSet)
      /\ snap[P] \in Caches /\ NewBatch \in StoredSet /\ NewBatch.entries = es
  BY CommitEffect, OpenTransaction, NewBatchType DEF NewBatch, Stored
<1>2. log \in [Pools -> Seq(StoredSet)] /\ snap \in [Pools -> Caches]
  BY DEF Inv, TypeOK
<1>3. /\ log'[P] = Append(log[P], NewBatch) /\ snap'[P] = Upserted(snap[P], es, ThisSeq)
      /\ \A p \in Pools \ {P} : log'[p] = log[p] /\ snap'[p] = snap[p]
  BY <1>1, <1>2, CommitEffect
<1>4. \A p \in Pools, h \in Holders : snap[p][h] = FoldedRow(log[p], h)
  BY CacheIsFolded
<1>5. ASSUME NEW p \in Pools, NEW h \in Holders PROVE snap'[p][h] = FoldedRow(log'[p], h)
  <2>1. CASE p = P
    <3> DEFINE s == log[P]
               c == snap[P]
               b == NewBatch
    <3>1. /\ s \in Seq(StoredSet) /\ b \in StoredSet /\ c \in Caches
          /\ c[h] = FoldedRow(s, h)
      BY <1>1, <1>4
    <3>2. log'[p] = Append(s, b) /\ snap'[p] = Upserted(c, b.entries, Len(s) + 1)
      BY <1>1, <1>3, <2>1
    <3> HIDE DEF s, c, b
    <3>3. Upserted(c, b.entries, Len(s) + 1)[h] = FoldedRow(Append(s, b), h)
      BY <3>1, UpsertFolds
    <3>4. QED BY <3>2, <3>3
  <2>2. CASE p # P
    BY <1>3, <1>4, <2>2
  <2>3. QED BY <2>1, <2>2
<1>6. QED BY <1>5 DEF CacheIsFold, FoldedRow, RowsOf, EntriesOf, FoldOf, BalanceAsOfSeq

\* The cache is the fold of the log after any history: the additive upserts lose nothing,
\* count every row once and are current at the last batch that moved the holder.
THEOREM CacheCorrect == Spec => []CacheIsFold
<1>1. Init => CacheIsFold
  <2> SUFFICES ASSUME Init PROVE CacheIsFold
    OBVIOUS
  <2>1. ASSUME NEW p \in Pools, NEW h \in Holders PROVE snap[p][h] = FoldedRow(log[p], h)
    <3>1. snap[p][h] = None /\ log[p] = <<>>
      BY DEF Init
    <3>2. RowsOf(log[p], h) = {}
      BY <3>1 DEF RowsOf
    <3>3. QED BY <3>1, <3>2 DEF FoldedRow
  <2>2. QED BY <2>1, CacheIsFolded
<1>2. Inv /\ CacheIsFold /\ [Next]_vars => CacheIsFold'
  <2> SUFFICES ASSUME Inv, CacheIsFold, [Next]_vars PROVE CacheIsFold'
    OBVIOUS
  <2>1. CASE UNCHANGED tables
    BY <2>1 DEF tables, CacheIsFold, EntriesOf, BalanceAsOfSeq
  <2>2. CASE CommitBatch
    BY <2>2, CommitFolds
  <2>3. QED BY <2>1, <2>2, OnlyCommitWrites
<1>3. QED BY <1>1, <1>2, WriteSetCorrect, PTL DEF Spec

-----------------------------------------------------------------------------
(* The rules a caller declares.                                              *)

\* Past the rules, they hold of the log as it still is.
RulesHeld ==
  Past(Written) => \A inv \in tx.req.rules : DeclaredHolds(tx.req, inv, ThisSeq - 1)

\* Every statement after the rules reads the log they were checked against: the write
\* connection is held from before the check until the commit.
LEMMA StepRulesHeld == Inv /\ RulesHeld /\ [Next]_vars => RulesHeld'
<1> SUFFICES ASSUME Inv, RulesHeld, [Next]_vars PROVE RulesHeld'
  OBVIOUS
<1> USE DEF RulesHeld, Past, Written, ThisPool, ThisSeq
<1>1. ASSUME log' = log, tx'.req = tx.req, Past(Written)' => Past(Written) PROVE RulesHeld'
  BY <1>1 DEF NextPoolSeq, DeclaredHolds, SumsToZero, FloorHolds, BalanceAsOfSeq
<1>2. ASSUME tx'.stage \notin Written \cup {"commit"} PROVE RulesHeld'
  BY <1>2
<1>3. CASE CheckInvariants
  <2>1. CASE Refuse
    BY <1>2, <2>1 DEF Refuse, Idle
  <2>2. CASE ~Refuse
    <3>1. /\ \A inv \in tx.req.rules : DeclaredHolds(tx.req, inv, ThisSeq - 1)
          /\ log' = log /\ tx' = [tx EXCEPT !.stage = "insert"]
      BY <1>3, <2>2 DEF CheckInvariants, InvariantsHold, Advance, committed
    <3>2. tx'.req = tx.req
      BY <3>1 DEF Inv, TypeOK, Transactions
    <3>3. QED BY <3>1, <3>2 DEF NextPoolSeq, DeclaredHolds, SumsToZero, FloorHolds, BalanceAsOfSeq
  <2>3. QED BY <2>1, <2>2
<1>4. CASE FindReplay
  <2>1. tx'.stage = "check" \/ (tx'.stage = "commit" /\ tx'.found # None)
    <3>1. tx \in Transactions
      BY DEF Inv, TypeOK
    <3>2. \A n \in DOMAIN log[tx.req.pool] : n # None
      <4>1. log[ThisPool] \in Seq(StoredSet)
        BY <1>4, OpenTransaction DEF FindReplay
      <4>2. QED BY <4>1, LenProperties, NoneAssumption
    <3>3. QED BY <1>4, <3>1, <3>2 DEF FindReplay, Advance, Transactions
  <2>2. QED BY <2>1
<1>5. CASE InsertBatch \/ InsertEntries \/ UpsertSnapshots \/ WriteAudit \/ WriteOutboxEvent
           \/ WriteHeads
  <2>1. CASE Refuse
    BY <1>2, <2>1 DEF Refuse, Idle
  <2>2. CASE ~Refuse
    <3>1. /\ log' = log /\ tx.stage \in Written
          /\ tx'.req = tx.req /\ tx'.found = tx.found
      <4>1. tx \in Transactions
        BY DEF Inv, TypeOK
      <4>2. QED BY <1>5, <2>2, <4>1 DEF InsertBatch, InsertEntries, UpsertSnapshots, WriteAudit,
                   WriteOutboxEvent, WriteHeads, Advance, committed, Transactions
    <3>2. QED BY <1>1, <3>1
  <2>3. QED BY <2>1, <2>2
<1>6. CASE CommitReplay \/ CommitBatch \/ Fault
  BY <1>2, <1>6 DEF CommitReplay, CommitBatch, Fault, Idle
<1>7. ASSUME NEW r \in Requests, Begin(r) PROVE RulesHeld'
  BY <1>2, <1>7 DEF Begin, Idle
<1>8. CASE UNCHANGED vars \/ (\E a \in Persons : CreateAccount(a))
           \/ (\E r \in Requests : RejectInvalid(r))
  BY <1>1, <1>8 DEF vars, CreateAccount, RejectInvalid, committed
<1>9. QED BY <1>3, <1>4, <1>5, <1>6, <1>7, <1>8 DEF Next, Statement

\* What the rules' theorems need of a state: the write set, the cache and the rules.
BalanceInv == Inv /\ CacheIsFold /\ RulesHeld

\* At the commit, the rules hold of the log as it was when the transaction began.
THEOREM RulesHeldAtCommit == Spec => []BalanceInv
<1>1. Init => RulesHeld
  BY DEF Init, Idle, RulesHeld, Past, Written
<1>2. QED BY <1>1, StepRulesHeld, WriteSetCorrect, CacheCorrect, PTL DEF Spec, BalanceInv

\* What the commit of a batch does to the standing of a holder of its pool, and to no other.
LEMMA CommitMoves ==
  ASSUME BalanceInv, NEW p \in Pools, Committed(p), [Next]_vars
  PROVE  /\ CommitBatch /\ p = ThisPool
         /\ tx.req \in Requests /\ ThisSeq = Len(log[p]) + 1 /\ Len(log[p]) \in Nat
         /\ \A inv \in tx.req.rules : DeclaredHolds(tx.req, inv, Len(log[p]))
         /\ \A h \in Holders :
              /\ Standing(snap[p], h) \in Int /\ Delta(tx.req.entries, h) \in Int
              /\ Standing(snap[p], h) = BalanceAsOfSeq(p, h, Len(log[p]))
              /\ Standing(snap'[p], h) = Standing(snap[p], h) + Delta(tx.req.entries, h)
<1>1. CommitBatch
  <2>1. UNCHANGED tables => log'[p] = log[p]
    BY DEF tables
  <2>2. Len(log[p]) \in Nat
    BY LenProperties DEF BalanceInv, Inv, TypeOK
  <2>3. ~UNCHANGED tables
    BY <2>1, <2>2 DEF Committed
  <2>4. QED BY <2>3, OnlyCommitWrites
<1>2. Inv
  BY DEF BalanceInv
<1>3. /\ tx.req \in Requests /\ ThisPool \in Pools /\ ThisSeq = Len(log[ThisPool]) + 1
      /\ log[ThisPool] \in Seq(StoredSet) /\ snap[ThisPool] \in Caches /\ ThisSeq \in Seqs
  BY <1>1, <1>2, CommitEffect, OpenTransaction
<1>4. log \in [Pools -> Seq(StoredSet)] /\ snap \in [Pools -> Caches]
  BY <1>2 DEF Inv, TypeOK
<1>5. p = ThisPool
  <2>1. p # ThisPool => log'[p] = log[p]
    BY <1>1, <1>2, <1>4, CommitEffect
  <2>2. Len(log[p]) \in Nat
    BY <1>4, LenProperties
  <2>3. QED BY <2>1, <2>2 DEF Committed
<1>6. Len(log[p]) \in Nat /\ ThisSeq - 1 = Len(log[p])
  BY <1>3, <1>5, LenProperties
<1>7. \A inv \in tx.req.rules : DeclaredHolds(tx.req, inv, Len(log[p]))
  BY <1>1, <1>6 DEF BalanceInv, RulesHeld, Past, CommitBatch
<1>8. ASSUME NEW h \in Holders
      PROVE  /\ Standing(snap[p], h) \in Int /\ Delta(tx.req.entries, h) \in Int
             /\ Standing(snap[p], h) = BalanceAsOfSeq(p, h, Len(log[p]))
             /\ Standing(snap'[p], h) = Standing(snap[p], h) + Delta(tx.req.entries, h)
  <2> DEFINE es == EntryRows(tx.req, ThisSeq)
             new == Upserted(snap[p], es, ThisSeq)
  <2>1. es \in Seq(EntryRowSet) /\ Delta(es, h) = Delta(tx.req.entries, h)
    BY <1>3, EntryRowsType, RowsKeepAmounts
  <2>2. Delta(tx.req.entries, h) \in Int
    BY <2>1, DeltaType
  <2>3. snap[p][h] = FoldedRow(log[p], h)
    BY CacheIsFolded DEF BalanceInv
  <2>4. Standing(snap[p], h) = FoldOf(log[p], h) /\ FoldOf(log[p], h) \in Int
    <3>1. FoldOf(log[p], h) \in Int
      <4>1. NewBatch \in StoredSet
        BY <1>1, <1>2, NewBatchType
      <4>2. QED BY <1>3, <1>5, <4>1, FoldExtends
    <3>2. CASE RowsOf(log[p], h) = {}
      <4>1. FoldOf(log[p], h) = 0
        BY <1>4, <3>2, FoldOfNothing
      <4>2. QED BY <2>3, <3>2, <4>1 DEF FoldedRow, Standing, CachedAmount
    <3>3. CASE RowsOf(log[p], h) # {}
      <4>1. FoldedRow(log[p], h) # None
        BY <1>4, <3>3, FoldedRowIsRow
      <4>2. QED BY <2>3, <3>1, <3>3, <4>1 DEF FoldedRow, Standing, CachedAmount
    <3>4. QED BY <3>2, <3>3
  <2>5. FoldOf(log[p], h) = BalanceAsOfSeq(p, h, Len(log[p]))
    BY DEF FoldOf, BalanceAsOfSeq
  <2>6. snap'[p] = new
    BY <1>1, <1>2, <1>4, <1>5, CommitEffect
  <2>7. Standing(new, h) = Standing(snap[p], h) + Delta(es, h)
    <3>1. CASE h \in Touched(es)
      <4>1. UpsertAdmitted(snap[p], es)
        BY <1>1, <1>2, <1>5 DEF CommitBatch, Inv, WriteSet, Past
      <4>2. new[h] \in SnapshotRowSet
        BY <1>3, <1>5, <2>1, <3>1, <4>1, UpsertedType
      <4>3. new[h] # None
        BY <4>2, NoneAssumption DEF SnapshotRowSet, Cp, Seqs
      <4>4. new[h].amount = CachedAmount(snap[p][h]) + Delta(es, h)
        BY <3>1 DEF Upserted
      <4> HIDE DEF new, es
      <4>5. QED BY <4>3, <4>4 DEF Standing, CachedAmount
    <3>2. CASE h \notin Touched(es)
      <4>1. new[h] = snap[p][h] /\ Delta(es, h) = 0
        BY <3>2 DEF Upserted, Delta
      <4> HIDE DEF new, es
      <4>2. QED BY <2>4, <4>1 DEF Standing
    <3>3. QED BY <3>1, <3>2
  <2>8. QED BY <2>1, <2>2, <2>4, <2>5, <2>6, <2>7
<1>9. QED BY <1>1, <1>3, <1>5, <1>6, <1>7, <1>8

\* A committed NonNegative batch takes no person below the floor it declares, whatever else
\* committed between the caller's reading of the standings and its transaction.
THEOREM FloorsGuarded == Spec => FloorGuards
<1>1. ASSUME BalanceInv, [Next]_vars, NEW p \in Pools, Committed(p),
             NEW inv \in tx.req.rules, inv.rule = "NonNegative",
             NEW h \in Persons \X BalanceKinds, InScope(inv, h[2]),
             Standing(snap'[p], h) < Standing(snap[p], h)
      PROVE  Standing(snap'[p], h) >= inv.floor
  <2> DEFINE d == Delta(tx.req.entries, h)
  <2>1. h \in Holders /\ h[1] \in Persons
    BY DEF Holders, Accounts
  <2>2. /\ Standing(snap[p], h) \in Int /\ d \in Int
        /\ Standing(snap[p], h) = BalanceAsOfSeq(p, h, Len(log[p]))
        /\ Standing(snap'[p], h) = Standing(snap[p], h) + d
        /\ p = ThisPool /\ DeclaredHolds(tx.req, inv, Len(log[p]))
    BY <1>1, <2>1, CommitMoves
  <2>3. d < 0
    BY <1>1, <2>2
  <2>4. h \in Touched(tx.req.entries)
    BY <2>3 DEF Delta
  <2>5. FloorHolds(tx.req, inv, Len(log[p]))
    BY <1>1, <2>2 DEF DeclaredHolds
  <2>6. h[1] \notin SystemAccounts
    BY <2>1, AccountsAssumption
  <2>7. BalanceAsOfSeq(tx.req.pool, h, Len(log[p])) + d >= inv.floor
    BY <1>1, <2>3, <2>4, <2>5, <2>6 DEF FloorHolds
  <2>8. QED BY <2>2, <2>7 DEF ThisPool
<1>2. BalanceInv /\ [Next]_vars =>
        [\A p \in Pools : Committed(p) =>
           \A inv \in tx.req.rules : inv.rule = "NonNegative" =>
             \A h \in {h \in Persons \X BalanceKinds : InScope(inv, h[2])} :
               Standing(snap'[p], h) < Standing(snap[p], h) => Standing(snap'[p], h) >= inv.floor]_vars
  BY <1>1
<1>3. QED BY <1>2, RulesHeldAtCommit, PTL DEF Spec, FloorGuards

-----------------------------------------------------------------------------
(* The sum of all standings of a balance kind.                               *)

\* What an entry appended to a batch adds, for a holder and for a balance kind.
LEMMA EntryAppended ==
  ASSUME NEW es \in Seq(EntryRowSet), NEW e \in EntryRowSet, NEW h, NEW k
  PROVE  /\ Append(es, e) \in Seq(EntryRowSet) /\ e.amount \in Int
         /\ Total(AmountsOf(Append(es, e), h))
              = Total(AmountsOf(es, h)) + (IF HolderOf(e) = h THEN e.amount ELSE 0)
         /\ Total(AmountsOfKind(Append(es, e), k))
              = Total(AmountsOfKind(es, k)) + (IF e.kind = k THEN e.amount ELSE 0)
         /\ Total(AmountsOf(es, h)) \in Int /\ Total(AmountsOfKind(es, k)) \in Int
<1> DEFINE t == Append(es, e)
<1>1. /\ Len(es) \in Nat /\ DOMAIN es = 1..Len(es) /\ DOMAIN t = 1..(Len(es) + 1)
      /\ t[Len(es) + 1] = e /\ \A i \in 1..Len(es) : t[i] = es[i]
      /\ t \in Seq(EntryRowSet)
  BY AppendProperties, LenProperties
<1>2. e.amount \in Int /\ \A i \in 1..Len(es) : es[i].amount \in Int
  <2>1. e.amount \in Int
    BY MaxCpAssumption DEF EntryRowSet, Cp
  <2>2. QED BY <2>1, AmountsOfType
<1>3. AmountsOf(es, h) \in Seq(Int) /\ AmountsOfKind(es, k) \in Seq(Int)
  <2>1. AmountsOfKind(es, k) \in [1..Len(es) -> Int]
    BY <1>1, <1>2 DEF AmountsOfKind
  <2>2. QED BY <1>1, <2>1, AmountsOfType
<1> HIDE DEF t
<1>4. AmountsOf(t, h) = Append(AmountsOf(es, h), IF HolderOf(e) = h THEN e.amount ELSE 0)
  BY <1>1 DEF AmountsOf
<1>5. AmountsOfKind(t, k) = Append(AmountsOfKind(es, k), IF e.kind = k THEN e.amount ELSE 0)
  BY <1>1 DEF AmountsOfKind
<1>6. /\ Total(AmountsOf(t, h)) = Total(AmountsOf(es, h)) + (IF HolderOf(e) = h THEN e.amount ELSE 0)
      /\ Total(AmountsOfKind(t, k)) = Total(AmountsOfKind(es, k)) + (IF e.kind = k THEN e.amount ELSE 0)
  BY <1>2, <1>3, <1>4, <1>5, TotalAppend
<1>7. QED BY <1>1, <1>2, <1>3, <1>6, TotalType DEF t

\* after is before with d added to one account.
OneMoves(before, after, c, d) ==
  /\ before \in [Accounts -> Int] /\ after \in [Accounts -> Int] /\ c \in Accounts /\ d \in Int
  /\ after[c] = before[c] + d /\ \A a \in Accounts \ {c} : after[a] = before[a]

\* What one account moves, the sum over all accounts moves.
LEMMA AccountMoves ==
  ASSUME NEW before, NEW after, NEW c, NEW d, OneMoves(before, after, c, d),
         NEW s, SumFold(s, before, Accounts), NEW r, SumFold(r, after, Accounts)
  PROVE  r[Accounts] = s[Accounts] + d
  BY SumFoldPoint, AccountsAssumption DEF OneMoves

\* f with the entries of es of balance kind k added, account by account.
Moved(f, es, k) == [a \in Accounts |-> f[a] + Total(AmountsOf(es, <<a, k>>))]

\* Moving a batch's entries holder by holder moves a balance kind by what its entries add up to.
LEMMA MovedAddsUp ==
  ASSUME NEW k \in BalanceKinds, NEW f \in [Accounts -> Int], NEW g, SumFold(g, f, Accounts)
  PROVE  /\ g[Accounts] \in Int
         /\ \A es \in Seq(EntryRowSet) : \A s : SumFold(s, Moved(f, es, k), Accounts) =>
              s[Accounts] = g[Accounts] + Total(AmountsOfKind(es, k))
<1> DEFINE moved(t) == Moved(f, t, k)
           T == {t \in Seq(EntryRowSet) :
                   \A s : SumFold(s, moved(t), Accounts) =>
                     s[Accounts] = g[Accounts] + Total(AmountsOfKind(t, k))}
<1>0. IsFiniteSet(Accounts)
  BY AccountsAssumption
<1>1. \A t \in Seq(EntryRowSet) : moved(t) \in [Accounts -> Int]
  <2> TAKE t \in Seq(EntryRowSet)
  <2>1. \A a \in Accounts : Total(AmountsOf(t, <<a, k>>)) \in Int
    BY AmountsOfType, TotalType
  <2>2. QED BY <2>1 DEF Moved
<1>2. g[Accounts] \in Int
  BY <1>0, SumFoldUnique
<1>3. <<>> \in T
  <2>1. \A a \in Accounts : Total(AmountsOf(<<>>, <<a, k>>)) = 0
    <3>1. \A a \in Accounts : AmountsOf(<<>>, <<a, k>>) = <<>>
      BY DEF AmountsOf
    <3>2. QED BY <3>1, TotalEmpty
  <2>2. Total(AmountsOfKind(<<>>, k)) = 0
    <3>1. AmountsOfKind(<<>>, k) = <<>>
      BY DEF AmountsOfKind
    <3>2. QED BY <3>1, TotalEmpty
  <2>3. <<>> \in Seq(EntryRowSet)
    OBVIOUS
  <2>4. \A a \in Accounts : moved(<<>>)[a] = f[a]
    BY <2>1 DEF Moved
  <2>5. moved(<<>>) \in [Accounts -> Int]
    BY <1>1, <2>3
  <2> HIDE DEF moved
  <2>6. ASSUME NEW s, SumFold(s, moved(<<>>), Accounts) PROVE s[Accounts] = g[Accounts]
    BY <1>0, <2>4, <2>5, <2>6, SumFoldUnique
  <2>7. QED BY <1>2, <2>2, <2>3, <2>6
<1>4. ASSUME NEW t \in Seq(EntryRowSet), NEW x \in EntryRowSet, t \in T PROVE Append(t, x) \in T
  <2> DEFINE u == Append(t, x)
             d == IF x.kind = k THEN x.amount ELSE 0
  <2>1. x.account \in Accounts /\ x.amount \in Int /\ d \in Int /\ u \in Seq(EntryRowSet)
    <3>1. x.account \in Accounts
      BY DEF EntryRowSet
    <3>2. x.amount \in Int /\ u \in Seq(EntryRowSet)
      BY EntryAppended
    <3>3. QED BY <3>1, <3>2
  <2>2. PICK s : SumFold(s, moved(t), Accounts)
    BY <1>0, SumFoldExists
  <2>3. s[Accounts] = g[Accounts] + Total(AmountsOfKind(t, k))
    BY <1>4, <2>2
  <2>4. Total(AmountsOfKind(u, k)) = Total(AmountsOfKind(t, k)) + d
        /\ Total(AmountsOfKind(t, k)) \in Int
    BY EntryAppended
  <2>5. ASSUME NEW a \in Accounts
        PROVE  moved(u)[a] = moved(t)[a] + (IF a = x.account THEN d ELSE 0)
    <3>1. HolderOf(x) = <<a, k>> <=> a = x.account /\ x.kind = k
      BY DEF HolderOf
    <3>2. /\ Total(AmountsOf(u, <<a, k>>))
               = Total(AmountsOf(t, <<a, k>>)) + (IF HolderOf(x) = <<a, k>> THEN x.amount ELSE 0)
          /\ Total(AmountsOf(t, <<a, k>>)) \in Int
      BY EntryAppended
    <3>3. f[a] \in Int
      OBVIOUS
    <3> HIDE DEF u
    <3>4. QED BY <2>1, <3>1, <3>2, <3>3 DEF Moved
  <2>6. moved(t) \in [Accounts -> Int] /\ moved(u) \in [Accounts -> Int]
    BY <1>1, <2>1
  <2>7. moved(u)[x.account] = moved(t)[x.account] + d
        /\ \A a \in Accounts \ {x.account} : moved(u)[a] = moved(t)[a]
    <3>1. moved(u)[x.account] = moved(t)[x.account] + d
      BY <2>1, <2>5
    <3>2. ASSUME NEW a \in Accounts \ {x.account} PROVE moved(u)[a] = moved(t)[a]
      <4>1. moved(t)[a] \in Int
        BY <2>6
      <4> HIDE DEF moved, u, d
      <4>2. QED BY <2>5, <4>1
    <3>3. QED BY <3>1, <3>2
  <2> HIDE DEF moved, u, d
  <2>8. ASSUME NEW r, SumFold(r, moved(u), Accounts)
        PROVE  r[Accounts] = g[Accounts] + Total(AmountsOfKind(u, k))
    <3>1. r[Accounts] = s[Accounts] + d
      <4>1. OneMoves(moved(t), moved(u), x.account, d)
        BY <2>1, <2>6, <2>7 DEF OneMoves
      <4>2. QED BY <2>2, <2>8, <4>1, AccountMoves
    <3>2. QED BY <1>2, <2>1, <2>3, <2>4, <3>1
  <2>9. QED BY <2>1, <2>8 DEF u
<1>5. Seq(EntryRowSet) \subseteq T
  <2> HIDE DEF T
  <2>1. QED BY <1>3, <1>4, SeqInductive
<1>6. QED BY <1>2, <1>5

\* The same for any function that has the values of Moved.
LEMMA KindMoves ==
  ASSUME NEW es \in Seq(EntryRowSet), NEW k \in BalanceKinds,
         NEW f \in [Accounts -> Int], NEW g, SumFold(g, f, Accounts),
         NEW e \in [Accounts -> Int], NEW h, SumFold(h, e, Accounts),
         \A a \in Accounts : e[a] = f[a] + Total(AmountsOf(es, <<a, k>>))
  PROVE  g[Accounts] \in Int /\ h[Accounts] = g[Accounts] + Total(AmountsOfKind(es, k))
<1>1. e = Moved(f, es, k)
  BY DEF Moved
<1>2. QED BY <1>1, MovedAddsUp

\* PoolTotal adds the standings up over a fold of its own; SumFold names such folds.
LEMMA PoolTotalIsSum ==
  ASSUME NEW cache, NEW k, \A a \in Accounts : Standing(cache, <<a, k>>) \in Int
  PROVE  LET f == [a \in Accounts |-> Standing(cache, <<a, k>>)]
         IN  /\ f \in [Accounts -> Int]
             /\ \E g : SumFold(g, f, Accounts) /\ PoolTotal(cache, k) = g[Accounts]
<1> DEFINE f == [a \in Accounts |-> Standing(cache, <<a, k>>)]
           ch(S) == CHOOSE x \in S : TRUE
           iter(g) == g = [S \in SUBSET Accounts |->
                             IF S = {} THEN 0 ELSE Standing(cache, <<ch(S), k>>) + g[S \ {ch(S)}]]
           g == CHOOSE g : iter(g)
<1>1. f \in [Accounts -> Int]
  OBVIOUS
<1>2. PoolTotal(cache, k) = g[Accounts]
  BY DEF PoolTotal, MapThenSumSet, MapThenFoldSet
<1>3. \A h : SumFold(h, f, Accounts) <=> iter(h)
  <2>1. \A S \in SUBSET Accounts : S # {} => f[ch(S)] = Standing(cache, <<ch(S), k>>)
    OBVIOUS
  <2> HIDE DEF f
  <2>2. QED BY <2>1 DEF SumFold
<1>4. \E h : iter(h)
  <2>1. PICK h : SumFold(h, f, Accounts)
    <3> HIDE DEF f
    <3>1. QED BY AccountsAssumption, SumFoldExists
  <2> HIDE DEF iter
  <2>2. QED BY <1>3, <2>1
<1>5. iter(g)
  <2> HIDE DEF iter
  <2>1. QED BY <1>4
<1>6. SumFold(g, f, Accounts)
  BY <1>3, <1>5
<1>7. QED BY <1>1, <1>2, <1>6

\* A batch under SumZero or LargestRemainderSumsToDebit adds up to nothing in each kind.
LEMMA KindAddsUpToNothing ==
  ASSUME NEW r \in Requests, NEW inv, SumsToZero(r, inv), NEW k \in BalanceKinds, InScope(inv, k),
         NEW n \in Seqs
  PROVE  Total(AmountsOfKind(EntryRows(r, n), k)) = 0
<1>1. AmountsOfKind(EntryRows(r, n), k) = AmountsOfKind(r.entries, k)
  BY EntryRowsType DEF AmountsOfKind, HolderOf
<1>2. CASE k \in KindsIn(r.entries)
  BY <1>1, <1>2 DEF SumsToZero
<1>3. CASE k \notin KindsIn(r.entries)
  <2> DEFINE es == EntryRows(r, n)
  <2>1. es \in Seq(EntryRowSet) /\ DOMAIN es = DOMAIN r.entries /\ Len(es) = Len(r.entries)
    BY EntryRowsType
  <2>2. DOMAIN es = 1..Len(es) /\ Len(es) \in Nat
    BY <2>1, LenProperties
  <2>3. \A i \in 1..Len(es) : AmountsOfKind(r.entries, k)[i] = 0
    BY <1>3, <2>1, <2>2 DEF AmountsOfKind, KindsIn
  <2>4. AmountsOfKind(r.entries, k) \in [1..Len(es) -> Int]
    <3>1. AmountsOfKind(r.entries, k) = [i \in 1..Len(es) |-> AmountsOfKind(r.entries, k)[i]]
      BY <2>1, <2>2 DEF AmountsOfKind
    <3> HIDE DEF es
    <3>2. QED BY <2>3, <3>1
  <2>5. AmountsOfKind(r.entries, k) \in Seq(Int) /\ Len(AmountsOfKind(r.entries, k)) = Len(es)
    <3> HIDE DEF es
    <3>1. QED BY <2>2, <2>4
  <2>6. Total(AmountsOfKind(r.entries, k)) = 0
    BY <2>3, <2>5, TotalZero
  <2>7. QED BY <1>1, <2>6
<1>4. QED BY <1>2, <1>3

\* A batch committed under SumZero or LargestRemainderSumsToDebit leaves what all accounts
\* together hold of a balance kind as it was: points move between them, none appear or vanish.
THEOREM ZeroSumsConserved == Spec => ZeroSumConserves
<1>1. ASSUME BalanceInv, [Next]_vars, NEW p \in Pools, Committed(p), NEW inv \in tx.req.rules,
             inv.rule \in {"SumZero", "LargestRemainderSumsToDebit"},
             NEW k \in BalanceKinds, InScope(inv, k)
      PROVE  PoolTotal(snap'[p], k) = PoolTotal(snap[p], k)
  <2> DEFINE es == EntryRows(tx.req, ThisSeq)
             f == [a \in Accounts |-> Standing(snap[p], <<a, k>>)]
             e == [a \in Accounts |-> Standing(snap'[p], <<a, k>>)]
  <2>1. /\ tx.req \in Requests /\ ThisSeq \in Seqs
        /\ DeclaredHolds(tx.req, inv, Len(log[p]))
        /\ \A h \in Holders :
             /\ Standing(snap[p], h) \in Int /\ Delta(tx.req.entries, h) \in Int
             /\ Standing(snap'[p], h) = Standing(snap[p], h) + Delta(tx.req.entries, h)
    <3>1. ThisSeq \in Seqs
      BY <1>1, CommitMoves DEF Seqs
    <3>2. QED BY <1>1, <3>1, CommitMoves
  <2>2. SumsToZero(tx.req, inv)
    BY <1>1, <2>1 DEF DeclaredHolds
  <2>3. es \in Seq(EntryRowSet) /\ \A h : Delta(es, h) = Delta(tx.req.entries, h)
    BY <2>1, EntryRowsType, RowsKeepAmounts
  <2>4. Total(AmountsOfKind(es, k)) = 0
    BY <1>1, <2>1, <2>2, KindAddsUpToNothing
  <2>5. \A a \in Accounts : Delta(es, <<a, k>>) = Total(AmountsOf(es, <<a, k>>))
    BY <2>3, DeltaIsTotal
  <2>6. \A a \in Accounts : <<a, k>> \in Holders
    BY DEF Holders
  <2>7. \A a \in Accounts : /\ Standing(snap[p], <<a, k>>) \in Int
                             /\ Standing(snap'[p], <<a, k>>) \in Int
    BY <2>1, <2>6
  <2>8. \A a \in Accounts : e[a] = f[a] + Total(AmountsOf(es, <<a, k>>))
    <3> TAKE a \in Accounts
    <3>1. Standing(snap'[p], <<a, k>>) = Standing(snap[p], <<a, k>>) + Delta(tx.req.entries, <<a, k>>)
      BY <2>1, <2>6
    <3>2. QED BY <2>3, <2>5, <3>1
  <2>9. PICK g : SumFold(g, f, Accounts) /\ PoolTotal(snap[p], k) = g[Accounts]
    BY <2>7, PoolTotalIsSum
  <2>10. PICK h : SumFold(h, e, Accounts) /\ PoolTotal(snap'[p], k) = h[Accounts]
    BY <2>7, PoolTotalIsSum
  <2>11. f \in [Accounts -> Int] /\ e \in [Accounts -> Int]
    BY <2>7
  <2>12. h[Accounts] = g[Accounts] + Total(AmountsOfKind(es, k)) /\ g[Accounts] \in Int
    <3>1. SumFold(g, f, Accounts) /\ SumFold(h, e, Accounts) /\ k \in BalanceKinds
      BY <2>9, <2>10
    <3> HIDE DEF es, f, e
    <3>2. QED BY <2>3, <2>8, <2>11, <3>1, KindMoves
  <2>13. QED BY <2>4, <2>9, <2>10, <2>12
<1>2. BalanceInv /\ [Next]_vars =>
        [\A p \in Pools : Committed(p) =>
           \A inv \in tx.req.rules : inv.rule \in {"SumZero", "LargestRemainderSumsToDebit"} =>
             \A k \in {k \in BalanceKinds : InScope(inv, k)} :
               PoolTotal(snap'[p], k) = PoolTotal(snap[p], k)]_vars
  BY <1>1
<1>3. QED BY <1>2, RulesHeldAtCommit, PTL DEF Spec, ZeroSumConserves

\* What a batch declares holds of the standings it leaves.
THEOREM RulesHoldOfStandings == Spec => DeclaredRulesHold
BY FloorsGuarded, ZeroSumsConserved DEF DeclaredRulesHold

-----------------------------------------------------------------------------
(* What Commit decides, and over what.                                       *)

\* What a stored reversal names is in its own pool, so ux_batch_reverses, which spans all
\* pools, never refuses a batch for what another pool holds.
LinksStayHome ==
  \A p \in Pools : \A n \in DOMAIN log[p] :
    log[p][n].row.reverses # None => log[p][n].row.reverses[1] = p

\* Only a batch whose reversal target the checks found in its own pool is written.
LEMMA CommitStaysHome == ASSUME Inv, LinksStayHome, CommitBatch PROVE LinksStayHome'
<1>1. /\ tx.req \in Requests /\ ThisPool \in Pools /\ NewBatch \in StoredSet
      /\ log[ThisPool] \in Seq(StoredSet) /\ log \in [Pools -> Seq(StoredSet)]
      /\ UniversalHold(tx.req)
      /\ log' = [log EXCEPT ![ThisPool] = Append(log[ThisPool], NewBatch)]
  BY CommitEffect, OpenTransaction, NewBatchType DEF Inv, TypeOK
<1>2. NewBatch.row.reverses # None => NewBatch.row.reverses[1] = ThisPool
  <2>1. NewBatch.row.reverses = tx.req.reverses
    BY DEF NewBatch, Stored, BatchRow, BatchColumns
  <2>2. QED BY <1>1, <2>1 DEF UniversalHold, ReversalLinkage, ThisPool
<1>3. ASSUME NEW p \in Pools, NEW n \in DOMAIN log'[p], log'[p][n].row.reverses # None
      PROVE  log'[p][n].row.reverses[1] = p
  <2>1. CASE p = ThisPool
    <3>1. /\ log'[p] = Append(log[p], NewBatch) /\ Len(log[p]) \in Nat
          /\ DOMAIN log[p] = 1..Len(log[p]) /\ DOMAIN log'[p] = 1..(Len(log[p]) + 1)
          /\ log'[p][Len(log[p]) + 1] = NewBatch
          /\ \A i \in 1..Len(log[p]) : log'[p][i] = log[p][i]
      BY <1>1, <2>1, AppendProperties, LenProperties
    <3>2. n \in 1..Len(log[p]) \/ n = Len(log[p]) + 1
      BY <1>3, <3>1
    <3>3. QED BY <1>2, <1>3, <2>1, <3>1, <3>2 DEF LinksStayHome
  <2>2. CASE p # ThisPool
    BY <1>1, <1>3, <2>2 DEF LinksStayHome
  <2>3. QED BY <2>1, <2>2
<1>4. QED BY <1>3 DEF LinksStayHome

\* The invariant the decisions rest on.
DecisionInv == BalanceInv /\ LinksStayHome

\* It holds after any history.
LEMMA DecisionInvHolds == Spec => []DecisionInv
<1>1. Init => LinksStayHome
  BY DEF Init, LinksStayHome
<1>2. BalanceInv /\ LinksStayHome /\ [Next]_vars => LinksStayHome'
  <2>1. LinksStayHome /\ UNCHANGED tables => LinksStayHome'
    BY DEF tables, LinksStayHome
  <2>2. QED BY <2>1, OnlyCommitWrites, CommitStaysHome DEF BalanceInv
<1>3. QED BY <1>1, <1>2, RulesHeldAtCommit, PTL DEF Spec, DecisionInv

\* What the statements of a commit check between them: the rules, the indexes, the upserts.
Accepts(r) ==
  /\ InvariantsHold(r, Len(log[r.pool]))
  /\ UniqueIndexesAdmit(r)
  /\ UpsertAdmitted(snap[r.pool], r.entries)

\* A holder of the batch has an account and a kind of the pool, and moves an integer.
LEMMA TouchedHolder ==
  ASSUME NEW r \in Requests, NEW h \in Touched(r.entries)
  PROVE  /\ h \in Holders /\ h[1] \in Accounts /\ h[2] \in KindsIn(r.entries)
         /\ Delta(r.entries, h) \in Int
<1>1. r.entries \in Seq(EntryProposals)
  BY RequestType
<1>2. PICK i \in DOMAIN r.entries : h = HolderOf(r.entries[i])
  BY DEF Touched
<1>3. r.entries[i] \in EntryProposals
  BY <1>1, ElementOfSeq, LenProperties
<1>4. h \in Holders /\ h[1] \in Accounts /\ h[2] \in KindsIn(r.entries)
  BY <1>2, <1>3 DEF HolderOf, EntryProposals, Holders, KindsIn
<1>5. Delta(r.entries, h) \in Int
  <2>1. 1 \in Seqs
    BY DEF Seqs
  <2>2. EntryRows(r, 1) \in Seq(EntryRowSet) /\ Delta(EntryRows(r, 1), h) = Delta(r.entries, h)
    BY <2>1, EntryRowsType, RowsKeepAmounts
  <2>3. QED BY <2>2, DeltaType
<1>6. QED BY <1>4, <1>5

\* The log at the head and the cache both say what the history adds up to.
LEMMA HeldByEither ==
  ASSUME Inv, CacheIsFold, NEW p \in Pools, NEW h \in Holders
  PROVE  /\ HeldBy(History(p), h) = BalanceAsOfSeq(p, h, Len(log[p]))
         /\ HeldBy(History(p), h) = CachedAmount(snap[p][h])
<1>1. log[p] \in Seq(StoredSet) /\ Len(log[p]) \in Nat /\ DOMAIN log[p] = 1..Len(log[p])
  BY LenProperties DEF Inv, TypeOK
<1>2. Len(History(p)) = Len(log[p]) /\ \A n \in 1..Len(log[p]) :
         History(p)[n].entries = log[p][n].entries
  BY <1>1 DEF History
<1>3. HeldBy(History(p), h) = FoldOf(log[p], h)
  <2>1. [n \in 1..Len(History(p)) |-> Delta(History(p)[n].entries, h)]
          = [n \in 1..Len(log[p]) |-> Delta(log[p][n].entries, h)]
    BY <1>2
  <2>2. QED BY <2>1 DEF HeldBy, FoldOf
<1>4. snap[p][h] = FoldedRow(log[p], h)
  BY CacheIsFolded
<1>5. CachedAmount(snap[p][h]) = FoldOf(log[p], h)
  <2>1. CASE RowsOf(log[p], h) = {}
    <3>1. FoldOf(log[p], h) = 0
      BY <1>1, <2>1, FoldOfNothing
    <3>2. QED BY <1>4, <2>1, <3>1 DEF FoldedRow, CachedAmount
  <2>2. CASE RowsOf(log[p], h) # {}
    <3>1. FoldedRow(log[p], h) # None
      BY <1>1, <2>2, FoldedRowIsRow
    <3>2. QED BY <1>4, <2>2, <3>1 DEF FoldedRow, CachedAmount
  <2>3. QED BY <2>1, <2>2
<1>6. QED BY <1>3, <1>5 DEF FoldOf, BalanceAsOfSeq

\* checkUniversal's linkage and the UNIQUE indexes, read over the history of one pool.
LEMMA LinksAdmit ==
  ASSUME Inv, LinksStayHome, NEW r \in Requests
  PROVE  /\ ReversalLinkage(r) <=> NamesItsTarget(History(r.pool), r)
         /\ ReversalLinkage(r) =>
              (UniqueIndexesAdmit(r) <=> UsesNothingTwice(History(r.pool), r))
<1> DEFINE s == History(r.pool)
<1>1. /\ r.pool \in Pools /\ DOMAIN s = DOMAIN log[r.pool]
      /\ \A n \in DOMAIN log[r.pool] :
           /\ s[n].id = <<r.pool, n>> /\ s[n].key = log[r.pool][n].row.key
           /\ s[n].ref = log[r.pool][n].row.ref /\ s[n].reverses = log[r.pool][n].row.reverses
  BY RequestType DEF History
<1> HIDE DEF s
<1>2. ReversalLinkage(r) <=> NamesItsTarget(s, r)
  BY <1>1 DEF ReversalLinkage, NamesItsTarget, KindReversal
<1>3. ASSUME ReversalLinkage(r) PROVE UniqueIndexesAdmit(r) <=> UsesNothingTwice(s, r)
  <2>1. ASSUME r.reverses # None, NEW q \in Pools, q # r.pool, NEW n \in DOMAIN log[q]
        PROVE  log[q][n].row.reverses # r.reverses
    <3>1. r.reverses[1] = r.pool
      BY <1>3, <2>1 DEF ReversalLinkage
    <3>2. QED BY <2>1, <3>1 DEF LinksStayHome
  <2>2. UniqueIndexesAdmit(r) => UsesNothingTwice(s, r)
    BY <1>1 DEF UniqueIndexesAdmit, UsesNothingTwice
  <2>3. UsesNothingTwice(s, r) => UniqueIndexesAdmit(r)
    BY <1>1, <2>1 DEF UniqueIndexesAdmit, UsesNothingTwice
  <2>4. QED BY <2>2, <2>3
<1>4. QED BY <1>2, <1>3 DEF s

\* What upsertSnapshots refuses, read over the history.
LEMMA UpsertsAdmit ==
  ASSUME Inv, CacheIsFold, NEW r \in Requests
  PROVE  UpsertAdmitted(snap[r.pool], r.entries) <=>
           \A h \in Touched(r.entries) :
             /\ RunsInRange(AmountsOf(r.entries, h))
             /\ HeldBy(History(r.pool), h) + Delta(r.entries, h) \in Cp
<1>1. r.pool \in Pools
  BY RequestType
<1>2. \A h \in Touched(r.entries) : CachedAmount(snap[r.pool][h]) = HeldBy(History(r.pool), h)
  BY <1>1, TouchedHolder, HeldByEither
<1>3. QED BY <1>2 DEF UpsertAdmitted

\* A declared rule holds of the log at the head as it does of the history, for a batch whose
\* every holder ends within the integers.
LEMMA RulesAdmit ==
  ASSUME Inv, CacheIsFold, NEW r \in Requests, Representable(History(r.pool), r.entries),
         NEW inv \in r.rules
  PROVE  DeclaredHolds(r, inv, Len(log[r.pool])) <=>
           RuleAdmits(History(r.pool), Persons, r.entries, inv)
<1> DEFINE s == History(r.pool)
           es == r.entries
           scope == {k \in KindsIn(es) : inv.scope \in {None, k}}
           headSeq == Len(log[r.pool])
           floor == inv.floor # None /\ \A h \in Touched(es) :
                      h[1] \in Persons /\ h[2] \in scope /\ Delta(es, h) < 0 =>
                        HeldBy(s, h) + Delta(es, h) >= inv.floor
           sums == \A k \in scope : RunsInRange(AmountsOfKind(es, k)) /\ Total(AmountsOfKind(es, k)) = 0
<1>1. r.pool \in Pools
  BY RequestType
<1>2. \A h \in Touched(es) :
        /\ h[2] \in KindsIn(es) /\ RunsInRange(AmountsOf(es, h))
        /\ HeldBy(s, h) = BalanceAsOfSeq(r.pool, h, headSeq)
        /\ HeldBy(s, h) + Delta(es, h) \in Cp
        /\ h[1] \notin SystemAccounts <=> h[1] \in Persons
  <2> TAKE h \in Touched(es)
  <2>1. h \in Holders /\ h[1] \in Accounts /\ h[2] \in KindsIn(es)
    BY TouchedHolder
  <2>2. HeldBy(s, h) = BalanceAsOfSeq(r.pool, h, headSeq)
    BY <1>1, <2>1, HeldByEither
  <2>3. h[1] \notin SystemAccounts <=> h[1] \in Persons
    BY <2>1, AccountsAssumption DEF Accounts
  <2>4. QED BY <2>1, <2>2, <2>3 DEF Representable
<1>3. \A h \in Touched(es) : InScope(inv, h[2]) <=> h[2] \in scope
  BY <1>2 DEF InScope
<1>4. FloorHolds(r, inv, headSeq) <=> floor
  <2> HIDE DEF s, headSeq, scope
  <2>1. ASSUME FloorHolds(r, inv, headSeq) PROVE floor
    BY <1>2, <1>3, <2>1 DEF FloorHolds
  <2>2. ASSUME floor PROVE FloorHolds(r, inv, headSeq)
    BY <1>2, <1>3, <2>2 DEF FloorHolds
  <2>3. QED BY <2>1, <2>2
<1>5. SumsToZero(r, inv) <=> sums
  BY DEF SumsToZero, InScope
<1>6. (inv.scope # None => inv.scope \in KindsIn(es)) <=> (inv.scope # None => scope # {})
  OBVIOUS
<1>7. RuleAdmits(s, Persons, es, inv) <=>
        /\ inv.scope # None => scope # {}
        /\ \/ inv.rule \in {"SumZero", "LargestRemainderSumsToDebit"} /\ sums
           \/ inv.rule = "NonNegative" /\ floor
  BY DEF RuleAdmits
<1> HIDE DEF floor, sums, scope
<1>8. QED BY <1>4, <1>5, <1>6, <1>7 DEF DeclaredHolds

\* The checks of a commit, spread over three statements that read the log, the indexes and
\* the cache, accept exactly what the history of the pool admits.
LEMMA AcceptsIsAdmitted ==
  ASSUME Inv, CacheIsFold, LinksStayHome, NEW r \in Requests
  PROVE  Accepts(r) <=> Admitted(r)
<1> DEFINE s == History(r.pool)
<1>1. Representable(s, r.entries) <=>
        RunsInRange(Amounts(r.entries)) /\ UpsertAdmitted(snap[r.pool], r.entries)
  BY UpsertsAdmit DEF Representable
<1>2. /\ ReversalLinkage(r) <=> NamesItsTarget(s, r)
      /\ ReversalLinkage(r) => (UniqueIndexesAdmit(r) <=> UsesNothingTwice(s, r))
  BY LinksAdmit
<1>3. Representable(s, r.entries) =>
        \A inv \in r.rules : DeclaredHolds(r, inv, Len(log[r.pool])) <=>
                               RuleAdmits(s, Persons, r.entries, inv)
  BY RulesAdmit
<1> HIDE DEF s
<1>4. Accepts(r) => Admits(s, accounts, Persons, r)
  BY <1>1, <1>2, <1>3 DEF Accepts, InvariantsHold, UniversalHold, Admits
<1>5. Admits(s, accounts, Persons, r) => Accepts(r)
  BY <1>1, <1>2, <1>3 DEF Accepts, InvariantsHold, UniversalHold, Admits
<1>6. QED BY <1>4, <1>5 DEF Admitted, s

\* A refusal is one of the three statements finding a check that fails.
LEMMA RefusalHasCause == ASSUME Inv, [Next]_vars, Refused PROVE ~Accepts(tx.req)
<1>1. /\ tx.stage # "idle" /\ tx.req \in Requests /\ tx'.stage = "idle"
      /\ reply' = Refusal(tx.req) /\ tx \in Transactions
  BY DEF Refused, Inv, WriteSet, TypeOK
<1>2. reply' # NoReply /\ reply'.seq = None
  BY <1>1, NoneAssumption DEF Refusal, NoReply
<1>3. /\ ThisPool \in Pools /\ ThisSeq \in Seqs /\ ThisSeq = Len(log[ThisPool]) + 1
      /\ Len(log[ThisPool]) \in Nat
  BY <1>1, OpenTransaction, LenProperties DEF Refused
<1>4. CASE CheckInvariants
  <2>1. ~InvariantsHold(tx.req, ThisSeq - 1)
    BY <1>1, <1>4 DEF CheckInvariants, Advance, ThisSeq, ThisPool, Transactions
  <2>2. QED BY <1>3, <2>1 DEF Accepts, ThisPool
<1>5. CASE InsertBatch
  BY <1>1, <1>5 DEF InsertBatch, Advance, Transactions, Accepts
<1>6. CASE UpsertSnapshots
  <2>1. tx.stage = "snapshots" /\ ~UpsertAdmitted(snap[ThisPool], tx.entries)
    BY <1>1, <1>6 DEF UpsertSnapshots, Advance, Transactions, ThisPool
  <2>2. tx.entries = EntryRows(tx.req, ThisSeq)
    BY <2>1 DEF Inv, WriteSet, Past
  <2>3. /\ Touched(tx.entries) = Touched(tx.req.entries)
        /\ \A h : Delta(tx.entries, h) = Delta(tx.req.entries, h)
        /\ \A h : AmountsOf(tx.entries, h) = AmountsOf(tx.req.entries, h)
    BY <1>1, <1>3, <2>2, RowsKeepAmounts
  <2>4. QED BY <2>1, <2>3 DEF Accepts, UpsertAdmitted, ThisPool
<1>7. ~CommitReplay /\ ~Fault
  BY <1>2 DEF CommitReplay, Fault
<1>8. ~CommitBatch
  <2>1. CommitBatch => reply'.seq = tx.batch.row.seq /\ tx.batch.row.seq = ThisSeq
    BY <1>2 DEF CommitBatch, Inv, WriteSet, Past, BatchRow, BatchColumns
  <2>2. ThisSeq # None
    BY <1>3, NoneAssumption DEF Seqs
  <2>3. QED BY <1>2, <2>1, <2>2
<1>9. CheckInvariants \/ InsertBatch \/ UpsertSnapshots \/ CommitReplay \/ CommitBatch \/ Fault
  BY <1>1 DEF Next, Statement, vars, CreateAccount, Begin, RejectInvalid, FindReplay, Advance,
     InsertEntries, WriteAudit, WriteOutboxEvent, WriteHeads, Transactions
<1>10. QED BY <1>4, <1>5, <1>6, <1>7, <1>8, <1>9

\* What commits has passed every check, against the tables as they still are.
LEMMA CommitAccepted == ASSUME Inv, RulesHeld, CommitBatch PROVE Accepts(tx.req)
<1>1. /\ tx.req \in Requests /\ ThisPool \in Pools /\ ThisSeq = Len(log[ThisPool]) + 1
      /\ ThisSeq \in Seqs /\ Len(log[ThisPool]) \in Nat
      /\ UniversalHold(tx.req) /\ UniqueIndexesAdmit(tx.req)
  BY CommitEffect, OpenTransaction, LenProperties
<1>2. \A inv \in tx.req.rules : DeclaredHolds(tx.req, inv, Len(log[ThisPool]))
  <2>1. \A inv \in tx.req.rules : DeclaredHolds(tx.req, inv, ThisSeq - 1)
    BY DEF RulesHeld, Past, CommitBatch
  <2>2. QED BY <1>1, <2>1
<1>3. UpsertAdmitted(snap[ThisPool], tx.req.entries)
  <2>1. UpsertAdmitted(snap[ThisPool], tx.entries) /\ tx.entries = EntryRows(tx.req, ThisSeq)
    BY DEF CommitBatch, Inv, WriteSet, Past
  <2>2. QED BY <1>1, <2>1, RowsKeepAmounts DEF UpsertAdmitted
<1>4. QED BY <1>1, <1>2, <1>3 DEF Accepts, InvariantsHold, ThisPool

\* Past validate, Commit refuses no request its pool's history admits and commits none it does not:
\* the cache, the indexes, the other pools and the order of the checks make no difference.
THEOREM DecisionsExact == Spec => DecidesOnHistory
<1>1. ASSUME DecisionInv, [Next]_vars, Refused PROVE ~Admitted(tx.req)
  <2>1. tx.req \in Requests
    BY <1>1 DEF DecisionInv, BalanceInv, Inv, WriteSet, Refused
  <2>2. QED BY <1>1, <2>1, RefusalHasCause, AcceptsIsAdmitted DEF DecisionInv, BalanceInv
<1>2. ASSUME DecisionInv, [Next]_vars, NEW p \in Pools, Committed(p) PROVE Admitted(tx.req)
  <2>1. CommitBatch /\ tx.req \in Requests
    BY <1>2, CommitMoves DEF DecisionInv
  <2>2. QED BY <1>2, <2>1, CommitAccepted, AcceptsIsAdmitted DEF DecisionInv, BalanceInv
<1>3. DecisionInv /\ [Next]_vars =>
        [(Refused => ~Admitted(tx.req)) /\ \A p \in Pools : Committed(p) => Admitted(tx.req)]_vars
  BY <1>1, <1>2
<1>4. QED BY <1>3, DecisionInvHolds, PTL DEF Spec, DecidesOnHistory
=============================================================================
