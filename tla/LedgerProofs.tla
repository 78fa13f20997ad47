----------------------------- MODULE LedgerProofs -----------------------------
(***************************************************************************)
(* Theorems about the commit path, for every set of pools, accounts and    *)
(* requests and every integer width.  Sums are opaque here: nothing below  *)
(* unfolds a fold, so the cache is shown to move by what each batch sums to*)
(* and BalanceProofs shows what the sums come to.                          *)
(***************************************************************************)
EXTENDS LedgerProperties, SequenceTheorems, FiniteSetTheorems, TLAPS

-----------------------------------------------------------------------------
(* Requests and the rows made from them.                                     *)

\* A request's fields have the types RequestsAssumption gives them.
LEMMA RequestType ==
  ASSUME NEW r \in Requests
  PROVE  /\ r.pool \in Pools /\ r.kind \in BatchKinds \cup {"unknown"}
         /\ r.reverses \in BatchIds \cup {None} /\ r.key \in Keys \cup {EmptyKey, None}
         /\ r.ref \in SourceRefs \cup {None} /\ r.entries \in Seq(EntryProposals)
  BY RequestsAssumption

\* materialise gives the entry rows their table's type, one per proposed entry.
LEMMA EntryRowsType ==
  ASSUME NEW r \in Requests, NEW n \in Seqs
  PROVE  /\ EntryRows(r, n) \in Seq(EntryRowSet)
         /\ DOMAIN EntryRows(r, n) = DOMAIN r.entries
         /\ Len(EntryRows(r, n)) = Len(r.entries)
         /\ \A i \in DOMAIN r.entries :
              /\ EntryRows(r, n)[i].pool = r.pool /\ EntryRows(r, n)[i].seq = n
              /\ HolderOf(EntryRows(r, n)[i]) = HolderOf(r.entries[i])
              /\ EntryRows(r, n)[i].amount = r.entries[i].amount
<1> DEFINE es == EntryRows(r, n)
<1>1. r.pool \in Pools /\ r.entries \in Seq(EntryProposals)
  BY RequestType
<1>2. \A i \in DOMAIN r.entries : es[i] \in EntryRowSet
  <2> TAKE i \in DOMAIN r.entries
  <2>1. r.entries[i] \in EntryProposals
    BY <1>1, LenProperties, ElementOfSeq
  <2>2. QED
    BY <1>1, <2>1 DEF EntryRows, EntryRowSet, EntryProposals
<1>3. DOMAIN es = 1..Len(r.entries) /\ Len(r.entries) \in Nat
  BY <1>1 DEF EntryRows
<1>4. es \in Seq(EntryRowSet) /\ Len(es) = Len(r.entries)
  <2>1. es \in [1..Len(r.entries) -> EntryRowSet]
    BY <1>1, <1>2, <1>3 DEF EntryRows
  <2>2. QED
    BY <2>1, <1>3
<1>5. QED
  BY <1>1, <1>3, <1>4 DEF EntryRows, HolderOf

\* Writing the rows changes neither the amounts of the proposal nor any holder's share.
LEMMA RowsKeepAmounts ==
  ASSUME NEW r \in Requests, NEW n \in Seqs
  PROVE  /\ Amounts(EntryRows(r, n)) = Amounts(r.entries)
         /\ \A h : AmountsOf(EntryRows(r, n), h) = AmountsOf(r.entries, h)
         /\ \A h : Delta(EntryRows(r, n), h) = Delta(r.entries, h)
         /\ Touched(EntryRows(r, n)) = Touched(r.entries)
<1>1. Amounts(EntryRows(r, n)) = Amounts(r.entries)
  BY EntryRowsType DEF Amounts
<1>2. \A h : AmountsOf(EntryRows(r, n), h) = AmountsOf(r.entries, h)
  BY EntryRowsType DEF AmountsOf
<1>3. Touched(EntryRows(r, n)) = Touched(r.entries)
  BY EntryRowsType DEF Touched
<1>4. QED
  BY <1>1, <1>2, <1>3 DEF Delta

\* A sum all of whose running sums are representable is representable.
LEMMA TotalInRange ==
  ASSUME NEW s \in Seq(Int), s # <<>>, RunsInRange(s)
  PROVE  Total(s) \in Cp
<1>1. Len(s) \in 1..Len(s)
  BY EmptySeq
<1>2. SubSeq(s, 1, Len(s)) = s
  BY SubSeqFull
<1>3. QED
  BY <1>1, <1>2 DEF RunsInRange

\* The row materialise and write build for an admissible request is a ledger_batch row.
LEMMA BatchRowType ==
  ASSUME NEW r \in Requests, ValidRequest(r), UniversalHold(r), NEW n \in Seqs,
         NEW prev \in LedgerHashes
  PROVE  BatchRow(r, n, prev) \in BatchRowSet
<1>1. /\ r.pool \in Pools /\ r.kind \in BatchKinds /\ r.reverses \in BatchIds \cup {None}
      /\ r.key \in Keys \cup {None} /\ r.ref \in SourceRefs \cup {None}
      /\ r.entries \in Seq(EntryProposals)
  BY RequestType DEF ValidRequest
<1>2. r.entries # <<>> /\ RunsInRange(Amounts(r.entries))
  BY DEF UniversalHold
<1>3. Len(r.entries) \in Seqs
  BY <1>1, <1>2, EmptySeq DEF Seqs
<1>4. Total(Amounts(r.entries)) \in Cp
  <2>1. \A i \in 1..Len(r.entries) : r.entries[i].amount \in Int
    <3> TAKE i \in 1..Len(r.entries)
    <3>1. r.entries[i] \in EntryProposals
      BY <1>1, ElementOfSeq
    <3>2. QED
      BY <3>1 DEF EntryProposals, Cp
  <2>2. Amounts(r.entries) \in [1..Len(r.entries) -> Int]
    BY <1>1, <2>1 DEF Amounts
  <2>3. Amounts(r.entries) \in Seq(Int) /\ Amounts(r.entries) # <<>>
    BY <1>3, <2>2 DEF Seqs
  <2>4. QED
    BY <1>2, <2>3, TotalInRange
<1>5. BatchColumns(r, n) \in BatchColumnSet
  BY <1>1, <1>3, <1>4 DEF BatchColumns, BatchColumnSet
<1>6. BatchHash(prev, BatchColumns(r, n), EntryRows(r, n)) \in LedgerHashes
  BY <1>5, EntryRowsType DEF BatchHash, LedgerHashes
<1>7. QED
  BY <1>5, <1>6 DEF BatchRow, BatchRowSet

\* The upserts leave a well-typed cache: the STRICT column refused any other.
LEMMA UpsertedType ==
  ASSUME NEW cache \in Caches, NEW es \in Seq(EntryRowSet), NEW n \in Seqs,
         UpsertAdmitted(cache, es)
  PROVE  /\ Upserted(cache, es, n) \in Caches
         /\ \A h \in Holders : h \in Touched(es) => Upserted(cache, es, n)[h] \in SnapshotRowSet
<1> DEFINE rows(h) == {i \in DOMAIN es : HolderOf(es[i]) = h}
<1>1. ASSUME NEW h \in Holders, h \in Touched(es)
      PROVE  CachedCount(cache[h]) + Cardinality(rows(h)) \in Seqs
  <2>1. IsFiniteSet(rows(h)) /\ rows(h) # {}
    <3>1. IsFiniteSet(DOMAIN es)
      BY FS_Interval
    <3>2. QED
      BY <3>1, <1>1, FS_Subset DEF Touched
  <2>2. Cardinality(rows(h)) \in Nat /\ Cardinality(rows(h)) # 0
    BY <2>1, FS_CardinalityType, FS_EmptySet
  <2>3. CachedCount(cache[h]) \in Nat
    BY DEF Caches, SnapshotRowSet, CachedCount, Seqs
  <2>4. QED
    BY <2>2, <2>3 DEF Seqs
<1>2. ASSUME NEW h \in Holders, h \in Touched(es)
      PROVE  CachedAmount(cache[h]) + Delta(es, h) \in Cp
  BY <1>2 DEF UpsertAdmitted
<1>3. \A h \in Holders : cache[h] \in SnapshotRowSet \cup {None}
  BY DEF Caches
<1>4. QED
  BY <1>1, <1>2, <1>3 DEF Upserted, Caches, SnapshotRowSet

-----------------------------------------------------------------------------
(* The inductive invariant: what the write set holds at every statement.     *)

Written == {"insert", "entries", "snapshots", "audit", "outbox", "heads"}

\* The transaction is past the statements outside later, and is not a replay.
Past(later) == tx.stage \in later \/ (tx.stage = "commit" /\ tx.found = None)
ThisPool == tx.req.pool
ThisSeq == NextPoolSeq(ThisPool)

WriteSet ==
  /\ tx.stage # "idle" => tx.req \in Requests /\ ValidRequest(tx.req)
  /\ tx.found # None =>
       /\ tx.stage = "commit" /\ tx.found \in DOMAIN log[ThisPool]
       /\ tx.req.key # None /\ log[ThisPool][tx.found].row.key = tx.req.key
  /\ Past(Written \cup {"check"}) => ~KeyCommitted(tx.req)
  /\ Past(Written) => UniversalHold(tx.req)
  /\ Past(Written \ {"insert"}) => UniqueIndexesAdmit(tx.req)
  /\ Past(Written \ {"insert"}) => tx.batch = BatchRow(tx.req, ThisSeq, head[ThisPool])
  /\ Past({"snapshots", "audit", "outbox", "heads"}) => tx.entries = EntryRows(tx.req, ThisSeq)
  /\ Past({"audit", "outbox", "heads"}) =>
       /\ UpsertAdmitted(snap[ThisPool], tx.entries)
       /\ tx.cache = Upserted(snap[ThisPool], tx.entries, ThisSeq)
  /\ Past({"outbox", "heads"}) =>
       tx.audit = AuditRow(Len(audit) + 1, <<ThisPool, ThisSeq>>, auditHead)
  /\ Past({"heads"}) => tx.event = <<ThisPool, ThisSeq>>
  /\ Past({}) => tx.heads = [ledger |-> tx.batch.hash, audit |-> tx.audit.hash]

Inv == TypeOK /\ WriteSet

\* No transaction is open at the start.
LEMMA InitWriteSet == Init => WriteSet
  BY NoneAssumption DEF Init, WriteSet, Past, Written, Idle

\* Every step keeps what the write set holds: Advance adds a field, everything else ends
\* the transaction or runs without one.
LEMMA StepWriteSet == Inv /\ [Next]_vars => WriteSet'
<1> SUFFICES ASSUME Inv, [Next]_vars PROVE WriteSet'
  OBVIOUS
<1> USE NoneAssumption DEF Inv, WriteSet, Past, Written, ThisPool, ThisSeq
<1>1. ASSUME UNCHANGED committed, UNCHANGED tx PROVE WriteSet'
  BY <1>1 DEF committed, NextPoolSeq, KeyCommitted, UniversalHold, ReversalLinkage,
        UniqueIndexesAdmit
<1>2. ASSUME tx' = Idle PROVE WriteSet'
  BY <1>2 DEF Idle
<1>3. ASSUME NEW a \in Persons, CreateAccount(a) PROVE WriteSet'
  <2>1. tx.stage = "idle" /\ tx' = tx
    BY <1>3 DEF CreateAccount
  <2>2. tx.found = None
    BY <2>1
  <2>3. QED
    BY <2>1, <2>2
<1>4. ASSUME NEW r \in Requests, Begin(r) PROVE WriteSet'
  BY <1>4 DEF Begin, Idle, KeyCommitted
<1>5. CASE FindReplay
  <2>1. ASSUME NEW n \in DOMAIN log[ThisPool], log[ThisPool][n].row.key = tx.req.key,
               tx.stage = "replay", KeyCommitted(tx.req), UNCHANGED committed,
               tx' = [tx EXCEPT !.stage = "commit", !.found = n]
        PROVE  WriteSet'
    <3>1. /\ tx'.stage = "commit" /\ tx'.req = tx.req /\ tx'.found = n /\ log' = log
      BY <2>1 DEF TypeOK, Transactions, committed
    <3>2. tx.req \in Requests /\ ValidRequest(tx.req) /\ tx.req.key # None
      BY <2>1 DEF KeyCommitted
    <3>3. n # None
      BY <3>2, RequestType DEF TypeOK
    <3>4. QED
      BY <2>1, <3>1, <3>2, <3>3 DEF ValidRequest
  <2>2. ASSUME tx.stage = "replay", ~KeyCommitted(tx.req), UNCHANGED committed,
               tx' = [tx EXCEPT !.stage = "check"]
        PROVE  WriteSet'
    BY <2>2 DEF TypeOK, Transactions, committed, ValidRequest, KeyCommitted
  <2>3. QED
    BY <1>5, <2>1, <2>2 DEF FindReplay, Advance
<1>6. CASE CheckInvariants
  <2>1. CASE Refuse
    BY <2>1, <1>2 DEF Refuse
  <2>2. CASE /\ tx.stage = "check" /\ UniversalHold(tx.req) /\ UNCHANGED committed
             /\ tx' = [tx EXCEPT !.stage = "insert"]
    BY <2>2 DEF committed, TypeOK, Transactions, KeyCommitted, UniversalHold, ReversalLinkage
  <2>3. QED
    BY <1>6, <2>1, <2>2 DEF CheckInvariants, InvariantsHold, Advance
<1>7. CASE InsertBatch
  <2>1. CASE Refuse
    BY <2>1, <1>2 DEF Refuse
  <2>2. CASE /\ tx.stage = "insert" /\ UniqueIndexesAdmit(tx.req) /\ UNCHANGED committed
             /\ tx' = [tx EXCEPT !.stage = "entries",
                                 !.batch = BatchRow(tx.req, ThisSeq, head[ThisPool])]
    BY <2>2, SMTT(30) DEF committed, TypeOK, Transactions, KeyCommitted, UniversalHold,
       ReversalLinkage, UniqueIndexesAdmit, NextPoolSeq
  <2>3. QED
    BY <1>7, <2>1, <2>2 DEF InsertBatch, Advance
<1>8. ASSUME UNCHANGED committed, tx'.req = tx.req
      PROVE  /\ ThisPool' = ThisPool /\ ThisSeq' = ThisSeq
             /\ head' = head /\ snap' = snap /\ audit' = audit /\ auditHead' = auditHead
             /\ ~KeyCommitted(tx.req) => ~KeyCommitted(tx.req)'
             /\ UniversalHold(tx.req) => UniversalHold(tx.req)'
             /\ UniqueIndexesAdmit(tx.req) => UniqueIndexesAdmit(tx.req)'
             /\ \A es : UpsertAdmitted(snap[ThisPool], es) => UpsertAdmitted(snap'[ThisPool'], es)
  BY <1>8 DEF committed, NextPoolSeq, KeyCommitted, UniversalHold, ReversalLinkage,
        UniqueIndexesAdmit
<1>9. CASE InsertEntries
  <2>0. tx.batch.row.seq = ThisSeq
    BY <1>9 DEF InsertEntries, BatchRow, BatchColumns
  <2>1. /\ tx.stage = "entries" /\ UNCHANGED committed
        /\ tx' = [tx EXCEPT !.stage = "snapshots", !.entries = EntryRows(tx.req, ThisSeq)]
    BY <1>9, <2>0 DEF InsertEntries, Advance
  <2>2. /\ tx'.stage = "snapshots" /\ tx'.entries = EntryRows(tx.req, ThisSeq)
        /\ UNCHANGED <<tx.req, tx.found, tx.batch, tx.cache, tx.audit, tx.event, tx.heads>>
    BY <2>1 DEF TypeOK, Transactions
  <2>3. tx.found = None
    BY <2>1
  <2>4. QED
    BY <1>8, <2>1, <2>2, <2>3
<1>10. CASE UpsertSnapshots
  <2>1. CASE Refuse
    BY <2>1, <1>2 DEF Refuse
  <2>2. CASE ~Refuse
    <3>1. tx.batch.row.seq = ThisSeq
      BY <1>10, <2>2 DEF UpsertSnapshots, BatchRow, BatchColumns
    <3>2. /\ tx.stage = "snapshots" /\ UNCHANGED committed
          /\ UpsertAdmitted(snap[ThisPool], tx.entries)
          /\ tx' = [tx EXCEPT !.stage = "audit",
                              !.cache = Upserted(snap[ThisPool], tx.entries, ThisSeq)]
      BY <1>10, <2>2, <3>1 DEF UpsertSnapshots, Advance
    <3>3. QED
      BY <1>8, <3>2 DEF TypeOK, Transactions
  <2>3. QED
    BY <2>1, <2>2
<1>11. CASE WriteAudit
  <2>0. tx.batch.row.seq = ThisSeq /\ tx.batch.row.pool = ThisPool
    BY <1>11 DEF WriteAudit, BatchRow, BatchColumns
  <2>1. /\ tx.stage = "audit" /\ UNCHANGED committed
        /\ tx' = [tx EXCEPT !.stage = "outbox",
              !.audit = AuditRow(Len(audit) + 1, <<ThisPool, ThisSeq>>, auditHead)]
    BY <1>11, <2>0 DEF WriteAudit, Advance
  <2>2. /\ tx'.stage = "outbox" /\ tx'.audit = AuditRow(Len(audit) + 1, <<ThisPool, ThisSeq>>, auditHead)
        /\ UNCHANGED <<tx.req, tx.found, tx.batch, tx.entries, tx.cache, tx.event, tx.heads>>
    BY <2>1 DEF TypeOK, Transactions
  <2>3. tx.found = None
    BY <2>1
  <2>4. QED
    BY <1>8, <2>1, <2>2, <2>3
<1>12. CASE WriteOutboxEvent
  <2>0. tx.batch.row.seq = ThisSeq /\ tx.batch.row.pool = ThisPool
    BY <1>12 DEF WriteOutboxEvent, BatchRow, BatchColumns
  <2>1. /\ tx.stage = "outbox" /\ UNCHANGED committed
        /\ tx' = [tx EXCEPT !.stage = "heads", !.event = <<ThisPool, ThisSeq>>]
    BY <1>12, <2>0 DEF WriteOutboxEvent, Advance
  <2>2. /\ tx'.stage = "heads" /\ tx'.event = <<ThisPool, ThisSeq>>
        /\ UNCHANGED <<tx.req, tx.found, tx.batch, tx.entries, tx.cache, tx.audit, tx.heads>>
    BY <2>1 DEF TypeOK, Transactions
  <2>3. tx.found = None
    BY <2>1
  <2>4. QED
    BY <1>8, <2>1, <2>2, <2>3
<1>13. CASE WriteHeads
  <2>1. /\ tx.stage = "heads" /\ UNCHANGED committed
        /\ tx' = [tx EXCEPT !.stage = "commit",
              !.heads = [ledger |-> tx.batch.hash, audit |-> tx.audit.hash]]
    BY <1>13 DEF WriteHeads, Advance
  <2>2. QED
    BY <1>8, <2>1 DEF TypeOK, Transactions
<1>14. CASE CommitReplay \/ CommitBatch \/ Fault
  BY <1>14, <1>2 DEF CommitReplay, CommitBatch, Fault
<1>15. ASSUME NEW r \in Requests, RejectInvalid(r) PROVE WriteSet'
  BY <1>15, <1>1 DEF RejectInvalid
<1>16. CASE UNCHANGED vars
  BY <1>16, <1>1 DEF vars, committed
<1>17. QED
  BY <1>3, <1>4, <1>5, <1>6, <1>7, <1>9, <1>10, <1>11, <1>12, <1>13, <1>14, <1>15, <1>16
     DEF Next, Statement

-----------------------------------------------------------------------------
(* Type correctness.                                                         *)

\* What the typing says of an open transaction and of the pool it writes to.
LEMMA OpenTransaction ==
  ASSUME Inv, tx.stage # "idle"
  PROVE  /\ tx.req \in Requests /\ ThisPool \in Pools /\ ThisSeq \in Seqs
         /\ ThisSeq = Len(log[ThisPool]) + 1
         /\ log[ThisPool] \in Seq(StoredSet) /\ snap[ThisPool] \in Caches
         /\ head[ThisPool] \in LedgerHashes
<1>1. tx.req \in Requests
  BY DEF Inv, WriteSet
<1>2. ThisPool \in Pools
  BY <1>1, RequestType DEF ThisPool
<1>3. QED
  BY <1>1, <1>2, LenProperties DEF Inv, TypeOK, ThisSeq, NextPoolSeq, Seqs

\* The freshly migrated tables are well typed.
LEMMA InitTypeOK == Init => TypeOK
<1> SUFFICES ASSUME Init PROVE TypeOK
  OBVIOUS
<1>1. accounts \in SUBSET Accounts
  BY DEF Init, Accounts
<1>2. log \in [Pools -> Seq(StoredSet)] /\ snap \in [Pools -> Caches]
  BY DEF Init, Caches
<1>3. head \in [Pools -> LedgerHashes] /\ audit \in Seq(AuditRowSet)
      /\ auditHead \in AuditHashes /\ outbox \in Seq(BatchIds)
  BY DEF Init, NoHash, LedgerHashes, AuditHashes
<1>4. tx \in Transactions /\ reply \in Replies
  BY DEF Init, Idle, NoReply, Transactions, Replies, Optional, Stages
<1>5. QED
  BY <1>1, <1>2, <1>3, <1>4 DEF TypeOK

\* A field or two of the write set is assigned; the tables are left alone.
LEMMA AdvanceTypeOK ==
  ASSUME TypeOK, UNCHANGED committed, UNCHANGED reply, tx' \in Transactions
  PROVE  TypeOK'
  BY DEF TypeOK, committed

\* The transaction ends with the tables as they were.
LEMMA EndTypeOK ==
  ASSUME TypeOK, UNCHANGED committed, tx' = Idle, reply' \in Replies
  PROVE  TypeOK'
<1>1. Idle \in Transactions
  BY DEF Idle, Transactions, Optional, Stages
<1>2. QED
  BY <1>1 DEF TypeOK, committed

\* A refusal rolls back to well-typed tables and answers the caller.
LEMMA RefuseTypeOK == ASSUME Inv, tx.stage # "idle", Refuse PROVE TypeOK'
<1>1. Refusal(tx.req) \in Replies
  BY DEF Inv, WriteSet, Refusal, Replies, Optional
<1>2. QED
  BY <1>1, EndTypeOK DEF Refuse, Inv

\* writeAudit gives the audit row its table's type.
LEMMA AuditRowType ==
  ASSUME Inv, tx.stage # "idle"
  PROVE  /\ <<ThisPool, ThisSeq>> \in BatchIds
         /\ AuditRow(Len(audit) + 1, <<ThisPool, ThisSeq>>, auditHead) \in AuditRowSet
<1>1. <<ThisPool, ThisSeq>> \in BatchIds
  BY OpenTransaction DEF BatchIds, Seqs
<1>2. Len(audit) + 1 \in Seqs /\ auditHead \in AuditHashes
  BY LenProperties DEF Inv, TypeOK, Seqs
<1>3. AuditHash(auditHead, Len(audit) + 1, <<ThisPool, ThisSeq>>) \in AuditHashes
  BY <1>1, <1>2 DEF AuditHash, AuditHashes
<1>4. QED
  BY <1>1, <1>2, <1>3 DEF AuditRow, AuditRowSet

\* CommitBatch appends well-typed rows to every table.
LEMMA CommitTypeOK == ASSUME Inv, CommitBatch PROVE TypeOK'
<1>1. /\ tx.stage = "commit" /\ tx.found = None /\ tx.req \in Requests
      /\ ThisPool \in Pools /\ ThisSeq \in Seqs
  BY OpenTransaction DEF CommitBatch
<1>2. tx.batch \in BatchRowSet /\ tx.entries \in Seq(EntryRowSet)
  <2>1. /\ ValidRequest(tx.req) /\ UniversalHold(tx.req) /\ head[ThisPool] \in LedgerHashes
        /\ tx.batch = BatchRow(tx.req, ThisSeq, head[ThisPool])
        /\ tx.entries = EntryRows(tx.req, ThisSeq)
    BY <1>1, OpenTransaction DEF Inv, WriteSet, Past
  <2>2. QED
    BY <1>1, <2>1, BatchRowType, EntryRowsType
<1>3. tx.cache \in Caches
  <2>1. /\ snap[ThisPool] \in Caches /\ UpsertAdmitted(snap[ThisPool], tx.entries)
        /\ tx.cache = Upserted(snap[ThisPool], tx.entries, ThisSeq)
    BY <1>1, OpenTransaction DEF Inv, WriteSet, Past
  <2>2. QED
    BY <1>1, <1>2, <2>1, UpsertedType
<1>4. <<ThisPool, ThisSeq>> \in BatchIds
  BY <1>1, AuditRowType
<1>5. tx.audit \in AuditRowSet
  BY <1>1, AuditRowType DEF Inv, WriteSet, Past
<1>6. tx.heads = [ledger |-> tx.batch.hash, audit |-> tx.audit.hash]
      /\ tx.event = <<ThisPool, ThisSeq>>
  BY <1>1 DEF Inv, WriteSet, Past
<1>7. Stored(tx.batch, tx.entries) \in StoredSet
  BY <1>2 DEF Stored, BatchRowSet, StoredSet
<1>8. log' \in [Pools -> Seq(StoredSet)]
  <2>1. log' = [log EXCEPT ![ThisPool] = Append(log[ThisPool], Stored(tx.batch, tx.entries))]
    BY DEF CommitBatch, ThisPool
  <2>2. Append(log[ThisPool], Stored(tx.batch, tx.entries)) \in Seq(StoredSet)
    BY <1>1, <1>7, OpenTransaction, AppendProperties
  <2>3. QED
    BY <2>1, <2>2 DEF Inv, TypeOK
<1>9. snap' \in [Pools -> Caches] /\ head' \in [Pools -> LedgerHashes]
  <2>1. /\ snap' = [snap EXCEPT ![ThisPool] = tx.cache]
        /\ head' = [head EXCEPT ![ThisPool] = tx.heads.ledger]
    BY DEF CommitBatch, ThisPool
  <2>2. tx.heads.ledger \in LedgerHashes
    BY <1>2, <1>6 DEF BatchRowSet
  <2>3. QED
    BY <1>3, <2>1, <2>2 DEF Inv, TypeOK
<1>10. audit' \in Seq(AuditRowSet) /\ auditHead' \in AuditHashes /\ outbox' \in Seq(BatchIds)
  BY <1>4, <1>5, <1>6 DEF CommitBatch, Inv, TypeOK, AuditRowSet
<1>11. tx' \in Transactions
  BY DEF CommitBatch, Idle, Transactions, Optional, Stages
<1>12. reply' \in Replies
  <2>1. tx.batch.row.seq \in Seqs
    BY <1>2 DEF BatchRowSet, BatchColumnSet
  <2>2. \/ reply' = [req |-> tx.req, seq |-> tx.batch.row.seq, replayed |-> FALSE]
        \/ reply' = NoReply
    BY DEF CommitBatch
  <2>3. [req |-> tx.req, seq |-> tx.batch.row.seq, replayed |-> FALSE] \in Replies
    BY <1>1, <2>1 DEF Replies, Optional
  <2>4. NoReply \in Replies
    BY DEF NoReply, Replies, Optional
  <2>5. QED
    BY <2>2, <2>3, <2>4
<1>13. accounts' \in SUBSET Accounts
  BY DEF CommitBatch, Inv, TypeOK
<1>14. QED
  BY <1>8, <1>9, <1>10, <1>11, <1>12, <1>13 DEF TypeOK

\* Every step keeps the typing.
LEMMA StepTypeOK == Inv /\ [Next]_vars => TypeOK'
<1> SUFFICES ASSUME Inv, [Next]_vars PROVE TypeOK'
  OBVIOUS
<1>0. TypeOK /\ tx \in Transactions
  BY DEF Inv, TypeOK
<1>1. ASSUME NEW a \in Persons, CreateAccount(a) PROVE TypeOK'
  BY <1>0, <1>1 DEF CreateAccount, TypeOK, Accounts
<1>2. ASSUME NEW r \in Requests, Begin(r) PROVE TypeOK'
  <2>1. tx' \in Transactions
    BY <1>2 DEF Begin, Idle, Transactions, Optional, Stages
  <2>2. reply' \in Replies
    BY <1>2 DEF Begin, NoReply, Replies, Optional
  <2>3. QED
    BY <1>0, <1>2, <2>1, <2>2 DEF Begin, TypeOK, committed
<1>3. ASSUME NEW r \in Requests, RejectInvalid(r) PROVE TypeOK'
  <2>1. reply' \in Replies
    BY <1>3 DEF RejectInvalid, Refusal, Replies, Optional
  <2>2. QED
    BY <1>0, <1>3, <2>1 DEF RejectInvalid, TypeOK, committed
<1>4. CASE FindReplay
  <2>1. ASSUME NEW n \in DOMAIN log[ThisPool]
        PROVE  [tx EXCEPT !.stage = "commit", !.found = n] \in Transactions
    <3>1. n \in Seqs
      <4>1. log[ThisPool] \in Seq(StoredSet)
        BY <1>4, OpenTransaction DEF FindReplay
      <4>2. QED
        BY <4>1, LenProperties DEF Seqs
    <3>2. QED
      BY <1>0, <3>1 DEF Transactions, Optional, Stages
  <2>2. [tx EXCEPT !.stage = "check"] \in Transactions
    BY <1>0 DEF Transactions, Stages
  <2>3. QED
    BY <1>0, <1>4, <2>1, <2>2, AdvanceTypeOK DEF FindReplay, Advance, ThisPool
<1>5. CASE CheckInvariants
  <2>1. [tx EXCEPT !.stage = "insert"] \in Transactions
    BY <1>0 DEF Transactions, Stages
  <2>2. QED
    BY <1>0, <1>5, <2>1, AdvanceTypeOK, RefuseTypeOK DEF CheckInvariants, Advance
<1>6. CASE InsertBatch
  <2>1. CASE Refuse
    BY <1>6, <2>1, RefuseTypeOK DEF InsertBatch
  <2>2. CASE ~Refuse
    <3>1. BatchRow(tx.req, ThisSeq, head[ThisPool]) \in BatchRowSet
      BY <1>6, OpenTransaction, BatchRowType DEF InsertBatch, Inv, WriteSet, Past, Written
    <3>2. [tx EXCEPT !.stage = "entries", !.batch = BatchRow(tx.req, ThisSeq, head[ThisPool])]
            \in Transactions
      BY <1>0, <3>1 DEF Transactions, Optional, Stages
    <3>3. QED
      BY <1>0, <1>6, <2>2, <3>2, AdvanceTypeOK DEF InsertBatch, Advance, ThisPool, ThisSeq
  <2>3. QED
    BY <2>1, <2>2
<1>7. CASE InsertEntries
  <2>1. tx.batch.row.seq = ThisSeq
    BY <1>7 DEF InsertEntries, Inv, WriteSet, Past, Written, BatchRow, BatchColumns
  <2>2. EntryRows(tx.req, ThisSeq) \in Seq(EntryRowSet)
    BY <1>7, OpenTransaction, EntryRowsType DEF InsertEntries
  <2>3. [tx EXCEPT !.stage = "snapshots", !.entries = EntryRows(tx.req, ThisSeq)]
          \in Transactions
    BY <1>0, <2>2 DEF Transactions, Optional, Stages
  <2>4. QED
    BY <1>0, <1>7, <2>1, <2>3, AdvanceTypeOK DEF InsertEntries, Advance
<1>8. CASE UpsertSnapshots
  <2>1. CASE Refuse
    BY <1>8, <2>1, RefuseTypeOK DEF UpsertSnapshots
  <2>2. CASE ~Refuse
    <3>1. /\ tx.batch.row.seq = ThisSeq /\ tx.entries = EntryRows(tx.req, ThisSeq)
          /\ tx.req \in Requests /\ ThisSeq \in Seqs /\ snap[ThisPool] \in Caches
          /\ UpsertAdmitted(snap[ThisPool], tx.entries)
      BY <1>8, <2>2, OpenTransaction
         DEF UpsertSnapshots, Inv, WriteSet, Past, Written, BatchRow, BatchColumns, ThisPool
    <3>2. Upserted(snap[ThisPool], tx.entries, ThisSeq) \in Caches
      BY <3>1, EntryRowsType, UpsertedType
    <3>3. [tx EXCEPT !.stage = "audit",
                     !.cache = Upserted(snap[ThisPool], tx.entries, ThisSeq)] \in Transactions
      BY <1>0, <3>2 DEF Transactions, Optional, Stages
    <3>4. QED
      BY <1>0, <1>8, <2>2, <3>1, <3>3, AdvanceTypeOK DEF UpsertSnapshots, Advance, ThisPool
  <2>3. QED
    BY <2>1, <2>2
<1>9. CASE WriteAudit
  <2>1. tx.batch.row.seq = ThisSeq /\ tx.batch.row.pool = ThisPool
    BY <1>9 DEF WriteAudit, Inv, WriteSet, Past, Written, BatchRow, BatchColumns, ThisPool
  <2>2. AuditRow(Len(audit) + 1, <<ThisPool, ThisSeq>>, auditHead) \in AuditRowSet
    BY <1>9, AuditRowType DEF WriteAudit
  <2>3. [tx EXCEPT !.stage = "outbox",
          !.audit = AuditRow(Len(audit) + 1, <<ThisPool, ThisSeq>>, auditHead)] \in Transactions
    BY <1>0, <2>2 DEF Transactions, Optional, Stages
  <2>4. QED
    BY <1>0, <1>9, <2>1, <2>3, AdvanceTypeOK DEF WriteAudit, Advance
<1>10. CASE WriteOutboxEvent
  <2>0. tx.batch.row.seq = ThisSeq /\ tx.batch.row.pool = ThisPool
    BY <1>10 DEF WriteOutboxEvent, Inv, WriteSet, Past, Written, BatchRow, BatchColumns, ThisPool
  <2>1. <<ThisPool, ThisSeq>> \in BatchIds
    BY <1>10, AuditRowType DEF WriteOutboxEvent
  <2>2. [tx EXCEPT !.stage = "heads", !.event = <<ThisPool, ThisSeq>>] \in Transactions
    BY <1>0, <2>1 DEF Transactions, Optional, Stages
  <2>3. QED
    BY <1>0, <1>10, <2>0, <2>2, AdvanceTypeOK DEF WriteOutboxEvent, Advance
<1>11. CASE WriteHeads
  <2>1. tx.batch \in BatchRowSet /\ tx.audit \in AuditRowSet
    <3>1. tx.batch = BatchRow(tx.req, ThisSeq, head[ThisPool]) /\ ValidRequest(tx.req)
          /\ UniversalHold(tx.req)
      BY <1>11 DEF WriteHeads, Inv, WriteSet, Past, Written
    <3>2. tx.audit = AuditRow(Len(audit) + 1, <<ThisPool, ThisSeq>>, auditHead)
      BY <1>11 DEF WriteHeads, Inv, WriteSet, Past, Written
    <3>3. QED
      BY <1>11, <3>1, <3>2, OpenTransaction, BatchRowType, AuditRowType DEF WriteHeads
  <2>2. [tx EXCEPT !.stage = "commit",
                   !.heads = [ledger |-> tx.batch.hash, audit |-> tx.audit.hash]] \in Transactions
    BY <1>0, <2>1 DEF Transactions, Optional, Stages, BatchRowSet, AuditRowSet
  <2>3. QED
    BY <1>0, <1>11, <2>2, AdvanceTypeOK DEF WriteHeads, Advance
<1>12. CASE CommitReplay
  <2>1. tx.req \in Requests /\ tx.found \in Seqs
    BY <1>0, <1>12, OpenTransaction DEF CommitReplay, Transactions, Optional
  <2>2. reply' \in Replies
    <3>1. [req |-> tx.req, seq |-> tx.found, replayed |-> TRUE] \in Replies
      BY <2>1 DEF Replies, Optional
    <3>2. NoReply \in Replies
      BY DEF NoReply, Replies, Optional
    <3>3. QED
      BY <1>12, <3>1, <3>2 DEF CommitReplay
  <2>3. QED
    BY <1>0, <1>12, <2>2, EndTypeOK DEF CommitReplay
<1>13. CASE CommitBatch
  BY <1>13, CommitTypeOK
<1>14. CASE Fault
  <2>1. reply' \in Replies
    BY <1>14 DEF Fault, NoReply, Replies, Optional
  <2>2. QED
    BY <1>0, <1>14, <2>1, EndTypeOK DEF Fault
<1>15. CASE UNCHANGED vars
  BY <1>0, <1>15 DEF vars, TypeOK
<1>16. QED
  BY <1>1, <1>2, <1>3, <1>4, <1>5, <1>6, <1>7, <1>8, <1>9, <1>10, <1>11, <1>12, <1>13,
     <1>14, <1>15 DEF Next, Statement

\* At every statement of every interleaving of calls, faults and lost answers, the write set
\* holds exactly what the statements so far wrote, computed from the tables as committed.
THEOREM WriteSetCorrect == Spec => []Inv
<1>1. Init => Inv
  BY InitTypeOK, InitWriteSet DEF Inv
<1>2. Inv /\ [Next]_vars => Inv'
  BY StepTypeOK, StepWriteSet DEF Inv
<1>3. QED
  BY <1>1, <1>2, PTL DEF Spec

\* Every amount the ledger stores, cached totals included, fits an int64, whatever the
\* requests, pools and accounts are.
THEOREM TypeCorrect == Spec => []TypeOK
  BY WriteSetCorrect, PTL DEF Inv

-----------------------------------------------------------------------------
(* What a commit does to the tables.                                         *)

NewBatch == Stored(BatchRow(tx.req, ThisSeq, head[ThisPool]), EntryRows(tx.req, ThisSeq))
NewAudit == AuditRow(Len(audit) + 1, <<ThisPool, ThisSeq>>, auditHead)
tables == <<log, snap, head, audit, auditHead, outbox>>

\* The write set, read back as one step on the committed tables.
LEMMA CommitEffect ==
  ASSUME Inv, CommitBatch
  PROVE  /\ tx.stage # "idle" /\ tx.req.entries # <<>>
         /\ UniversalHold(tx.req) /\ UniqueIndexesAdmit(tx.req)
         /\ log' = [log EXCEPT ![ThisPool] = Append(log[ThisPool], NewBatch)]
         /\ snap' = [snap EXCEPT ![ThisPool] =
                       Upserted(snap[ThisPool], EntryRows(tx.req, ThisSeq), ThisSeq)]
         /\ head' = [head EXCEPT ![ThisPool] = NewBatch.hash]
         /\ audit' = Append(audit, NewAudit) /\ auditHead' = NewAudit.hash
         /\ outbox' = Append(outbox, <<ThisPool, ThisSeq>>)
<1>1. tx.stage = "commit" /\ tx.found = None
  BY DEF CommitBatch
<1>2. /\ UniversalHold(tx.req) /\ UniqueIndexesAdmit(tx.req)
      /\ tx.batch = BatchRow(tx.req, ThisSeq, head[ThisPool])
      /\ tx.entries = EntryRows(tx.req, ThisSeq) /\ tx.audit = NewAudit
      /\ tx.cache = Upserted(snap[ThisPool], tx.entries, ThisSeq)
      /\ tx.event = <<ThisPool, ThisSeq>>
      /\ tx.heads = [ledger |-> tx.batch.hash, audit |-> tx.audit.hash]
  BY <1>1 DEF Inv, WriteSet, Past, NewAudit
<1>3. NewBatch = Stored(tx.batch, tx.entries) /\ NewBatch.hash = tx.batch.hash
  BY <1>2 DEF NewBatch, Stored
<1>4. QED
  BY <1>1, <1>2, <1>3 DEF CommitBatch, ThisPool, UniversalHold

\* No other step touches a table.
LEMMA OnlyCommitWrites == [Next]_vars => CommitBatch \/ UNCHANGED tables
  BY DEF Next, Statement, vars, committed, tables, CreateAccount, Begin, RejectInvalid, Refuse,
     Advance, FindReplay, CheckInvariants, InsertBatch, InsertEntries, UpsertSnapshots,
     WriteAudit, WriteOutboxEvent, WriteHeads, CommitReplay, Fault

-----------------------------------------------------------------------------
(* The hash chains.                                                          *)

\* The row a commit appends continues the pool's chain and attests its own entries.
LEMMA NewBatchLinks ==
  ASSUME Inv, CommitBatch, head[ThisPool] = LastHash(log[ThisPool])
  PROVE  LET n == ThisSeq
         IN  /\ NewBatch.row.pool = ThisPool /\ NewBatch.row.seq = n
             /\ NewBatch.prev = IF n = 1 THEN NoHash ELSE log[ThisPool][n - 1].hash
             /\ NewBatch.hash = BatchHash(NewBatch.prev, NewBatch.row, NewBatch.entries)
             /\ NewBatch.row.count = Len(NewBatch.entries)
             /\ NewBatch.row.net = Total(Amounts(NewBatch.entries))
             /\ \A i \in DOMAIN NewBatch.entries :
                  NewBatch.entries[i].pool = ThisPool /\ NewBatch.entries[i].seq = n
<1>1. /\ tx.req \in Requests /\ ThisSeq \in Seqs /\ ThisSeq = Len(log[ThisPool]) + 1
      /\ log[ThisPool] \in Seq(StoredSet)
  BY CommitEffect, OpenTransaction
<1>2. /\ NewBatch.row = BatchColumns(tx.req, ThisSeq) /\ NewBatch.prev = head[ThisPool]
      /\ NewBatch.entries = EntryRows(tx.req, ThisSeq)
      /\ NewBatch.hash = BatchHash(head[ThisPool], NewBatch.row, NewBatch.entries)
  BY DEF NewBatch, Stored, BatchRow
<1>3. head[ThisPool] = IF ThisSeq = 1 THEN NoHash ELSE log[ThisPool][ThisSeq - 1].hash
  BY <1>1, EmptySeq, LenProperties DEF LastHash, Seqs
<1>4. /\ NewBatch.row.count = Len(NewBatch.entries)
      /\ NewBatch.row.net = Total(Amounts(NewBatch.entries))
  BY <1>1, <1>2, EntryRowsType, RowsKeepAmounts DEF BatchColumns
<1>5. \A i \in DOMAIN NewBatch.entries :
         NewBatch.entries[i].pool = ThisPool /\ NewBatch.entries[i].seq = ThisSeq
  BY <1>1, <1>2, EntryRowsType DEF ThisPool
<1>6. QED
  BY <1>2, <1>3, <1>4, <1>5 DEF BatchColumns, ThisPool

\* The row and entries a commit appends are of their tables' types.
LEMMA NewBatchType == ASSUME Inv, CommitBatch PROVE NewBatch \in StoredSet
<1>1. tx.batch \in BatchRowSet /\ NewBatch = Stored(tx.batch, EntryRows(tx.req, ThisSeq))
  BY OpenTransaction, BatchRowType, CommitEffect
     DEF Inv, WriteSet, Past, CommitBatch, NewBatch
<1>2. QED
  BY <1>1, CommitEffect, OpenTransaction, EntryRowsType DEF Stored, BatchRowSet, StoredSet

\* One commit extends both chains by one link and moves both heads onto it.
LEMMA CommitExtendsChains == ASSUME Inv, ChainIntact, CommitBatch PROVE ChainIntact'
<1>1. /\ ThisPool \in Pools /\ ThisSeq = Len(log[ThisPool]) + 1
      /\ log[ThisPool] \in Seq(StoredSet) /\ head[ThisPool] = LastHash(log[ThisPool])
  BY CommitEffect, OpenTransaction DEF ChainIntact
<1>2. log \in [Pools -> Seq(StoredSet)] /\ head \in [Pools -> LedgerHashes]
      /\ audit \in Seq(AuditRowSet)
  BY DEF Inv, TypeOK
<1>3. NewBatch \in StoredSet
  BY NewBatchType
<1>4. ASSUME NEW p \in Pools
      PROVE  /\ \A n \in DOMAIN log'[p] : LinkedAt(p, n)'
             /\ head'[p] = LastHash(log'[p])
  <2>1. CASE p # ThisPool
    <3>1. log'[p] = log[p] /\ head'[p] = head[p]
      BY <1>2, <2>1, CommitEffect
    <3>2. QED
      BY <1>4, <3>1 DEF ChainIntact, LinkedAt
  <2>2. CASE p = ThisPool
    <3> DEFINE s == log[p]
    <3>1. log'[p] = Append(s, NewBatch) /\ head'[p] = NewBatch.hash /\ s \in Seq(StoredSet)
      BY <1>1, <1>2, <2>2, CommitEffect
    <3>2. /\ Len(log'[p]) = Len(s) + 1 /\ log'[p] # <<>>
          /\ DOMAIN log'[p] = 1..(Len(s) + 1) /\ DOMAIN s = 1..Len(s) /\ Len(s) \in Nat
          /\ \A n \in 1..Len(s) : log'[p][n] = s[n]
          /\ log'[p][Len(s) + 1] = NewBatch
      BY <1>3, <3>1, AppendProperties, LenProperties
    <3>3. ASSUME NEW n \in 1..Len(s) PROVE LinkedAt(p, n)'
      <4>1. LinkedAt(p, n)
        BY <3>2, <3>3 DEF ChainIntact
      <4>2. n # 1 => n - 1 \in 1..Len(s)
        BY <3>2
      <4>3. QED
        BY <3>2, <4>1, <4>2 DEF LinkedAt
    <3>4. ASSUME NEW n \in Nat, n = Len(s) + 1 PROVE LinkedAt(p, n)'
      <4>1. n = ThisSeq /\ log'[p][n] = NewBatch
        BY <1>1, <2>2, <3>2, <3>4
      <4>2. n # 1 => log'[p][n - 1] = log[p][n - 1]
        BY <3>2, <3>4
      <4>3. QED
        BY <1>1, <2>2, <4>1, <4>2, NewBatchLinks DEF LinkedAt
    <3>5. \A n \in DOMAIN log'[p] : LinkedAt(p, n)'
      BY <3>2, <3>3, <3>4
    <3>6. head'[p] = LastHash(log'[p])
      BY <3>1, <3>2 DEF LastHash
    <3>7. QED
      BY <3>5, <3>6
  <2>3. QED
    BY <2>1, <2>2
<1>5. (\A i \in DOMAIN audit' : AuditLinkedAt(i)') /\ auditHead' = LastHash(audit')
  <2>1. NewAudit \in AuditRowSet
    BY CommitEffect, AuditRowType DEF NewAudit
  <2>2. /\ Len(audit') = Len(audit) + 1 /\ audit' # <<>> /\ Len(audit) \in Nat
        /\ DOMAIN audit' = 1..(Len(audit) + 1) /\ DOMAIN audit = 1..Len(audit)
        /\ \A i \in 1..Len(audit) : audit'[i] = audit[i]
        /\ audit'[Len(audit) + 1] = NewAudit
    <3>1. audit' = Append(audit, NewAudit)
      BY CommitEffect
    <3>2. QED
      BY <1>2, <2>1, <3>1, AppendProperties, LenProperties
  <2>3. ASSUME NEW i \in 1..Len(audit) PROVE AuditLinkedAt(i)'
    <3>1. AuditLinkedAt(i)
      BY <2>2, <2>3 DEF ChainIntact
    <3>2. i # 1 => i - 1 \in 1..Len(audit)
      BY <2>2
    <3>3. QED
      BY <2>2, <3>1, <3>2 DEF AuditLinkedAt
  <2>4. ASSUME NEW i \in Nat, i = Len(audit) + 1 PROVE AuditLinkedAt(i)'
    <3>1. auditHead = IF i = 1 THEN NoHash ELSE audit[i - 1].hash
      BY <1>2, <2>2, <2>4, EmptySeq DEF ChainIntact, LastHash
    <3>2. i # 1 => audit'[i - 1] = audit[i - 1]
      BY <2>2, <2>4
    <3>3. audit'[i] = AuditRow(i, <<ThisPool, ThisSeq>>, auditHead)
      BY <2>2, <2>4 DEF NewAudit
    <3>4. QED
      BY <3>1, <3>2, <3>3 DEF AuditLinkedAt, AuditRow
  <2>5. \A i \in DOMAIN audit' : AuditLinkedAt(i)'
    BY <2>2, <2>3, <2>4
  <2>6. auditHead' = LastHash(audit')
    BY <2>2, CommitEffect DEF LastHash
  <2>7. QED
    BY <2>5, <2>6
<1>6. QED
  BY <1>4, <1>5 DEF ChainIntact

\* Both hash chains verify in every reachable state, of every pool and the audit log: no
\* interleaving of refusals, faults and replays can fork, skip or misdate a link.
THEOREM ChainCorrect == Spec => []ChainIntact
<1>1. Init => ChainIntact
  BY DEF Init, ChainIntact, LastHash, NoHash
<1>2. Inv /\ ChainIntact /\ [Next]_vars => ChainIntact'
  <2>1. ASSUME ChainIntact, UNCHANGED tables PROVE ChainIntact'
    BY <2>1 DEF tables, ChainIntact, LinkedAt, AuditLinkedAt
  <2>2. QED
    BY <2>1, OnlyCommitWrites, CommitExtendsChains
<1>3. QED
  BY <1>1, <1>2, WriteSetCorrect, PTL DEF Spec

-----------------------------------------------------------------------------
(* Answers.                                                                  *)

\* A transaction that carries a committed key never gets past findReplay, so no rule and no
\* UNIQUE index can refuse a retry of what already happened.
THEOREM RetryAnswered == Spec => RetryIsAnswered
<1>1. Inv /\ [Next]_vars => (Refused => ~KeyCommitted(tx.req))
  <2> SUFFICES ASSUME Inv, [Next]_vars, Refused PROVE ~KeyCommitted(tx.req)
    OBVIOUS
  <2>1. tx.stage # "idle" /\ tx.req \in Requests /\ tx'.stage = "idle"
        /\ reply' = Refusal(tx.req)
    BY DEF Refused, Inv, WriteSet
  <2>2. reply' # NoReply
    BY <2>1, NoneAssumption DEF Refusal, NoReply
  <2>3. tx.stage \in Written \cup {"check"} => ~KeyCommitted(tx.req)
    BY DEF Inv, WriteSet, Past
  <2>4. tx.stage = "replay" => FALSE
    <3>1. tx.stage = "replay" => tx'.stage \in {"commit", "check"} \/ reply' = NoReply \/ tx' = tx
      BY <2>1 DEF Next, Statement, vars, CreateAccount, Begin, RejectInvalid, FindReplay, Advance,
         CheckInvariants, InsertBatch, InsertEntries, UpsertSnapshots, WriteAudit,
         WriteOutboxEvent, WriteHeads, CommitReplay, CommitBatch, Fault, Inv, TypeOK, Transactions
    <3>2. QED
      BY <2>1, <2>2, <3>1
  <2>5. tx.stage = "commit" => FALSE
    <3>1. reply'.seq = None
      BY <2>1 DEF Refusal
    <3>2. ~CommitReplay
      <4>1. CommitReplay => reply'.seq = tx.found /\ tx.found # None
        BY <2>2 DEF CommitReplay
      <4>2. QED
        BY <3>1, <4>1
    <3>3. ~CommitBatch
      <4>1. CommitBatch => reply'.seq = tx.batch.row.seq /\ tx.batch.row.seq = ThisSeq
        BY <2>2 DEF CommitBatch, Inv, WriteSet, Past, BatchRow, BatchColumns
      <4>2. ThisSeq # None
        BY <2>1, OpenTransaction, NoneAssumption DEF Seqs
      <4>3. QED
        BY <3>1, <4>1, <4>2
    <3>4. tx.stage = "commit" => CommitReplay \/ CommitBatch \/ reply' = NoReply \/ tx' = tx
      BY <2>1 DEF Next, Statement, vars, CreateAccount, Begin, RejectInvalid, FindReplay,
         CheckInvariants, InsertBatch, InsertEntries, UpsertSnapshots, WriteAudit,
         WriteOutboxEvent, WriteHeads, Fault
    <3>5. QED
      BY <2>1, <2>2, <3>2, <3>3, <3>4
  <2>6. QED
    BY <2>1, <2>3, <2>4, <2>5 DEF Inv, TypeOK, Transactions, Stages, Written
<1>2. QED
  BY <1>1, WriteSetCorrect, PTL DEF Spec, RetryIsAnswered

-----------------------------------------------------------------------------
(* Refinement: the statements of a commit are one step of the abstract ledger. *)

\* What the abstract ledger sees of the tables.
Hist == [p \in Pools |-> [n \in DOMAIN log[p] |-> Posted(log[p][n])]]
Stand == [p \in Pools |-> [h \in Holders |-> Standing(snap[p], h)]]
Trail == [i \in DOMAIN audit |-> audit[i].batch]

\* The row that was written says what the caller posted.
LEMMA PostedIsPosting ==
  ASSUME Inv, tx.stage # "idle"
  PROVE  Posted(NewBatch) = Posting(tx.req)
<1>1. tx.req \in Requests /\ ThisSeq \in Seqs
  BY OpenTransaction
<1>2. [i \in DOMAIN EntryRows(tx.req, ThisSeq) |->
         [account |-> EntryRows(tx.req, ThisSeq)[i].account,
          kind |-> EntryRows(tx.req, ThisSeq)[i].kind,
          amount |-> EntryRows(tx.req, ThisSeq)[i].amount]]
      = [i \in DOMAIN tx.req.entries |->
           [account |-> tx.req.entries[i].account, kind |-> tx.req.entries[i].kind,
            amount |-> tx.req.entries[i].amount]]
  BY DEF EntryRows
<1>3. QED
  BY <1>2 DEF Posted, Posting, Essence, NewBatch, Stored, BatchRow, BatchColumns

\* Posting strips the entries of nothing the sums read.
LEMMA PostingMovesTheSame ==
  ASSUME NEW r \in Requests
  PROVE  /\ Touched(Posting(r).entries) = Touched(r.entries)
         /\ \A h : Delta(Posting(r).entries, h) = Delta(r.entries, h)
<1> DEFINE es == Posting(r).entries
<1>1. /\ DOMAIN es = DOMAIN r.entries
      /\ \A i \in DOMAIN r.entries :
           HolderOf(es[i]) = HolderOf(r.entries[i]) /\ es[i].amount = r.entries[i].amount
  BY DEF Posting, Essence, HolderOf
<1>2. Touched(es) = Touched(r.entries)
  BY <1>1 DEF Touched
<1>3. \A h : AmountsOf(es, h) = AmountsOf(r.entries, h)
  BY <1>1 DEF AmountsOf
<1>4. QED
  BY <1>2, <1>3 DEF Delta

\* The step that commits is the abstract ledger's Post of what the caller asked for.
LEMMA CommitPosts ==
  ASSUME Inv, CommitBatch
  PROVE  Points!Post(ThisPool, Posting(tx.req))
<1> DEFINE b == Posting(tx.req)
<1>1. /\ tx.req \in Requests /\ ThisPool \in Pools /\ ThisSeq = Len(log[ThisPool]) + 1
      /\ log[ThisPool] \in Seq(StoredSet) /\ ThisSeq \in Seqs /\ snap[ThisPool] \in Caches
  BY CommitEffect, OpenTransaction
<1>2. log \in [Pools -> Seq(StoredSet)] /\ snap \in [Pools -> Caches] /\ audit \in Seq(AuditRowSet)
  BY DEF Inv, TypeOK
<1>3. b.entries # <<>>
  <2>1. tx.req.entries \in Seq(EntryProposals) /\ tx.req.entries # <<>>
    BY <1>1, CommitEffect, RequestType
  <2>2. DOMAIN b.entries = 1..Len(tx.req.entries) /\ Len(tx.req.entries) # 0
    BY <2>1, EmptySeq DEF Posting, Essence
  <2>3. QED
    BY <2>1, <2>2, LenProperties
<1>4. Points!UnusedKey(ThisPool, b) /\ Points!UnusedRef(ThisPool, b)
  BY <1>1, CommitEffect
     DEF Points!UnusedKey, Points!UnusedRef, UniqueIndexesAdmit, Posting, Posted, Essence, ThisPool
<1>5. Points!Reversible(ThisPool, b)
  BY <1>1, CommitEffect
     DEF Points!Reversible, UniversalHold, ReversalLinkage, UniqueIndexesAdmit, Posting, Posted,
         Essence, ThisPool, KindReversal
<1>6. Hist' = [Hist EXCEPT ![ThisPool] = Append(@, b)]
  <2>1. NewBatch \in StoredSet
    BY NewBatchType
  <2>2. log'[ThisPool] = Append(log[ThisPool], NewBatch)
    BY <1>1, <1>2, CommitEffect
  <2>3. /\ DOMAIN log'[ThisPool] = 1..(Len(log[ThisPool]) + 1)
        /\ DOMAIN log[ThisPool] = 1..Len(log[ThisPool]) /\ Len(log[ThisPool]) \in Nat
        /\ \A n \in 1..Len(log[ThisPool]) : log'[ThisPool][n] = log[ThisPool][n]
        /\ log'[ThisPool][Len(log[ThisPool]) + 1] = NewBatch
    BY <1>1, <2>1, <2>2, AppendProperties, LenProperties
  <2>4. Hist[ThisPool] = [n \in 1..Len(log[ThisPool]) |-> Posted(log[ThisPool][n])]
    BY <1>1, <2>3 DEF Hist
  <2>5. Append(Hist[ThisPool], b) =
          [n \in 1..(Len(log[ThisPool]) + 1) |->
             IF n = Len(log[ThisPool]) + 1 THEN b ELSE Posted(log[ThisPool][n])]
    BY <2>3, <2>4
  <2>6. [n \in DOMAIN log'[ThisPool] |-> Posted(log'[ThisPool][n])] = Append(Hist[ThisPool], b)
    BY <2>3, <2>5, CommitEffect, PostedIsPosting, SMTT(30)
  <2>7. \A p \in Pools \ {ThisPool} : log'[p] = log[p]
    BY <1>2, CommitEffect
  <2>8. QED
    BY <1>1, <2>6, <2>7 DEF Hist
<1>7. Stand' = [Stand EXCEPT ![ThisPool] =
                  [h \in Holders |-> Stand[ThisPool][h] + Delta(b.entries, h)]]
  <2> DEFINE es == EntryRows(tx.req, ThisSeq)
             cache == snap[ThisPool]
  <2>1. snap'[ThisPool] = Upserted(cache, es, ThisSeq)
    BY <1>1, <1>2, CommitEffect
  <2>2. ASSUME NEW h \in Holders
        PROVE  Standing(Upserted(cache, es, ThisSeq), h) = Standing(cache, h) + Delta(b.entries, h)
    <3>1. Delta(b.entries, h) = Delta(es, h) /\ Touched(b.entries) = Touched(es)
      BY <1>1, RowsKeepAmounts, PostingMovesTheSame
    <3>2. CASE h \in Touched(es)
      <4>1. Upserted(cache, es, ThisSeq)[h].amount = CachedAmount(cache[h]) + Delta(es, h)
        BY <3>2 DEF Upserted
      <4>2. Upserted(cache, es, ThisSeq)[h] # None
        <5>1. Upserted(cache, es, ThisSeq)[h] \in SnapshotRowSet
          <6>1. UpsertAdmitted(cache, es) /\ tx.entries = es
            BY DEF CommitBatch, Inv, WriteSet, Past
          <6>2. QED
            BY <1>1, <3>2, <6>1, EntryRowsType, UpsertedType
        <5>2. QED
          BY <5>1, NoneAssumption, MaxCpAssumption DEF SnapshotRowSet, Cp, Seqs
      <4>3. QED
        BY <3>1, <4>1, <4>2 DEF Standing, CachedAmount
    <3>3. CASE h \notin Touched(es)
      <4>1. Upserted(cache, es, ThisSeq)[h] = cache[h] /\ Delta(es, h) = 0
        BY <3>3 DEF Upserted, Delta
      <4>2. CachedAmount(cache[h]) \in Int
        BY <1>1, MaxCpAssumption DEF CachedAmount, Caches, SnapshotRowSet, Cp
      <4>3. QED
        BY <3>1, <4>1, <4>2 DEF Standing
    <3>4. QED
      BY <3>2, <3>3
  <2>3. Stand[ThisPool] = [h \in Holders |-> Standing(cache, h)]
    BY <1>1 DEF Stand
  <2>4. Stand'[ThisPool] = [h \in Holders |-> Stand[ThisPool][h] + Delta(b.entries, h)]
    BY <1>1, <2>1, <2>2, <2>3 DEF Stand
  <2>5. \A p \in Pools \ {ThisPool} : Stand'[p] = Stand[p]
    BY <1>2, CommitEffect DEF Stand
  <2>6. QED
    BY <1>1, <2>4, <2>5 DEF Stand
<1>8. Trail' = Append(Trail, <<ThisPool, Len(Hist[ThisPool]) + 1>>)
  <2>1. NewAudit \in AuditRowSet /\ NewAudit.batch = <<ThisPool, ThisSeq>>
    BY CommitEffect, AuditRowType DEF NewAudit, AuditRow
  <2>2. audit' = Append(audit, NewAudit)
    BY CommitEffect
  <2>3. /\ DOMAIN audit' = 1..(Len(audit) + 1) /\ DOMAIN audit = 1..Len(audit)
        /\ Len(audit) \in Nat /\ audit'[Len(audit) + 1] = NewAudit
        /\ \A i \in 1..Len(audit) : audit'[i] = audit[i]
    BY <1>2, <2>1, <2>2, AppendProperties, LenProperties
  <2>4. Len(Hist[ThisPool]) + 1 = ThisSeq
    BY <1>1, LenProperties DEF Hist
  <2>5. Append(Trail, <<ThisPool, ThisSeq>>) =
          [i \in 1..(Len(audit) + 1) |->
             IF i = Len(audit) + 1 THEN <<ThisPool, ThisSeq>> ELSE audit[i].batch]
    BY <2>3 DEF Trail
  <2>6. Trail' = Append(Trail, <<ThisPool, ThisSeq>>)
    BY <2>1, <2>3, <2>5 DEF Trail
  <2>7. QED
    BY <2>4, <2>6
<1>9. QED
  BY <1>3, <1>4, <1>5, <1>6, <1>7, <1>8 DEF Points!Post, Hist, Stand, Trail

\* Every behaviour of the commit path, statement by statement and fault by fault, is one of
\* the abstract ledger: batch, standings and trail change together or not at all, and keys,
\* source references and reversal targets are used once.
THEOREM RefinesPoints == Spec => PointsSpec
<1>1. Init => Points!Init
  <2> SUFFICES ASSUME Init PROVE Points!Init
    OBVIOUS
  <2>1. Hist = [p \in Pools |-> <<>>]
    BY DEF Init, Hist
  <2>2. Stand = [p \in Pools |-> [h \in Holders |-> 0]]
    BY DEF Init, Stand, Standing, CachedAmount
  <2>3. Trail = <<>>
    BY DEF Init, Trail
  <2>4. QED
    BY <2>1, <2>2, <2>3 DEF Points!Init, Hist, Stand, Trail
<1>2. Inv /\ [Next]_vars => [Points!Next]_(Points!pointsVars)
  <2> SUFFICES ASSUME Inv, [Next]_vars PROVE [Points!Next]_(Points!pointsVars)
    OBVIOUS
  <2>1. CASE CommitBatch
    <3>1. ThisPool \in Pools /\ tx.req \in Requests
      BY <2>1, CommitEffect, OpenTransaction
    <3>2. PICK p \in Pools, b \in {Posting(r) : r \in Requests} :
            p = ThisPool /\ b = Posting(tx.req)
      BY <3>1
    <3>3. Points!Post(p, b)
      BY <2>1, <3>2, CommitPosts DEF Points!Post, Points!UnusedKey, Points!UnusedRef,
         Points!Reversible
    <3>4. QED
      BY <3>3 DEF Points!Next
  <2>2. CASE UNCHANGED tables
    BY <2>2 DEF tables, Points!pointsVars
  <2>3. QED
    BY <2>1, <2>2, OnlyCommitWrites
<1>3. QED
  BY <1>1, <1>2, WriteSetCorrect, PTL DEF Spec, PointsSpec, Points!Spec

-----------------------------------------------------------------------------
(* The trail and the receipts.                                               *)

\* A commit adds the same batch, the newest of its pool, to the audit log and the outbox.
LEMMA CommitExtendsTrail == ASSUME Inv, OneTrail, CommitBatch PROVE OneTrail'
<1> DEFINE id == <<ThisPool, ThisSeq>>
           size == Len(audit)
<1>1. /\ ThisPool \in Pools /\ ThisSeq \in Seqs /\ ThisSeq = Len(log[ThisPool]) + 1
      /\ log[ThisPool] \in Seq(StoredSet)
  BY CommitEffect, OpenTransaction
<1>2. log \in [Pools -> Seq(StoredSet)] /\ audit \in Seq(AuditRowSet) /\ outbox \in Seq(BatchIds)
  BY DEF Inv, TypeOK
<1>3. id \in BatchIds /\ NewAudit \in AuditRowSet /\ NewAudit.batch = id
  BY CommitEffect, AuditRowType DEF NewAudit, AuditRow
<1>4. Len(outbox) = size /\ size \in Nat /\ DOMAIN audit = 1..size /\ DOMAIN outbox = 1..size
  BY <1>2, LenProperties DEF OneTrail
<1>5. /\ DOMAIN audit' = 1..(size + 1) /\ audit'[size + 1].batch = id
      /\ \A i \in 1..size : audit'[i] = audit[i]
  <2>1. audit' = Append(audit, NewAudit)
    BY CommitEffect
  <2>2. QED
    BY <1>2, <1>3, <1>4, <2>1, AppendProperties, LenProperties
<1>6. /\ outbox' \in Seq(BatchIds) /\ DOMAIN outbox' = 1..(size + 1) /\ outbox'[size + 1] = id
      /\ \A i \in 1..size : outbox'[i] = outbox[i]
  <2>1. outbox' = Append(outbox, id)
    BY CommitEffect
  <2>2. QED
    BY <1>2, <1>3, <1>4, <2>1, AppendProperties, LenProperties
<1>7. /\ DOMAIN log'[ThisPool] = 1..ThisSeq /\ DOMAIN log[ThisPool] = 1..(ThisSeq - 1)
      /\ \A p \in Pools \ {ThisPool} : log'[p] = log[p]
  <2>1. log'[ThisPool] = Append(log[ThisPool], NewBatch) /\ NewBatch \in StoredSet
    BY <1>1, <1>2, CommitEffect, NewBatchType
  <2>2. QED
    BY <1>1, <1>2, <2>1, CommitEffect, AppendProperties, LenProperties
<1>8. Len(outbox') = Len(audit') /\ \A i \in DOMAIN audit' : outbox'[i] = audit'[i].batch
  <2>1. Len(outbox') = Len(audit')
    BY <1>2, <1>3, <1>4, CommitEffect, AppendProperties
  <2>2. ASSUME NEW i \in 1..(size + 1) PROVE outbox'[i] = audit'[i].batch
    <3>1. CASE i = size + 1
      BY <1>5, <1>6, <3>1
    <3>2. CASE i \in 1..size
      BY <1>4, <1>5, <1>6, <3>2 DEF OneTrail
    <3>3. QED
      BY <1>4, <2>2, <3>1, <3>2
  <2>3. QED
    BY <1>5, <2>1, <2>2
<1>9. ASSUME NEW i \in DOMAIN outbox'
      PROVE  outbox'[i][1] \in Pools /\ outbox'[i][2] \in DOMAIN log'[outbox'[i][1]]
  <2>1. CASE i = size + 1
    BY <1>1, <1>6, <1>7, <2>1 DEF Seqs
  <2>2. CASE i \in 1..size
    <3>1. outbox[i] \in BatchIds /\ outbox[i][2] \in DOMAIN log[outbox[i][1]]
      BY <1>2, <1>4, <2>2, ElementOfSeq DEF OneTrail
    <3>2. outbox[i][1] \in Pools
      BY <3>1 DEF BatchIds
    <3>3. QED
      BY <1>1, <1>6, <1>7, <2>2, <3>1, <3>2 DEF Seqs
  <2>3. QED
    BY <1>4, <1>6, <1>9, <2>1, <2>2
<1>10. ASSUME NEW i \in DOMAIN outbox', NEW j \in DOMAIN outbox', i < j,
              outbox'[i][1] = outbox'[j][1]
       PROVE  outbox'[i][2] < outbox'[j][2]
  <2>1. i \in 1..size
    BY <1>4, <1>6, <1>10
  <2>2. CASE j = size + 1
    <3>1. outbox[i][1] = ThisPool /\ outbox[i][2] \in DOMAIN log[ThisPool]
      BY <1>4, <1>6, <1>10, <2>1, <2>2 DEF OneTrail
    <3>2. QED
      BY <1>1, <1>6, <1>7, <2>1, <2>2, <3>1 DEF Seqs
  <2>3. CASE j \in 1..size
    BY <1>4, <1>6, <1>10, <2>1, <2>3 DEF OneTrail
  <2>4. QED
    BY <1>4, <1>6, <1>10, <2>2, <2>3
<1>11. ASSUME NEW p \in Pools, NEW n \in DOMAIN log'[p]
       PROVE  \E i \in DOMAIN outbox' : outbox'[i] = <<p, n>>
  <2>1. CASE p = ThisPool /\ n = ThisSeq
    BY <1>4, <1>6, <2>1
  <2>2. CASE ~(p = ThisPool /\ n = ThisSeq)
    <3>1. n \in DOMAIN log[p]
      BY <1>1, <1>7, <1>11, <2>2 DEF Seqs
    <3>2. PICK i \in DOMAIN outbox : outbox[i] = <<p, n>>
      BY <1>11, <3>1 DEF OneTrail
    <3>3. QED
      BY <1>4, <1>6, <3>2
  <2>3. QED
    BY <2>1, <2>2
<1>12. QED
  BY <1>8, <1>9, <1>10, <1>11 DEF OneTrail

\* Whatever fails or is retried, every batch has one audit row and one outbox event, both
\* tables list them in the same order, and each pool's appear in seq order.
THEOREM TrailCorrect == Spec => []OneTrail
<1>1. Init => OneTrail
  BY DEF Init, OneTrail
<1>2. Inv /\ OneTrail /\ [Next]_vars => OneTrail'
  <2>1. ASSUME OneTrail, UNCHANGED tables PROVE OneTrail'
    <3>1. log' = log /\ audit' = audit /\ outbox' = outbox
      BY <2>1 DEF tables
    <3>2. QED
      BY <2>1, <3>1 DEF OneTrail
  <2>2. QED
    BY <2>1, OnlyCommitWrites, CommitExtendsTrail
<1>3. QED
  BY <1>1, <1>2, WriteSetCorrect, PTL DEF Spec

\* A receipt never names a batch that is not committed, nor another caller's: it is the
\* caller's own batch, or the one its idempotency key first committed.
THEOREM ReceiptsCorrect == Spec => []ReplyTruthful
<1>1. Init => ReplyTruthful
  BY DEF Init, NoReply, ReplyTruthful
<1>2. Inv /\ ReplyTruthful /\ [Next]_vars => ReplyTruthful'
  <2> SUFFICES ASSUME Inv, ReplyTruthful, [Next]_vars PROVE ReplyTruthful'
    OBVIOUS
  <2>1. CASE CommitBatch
    <3>1. /\ ThisPool \in Pools /\ ThisSeq = Len(log[ThisPool]) + 1
          /\ log[ThisPool] \in Seq(StoredSet) /\ NewBatch \in StoredSet
          /\ Posted(NewBatch) = Posting(tx.req)
      BY <2>1, CommitEffect, OpenTransaction, NewBatchType, PostedIsPosting
    <3>2. log'[ThisPool] = Append(log[ThisPool], NewBatch)
      BY <2>1, <3>1, CommitEffect DEF Inv, TypeOK
    <3>3. ThisSeq \in DOMAIN log'[ThisPool] /\ log'[ThisPool][ThisSeq] = NewBatch
      BY <3>1, <3>2, AppendProperties, LenProperties
    <3>4. tx.batch.row.seq = ThisSeq
      BY <2>1 DEF CommitBatch, Inv, WriteSet, Past, BatchRow, BatchColumns
    <3>5. CASE reply' = NoReply
      BY <3>5 DEF ReplyTruthful, NoReply
    <3>6. CASE reply' = [req |-> tx.req, seq |-> ThisSeq, replayed |-> FALSE]
      BY <3>1, <3>3, <3>6 DEF ReplyTruthful, ThisPool
    <3>7. QED
      BY <2>1, <3>4, <3>5, <3>6 DEF CommitBatch
  <2>2. CASE CommitReplay
    <3>1. /\ tx.found \in DOMAIN log[ThisPool] /\ tx.req.key # None
          /\ log[ThisPool][tx.found].row.key = tx.req.key /\ log' = log
      BY <2>2 DEF CommitReplay, Inv, WriteSet, committed
    <3>2. CASE reply' = NoReply
      BY <3>2 DEF ReplyTruthful, NoReply
    <3>3. CASE reply' = [req |-> tx.req, seq |-> tx.found, replayed |-> TRUE]
      BY <3>1, <3>3 DEF ReplyTruthful, ThisPool
    <3>4. QED
      BY <2>2, <3>2, <3>3 DEF CommitReplay
  <2>3. CASE UNCHANGED tables /\ (reply' = reply \/ reply'.seq = None)
    BY <2>3 DEF tables, ReplyTruthful
  <2>4. CommitBatch \/ CommitReplay \/ reply' = reply \/ reply'.seq = None
    <3>1. Refuse \/ Fault => reply'.seq = None
      BY DEF Refuse, Refusal, Fault, NoReply
    <3>2. \A r \in Requests : Begin(r) \/ RejectInvalid(r) => reply'.seq = None
      BY DEF Begin, RejectInvalid, Refusal, NoReply
    <3>3. \A written : Advance(written) => reply' = reply
      BY DEF Advance
    <3>4. (\E a \in Persons : CreateAccount(a)) => reply' = reply
      BY DEF CreateAccount
    <3>5. Statement => CommitBatch \/ CommitReplay \/ reply' = reply \/ reply'.seq = None
      BY <3>1, <3>3 DEF Statement, FindReplay, CheckInvariants, InsertBatch, InsertEntries,
         UpsertSnapshots, WriteAudit, WriteOutboxEvent, WriteHeads
    <3>6. QED
      BY <3>1, <3>2, <3>4, <3>5 DEF Next, vars
  <2>5. QED
    BY <2>1, <2>2, <2>3, <2>4, OnlyCommitWrites
<1>3. QED
  BY <1>1, <1>2, WriteSetCorrect, PTL DEF Spec
=============================================================================
