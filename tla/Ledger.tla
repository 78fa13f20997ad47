------------------------------- MODULE Ledger -------------------------------
(***************************************************************************)
(* The commit path of internal/ledger (ledger.Service.Commit) over the     *)
(* single-writer store of internal/store (Store.Tx).                       *)
(*                                                                         *)
(* A commit is ONE write transaction of several statements.  It is modelled*)
(* statement by statement: tx is the transaction that holds the only write *)
(* connection, its fields are the write set it has built so far, and       *)
(* nothing in the write set reaches the committed tables before TxCommit.  *)
(* Any failure -- a rule violation, a UNIQUE constraint, a driver error, a *)
(* cancelled context, a panic, a killed process -- discards the write set. *)
(*                                                                         *)
(* Committed state: log (ledger_batch with its ledger_entry rows), snap    *)
(* (balance_snapshot), head and auditHead (dkp_meta), audit (audit_log),   *)
(* outbox (event_outbox) and accounts (account).  reply is the answer the  *)
(* last finished call got; a lost answer is NoReply.                       *)
(*                                                                         *)
(* Definitions named X_Fault are X with one plausible programming mistake; *)
(* the specification never uses them.                                      *)
(***************************************************************************)
EXTENDS Admission, FiniteSets

CONSTANTS
  Pools,           \* pool ids
  Persons,         \* ids of accounts of kind 'person'
  SystemAccounts,  \* ids of the four seeded accounts of kind 'system'
  BalanceKinds,    \* balance kinds a pool may hold
  Keys,            \* idempotency keys
  EmptyKey,        \* the key "" : present but empty
  SourceRefs,      \* external source references
  Requests,        \* the CommitRequests callers may send
  MaxBatches       \* bound on the batches of all pools together

Accounts == Persons \cup SystemAccounts
Holders == Accounts \X BalanceKinds        \* the key of a balance within a pool
KindReversal == "reversal"
BatchKinds == {KindReversal, "award"}      \* "award" stands for every other kind
BatchIds == Pools \X (Nat \ {0})           \* a ULID, named by what ux_batch_seq makes unique

EntryProposals == [account : Accounts, kind : BalanceKinds, amount : Cp]
Rules == [rule : {"SumZero", "LargestRemainderSumsToDebit", "NonNegative", "Conserved"},
          scope : BalanceKinds \cup {None},
          floor : Int \cup {None}]

ASSUME RequestsAssumption ==
  Requests \subseteq [pool : Pools, kind : BatchKinds \cup {"unknown"},
                      reverses : BatchIds \cup {None}, key : Keys \cup {EmptyKey, None},
                      ref : SourceRefs \cup {None}, entries : Seq(EntryProposals),
                      rules : SUBSET Rules]
ASSUME NoneAssumption ==
  /\ None \notin Requests
  /\ None \notin Keys \cup {EmptyKey} \cup SourceRefs \cup BalanceKinds
  /\ None \notin BatchIds \cup Int
  /\ None \notin [amount : Int, count : Nat, asOf : Nat]
ASSUME AccountsAssumption ==           \* account.kind says which of the two a row is
  Persons \cap SystemAccounts = {} /\ IsFiniteSet(Accounts)
ASSUME BoundAssumption == MaxBatches \in Nat

VARIABLES
  accounts,   \* the account rows that exist
  log,        \* [Pools -> Seq(batch row)], ordered by seq
  snap,       \* [Pools -> [Holders -> snapshot row or None]]
  head,       \* [Pools -> ledger_head:<pool>], NoHash when the key is missing
  audit,      \* Seq(audit row), ordered by seq
  auditHead,  \* audit_head, NoHash when the key is missing
  outbox,     \* Seq(batch id), ordered by event_seq
  tx,         \* the write transaction
  reply       \* the last answer a caller received

committed == <<accounts, log, snap, head, audit, auditHead, outbox>>
vars == <<accounts, log, snap, head, audit, auditHead, outbox, tx, reply>>

\* The definitional balance: the sum of a holder's entries with seq <= n.
BalanceAsOfSeq(p, h, n) == Total([i \in 1..n |-> Delta(log[p][i].entries, h)])

-----------------------------------------------------------------------------
(* The two hash chains.  SHA-256 over prev and the canonical JSON of a row   *)
(* is collision free for every purpose here, so a hash is what it attests:   *)
(* the sequence of everything the chain covered so far.                      *)

NoHash == <<>>
BatchHash(prev, row, es) == Append(prev, [row |-> row, entries |-> es])
AuditHash(prev, seq, batch) == Append(prev, [seq |-> seq, batch |-> batch])

-----------------------------------------------------------------------------
(* What a request is checked against.                                        *)

\* validate: refused before a transaction is opened.
ValidRequest(r) == r.kind \in BatchKinds /\ r.key # EmptyKey

\* Forgets that a balance is a sum within one pool.
ReversalLinkage_AnyPool(r) ==
  /\ r.kind = KindReversal <=> r.reverses # None
  /\ r.reverses # None => \E q \in Pools : \E n \in DOMAIN log[q] : r.reverses = <<q, n>>

\* checkReversalLinkage
ReversalLinkage(r) ==
  /\ r.kind = KindReversal <=> r.reverses # None
  /\ r.reverses # None =>
       \E q \in Pools : \E n \in DOMAIN log[q] : r.reverses = <<q, n>> /\ q = r.pool

\* checkUniversal, in the order the code runs it
UniversalHold(r) ==
  /\ r.entries # <<>>
  /\ \A i \in DOMAIN r.entries : r.entries[i].amount # 0
  /\ RunsInRange(Amounts(r.entries))
  /\ ReversalLinkage(r)
  /\ \A i \in DOMAIN r.entries : r.entries[i].account \in accounts

InScope(inv, k) == inv.scope \in {None, k}

\* One sum over the whole batch, in which two kinds' errors can cancel.
SumsToZero_WholeBatch(r, inv) == Total(Amounts(r.entries)) = 0

\* checkSumsToZero: per balance kind, never over the whole batch
SumsToZero(r, inv) ==
  \A k \in {k \in KindsIn(r.entries) : InScope(inv, k)} :
    LET amounts == AmountsOfKind(r.entries, k)
    IN  RunsInRange(amounts) /\ Total(amounts) = 0

\* Reads the balances one batch behind the head.
FloorHolds_StaleRead(r, inv, headSeq) ==
  /\ inv.floor # None
  /\ \A h \in {h \in Touched(r.entries) : InScope(inv, h[2])} :
       h[1] \notin SystemAccounts /\ Delta(r.entries, h) < 0 =>
         BalanceAsOfSeq(r.pool, h, IF headSeq = 0 THEN 0 ELSE headSeq - 1) + Delta(r.entries, h) >= inv.floor

\* checkNonNegative: a floor constrains a deduction, and system accounts are exempt
FloorHolds(r, inv, headSeq) ==
  /\ inv.floor # None
  /\ \A h \in {h \in Touched(r.entries) : InScope(inv, h[2])} :
       /\ RunsInRange(AmountsOf(r.entries, h))
       /\ h[1] \notin SystemAccounts =>
            LET delta == Delta(r.entries, h)
                after == BalanceAsOfSeq(r.pool, h, headSeq) + delta
            IN  after \in Cp /\ (delta < 0 => after >= inv.floor)

\* checkDeclared: a scope nothing touches and a rule without a checker both refuse
DeclaredHolds(r, inv, headSeq) ==
  /\ inv.scope # None => inv.scope \in KindsIn(r.entries)
  /\ \/ inv.rule \in {"SumZero", "LargestRemainderSumsToDebit"} /\ SumsToZero(r, inv)
     \/ inv.rule = "NonNegative" /\ FloorHolds(r, inv, headSeq)

InvariantsHold(r, headSeq) ==
  UniversalHold(r) /\ \A inv \in r.rules : DeclaredHolds(r, inv, headSeq)

\* ux_batch_idem without its pool column.
UniqueIndexesAdmit_AnyPool(r) ==
  /\ \A q \in Pools : \A n \in DOMAIN log[q] : r.key # None => log[q][n].row.key # r.key
  /\ \A n \in DOMAIN log[r.pool] : r.ref # None => log[r.pool][n].row.ref # r.ref
  /\ r.reverses # None =>
       \A q \in Pools : \A n \in DOMAIN log[q] : log[q][n].row.reverses # r.reverses

\* ux_batch_srcref, ux_batch_idem, ux_batch_reverses (ux_batch_seq holds by NextPoolSeq)
UniqueIndexesAdmit(r) ==
  /\ \A n \in DOMAIN log[r.pool] :
       /\ r.ref # None => log[r.pool][n].row.ref # r.ref
       /\ r.key # None => log[r.pool][n].row.key # r.key
  /\ r.reverses # None =>
       \A q \in Pools : \A n \in DOMAIN log[q] : log[q][n].row.reverses # r.reverses

KeyCommitted(r) == \E n \in DOMAIN log[r.pool] : r.key # None /\ log[r.pool][n].row.key = r.key

-----------------------------------------------------------------------------
(* The rows a commit writes.                                                 *)

\* materialise: the denormalised entry rows of the batch at seq n
EntryRows(r, n) ==
  [i \in DOMAIN r.entries |->
     [account |-> r.entries[i].account, kind |-> r.entries[i].kind,
      amount |-> r.entries[i].amount, pool |-> r.pool, seq |-> n]]

\* materialise: the columns of the batch row
BatchColumns(r, n) ==
  [pool |-> r.pool, seq |-> n, kind |-> r.kind, reverses |-> r.reverses, key |-> r.key,
   ref |-> r.ref, count |-> Len(r.entries), net |-> Total(Amounts(r.entries))]

\* write: the batch row as InsertLedgerBatch gets it, linked to the head it was read at
BatchRow(r, n, prev) ==
  [row |-> BatchColumns(r, n), prev |-> prev,
   hash |-> BatchHash(prev, BatchColumns(r, n), EntryRows(r, n))]

\* upsertSnapshots: one additive upsert per (account, balance kind) the batch touches
CachedAmount(row) == IF row = None THEN 0 ELSE row.amount
CachedCount(row) == IF row = None THEN 0 ELSE row.count

\* ON CONFLICT overwrites the row instead of adding to it.
Upserted_Replaces(cache, es, n) ==
  [h \in Holders |->
     IF h \in Touched(es)
     THEN [amount |-> Delta(es, h), count |-> CachedCount(cache[h]) + 1, asOf |-> n]
     ELSE cache[h]]

Upserted(cache, es, n) ==
  [h \in Holders |->
     IF h \in Touched(es)
     THEN [amount |-> CachedAmount(cache[h]) + Delta(es, h),
           count  |-> CachedCount(cache[h]) + Cardinality({i \in DOMAIN es : HolderOf(es[i]) = h}),
           asOf   |-> n]
     ELSE cache[h]]

\* Only the delta is checked, never the running total.
UpsertAdmitted_DeltaOnly(cache, es) == \A h \in Touched(es) : RunsInRange(AmountsOf(es, h))

\* addCentipoints refuses the delta; the STRICT INTEGER column refuses the running total
UpsertAdmitted(cache, es) ==
  \A h \in Touched(es) : /\ RunsInRange(AmountsOf(es, h))
                         /\ CachedAmount(cache[h]) + Delta(es, h) \in Cp

AuditRow(n, batch, prev) ==
  [seq |-> n, batch |-> batch, prev |-> prev, hash |-> AuditHash(prev, n, batch)]

-----------------------------------------------------------------------------
(* The transaction.                                                          *)

Stages == {"idle", "replay", "check", "insert", "entries", "snapshots",
           "audit", "outbox", "heads", "commit"}

\* No transaction holds the write connection.  Every other field is a piece of the
\* write set, None until the statement that writes it has run.
Idle == [stage |-> "idle", req |-> None, found |-> None, batch |-> None, entries |-> None,
         cache |-> None, audit |-> None, event |-> None, heads |-> None]
NoReply == [req |-> None, seq |-> None, replayed |-> FALSE]
Refusal(r) == [req |-> r, seq |-> None, replayed |-> FALSE]

Init ==
  /\ accounts = SystemAccounts
  /\ log = [p \in Pools |-> <<>>]
  /\ snap = [p \in Pools |-> [h \in Holders |-> None]]
  /\ head = [p \in Pools |-> NoHash]
  /\ audit = <<>>
  /\ auditHead = NoHash
  /\ outbox = <<>>
  /\ tx = Idle
  /\ reply = NoReply

\* InsertAccount, in a transaction of its own, by internal/seed.
CreateAccount(a) ==
  /\ tx.stage = "idle"
  /\ a \notin accounts
  /\ accounts' = accounts \cup {a}
  /\ UNCHANGED <<log, snap, head, audit, auditHead, outbox, tx, reply>>

\* Commit: validate, then BEGIN IMMEDIATE on the one write connection.
Begin(r) ==
  /\ tx.stage = "idle"
  /\ ValidRequest(r)
  /\ Len(audit) < MaxBatches \/ KeyCommitted(r)
  /\ tx' = [Idle EXCEPT !.req = r, !.stage = IF r.key = None THEN "check" ELSE "replay"]
  /\ reply' = NoReply
  /\ UNCHANGED committed

\* The other half of validate: the caller is told before any transaction begins.
RejectInvalid(r) ==
  /\ tx.stage = "idle"
  /\ ~ValidRequest(r)
  /\ reply' = Refusal(r)
  /\ UNCHANGED <<committed, tx>>

\* The error reaches the caller and the transaction is never rolled back.
Refuse_Leaked ==
  /\ reply' = Refusal(tx.req)
  /\ UNCHANGED <<committed, tx>>

\* The rest of the function returns an error: txRaw rolls back, the caller is told.
Refuse ==
  /\ tx' = Idle
  /\ reply' = Refusal(tx.req)
  /\ UNCHANGED committed

Advance(written) ==
  /\ tx' = written
  /\ UNCHANGED <<committed, reply>>

\* Answers with whatever batch of the pool the query happened to return.
FindReplay_AnyBatch ==
  /\ tx.stage = "replay"
  /\ IF log[tx.req.pool] # <<>>
     THEN Advance([tx EXCEPT !.stage = "commit", !.found = 1])
     ELSE Advance([tx EXCEPT !.stage = "check"])

\* Looks the key up outside the transaction, before the first attempt had committed.
FindReplay_Misses == tx.stage = "replay" /\ Advance([tx EXCEPT !.stage = "check"])

\* findReplay
FindReplay ==
  /\ tx.stage = "replay"
  /\ \/ /\ KeyCommitted(tx.req)
        /\ \E n \in DOMAIN log[tx.req.pool] :
             /\ log[tx.req.pool][n].row.key = tx.req.key
             /\ Advance([tx EXCEPT !.stage = "commit", !.found = n])
     \/ /\ ~KeyCommitted(tx.req)
        /\ Advance([tx EXCEPT !.stage = "check"])

\* write: NextPoolSeq is max(seq) + 1, so the head the rules read at is max(seq)
NextPoolSeq(p) == Len(log[p]) + 1

CheckInvariants ==
  /\ tx.stage = "check"
  /\ LET headSeq == NextPoolSeq(tx.req.pool) - 1
     IN  \/ InvariantsHold(tx.req, headSeq) /\ Advance([tx EXCEPT !.stage = "insert"])
         \/ ~InvariantsHold(tx.req, headSeq) /\ Refuse

InsertBatch ==
  /\ tx.stage = "insert"
  /\ LET r == tx.req
         row == BatchRow(r, NextPoolSeq(r.pool), head[r.pool])
     IN  \/ /\ UniqueIndexesAdmit(r)
            /\ Advance([tx EXCEPT !.stage = "entries", !.batch = row])
         \/ ~UniqueIndexesAdmit(r) /\ Refuse

InsertEntries ==
  /\ tx.stage = "entries"
  /\ Advance([tx EXCEPT !.stage = "snapshots",
                        !.entries = EntryRows(tx.req, tx.batch.row.seq)])

UpsertSnapshots ==
  /\ tx.stage = "snapshots"
  /\ LET cache == snap[tx.req.pool]
     IN  \/ /\ UpsertAdmitted(cache, tx.entries)
            /\ Advance([tx EXCEPT !.stage = "audit",
                                  !.cache = Upserted(cache, tx.entries, tx.batch.row.seq)])
         \/ ~UpsertAdmitted(cache, tx.entries) /\ Refuse

WriteAudit ==
  /\ tx.stage = "audit"
  /\ LET row == AuditRow(Len(audit) + 1, <<tx.batch.row.pool, tx.batch.row.seq>>, auditHead)
     IN  Advance([tx EXCEPT !.stage = "outbox", !.audit = row])

WriteOutboxEvent ==
  /\ tx.stage = "outbox"
  /\ Advance([tx EXCEPT !.stage = "heads", !.event = <<tx.batch.row.pool, tx.batch.row.seq>>])

\* Advances the ledger head to the hash it already had.
WriteHeads_Stale ==
  /\ tx.stage = "heads"
  /\ Advance([tx EXCEPT !.stage = "commit",
                        !.heads = [ledger |-> tx.batch.prev, audit |-> tx.audit.hash]])

WriteHeads ==
  /\ tx.stage = "heads"
  /\ Advance([tx EXCEPT !.stage = "commit",
                        !.heads = [ledger |-> tx.batch.hash, audit |-> tx.audit.hash]])

\* Publishes the batch a second time when its caller retries.
CommitReplay_Republishes ==
  /\ tx.stage = "commit"
  /\ tx.found # None
  /\ outbox' = Append(outbox, <<tx.req.pool, tx.found>>)
  /\ tx' = Idle
  /\ reply' = [req |-> tx.req, seq |-> tx.found, replayed |-> TRUE]
  /\ UNCHANGED <<accounts, log, snap, head, audit, auditHead>>

\* COMMIT with nothing written: the receipt of the first batch, unless it is lost.
CommitReplay ==
  /\ tx.stage = "commit"
  /\ tx.found # None
  /\ tx' = Idle
  /\ reply' \in {[req |-> tx.req, seq |-> tx.found, replayed |-> TRUE], NoReply}
  /\ UNCHANGED committed

\* A batch with its ledger_entry rows.
Stored(b, es) == [row |-> b.row, prev |-> b.prev, hash |-> b.hash, entries |-> es]

\* COMMIT of the write set.  The process may die after it and before the caller hears.
CommitBatch ==
  /\ tx.stage = "commit"
  /\ tx.found = None
  /\ LET p == tx.req.pool
     IN  /\ log' = [log EXCEPT ![p] = Append(@, Stored(tx.batch, tx.entries))]
         /\ snap' = [snap EXCEPT ![p] = tx.cache]
         /\ head' = [head EXCEPT ![p] = tx.heads.ledger]
  /\ audit' = Append(audit, tx.audit)
  /\ auditHead' = tx.heads.audit
  /\ outbox' = Append(outbox, tx.event)
  /\ tx' = Idle
  /\ reply' \in {[req |-> tx.req, seq |-> tx.batch.row.seq, replayed |-> FALSE], NoReply}
  /\ UNCHANGED accounts

\* A statement or the COMMIT fails, the context is cancelled, fn panics, or the process
\* is killed: whatever the transaction had written is gone.
Fault ==
  /\ tx.stage # "idle"
  /\ tx' = Idle
  /\ reply' = NoReply
  /\ UNCHANGED committed

Statement ==
  \/ FindReplay \/ CheckInvariants \/ InsertBatch \/ InsertEntries \/ UpsertSnapshots
  \/ WriteAudit \/ WriteOutboxEvent \/ WriteHeads \/ CommitReplay \/ CommitBatch

Next ==
  \/ \E a \in Persons : CreateAccount(a)
  \/ \E r \in Requests : Begin(r) \/ RejectInvalid(r)
  \/ Statement
  \/ Fault

Spec == Init /\ [][Next]_vars

\* database/sql runs the callback's next statement once the last one has returned.
FairSpec == Spec /\ WF_vars(Statement)
=============================================================================
