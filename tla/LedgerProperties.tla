--------------------------- MODULE LedgerProperties ---------------------------
(***************************************************************************)
(* What the commit path promises: types, the hash chains, the balance      *)
(* cache, the audit trail and outbox, the answers callers get, the declared*)
(* rules read over the standings, and that it implements PointsLedger.     *)
(***************************************************************************)
EXTENDS Ledger

-----------------------------------------------------------------------------
(* The rows of the tables.                                                   *)

Seqs == Nat \ {0}
RequestFields == [pool : Pools, kind : BatchKinds, reverses : BatchIds \cup {None},
                  key : Keys \cup {None}, ref : SourceRefs \cup {None}]
BatchColumnSet == [pool : Pools, seq : Seqs, kind : BatchKinds, reverses : BatchIds \cup {None},
                   key : Keys \cup {None}, ref : SourceRefs \cup {None}, count : Seqs, net : Cp]
EntryRowSet == [account : Accounts, kind : BalanceKinds, amount : Cp, pool : Pools, seq : Seqs]
LedgerHashes == Seq([row : BatchColumnSet, entries : Seq(EntryRowSet)])
AuditHashes == Seq([seq : Seqs, batch : BatchIds])
BatchRowSet == [row : BatchColumnSet, prev : LedgerHashes, hash : LedgerHashes]
StoredSet == [row : BatchColumnSet, prev : LedgerHashes, hash : LedgerHashes,
              entries : Seq(EntryRowSet)]
SnapshotRowSet == [amount : Cp, count : Seqs, asOf : Seqs]
Caches == [Holders -> SnapshotRowSet \cup {None}]
AuditRowSet == [seq : Seqs, batch : BatchIds, prev : AuditHashes, hash : AuditHashes]
Optional(S) == S \cup {None}
Transactions ==
  [stage : Stages, req : Optional(Requests), found : Optional(Seqs), batch : Optional(BatchRowSet),
   entries : Optional(Seq(EntryRowSet)), cache : Optional(Caches), audit : Optional(AuditRowSet),
   event : Optional(BatchIds), heads : Optional([ledger : LedgerHashes, audit : AuditHashes])]
Replies == [req : Optional(Requests), seq : Optional(Seqs), replayed : BOOLEAN]

\* Every variable holds rows of its table; every amount in them, running totals included,
\* fits an int64 (addCentipoints and the STRICT columns, commit.go upsertSnapshots).
TypeOK ==
  /\ accounts \in SUBSET Accounts
  /\ log \in [Pools -> Seq(StoredSet)]
  /\ snap \in [Pools -> Caches]
  /\ head \in [Pools -> LedgerHashes]
  /\ audit \in Seq(AuditRowSet) /\ auditHead \in AuditHashes
  /\ outbox \in Seq(BatchIds)
  /\ tx \in Transactions
  /\ reply \in Replies

-----------------------------------------------------------------------------
(* State invariants.                                                         *)

LinkedAt(p, n) ==
  LET b == log[p][n]
  IN  /\ b.row.pool = p /\ b.row.seq = n
      /\ b.prev = IF n = 1 THEN NoHash ELSE log[p][n - 1].hash
      /\ b.hash = BatchHash(b.prev, b.row, b.entries)
      /\ b.row.count = Len(b.entries) /\ b.row.net = Total(Amounts(b.entries))
      /\ \A i \in DOMAIN b.entries : b.entries[i].pool = p /\ b.entries[i].seq = n
LastHash(s) == IF s = <<>> THEN NoHash ELSE s[Len(s)].hash
AuditLinkedAt(i) ==
  /\ audit[i].seq = i
  /\ audit[i].prev = IF i = 1 THEN NoHash ELSE audit[i - 1].hash
  /\ audit[i].hash = AuditHash(audit[i].prev, i, audit[i].batch)

\* Both chains verify after any history of commits, refusals, faults and replays: gapless
\* seq, prev the hash before it, hash what BatchHash recomputes, denormalised columns in
\* agreement, and the stored heads the hashes of the last rows (commit.go write, writeHead).
ChainIntact ==
  /\ \A p \in Pools : /\ \A n \in DOMAIN log[p] : LinkedAt(p, n)
                      /\ head[p] = LastHash(log[p])
  /\ \A i \in DOMAIN audit : AuditLinkedAt(i)
  /\ auditHead = LastHash(audit)

EntriesOf(p, h) ==
  {x \in UNION {{n} \X DOMAIN log[p][n].entries : n \in DOMAIN log[p]} :
     HolderOf(log[p][x[1]].entries[x[2]]) = h}

\* The additive cache equals the fold of the whole log, in amount, entry count and the seq
\* it is current at, and a holder nothing touched has no row (snapshot.go, ADR-0023).
CacheIsFold ==
  \A p \in Pools, h \in Holders :
    LET touched == EntriesOf(p, h)
    IN  snap[p][h] = IF touched = {} THEN None
                     ELSE [amount |-> BalanceAsOfSeq(p, h, Len(log[p])),
                           count  |-> Cardinality(touched),
                           asOf   |-> Max({x[1] : x \in touched})]

\* Audit rows, outbox events and batches are one to one, in one order, that of seq within a
\* pool: no batch is unaudited, and a retry neither audits nor publishes a batch again.
OneTrail ==
  /\ Len(outbox) = Len(audit) /\ \A i \in DOMAIN audit : outbox[i] = audit[i].batch
  /\ \A i, j \in DOMAIN outbox : i < j /\ outbox[i][1] = outbox[j][1] => outbox[i][2] < outbox[j][2]
  /\ \A i \in DOMAIN outbox : outbox[i][2] \in DOMAIN log[outbox[i][1]]
  /\ \A p \in Pools : \A n \in DOMAIN log[p] : \E i \in DOMAIN outbox : outbox[i] = <<p, n>>

\* What a caller asked for, without the columns the service assigns.
Essence(r, es) ==
  [kind |-> r.kind, key |-> r.key, ref |-> r.ref, reverses |-> r.reverses,
   entries |-> [i \in DOMAIN es |->
                  [account |-> es[i].account, kind |-> es[i].kind, amount |-> es[i].amount]]]
Posting(r) == Essence(r, r.entries)
Posted(b) == Essence(b.row, b.entries)

\* A receipt names a committed batch: the caller's own, or for a replay the first one its
\* key committed (commit.go findReplay).
ReplyTruthful ==
  reply.seq # None =>
    /\ reply.seq \in DOMAIN log[reply.req.pool]
    /\ LET b == log[reply.req.pool][reply.seq]
       IN  IF reply.replayed
           THEN reply.req.key # None /\ b.row.key = reply.req.key
           ELSE Posted(b) = Posting(reply.req)

-----------------------------------------------------------------------------
(* Action properties.                                                        *)

Refused == tx.stage # "idle" /\ tx'.stage = "idle" /\ reply' = Refusal(tx.req)
Committed(p) == Len(log'[p]) > Len(log[p])

\* A call whose key is already committed in its pool is never refused, whatever its body
\* says now and whichever answer got lost: it can only be replayed or hit an I/O fault.
RetryIsAnswered == [][Refused => ~KeyCommitted(tx.req)]_vars

History(p) == [n \in DOMAIN log[p] |->
  [id |-> <<p, n>>, key |-> log[p][n].row.key, ref |-> log[p][n].row.ref,
   reverses |-> log[p][n].row.reverses, entries |-> log[p][n].entries]]
Admitted(r) == Admits(History(r.pool), accounts, Persons, r)

\* Past validate, which reads no table, Commit accepts what the history of the pool admits and
\* refuses nothing else: not for what the cache or another pool holds, an order of checks, or where
\* among the statements it is found out (checkInvariants, the indexes, upsertSnapshots).
DecidesOnHistory ==
  [][(Refused => ~Admitted(tx.req)) /\ \A p \in Pools : Committed(p) => Admitted(tx.req)]_vars

Standing(cache, h) == CachedAmount(cache[h])
PoolTotal(cache, k) == MapThenSumSet(LAMBDA a : Standing(cache, <<a, k>>), Accounts)

\* A batch committed under SumZero or LargestRemainderSumsToDebit moves no points into or
\* out of any balance kind in its scope: the standings of all accounts keep their sum.
ZeroSumConserves ==
  [][\A p \in Pools : Committed(p) =>
       \A inv \in tx.req.rules : inv.rule \in {"SumZero", "LargestRemainderSumsToDebit"} =>
         \A k \in {k \in BalanceKinds : InScope(inv, k)} :
           PoolTotal(snap'[p], k) = PoolTotal(snap[p], k)]_vars

\* A batch committed under NonNegative leaves no person it took points from below the floor,
\* as the standings show it.  (The rule reads the log at the head, before the batch is in it.)
FloorGuards ==
  [][\A p \in Pools : Committed(p) =>
       \A inv \in tx.req.rules : inv.rule = "NonNegative" =>
         \A h \in {h \in Persons \X BalanceKinds : InScope(inv, h[2])} :
           Standing(snap'[p], h) < Standing(snap[p], h) => Standing(snap'[p], h) >= inv.floor]_vars

\* Whichever rules a batch declares, they hold of what its members see afterwards, not only of
\* the proposal checkDeclared looked at.
DeclaredRulesHold == ZeroSumConserves /\ FloorGuards

\* What the comment over write says: past the rules only I/O fails (commit.go:370-371).  The
\* UNIQUE indexes and the overflow checks of upsertSnapshots refuse requests there too.
PastTheRulesOnlyIO ==
  [][tx.stage \in Stages \ {"idle", "replay", "check"} /\ tx'.stage = "idle" =>
       reply'.seq # None \/ reply' = NoReply]_vars

-----------------------------------------------------------------------------
(* Liveness and refinement.                                                  *)

\* Whatever a commit runs into, the one write connection is given back (tx.go txRaw).
WriterReleased == (tx.stage # "idle") ~> (tx.stage = "idle")

Points == INSTANCE PointsLedger WITH
  Batches   <- {Posting(r) : r \in Requests},
  Moves     <- Delta,
  history   <- [p \in Pools |-> [n \in DOMAIN log[p] |-> Posted(log[p][n])]],
  standings <- [p \in Pools |-> [h \in Holders |-> Standing(snap[p], h)]],
  trail     <- [i \in DOMAIN audit |-> audit[i].batch]

\* Statement by statement, with faults between any two of them, the commit path is the
\* abstract ledger in which a batch, its standings and its trail appear in one step.
PointsSpec == Points!Spec
=============================================================================
