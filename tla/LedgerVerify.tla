----------------------------- MODULE LedgerVerify -----------------------------
(***************************************************************************)
(* `dkp verify-ledger` (ledger.Verify over store.ReadTx): the replay that  *)
(* recomputes both hash chains and refolds the balance cache, beside a     *)
(* ledger that keeps committing and a database that somebody may have      *)
(* edited by other means.                                                  *)
(*                                                                         *)
(* Here a commit is one step: LedgerProperties shows that it may be read so*)
(* (Points).  The replay keeps its own steps, one per query whose failure  *)
(* it treats differently, over the snapshot its read transaction pinned.   *)
(* The edit is external: what an SQLite client can do to one row once the  *)
(* append-only triggers are out of its way.  There is one, and the ledger  *)
(* commits nothing after it.                                               *)
(*                                                                         *)
(* Not modelled: MaxFindings, which keeps every count and drops the wording*)
(* of the findings past it, and the page size.                             *)
(***************************************************************************)
EXTENDS LedgerProperties

CONSTANT Garbled     \* a chain head that is present and is not a hash
ASSUME GarbledAssumption == Garbled \notin Pools \cup {None}

EditedPart == [part : {"batch", "cache", "head", "audit"}, pool : Pools \cup {None}, seq : Nat]
ASSUME EditAssumption == None \notin EditedPart

VARIABLES
  edit,      \* history: [part, pool, seq] of the one edit made, or None
  view,      \* the snapshot the replay reads, with the edit it contains; None outside a replay
  left,      \* the pools still to be walked
  step,      \* the query the replay runs next, and the pool it runs it for
  found,     \* the findings
  unread,    \* history: a chain head could not be read
  verdict    \* "none", "clean", "findings" or "error"

replay == <<view, left, step, found, unread, verdict>>
verifyVars == <<committed, tx, reply, edit, replay>>

-----------------------------------------------------------------------------
(* What the replay finds in a pool, in the audit log, in the cache.          *)

Finding(kind, p, n) == [kind |-> kind, pool |-> p, seq |-> n]

PrevHash(rows, n) == IF n = 1 THEN NoHash ELSE rows[n - 1].hash
WantSeq(seqs, n) == IF n = 1 THEN 1 ELSE seqs[n - 1] + 1
LastSeq(s) == IF s = <<>> THEN 0 ELSE s[Len(s)].row.seq

ChainKinds == {"seq_gap", "prev_hash_mismatch", "batch_hash_mismatch", "entry_count_mismatch",
               "net_amount_mismatch", "entry_denorm_mismatch"}

\* Rehashes over the hash recomputed so far, so one bad row taints every row after it.
BatchHas_Running(kind, s, n) ==
  LET b == s[n]
      recomputed[m \in 0..n] ==
        IF m = 0 THEN NoHash ELSE BatchHash(recomputed[m - 1], s[m].row, s[m].entries)
  IN  \/ kind = "seq_gap" /\ b.row.seq # WantSeq([m \in DOMAIN s |-> s[m].row.seq], n)
      \/ kind = "batch_hash_mismatch" /\ b.hash # recomputed[n]

\* checkBatch: the row is hashed over its OWN prev_hash, and linked to the STORED hash before it
BatchHas(kind, s, n) ==
  LET b == s[n]
  IN  \/ kind = "seq_gap" /\ b.row.seq # WantSeq([m \in DOMAIN s |-> s[m].row.seq], n)
      \/ kind = "prev_hash_mismatch" /\ b.prev # PrevHash(s, n)
      \/ kind = "batch_hash_mismatch" /\ b.hash # BatchHash(b.prev, b.row, b.entries)
      \/ kind = "entry_count_mismatch" /\ b.row.count # Len(b.entries)
      \/ kind = "net_amount_mismatch" /\ ~(/\ RunsInRange(Amounts(b.entries))
                                           /\ b.row.net = Total(Amounts(b.entries)))
      \/ kind = "entry_denorm_mismatch" /\ \E i \in DOMAIN b.entries :
           b.entries[i].pool # b.row.pool \/ b.entries[i].seq # b.row.seq

BatchFindings(p, s) ==
  {Finding(x[1], p, s[x[2]].row.seq) :
     x \in {y \in ChainKinds \X DOMAIN s : BatchHas(y[1], s, y[2])}}

AuditKinds == {"audit_seq_gap", "audit_prev_hash_mismatch", "audit_hash_mismatch"}

\* checkAuditRow
AuditRowHas(kind, s, n) ==
  \/ kind = "audit_seq_gap" /\ s[n].seq # WantSeq([m \in DOMAIN s |-> s[m].seq], n)
  \/ kind = "audit_prev_hash_mismatch" /\ s[n].prev # PrevHash(s, n)
  \/ kind = "audit_hash_mismatch" /\ s[n].hash # AuditHash(s[n].prev, s[n].seq, s[n].batch)

AuditFindings(s) ==
  {Finding(x[1], None, s[x[2]].seq) :
     x \in {y \in AuditKinds \X DOMAIN s : AuditRowHas(y[1], s, y[2])}}

\* checkHead, when the head could be read: missing, present over no rows, different, unparseable
HeadFindings(kind, p, stored, last, n) == IF stored = last THEN {} ELSE {Finding(kind, p, n)}

CacheKinds == {"snapshot_orphan", "snapshot_missing", "balance_overflow", "snapshot_amount_mismatch",
               "snapshot_entry_count_mismatch", "snapshot_as_of_seq_mismatch"}

\* foldEntries: the entries of the whole log, in the order it adds them up
EntriesIn(s) == FlattenSeq([n \in DOMAIN s |-> s[n].entries])

\* Walks the cached rows and never asks for the ones that are not there.
CacheRowHas_OneWay(kind, row, es, h) ==
  LET touching == {i \in DOMAIN es : HolderOf(es[i]) = h}
  IN  /\ row # None
      /\ \/ kind = "snapshot_orphan" /\ touching = {}
         \/ kind = "snapshot_amount_mismatch" /\ row.amount # Total(AmountsOf(es, h))
         \/ kind = "snapshot_entry_count_mismatch" /\ row.count # Cardinality(touching)

\* checkSnapshots, both directions: row is the cached balance of h or None, es the whole log
CacheRowHas(kind, row, es, h) ==
  LET touching == {i \in DOMAIN es : HolderOf(es[i]) = h}
      overflowed == ~RunsInRange(AmountsOf(es, h))
      compared == row # None /\ touching # {}
  IN  \/ kind = "snapshot_orphan" /\ row # None /\ touching = {}
      \/ kind = "snapshot_missing" /\ row = None /\ touching # {} /\ ~overflowed
      \/ kind = "balance_overflow" /\ overflowed
      \/ kind = "snapshot_amount_mismatch" /\ compared /\ ~overflowed
           /\ row.amount # Total(AmountsOf(es, h))
      \/ kind = "snapshot_entry_count_mismatch" /\ compared /\ row.count # Cardinality(touching)
      \/ kind = "snapshot_as_of_seq_mismatch" /\ compared
           /\ row.asOf # Max({es[i].seq : i \in touching})

CacheFindings(p, s, cache) ==
  LET es == EntriesIn(s)
  IN  {Finding(x[1], p, 0) :
         x \in {y \in CacheKinds \X Holders : CacheRowHas(y[1], cache[y[2]], es, y[2])}}

-----------------------------------------------------------------------------
(* The replay.                                                               *)

VerifyInit ==
  /\ Init
  /\ edit = None /\ view = None /\ left = {} /\ step = <<"idle", None>>
  /\ found = {} /\ unread = FALSE /\ verdict = "none"

LedgerUnchanged == UNCHANGED <<committed, tx, reply, edit>>

\* Reads whatever has been committed by now: store.Q() instead of store.ReadTx.
Seen_Live == [log |-> log, snap |-> snap, head |-> head, audit |-> audit,
              auditHead |-> auditHead, edit |-> edit]

\* The snapshot the read transaction pinned.
Seen == view

\* ReadTx: the first query, ListPoolIDs, pins the snapshot.
BeginVerify ==
  /\ step[1] = "idle"
  /\ view' = [log |-> log, snap |-> snap, head |-> head, audit |-> audit,
              auditHead |-> auditHead, edit |-> edit]
  /\ left' = Pools /\ step' = <<"pool", None>>
  /\ found' = {} /\ unread' = FALSE /\ verdict' = "none"
  /\ LedgerUnchanged

Record(findings, next) ==
  /\ found' = found \cup findings
  /\ step' = next
  /\ LedgerUnchanged

WalkBatches(p) ==
  /\ step[1] = "pool" /\ p \in left
  /\ Record(BatchFindings(p, Seen.log[p]), <<"head", p>>)
  /\ UNCHANGED <<view, left, unread, verdict>>

\* A head that cannot be read at all is recorded as a finding too.
CheckLedgerHead(p) ==
  /\ step = <<"head", p>>
  /\ LET s == Seen.log[p]
     IN  \/ /\ Record(HeadFindings("ledger_head_mismatch", p, Seen.head[p],
                                   PrevHash(s, Len(s) + 1), LastSeq(s)), <<"cache", p>>)
            /\ UNCHANGED unread
         \/ /\ Record({Finding("ledger_head_mismatch", p, LastSeq(s))}, <<"cache", p>>)
            /\ unread' = TRUE
  /\ UNCHANGED <<view, left, verdict>>

CheckSnapshots(p) ==
  /\ step = <<"cache", p>>
  /\ Record(CacheFindings(p, Seen.log[p], Seen.snap[p]), <<"pool", None>>)
  /\ left' = left \ {p}
  /\ UNCHANGED <<view, unread, verdict>>

WalkAudit ==
  /\ step[1] = "pool" /\ left = {}
  /\ Record(AuditFindings(Seen.audit), <<"audit head", None>>)
  /\ UNCHANGED <<view, left, unread, verdict>>

CheckAuditHead ==
  /\ step[1] = "audit head"
  /\ LET s == Seen.audit
         n == IF s = <<>> THEN 0 ELSE s[Len(s)].seq
     IN  \/ /\ Record(HeadFindings("audit_head_mismatch", None, Seen.auditHead,
                                   PrevHash(s, Len(s) + 1), n), <<"report", None>>)
            /\ UNCHANGED unread
         \/ /\ Record({Finding("audit_head_mismatch", None, n)}, <<"report", None>>)
            /\ unread' = TRUE
  /\ UNCHANGED <<view, left, verdict>>

\* Report.Clean, and the exit code that follows from it.
Report ==
  /\ step[1] = "report"
  /\ verdict' = IF found = {} THEN "clean" ELSE "findings"
  /\ step' = <<"idle", None>>
  /\ UNCHANGED <<view, left, found, unread>>
  /\ LedgerUnchanged

\* Every other query that fails ends the replay with an error.
ReadFails ==
  /\ step[1] \in {"pool", "cache"}
  /\ verdict' = "error"
  /\ step' = <<"idle", None>>
  /\ UNCHANGED <<view, left, found, unread>>
  /\ LedgerUnchanged

-----------------------------------------------------------------------------
(* The ledger beside it.                                                     *)

\* What the write transaction of Commit leaves behind when it commits.
Post(r) ==
  /\ Len(audit) < MaxBatches /\ edit = None
  /\ LET p == r.pool
         n == NextPoolSeq(p)
         row == BatchRow(r, n, head[p])
         es == EntryRows(r, n)
         trail == AuditRow(Len(audit) + 1, <<p, n>>, auditHead)
     IN  /\ ValidRequest(r) /\ ~KeyCommitted(r)
         /\ InvariantsHold(r, n - 1) /\ UniqueIndexesAdmit(r) /\ UpsertAdmitted(snap[p], es)
         /\ log' = [log EXCEPT ![p] = Append(@, Stored(row, es))]
         /\ snap' = [snap EXCEPT ![p] = Upserted(snap[p], es, n)]
         /\ head' = [head EXCEPT ![p] = row.hash]
         /\ audit' = Append(audit, trail) /\ auditHead' = trail.hash
         /\ outbox' = Append(outbox, <<p, n>>)
  /\ UNCHANGED <<accounts, tx, reply, edit, replay>>

\* seed: the accounts the batches move points of.
Register ==
  /\ accounts # Accounts
  /\ accounts' = Accounts
  /\ UNCHANGED <<log, snap, head, audit, auditHead, outbox, tx, reply, edit, replay>>

\* One row of ledger_batch, with or without its ledger_entry rows, as an edit may leave it.
BatchEdits(b) ==
  {[b EXCEPT !.row.net = @ + 1], [b EXCEPT !.row.count = @ + 1], [b EXCEPT !.row.key = None],
   [b EXCEPT !.prev = Append(@, "other")], [b EXCEPT !.hash = Append(@, "other")],
   [b EXCEPT !.entries = Tail(@)], [b EXCEPT !.entries[1].amount = 0 - @],
   [b EXCEPT !.entries[1].seq = @ + 1],
   [b EXCEPT !.entries[1].account = CHOOSE a \in Accounts : a # b.entries[1].account]}

CacheEdits(row) ==
  IF row = None THEN {[amount |-> 0, count |-> 1, asOf |-> 1]}
  ELSE {None, [row EXCEPT !.amount = 0 - @ - 1], [row EXCEPT !.count = @ + 1],
        [row EXCEPT !.asOf = @ + 1]}

EditLedger(p) ==
  /\ \E n \in DOMAIN log[p] :
       /\ \/ \E b \in BatchEdits(log[p][n]) \ {log[p][n]} : log' = [log EXCEPT ![p][n] = b]
          \/ log' = [log EXCEPT ![p] = RemoveAt(@, n)]
          \/ n = Len(log[p]) /\ log' = [log EXCEPT ![p][n].row.seq = @ + 1]
       /\ edit' = [part |-> "batch", pool |-> p, seq |-> n]
  /\ UNCHANGED <<snap, head, audit, auditHead>>

EditCache(p) ==
  /\ \E h \in Holders : \E row \in CacheEdits(snap[p][h]) : snap' = [snap EXCEPT ![p][h] = row]
  /\ edit' = [part |-> "cache", pool |-> p, seq |-> 0]
  /\ UNCHANGED <<log, head, audit, auditHead>>

EditHead(p) ==
  /\ \E h \in {NoHash, <<Garbled>>} \ {head[p]} : head' = [head EXCEPT ![p] = h]
  /\ edit' = [part |-> "head", pool |-> p, seq |-> 0]
  /\ UNCHANGED <<log, snap, audit, auditHead>>

EditAudit ==
  /\ \/ /\ \E n \in DOMAIN audit :
             \/ audit' = RemoveAt(audit, n)
             \/ audit' = [audit EXCEPT ![n].batch[2] = @ + 1]
             \/ audit' = [audit EXCEPT ![n].prev = Append(@, "other")]
             \/ audit' = [audit EXCEPT ![n].hash = Append(@, "other")]
        /\ UNCHANGED auditHead
     \/ /\ \E h \in {NoHash, <<Garbled>>} \ {auditHead} : auditHead' = h
        /\ UNCHANGED audit
  /\ edit' = [part |-> "audit", pool |-> None, seq |-> 0]
  /\ UNCHANGED <<log, snap, head>>

Edit ==
  /\ edit = None
  /\ EditAudit \/ \E p \in Pools : EditLedger(p) \/ EditCache(p) \/ EditHead(p)
  /\ UNCHANGED <<accounts, outbox, tx, reply, replay>>

VerifyNext ==
  \/ Register
  \/ \E r \in Requests : Post(r)
  \/ Edit
  \/ BeginVerify \/ WalkAudit \/ CheckAuditHead \/ Report \/ ReadFails
  \/ \E p \in Pools : WalkBatches(p) \/ CheckLedgerHead(p) \/ CheckSnapshots(p)

VerifySpec == VerifyInit /\ [][VerifyNext]_verifyVars

-----------------------------------------------------------------------------
(* Properties.                                                               *)

Findings == [kind : ChainKinds \cup AuditKinds \cup CacheKinds
                      \cup {"ledger_head_mismatch", "audit_head_mismatch"},
             pool : Pools \cup {None}, seq : Nat]

\* The replay's own state; the tables it reads are typed by LedgerProperties until an edit.
ReplayTypeOK ==
  /\ edit \in EditedPart \cup {None}
  /\ left \subseteq Pools /\ found \subseteq Findings /\ unread \in BOOLEAN
  /\ step \in {"idle", "pool", "head", "cache", "audit head", "report"} \X (Pools \cup {None})
  /\ verdict \in {"none", "clean", "findings", "error"}

Reported == verdict \in {"clean", "findings"} /\ ~unread
EditedAt == view.edit

\* A ledger nobody edited gives no finding, however many commits land during the replay
\* (verify_ledger.go, one snapshot for the whole replay); balance_overflow is the exception
\* OverflowMeansCorrupt is about.
NoFalseAlarm ==
  Reported /\ EditedAt = None => \A f \in found : f.kind = "balance_overflow"

\* An edit to any one row, of either chain, of the cache or of a head, is never reported clean
\* (verify.go: what a replay catches is the partial and the accidental).
EveryEditIsFound == Reported /\ EditedAt # None => found # {}

\* What is found points at what was edited: the record of who moved the money is not accused
\* when the money was, nor one pool for another, and a bad batch is reported where it is and at
\* most once more, at the link of the batch after it (verify.go checkBatch).
FindingsPointAtTheEdit ==
  Reported /\ EditedAt # None =>
    \A f \in {f \in found : f.kind # "balance_overflow"} :
      /\ f.pool = EditedAt.pool
      /\ f.kind \in ChainKinds => f.seq \in {EditedAt.seq, EditedAt.seq + 1}

\* "NoAmountOverflow refuses to commit arithmetic that gets here; this is the replay noticing
\* that something did anyway" (verify.go FindingBalanceOverflow).
OverflowMeansCorrupt ==
  Reported /\ EditedAt = None => \A f \in found : f.kind # "balance_overflow"

\* "Verify returns an error only when it could not read -- a cancelled context, a dropped table,
\* an unparseable chain head" (verify.go): what could not be read is never a finding.
UnreadIsAnError ==
  verdict = "findings" => ~unread /\ \A p \in Pools : view.head[p] # <<Garbled>>
=============================================================================
