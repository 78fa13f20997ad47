# A formal model of Dragon Kill Party

This directory holds TLA+ specifications of the parts of this repository that
decide whether a guild's points survive and who may move them: the append-only
ledger, the tool that replays it, the upgrade that runs at every boot, the thirteen
point strategies and the pool that composes them, and the credentials, permissions
and boots behind every request. They are checked with TLC on small instances. For every value of the constants TLAPS proves
the ledger's promises, sums and decisions, the replay's verdicts, the upgrade, access, the
allocator, and what is promised of a pool. Paths below are relative to the
repository root.

| module | what it is |
|---|---|
| `Money` | centipoint sums that refuse to wrap, subtotals per holder and per balance kind |
| `PointsLedger` | abstract specification: what the ledger promises, with no transaction in it |
| `Admission` | what a commit decides of a request, read over the pool's history alone |
| `Ledger` | `ledger.Service.Commit` over `store.Tx`, one action per statement |
| `LedgerProperties` | its type invariant, safety, action and liveness properties, and the refinement of `PointsLedger` |
| `LedgerProofs` | theorems about it: chains, retries, receipts, the refinement |
| `MoneyProofs` | lemmas about totals and subtotals, and the two induction lemmas they rest on |
| `BalanceProofs` | theorems about what the ledger adds up: the cache, the declared rules, its decisions |
| `MCLedger` | the requests and small sets TLC uses |
| `Upgrade` | `migrate.Runner.Migrate` inside `dkp serve` and `dkp migrate`, with the disk and process crashes |
| `UpgradeProperties`, `UpgradeProofs`, `MCUpgrade` | its properties, the theorems about it and its instance |
| `LedgerVerify`, `MCLedgerVerify` | `dkp verify-ledger` beside commits and one edit of the database, its properties and its instance |
| `VerifyProofs` | the theorems about the replay |
| `Allocator`, `AllocatorProofs` | `ledger.Allocate`, the largest-remainder split, and that it is exact and fair |
| `Planning` | what every strategy is built from: `strategy.Ctx`, proposals, the helpers of `common.go` |
| `EarnRules`, `OverTimeRules`, `SpendRules` | the planners of the thirteen strategies, by the question they answer |
| `Bidding` | tiers, bid checks and the settlements of the three auctions and the roll |
| `Pool` | a pool and its callers: proposals that wait, runs, reversals, changed rules, sessions of bids |
| `PoolProperties`, `PoolProofs`, `MCPool` | its properties, the theorems about it and its instance |
| `Credentials`, `Authorization` | what accepts a session or a token and stamps it; what a permission check reads and a reconcile writes |
| `Access` | boots, the root key, sign-in and sign-out, requests and the guild row over one database |
| `AccessProperties`, `AccessProofs`, `MCAccess` | its properties, the theorems about it and its instance |

A definition named `X_Fault` is `X` with one plausible mistake in it (a dropped
guard, a stale read, a missing reset). No specification uses them; each shows that
some property would notice.

## 1. Inventory

One Go binary, one SQLite file in WAL mode, one connection that writes
(`store.Tx`, `BEGIN IMMEDIATE`) and a pool of connections that read (`store.ReadTx`
pins a snapshot). Money moves only through `ledger.Service.Commit`. Strategies are
pure functions that plan a `BatchProposal`; the ledger decides whether it is legal.

| component | state | operations | interacts with | what is hard |
|---|---|---|---|---|
| **Ledger commit path** `internal/ledger` | `ledger_batch`, `ledger_entry`, `balance_snapshot`, `audit_log`, `event_outbox`, two chain heads in `dkp_meta` | `Commit` (replay lookup, seq, rules, five inserts, heads) | store, strategies, schema indexes and triggers | partial failure inside a transaction; retries after a lost answer; stale balances; sums that wrap; rules checked per kind; an additive cache beside the log |
| **Store** `internal/store` | connections, WAL, `dkp_meta` | `Open`, `Tx`, `ReadTx`, `Checkpoint`, `Close` | everything | releasing the writer on every path, panics, failed COMMIT |
| **Ledger verification** `internal/ledger/verify.go`, `cmd/dkp/verify_ledger.go` | none of its own | `Verify` over one snapshot | store | commits during the replay; one bad row tainting others; what a failed read means |
| **Boot-time upgrade** `internal/migrate`, `cmd/dkp/migrate.go` | the database file and its `-wal`, `.restore-pending`, `.restoring`, `backups/` | resume, status, snapshot, apply one, check, restore | store, serve, another process on the file | a kill between any two steps, torn files, a failed restore, a server running beside it |
| **Server boot, readiness** `cmd/dkp/serve.go`, `internal/api/ready.go` | migration status, reconcile verdict | boot order, `/readyz` ladder, drain | migrate, authz, auth | which failure stops a boot and which serves degraded |
| **Allocator** `internal/ledger/allocate.go` | none | `Allocate` | strategies | 128-bit products, remainders, sign, order independence |
| **Strategies** `internal/strategy` | none (pure) | plan attendance, awards, runs, reversals; check bids, settle auctions and rolls | ledger, allocator | a plan that waits while other batches commit; runs planned again; debts; ties, rebids, arrival order; what a bidder can spend when the award lands |
| **Credentials** `internal/auth` | sessions, tokens, epochs, keyring file | resolve, touch, revoke, create session, first-boot key | store, api | revocation racing a touch; epochs; two first boots |
| **Authorization** `internal/authz` | `permission`, `role`, `role_permission`, boot verdict | `Reconcile`, `Check`, mint | store, api | rollback half-way, keys another build retired, order of refusals |
| **Guild settings** `internal/guild` | `guild` row, ETag | `Get`, `Update` with `If-Match` | store, api | lost update |
| **Spot swaps** `internal/swap` | none | price a swap | strategies | rounding |
| **Identifiers, cursors** `internal/core` | ULID entropy under a lock | `New`, cursor encode/decode | all | order of ids minted concurrently |
| **Standings, RNG, seed, HTTP, audit kinds, lints, web** | none of their own that a model would add to | reads, decoding, generation, build gates | | single queries, presentation or build time |

Properties that make each correct, in a line: *ledger* – both chains verify, the
cache is the fold of the log, a batch and everything derived from it appear
together or not at all, a key posts once and its retry is answered, a declared rule
holds of the standings; *store* – the writer is always released; *verification* –
no false alarm, no missed edit, findings where the edit is; *upgrade* – nothing
acknowledged is lost, a restore puts back exactly the snapshot, nobody serves a
database whose restore is unfinished, protection never shrinks; *allocator* – nobody
is a centipoint from their exact share; *strategies* – no stale plan makes a debt,
every mistake can be reversed exactly, a run planned again is the same run, no credit
expires twice; *auctions* – a settlement is a function of the bids, the balances at
its opening and the draws, and nobody bids against themselves; *credentials* – no
touch undoes a revocation, a sign-out ends exactly what existed; *boot* – one root
key; *authorization* – no build changes what a guild granted; *guild* – no lost
update.

## 2. Plan

1. **Ledger** (done): the heart of the program, with its abstract specification and
   its proofs. `Money` and `PointsLedger` come first, then `Ledger`.
2. **Upgrade** (done, model-checked, then proved as item 6): what can destroy a guild's data.
3. **LedgerVerify** (done, model-checked, then proved as item 8): extends `Ledger`, reading a commit as one
   step, which the refinement of `PointsLedger` justifies.
4. **Strategies and pools** (done, model-checked, then proved as items 9 and 10): the allocator, then the planners,
   then settlement, then `Pool`, which composes them with a caller that keeps a plan
   before it commits it. `Pool` takes a commit as the one decision `Ledger` makes of it;
   `Admission` says which decision, and item 11 proves it of both.
5. **Access** (done, checked and proved): credentials, reconcile and `Check`,
   first-boot key creation and the guild's `If-Match` writer, over one clock and one
   database, because what they get wrong they get wrong between each other's steps.
6. **Upgrade proofs** (done): all five properties, for every build and migration.
7. **Sums** (done): `MoneyProofs`, and with it what item 1 left to the runs, the cache
   and the declared rules.
8. **Replay proofs** (done): no false alarm, no missed edit, findings where the edit is.
9. **Allocator proofs** (done): exact and fair, for any shares and integer width.
10. **Pool proofs** (done): types, standings, runs, grants, expiries, splits, debts and
    the settlements.
11. **Decisions** (done): that `Ledger` decides by the history of the pool alone, that
    `Pool` decides the same, and from it what is never refused (reversals, affordable
    sales, fresh runs) away from the limit of the integers (section 6).

## 3. Ledger

### State and steps

| model | code |
|---|---|
| `log[p]` | `ledger_batch` of pool `p` by `seq`, each row with its `ledger_entry` rows |
| `snap[p][h]` | `balance_snapshot` row of holder `h = <<account, balance kind>>`, or `None` |
| `head[p]`, `auditHead` | `ledger_head:<pool>` and `audit_head` in `dkp_meta` |
| `audit`, `outbox` | `audit_log`, `event_outbox` |
| `accounts` | `account`; the four system accounts are seeded by the migration |
| `tx` | the one write transaction: its stage and the rows it has written so far |
| `reply` | what the last caller was told; `NoReply` when an answer is lost |

`Begin`/`RejectInvalid` are `Commit` up to `store.Tx` (`validate` runs first);
`FindReplay`, `CheckInvariants`, `InsertBatch`, `InsertEntries`, `UpsertSnapshots`,
`WriteAudit`, `WriteOutboxEvent`, `WriteHeads` are the statements of the callback in
the order `write` runs them; `CommitReplay` and `CommitBatch` are COMMIT after a
replay and after a write; `Refuse` is a returned error with its rollback; `Fault` is
everything else that ends a transaction: a driver error, a cancelled context, a
panic, a failed COMMIT, a killed process. Rows become visible to others only at
COMMIT, and one transaction at a time holds the writer, so the tables read inside a
transaction are the committed ones.

Abstractions. A hash is the sequence of everything the chain covers, so equal hashes
mean equal content and nothing more is assumed of SHA-256. A batch id is
`<<pool, seq>>`, which `ux_batch_seq` makes unique. Batch kinds other than
`reversal` behave alike in the ledger and are one value. Actor, raid, item,
timestamp and `effective_day` columns are left out: no rule reads them. Entries go in
in one step; an error between two of them rolls all back. `BalanceAsOfSeq` is summed exactly; a
running sum that overflows inside SQLite's `sum()` is not distinguished. The
rule kinds without a checker (`conserved` and the others) refuse the batch, as in
`checkDeclared`; one of them stands for all.

### What is checked

`ledger` (15,443 states) interleaves sixteen requests in two pools with a fault or a
lost answer at every statement:

* `ChainIntact` – after any history, both chains verify link by link and the stored
  heads are the hashes of the last rows.
* `CacheIsFold` – the additive cache equals the fold of the log in amount, count and
  seq, for batches that touch a holder twice, in two kinds, or were rolled back.
* `OneTrail` – batches, audit rows and outbox events are one to one and in one order.
* `ReplyTruthful`, `RetryIsAnswered` – a receipt names the caller's own batch, or the
  first one its key committed; a call whose key is committed is never *refused*,
  whatever its body says now.
* `DeclaredRulesHold` (`ZeroSumConserves` and `FloorGuards`) – declared rules, read over
  the standings before and after rather than over the proposal the checker looked at.
* `DecidesOnHistory` – past `validate`, what is committed and what is refused is what
  `Admission` says of the history of that pool: no stale cache row, no index, no other
  pool and no order of checks changes an answer.
* `WriterReleased` – the write connection is always given back.
* `PointsSpec` – statement by statement the commit path implements `PointsLedger`, in
  which a batch, its standings and its trail entry appear in a single step and keys,
  source references and reversal targets are used once.

*Bounds.* `MaxCp = 3` makes every sum overflow that can: `Debt` twice overflows a
balance, `Seesaw` (+3, −3, +3) keeps every running batch sum in range and not the one
of its first holder. Four batches reach a reversal of a batch, a second reversal of
it, a reused key in either pool, a source reference used twice and a floor met and
missed. Two pools, two persons, one system account, two balance kinds are what the
scopes and exemptions of the rules can tell apart. No symmetry is declared: the
requests distinguish everything.

*Fairness.* `WF(Statement)` only: `database/sql` runs the callback's next statement
once the last has returned. Nothing makes a caller call, and a `Fault` is never
required. `CHECK_DEADLOCK FALSE`, since a system that has reached its bound on
batches may be idle.

### What is proved

`LedgerProofs` proves, for any pools, accounts, requests, integer width and bound:

| theorem | statement |
|---|---|
| `WriteSetCorrect` | `Spec => []Inv`, the inductive invariant |
| `TypeCorrect` | `TypeOK`: every stored amount, running totals included, is representable |
| `ChainCorrect` | `ChainIntact` |
| `RetryAnswered` | `RetryIsAnswered` |
| `TrailCorrect` | `OneTrail` |
| `ReceiptsCorrect` | `ReplyTruthful` |
| `RefinesPoints` | `PointsSpec`, the refinement of `PointsLedger` |

`TypeOK` is not inductive alone and neither is any of the others: `CommitBatch`
appends whatever the transaction holds, so one must know what it holds. `Inv` is
`TypeOK` together with `WriteSet`: at each stage, the fields of `tx` that have been
written are exactly what the statements so far compute from the *committed* tables
(the batch linked to the present head at the present `max(seq)+1`, the cache the
present one with the batch's deltas added, the audit row linked to the present audit
head), and the checks already passed hold of the present tables. It is preserved
because nothing else can commit while a transaction is open, which is the single
writer. The chain, trail and receipt theorems are then inductive on top of `Inv`,
with one step per action and only `CommitBatch` doing work. The proofs use the
assumptions on the constants named in `Ledger` and `Money`. `LedgerProofs` treats
`Total` as opaque, save that it is an integer where the checks say it is in range.

`BalanceProofs` opens it, with the lemmas of `MoneyProofs`:

| theorem | statement |
|---|---|
| `CacheCorrect` | `CacheIsFold`: amount, count and seq of every standing |
| `RulesHeldAtCommit` | `Spec => []BalanceInv`: at COMMIT the declared rules hold of the log as it is |
| `FloorsGuarded` | `FloorGuards` |
| `ZeroSumsConserved` | `ZeroSumConserves` |
| `RulesHoldOfStandings` | `DeclaredRulesHold`, both |
| `DecisionsExact` | `DecidesOnHistory` |

`CacheIsFold` is inductive on top of `Inv`: an upsert adds the subtotal of the batch to
the row, and the fold over a log with one more batch is the old fold plus that subtotal.
The two action properties need `RulesHeld` besides, what the rule checkers computed from
the cache before any row was written, restated of the log through `CacheIsFold`; it
stays true up to COMMIT because the tables do not move under an open transaction.

`DecisionsExact` goes both ways. `Accepts` is everything Commit checks, read off the
committed tables; `AcceptsIsAdmitted` turns it into `Admits` over the history, through
`CacheIsFold` for the balances. A refusal has a cause in `Accepts` at whichever stage it
comes (`RefusalHasCause`), since a stage is reached only past the checks before it. One
index is not of one pool: `ux_batch_reverses` covers the whole table. It decides as the
history of the pool does because `LinksStayHome`: a committed reversal names a batch of
its own pool, so no other pool can hold one of the same target.

Only model-checked: `WriterReleased`, which is liveness.

## 4. Upgrade

### State, steps and checks

| model | code |
|---|---|
| `file`, `wal` | the main file at `DKP_DB_PATH` and the frames in its `-wal`: a version, the protected parts present, a count of rows |
| `marker`, `scratch`, `backups` | `.restore-pending` (absent, empty, or a snapshot), `.restoring`, the complete snapshots |
| `proc[p]` | a process: where it is in `runServe`/`Migrate`/`restore`, its build, its flags, what its connections are open on |
| `change` | what each migration of the builds turns out to do |
| `acked`, `seen`, `blind`, `boots` | history: writes answered, parts accepted by this boot, a boot that went on past a marker it could not read, process starts |

`Start`, `ResumeRestore`, `OpenStore`, `ReadStatus`, `TakeSnapshot`, `ReadBaseline`,
`ApplyNext`, `CheckMigration`, `RecordVersion` are `Runner.Migrate` in its order;
`CloseForRestore` to `ClearMarker` are `failed` and `restore`; `PlainFault` and
`RestoreFault` are the errors of each group, with what `migrateOnBoot` makes of them;
`Listen`, `Request`, `Shutdown` are the server's use of the store; `Crash` may come
between any two steps, and everything on disk stays.

`upgrade` (4,289,984 states) boots an older and a newer build over fresh, current and
degraded databases, with migrations that create, do nothing, rebuild a table with and
without its trigger, drop it, or corrupt the file:

* `NothingLost` – with no restore pending, every answered write is in the database.
* `RestoreIsExact` – when a marker is cleared, the next open reads exactly the
  snapshot it named, whatever `-wal`, scratch file or earlier attempt was there.
* `NeverServesUnrestored` – no process serves beside a marker that names a snapshot.
* `BootKeepsProtection` – through any number of migrations a boot that serves has
  given up no table, trigger or integrity of any state it accepted on the way.

`blind` is the one exception: a marker that exists and cannot be read (a different
user in the container) lets a boot serve, and a later one restores over what it
served. No document promises otherwise; it is listed as a hazard.

*Bounds.* Four boots allow a failing upgrade, a restore killed twice and a boot after
it; three migrations allow a table one creates and another drops; two rows allow a
write before and one after an upgrade. No liveness is claimed, so no fairness is
assumed. One process in the passing run, because the runner assumes it: two are the
subject of a run of their own.

Left out: the reset of the `foreign_keys` pragma, goose's gaps and out-of-order files
(a version is a number), version rows of `dkp_meta`, half-applied `NO TRANSACTION`
migrations, snapshot retention, durability below a completed write (`fsync` holds).
A checkpoint found busy is a `PlainFault`.

### What is proved

`UpgradeProofs` proves all five properties of the run, for any builds, migrations,
databases and bounds, from one assumption the runner makes itself, `OneProcess`: a
single process uses the file. Without it `NothingLost` is false, which
`upgrade_beside_server` shows.

| theorem | statement, each under `OneProcess` |
|---|---|
| `UpgradeTypes` | `Spec => []TypeOK`: a path that is held or written to a marker is that of a complete snapshot |
| `NothingIsLost` | `NothingLost` |
| `ProtectionIsKept` | `BootKeepsProtection` |
| `NoneServesUnrestored` | `NeverServesUnrestored` |
| `RestoresAreExact` | `RestoreIsExact` |

None of them is inductive. `IInv` adds what connects a stage to the disk: `Held` (which
stages hold a snapshot's path and a guard, and that only a resumed restore is marked
as one), `Restoring` (after each step of `restore`, what the marker, the `-wal`, the
scratch file and the main file are), `MarkerSeen` (a marker not acted on keeps the
process before serving, the fact that makes `NeverServesUnrestored` and half of
`NothingLost` go through), `Kept` (every snapshot a restore could put back has all the
answered writes, because nothing is answered between the snapshot and the end of the
boot), `Answered` (no copy has more than was answered) and `Covered` (what the boot has
accepted is in the database or, while a migration is unchecked, in the guard the check
will compare with). `Covered` is where the guard that rolls forward matters: with the
first baseline it does not hold. The argument uses that a trigger exists only on a
table that exists (`OnTables`), which is SQLite's.

## 5. LedgerVerify

`view` is the snapshot `store.ReadTx` pins; `step` and `left` say which query the
replay runs next; `found` are its findings. `BeginVerify`, `WalkBatches`,
`CheckLedgerHead`, `CheckSnapshots`, `WalkAudit`, `CheckAuditHead`, `Report` follow
`Verify`; `ReadFails` is a query that fails. `Post` is a whole commit. `Edit` is
external: one row of a chain, the cache or a head, changed or removed by another
SQLite client, after which the ledger commits nothing.

`ledger_verify` (972,127 states):

* `NoFalseAlarm` – commits during the replay never make a sound ledger look corrupt.
* `EveryEditIsFound` – no such edit is reported clean.
* `FindingsPointAtTheEdit` – money is not reported when the record of who moved it was
  edited, nor another pool; a bad batch is reported at its seq and at most once more,
  at the link of its successor.

*Bounds.* Three batches give a first, a middle and a last link; two pools give a pool
that must stay clean; an edit of each column the checks compare. `MaxFindings` and the
page size are left out: the first keeps every count, the second only groups rows.
Edits that rewrite every later hash are out, as `verify.go` says of itself.

### What is proved

`VerifyProofs` proves the three properties and the types for any pools, accounts,
histories and edits, commits landing between any two queries of the replay included:

| theorem | statement |
|---|---|
| `ReplayCorrect` | `VerifySpec => []ReplayInv`, the inductive invariant |
| `ReplayTypeCorrect` | `ReplayTypeOK` |
| `NoFalseAlarms` | `NoFalseAlarm` |
| `EditsAreFound` | `EveryEditIsFound` |
| `FindingsPoint` | `FindingsPointAtTheEdit` |

None of the three is inductive, because they speak only of a finished replay.
`ReplayInv` says what a replay under way knows: the pinned snapshot is that of a sound
ledger with at most one edit (`Sound`; the live tables are `TablesSound`), what it has
found is among the findings of that snapshot, and what it has walked is complete
(`Complete`). A report is then exactly `AllFindings(view)`, and the rest is about that
set alone: an unedited snapshot has none but overflows (from `ChainIntact` and
`CacheIsFold`), an edited one has one, and every one lies at the edit. The last two are
proved per edited part: batch, cache row, head, audit row. Assumed: `GarbledAssumption`
and `EditAssumption`, that a malformed head is no hash and that `None` is no edit.

## 6. Strategies and pools

`Allocator` is `ledger.Allocate`. `Planning` has the reads a strategy may make
(`strategy.Ctx`: balances, earnings and history *at a position of the log*), the
proposal it returns and the helpers of `common.go`. `EarnRules`, `OverTimeRules`,
`SpendRules` and `Bidding` are the thirteen strategies, one operator per planner,
settlement or bid check. They are pure, and a planner's error is `NoPlan`. What can go
wrong lies between planning and committing, which `Pool` separates:

| model | code |
|---|---|
| `rules` | `PoolConfig.Resolve`: an earn, a spend and an over-time rule, each of its kind |
| `log` | the pool's batches; `Balance(log, a, n)` is `Ctx.Balance` at seq `n` |
| `plans` | proposals a planner returned and nobody has committed yet |
| `run` | the over-time run the scheduler opened last: its position, slice, rule and first plan |
| `auction` | a session: the position and the parties frozen at its opening, its bids, the tie it follows |
| `roster` | active accounts |
| `RecordAttendance`, `Sell`, `Adjust`, `ReverseBatch` | `Rules.PlanAttendance`, `PlanAward`, `PlanAdjustment`, `PlanReversal`, dispatched by rule kind or by the batch's own strategy |
| `OpenRun`, `RetryRun` | `Rules.PlanDecay` and the strategies behind it, first and again |
| `OpenAuction`, `PlaceBid`, `Settle` | a session opened, `ValidateBid`, `SettleAuction` with the award or the rebid round that follows |
| `Commit` | `ledger.Service.Commit`, as the decision it makes for one pool |
| `Join`, `ChangeRules` | an account added; a pool's rules replaced |

The callers – the officers' handlers, the scheduler, whoever holds a session – are not
in the repository yet. They are modelled from what `strategy.go` requires of them: a
run keeps its `AsOfSeq` and its key when it is retried, a session freezes its position,
a rebid has the parties and the minimum the tie gives it. The scheduler starts no
second run while one waits (`OneRunAtATime`).

### What is checked

`pool` (187,562 states) starts seven pools that between them use all thirteen
strategies: weighted attendance with zero-sum sales and a sliding window; ticks with
fixed prices, a loot council, an open and a sealed auction, a roll; relative bids; decay
of both signs, a cap, starting grants.

* `DebtNeedsAReversal` – nobody goes into debt through a stale plan: only a reversal
  takes points that were spent, or a rule whose floor is below zero.
* `EveryBatchCanBeReversed`, `StandingsAreWhatStands` – any batch can be reversed
  under the rules of today, whatever was spent since, and balances are the sum of the
  batches that stand, through reversals of reversals.
* `AffordableSalesCommit`, `FreshRunsCommit` – one member's debt does not stop others'
  sales, nor a whole roster's decay.
* `CommitsAsTheLedger` – for every plan that waits, the decision the pool takes is
  `Admission`'s of the request the plan becomes, the definition `Ledger` is held to.
* `RetriedRunIsTheSame` – a run planned again after other commits is the same batch.
* `CreditsExpireOnce`, `GrantedOnce` – the window takes no credit twice; a newcomer is
  granted once.
* `SplitIsFair` – nobody is a centipoint or more from the exact share, and the order of
  the shares changes nothing.
* `SettlementIgnoresArrival`, `SettlementIsFrozen` – bids in another order, or commits
  while the bids are open, change no outcome.
* `HigherRungWins`, `WinnerPaysTheRunnerUp`, `TiesAreBetweenPeople`,
  `RebidBeatsTheTie` – the ladder comes first; a price is set by somebody else's bid;
  nobody ties with themselves; a rebid cannot award below the tie, so rounds end.

*Bounds.* A basis point is a tenth (`WholeBp = 10`) so that every division has
remainders at small amounts; amounts stay below 100 against `MaxCp = 1000`, the limit
being `Ledger`'s subject. Four batches (the first raid among them) give a run, a
reversal and its reversal; two waiting plans give every pair of stale plans; three bids
give two of one account and a rival, or a three-way ladder; two runs give a slice and
the next. `MaxBusy = 4` bounds the three together: what needs four batches needs no
bids. `OneBidPerInstant` is what a clock that moves between two requests of one account
gives; `MCPoolInstant.cfg` drops it and finds the disagreement of section 8.

`RetriedRunIsTheSame` excepts `start_points`, which reads the roster of the day.
`decay_window` counts as earned what a reversed award refunds (`decay_window.go`), and
`CreditsExpireOnce` is stated accordingly. Left out: `PriceHint`, `Priority`, the
settlement trace and the JSON schemas, which change nothing. No fairness is assumed and
no liveness claimed: nothing makes an officer commit.

Two choices are made for the sake of proof. Where the code sorts (`sort.Slice` by
remainder, by id, by bid), `Allocator` has `Arranged` and `Ranked`, functions that place
each element by how many come before it; `SetToSortSeq` and `SelectSeq` mean nothing to
the provers, and the runs evaluate the same definitions; `SettlementIgnoresArrival`
ranges over the bijections of the bids' indices for that reason too. `SplitIsFair` speaks of every
rule that splits proceeds and of the price as what the buyer is debited.

### What is proved

`AllocatorProofs`, about `Allocate` for any total, shares, weights and integer width:

| theorem | statement |
|---|---|
| `AllocateIsExact` | what is returned adds up to the total, and no entry is zero or has the other sign |
| `AllocateIsFair` | each portion is less than a centipoint from the exact share, and one is rounded up only past others whose remainder is no larger |

`PoolProofs`, for any pools, rosters, rules, events, bids and bounds:

| theorem | statement | invariant beside `BaseInv` |
|---|---|---|
| `StandingsCorrect` | `StandingsAreWhatStands` | `LinkInv` |
| `RetriedRunsCorrect` | `RetriedRunIsTheSame` | `RunInv` |
| `SettlementFrozen` | `SettlementIsFrozen` | `SessionInv` |
| `GrantsCorrect` | `GrantedOnce`, if `OneRunAtATime` | `RunInv`, `GrantInv` |
| `ExpiriesCorrect` | `CreditsExpireOnce`, if `OneRunAtATime` | `RunInv`, `ExpiryInv` |
| `SplitsAreFair` | `SplitIsFair` | |
| `DebtsCorrect` | `DebtNeedsAReversal` | `RunInv`, `DebtInv` |
| `TiesCorrect` | `TiesAreBetweenPeople` | `AuctionInv` |
| `RebidsCorrect` | `RebidBeatsTheTie` | `AuctionInv` |
| `RungsCorrect` | `HigherRungWins` | `AuctionInv` |
| `PricesCorrect` | `WinnerPaysTheRunnerUp` | `AuctionInv` |
| `ArrivalIgnored` | `SettlementIgnoresArrival`, if `OneBidPerInstant` | `AuctionInv` |
| `PoolTypes` | `TypeOK` | `RunInv`, `LinkInv`, `AuctionInv`, `FormInv` |
| `CommitsMatch` | `CommitsAsTheLedger` | `FormInv`, `PeriodInv` |
| `ReversalsCommit` | `EveryBatchCanBeReversed`, if there is room for the batches of the log | `FormInv`, `BalancedInv` |
| `SalesCommit` | `AffordableSalesCommit`, if there is room for the sales | |
| `RunsCommit` | `FreshRunsCommit`, if there is room for the run | `RunInv`, `PeriodInv` |

`BaseInv` is what every step needs: the rules are of the catalogue, the roster is made
of members, the log and the waiting plans are batches whose entries are integers on
known accounts. On top of it:

* `LinkInv` – every reversal, waiting or committed, carries the negated entries of an
  earlier batch, and no two committed ones the same. Balances are then a sum over
  batches that stand, by induction on the log, since a batch and its reversal cancel
  whichever of them is itself reversed.
* `RunInv` – the run's positions are in order and behind the log, its members include
  everyone the log up to there names, and the first plan is what `RunPlan` gives from
  that prefix. An appended batch changes no prefix and a newcomer has no movement in
  it, so planning again gives the same entries.
* `GrantInv` – a waiting grant is of the present period and goes only to accounts without
  history at its position; one committed after that position is of the same period, whose
  key is used once. This is where the scheduler's `OneRunAtATime` is needed: with two
  runs open the older plan would grant again.
* `ExpiryInv` – what has been taken from an account is at most what it was credited up
  to the start of the present slice, or up to its end once the period is committed.
* `DebtInv` – everything that waits is a reversal, declares a floor, or takes from
  nobody. It asks of every planner whether it can return a batch that takes and
  declares nothing. What earns does not take: an award is refused unless it is positive,
  and `Allocate` keeps its sign (`AllocateIsExact`).
* `AuctionInv` – the bids of the open session are validated and by its parties, none of
  an account's at one instant if `OneBidPerInstant`, and a rebid's minimum is one above
  the tie it breaks. The rest is about one settlement: the order the code
  ranks by separates any two bids but those of one account at one instant, the leader
  stands highest, and a price comes from the best bid of another account. `rankBids`
  then gives one list for every order of arrival if no two bids are of one account and
  instant; without that assumption it does not, which is the run of section 8.
* `FormInv` – every plan, waiting or committed, is a proposal `ledger.Commit` accepts in
  form: no planner returns a zero row, an amount beyond the width or an account nobody
  has. It goes through every strategy, and through `Allocate` for those that split.

* `PeriodInv` – a plan with a period is a run's, so its key is its kind and its period.
* `BalancedInv` – every committed batch has entries, and they sum to zero.

`CommitsMatch` and `DecisionsExact` are the two halves of reading a commit as one step:
`Ledger`, statement by statement, decides as `Admission` does over the history, and `Pool`
decides so of every plan it can hold. Writing it down added a conjunct to `CommitAdmits`,
`PartOf`: a holder's part of a batch can pass the integer width where the batch's own
running sum does not.

The last three theorems say what is never refused, under `RoomFor(p)`: nobody `p` moves
is within the points of `p` of the limit of an int64. Without it they are false, as for
any fixed width: with `MaxCp = 120` in `MCPool.cfg` TLC commits attendance twice, reverses
one, commits another, and the reversal can no longer be reversed, because the bank would
pass the limit. The condition is about the accounts of one batch in one
state, not about all amounts together, and with `MaxCp = 1000` it holds in every
state of the `pool` run, of every batch, sale and next run. With room every sum fits:
no running sum is farther from zero than the sizes of all entries together (`RunsBounded`,
`RoomSums`), and negating a batch changes no size (`NegationFits`). What is left of each
theorem is the floor: a reversal declares none; a sale takes only from a buyer who has
the price; and decay, expiry and caps never carry anyone below the floor they declare,
however deep in debt they found them (`RunMoves`, `DecayKeepsFloor`), so one debtor on the
roster stops nobody else's decay.

Assumed, each with its reason in `Pool`: `AccountsAssumption`, `ConfigsAssumption`,
`EventsAssumption`, `NoneAssumption`, `BoundsAssumption`; and `KeyAssumption`, that a nil
idempotency key is not one a run uses. They say that ids are ordered, amounts are
integers, and system accounts are no members.

## 7. Access

One database, the processes that boot over it, and requests. A `store.Tx` is one step;
two reads, a read and a write, and reading the clock are steps of their own wherever the
code separates them.

| model | code |
|---|---|
| `perms`, `roles`, `grants` | `permission` (live, orphaned), `role`, `role_permission` |
| `users`, `sessions`, `tokens` | `app_user` with its session epoch, `session`, `api_token` |
| `secrets`, `procs` | `secrets.json` (absent, short, whole); a process and the key and reconcile verdict it keeps |
| `requests`, `calls` | a request between its read, verdict, touch, check and handler; a `CreateSession` before its transaction |
| `guild`, `seen` | the row, and what each tab was last shown |
| `Boot` | `Reconcile`, and what `runServe` does with its three outcomes |
| `ReadSecrets`, `OpenSecrets`, `WriteSecrets` | `LoadOrCreateKeyring`, `createKeyring` |
| `Present`, `Verify`, `Touch`, `Check` | the gate and `ResolveRequest`, the verdict on the row read, the touch in a transaction of its own, `authorize` |
| `GetGuild`, `UpdateGuild` | `guild.Service.Get`, `Update` against `If-Match` |
| `BeginSession`/`CreateSession`, `BumpSessionEpoch`, `RevokeSession`, `RevokeAPIToken`, `MintToken`, `SetAppUserState`, `SoftDeleteAppUser`, `EditRole` | the functions and statements for them; their endpoints are not in the repository yet |
| `Kill`, `DeleteShortSecrets`, `Tick` | a process ends anywhere; the operator follows the refusal's advice; time passes |

`access` (508,105 states up to symmetry):

* `SignOutIsExact` – signing out everywhere ends exactly the sessions that existed:
  one being created beside it is either ended or alive, never born dead.
* `TouchNeverUndoes` – a touch decided on an older row takes back no revocation, moves
  no stamp or expiry backwards and none past the absolute one.
* `OneKey` – however first boots race or die, every serving process and every token
  derive from the key in the file.
* `GrantsStand` – no boot, upgrade, downgrade or return changes a grant of a role the
  guild has, or drops a permission under its grants.
* `NoLostUpdate` – whoever replaces the guild row was last shown that row.

*Bounds.* Two processes race on the file; builds that ship a key, lack it, or require
one they do not ship; two sessions, one signed out beside the other; one token; two
tabs. `Budgets` lists six allocations of boots, logins, mints, requests, edits and
ticks instead of one maximum of each: every pair that interacts is in one of them.
Windows of one to four ticks order as the real ones do. Processes, sessions and tabs
are symmetric. No fairness, no liveness: a client may go away at any step.

### What is proved

`AccessProofs` proves `TypeOK` and all five properties for any number of processes,
users, sessions, tokens and tabs, any builds and budgets: `AccessTypes`, `OneRootKey`,
`SignOutExact`, `TouchUndoesNothing`, `GrantsStandAlways`, `NoUpdateIsLost`. The
invariant adds to the properties: `WriterIsAlone` (a process that writes the file has
created it, and it is short until then; from `O_EXCL`), `RowsExist` (a request under way
names a row, because rows are never deleted), `CallsAreFresh`, `ExpiryFollowsStamp` (an
idle expiry is where the last stamp puts it, so a stamp that does not move back moves no
expiry back), and `EpochsPast` (no session has an epoch its user has not reached, so a
bump ends all that exist). `NoneAssumption` says that `None` is no row, call, key or
number.

Observations no run is about. `CreateSession` and `GetAppUser` say that a bump which
lands before the read leaves the session "born dead"; the code gives it the current
epoch, as `BumpSessionEpoch` says, and it lives. A touch decided before an idle expiry
and committed after it revives the session. The touch is due at `<=` in Go and written
at `<` in SQL, so one due exactly then writes nothing. `secrets.json` is not
synced, so a power loss may lose a key already used; the model's disk keeps what was
written.

## 8. Where code and documents disagree

Each is a run of its own whose one property states what the document says; TLC shows
how the code reaches a state where it is false.

| run | property | in short |
|---|---|---|
| `ledger_past_rules` | `PastTheRulesOnlyIO` | past the rules, UNIQUE indexes and cache arithmetic still refuse requests |
| `upgrade_torn_marker` | `MarkerIsFinished` | a kill inside `os.WriteFile` leaves an empty marker; the next boot serves the failed migration |
| `upgrade_beside_server` | `NothingWasLost` | `dkp migrate` beside a running server: answered writes are gone |
| `upgrade_unchecked_migration` | `DamagePredatesBinary` | a kill between a migration and its check; a later boot blames an earlier build |
| `verify_false_overflow` | `OverflowMeansCorrupt` | an honest batch near the limit is reported `balance_overflow` |
| `verify_unread_head` | `UnreadIsAnError` | a head that cannot be read is a finding, not an error |
| `pool_same_instant` | `SettlementIgnoresArrival` | two bids of one account in one microsecond, equal in what ranks them: the order they are passed in decides which one is kept |

## 9. Not modelled, and why

* **Spot swaps** (`internal/swap`): a pure function of one policy and one request that
  nothing calls at this commit.
* **Standings, the RNG, cursors**: single queries over the cache `CacheIsFold` is about,
  a seeded generator, round trips. **ULIDs** are named by what is unique about them.
* **Readiness and health**: a ladder of reads with no state of its own. **HTTP** beyond
  the gate, the principal and the authorization of an operation: routing, problem
  documents and OpenAPI change no state.
* **Credentials**: password hashing (cryptography), feed tokens (no store behind them),
  a process without a store. **Authorization**: `AuthorizeMint`, which nothing calls.
* **Seeding** beyond the accounts it inserts, the **statement counter**, **lints,
  generators and gates**, which run at build or test time.
* **Import, CMS and log parsing** are stubs at this commit; the **web client** is
  presentation. **Generated queries** appear as the guards that their indexes, CHECKs
  and triggers amount to.
* Durability below a completed write, everywhere.

## Running

    tlc -config MCLedger.cfg MCLedger
    tlc -config MCUpgrade.cfg MCUpgrade
    tlc -config MCLedgerVerify.cfg MCLedgerVerify
    tlc -config MCPool.cfg MCPool
    tlc -config MCAccess.cfg MCAccess
    tlapm MoneyProofs.tla
    tlapm LedgerProofs.tla
    tlapm BalanceProofs.tla
    tlapm VerifyProofs.tla
    tlapm UpgradeProofs.tla
    tlapm AccessProofs.tla
    tlapm AllocatorProofs.tla
    tlapm PoolProofs.tla

The other configurations name the module they belong to (`MCUpgradeTwo.cfg` is for
`MCUpgrade`, and so on) and are expected to end in a counterexample. Only `WriterReleased` is
model-checked and not proved: it is liveness. Induction over sums and over the log is done in the proofs on sets of
numbers: `NatInductive` and `SeqInductive` in `MoneyProofs` follow from the least
element of a set (`LeastNatural`) and take the set of lengths for which the claim holds
as a plain parameter, where the library's induction theorems take an operator, which
the provers cannot instantiate.
