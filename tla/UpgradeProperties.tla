-------------------------- MODULE UpgradeProperties --------------------------
(***************************************************************************)
(* What the boot-time upgrade promises about the guild's database, whatever*)
(* fails and whenever the process is killed.                               *)
(***************************************************************************)
EXTENDS Upgrade

Paths == DOMAIN backups
Guards == [tables : SUBSET LedgerTables, missing : SUBSET Triggers]
Processes == [stage : Stages, binary : Binaries \cup {0}, serve : BOOLEAN, auto : BOOLEAN,
              resuming : BOOLEAN, snap : Paths \cup {Absent}, guard : Guards \cup {Absent},
              handle : {"none", "live", "orphan"}]

\* Every variable holds values of its kind; a path held by a process or written to the marker
\* is that of a complete snapshot (snapshot.go: the path is returned after the fsync).
TypeOK ==
  /\ change \in [Versions -> UNION {Changes[v] : v \in Versions}]
  /\ file \in Databases
  /\ wal \in Databases \cup {Absent} /\ scratch \in Databases \cup {Absent}
  /\ backups \in Seq(Databases)
  /\ marker \in Paths \cup {Absent, Empty}
  /\ proc \in [Procs -> Processes]
  /\ seen \in [Procs -> SUBSET Parts]
  /\ acked \in 0..MaxRows /\ blind \in BOOLEAN /\ boots \in 0..MaxBoots

\* When the marker of a restore is cleared, the next open reads exactly the snapshot it named,
\* whatever the -wal, the main file and earlier attempts had left (restore.go restore).
RestoreIsExact ==
  [][marker' = Absent /\ marker \in Paths => Database' = backups[marker]]_vars

\* With no restore underway, every write whose caller was answered is in the database: what
\* FailedError tells the operator, "Nothing was lost" (version.go).  A boot that served over a
\* marker it could not read is the exception: the restore it skipped undoes what it served.
NothingLost == marker = Absent /\ ~blind => Database.rows = acked

Serving(p) == At(p, "serving") /\ proc[p].handle = "live"

\* A boot that gets as far as serving, through any number of migrations, has given up no
\* ledger table, no trigger and no integrity of any state it accepted on the way (runner.go
\* Migrate, the comparison that rolls forward with each migration).
BootKeepsProtection == \A p \in Procs : Serving(p) => seen[p] \subseteq Database.parts

\* No process serves while a marker names the snapshot that is still to be put back, unless the
\* marker could not be read: a restore that fails ends the process, resumed or not (restore.go
\* resumeRestore, cmd/dkp migrateOnBoot).
NeverServesUnrestored == (\E p \in Procs : At(p, "serving")) /\ marker \in Paths => blind

-----------------------------------------------------------------------------
(* What a comment says and the code does not do.                             *)

\* "If the process dies at any point from here to the rename, the next boot finds this file
\* and finishes the job" (restore.go): so a process that serves has no marker beside it.
MarkerIsFinished == \A p \in Procs : At(p, "serving") => marker = Absent

\* "Your database was restored automatically from the snapshot taken immediately before this
\* upgrade started. Nothing was lost" (version.go FailedError), said once the marker is cleared.
NothingWasLost ==
  [][\A p \in Procs : At(p, "unmark") /\ ~proc[p].resuming /\ marker' = Absent /\ ~blind =>
       Database'.rows = acked]_vars

\* Protection.Detail, shown on /readyz: "a migration that drops an append-only trigger is
\* refused and rolled back, so the damage predates this binary" (version.go).
DamagePredatesBinary ==
  \A p \in Procs : Serving(p) /\ Database.version = proc[p].binary =>
    \E d \in Arrived : MissingIn(Database) \subseteq MissingIn(d)
=============================================================================
