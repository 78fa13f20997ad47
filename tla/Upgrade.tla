------------------------------- MODULE Upgrade -------------------------------
(***************************************************************************)
(* The boot-time upgrade: migrate.Runner.Migrate over internal/store's     *)
(* migrator, inside the processes of cmd/dkp that run it.                  *)
(*                                                                         *)
(* A process reads a possible restore marker, opens the database, reads    *)
(* its version, snapshots it, applies one migration at a time with checks  *)
(* after each, and on any failure puts the snapshot back.  Every step may  *)
(* fail, and the process may be killed between any two of them; what is on *)
(* disk stays: the main file, the write-ahead log beside it, the marker,   *)
(* the decompressed scratch file and the snapshots.                        *)
(*                                                                         *)
(* Processes are set apart so that `dkp serve` and `dkp migrate` may run   *)
(* over one file.  Definitions named X_Fault are X with one plausible      *)
(* programming mistake; the specification never uses them.                 *)
(***************************************************************************)
EXTENDS Integers, Sequences

CONSTANTS
  Procs,         \* the processes that may run
  Binaries,      \* the builds, each named by the newest migration it carries
  LedgerTables,  \* the catalogued tables, ledger_batch and ledger_entry
  Triggers,      \* the catalogued append-only triggers
  TableOf,       \* [Triggers -> LedgerTables]
  Sound,         \* integrity_check and foreign_key_check pass
  Changes,       \* [versions -> what the migration of that version may turn out to do]
  Arrived,       \* the databases a guild may bring
  Absent,        \* no such file, no such value
  Empty,         \* a file created and not yet written
  MaxBoots,      \* bound on process starts
  MaxRows        \* bound on acknowledged writes

Newest == CHOOSE n \in Binaries : \A m \in Binaries : m <= n
Versions == 1..Newest
Parts == LedgerTables \cup Triggers \cup {Sound}
\* A trigger is on a table: it goes with it, and cannot be created without it.
OnTables(parts) == \A t \in Triggers \cap parts : TableOf[t] \in parts
Databases ==
  [version : 0..Newest, parts : {parts \in SUBSET Parts : OnTables(parts)}, rows : 0..MaxRows]

ASSUME BinariesAssumption ==
  Binaries \subseteq Nat /\ \E n \in Binaries : \A m \in Binaries : m <= n
ASSUME TableOfAssumption == TableOf \in [Triggers -> LedgerTables]
ASSUME ChangesAssumption ==
  Changes \in [Versions -> SUBSET [adds : SUBSET Parts, drops : SUBSET Parts]]
ASSUME ArrivedAssumption == Arrived \subseteq Databases
ASSUME AbsentAssumption == {Absent, Empty} \cap (Nat \cup Databases) = {} /\ Absent # Empty
ASSUME BoundsAssumption == MaxBoots \in Nat /\ MaxRows \in Nat

VARIABLES
  change,    \* [Versions -> a change]: the migrations the builds carry, fixed for good
  file,      \* the database in the main file at DKP_DB_PATH
  wal,       \* what the -wal beside it makes of the database, Absent when nothing is in it
  marker,    \* <db>.restore-pending: Absent, Empty, or the number of a snapshot
  scratch,   \* <db>.restoring
  backups,   \* the complete snapshots, in the order they were taken
  proc,      \* [Procs -> a process]
  seen,      \* history: [Procs -> the parts of every state this boot has accepted]
  acked,     \* history: writes whose callers were told they are stored
  blind,     \* history: a boot has gone on without the marker it could not read
  boots      \* process starts so far

disk == <<file, wal, marker, scratch, backups>>
vars == <<change, file, wal, marker, scratch, backups, proc, seen, acked, blind, boots>>

\* The database the next statement reads: committed frames in the -wal are replayed.
Database == IF wal = Absent THEN file ELSE wal

\* store.AppendOnlyState: a trigger whose table does not exist is early, not missing.
TablesIn(d) == LedgerTables \cap d.parts
MissingIn(d) == {t \in Triggers : t \notin d.parts /\ TableOf[t] \in d.parts}
AppendOnlyState(d) == [tables |-> TablesIn(d), missing |-> MissingIn(d)]

\* One migration: DROP TABLE takes the triggers of the table with it.
Migrated(d, c) ==
  LET dropped == c.drops \cup {t \in Triggers : TableOf[t] \in c.drops}
  IN  [d EXCEPT !.version = @ + 1, !.parts = (@ \ dropped) \cup c.adds]

-----------------------------------------------------------------------------
(* Processes.  handle says what its open connections read and write: the     *)
(* file at DKP_DB_PATH, or an inode and a -wal that were unlinked under it.  *)

Stages == {"off", "resume", "open", "status", "snapshot", "baseline", "apply", "check", "close",
           "mark", "path", "siblings", "decompress", "rename", "unmark", "record", "listen",
           "serving"}
Off == [stage |-> "off", binary |-> 0, serve |-> FALSE, auto |-> FALSE, resuming |-> FALSE,
        snap |-> Absent, guard |-> Absent, handle |-> "none"]

At(p, stage) == proc[p].stage = stage
OthersOpen(p) == \E q \in Procs \ {p} : proc[q].handle = "live"

\* The processes after p moved on, the file being replaced under every other one that has it open.
Moved(p, to) == [proc EXCEPT ![p] = to]
MovedAndOrphaned(p, to) ==
  [q \in Procs |-> IF q = p THEN to
                   ELSE IF proc[q].handle = "live" THEN [proc[q] EXCEPT !.handle = "orphan"]
                   ELSE proc[q]]

Go(p, stage) == proc' = Moved(p, [proc[p] EXCEPT !.stage = stage])

\* A commit lands in the -wal; SQLite may checkpoint it into the main file at once.
CommitDatabase(d) ==
  /\ wal' = d
  /\ file' \in {file, d}

\* The last connection to close checkpoints the -wal and deletes it.
CloseStore(p) ==
  IF proc[p].handle = "live" /\ ~OthersOpen(p)
  THEN file' = Database /\ wal' = Absent
  ELSE UNCHANGED <<file, wal>>

Init ==
  /\ change \in {c \in [Versions -> UNION {Changes[v] : v \in Versions}] :
                   \A v \in Versions : c[v] \in Changes[v]}
  /\ file \in Arrived
  /\ wal = Absent /\ marker = Absent /\ scratch = Absent /\ backups = <<>>
  /\ proc = [p \in Procs |-> Off]
  /\ seen = [p \in Procs |-> {}]
  /\ acked = file.rows
  /\ blind = FALSE
  /\ boots = 0

\* `dkp serve`, with DKP_AUTO_MIGRATE as it is set, or `dkp migrate`, which always migrates.
Start(p) ==
  /\ At(p, "off") /\ boots < MaxBoots
  /\ \E b \in Binaries, cmd \in {<<TRUE, TRUE>>, <<TRUE, FALSE>>, <<FALSE, TRUE>>} :
       proc' = Moved(p, [Off EXCEPT !.stage = "resume", !.binary = b,
                                    !.serve = cmd[1], !.auto = cmd[2]])
  /\ boots' = boots + 1
  /\ seen' = [seen EXCEPT ![p] = {}]
  /\ UNCHANGED <<change, disk, acked, blind>>

-----------------------------------------------------------------------------
(* How Migrate returns.                                                      *)

\* nil, and every error migrateOnBoot does not know: `dkp serve` goes on to serve.
Return(p) ==
  IF proc[p].serve
  THEN proc' = Moved(p, [proc[p] EXCEPT !.stage = "listen", !.handle = "none",
                                        !.guard = Absent, !.snap = Absent])
  ELSE proc' = Moved(p, Off)

\* SchemaAheadError and FailedError end the process.
Exit(p) == proc' = Moved(p, Off)

\* A call that fails before anything was applied: a plain error, the store closed on the way.
\* The four stages past it fail through failed() and restore() instead.
PlainFault(p) ==
  /\ proc[p].stage \in {"open", "status", "snapshot", "baseline", "record"}
  /\ Return(p) /\ CloseStore(p)
  /\ UNCHANGED <<change, marker, scratch, backups, seen, acked, blind, boots>>

-----------------------------------------------------------------------------
(* resumeRestore, open, status.                                              *)

\* Nothing to finish; or a marker nobody can act on, empty or unreadable, which is a plain
\* error; or the restore it names is done again from the start.
ResumeRestore(p) ==
  /\ At(p, "resume")
  /\ \/ marker = Absent /\ Go(p, "open") /\ UNCHANGED blind
     \/ marker # Absent /\ Return(p) /\ blind' = TRUE
     \/ /\ marker \notin {Absent, Empty}
        /\ proc' = Moved(p, [proc[p] EXCEPT !.stage = "mark", !.resuming = TRUE, !.snap = marker])
        /\ UNCHANGED blind
  /\ UNCHANGED <<change, disk, seen, acked, boots>>

OpenStore(p) ==
  /\ At(p, "open")
  /\ proc' = Moved(p, [proc[p] EXCEPT !.stage = "status", !.handle = "live", !.resuming = FALSE,
                                      !.snap = Absent])
  /\ UNCHANGED <<change, disk, seen, acked, blind, boots>>

\* status, then the three early returns: a downgrade, nothing pending, automatic migration off.
ReadStatus(p) ==
  /\ At(p, "status")
  /\ seen' = [seen EXCEPT ![p] = Database.parts]
  /\ \/ Database.version > proc[p].binary /\ Exit(p) /\ CloseStore(p)
     \/ Database.version = proc[p].binary /\ Go(p, "record") /\ UNCHANGED <<file, wal>>
     \/ Database.version < proc[p].binary /\ ~proc[p].auto /\ Return(p) /\ CloseStore(p)
     \/ Database.version < proc[p].binary /\ proc[p].auto /\ Go(p, "snapshot")
        /\ UNCHANGED <<file, wal>>
  /\ UNCHANGED <<change, marker, scratch, backups, acked, blind, boots>>

-----------------------------------------------------------------------------
(* The upgrade.                                                              *)

\* Returns the path of a snapshot whose compression failed.
TakeSnapshot_Unwritten(p) ==
  /\ At(p, "snapshot")
  /\ proc' = Moved(p, [proc[p] EXCEPT !.stage = "baseline", !.snap = Len(backups) + 1])
  /\ UNCHANGED <<change, disk, seen, acked, blind, boots>>

\* Copies the main file without the frames that are still in the -wal.
TakeSnapshot_NoCheckpoint(p) ==
  /\ At(p, "snapshot")
  /\ backups' = Append(backups, file)
  /\ proc' = Moved(p, [proc[p] EXCEPT !.stage = "baseline", !.snap = Len(backups) + 1])
  /\ UNCHANGED <<change, file, wal, marker, scratch, seen, acked, blind, boots>>

\* snapshot: checkpoint, VACUUM INTO, compress to a path of its own
TakeSnapshot(p) ==
  /\ At(p, "snapshot")
  /\ file' = Database /\ wal' = Absent
  /\ backups' = Append(backups, Database)
  /\ proc' = Moved(p, [proc[p] EXCEPT !.stage = "baseline", !.snap = Len(backups) + 1])
  /\ UNCHANGED <<change, marker, scratch, seen, acked, blind, boots>>

ReadBaseline(p) ==
  /\ At(p, "baseline")
  /\ proc' = Moved(p, [proc[p] EXCEPT !.stage = "apply", !.guard = AppendOnlyState(Database)])
  /\ UNCHANGED <<change, disk, seen, acked, blind, boots>>

\* ApplyNext: the lowest pending migration, in a transaction that may fail and roll back
ApplyNext(p) ==
  /\ At(p, "apply")
  /\ \/ Database.version >= proc[p].binary /\ Go(p, "record") /\ UNCHANGED <<file, wal>>
     \/ /\ Database.version < proc[p].binary
        /\ \/ /\ OnTables(Migrated(Database, change[Database.version + 1]).parts)
              /\ CommitDatabase(Migrated(Database, change[Database.version + 1]))
              /\ Go(p, "check")
           \/ UNCHANGED <<file, wal>> /\ Go(p, "close")
  /\ UNCHANGED <<change, marker, scratch, backups, seen, acked, blind, boots>>

Refuses(guard, found) ==
  \/ \E table \in guard.tables : table \notin found.tables
  \/ \E trigger \in found.missing : trigger \notin guard.missing

\* Compares every migration of the boot with the state before the first one.
CheckMigration_FirstBaseline(p) ==
  /\ At(p, "check")
  /\ IF Sound \in Database.parts /\ ~Refuses(proc[p].guard, AppendOnlyState(Database))
     THEN Go(p, "apply") /\ seen' = [seen EXCEPT ![p] = @ \cup Database.parts]
     ELSE Go(p, "close") /\ UNCHANGED seen
  /\ UNCHANGED <<change, disk, acked, blind, boots>>

\* integrity_check, foreign_key_check, and what is there now against what was before this
\* migration; a check that cannot be run refuses too.
CheckMigration(p) ==
  /\ At(p, "check")
  /\ LET found == AppendOnlyState(Database)
     IN  \/ /\ Sound \in Database.parts /\ ~Refuses(proc[p].guard, found)
            /\ proc' = Moved(p, [proc[p] EXCEPT !.stage = "apply", !.guard = found])
            /\ seen' = [seen EXCEPT ![p] = @ \cup Database.parts]
         \/ Go(p, "close") /\ UNCHANGED seen
  /\ UNCHANGED <<change, disk, acked, blind, boots>>

\* recordVersion: two rows of dkp_meta, then the store is closed.
RecordVersion(p) ==
  /\ At(p, "record")
  /\ Return(p) /\ CloseStore(p)
  /\ UNCHANGED <<change, marker, scratch, backups, seen, acked, blind, boots>>

-----------------------------------------------------------------------------
(* failed, restore.                                                          *)

\* failed: the store is closed first; a close that fails is logged and leaves the -wal.
CloseForRestore(p) ==
  /\ At(p, "close")
  /\ proc' = Moved(p, [proc[p] EXCEPT !.stage = "mark", !.handle = "none", !.guard = Absent])
  /\ CloseStore(p) \/ UNCHANGED <<file, wal>>
  /\ UNCHANGED <<change, marker, scratch, backups, seen, acked, blind, boots>>

\* os.WriteFile creates or truncates the marker before it writes the snapshot's path.
TruncateMarker(p) ==
  /\ At(p, "mark")
  /\ marker' = Empty
  /\ Go(p, "path")
  /\ UNCHANGED <<change, file, wal, scratch, backups, seen, acked, blind, boots>>

WriteMarker(p) ==
  /\ At(p, "path")
  /\ marker' = proc[p].snap
  /\ Go(p, "siblings")
  /\ UNCHANGED <<change, file, wal, scratch, backups, seen, acked, blind, boots>>

\* The -wal survives the restore.
RemoveSiblings_Kept(p) ==
  /\ At(p, "siblings")
  /\ Go(p, "decompress")
  /\ UNCHANGED <<change, disk, seen, acked, blind, boots>>

RemoveSiblings(p) ==
  /\ At(p, "siblings")
  /\ wal' = Absent
  /\ proc' = MovedAndOrphaned(p, [proc[p] EXCEPT !.stage = "decompress"])
  /\ UNCHANGED <<change, file, marker, scratch, backups, seen, acked, blind, boots>>

\* Decompress over a cleared scratch file, then quick_check on it
DecompressAndVerify(p) ==
  /\ At(p, "decompress")
  /\ scratch' = backups[proc[p].snap]
  /\ Go(p, "rename")
  /\ UNCHANGED <<change, file, wal, marker, backups, seen, acked, blind, boots>>

RenameIntoPlace(p) ==
  /\ At(p, "rename")
  /\ file' = scratch /\ scratch' = Absent
  /\ proc' = MovedAndOrphaned(p, [proc[p] EXCEPT !.stage = "unmark"])
  /\ UNCHANGED <<change, wal, marker, backups, seen, acked, blind, boots>>

\* The restore is done: a resumed one goes on with the boot, the other reports FailedError.
ClearMarker(p) ==
  /\ At(p, "unmark")
  /\ marker' = Absent
  /\ IF proc[p].resuming THEN Go(p, "open") ELSE Exit(p)
  /\ UNCHANGED <<change, file, wal, scratch, backups, seen, acked, blind, boots>>

RestoreStages == {"mark", "path", "siblings", "decompress", "rename", "unmark"}

\* Reports a restore that failed as an error like any other.
RestoreFault_Plain(p) ==
  /\ proc[p].stage \in RestoreStages
  /\ Return(p)
  /\ UNCHANGED <<change, disk, seen, acked, blind, boots>>

\* A step of restore fails: FailedError without Restored, and the process ends.
RestoreFault(p) ==
  /\ proc[p].stage \in RestoreStages
  /\ Exit(p)
  /\ UNCHANGED <<change, disk, seen, acked, blind, boots>>

-----------------------------------------------------------------------------
(* Serving, and dying.                                                       *)

\* runServe opens a store of its own; a failure there serves without one.
Listen(p) ==
  /\ At(p, "listen")
  /\ \E h \in {"live", "none"} :
       proc' = Moved(p, [proc[p] EXCEPT !.stage = "serving", !.handle = h])
  /\ UNCHANGED <<change, disk, seen, acked, blind, boots>>

\* A request commits a row and is answered.  Over an unlinked file it is answered all the same.
Request(p) ==
  /\ At(p, "serving") /\ proc[p].handle # "none" /\ acked < MaxRows
  /\ IF proc[p].handle = "live"
     THEN CommitDatabase([Database EXCEPT !.rows = @ + 1])
     ELSE UNCHANGED <<file, wal>>
  /\ acked' = acked + 1
  /\ UNCHANGED <<change, marker, scratch, backups, proc, seen, blind, boots>>

\* SIGTERM drains and closes the store.
Shutdown(p) ==
  /\ At(p, "serving")
  /\ Exit(p) /\ CloseStore(p)
  /\ UNCHANGED <<change, marker, scratch, backups, seen, acked, blind, boots>>

\* The process is killed: the disk keeps what it had.
Crash(p) ==
  /\ ~At(p, "off")
  /\ proc' = Moved(p, Off)
  /\ UNCHANGED <<change, disk, seen, acked, blind, boots>>

BootStep(p) ==
  \/ ResumeRestore(p) \/ OpenStore(p) \/ ReadStatus(p) \/ TakeSnapshot(p) \/ ReadBaseline(p)
  \/ ApplyNext(p) \/ CheckMigration(p) \/ RecordVersion(p) \/ PlainFault(p)
  \/ CloseForRestore(p) \/ TruncateMarker(p) \/ WriteMarker(p) \/ RemoveSiblings(p)
  \/ DecompressAndVerify(p) \/ RenameIntoPlace(p) \/ ClearMarker(p) \/ RestoreFault(p)
  \/ Listen(p)

Next == \E p \in Procs : Start(p) \/ BootStep(p) \/ Request(p) \/ Shutdown(p) \/ Crash(p)

Spec == Init /\ [][Next]_vars
=============================================================================
