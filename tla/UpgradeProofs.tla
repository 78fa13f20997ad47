---------------------------- MODULE UpgradeProofs ----------------------------
(***************************************************************************)
(* Proofs of the properties of module UpgradeProperties, for any builds,    *)
(* migrations, databases and bounds, when one process at a time runs over   *)
(* the file.  That one process is what Runner assumes (src/internal/migrate *)
(* /runner.go); NothingWasLost shows what two do to each other.             *)
(***************************************************************************)
EXTENDS UpgradeProperties, TLAPS

\* One process over the file.
OneProcess == \A p, q \in Procs : p = q

-----------------------------------------------------------------------------
(* The inductive invariant: what a process holds at each stage, and what is  *)
(* on the disk while it does.                                                *)

\* The stages that hold the path of a snapshot, of a restore, and of a restore that has its marker.
Holding == {"baseline", "apply", "check", "close"} \cup RestoreStages
Marked == {"siblings", "decompress", "rename", "unmark"}
\* The stages before a boot has accepted anything, and those where what it accepted is there.
Begun(p) == \/ proc[p].stage \in {"resume", "open", "status"}
            \/ proc[p].stage \in RestoreStages /\ proc[p].resuming
Accepting == {"snapshot", "baseline", "apply", "record", "listen", "serving"}

Held ==
  \A p \in Procs :
    /\ proc[p].handle # "orphan"
    /\ proc[p].stage \in Holding => proc[p].snap \in Paths
    /\ proc[p].stage \in {"apply", "check"} => proc[p].guard \in Guards
    /\ proc[p].stage \in {"status", "snapshot", "baseline", "apply", "check", "close"} => ~proc[p].resuming

\* No copy of the database, current or put aside, holds a write nobody was answered.
Answered ==
  /\ \A d \in {file, wal, scratch} : d # Absent => d.rows <= acked
  /\ \A i \in Paths : backups[i].rows <= acked

Restoring ==
  \A p \in Procs :
    /\ proc[p].stage \in Marked => marker = proc[p].snap
    /\ proc[p].stage \in {"decompress", "rename", "unmark"} => wal = Absent
    /\ proc[p].stage = "rename" => scratch = backups[proc[p].snap]
    /\ proc[p].stage = "unmark" => file = backups[proc[p].snap]

\* A marker that is not yet acted on keeps every process before serving.
MarkerSeen ==
  marker # Absent /\ ~blind => \A p \in Procs : proc[p].stage \in {"off", "resume"} \cup RestoreStages

\* Nothing a restore would put back has lost a write.
Kept ==
  ~blind =>
    /\ marker \in Paths => backups[marker].rows = acked
    /\ \A p \in Procs : proc[p].stage \in Holding => backups[proc[p].snap].rows = acked

\* What the boot has accepted is in the database, or in the state the next check compares with.
Covered ==
  \A p \in Procs :
    /\ Begun(p) => seen[p] = {}
    /\ proc[p].stage \in Accepting => seen[p] \subseteq Database.parts
    /\ proc[p].stage \in {"apply", "check"} =>
         /\ LedgerTables \cap seen[p] \subseteq proc[p].guard.tables
         /\ \A t \in Triggers \cap seen[p] : /\ TableOf[t] \in proc[p].guard.tables
                                             /\ t \notin proc[p].guard.missing

IInv ==
  /\ TypeOK /\ Held /\ Answered /\ Restoring /\ MarkerSeen /\ Kept /\ NothingLost /\ Covered

-----------------------------------------------------------------------------
(* What the steps are made of.                                               *)

\* There is a newest build.
LEMMA NewestIsBuilt == Newest \in Binaries /\ \A m \in Binaries : m <= Newest
BY BinariesAssumption DEF Newest

\* A version of a build is a version.
LEMMA VersionsAre == Newest \in Nat /\ \A b \in Binaries : b \in 0..Newest
BY NewestIsBuilt, BinariesAssumption

\* No database is the mark of an absent one, and no path is.
LEMMA AbsentIsNone ==
  /\ Absent \notin Databases /\ Empty \notin Databases
  /\ Absent \notin Nat /\ Empty \notin Nat /\ Absent # Empty
BY AbsentAssumption

\* The database is one, whatever part of it is in the -wal.
LEMMA DatabaseType == TypeOK => Database \in Databases
BY DEF TypeOK, Database

\* With one process nobody else has the file open.
LEMMA AloneCloses ==
  ASSUME OneProcess, NEW p \in Procs
  PROVE  ~OthersOpen(p)
BY DEF OneProcess, OthersOpen

\* ... and replacing it moves nobody else.
LEMMA AloneMoves ==
  ASSUME OneProcess, TypeOK, NEW p \in Procs, NEW to
  PROVE  MovedAndOrphaned(p, to) = Moved(p, to)
BY DEF OneProcess, TypeOK, MovedAndOrphaned, Moved

\* Closing a store moves the database to the main file and changes nothing in it.
LEMMA CloseKeeps ==
  ASSUME TypeOK, NEW p \in Procs, CloseStore(p)
  PROVE  /\ Database' = Database
         /\ file' \in Databases /\ wal' \in Databases \cup {Absent}
         /\ file' \in {file, Database} /\ wal' \in {wal, Absent}
         /\ wal = Absent => wal' = Absent /\ file' = file
<1>1. CASE file' = Database /\ wal' = Absent
  BY <1>1, DatabaseType DEF Database
<1>2. CASE UNCHANGED <<file, wal>>
  BY <1>2 DEF Database, TypeOK
<1> QED BY <1>1, <1>2 DEF CloseStore

\* A commit makes the database what was committed.
LEMMA CommitKeeps ==
  ASSUME TypeOK, NEW d \in Databases, CommitDatabase(d)
  PROVE  /\ Database' = d
         /\ file' \in Databases /\ wal' \in Databases
         /\ file' \in {file, d} /\ wal' = d
BY AbsentIsNone DEF CommitDatabase, Database, TypeOK

\* A migration of a build that the database has not had makes a database of the next version.
LEMMA MigratedType ==
  ASSUME TypeOK, NEW d \in Databases, NEW b \in Binaries, d.version < b,
         OnTables(Migrated(d, change[d.version + 1]).parts)
  PROVE  /\ Migrated(d, change[d.version + 1]) \in Databases
         /\ Migrated(d, change[d.version + 1]).rows = d.rows
<1> DEFINE v == d.version + 1
           c == change[v]
           X == (d.parts \ (c.drops \cup {t \in Triggers : TableOf[t] \in c.drops})) \cup c.adds
<1>1. d.version \in Nat /\ d.parts \subseteq Parts /\ d.rows \in 0..MaxRows
  BY VersionsAre DEF Databases
<1>2. v \in Versions
  BY <1>1, VersionsAre DEF Versions
<1>3. c.adds \subseteq Parts
  <2>1. c \in UNION {Changes[w] : w \in Versions}
    BY <1>2 DEF TypeOK
  <2>2. PICK w \in Versions : c \in Changes[w]
    BY <2>1
  <2>3. c \in [adds : SUBSET Parts, drops : SUBSET Parts]
    BY <2>2, ChangesAssumption
  <2> QED BY <2>3
<1>4. v \in 0..Newest /\ X \in SUBSET Parts
  BY <1>1, <1>2, <1>3, VersionsAre DEF Versions
<1>5. Migrated(d, c) = [d EXCEPT !.version = v, !.parts = X]
  BY Zenon DEF Migrated
<1>6. LET e == [d EXCEPT !.version = v, !.parts = X] IN e.parts = X /\ e.rows = d.rows
  BY DEF Databases
<1>7. \A w \in 0..Newest : \A ps \in SUBSET Parts :
        OnTables(ps) => [d EXCEPT !.version = w, !.parts = ps] \in Databases
  BY DEF Databases
<1>8. OnTables(X)
  <2>1. Migrated(d, c).parts = X
    BY Zenon, <1>5, <1>6
  <2> QED BY Zenon, <2>1
<1>9. Migrated(d, c) \in Databases
  BY Zenon, <1>4, <1>5, <1>7, <1>8
<1> QED BY Zenon, <1>5, <1>6, <1>9

\* With one process, where it goes is where every process is.
LEMMA Alone ==
  ASSUME OneProcess, TypeOK, NEW p \in Procs, NEW to, proc' = Moved(p, to)
  PROVE  \A q \in Procs : q = p /\ proc'[q] = to
BY DEF OneProcess, TypeOK, Moved

\* Processes hold paths of snapshots; these change only when one is taken.
LEMMA SamePaths ==
  ASSUME UNCHANGED backups
  PROVE  Paths' = Paths /\ Processes' = Processes
BY DEF Paths, Processes

\* A process that is one moves to a process.
LEMMA MovedType ==
  ASSUME TypeOK, NEW p \in Procs, NEW to \in Processes, proc' = Moved(p, to)
  PROVE  proc' \in [Procs -> Processes]
BY DEF TypeOK, Moved

\* What the steps make of a process.
LEMMA ProcessTypes ==
  ASSUME NEW was \in Processes, NEW stage \in Stages, NEW handle \in {"none", "live", "orphan"},
         NEW snap \in Paths \cup {Absent}, NEW guard \in Guards \cup {Absent}, NEW r \in BOOLEAN
  PROVE  /\ [was EXCEPT !.stage = stage, !.resuming = r, !.snap = snap] \in Processes
         /\ [was EXCEPT !.stage = stage, !.handle = handle, !.resuming = r, !.snap = snap] \in Processes
         /\ [was EXCEPT !.stage = stage, !.guard = guard] \in Processes
         /\ [was EXCEPT !.stage = stage, !.handle = handle, !.guard = guard] \in Processes
         /\ [was EXCEPT !.stage = stage, !.handle = handle] \in Processes
         /\ [was EXCEPT !.stage = stage, !.handle = handle, !.guard = guard, !.snap = snap] \in Processes
<1>1. [was EXCEPT !.stage = stage, !.resuming = r, !.snap = snap] \in Processes
  BY DEF Processes
<1>2. [was EXCEPT !.stage = stage, !.handle = handle, !.resuming = r, !.snap = snap] \in Processes
  BY DEF Processes
<1>3. [was EXCEPT !.stage = stage, !.guard = guard] \in Processes
  BY DEF Processes
<1>4. [was EXCEPT !.stage = stage, !.handle = handle, !.guard = guard] \in Processes
  BY DEF Processes
<1>5. [was EXCEPT !.stage = stage, !.handle = handle] \in Processes
  BY DEF Processes
<1>6. [was EXCEPT !.stage = stage, !.handle = handle, !.guard = guard, !.snap = snap] \in Processes
  BY DEF Processes
<1> QED BY <1>1, <1>2, <1>3, <1>4, <1>5, <1>6

\* A process that starts, and one that ended.
LEMMA OffTypes ==
  /\ Off \in Processes
  /\ \A b \in Binaries, serve, auto \in BOOLEAN :
       [Off EXCEPT !.stage = "resume", !.binary = b, !.serve = serve, !.auto = auto] \in Processes
BY DEF Off, Processes, Stages

\* Moving on keeps a process a process.
LEMMA GoType ==
  ASSUME TypeOK, NEW p \in Procs, NEW stage \in Stages, Go(p, stage)
  PROVE  /\ proc' \in [Procs -> Processes]
         /\ proc' = Moved(p, [proc[p] EXCEPT !.stage = stage])
BY DEF TypeOK, Processes, Go, Moved

\* So do ending and going on to serve.
LEMMA ExitType ==
  ASSUME TypeOK, NEW p \in Procs, Exit(p)
  PROVE  proc' \in [Procs -> Processes]
BY OffTypes, MovedType DEF Exit

LEMMA ReturnType ==
  ASSUME TypeOK, NEW p \in Procs, Return(p)
  PROVE  proc' \in [Procs -> Processes]
<1>1. CASE proc[p].serve
  <2>1. proc' = Moved(p, [proc[p] EXCEPT !.stage = "listen", !.handle = "none", !.guard = Absent, !.snap = Absent])
    BY <1>1 DEF Return
  <2>2. proc[p] \in Processes /\ "listen" \in Stages
    BY DEF TypeOK, Stages
  <2> QED BY <2>1, <2>2, ProcessTypes, MovedType
<1>2. CASE ~proc[p].serve
  BY <1>2, OffTypes, MovedType DEF Return
<1> QED BY <1>1, <1>2

\* The one process is at the stage, and holds the path, the guard and the handle.
Becomes(p, stage, snap, guard, handle, resuming) ==
  \A q \in Procs :
    /\ q = p
    /\ proc'[q].stage = stage /\ proc'[q].snap = snap /\ proc'[q].guard = guard
    /\ proc'[q].handle = handle /\ proc'[q].resuming = resuming

\* What the fields are of a process some of whose fields are set.
LEMMA Fields ==
  ASSUME NEW was \in Processes, NEW stage, NEW snap, NEW guard, NEW handle, NEW resuming
  PROVE  /\ LET to == [was EXCEPT !.stage = stage, !.handle = handle, !.guard = guard, !.snap = snap]
            IN  /\ to.stage = stage /\ to.snap = snap /\ to.guard = guard
                /\ to.handle = handle /\ to.resuming = was.resuming
         /\ LET to == [was EXCEPT !.stage = stage, !.handle = handle, !.resuming = resuming, !.snap = snap]
            IN  /\ to.stage = stage /\ to.snap = snap /\ to.guard = was.guard
                /\ to.handle = handle /\ to.resuming = resuming
         /\ LET to == [was EXCEPT !.stage = stage, !.handle = handle, !.guard = guard]
            IN  /\ to.stage = stage /\ to.snap = was.snap /\ to.guard = guard
                /\ to.handle = handle /\ to.resuming = was.resuming
         /\ LET to == [was EXCEPT !.stage = stage, !.handle = handle]
            IN  /\ to.stage = stage /\ to.snap = was.snap /\ to.guard = was.guard
                /\ to.handle = handle /\ to.resuming = was.resuming
BY DEF Processes

\* What the ways of moving on leave a process with.
LEMMA GoMoves ==
  ASSUME OneProcess, TypeOK, NEW p \in Procs, NEW stage, Go(p, stage)
  PROVE  Becomes(p, stage, proc[p].snap, proc[p].guard, proc[p].handle, proc[p].resuming)
<1>1. \A q \in Procs : q = p /\ proc'[q] = [proc[p] EXCEPT !.stage = stage]
  BY Alone DEF Go
<1>2. proc[p] \in Processes
  BY DEF TypeOK
<1> QED BY <1>1, <1>2 DEF Becomes, Processes

LEMMA ExitMoves ==
  ASSUME OneProcess, TypeOK, NEW p \in Procs, Exit(p)
  PROVE  Becomes(p, "off", Absent, Absent, "none", FALSE)
<1>1. \A q \in Procs : q = p /\ proc'[q] = Off
  BY Alone DEF Exit
<1> QED BY <1>1 DEF Becomes, Off

LEMMA ReturnMoves ==
  ASSUME OneProcess, TypeOK, NEW p \in Procs, Return(p)
  PROVE  \/ Becomes(p, "off", Absent, Absent, "none", FALSE)
         \/ Becomes(p, "listen", Absent, Absent, "none", proc[p].resuming)
<1>1. proc[p] \in Processes
  BY DEF TypeOK
<1>2. CASE proc[p].serve
  <2> DEFINE to == [proc[p] EXCEPT !.stage = "listen", !.handle = "none", !.guard = Absent, !.snap = Absent]
  <2>1. \A q \in Procs : q = p /\ proc'[q] = to
    BY <1>2, Alone DEF Return
  <2>2. /\ to.stage = "listen" /\ to.snap = Absent /\ to.guard = Absent
        /\ to.handle = "none" /\ to.resuming = proc[p].resuming
    BY <1>1, Fields
  <2> HIDE DEF to
  <2> QED BY Zenon, <2>1, <2>2 DEF Becomes
<1>3. CASE ~proc[p].serve
  BY <1>3, ExitMoves DEF Return, Exit
<1> QED BY <1>2, <1>3

\* What the steps that set more than the stage leave it with.
LEMMA StartMoves ==
  ASSUME OneProcess, TypeOK, NEW p \in Procs, Start(p)
  PROVE  Becomes(p, "resume", Absent, Absent, "none", FALSE)
<1>1. PICK b \in Binaries, cmd \in {<<TRUE, TRUE>>, <<TRUE, FALSE>>, <<FALSE, TRUE>>} :
        proc' = Moved(p, [Off EXCEPT !.stage = "resume", !.binary = b, !.serve = cmd[1], !.auto = cmd[2]])
  BY DEF Start
<1> DEFINE to == [Off EXCEPT !.stage = "resume", !.binary = b, !.serve = cmd[1], !.auto = cmd[2]]
<1>2. \A q \in Procs : q = p /\ proc'[q] = to
  BY <1>1, Alone
<1>3. \A serve, auto :
        LET begun == [Off EXCEPT !.stage = "resume", !.binary = b, !.serve = serve, !.auto = auto]
        IN  /\ begun.stage = "resume" /\ begun.snap = Absent /\ begun.guard = Absent
            /\ begun.handle = "none" /\ begun.resuming = FALSE
  BY DEF Off
<1>4. /\ to.stage = "resume" /\ to.snap = Absent /\ to.guard = Absent
      /\ to.handle = "none" /\ to.resuming = FALSE
  BY <1>3
<1> QED BY Zenon, <1>2, <1>4 DEF Becomes

LEMMA ResumeMoves ==
  ASSUME OneProcess, TypeOK, NEW p \in Procs,
         proc' = Moved(p, [proc[p] EXCEPT !.stage = "mark", !.resuming = TRUE, !.snap = marker])
  PROVE  Becomes(p, "mark", marker, proc[p].guard, proc[p].handle, TRUE)
<1>1. proc[p] \in Processes
  BY DEF TypeOK
<1> DEFINE to == [proc[p] EXCEPT !.stage = "mark", !.resuming = TRUE, !.snap = marker]
<1>2. \A q \in Procs : q = p /\ proc'[q] = to
  BY Alone
<1>3. /\ to.stage = "mark" /\ to.snap = marker /\ to.guard = proc[p].guard
      /\ to.handle = proc[p].handle /\ to.resuming = TRUE
  BY <1>1 DEF Processes
<1> HIDE DEF to
<1> QED BY Zenon, <1>2, <1>3 DEF Becomes

LEMMA ApplyMoves ==
  ASSUME OneProcess, TypeOK, NEW p \in Procs, NEW guard,
         proc' = Moved(p, [proc[p] EXCEPT !.stage = "apply", !.guard = guard])
  PROVE  Becomes(p, "apply", proc[p].snap, guard, proc[p].handle, proc[p].resuming)
<1>1. proc[p] \in Processes
  BY DEF TypeOK
<1> DEFINE to == [proc[p] EXCEPT !.stage = "apply", !.guard = guard]
<1>2. \A q \in Procs : q = p /\ proc'[q] = to
  BY Alone
<1>3. /\ to.stage = "apply" /\ to.snap = proc[p].snap /\ to.guard = guard
      /\ to.handle = proc[p].handle /\ to.resuming = proc[p].resuming
  BY <1>1 DEF Processes
<1> HIDE DEF to
<1> QED BY Zenon, <1>2, <1>3 DEF Becomes

LEMMA StepMoves ==
  ASSUME OneProcess, TypeOK, NEW p \in Procs
  PROVE  /\ OpenStore(p) => Becomes(p, "status", Absent, proc[p].guard, "live", FALSE)
         /\ TakeSnapshot(p) =>
              Becomes(p, "baseline", Len(backups) + 1, proc[p].guard, proc[p].handle, proc[p].resuming)
         /\ CloseForRestore(p) => Becomes(p, "mark", proc[p].snap, Absent, "none", proc[p].resuming)
         /\ RemoveSiblings(p) =>
              Becomes(p, "decompress", proc[p].snap, proc[p].guard, proc[p].handle, proc[p].resuming)
         /\ RenameIntoPlace(p) =>
              Becomes(p, "unmark", proc[p].snap, proc[p].guard, proc[p].handle, proc[p].resuming)
         /\ Listen(p) => \E h \in {"live", "none"} :
              Becomes(p, "serving", proc[p].snap, proc[p].guard, h, proc[p].resuming)
<1>p. proc[p] \in Processes
  BY DEF TypeOK
<1>0. \A to : proc' = Moved(p, to) => \A q \in Procs : q = p /\ proc'[q] = to
  BY Alone
<1>2. OpenStore(p) => Becomes(p, "status", Absent, proc[p].guard, "live", FALSE)
  <2> DEFINE to == [proc[p] EXCEPT !.stage = "status", !.handle = "live", !.resuming = FALSE, !.snap = Absent]
  <2>1. SUFFICES ASSUME \A q \in Procs : q = p /\ proc'[q] = to
                 PROVE  Becomes(p, "status", Absent, proc[p].guard, "live", FALSE)
    BY <1>0 DEF OpenStore
  <2>2. /\ to.stage = "status" /\ to.snap = Absent /\ to.guard = proc[p].guard
        /\ to.handle = "live" /\ to.resuming = FALSE
    BY <1>p, Fields
  <2> HIDE DEF to
  <2> QED BY Zenon, <2>1, <2>2 DEF Becomes
<1>3. TakeSnapshot(p) =>
        Becomes(p, "baseline", Len(backups) + 1, proc[p].guard, proc[p].handle, proc[p].resuming)
  <2>1. SUFFICES ASSUME \A q \in Procs :
                          q = p /\ proc'[q] = [proc[p] EXCEPT !.stage = "baseline", !.snap = Len(backups) + 1]
                 PROVE  Becomes(p, "baseline", Len(backups) + 1, proc[p].guard, proc[p].handle,
                                proc[p].resuming)
    BY <1>0 DEF TakeSnapshot
  <2> QED BY <1>p, <2>1 DEF Becomes, Processes
<1>5. CloseForRestore(p) => Becomes(p, "mark", proc[p].snap, Absent, "none", proc[p].resuming)
  <2> DEFINE to == [proc[p] EXCEPT !.stage = "mark", !.handle = "none", !.guard = Absent]
  <2>1. SUFFICES ASSUME \A q \in Procs : q = p /\ proc'[q] = to
                 PROVE  Becomes(p, "mark", proc[p].snap, Absent, "none", proc[p].resuming)
    BY <1>0 DEF CloseForRestore
  <2>2. /\ to.stage = "mark" /\ to.snap = proc[p].snap /\ to.guard = Absent
        /\ to.handle = "none" /\ to.resuming = proc[p].resuming
    BY <1>p, Fields
  <2> HIDE DEF to
  <2> QED BY Zenon, <2>1, <2>2 DEF Becomes
<1>6. RemoveSiblings(p) => Go(p, "decompress")
  BY AloneMoves DEF RemoveSiblings, Go
<1>7. RenameIntoPlace(p) => Go(p, "unmark")
  BY AloneMoves DEF RenameIntoPlace, Go
<1>8. ASSUME Listen(p)
      PROVE  \E h \in {"live", "none"} :
               Becomes(p, "serving", proc[p].snap, proc[p].guard, h, proc[p].resuming)
  <2>1. PICK h \in {"live", "none"} : proc' = Moved(p, [proc[p] EXCEPT !.stage = "serving", !.handle = h])
    BY <1>8 DEF Listen
  <2> DEFINE to == [proc[p] EXCEPT !.stage = "serving", !.handle = h]
  <2>2. \A q \in Procs : q = p /\ proc'[q] = to
    BY <1>0, <2>1
  <2>3. /\ to.stage = "serving" /\ to.snap = proc[p].snap /\ to.guard = proc[p].guard
        /\ to.handle = h /\ to.resuming = proc[p].resuming
    BY <1>p, Fields
  <2> HIDE DEF to
  <2>4. Becomes(p, "serving", proc[p].snap, proc[p].guard, h, proc[p].resuming)
    BY Zenon, <2>2, <2>3 DEF Becomes
  <2> QED BY Zenon, <2>4
<1> QED BY Zenon, <1>2, <1>3, <1>5, <1>6, <1>7, <1>8, GoMoves

\* A request that commits leaves a database with one row more.
LEMMA RequestCommits ==
  ASSUME TypeOK, Answered, NEW p \in Procs, Request(p), proc[p].handle = "live"
  PROVE  /\ Database'.rows = Database.rows + 1 /\ Database'.parts = Database.parts
         /\ Database' \in Databases
         /\ file' \in {file, Database'} /\ wal' = Database'
<1> DEFINE next == [Database EXCEPT !.rows = @ + 1]
<1>1. Database \in Databases /\ Database \in {file, wal} /\ Database # Absent
  BY DatabaseType, AbsentIsNone DEF Database
<1>2. Database.rows + 1 \in 0..MaxRows
  BY <1>1, BoundsAssumption DEF Request, TypeOK, Answered, Databases
<1>3. \A d \in Databases : \A r \in 0..MaxRows :
        /\ [d EXCEPT !.rows = r] \in Databases
        /\ [d EXCEPT !.rows = r].rows = r /\ [d EXCEPT !.rows = r].parts = d.parts
  BY DEF Databases
<1>4. next = [Database EXCEPT !.rows = Database.rows + 1]
  BY Zenon
<1>5. next \in Databases /\ next.rows = Database.rows + 1 /\ next.parts = Database.parts
  BY <1>1, <1>2, <1>3, <1>4
<1>6. CommitDatabase(next)
  BY DEF Request
<1> HIDE DEF next
<1>7. Database' = next /\ file' \in {file, next} /\ wal' = next
  BY <1>5, <1>6, CommitKeeps
<1> QED BY <1>5, <1>7

-----------------------------------------------------------------------------
(* Types, and what a process holds                                           *)

\* Every step keeps the types.
LEMMA TypeStep == OneProcess /\ IInv /\ [Next]_vars => TypeOK'
<1> SUFFICES ASSUME OneProcess, IInv, [Next]_vars PROVE TypeOK'
  OBVIOUS
<1> USE DEF disk
<1>0. TypeOK /\ Held /\ Answered /\ Restoring
  BY DEF IInv
<1>p. \A p \in Procs : proc[p] \in Processes
  BY <1>0 DEF TypeOK
<1>1. ASSUME NEW p \in Procs, Start(p) PROVE TypeOK'
  <2>1. proc' \in [Procs -> Processes]
    <3>1. PICK b \in Binaries, cmd \in {<<TRUE, TRUE>>, <<TRUE, FALSE>>, <<FALSE, TRUE>>} :
            proc' = Moved(p, [Off EXCEPT !.stage = "resume", !.binary = b, !.serve = cmd[1], !.auto = cmd[2]])
      BY <1>1 DEF Start
    <3>2. cmd[1] \in BOOLEAN /\ cmd[2] \in BOOLEAN
      <4>1. CASE cmd = <<TRUE, TRUE>>
        BY <4>1
      <4>2. CASE cmd = <<TRUE, FALSE>>
        BY <4>2
      <4>3. CASE cmd = <<FALSE, TRUE>>
        BY <4>3
      <4> QED BY Zenon, <3>1, <4>1, <4>2, <4>3
    <3> QED BY <1>0, <3>1, <3>2, OffTypes, MovedType
  <2> QED BY <1>0, <1>1, SamePaths, <2>1, BoundsAssumption DEF Start, TypeOK
<1>2. ASSUME NEW p \in Procs, ResumeRestore(p) PROVE TypeOK'
  <2>1. proc' \in [Procs -> Processes]
    <3>1. CASE Go(p, "open")
      BY <1>0, <3>1, GoType DEF Stages
    <3>2. CASE Return(p)
      BY <1>0, <3>2, ReturnType
    <3>3. CASE /\ marker \notin {Absent, Empty}
               /\ proc' = Moved(p, [proc[p] EXCEPT !.stage = "mark", !.resuming = TRUE, !.snap = marker])
      <4>1. marker \in Paths /\ "mark" \in Stages
        BY <1>0, <3>3 DEF TypeOK, Stages
      <4> QED BY <1>0, <1>p, <3>3, <4>1, ProcessTypes, MovedType
    <3> QED BY <1>2, <3>1, <3>2, <3>3 DEF ResumeRestore
  <2> QED BY <1>0, <1>2, SamePaths, <2>1 DEF ResumeRestore, TypeOK
<1>3. ASSUME NEW p \in Procs, OpenStore(p) PROVE TypeOK'
  <2>1. "status" \in Stages
    BY DEF Stages
  <2>2. proc' \in [Procs -> Processes]
    BY <1>0, <1>p, <1>3, <2>1, ProcessTypes, MovedType DEF OpenStore
  <2> QED BY <1>0, <1>3, SamePaths, <2>2 DEF OpenStore, TypeOK
<1>4. ASSUME NEW p \in Procs, ReadStatus(p) PROVE TypeOK'
  <2>1. proc' \in [Procs -> Processes]
    BY <1>0, <1>4, GoType, ExitType, ReturnType DEF ReadStatus, Stages
  <2>2. file' \in Databases /\ wal' \in Databases \cup {Absent}
    BY <1>0, <1>4, SamePaths, CloseKeeps DEF ReadStatus, TypeOK
  <2>3. seen' \in [Procs -> SUBSET Parts]
    BY <1>0, <1>4, SamePaths, DatabaseType DEF ReadStatus, TypeOK, Databases
  <2> QED BY <1>0, <1>4, SamePaths, <2>1, <2>2, <2>3 DEF ReadStatus, TypeOK
<1>5. ASSUME NEW p \in Procs, TakeSnapshot(p) PROVE TypeOK'
  <2>1. backups' \in Seq(Databases) /\ Paths' = Paths \cup {Len(backups) + 1}
    BY <1>0, <1>5, SamePaths, DatabaseType DEF TakeSnapshot, TypeOK, Paths
  <2>2. proc' \in [Procs -> Processes']
    <3>1. \A was \in Processes : was \in Processes'
      BY <2>1 DEF Processes
    <3>2. \A was \in Processes : [was EXCEPT !.stage = "baseline", !.snap = Len(backups) + 1] \in Processes'
      BY <2>1 DEF Processes, Stages
    <3>3. proc' = Moved(p, [proc[p] EXCEPT !.stage = "baseline", !.snap = Len(backups) + 1])
      BY <1>5 DEF TakeSnapshot
    <3>4. [proc[p] EXCEPT !.stage = "baseline", !.snap = Len(backups) + 1] \in Processes'
      BY <1>p, <3>2
    <3>5. \A to \in Processes' : Moved(p, to) \in [Procs -> Processes']
      <4>1. \A q \in Procs : proc[q] \in Processes'
        BY <1>p, <3>1
      <4> QED BY <1>0, <4>1 DEF Moved, TypeOK
    <3> QED BY <3>3, <3>4, <3>5
  <2> QED BY <1>0, <1>5, SamePaths, <2>1, <2>2, DatabaseType DEF TakeSnapshot, TypeOK
<1>6. ASSUME NEW p \in Procs, ReadBaseline(p) PROVE TypeOK'
  <2>1. AppendOnlyState(Database) \in Guards
    BY DEF AppendOnlyState, TablesIn, MissingIn, Guards
  <2>2. "apply" \in Stages
    BY DEF Stages
  <2>3. proc' \in [Procs -> Processes]
    BY <1>0, <1>p, <1>6, <2>1, <2>2, ProcessTypes, MovedType DEF ReadBaseline
  <2> QED BY <1>0, <1>6, SamePaths, <2>3 DEF ReadBaseline, TypeOK
<1>7. ASSUME NEW p \in Procs, ApplyNext(p) PROVE TypeOK'
  <2>1. proc' \in [Procs -> Processes]
    BY <1>0, <1>7, GoType DEF ApplyNext, Stages
  <2>2. file' \in Databases /\ wal' \in Databases \cup {Absent}
    <3>1. CASE UNCHANGED <<file, wal>>
      BY <1>0, <3>1 DEF TypeOK
    <3>2. CASE /\ Database.version < proc[p].binary
               /\ OnTables(Migrated(Database, change[Database.version + 1]).parts)
               /\ CommitDatabase(Migrated(Database, change[Database.version + 1]))
      <4>1. proc[p].binary \in Binaries
        BY <1>0, <3>2, DatabaseType, VersionsAre DEF TypeOK, Processes, Databases
      <4>2. Migrated(Database, change[Database.version + 1]) \in Databases
        BY <1>0, <3>2, <4>1, DatabaseType, MigratedType
      <4> QED BY <1>0, <3>2, <4>2, CommitKeeps
    <3> QED BY <1>7, <3>1, <3>2 DEF ApplyNext
  <2> QED BY <1>0, <1>7, SamePaths, <2>1, <2>2 DEF ApplyNext, TypeOK
<1>8. ASSUME NEW p \in Procs, CheckMigration(p) PROVE TypeOK'
  <2>1. AppendOnlyState(Database) \in Guards
    BY DEF AppendOnlyState, TablesIn, MissingIn, Guards
  <2>2. proc' \in [Procs -> Processes]
    <3>1. CASE proc' = Moved(p, [proc[p] EXCEPT !.stage = "apply", !.guard = AppendOnlyState(Database)])
      <4>1. "apply" \in Stages
        BY DEF Stages
      <4> QED BY <1>0, <1>p, <2>1, <3>1, <4>1, ProcessTypes, MovedType
    <3>2. CASE Go(p, "close")
      BY <1>0, <3>2, GoType DEF Stages
    <3> QED BY <1>8, <3>1, <3>2 DEF CheckMigration
  <2>3. seen' \in [Procs -> SUBSET Parts]
    BY <1>0, <1>8, SamePaths, DatabaseType DEF CheckMigration, TypeOK, Databases
  <2> QED BY <1>0, <1>8, SamePaths, <2>2, <2>3 DEF CheckMigration, TypeOK
<1>9. ASSUME NEW p \in Procs, RecordVersion(p) \/ PlainFault(p) PROVE TypeOK'
  BY <1>0, <1>9, SamePaths, ReturnType, CloseKeeps DEF RecordVersion, PlainFault, TypeOK
<1>10. ASSUME NEW p \in Procs, CloseForRestore(p) PROVE TypeOK'
  <2>1. proc' \in [Procs -> Processes]
    <3>1. "mark" \in Stages
      BY DEF Stages
    <3> QED BY <1>0, <1>p, <1>10, <3>1, ProcessTypes, MovedType DEF CloseForRestore
  <2>2. file' \in Databases /\ wal' \in Databases \cup {Absent}
    BY <1>0, <1>10, SamePaths, CloseKeeps DEF CloseForRestore, TypeOK
  <2> QED BY <1>0, <1>10, SamePaths, <2>1, <2>2 DEF CloseForRestore, TypeOK
<1>11. ASSUME NEW p \in Procs, TruncateMarker(p) PROVE TypeOK'
  BY <1>0, <1>11, SamePaths, GoType DEF TruncateMarker, TypeOK, Stages
<1>12. ASSUME NEW p \in Procs, WriteMarker(p) PROVE TypeOK'
  <2>1. proc[p].snap \in Paths
    BY <1>0, <1>12 DEF WriteMarker, Held, Holding, RestoreStages, At
  <2> QED BY <1>0, <1>12, SamePaths, <2>1, GoType DEF WriteMarker, TypeOK, Stages
<1>13. ASSUME NEW p \in Procs, RemoveSiblings(p) PROVE TypeOK'
  <2>1. proc' = Moved(p, [proc[p] EXCEPT !.stage = "decompress"])
    BY <1>0, <1>13, AloneMoves DEF RemoveSiblings
  <2>2. Go(p, "decompress") /\ "decompress" \in Stages
    BY <2>1 DEF Go, Stages
  <2>3. proc' \in [Procs -> Processes]
    BY <1>0, <2>2, GoType
  <2> QED BY <1>0, <1>13, SamePaths, <2>3 DEF RemoveSiblings, TypeOK
<1>14. ASSUME NEW p \in Procs, DecompressAndVerify(p) PROVE TypeOK'
  <2>1. backups[proc[p].snap] \in Databases
    BY <1>0, <1>14, SamePaths DEF DecompressAndVerify, Held, Holding, RestoreStages, At, TypeOK, Paths
  <2> QED BY <1>0, <1>14, SamePaths, <2>1, GoType DEF DecompressAndVerify, TypeOK, Stages
<1>15. ASSUME NEW p \in Procs, RenameIntoPlace(p) PROVE TypeOK'
  <2>1. scratch \in Databases
    BY <1>0, <1>15, SamePaths DEF RenameIntoPlace, Restoring, Held, Holding, RestoreStages, At, TypeOK, Paths
  <2>2. proc' = Moved(p, [proc[p] EXCEPT !.stage = "unmark"])
    BY <1>0, <1>15, AloneMoves DEF RenameIntoPlace
  <2>3. Go(p, "unmark") /\ "unmark" \in Stages
    BY <2>2 DEF Go, Stages
  <2>4. proc' \in [Procs -> Processes]
    BY <1>0, <2>3, GoType
  <2> QED BY <1>0, <1>15, SamePaths, <2>1, <2>4 DEF RenameIntoPlace, TypeOK
<1>16. ASSUME NEW p \in Procs, ClearMarker(p) PROVE TypeOK'
  BY <1>0, <1>16, SamePaths, GoType, ExitType DEF ClearMarker, TypeOK, Stages
<1>17. ASSUME NEW p \in Procs, RestoreFault(p) \/ Crash(p) PROVE TypeOK'
  <2>1. proc' \in [Procs -> Processes]
    <3>1. Exit(p)
      BY <1>17 DEF RestoreFault, Crash, Exit
    <3> QED BY <1>0, <3>1, ExitType
  <2> QED BY <1>0, <1>17, SamePaths, <2>1 DEF RestoreFault, Crash, TypeOK
<1>18. ASSUME NEW p \in Procs, Listen(p) PROVE TypeOK'
  <2>1. "serving" \in Stages
    BY DEF Stages
  <2>2. proc' \in [Procs -> Processes]
    <3>1. PICK h \in {"live", "none"} : proc' = Moved(p, [proc[p] EXCEPT !.stage = "serving", !.handle = h])
      BY <1>18 DEF Listen
    <3> QED BY <1>0, <1>p, <2>1, <3>1, ProcessTypes, MovedType
  <2> QED BY <1>0, <1>18, SamePaths, <2>2 DEF Listen, TypeOK
<1>19. ASSUME NEW p \in Procs, Request(p) PROVE TypeOK'
  <2>3. file' \in Databases /\ wal' \in Databases \cup {Absent}
    BY <1>0, <1>19, RequestCommits DEF Request, TypeOK
  <2> QED BY <1>0, <1>19, SamePaths, <2>3, BoundsAssumption DEF Request, TypeOK
<1>20. ASSUME NEW p \in Procs, Shutdown(p) PROVE TypeOK'
  BY <1>0, <1>20, SamePaths, ExitType, CloseKeeps DEF Shutdown, TypeOK
<1>21. CASE UNCHANGED vars
  BY <1>0, <1>21, SamePaths DEF vars, TypeOK, Processes, Paths
<1> QED
  BY <1>1, <1>2, <1>3, <1>4, <1>5, <1>6, <1>7, <1>8, <1>9, <1>10, <1>11, <1>12, <1>13, <1>14, <1>15,
     <1>16, <1>17, <1>18, <1>19, <1>20, <1>21 DEF Next, BootStep

\* Every step keeps what a process holds.
LEMMA HeldStep == OneProcess /\ IInv /\ [Next]_vars => Held'
<1> SUFFICES ASSUME OneProcess, IInv, [Next]_vars PROVE Held'
  OBVIOUS
<1> USE DEF disk, Becomes, At, Holding, RestoreStages
<1>0. TypeOK /\ Held
  BY DEF IInv
<1>1. ASSUME NEW p \in Procs, Start(p) PROVE Held'
  BY <1>0, <1>1, StartMoves DEF Held
<1>2. ASSUME NEW p \in Procs, ResumeRestore(p) PROVE Held'
  <2>1. Paths' = Paths
    BY <1>2, SamePaths DEF ResumeRestore
  <2>2. CASE Go(p, "open")
    BY <1>0, <2>1, <2>2, GoMoves DEF Held
  <2>3. CASE Return(p)
    BY <1>0, <2>1, <2>3, ReturnMoves DEF Held
  <2>4. CASE /\ marker \notin {Absent, Empty}
             /\ proc' = Moved(p, [proc[p] EXCEPT !.stage = "mark", !.resuming = TRUE, !.snap = marker])
    <3>1. Becomes(p, "mark", marker, proc[p].guard, proc[p].handle, TRUE)
      BY <1>0, <2>4, ResumeMoves
    <3>2. marker \in Paths
      BY <1>0, <2>4 DEF TypeOK
    <3> QED BY <1>0, <2>1, <3>1, <3>2 DEF Held
  <2> QED BY <1>2, <2>2, <2>3, <2>4 DEF ResumeRestore
<1>3. ASSUME NEW p \in Procs, OpenStore(p) PROVE Held'
  <2>1. Becomes(p, "status", Absent, proc[p].guard, "live", FALSE)
    BY Zenon, <1>0, <1>3, StepMoves
  <2> QED BY <1>0, <2>1 DEF Held
<1>4. ASSUME NEW p \in Procs, ReadStatus(p) PROVE Held'
  <2>1. At(p, "status") /\ (Exit(p) \/ Return(p) \/ Go(p, "record") \/ Go(p, "snapshot"))
    BY <1>4 DEF ReadStatus
  <2>2. CASE Exit(p)
    BY <1>0, <2>2, ExitMoves DEF Held
  <2>3. CASE Return(p)
    BY <1>0, <2>3, ReturnMoves DEF Held
  <2>4. CASE Go(p, "record")
    BY <1>0, <2>1, <2>4, GoMoves DEF Held
  <2>5. CASE Go(p, "snapshot")
    BY <1>0, <2>1, <2>5, GoMoves DEF Held
  <2> QED BY <2>1, <2>2, <2>3, <2>4, <2>5
<1>5. ASSUME NEW p \in Procs, TakeSnapshot(p) PROVE Held'
  <2>1. Becomes(p, "baseline", Len(backups) + 1, proc[p].guard, proc[p].handle, proc[p].resuming)
    BY Zenon, <1>0, <1>5, StepMoves
  <2>2. Len(backups) + 1 \in Paths'
    BY <1>0, <1>5 DEF TakeSnapshot, Paths, TypeOK
  <2> QED BY <1>0, <1>5, <2>1, <2>2 DEF TakeSnapshot, Held
<1>6. ASSUME NEW p \in Procs, ReadBaseline(p) PROVE Held'
  <2>1. AppendOnlyState(Database) \in Guards
    BY DEF AppendOnlyState, TablesIn, MissingIn, Guards
  <2>2. Becomes(p, "apply", proc[p].snap, AppendOnlyState(Database), proc[p].handle, proc[p].resuming)
    BY <1>0, <1>6, ApplyMoves DEF ReadBaseline
  <2>3. At(p, "baseline") /\ Paths' = Paths
    BY <1>6, SamePaths DEF ReadBaseline
  <2> QED BY <1>0, <2>1, <2>2, <2>3 DEF Held
<1>7. ASSUME NEW p \in Procs, ApplyNext(p) PROVE Held'
  BY <1>0, <1>7, SamePaths, GoMoves DEF ApplyNext, Held
<1>8. ASSUME NEW p \in Procs, CheckMigration(p) PROVE Held'
  <2>1. AppendOnlyState(Database) \in Guards
    BY DEF AppendOnlyState, TablesIn, MissingIn, Guards
  <2>2. At(p, "check") /\ Paths' = Paths
    BY <1>8, SamePaths DEF CheckMigration
  <2>3. CASE Go(p, "close")
    BY <1>0, <2>2, <2>3, GoMoves DEF Held
  <2>4. CASE proc' = Moved(p, [proc[p] EXCEPT !.stage = "apply", !.guard = AppendOnlyState(Database)])
    <3>1. Becomes(p, "apply", proc[p].snap, AppendOnlyState(Database), proc[p].handle, proc[p].resuming)
      BY <1>0, <2>4, ApplyMoves
    <3> QED BY <1>0, <2>1, <2>2, <3>1 DEF Held
  <2> QED BY <1>8, <2>3, <2>4 DEF CheckMigration
<1>9. ASSUME NEW p \in Procs, RecordVersion(p) \/ PlainFault(p) PROVE Held'
  BY <1>0, <1>9, SamePaths, ReturnMoves DEF RecordVersion, PlainFault, Held
<1>10. ASSUME NEW p \in Procs, CloseForRestore(p) PROVE Held'
  <2>1. Becomes(p, "mark", proc[p].snap, Absent, "none", proc[p].resuming)
    BY Zenon, <1>0, <1>10, StepMoves
  <2> QED BY <1>0, <1>10, <2>1, SamePaths DEF CloseForRestore, Held
<1>11. ASSUME NEW p \in Procs, TruncateMarker(p) \/ WriteMarker(p) \/ DecompressAndVerify(p) PROVE Held'
  BY <1>0, <1>11, SamePaths, GoMoves DEF TruncateMarker, WriteMarker, DecompressAndVerify, Held
<1>12. ASSUME NEW p \in Procs, RemoveSiblings(p) PROVE Held'
  <2>1. Becomes(p, "decompress", proc[p].snap, proc[p].guard, proc[p].handle, proc[p].resuming)
    BY Zenon, <1>0, <1>12, StepMoves
  <2> QED BY <1>0, <1>12, <2>1, SamePaths DEF RemoveSiblings, Held
<1>13. ASSUME NEW p \in Procs, RenameIntoPlace(p) PROVE Held'
  <2>1. Becomes(p, "unmark", proc[p].snap, proc[p].guard, proc[p].handle, proc[p].resuming)
    BY Zenon, <1>0, <1>13, StepMoves
  <2> QED BY <1>0, <1>13, <2>1, SamePaths DEF RenameIntoPlace, Held
<1>14. ASSUME NEW p \in Procs, ClearMarker(p) PROVE Held'
  <2>1. CASE Go(p, "open")
    BY <1>0, <2>1, GoMoves DEF Held
  <2>2. CASE Exit(p)
    BY <1>0, <2>2, ExitMoves DEF Held
  <2> QED BY <1>14, <2>1, <2>2 DEF ClearMarker
<1>15. ASSUME NEW p \in Procs, RestoreFault(p) \/ Crash(p) \/ Shutdown(p) PROVE Held'
  <2>1. Exit(p)
    BY <1>15 DEF RestoreFault, Crash, Shutdown, Exit
  <2> QED BY <1>0, <2>1, ExitMoves DEF Held
<1>16. ASSUME NEW p \in Procs, Listen(p) PROVE Held'
  <2>1. PICK h \in {"live", "none"} : Becomes(p, "serving", proc[p].snap, proc[p].guard, h, proc[p].resuming)
    BY Zenon, <1>0, <1>16, StepMoves
  <2> QED BY <1>0, <1>16, <2>1 DEF Held
<1>17. ASSUME NEW p \in Procs, Request(p) PROVE Held'
  BY <1>0, <1>17, SamePaths DEF Request, Held
<1>18. CASE UNCHANGED vars
  BY <1>0, <1>18, SamePaths DEF vars, Held
<1> QED
  BY <1>1, <1>2, <1>3, <1>4, <1>5, <1>6, <1>7, <1>8, <1>9, <1>10, <1>11, <1>12, <1>13, <1>14, <1>15,
     <1>16, <1>17, <1>18 DEF Next, BootStep

\* The database holds no write nobody was answered.
LEMMA DatabaseAnswered == TypeOK /\ Answered => Database # Absent /\ Database.rows <= acked
<1> SUFFICES ASSUME TypeOK, Answered PROVE Database # Absent /\ Database.rows <= acked
  OBVIOUS
<1>1. Database \in {file, wal} /\ Database # Absent
  BY AbsentIsNone DEF Database, TypeOK
<1> QED BY <1>1 DEF Answered

\* Every step keeps the copies within what was answered.
LEMMA AnsweredStep == OneProcess /\ IInv /\ [Next]_vars => Answered'
<1> SUFFICES ASSUME OneProcess, IInv, [Next]_vars PROVE Answered'
  OBVIOUS
<1> USE DEF disk
<1>0. TypeOK /\ Held /\ Answered /\ Restoring /\ Database # Absent /\ Database.rows <= acked
  BY DatabaseAnswered DEF IInv
<1>1. CASE UNCHANGED <<file, wal, scratch, backups, acked>>
  BY <1>0, <1>1, SamePaths DEF Answered
<1>2. ASSUME NEW p \in Procs, CloseStore(p), UNCHANGED <<scratch, backups, acked>> PROVE Answered'
  <2>1. file' \in {file, Database} /\ wal' \in {wal, Absent}
    BY <1>0, <1>2, CloseKeeps
  <2> QED BY <1>0, <1>2, <2>1, SamePaths DEF Answered
<1>3. ASSUME NEW p \in Procs, TakeSnapshot(p) PROVE Answered'
  <2>1. /\ Paths' = Paths \cup {Len(backups) + 1}
        /\ \A i \in Paths : backups'[i] = backups[i]
        /\ backups'[Len(backups) + 1] = Database
    BY <1>0, <1>3 DEF TakeSnapshot, Paths, TypeOK
  <2> QED BY <1>0, <1>3, <2>1 DEF TakeSnapshot, Answered
<1>4. ASSUME NEW p \in Procs, ApplyNext(p) PROVE Answered'
  <2>1. CASE UNCHANGED <<file, wal>>
    BY <1>1, <1>4, <2>1 DEF ApplyNext
  <2>2. CASE /\ Database.version < proc[p].binary
             /\ OnTables(Migrated(Database, change[Database.version + 1]).parts)
             /\ CommitDatabase(Migrated(Database, change[Database.version + 1]))
    <3>1. proc[p].binary \in Binaries
      BY <1>0, <2>2, DatabaseType, VersionsAre DEF TypeOK, Processes, Databases
    <3> DEFINE next == Migrated(Database, change[Database.version + 1])
    <3>2. next \in Databases /\ next.rows = Database.rows
      BY <1>0, <2>2, <3>1, DatabaseType, MigratedType
    <3> HIDE DEF next
    <3>3. file' \in {file, next} /\ wal' = next
      BY <1>0, <2>2, <3>2, CommitKeeps DEF next
    <3> QED BY <1>0, <1>4, <3>2, <3>3, SamePaths DEF ApplyNext, Answered
  <2> QED BY <1>4, <2>1, <2>2 DEF ApplyNext
<1>5. ASSUME NEW p \in Procs, RemoveSiblings(p) PROVE Answered'
  BY <1>0, <1>5, SamePaths DEF RemoveSiblings, Answered
<1>6. ASSUME NEW p \in Procs, DecompressAndVerify(p) PROVE Answered'
  <2>1. proc[p].snap \in Paths
    BY <1>0, <1>6 DEF DecompressAndVerify, Held, Holding, RestoreStages, At
  <2> QED BY <1>0, <1>6, <2>1, SamePaths DEF DecompressAndVerify, Answered
<1>7. ASSUME NEW p \in Procs, RenameIntoPlace(p) PROVE Answered'
  <2>1. proc[p].snap \in Paths /\ scratch = backups[proc[p].snap]
    BY <1>0, <1>7 DEF RenameIntoPlace, Held, Restoring, Holding, RestoreStages, At
  <2> QED BY <1>0, <1>7, <2>1, SamePaths DEF RenameIntoPlace, Answered
<1>8. ASSUME NEW p \in Procs, Request(p) PROVE Answered'
  <2>1. acked' = acked + 1 /\ acked \in Nat /\ acked' \in 0..MaxRows /\ Paths' = Paths
    BY <1>0, <1>8, SamePaths, BoundsAssumption DEF Request, TypeOK
  <2>2. Database.rows \in Nat /\ \A d \in Databases : d.rows \in Nat
    BY <1>0, DatabaseType DEF Databases
  <2>3. \A i \in Paths : backups[i] \in Databases
    BY <1>0 DEF TypeOK, Paths
  <2>4. CASE UNCHANGED <<file, wal>>
    BY <1>0, <1>8, <2>1, <2>2, <2>3, <2>4, SamePaths DEF Request, Answered, TypeOK
  <2>5. CASE proc[p].handle = "live"
    BY <1>0, <1>8, <2>1, <2>2, <2>3, <2>5, RequestCommits DEF Request, Answered, TypeOK
  <2> QED BY <1>8, <2>4, <2>5 DEF Request
<1>9. ASSUME NEW p \in Procs, BootStep(p) PROVE Answered'
  <2>1. CASE ReadStatus(p) \/ RecordVersion(p) \/ PlainFault(p) \/ CloseForRestore(p)
    BY <1>1, <1>2, <2>1 DEF ReadStatus, RecordVersion, PlainFault, CloseForRestore
  <2>2. CASE \/ ResumeRestore(p) \/ OpenStore(p) \/ ReadBaseline(p) \/ CheckMigration(p) \/ TruncateMarker(p)
             \/ WriteMarker(p) \/ ClearMarker(p) \/ RestoreFault(p) \/ Listen(p)
    BY <1>1, <2>2 DEF ResumeRestore, OpenStore, ReadBaseline, CheckMigration, TruncateMarker, WriteMarker,
                      ClearMarker, RestoreFault, Listen
  <2> QED BY <1>3, <1>4, <1>5, <1>6, <1>7, <1>9, <2>1, <2>2 DEF BootStep
<1>10. ASSUME NEW p \in Procs, Start(p) \/ Crash(p) PROVE Answered'
  BY <1>1, <1>10 DEF Start, Crash
<1>11. ASSUME NEW p \in Procs, Shutdown(p) PROVE Answered'
  BY <1>2, <1>11 DEF Shutdown
<1> QED BY <1>1, <1>8, <1>9, <1>10, <1>11 DEF Next, vars

\* Every step keeps what a restore has done so far.
LEMMA RestoringStep == OneProcess /\ IInv /\ [Next]_vars => Restoring'
<1> SUFFICES ASSUME OneProcess, IInv, [Next]_vars PROVE Restoring'
  OBVIOUS
<1> USE DEF disk, Becomes, At, Marked
<1>0. TypeOK /\ Held /\ Restoring
  BY DEF IInv
<1>1. ASSUME NEW p \in Procs, \A q \in Procs : q = p /\ proc'[q].stage \notin Marked PROVE Restoring'
  BY <1>1 DEF Restoring
<1>2. ASSUME NEW p \in Procs, NEW stage, Go(p, stage), stage \notin Marked PROVE Restoring'
  BY <1>0, <1>1, <1>2, GoMoves
<1>3. ASSUME NEW p \in Procs, Exit(p) PROVE Restoring'
  BY <1>0, <1>1, <1>3, ExitMoves
<1>4. ASSUME NEW p \in Procs, Return(p) PROVE Restoring'
  BY <1>0, <1>1, <1>4, ReturnMoves
<1>5. ASSUME NEW p \in Procs, Start(p) PROVE Restoring'
  BY <1>0, <1>1, <1>5, StartMoves
<1>6. ASSUME NEW p \in Procs, ResumeRestore(p) PROVE Restoring'
  <2>1. CASE proc' = Moved(p, [proc[p] EXCEPT !.stage = "mark", !.resuming = TRUE, !.snap = marker])
    <3>1. Becomes(p, "mark", marker, proc[p].guard, proc[p].handle, TRUE)
      BY <1>0, <2>1, ResumeMoves
    <3> QED BY <1>1, <3>1
  <2> QED BY <1>2, <1>4, <1>6, <2>1 DEF ResumeRestore
<1>7. ASSUME NEW p \in Procs, OpenStore(p) PROVE Restoring'
  <2>1. Becomes(p, "status", Absent, proc[p].guard, "live", FALSE)
    BY Zenon, <1>0, <1>7, StepMoves
  <2> QED BY <1>1, <2>1
<1>8. ASSUME NEW p \in Procs, ReadStatus(p) PROVE Restoring'
  BY <1>2, <1>3, <1>4, <1>8 DEF ReadStatus
<1>9. ASSUME NEW p \in Procs, TakeSnapshot(p) PROVE Restoring'
  <2>1. Becomes(p, "baseline", Len(backups) + 1, proc[p].guard, proc[p].handle, proc[p].resuming)
    BY Zenon, <1>0, <1>9, StepMoves
  <2> QED BY <1>1, <2>1
<1>10. ASSUME NEW p \in Procs, ReadBaseline(p) PROVE Restoring'
  <2>1. Becomes(p, "apply", proc[p].snap, AppendOnlyState(Database), proc[p].handle, proc[p].resuming)
    BY <1>0, <1>10, ApplyMoves DEF ReadBaseline
  <2> QED BY <1>1, <2>1
<1>11. ASSUME NEW p \in Procs, ApplyNext(p) PROVE Restoring'
  BY <1>2, <1>11 DEF ApplyNext
<1>12. ASSUME NEW p \in Procs, CheckMigration(p) PROVE Restoring'
  <2>1. CASE proc' = Moved(p, [proc[p] EXCEPT !.stage = "apply", !.guard = AppendOnlyState(Database)])
    <3>1. Becomes(p, "apply", proc[p].snap, AppendOnlyState(Database), proc[p].handle, proc[p].resuming)
      BY <1>0, <2>1, ApplyMoves
    <3> QED BY <1>1, <3>1
  <2> QED BY <1>2, <1>12, <2>1 DEF CheckMigration
<1>13. ASSUME NEW p \in Procs, RecordVersion(p) \/ PlainFault(p) PROVE Restoring'
  BY <1>4, <1>13 DEF RecordVersion, PlainFault
<1>14. ASSUME NEW p \in Procs, CloseForRestore(p) PROVE Restoring'
  <2>1. Becomes(p, "mark", proc[p].snap, Absent, "none", proc[p].resuming)
    BY Zenon, <1>0, <1>14, StepMoves
  <2> QED BY <1>1, <2>1
<1>15. ASSUME NEW p \in Procs, TruncateMarker(p) PROVE Restoring'
  BY <1>2, <1>15 DEF TruncateMarker
<1>16. ASSUME NEW p \in Procs, WriteMarker(p) PROVE Restoring'
  BY <1>0, <1>16, GoMoves DEF WriteMarker, Restoring
<1>17. ASSUME NEW p \in Procs, RemoveSiblings(p) PROVE Restoring'
  <2>1. Becomes(p, "decompress", proc[p].snap, proc[p].guard, proc[p].handle, proc[p].resuming)
    BY Zenon, <1>0, <1>17, StepMoves
  <2> QED BY <1>0, <1>17, <2>1 DEF RemoveSiblings, Restoring
<1>18. ASSUME NEW p \in Procs, DecompressAndVerify(p) PROVE Restoring'
  BY <1>0, <1>18, GoMoves DEF DecompressAndVerify, Restoring
<1>19. ASSUME NEW p \in Procs, RenameIntoPlace(p) PROVE Restoring'
  <2>1. Becomes(p, "unmark", proc[p].snap, proc[p].guard, proc[p].handle, proc[p].resuming)
    BY Zenon, <1>0, <1>19, StepMoves
  <2> QED BY <1>0, <1>19, <2>1 DEF RenameIntoPlace, Restoring
<1>20. ASSUME NEW p \in Procs, ClearMarker(p) PROVE Restoring'
  BY <1>2, <1>3, <1>20 DEF ClearMarker
<1>21. ASSUME NEW p \in Procs, RestoreFault(p) \/ Crash(p) \/ Shutdown(p) PROVE Restoring'
  BY <1>3, <1>21 DEF RestoreFault, Crash, Shutdown, Exit
<1>22. ASSUME NEW p \in Procs, Listen(p) PROVE Restoring'
  <2>1. PICK h \in {"live", "none"} : Becomes(p, "serving", proc[p].snap, proc[p].guard, h, proc[p].resuming)
    BY Zenon, <1>0, <1>22, StepMoves
  <2> QED BY <1>1, <2>1
<1>23. ASSUME NEW p \in Procs, Request(p) PROVE Restoring'
  <2>1. \A q \in Procs : q = p /\ proc'[q].stage = "serving"
    BY <1>23 DEF Request, OneProcess
  <2> QED BY <1>1, <2>1
<1>24. CASE UNCHANGED vars
  BY <1>0, <1>24 DEF vars, Restoring
<1> QED
  BY <1>5, <1>6, <1>7, <1>8, <1>9, <1>10, <1>11, <1>12, <1>13, <1>14, <1>15, <1>16, <1>17, <1>18, <1>19,
     <1>20, <1>21, <1>22, <1>23, <1>24 DEF Next, BootStep

\* Every step keeps a process that has not acted on a marker from serving.
LEMMA MarkerSeenStep == OneProcess /\ IInv /\ [Next]_vars => MarkerSeen'
<1> DEFINE Waiting == {"off", "resume"} \cup RestoreStages
<1> SUFFICES ASSUME OneProcess, IInv, [Next]_vars PROVE MarkerSeen'
  OBVIOUS
<1> USE DEF disk, Becomes, At, RestoreStages
<1>0. TypeOK /\ Held /\ Restoring /\ MarkerSeen
  BY DEF IInv
<1>1. ASSUME NEW p \in Procs, \A q \in Procs : q = p /\ proc'[q].stage \in Waiting PROVE MarkerSeen'
  BY <1>1 DEF MarkerSeen
<1>2. ASSUME NEW p \in Procs, NEW stage \in Waiting, Go(p, stage) PROVE MarkerSeen'
  BY <1>0, <1>1, <1>2, GoMoves
<1>3. ASSUME NEW p \in Procs, Exit(p) PROVE MarkerSeen'
  BY <1>0, <1>1, <1>3, ExitMoves
<1>4. ASSUME NEW p \in Procs, proc[p].stage \notin Waiting, marker' = marker, blind' = blind PROVE MarkerSeen'
  BY <1>0, <1>4 DEF MarkerSeen
<1>5. ASSUME NEW p \in Procs, Start(p) PROVE MarkerSeen'
  BY <1>0, <1>1, <1>5, StartMoves
<1>6. ASSUME NEW p \in Procs, ResumeRestore(p) PROVE MarkerSeen'
  <2>1. CASE marker' = Absent \/ blind'
    BY <2>1 DEF MarkerSeen
  <2>2. CASE proc' = Moved(p, [proc[p] EXCEPT !.stage = "mark", !.resuming = TRUE, !.snap = marker])
    <3>1. Becomes(p, "mark", marker, proc[p].guard, proc[p].handle, TRUE)
      BY <1>0, <2>2, ResumeMoves
    <3> QED BY <1>1, <3>1
  <2> QED BY <1>6, <2>1, <2>2 DEF ResumeRestore
<1>7. ASSUME NEW p \in Procs, OpenStore(p) \/ ReadStatus(p) \/ TakeSnapshot(p) \/ ReadBaseline(p) \/ ApplyNext(p)
      PROVE  MarkerSeen'
  BY <1>4, <1>7 DEF OpenStore, ReadStatus, TakeSnapshot, ReadBaseline, ApplyNext
<1>8. ASSUME NEW p \in Procs, \/ CheckMigration(p) \/ RecordVersion(p) \/ PlainFault(p) \/ CloseForRestore(p)
                              \/ Listen(p) \/ Request(p)
      PROVE  MarkerSeen'
  BY <1>4, <1>8 DEF CheckMigration, RecordVersion, PlainFault, CloseForRestore, Listen, Request
<1>9. ASSUME NEW p \in Procs, TruncateMarker(p) \/ WriteMarker(p) \/ DecompressAndVerify(p) PROVE MarkerSeen'
  BY <1>2, <1>9 DEF TruncateMarker, WriteMarker, DecompressAndVerify
<1>10. ASSUME NEW p \in Procs, RemoveSiblings(p) PROVE MarkerSeen'
  <2>1. Becomes(p, "decompress", proc[p].snap, proc[p].guard, proc[p].handle, proc[p].resuming)
    BY Zenon, <1>0, <1>10, StepMoves
  <2> QED BY <1>1, <2>1
<1>11. ASSUME NEW p \in Procs, RenameIntoPlace(p) PROVE MarkerSeen'
  <2>1. Becomes(p, "unmark", proc[p].snap, proc[p].guard, proc[p].handle, proc[p].resuming)
    BY Zenon, <1>0, <1>11, StepMoves
  <2> QED BY <1>1, <2>1
<1>12. ASSUME NEW p \in Procs, ClearMarker(p) PROVE MarkerSeen'
  BY <1>12 DEF ClearMarker, MarkerSeen
<1>13. ASSUME NEW p \in Procs, RestoreFault(p) \/ Crash(p) \/ Shutdown(p) PROVE MarkerSeen'
  BY <1>3, <1>13 DEF RestoreFault, Crash, Shutdown, Exit
<1>14. CASE UNCHANGED vars
  BY <1>0, <1>14 DEF vars, MarkerSeen
<1> QED
  BY <1>5, <1>6, <1>7, <1>8, <1>9, <1>10, <1>11, <1>12, <1>13, <1>14 DEF Next, BootStep

\* Every step keeps the snapshots a restore would put back up to date.
LEMMA KeptStep == OneProcess /\ IInv /\ [Next]_vars => Kept'
<1> SUFFICES ASSUME OneProcess, IInv, [Next]_vars PROVE Kept'
  OBVIOUS
<1> USE DEF disk, Becomes, At, Holding, RestoreStages
<1>0. TypeOK /\ Held /\ Restoring /\ MarkerSeen /\ Kept /\ NothingLost
  BY DEF IInv
<1>n. marker \in Paths => marker # Absent
  BY <1>0, AbsentIsNone DEF TypeOK, Paths
<1>1. ASSUME NEW p \in Procs, UNCHANGED <<marker, backups, acked, blind>>,
             \A q \in Procs : /\ q = p
                              /\ proc'[q].stage \in Holding =>
                                   proc[p].stage \in Holding /\ proc'[q].snap = proc[p].snap
      PROVE  Kept'
  BY <1>0, <1>1, SamePaths DEF Kept
<1>2. ASSUME NEW p \in Procs, NEW stage, Go(p, stage), UNCHANGED <<marker, backups, acked, blind>>,
             stage \in Holding => proc[p].stage \in Holding
      PROVE  Kept'
  BY <1>0, <1>1, <1>2, GoMoves
<1>3. ASSUME NEW p \in Procs, Exit(p), UNCHANGED <<marker, backups, acked, blind>> PROVE Kept'
  BY <1>0, <1>1, <1>3, ExitMoves
<1>4. ASSUME NEW p \in Procs, Return(p), UNCHANGED <<marker, backups, acked, blind>> PROVE Kept'
  BY <1>0, <1>1, <1>4, ReturnMoves
<1>5. ASSUME NEW p \in Procs, Start(p) PROVE Kept'
  BY <1>0, <1>1, <1>5, StartMoves DEF Start
<1>6. ASSUME NEW p \in Procs, ResumeRestore(p) PROVE Kept'
  <2>1. CASE Go(p, "open") /\ UNCHANGED blind
    BY <1>2, <1>6, <2>1 DEF ResumeRestore
  <2>2. CASE blind'
    BY <2>2 DEF Kept
  <2>3. CASE /\ marker \notin {Absent, Empty} /\ UNCHANGED blind
             /\ proc' = Moved(p, [proc[p] EXCEPT !.stage = "mark", !.resuming = TRUE, !.snap = marker])
    <3>1. Becomes(p, "mark", marker, proc[p].guard, proc[p].handle, TRUE)
      BY <1>0, <2>3, ResumeMoves
    <3>2. marker \in Paths
      BY <1>0, <2>3 DEF TypeOK
    <3> QED BY <1>0, <1>6, <2>3, <3>1, <3>2, SamePaths DEF ResumeRestore, Kept
  <2> QED BY <1>6, <2>1, <2>2, <2>3 DEF ResumeRestore
<1>7. ASSUME NEW p \in Procs, OpenStore(p) PROVE Kept'
  <2>1. Becomes(p, "status", Absent, proc[p].guard, "live", FALSE)
    BY Zenon, <1>0, <1>7, StepMoves
  <2> QED BY <1>1, <1>7, <2>1 DEF OpenStore
<1>8. ASSUME NEW p \in Procs, ReadStatus(p) PROVE Kept'
  BY <1>2, <1>3, <1>4, <1>8 DEF ReadStatus
<1>9. ASSUME NEW p \in Procs, TakeSnapshot(p) PROVE Kept'
  <2>1. Becomes(p, "baseline", Len(backups) + 1, proc[p].guard, proc[p].handle, proc[p].resuming)
    BY Zenon, <1>0, <1>9, StepMoves
  <2>2. ~blind => marker = Absent
    BY <1>0, <1>9 DEF TakeSnapshot, MarkerSeen
  <2>3. backups'[Len(backups) + 1] = Database
    BY <1>0, <1>9 DEF TakeSnapshot, TypeOK
  <2>4. Absent \notin Paths'
    BY <1>0, <1>9, AbsentIsNone DEF TakeSnapshot, TypeOK, Paths
  <2> QED BY <1>0, <1>9, <2>1, <2>2, <2>3, <2>4 DEF TakeSnapshot, NothingLost, Kept
<1>10. ASSUME NEW p \in Procs, ReadBaseline(p) PROVE Kept'
  <2>1. Becomes(p, "apply", proc[p].snap, AppendOnlyState(Database), proc[p].handle, proc[p].resuming)
    BY <1>0, <1>10, ApplyMoves DEF ReadBaseline
  <2> QED BY <1>1, <1>10, <2>1 DEF ReadBaseline
<1>11. ASSUME NEW p \in Procs, ApplyNext(p) PROVE Kept'
  BY <1>2, <1>11 DEF ApplyNext
<1>12. ASSUME NEW p \in Procs, CheckMigration(p) PROVE Kept'
  <2>1. CASE proc' = Moved(p, [proc[p] EXCEPT !.stage = "apply", !.guard = AppendOnlyState(Database)])
    <3>1. Becomes(p, "apply", proc[p].snap, AppendOnlyState(Database), proc[p].handle, proc[p].resuming)
      BY <1>0, <2>1, ApplyMoves
    <3> QED BY <1>1, <1>12, <3>1 DEF CheckMigration
  <2> QED BY <1>2, <1>12, <2>1 DEF CheckMigration
<1>13. ASSUME NEW p \in Procs, RecordVersion(p) \/ PlainFault(p) PROVE Kept'
  BY <1>4, <1>13 DEF RecordVersion, PlainFault
<1>14. ASSUME NEW p \in Procs, CloseForRestore(p) PROVE Kept'
  <2>1. Becomes(p, "mark", proc[p].snap, Absent, "none", proc[p].resuming)
    BY Zenon, <1>0, <1>14, StepMoves
  <2> QED BY <1>1, <1>14, <2>1 DEF CloseForRestore
<1>15. ASSUME NEW p \in Procs, TruncateMarker(p) PROVE Kept'
  <2>1. Empty \notin Paths'
    BY <1>0, <1>15, AbsentIsNone DEF TruncateMarker, TypeOK, Paths
  <2> QED BY <1>0, <1>15, <2>1, GoMoves DEF TruncateMarker, Kept
<1>16. ASSUME NEW p \in Procs, WriteMarker(p) PROVE Kept'
  BY <1>0, <1>16, GoMoves DEF WriteMarker, Kept
<1>17. ASSUME NEW p \in Procs, RemoveSiblings(p) PROVE Kept'
  <2>1. Becomes(p, "decompress", proc[p].snap, proc[p].guard, proc[p].handle, proc[p].resuming)
    BY Zenon, <1>0, <1>17, StepMoves
  <2> QED BY <1>1, <1>17, <2>1 DEF RemoveSiblings
<1>18. ASSUME NEW p \in Procs, DecompressAndVerify(p) PROVE Kept'
  BY <1>2, <1>18 DEF DecompressAndVerify
<1>19. ASSUME NEW p \in Procs, RenameIntoPlace(p) PROVE Kept'
  <2>1. Becomes(p, "unmark", proc[p].snap, proc[p].guard, proc[p].handle, proc[p].resuming)
    BY Zenon, <1>0, <1>19, StepMoves
  <2> QED BY <1>1, <1>19, <2>1 DEF RenameIntoPlace
<1>20. ASSUME NEW p \in Procs, ClearMarker(p) PROVE Kept'
  <2>1. Absent \notin Paths'
    BY <1>0, AbsentIsNone, <1>20 DEF ClearMarker, TypeOK, Paths
  <2>2. \A q \in Procs : q = p /\ proc'[q].stage \notin Holding
    <3>1. CASE Go(p, "open")
      BY <1>0, <3>1, GoMoves
    <3>2. CASE Exit(p)
      BY <1>0, <3>2, ExitMoves
    <3> QED BY <1>20, <3>1, <3>2 DEF ClearMarker
  <2> QED BY <1>20, <2>1, <2>2 DEF ClearMarker, Kept
<1>21. ASSUME NEW p \in Procs, RestoreFault(p) \/ Crash(p) \/ Shutdown(p) PROVE Kept'
  BY <1>3, <1>21 DEF RestoreFault, Crash, Shutdown, Exit
<1>22. ASSUME NEW p \in Procs, Listen(p) PROVE Kept'
  <2>1. PICK h \in {"live", "none"} : Becomes(p, "serving", proc[p].snap, proc[p].guard, h, proc[p].resuming)
    BY Zenon, <1>0, <1>22, StepMoves
  <2> QED BY <1>1, <1>22, <2>1 DEF Listen
<1>23. ASSUME NEW p \in Procs, Request(p) PROVE Kept'
  <2>1. ~blind => marker = Absent
    BY <1>0, <1>23 DEF Request, MarkerSeen
  <2>2. \A q \in Procs : proc'[q].stage = "serving"
    BY <1>23 DEF Request, OneProcess
  <2> QED BY <1>n, <1>23, <2>1, <2>2, SamePaths DEF Request, Kept
<1>24. CASE UNCHANGED vars
  BY <1>0, <1>24, SamePaths DEF vars, Kept
<1> QED
  BY <1>5, <1>6, <1>7, <1>8, <1>9, <1>10, <1>11, <1>12, <1>13, <1>14, <1>15, <1>16, <1>17, <1>18, <1>19,
     <1>20, <1>21, <1>22, <1>23, <1>24 DEF Next, BootStep

\* With no restore underway every step keeps the answered writes in the database.
LEMMA NothingLostStep == OneProcess /\ IInv /\ [Next]_vars => NothingLost'
<1> SUFFICES ASSUME OneProcess, IInv, [Next]_vars PROVE NothingLost'
  OBVIOUS
<1> USE DEF disk, At, Holding, RestoreStages
<1>0. TypeOK /\ Held /\ Answered /\ Restoring /\ Kept /\ NothingLost
  BY DEF IInv
<1>1. CASE Database' = Database /\ marker' = marker /\ blind' = blind /\ acked' = acked
  BY <1>0, <1>1 DEF NothingLost
<1>2. CASE UNCHANGED <<file, wal>> /\ marker' = marker /\ acked' = acked /\ (blind' = blind \/ blind')
  BY <1>0, <1>2 DEF NothingLost, Database
<1>3. ASSUME NEW p \in Procs, CloseStore(p), UNCHANGED <<marker, blind, acked>> PROVE NothingLost'
  BY <1>0, <1>1, <1>3, CloseKeeps
<1>4. ASSUME NEW p \in Procs, TakeSnapshot(p) PROVE NothingLost'
  BY <1>1, <1>4 DEF TakeSnapshot, Database
<1>5. ASSUME NEW p \in Procs, ApplyNext(p) PROVE NothingLost'
  <2>1. CASE UNCHANGED <<file, wal>>
    BY <1>2, <1>5, <2>1 DEF ApplyNext
  <2>2. CASE /\ Database.version < proc[p].binary
             /\ OnTables(Migrated(Database, change[Database.version + 1]).parts)
             /\ CommitDatabase(Migrated(Database, change[Database.version + 1]))
    <3>1. proc[p].binary \in Binaries
      BY <1>0, <2>2, DatabaseType, VersionsAre DEF TypeOK, Processes, Databases
    <3> DEFINE next == Migrated(Database, change[Database.version + 1])
    <3>2. next \in Databases /\ next.rows = Database.rows
      BY <1>0, <2>2, <3>1, DatabaseType, MigratedType
    <3> HIDE DEF next
    <3>3. Database' = next
      BY <1>0, <2>2, <3>2, CommitKeeps DEF next
    <3> QED BY <1>0, <1>5, <3>2, <3>3 DEF ApplyNext, NothingLost
  <2> QED BY <1>5, <2>1, <2>2 DEF ApplyNext
<1>6. ASSUME NEW p \in Procs, TruncateMarker(p) PROVE NothingLost'
  BY <1>6, AbsentIsNone DEF TruncateMarker, NothingLost
<1>7. ASSUME NEW p \in Procs, WriteMarker(p) PROVE NothingLost'
  <2>1. proc[p].snap # Absent
    BY <1>0, <1>7, AbsentIsNone DEF WriteMarker, Held, TypeOK, Paths
  <2> QED BY <1>7, <2>1 DEF WriteMarker, NothingLost
<1>8. ASSUME NEW p \in Procs, RemoveSiblings(p) \/ RenameIntoPlace(p) PROVE NothingLost'
  <2>1. marker # Absent
    BY <1>0, <1>8, AbsentIsNone DEF RemoveSiblings, RenameIntoPlace, Held, Restoring, Marked, TypeOK, Paths
  <2> QED BY <1>8, <2>1 DEF RemoveSiblings, RenameIntoPlace, NothingLost
<1>9. ASSUME NEW p \in Procs, ClearMarker(p) PROVE NothingLost'
  <2>1. wal = Absent /\ file = backups[proc[p].snap]
    BY <1>0, <1>9 DEF ClearMarker, Restoring
  <2>2. Database' = backups[proc[p].snap]
    BY <1>9, <2>1 DEF ClearMarker, Database
  <2> QED BY <1>0, <1>9, <2>2 DEF ClearMarker, Kept, NothingLost
<1>10. ASSUME NEW p \in Procs, Request(p) PROVE NothingLost'
  <2>1. proc[p].handle # "orphan" /\ proc[p].handle # "none" /\ proc[p] \in Processes
    BY <1>0, <1>10 DEF Request, Held, TypeOK
  <2>2. proc[p].handle = "live"
    BY <2>1 DEF Processes
  <2> QED BY <1>0, <1>10, <2>2, RequestCommits DEF Request, NothingLost
<1>11. ASSUME NEW p \in Procs, BootStep(p) PROVE NothingLost'
  <2>1. CASE ReadStatus(p) \/ RecordVersion(p) \/ PlainFault(p) \/ CloseForRestore(p)
    BY <1>2, <1>3, <2>1 DEF ReadStatus, RecordVersion, PlainFault, CloseForRestore
  <2>2. CASE \/ ResumeRestore(p) \/ OpenStore(p) \/ ReadBaseline(p) \/ CheckMigration(p)
             \/ DecompressAndVerify(p) \/ RestoreFault(p) \/ Listen(p)
    BY <1>2, <2>2 DEF ResumeRestore, OpenStore, ReadBaseline, CheckMigration, DecompressAndVerify,
                      RestoreFault, Listen
  <2> QED BY <1>4, <1>5, <1>6, <1>7, <1>8, <1>9, <1>11, <2>1, <2>2 DEF BootStep
<1>12. ASSUME NEW p \in Procs, Start(p) \/ Crash(p) PROVE NothingLost'
  BY <1>2, <1>12 DEF Start, Crash
<1>13. ASSUME NEW p \in Procs, Shutdown(p) PROVE NothingLost'
  BY <1>3, <1>13 DEF Shutdown
<1> QED BY <1>2, <1>10, <1>11, <1>12, <1>13 DEF Next, vars

\* What a boot accepted is what the next check holds the database to.
LEMMA GuardCovers ==
  ASSUME TypeOK, NEW accepted, accepted \subseteq Database.parts
  PROVE  /\ LedgerTables \cap accepted \subseteq AppendOnlyState(Database).tables
         /\ \A t \in Triggers \cap accepted : /\ TableOf[t] \in AppendOnlyState(Database).tables
                                               /\ t \notin AppendOnlyState(Database).missing
<1>1. OnTables(Database.parts)
  BY DatabaseType DEF Databases
<1> QED BY <1>1, TableOfAssumption DEF AppendOnlyState, TablesIn, MissingIn, OnTables

\* A database the check accepts has all that the boot accepted before.
LEMMA CheckCovers ==
  ASSUME TypeOK, Covered, NEW p \in Procs, proc[p].stage = "check", Sound \in Database.parts,
         ~Refuses(proc[p].guard, AppendOnlyState(Database))
  PROVE  seen[p] \subseteq Database.parts
<1>1. ASSUME NEW x \in seen[p] PROVE x \in Database.parts
  <2>1. x \in Parts
    BY <1>1 DEF TypeOK
  <2>2. CASE x \in LedgerTables
    BY <1>1, <2>2 DEF Covered, Refuses, AppendOnlyState, TablesIn
  <2>3. CASE x \in Triggers
    BY <1>1, <2>3 DEF Covered, Refuses, AppendOnlyState, TablesIn, MissingIn
  <2> QED BY <2>1, <2>2, <2>3 DEF Parts
<1> QED BY <1>1

\* Every step keeps what a boot accepted in the database, or in what the next check holds it to.
LEMMA CoveredStep == OneProcess /\ IInv /\ [Next]_vars => Covered'
<1> SUFFICES ASSUME OneProcess, IInv, [Next]_vars PROVE Covered'
  OBVIOUS
<1> USE DEF disk, At, Becomes, Begun, Accepting, RestoreStages
<1>0. TypeOK /\ Held /\ Answered /\ Restoring /\ Covered
  BY DEF IInv
<1>1. ASSUME NEW p \in Procs, Exit(p) PROVE Covered'
  BY <1>0, <1>1, ExitMoves DEF Covered
<1>2. ASSUME NEW p \in Procs, Return(p), Database' = Database, seen' = seen, Begun(p) \/ proc[p].stage \in Accepting
      PROVE  Covered'
  <2>1. seen[p] \subseteq Database.parts
    BY <1>0, <1>2 DEF Covered
  <2> QED BY <1>0, <1>2, <2>1, ReturnMoves DEF Covered
<1>3. ASSUME NEW p \in Procs, CloseStore(p) \/ UNCHANGED <<file, wal>> PROVE Database' = Database
  BY <1>0, <1>3, CloseKeeps DEF Database
<1>4. ASSUME NEW p \in Procs, Start(p) PROVE Covered'
  <2>1. seen'[p] = {}
    BY <1>0, <1>4 DEF Start, TypeOK
  <2> QED BY <1>0, <1>4, <2>1, StartMoves DEF Covered
<1>5. ASSUME NEW p \in Procs, ResumeRestore(p) PROVE Covered'
  <2>1. seen' = seen /\ seen[p] = {} /\ Database' = Database
    BY <1>0, <1>3, <1>5 DEF ResumeRestore, Covered
  <2>2. CASE Go(p, "open")
    BY <1>0, <2>1, <2>2, GoMoves DEF Covered
  <2>3. CASE Return(p)
    BY <1>2, <1>5, <2>1, <2>3 DEF ResumeRestore
  <2>4. CASE proc' = Moved(p, [proc[p] EXCEPT !.stage = "mark", !.resuming = TRUE, !.snap = marker])
    <3>1. Becomes(p, "mark", marker, proc[p].guard, proc[p].handle, TRUE)
      BY <1>0, <2>4, ResumeMoves
    <3> QED BY <2>1, <3>1 DEF Covered
  <2> QED BY <1>5, <2>2, <2>3, <2>4 DEF ResumeRestore
<1>6. ASSUME NEW p \in Procs, OpenStore(p) PROVE Covered'
  <2>1. Becomes(p, "status", Absent, proc[p].guard, "live", FALSE)
    BY Zenon, <1>0, <1>6, StepMoves
  <2> QED BY <1>0, <1>6, <2>1 DEF OpenStore, Covered
<1>7. ASSUME NEW p \in Procs, ReadStatus(p) PROVE Covered'
  <2>1. seen'[p] = Database.parts /\ Database' = Database
    BY <1>0, <1>3, <1>7 DEF ReadStatus, TypeOK
  <2>2. CASE Return(p)
    BY <1>0, <2>1, <2>2, ReturnMoves DEF Covered
  <2>3. CASE Go(p, "record") \/ Go(p, "snapshot")
    <3>1. proc[p].resuming = FALSE
      BY <1>0, <1>7 DEF ReadStatus, Held, TypeOK, Processes
    <3>2. \A q \in Procs : q = p /\ proc'[q].stage \in {"record", "snapshot"}
      BY <1>0, <2>3, GoMoves
    <3> QED BY <2>1, <3>2 DEF Covered
  <2> QED BY <1>1, <1>7, <2>2, <2>3 DEF ReadStatus
<1>8. ASSUME NEW p \in Procs, TakeSnapshot(p) PROVE Covered'
  <2>1. Becomes(p, "baseline", Len(backups) + 1, proc[p].guard, proc[p].handle, proc[p].resuming)
    BY Zenon, <1>0, <1>8, StepMoves
  <2>2. Database' = Database
    BY <1>8 DEF TakeSnapshot, Database
  <2> QED BY <1>0, <1>8, <2>1, <2>2 DEF TakeSnapshot, Covered
<1>9. ASSUME NEW p \in Procs, ReadBaseline(p) PROVE Covered'
  <2>1. Becomes(p, "apply", proc[p].snap, AppendOnlyState(Database), proc[p].handle, proc[p].resuming)
    BY <1>0, <1>9, ApplyMoves DEF ReadBaseline
  <2>2. seen' = seen /\ Database' = Database /\ seen[p] \subseteq Database.parts
    BY <1>0, <1>3, <1>9 DEF ReadBaseline, Covered
  <2> QED BY <1>0, <2>1, <2>2, GuardCovers DEF Covered
<1>10. ASSUME NEW p \in Procs, ApplyNext(p) PROVE Covered'
  <2>1. At(p, "apply") /\ seen' = seen
    BY <1>10 DEF ApplyNext
  <2>2. CASE Go(p, "record") /\ UNCHANGED <<file, wal>>
    BY <1>0, <1>3, <2>1, <2>2, GoMoves DEF Covered
  <2>3. CASE Go(p, "check")
    BY <1>0, <2>1, <2>3, GoMoves DEF Covered
  <2>4. CASE Go(p, "close")
    BY <1>0, <2>1, <2>4, GoMoves DEF Covered
  <2> QED BY <1>10, <2>2, <2>3, <2>4 DEF ApplyNext
<1>11. ASSUME NEW p \in Procs, CheckMigration(p) PROVE Covered'
  <2>1. At(p, "check") /\ Database' = Database
    BY <1>3, <1>11 DEF CheckMigration
  <2>2. CASE Go(p, "close")
    BY <1>0, <2>1, <2>2, GoMoves DEF Covered
  <2>3. CASE /\ Sound \in Database.parts /\ ~Refuses(proc[p].guard, AppendOnlyState(Database))
             /\ proc' = Moved(p, [proc[p] EXCEPT !.stage = "apply", !.guard = AppendOnlyState(Database)])
             /\ seen' = [seen EXCEPT ![p] = @ \cup Database.parts]
    <3>1. Becomes(p, "apply", proc[p].snap, AppendOnlyState(Database), proc[p].handle, proc[p].resuming)
      BY <1>0, <2>3, ApplyMoves
    <3>2. seen[p] \subseteq Database.parts
      BY <1>0, <2>1, <2>3, CheckCovers
    <3>3. seen'[p] = Database.parts
      BY <1>0, <2>3, <3>2 DEF TypeOK
    <3> QED BY <1>0, <2>1, <3>1, <3>3, GuardCovers DEF Covered
  <2> QED BY <1>11, <2>2, <2>3 DEF CheckMigration
<1>12. ASSUME NEW p \in Procs, RecordVersion(p) \/ PlainFault(p) PROVE Covered'
  BY <1>2, <1>3, <1>12 DEF RecordVersion, PlainFault
<1>13. ASSUME NEW p \in Procs, CloseForRestore(p) PROVE Covered'
  <2>1. Becomes(p, "mark", proc[p].snap, Absent, "none", proc[p].resuming)
    BY Zenon, <1>0, <1>13, StepMoves
  <2> QED BY <1>0, <1>13, <2>1 DEF CloseForRestore, Covered, Held
<1>14. ASSUME NEW p \in Procs, NEW stage \in RestoreStages, proc[p].stage \in RestoreStages, seen' = seen,
              Becomes(p, stage, proc[p].snap, proc[p].guard, proc[p].handle, proc[p].resuming)
       PROVE  Covered'
  BY <1>0, <1>14 DEF Covered
<1>15. ASSUME NEW p \in Procs, TruncateMarker(p) \/ WriteMarker(p) \/ DecompressAndVerify(p) PROVE Covered'
  <2>1. CASE TruncateMarker(p)
    BY <1>0, <1>14, <2>1, GoMoves DEF TruncateMarker
  <2>2. CASE WriteMarker(p)
    BY <1>0, <1>14, <2>2, GoMoves DEF WriteMarker
  <2>3. CASE DecompressAndVerify(p)
    BY <1>0, <1>14, <2>3, GoMoves DEF DecompressAndVerify
  <2> QED BY <1>15, <2>1, <2>2, <2>3
<1>16. ASSUME NEW p \in Procs, RemoveSiblings(p) PROVE Covered'
  <2>1. Becomes(p, "decompress", proc[p].snap, proc[p].guard, proc[p].handle, proc[p].resuming)
    BY Zenon, <1>0, <1>16, StepMoves
  <2> QED BY <1>14, <1>16, <2>1 DEF RemoveSiblings
<1>17. ASSUME NEW p \in Procs, RenameIntoPlace(p) PROVE Covered'
  <2>1. Becomes(p, "unmark", proc[p].snap, proc[p].guard, proc[p].handle, proc[p].resuming)
    BY Zenon, <1>0, <1>17, StepMoves
  <2> QED BY <1>14, <1>17, <2>1 DEF RenameIntoPlace
<1>18. ASSUME NEW p \in Procs, ClearMarker(p) PROVE Covered'
  <2>1. CASE proc[p].resuming /\ Go(p, "open")
    BY <1>0, <1>18, <2>1, GoMoves DEF ClearMarker, Covered
  <2> QED BY <1>1, <1>18, <2>1 DEF ClearMarker
<1>19. ASSUME NEW p \in Procs, RestoreFault(p) \/ Crash(p) \/ Shutdown(p) PROVE Covered'
  BY <1>1, <1>19 DEF RestoreFault, Crash, Shutdown, Exit
<1>20. ASSUME NEW p \in Procs, Listen(p) PROVE Covered'
  <2>1. PICK h \in {"live", "none"} : Becomes(p, "serving", proc[p].snap, proc[p].guard, h, proc[p].resuming)
    BY Zenon, <1>0, <1>20, StepMoves
  <2>2. Database' = Database
    BY <1>3, <1>20 DEF Listen
  <2> QED BY <1>0, <1>20, <2>1, <2>2 DEF Listen, Covered
<1>21. ASSUME NEW p \in Procs, Request(p) PROVE Covered'
  <2>1. Database'.parts = Database.parts
    BY <1>0, <1>3, <1>21, RequestCommits DEF Request
  <2>2. proc' = proc /\ seen' = seen /\ \A q \in Procs : proc[q].stage = "serving"
    BY <1>21 DEF Request, OneProcess
  <2> QED BY <1>0, <2>1, <2>2 DEF Covered
<1>22. CASE UNCHANGED vars
  BY <1>0, <1>22 DEF vars, Covered, Database
<1> QED
  BY <1>4, <1>5, <1>6, <1>7, <1>8, <1>9, <1>10, <1>11, <1>12, <1>13, <1>15, <1>16, <1>17, <1>18, <1>19,
     <1>20, <1>21, <1>22 DEF Next, BootStep

-----------------------------------------------------------------------------
(* The theorems.                                                             *)

\* A database that arrives, with no restore underway and no process, is in order.
LEMMA Starts == Init => IInv
<1> SUFFICES ASSUME Init PROVE IInv
  OBVIOUS
<1> USE DEF Init
<1>1. file \in Databases /\ acked = file.rows /\ Database = file /\ Paths = {}
  BY ArrivedAssumption DEF Database, Paths
<1>2. \A p \in Procs : proc[p] = Off /\ seen[p] = {}
  OBVIOUS
<1>3. TypeOK
  <2>1. acked \in 0..MaxRows
    BY <1>1 DEF Databases
  <2>2. proc \in [Procs -> Processes]
    BY OffTypes
  <2>3. change \in [Versions -> UNION {Changes[v] : v \in Versions}]
    OBVIOUS
  <2>4. seen \in [Procs -> SUBSET Parts]
    OBVIOUS
  <2>5. backups \in Seq(Databases)
    OBVIOUS
  <2>6. blind \in BOOLEAN
    BY Zenon
  <2>7. boots \in 0..MaxBoots
    BY BoundsAssumption
  <2> QED BY Zenon, <1>1, <2>1, <2>2, <2>3, <2>4, <2>5, <2>6, <2>7 DEF TypeOK
<1>4. Answered
  BY <1>1, <1>3 DEF Answered, Databases
<1>5. Held /\ Restoring /\ Covered
  BY <1>2 DEF Held, Restoring, Covered, Off, Holding, Marked, RestoreStages, Begun, Accepting
<1>6. MarkerSeen
  BY DEF MarkerSeen
<1>7. Kept
  BY <1>1, <1>2 DEF Kept, Off, Holding, RestoreStages
<1>8. NothingLost
  BY <1>1 DEF NothingLost
<1> QED BY <1>3, <1>4, <1>5, <1>6, <1>7, <1>8 DEF IInv

\* Every step keeps the invariant.
LEMMA Continues == OneProcess /\ IInv /\ [Next]_vars => IInv'
<1>1. OneProcess /\ IInv /\ [Next]_vars => TypeOK' /\ Held' /\ Answered' /\ Restoring'
  BY TypeStep, HeldStep, AnsweredStep, RestoringStep
<1>2. OneProcess /\ IInv /\ [Next]_vars => MarkerSeen' /\ Kept' /\ NothingLost' /\ Covered'
  BY MarkerSeenStep, KeptStep, NothingLostStep, CoveredStep
<1> QED BY <1>1, <1>2 DEF IInv

LEMMA Invariance == ASSUME OneProcess PROVE Spec => []IInv
<1>1. IInv /\ [Next]_vars => IInv'
  BY Continues
<1> QED BY Starts, <1>1, PTL DEF Spec

\* Whatever the builds, the migrations and the databases, and wherever a process fails or is
\* killed: every variable holds values of its kind, and a path held by a process or written to
\* the marker is that of a complete snapshot (snapshot.go).
THEOREM UpgradeTypes == ASSUME OneProcess PROVE Spec => []TypeOK
<1>1. IInv => TypeOK
  BY DEF IInv
<1> QED BY <1>1, Invariance, PTL

\* With no restore underway every answered write is in the database (version.go FailedError,
\* "Nothing was lost"), unless a boot has served over a marker it could not read.
THEOREM NothingIsLost == ASSUME OneProcess PROVE Spec => []NothingLost
<1>1. IInv => NothingLost
  BY DEF IInv
<1> QED BY <1>1, Invariance, PTL

\* A boot that serves has given up no table, no trigger and no integrity of any state it accepted
\* (runner.go Migrate, the comparison that rolls forward with each migration).
THEOREM ProtectionIsKept == ASSUME OneProcess PROVE Spec => []BootKeepsProtection
<1>1. IInv => BootKeepsProtection
  BY DEF IInv, Covered, Accepting, BootKeepsProtection, Serving, At
<1> QED BY <1>1, Invariance, PTL

\* No process serves while a readable marker names a snapshot still to be put back (restore.go
\* resumeRestore, cmd/dkp migrateOnBoot).
THEOREM NoneServesUnrestored == ASSUME OneProcess PROVE Spec => []NeverServesUnrestored
<1>1. IInv => NeverServesUnrestored
  <2>1. IInv /\ marker \in Paths => marker # Absent
    BY AbsentIsNone DEF IInv, TypeOK, Paths
  <2> QED BY <2>1 DEF IInv, MarkerSeen, NeverServesUnrestored, At, RestoreStages, TypeOK
<1> QED BY <1>1, Invariance, PTL

\* When a marker is cleared the database is exactly the snapshot it named, whatever the -wal, the
\* main file and earlier attempts had left (restore.go restore).
THEOREM RestoresAreExact == ASSUME OneProcess PROVE Spec => RestoreIsExact
<1> DEFINE Exact == marker' = Absent /\ marker \in Paths => Database' = backups[marker]
<1>1. IInv /\ [Next]_vars => [Exact]_vars
  <2> SUFFICES ASSUME IInv, Next, marker' = Absent, marker \in Paths PROVE Database' = backups[marker]
    OBVIOUS
  <2> USE DEF disk
  <2>1. marker # Absent
    BY AbsentIsNone DEF IInv, TypeOK, Paths
  <2>2. PICK p \in Procs : Start(p) \/ BootStep(p) \/ Request(p) \/ Shutdown(p) \/ Crash(p)
    BY DEF Next
  <2>3. CASE ClearMarker(p)
    <3>1. marker = proc[p].snap /\ wal = Absent /\ file = backups[proc[p].snap]
      BY <2>3 DEF IInv, Restoring, ClearMarker, At, Marked
    <3> QED BY <2>3, <3>1 DEF ClearMarker, Database
  <2>4. CASE TruncateMarker(p)
    BY <2>4, AbsentIsNone DEF TruncateMarker
  <2>5. CASE WriteMarker(p)
    BY <2>5, AbsentIsNone DEF WriteMarker, IInv, TypeOK, Held, Holding, RestoreStages, At, Paths
  <2>6. CASE marker' = marker
    BY <2>1, <2>6
  <2>7. CASE Start(p) \/ Request(p) \/ Shutdown(p) \/ Crash(p)
    BY <2>6, <2>7 DEF Start, Request, Shutdown, Crash
  <2>8. CASE \/ ResumeRestore(p) \/ OpenStore(p) \/ ReadStatus(p) \/ TakeSnapshot(p) \/ ReadBaseline(p)
             \/ ApplyNext(p) \/ CheckMigration(p) \/ RecordVersion(p) \/ PlainFault(p)
    BY <2>6, <2>8 DEF ResumeRestore, OpenStore, ReadStatus, TakeSnapshot, ReadBaseline, ApplyNext,
                      CheckMigration, RecordVersion, PlainFault
  <2>9. CASE \/ CloseForRestore(p) \/ RemoveSiblings(p) \/ DecompressAndVerify(p) \/ RenameIntoPlace(p)
             \/ RestoreFault(p) \/ Listen(p)
    BY <2>6, <2>9 DEF CloseForRestore, RemoveSiblings, DecompressAndVerify, RenameIntoPlace,
                      RestoreFault, Listen
  <2> QED BY <2>2, <2>3, <2>4, <2>5, <2>7, <2>8, <2>9 DEF BootStep
<1> QED BY <1>1, Invariance, PTL DEF Spec, RestoreIsExact
=============================================================================
