----------------------------- MODULE BackupRestore -----------------------------
(***************************************************************************)
(* Dumps of the database and their restore (services/backup.ts and the     *)
(* backup routes of routes/admin.ts).  A restore streams pg_restore's SQL  *)
(* into psql inside one transaction that the API commits by hand; around   *)
(* it the API takes a safety dump, pauses the extraction queue, recycles   *)
(* its pool and re-applies migrations.  pg_restore, psql and the API are   *)
(* separate processes joined by pipes; each may fail, and the API may die. *)
(***************************************************************************)
EXTENDS Naturals, FiniteSets

CONSTANTS
    Names,          \* file names in the backups directory
    Uploads,        \* the dumps an administrator may upload
    Ops,            \* the requests at work on backups
    Build,          \* the migration level of this build
    Chunks,         \* bound: pieces of SQL in a dump
    PipeSize,       \* bound: pieces the pipe into psql holds
    MaxWrites,      \* bound: writes of everyone else
    MaxCrashes,     \* bound: crashes of the API
    WritesMidRestore \* do others write between the safety dump and the restore?

ASSUME BackupAssumption ==
    /\ IsFiniteSet(Names) /\ IsFiniteSet(Ops)
    /\ Build \in Nat \ {0} /\ Chunks \in Nat \ {0} /\ PipeSize \in Nat \ {0}
    /\ MaxWrites \in Nat /\ MaxCrashes \in Nat /\ WritesMidRestore \in BOOLEAN
    /\ Uploads \subseteq [from : {"import"}, readable : BOOLEAN, whole : BOOLEAN,
                         foreign : BOOLEAN, drizzle : BOOLEAN, rows : SUBSET Nat,
                         schema : 0..Build, level : Nat]

VARIABLES
    db,         \* the vibetc schema, and the level drizzle recorded for it
    locked,     \* the operation whose transaction holds the schema, if any
    shelf,      \* the dumps under their final names
    partial,    \* the names that have a .partial file
    paused,     \* is the extraction queue paused?
    op,         \* per request: program counter and locals
    crashes

files == <<shelf, partial>>
backupVars == <<db, locked, files, paused, op, crashes>>

Nobody == "nobody"
NoDump == [from |-> "none"]
NoName == "no-name"

\* What pg_dump captures of the database as it is.
DumpOf(d) == [from |-> "dump", readable |-> TRUE, whole |-> TRUE, foreign |-> FALSE,
              drizzle |-> TRUE, rows |-> d.rows, schema |-> d.schema, level |-> d.level]

NewOp == [pc |-> "idle", kind |-> "none", name |-> NoName, dump |-> NoDump, own |-> NoName,
          saved |-> NoDump, restore |-> "run", psql |-> "run", stdin |-> "open", drained |-> FALSE,
          written |-> 0, fill |-> 0, applied |-> 0, warned |-> FALSE, committed |-> FALSE,
          pool |-> TRUE]

BackupInit ==
    /\ db = [rows |-> {}, schema |-> Build, level |-> Build, whole |-> TRUE]
    /\ locked = Nobody
    /\ shelf = [n \in Names |-> NoDump]
    /\ partial = {}
    /\ paused = FALSE
    /\ op = [o \in Ops |-> NewOp]
    /\ crashes = 0

Set(o, p) == op' = [op EXCEPT ![o] = p]
OpGoes(o, pc) == op' = [op EXCEPT ![o].pc = pc]
Answer(o, what) == Set(o, [NewOp EXCEPT !.pc = what, !.committed = op[o].committed])
Restoring(o) == op[o].kind = "restore" /\ op[o].pc \notin {"done", "failed", "error"}

\* A timestamp no file and no request has.
FreshNames ==
    {n \in Names : shelf[n] = NoDump /\ n \notin partial
                   /\ \A o \in Ops : n \notin {op[o].name, op[o].own}}

\* Another request may begin once the answer is out.
Ready(o) == op[o].pc \in {"idle", "done", "failed", "error"}

-----------------------------------------------------------------------------
(* createBackup, on its own or as the safety dump of a restore.            *)

\* Mutant form: pg_dump writes straight to the final name.
DumpInPlace(n) ==
    shelf' = [shelf EXCEPT ![n] = [DumpOf(db) EXCEPT !.whole = FALSE]] /\ UNCHANGED partial

DumpAside(n) == partial' = partial \cup {n} /\ UNCHANGED shelf

\* pg_dump opens its file and takes its snapshot; it cannot while the schema is
\* being replaced.
Snapshot(o, p) ==
    /\ locked = Nobody
    /\ \E n \in FreshNames :
          /\ DumpAside(n)
          /\ Set(o, [p EXCEPT !.pc = "dumping", !.own = n, !.saved = DumpOf(db)])
    /\ UNCHANGED <<db, locked, paused, crashes>>

StartCreate(o) == Ready(o) /\ Snapshot(o, [NewOp EXCEPT !.kind = "create"])

SafetyDump(o) == op[o].pc = "snapshot" /\ Snapshot(o, op[o])

\* pg_dump exits with an error: without a safety dump there is no restore.
DumpFails(o) ==
    /\ op[o].pc = "dumping"
    /\ partial' = partial \ {op[o].own}
    /\ Answer(o, "failed")
    /\ UNCHANGED <<db, locked, shelf, paused, crashes>>

\* It exits cleanly and the file takes its final name.
DumpEnds(o) ==
    /\ op[o].pc = "dumping"
    /\ shelf' = [shelf EXCEPT ![op[o].own] = op[o].saved]
    /\ partial' = partial \ {op[o].own}
    /\ IF op[o].kind = "create" THEN Answer(o, "done") ELSE OpGoes(o, "pause")
    /\ UNCHANGED <<db, locked, paused, crashes>>

-----------------------------------------------------------------------------
(* importBackup, deleteBackup and the nightly sweep.                       *)

\* The header, the table of contents and the schemas decide; a file cut short
\* behind its table of contents passes.
StartImport(o) ==
    /\ Ready(o)
    /\ \E u \in Uploads : \E n \in Names :
          /\ Set(o, IF u.readable /\ ~u.foreign /\ shelf[n] = NoDump
                    THEN [NewOp EXCEPT !.pc = "adopt", !.kind = "import", !.name = n, !.dump = u]
                    ELSE [NewOp EXCEPT !.pc = "failed"])
          /\ n \in FreshNames \/ shelf[n] # NoDump
    /\ UNCHANGED <<db, locked, files, paused, crashes>>

\* One rename, or on two volumes a copy that is there before it is whole.
Adopt(o) ==
    /\ op[o].pc = "adopt"
    /\ \/ shelf' = [shelf EXCEPT ![op[o].name] = op[o].dump] /\ Answer(o, "done")
       \/ /\ shelf' = [shelf EXCEPT ![op[o].name] = [op[o].dump EXCEPT !.whole = FALSE]]
          /\ OpGoes(o, "copy")
    /\ UNCHANGED <<db, locked, partial, paused, crashes>>

CopyEnds(o) ==
    /\ op[o].pc = "copy"
    /\ shelf' = [shelf EXCEPT ![op[o].name] = IF @ = NoDump THEN @ ELSE op[o].dump]
    /\ Answer(o, "done")
    /\ UNCHANGED <<db, locked, partial, paused, crashes>>

DeleteBackup(n) ==
    /\ shelf[n] # NoDump
    /\ shelf' = [shelf EXCEPT ![n] = NoDump]
    /\ UNCHANGED <<db, locked, partial, paused, op, crashes>>

\* What has outlived its retention, and every partial file nobody has written to
\* for a day.
Sweep ==
    /\ LET abandoned == {n \in partial : \A o \in Ops : op[o].own # n}
       IN  /\ abandoned # {}
           /\ partial' = partial \ abandoned
    /\ \E expired \in SUBSET Names :
          shelf' = [n \in Names |-> IF n \in expired THEN NoDump ELSE shelf[n]]
    /\ UNCHANGED <<db, locked, paused, op, crashes>>

-----------------------------------------------------------------------------
(* restoreBackup up to the pipe.                                           *)

\* pg_restore --list: an unreadable dump or a foreign schema stops here; a dump
\* without the bookkeeping schema is restored with a warning.
StartRestore(o) ==
    /\ Ready(o)
    /\ \E n \in Names :
          LET d == shelf[n]
          IN  /\ d # NoDump
              /\ Set(o, IF ~d.readable \/ d.foreign THEN [NewOp EXCEPT !.pc = "failed"]
                        ELSE [NewOp EXCEPT !.pc = "snapshot", !.kind = "restore", !.name = n,
                                           !.dump = d, !.warned = ~d.drizzle])
    /\ UNCHANGED <<db, locked, files, paused, crashes>>

\* Best effort: without Redis the restore goes on with a warning.
Pause(o) ==
    /\ op[o].pc = "pause"
    /\ \/ paused' = TRUE /\ OpGoes(o, "spawn")
       \/ Set(o, [op[o] EXCEPT !.pc = "spawn", !.warned = TRUE]) /\ UNCHANGED paused
    /\ UNCHANGED <<db, locked, files, crashes>>

\* The list of entries is written, the extensions are read, and both programs
\* start; any of it may fail.
Spawn(o) ==
    /\ op[o].pc = "spawn"
    /\ \/ OpGoes(o, "pipe")
       \/ Set(o, [op[o] EXCEPT !.pc = "finally", !.restore = "bad"])
    /\ UNCHANGED <<db, locked, files, paused, crashes>>

-----------------------------------------------------------------------------
(* pipeRestoreIntoPsql.                                                    *)

\* A full pipe blocks pg_restore, unless the API drains it.
RestoreWrites(o) ==
    /\ op[o].pc = "pipe" /\ op[o].restore = "run"
    /\ op[o].written < Chunks
    /\ op[o].dump.whole \/ op[o].written + 1 < Chunks
    /\ op[o].drained \/ op[o].fill < PipeSize
    /\ Set(o, [op[o] EXCEPT !.written = @ + 1,
                            !.fill = IF op[o].drained THEN @ ELSE @ + 1])
    /\ UNCHANGED <<db, locked, files, paused, crashes>>

\* Mutant form: COMMIT whatever pg_restore's exit code.
AlwaysCommit(code) == "commit"

\* What the close handler of pg_restore sends to psql.
LastWord(code) == IF code = "ok" THEN "commit" ELSE "eof"

\* It has written everything, or it dies: the dump is cut short, deleted, or
\* something else is wrong.  A pipe that is full holds it until it can write.
RestoreExits(o) ==
    /\ op[o].pc = "pipe" /\ op[o].restore = "run"
    /\ \E code \in {"ok", "bad"} :
          /\ code = "ok" => op[o].written = Chunks
          /\ code = "bad" => op[o].drained \/ op[o].fill < PipeSize
          /\ Set(o, [op[o] EXCEPT !.restore = code,
                        !.stdin = IF op[o].psql = "run" THEN LastWord(code) ELSE @])
    /\ UNCHANGED <<db, locked, files, paused, crashes>>

\* The preamble drops and recreates the schemas, and holds them from then on.
PsqlLocks(o) ==
    /\ op[o].pc = "pipe" /\ op[o].psql = "run"
    /\ locked = Nobody
    /\ locked' = o
    /\ UNCHANGED <<db, files, paused, op, crashes>>

PsqlReads(o) ==
    /\ op[o].pc = "pipe" /\ op[o].psql = "run"
    /\ locked = o
    /\ op[o].fill > 0
    /\ Set(o, [op[o] EXCEPT !.fill = @ - 1, !.applied = @ + 1])
    /\ UNCHANGED <<db, locked, files, paused, crashes>>

\* Mutant form: psql's exit leaves the pipe as it is.
LeavePipe == FALSE

DrainPipe == TRUE

\* A statement fails or a lock times out: the transaction is rolled back.
PsqlFails(o) ==
    /\ op[o].pc = "pipe" /\ op[o].psql = "run"
    /\ locked' = IF locked = o THEN Nobody ELSE locked
    /\ Set(o, [op[o] EXCEPT !.psql = "bad", !.drained = DrainPipe])
    /\ UNCHANGED <<db, files, paused, crashes>>

\* The database after a commit: a dump without bookkeeping leaves the level.
Restored(o) ==
    LET d == op[o].dump
    IN  [rows |-> d.rows, schema |-> d.schema, level |-> IF d.drizzle THEN d.level ELSE db.level,
         whole |-> op[o].applied = Chunks]

\* At the end of its input psql commits, if it was told to.
PsqlEnds(o) ==
    /\ op[o].pc = "pipe" /\ op[o].psql = "run"
    /\ locked = o
    /\ op[o].stdin # "open" /\ op[o].fill = 0
    /\ LET commits == op[o].stdin = "commit"
       IN  /\ db' = IF commits THEN Restored(o) ELSE db
           /\ Set(o, [op[o] EXCEPT !.psql = "ok", !.committed = commits, !.drained = TRUE])
    /\ locked' = Nobody
    /\ UNCHANGED <<files, paused, crashes>>

\* finish(): both have exited.
Finish(o) ==
    /\ op[o].pc = "pipe" /\ op[o].restore # "run" /\ op[o].psql # "run"
    /\ OpGoes(o, "finally")
    /\ UNCHANGED <<db, locked, files, paused, crashes>>

Pipe(o) ==
    \/ RestoreWrites(o) \/ RestoreExits(o) \/ PsqlLocks(o) \/ PsqlReads(o)
    \/ PsqlFails(o) \/ PsqlEnds(o) \/ Finish(o)

-----------------------------------------------------------------------------
(* restoreBackup after the pipe.                                           *)

\* The restore resolved: both programs exited with 0.
Resolved(o) == op[o].restore = "ok" /\ op[o].psql = "ok"

\* Recycle the pool, which may time out, and resume the queue, which may fail.
Finally(o) ==
    /\ op[o].pc = "finally"
    /\ \E resumed \in BOOLEAN : paused' = (paused /\ ~resumed)
    /\ \E recycled \in BOOLEAN :
          IF Resolved(o)
          THEN Set(o, [NewOp EXCEPT !.pc = "migrate", !.kind = "restore", !.dump = op[o].dump, !.pool = recycled,
                                    !.committed = TRUE, !.warned = op[o].warned \/ ~recycled])
          ELSE Answer(o, "failed")
    /\ UNCHANGED <<db, locked, files, crashes>>

\* Mutant form: the bookkeeping is brought up to date, the tables are not.
StampLevel == [db EXCEPT !.level = Build]

\* The migrations newer than the recorded level.
Migrated ==
    [db EXCEPT !.schema = IF db.level < Build /\ db.schema = db.level THEN Build ELSE @,
               !.level = Build]

\* A pool that was not recycled, or any error, makes it a warning.
Migrate(o) ==
    /\ op[o].pc = "migrate" /\ locked = Nobody
    /\ \/ op[o].pool /\ db' = Migrated /\ OpGoes(o, "audit")
       \/ Set(o, [op[o] EXCEPT !.pc = "audit", !.warned = TRUE]) /\ UNCHANGED db
    /\ UNCHANGED <<locked, files, paused, crashes>>

\* The audit entry of the restore: when it fails the request does.
AuditRestore(o) ==
    /\ op[o].pc = "audit"
    /\ \/ op[o].pool /\ Set(o, [op[o] EXCEPT !.pc = "done"])
       \/ Set(o, [op[o] EXCEPT !.pc = "error"])
    /\ UNCHANGED <<db, locked, files, paused, crashes>>

-----------------------------------------------------------------------------
(* Everyone else.                                                          *)

\* A request or the worker commits something: not in a schema another
\* transaction holds.
Write ==
    /\ locked = Nobody
    /\ Cardinality(db.rows) < MaxWrites
    /\ WritesMidRestore \/ \A o \in Ops : ~Restoring(o)
    /\ \E w \in (1..MaxWrites) \ db.rows : db' = [db EXCEPT !.rows = @ \cup {w}]
    /\ UNCHANGED <<locked, files, paused, op, crashes>>

\* psql sees the end of its input: what it was told to commit it may still.
Crash ==
    /\ crashes < MaxCrashes /\ crashes' = crashes + 1
    /\ op' = [o \in Ops |-> NewOp]
    /\ locked' = Nobody
    /\ \/ UNCHANGED db
       \/ \E o \in Ops :
             /\ op[o].pc = "pipe" /\ op[o].psql = "run" /\ locked = o
             /\ op[o].stdin = "commit" /\ op[o].fill = 0
             /\ db' = Restored(o)
    /\ UNCHANGED <<files, paused>>

Restore(o) ==
    \/ StartRestore(o) \/ SafetyDump(o) \/ Pause(o) \/ Spawn(o) \/ Pipe(o)
    \/ Finally(o) \/ Migrate(o) \/ AuditRestore(o)

BackupNext ==
    \/ \E o \in Ops :
          \/ StartCreate(o) \/ DumpFails(o) \/ DumpEnds(o)
          \/ StartImport(o) \/ Adopt(o) \/ CopyEnds(o)
          \/ Restore(o)
    \/ \E n \in Names : DeleteBackup(n)
    \/ Sweep
    \/ Write
    \/ Crash

\* The programs run, and the API handles their exits.
BackupSpec ==
    BackupInit /\ [][BackupNext]_backupVars /\ \A o \in Ops : WF_backupVars(Pipe(o))

-----------------------------------------------------------------------------
(* Properties.                                                             *)

\* A dump under its final name is one that pg_dump finished, whatever failed or
\* died while it was taken.
ListedIsWhole == \A n \in Names : shelf[n].from = "dump" => shelf[n].whole

\* All of a dump or nothing: no half-streamed dump is ever committed, and a
\* restore that rejects has changed nothing.
RestoreIsAtomic ==
    /\ db.whole
    /\ \A o \in Ops : op[o].pc = "finally" /\ ~Resolved(o) => ~op[o].committed

\* All of a dump or nothing, on the shelf and in the database.
AllOrNothing == ListedIsWhole /\ RestoreIsAtomic

\* The pipe always comes to an end, whichever program stops first.
RestoreSettles == \A o \in Ops : op[o].pc = "pipe" ~> op[o].pc # "pipe"

\* A restore that reports success without a warning leaves the tables at the
\* level of this build, however old the dump, unless the dump mislabels its own
\* tables or another restore was at work.
SchemaFitsBuild ==
    [][\A o \in Ops :
          /\ op[o].pc = "audit" /\ op'[o].pc = "done" /\ ~op[o].warned
          /\ op[o].dump.schema = op[o].dump.level
          => db.schema = Build]_backupVars

=============================================================================
