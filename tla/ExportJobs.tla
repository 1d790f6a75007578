------------------------------ MODULE ExportJobs ------------------------------
(***************************************************************************)
(* The life of an exported file (services/exports.ts, routes/exports.ts):  *)
(* a request renders its formats, records one job per rendered file (row,  *)
(* bytes, path, audit entry) and answers; an administrator deletes a job;  *)
(* deleting the statement takes its files along; the nightly sweep expires *)
(* old jobs; a download streams a file.  Row and file are two stores, each *)
(* await is a step, and the processes may die between any two.             *)
(*                                                                         *)
(* The gate that decides whether a statement may be exported is            *)
(* ReviewGate's; here a rendering just succeeds or fails.                  *)
(***************************************************************************)
EXTENDS Naturals, FiniteSets

CONSTANTS
    Requests,       \* export requests
    MaxFiles,       \* bound: files of one request (7 formats, or slices of 200 rows)
    MaxExportCrashes      \* bound: crashes of the API or of the worker

ASSUME ExportJobsAssumption ==
    /\ IsFiniteSet(Requests)
    /\ MaxFiles \in Nat \ {0} /\ MaxExportCrashes \in Nat

Jobs == Requests \X (1..MaxFiles)
JobsOf(r) == {j \in Jobs : j[1] = r}

VARIABLES
    statement,  \* is the statement row there?
    path,       \* export_jobs.file_path per job, "none" without a row
    disk,       \* per job: no file, a part of one, the whole file
    old,        \* the jobs created more than 30 days ago
    claimed,    \* the jobs with a statement.export audit entry
    request,    \* per request: program counter, files to make, the one at hand
    deleter,    \* DELETE /exports/:jobId
    remover,    \* DELETE /statements/:id
    sweep,      \* cleanupExpiredExports
    reader,     \* GET /exports/:jobId/file
    exportCrashes

apiVars == <<request, deleter, remover, reader>>
exportVars == <<statement, path, disk, old, claimed, apiVars, sweep, exportCrashes>>

Sentinel == {"<pending>", "<expired>"}
NoJob == <<>>
IdleJob == [pc |-> "idle", job |-> NoJob, path |-> "none"]

ExportInit ==
    /\ statement = TRUE
    /\ path = [j \in Jobs |-> "none"]
    /\ disk = [j \in Jobs |-> "none"]
    /\ old = {} /\ claimed = {}
    /\ request = [r \in Requests |-> [pc |-> "idle", files |-> 0, at |-> 0]]
    /\ deleter = IdleJob /\ reader = IdleJob
    /\ remover = [pc |-> "idle", todo |-> {}]
    /\ sweep = [pc |-> "idle", todo |-> {}, job |-> NoJob]
    /\ exportCrashes = 0

RequestGoes(r, pc) == request' = [request EXCEPT ![r].pc = pc]
Current(r) == <<r, request[r].at>>

-----------------------------------------------------------------------------
(* An export request.                                                      *)

\* One format, the slices of one, or the bundle of all.
Ask(r) ==
    /\ request[r].pc = "idle"
    /\ \E n \in 1..MaxFiles : request' = [request EXCEPT ![r] = [pc |-> "render", files |-> n, at |-> 1]]
    /\ UNCHANGED <<statement, path, disk, old, claimed, deleter, remover, reader, sweep, exportCrashes>>

Rendered(r) ==
    IF request[r].at < request[r].files
    THEN request' = [request EXCEPT ![r].at = @ + 1]
    ELSE request' = [request EXCEPT ![r].pc = IF request[r].files = 1 THEN "insert" ELSE "zip",
                                    ![r].at = 1]

\* Every file is rendered before any is recorded; a format may refuse.
Render(r) ==
    /\ request[r].pc = "render"
    /\ \/ statement /\ Rendered(r)
       \/ RequestGoes(r, "refused")
    /\ UNCHANGED <<statement, path, disk, old, claimed, deleter, remover, reader, sweep, exportCrashes>>

\* More than one file is sent as a zip, which refuses two of the same name.
Zip(r) ==
    /\ request[r].pc = "zip"
    /\ \/ RequestGoes(r, "insert")
       \/ RequestGoes(r, "refused")
    /\ UNCHANGED <<statement, path, disk, old, claimed, deleter, remover, reader, sweep, exportCrashes>>

\* Mutant form: the row carries its path from the start.
PathAtOnce == "file"

FirstPath == "<pending>"

\* The foreign key refuses a job for a statement that is gone.
InsertJob(r) ==
    /\ request[r].pc = "insert"
    /\ IF statement
       THEN /\ path' = [path EXCEPT ![Current(r)] = FirstPath]
            /\ RequestGoes(r, "open")
       ELSE RequestGoes(r, "failed") /\ UNCHANGED path
    /\ UNCHANGED <<statement, disk, old, claimed, deleter, remover, reader, sweep, exportCrashes>>

\* mkdir and the first bytes.
OpenFile(r) ==
    /\ request[r].pc = "open"
    /\ \/ disk' = [disk EXCEPT ![Current(r)] = "part"] /\ RequestGoes(r, "write")
       \/ RequestGoes(r, "undo") /\ UNCHANGED disk
    /\ UNCHANGED <<statement, path, old, claimed, deleter, remover, reader, sweep, exportCrashes>>

WriteFile(r) ==
    /\ request[r].pc = "write"
    /\ \/ disk' = [disk EXCEPT ![Current(r)] = "whole"] /\ RequestGoes(r, "path")
       \/ RequestGoes(r, "undo") /\ UNCHANGED disk
    /\ UNCHANGED <<statement, path, old, claimed, deleter, remover, reader, sweep, exportCrashes>>

\* The row goes; what was written of the file stays.
UndoRow(r) ==
    /\ request[r].pc = "undo"
    /\ path' = [path EXCEPT ![Current(r)] = "none"]
    /\ RequestGoes(r, "failed")
    /\ UNCHANGED <<statement, disk, old, claimed, deleter, remover, reader, sweep, exportCrashes>>

\* The UPDATE is by id: of a row that is gone it changes nothing.
SetPath(r) ==
    /\ request[r].pc = "path"
    /\ path' = [path EXCEPT ![Current(r)] = IF @ = "none" THEN @ ELSE "file"]
    /\ RequestGoes(r, "audit")
    /\ UNCHANGED <<statement, disk, old, claimed, deleter, remover, reader, sweep, exportCrashes>>

\* Mutant form: the jobs are recorded and the zip is built after them.
ZipAfterwards(r) == RequestGoes(r, "zip")

Send(r) == RequestGoes(r, "sent")

\* The audit entry closes one job; after the last the bytes are sent.
Audit(r) ==
    /\ request[r].pc = "audit"
    /\ claimed' = claimed \cup {Current(r)}
    /\ IF request[r].at < request[r].files
       THEN request' = [request EXCEPT ![r].pc = "insert", ![r].at = @ + 1]
       ELSE Send(r)
    /\ UNCHANGED <<statement, path, disk, old, deleter, remover, reader, sweep, exportCrashes>>

-----------------------------------------------------------------------------
(* Deleting one export, and the statement with all of them.                *)

\* The row is read first, whatever its path says.
ReadJob(j) ==
    /\ deleter.pc = "idle"
    /\ path[j] # "none"
    /\ deleter' = [pc |-> IF path[j] \in Sentinel THEN "row" ELSE "unlink",
                   job |-> j, path |-> path[j]]
    /\ UNCHANGED <<statement, path, disk, old, claimed, request, remover, reader, sweep, exportCrashes>>

\* Any error of an unlink is swallowed: the file may stay while its row goes.
Unlink(j) == disk' = disk \/ disk' = [disk EXCEPT ![j] = "none"]

UnlinkJob ==
    /\ deleter.pc = "unlink"
    /\ Unlink(deleter.job)
    /\ deleter' = [deleter EXCEPT !.pc = "row"]
    /\ UNCHANGED <<statement, path, old, claimed, request, remover, reader, sweep, exportCrashes>>

DeleteJob ==
    /\ deleter.pc = "row"
    /\ path' = [path EXCEPT ![deleter.job] = "none"]
    /\ deleter' = IdleJob
    /\ UNCHANGED <<statement, disk, old, claimed, request, remover, reader, sweep, exportCrashes>>

ReadJobs ==
    /\ remover.pc = "idle" /\ statement
    /\ remover' = [pc |-> "unlink", todo |-> {j \in Jobs : path[j] \notin Sentinel \cup {"none"}}]
    /\ UNCHANGED <<statement, path, disk, old, claimed, request, deleter, reader, sweep, exportCrashes>>

UnlinkOne ==
    /\ remover.pc = "unlink"
    /\ \E j \in remover.todo :
          /\ Unlink(j)
          /\ remover' = [remover EXCEPT !.todo = @ \ {j}]
    /\ UNCHANGED <<statement, path, old, claimed, request, deleter, reader, sweep, exportCrashes>>

\* ON DELETE CASCADE takes the job rows along.
DeleteStatement ==
    /\ remover.pc = "unlink" /\ remover.todo = {}
    /\ statement' = FALSE
    /\ path' = [j \in Jobs |-> "none"]
    /\ remover' = [remover EXCEPT !.pc = "idle"]
    /\ UNCHANGED <<disk, old, claimed, request, deleter, reader, sweep, exportCrashes>>

-----------------------------------------------------------------------------
(* A download.                                                             *)

\* Row and sentinels, then stat, then the audit entry, then the stream.
StartDownload(j) ==
    /\ reader.pc = "idle"
    /\ path[j] \notin Sentinel \cup {"none"}
    /\ reader' = [pc |-> "stat", job |-> j, path |-> path[j]]
    /\ UNCHANGED <<statement, path, disk, old, claimed, request, deleter, remover, sweep, exportCrashes>>

StatFile ==
    /\ reader.pc = "stat"
    /\ reader' = IF disk[reader.job] = "none" THEN IdleJob ELSE [reader EXCEPT !.pc = "stream"]
    /\ UNCHANGED <<statement, path, disk, old, claimed, request, deleter, remover, sweep, exportCrashes>>

\* The file may have gone since: the stream's error is answered with 404.
Stream ==
    /\ reader.pc = "stream"
    /\ reader' = IdleJob
    /\ UNCHANGED <<statement, path, disk, old, claimed, request, deleter, remover, sweep, exportCrashes>>

-----------------------------------------------------------------------------
(* The nightly sweep, time, crashes.                                       *)

\* Mutant form: the sweep unlinks the file and leaves the row as it was.
KeepPath(j) == path[j]

PathExpired(j) == IF path[j] = "none" THEN "none" ELSE "<expired>"

Stale == {j \in old : path[j] \notin Sentinel \cup {"none"}}

StartExpiry ==
    /\ sweep.pc = "idle" /\ Stale # {}
    /\ sweep' = [sweep EXCEPT !.pc = "unlink", !.todo = Stale]
    /\ UNCHANGED <<statement, path, disk, old, claimed, apiVars, exportCrashes>>

SweepUnlinks ==
    /\ sweep.pc = "unlink"
    /\ IF sweep.todo = {} THEN sweep' = [sweep EXCEPT !.pc = "idle"] /\ UNCHANGED disk
       ELSE \E j \in sweep.todo :
               /\ Unlink(j)
               /\ sweep' = [pc |-> "mark", todo |-> sweep.todo \ {j}, job |-> j]
    /\ UNCHANGED <<statement, path, old, claimed, apiVars, exportCrashes>>

SweepMarks ==
    /\ sweep.pc = "mark"
    /\ path' = [path EXCEPT ![sweep.job] = PathExpired(sweep.job)]
    /\ sweep' = [sweep EXCEPT !.pc = "unlink", !.job = NoJob]
    /\ UNCHANGED <<statement, disk, old, claimed, apiVars, exportCrashes>>

\* Thirty days pass for a job that has a row.
Age(j) ==
    /\ path[j] # "none" /\ j \notin old
    /\ old' = old \cup {j}
    /\ UNCHANGED <<statement, path, disk, claimed, apiVars, sweep, exportCrashes>>

CrashApi ==
    /\ exportCrashes < MaxExportCrashes /\ exportCrashes' = exportCrashes + 1
    /\ request' = [r \in Requests |->
                     IF request[r].pc \in {"idle", "sent", "failed", "refused"} THEN request[r]
                     ELSE [request[r] EXCEPT !.pc = "crashed"]]
    /\ deleter' = IdleJob /\ reader' = IdleJob
    /\ remover' = [pc |-> "idle", todo |-> {}]
    /\ UNCHANGED <<statement, path, disk, old, claimed, sweep>>

CrashWorker ==
    /\ exportCrashes < MaxExportCrashes /\ exportCrashes' = exportCrashes + 1
    /\ sweep.pc # "idle"
    /\ sweep' = [pc |-> "idle", todo |-> {}, job |-> NoJob]
    /\ UNCHANGED <<statement, path, disk, old, claimed, apiVars>>

Export(r) ==
    \/ Ask(r) \/ Render(r) \/ Zip(r) \/ InsertJob(r) \/ OpenFile(r) \/ WriteFile(r)
    \/ UndoRow(r) \/ SetPath(r) \/ Audit(r)

Sweeps == StartExpiry \/ SweepUnlinks \/ SweepMarks

ExportNext ==
    \/ \E r \in Requests : Export(r)
    \/ \E j \in Jobs : ReadJob(j) \/ StartDownload(j) \/ Age(j)
    \/ UnlinkJob \/ DeleteJob
    \/ ReadJobs \/ UnlinkOne \/ DeleteStatement
    \/ StatFile \/ Stream
    \/ Sweeps
    \/ CrashApi \/ CrashWorker

\* The sweep is a repeatable job: it runs every night and retries the next.
ExportSpec == ExportInit /\ [][ExportNext]_exportVars /\ WF_exportVars(Sweeps)

-----------------------------------------------------------------------------
(* Properties.                                                             *)

\* A job that offers its file never offers a part of it: the path is written
\* only once the bytes are, whatever crashes or is deleted in between.
OfferedIsWhole == \A j \in Jobs : path[j] = "file" => disk[j] # "part"

\* A request refused by a later format, or by the zip, leaves no job, no file
\* and no audit entry of the formats before it.
RefusedLeavesNoTrace ==
    \A r \in Requests : request[r].pc = "refused" =>
        \A j \in JobsOf(r) : path[j] = "none" /\ disk[j] = "none" /\ j \notin claimed

\* No export is half done to those who look at it: neither a file in the making
\* nor the remains of a refused request show.
NothingHalfDone == OfferedIsWhole /\ RefusedLeavesNoTrace

\* The sweep takes every offered export once it is old, in spite of the crashes
\* and deletions around it.
OldExportsExpire ==
    \A j \in Jobs : (j \in old /\ path[j] = "file") ~> path[j] # "file"

=============================================================================
