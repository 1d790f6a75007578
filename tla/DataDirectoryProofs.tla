-------------------------- MODULE DataDirectoryProofs --------------------------
(***************************************************************************)
(* What ExportJobs and BackupRestore keep whole, for any number of         *)
(* requests, files, names, dumps and crashes.                              *)
(***************************************************************************)
EXTENDS ExportJobs, BackupRestore, TLAPS

-----------------------------------------------------------------------------
(* Exports.                                                                *)

Path == {"none", "<pending>", "file", "<expired>"}
Disk == {"none", "part", "whole"}
RequestPc == {"idle", "render", "zip", "insert", "open", "write", "undo", "path", "audit",
              "sent", "failed", "refused", "crashed"}

ExportTypeOK ==
    /\ path \in [Jobs -> Path]
    /\ disk \in [Jobs -> Disk]
    /\ claimed \subseteq Jobs
    /\ request \in [Requests -> [pc : RequestPc, files : Nat, at : Nat]]

\* A request that is under way is at one of its files.
AtAFile ==
    \A r \in Requests : request[r].pc # "idle" =>
        /\ request[r].files \in 1..MaxFiles
        /\ request[r].at \in 1..request[r].files

\* A request leaves nothing behind before its first insert.
Untouched ==
    \A r \in Requests : request[r].pc \in {"idle", "render", "zip", "refused"} =>
        \A j \in JobsOf(r) : path[j] = "none" /\ disk[j] = "none" /\ j \notin claimed

\* The file at hand is offered by nobody while it is in the making, and is not
\* in the making any more when its path is about to be set.
InTheMaking ==
    \A r \in Requests :
        /\ request[r].pc \in {"open", "write"} => path[Current(r)] # "file"
        /\ request[r].pc = "path" => disk[Current(r)] # "part"

ExportInv == ExportTypeOK /\ AtAFile /\ Untouched /\ InTheMaking /\ OfferedIsWhole

\* The file at hand is one of the request's jobs, and of no other request's.
LEMMA CurrentIsOwn ==
    ASSUME ExportTypeOK, AtAFile, NEW r \in Requests, request[r].pc # "idle"
    PROVE  Current(r) \in Jobs /\ Current(r)[1] = r
BY ExportJobsAssumption DEF ExportTypeOK, AtAFile, Current, Jobs

\* Whoever is not a request only takes away: no path that offers a file is set,
\* none but an existing row expires, and no byte is written.
OnlyTakesAway ==
    /\ UNCHANGED <<request, claimed>>
    /\ path' \in [Jobs -> Path] /\ disk' \in [Jobs -> Disk]
    /\ \A j \in Jobs :
          /\ path'[j] = path[j] \/ path'[j] = "none" \/ (path'[j] = "<expired>" /\ path[j] # "none")
          /\ disk'[j] = disk[j] \/ disk'[j] = "none"

LEMMA TakingAway ==
    ASSUME ExportInv, OnlyTakesAway
    PROVE  ExportInv'
<1> USE DEF ExportInv, OnlyTakesAway
<1>1. ExportTypeOK'
  BY DEF ExportTypeOK
<1>2. AtAFile'
  BY DEF AtAFile
<1>3. Untouched'
  BY DEF Untouched, JobsOf
<1>4. InTheMaking'
  <2> SUFFICES ASSUME NEW r \in Requests
               PROVE  /\ request[r].pc \in {"open", "write"} => path'[Current(r)] # "file"
                      /\ request[r].pc = "path" => disk'[Current(r)] # "part"
    BY DEF InTheMaking, Current
  <2>1. request[r].pc # "idle" => Current(r) \in Jobs
    BY CurrentIsOwn
  <2> QED BY <2>1 DEF InTheMaking
<1>5. OfferedIsWhole'
  BY DEF OfferedIsWhole
<1> QED BY <1>1, <1>2, <1>3, <1>4, <1>5

\* Deletions, downloads, the sweep and time only take away.
LEMMA OthersTakeAway ==
    ASSUME ExportInv,
           \/ \E j \in Jobs : ReadJob(j) \/ StartDownload(j) \/ Age(j)
           \/ UnlinkJob \/ DeleteJob \/ ReadJobs \/ UnlinkOne \/ DeleteStatement
           \/ StatFile \/ Stream \/ Sweeps \/ CrashWorker
    PROVE  OnlyTakesAway
<1>t. path \in [Jobs -> Path] /\ disk \in [Jobs -> Disk]
  BY DEF ExportInv, ExportTypeOK
<1> USE DEF OnlyTakesAway, Path, Disk, apiVars
<1>1. CASE \E j \in Jobs : ReadJob(j) \/ StartDownload(j) \/ Age(j)
  BY <1>t, <1>1 DEF ReadJob, StartDownload, Age
<1>2. CASE UnlinkJob \/ UnlinkOne \/ SweepUnlinks
  BY <1>t, <1>2 DEF UnlinkJob, UnlinkOne, SweepUnlinks, Unlink
<1>3. CASE DeleteJob \/ DeleteStatement \/ SweepMarks
  BY <1>t, <1>3 DEF DeleteJob, DeleteStatement, SweepMarks, PathExpired
<1>4. CASE ReadJobs \/ StatFile \/ Stream \/ StartExpiry \/ CrashWorker
  BY <1>t, <1>4 DEF ReadJobs, StatFile, Stream, StartExpiry, CrashWorker
<1> QED BY <1>1, <1>2, <1>3, <1>4 DEF Sweeps

\* A step of a request moves that request and touches no file but the one at hand.
OwnStep(r, p) ==
    /\ p \in [pc : RequestPc, files : 1..MaxFiles, at : Nat]
    /\ p.at \in 1..p.files
    /\ request' = [request EXCEPT ![r] = p]
    /\ path' \in [Jobs -> Path] /\ disk' \in [Jobs -> Disk] /\ claimed' \subseteq Jobs
    /\ \A j \in Jobs : j # Current(r) => /\ path'[j] = path[j] /\ disk'[j] = disk[j]
                                         /\ (j \in claimed' <=> j \in claimed)

\* What the file at hand must satisfy after the step for the rest to follow.
FileFits(r, p) ==
    /\ \A j \in Jobs : path'[j] = "file" => disk'[j] # "part"
    /\ p.pc \in {"idle", "render", "zip", "refused"} =>
          /\ request[r].pc \in {"idle", "render", "zip", "refused"}
          /\ UNCHANGED <<path, disk, claimed>>
    /\ p.pc \in {"open", "write"} => path'[<<r, p.at>>] # "file"
    /\ p.pc = "path" => disk'[<<r, p.at>>] # "part"

LEMMA OwnSteps ==
    ASSUME ExportInv, NEW r \in Requests, NEW p, OwnStep(r, p), FileFits(r, p),
           request[r].pc = "idle" => UNCHANGED <<path, disk, claimed>>
    PROVE  ExportInv'
<1>t. request \in [Requests -> [pc : RequestPc, files : Nat, at : Nat]]
  BY DEF ExportInv, ExportTypeOK
<1>m. MaxFiles \in Nat
  BY ExportJobsAssumption
<1>p. p \in [pc : RequestPc, files : Nat, at : Nat]
  BY <1>m DEF OwnStep
<1>r. /\ request' \in [Requests -> [pc : RequestPc, files : Nat, at : Nat]]
      /\ request'[r] = p
      /\ \A q \in Requests : q # r => request'[q] = request[q]
  BY <1>t, <1>p DEF OwnStep
<1>1. ExportTypeOK'
  BY <1>r DEF ExportTypeOK, OwnStep
<1>2. AtAFile'
  BY <1>r DEF ExportInv, AtAFile, OwnStep
<1>c. request[r].pc # "idle" => Current(r) \in Jobs /\ Current(r)[1] = r
  BY CurrentIsOwn DEF ExportInv
<1>o. \A q \in Requests : q # r => \A j \in JobsOf(q) :
          path'[j] = path[j] /\ disk'[j] = disk[j] /\ (j \in claimed' <=> j \in claimed)
  BY <1>c DEF OwnStep, JobsOf
<1>3. Untouched'
  <2> SUFFICES ASSUME NEW q \in Requests,
                      request'[q].pc \in {"idle", "render", "zip", "refused"},
                      NEW j \in JobsOf(q)
               PROVE  path'[j] = "none" /\ disk'[j] = "none" /\ j \notin claimed'
    BY DEF Untouched
  <2>1. CASE q = r
    BY <1>r, <2>1 DEF FileFits, ExportInv, Untouched
  <2>2. CASE q # r
    BY <1>r, <1>o, <2>2 DEF ExportInv, Untouched
  <2> QED BY <2>1, <2>2
<1>4. InTheMaking'
  <2> SUFFICES ASSUME NEW q \in Requests
               PROVE  /\ request'[q].pc \in {"open", "write"} => path'[<<q, request'[q].at>>] # "file"
                      /\ request'[q].pc = "path" => disk'[<<q, request'[q].at>>] # "part"
    BY DEF InTheMaking, Current
  <2>1. CASE q = r
    BY <1>r, <2>1 DEF FileFits
  <2>2. CASE q # r
    <3>1. request[q].pc # "idle" => Current(q) \in Jobs /\ Current(q)[1] = q
      BY CurrentIsOwn DEF ExportInv
    <3>2. request[q].pc # "idle" => Current(q) \in JobsOf(q)
      BY <3>1 DEF JobsOf
    <3> QED BY <1>r, <1>o, <2>2, <3>2 DEF ExportInv, InTheMaking, Current
  <2> QED BY <2>1, <2>2
<1>5. OfferedIsWhole'
  BY DEF FileFits, OfferedIsWhole
<1> QED BY <1>1, <1>2, <1>3, <1>4, <1>5 DEF ExportInv

LEMMA RequestType ==
    ASSUME ExportInv, NEW r \in Requests
    PROVE  /\ request[r] \in [pc : RequestPc, files : Nat, at : Nat]
           /\ request[r].pc # "idle" =>
                 request[r] \in [pc : RequestPc, files : 1..MaxFiles, at : 1..request[r].files]
<1>1. request[r] \in [pc : RequestPc, files : Nat, at : Nat]
  BY DEF ExportInv, ExportTypeOK
<1>2. request[r].pc # "idle" =>
        request[r].files \in 1..MaxFiles /\ request[r].at \in 1..request[r].files
  BY DEF ExportInv, AtAFile
<1> QED BY <1>1, <1>2

\* A step that only moves the program counter, past the first insert.
LEMMA GoingOn ==
    ASSUME ExportInv, NEW r \in Requests, NEW pc \in RequestPc, request[r].pc # "idle",
           RequestGoes(r, pc),
           path' \in [Jobs -> Path], disk' \in [Jobs -> Disk], claimed' \subseteq Jobs,
           \A j \in Jobs : j # Current(r) =>
              path'[j] = path[j] /\ disk'[j] = disk[j] /\ (j \in claimed' <=> j \in claimed),
           path'[Current(r)] = "file" => disk'[Current(r)] # "part",
           pc \in {"idle", "render", "zip", "refused"} =>
              /\ request[r].pc \in {"idle", "render", "zip", "refused"}
              /\ UNCHANGED <<path, disk, claimed>>,
           pc \in {"open", "write"} => path'[Current(r)] # "file",
           pc = "path" => disk'[Current(r)] # "part"
    PROVE  ExportInv'
<1> DEFINE p == [request[r] EXCEPT !.pc = pc]
<1>1. /\ p \in [pc : RequestPc, files : 1..MaxFiles, at : Nat]
      /\ p.pc = pc /\ p.files = request[r].files /\ p.at = request[r].at
      /\ p.at \in 1..p.files
  BY RequestType, ExportJobsAssumption
<1>2. request' = [request EXCEPT ![r] = p]
  BY DEF RequestGoes
<1>3. OwnStep(r, p)
  BY <1>1, <1>2 DEF OwnStep
<1>4. <<r, p.at>> = Current(r)
  BY <1>1 DEF Current
<1>5. \A j \in Jobs : path'[j] = "file" => disk'[j] # "part"
  BY DEF ExportInv, OfferedIsWhole
<1>6. FileFits(r, p)
  BY <1>1, <1>4, <1>5 DEF FileFits
<1> HIDE DEF p
<1> QED BY <1>3, <1>6, OwnSteps

LEMMA AskStep ==
    ASSUME ExportInv, NEW r \in Requests, Ask(r)
    PROVE  ExportInv'
<1>1. PICK n \in 1..MaxFiles :
         request' = [request EXCEPT ![r] = [pc |-> "render", files |-> n, at |-> 1]]
  BY DEF Ask
<1> DEFINE p == [pc |-> "render", files |-> n, at |-> 1]
<1>2. p \in [pc : RequestPc, files : 1..MaxFiles, at : Nat] /\ p.at \in 1..p.files
  BY <1>1, ExportJobsAssumption DEF RequestPc
<1>3. OwnStep(r, p)
  BY <1>1, <1>2 DEF OwnStep, Ask, ExportInv, ExportTypeOK
<1>4. FileFits(r, p)
  BY DEF FileFits, Ask, ExportInv, OfferedIsWhole
<1> QED BY <1>3, <1>4, OwnSteps DEF Ask

LEMMA RenderStep ==
    ASSUME ExportInv, NEW r \in Requests, Render(r)
    PROVE  ExportInv'
<1>0. /\ request[r].pc = "render" /\ UNCHANGED <<path, disk, claimed>>
      /\ path \in [Jobs -> Path] /\ disk \in [Jobs -> Disk] /\ claimed \subseteq Jobs
  BY DEF Render, ExportInv, ExportTypeOK
<1>t. request[r] \in [pc : RequestPc, files : 1..MaxFiles, at : 1..request[r].files]
  BY <1>0, RequestType
<1>f. \A j \in Jobs : path'[j] = "file" => disk'[j] # "part"
  BY <1>0 DEF ExportInv, OfferedIsWhole
<1>1. CASE RequestGoes(r, "refused")
  <2>1. path[Current(r)] = "file" => disk[Current(r)] # "part"
    BY <1>0, <1>f, CurrentIsOwn DEF ExportInv
  <2> QED BY <1>0, <1>1, <2>1, GoingOn DEF RequestPc
<1>2. CASE Rendered(r) /\ request[r].at < request[r].files
  <2> DEFINE p == [request[r] EXCEPT !.at = @ + 1]
  <2>1. /\ p \in [pc : RequestPc, files : 1..MaxFiles, at : Nat]
        /\ p.pc = "render" /\ p.at \in 1..p.files
    BY <1>0, <1>t, <1>2, ExportJobsAssumption
  <2>2. OwnStep(r, p)
    BY <1>0, <1>2, <2>1 DEF OwnStep, Rendered
  <2>3. FileFits(r, p)
    BY <1>0, <1>f, <2>1 DEF FileFits
  <2> HIDE DEF p
  <2> QED BY <1>0, <2>2, <2>3, OwnSteps
<1>3. CASE Rendered(r) /\ ~(request[r].at < request[r].files)
  <2> DEFINE pc == IF request[r].files = 1 THEN "insert" ELSE "zip"
             p == [request[r] EXCEPT !.pc = pc, !.at = 1]
  <2>a. /\ pc \in {"insert", "zip"}
        /\ p.pc = pc /\ p.files = request[r].files /\ p.at = 1
    BY <1>t
  <2>b. 1 \in 1..request[r].files
    BY <1>t, ExportJobsAssumption
  <2> HIDE DEF pc
  <2>1. /\ p \in [pc : RequestPc, files : 1..MaxFiles, at : Nat]
        /\ p.pc \in {"insert", "zip"} /\ p.at \in 1..p.files
    BY <1>t, <2>a, <2>b DEF RequestPc
  <2>2. request' = [request EXCEPT ![r] = p]
    BY <1>3 DEF Rendered, pc
  <2>3. OwnStep(r, p)
    BY <1>0, <2>1, <2>2 DEF OwnStep
  <2>4. FileFits(r, p)
    BY <1>0, <1>f, <2>1 DEF FileFits
  <2> HIDE DEF p
  <2> QED BY <1>0, <2>3, <2>4, OwnSteps
<1> QED BY <1>1, <1>2, <1>3 DEF Render

LEMMA FileSteps ==
    ASSUME ExportInv, NEW r \in Requests,
           \/ Zip(r) \/ InsertJob(r) \/ OpenFile(r) \/ WriteFile(r) \/ UndoRow(r) \/ SetPath(r)
    PROVE  ExportInv'
<1>t. /\ path \in [Jobs -> Path] /\ disk \in [Jobs -> Disk] /\ claimed \subseteq Jobs
      /\ \A j \in Jobs : path[j] = "file" => disk[j] # "part"
  BY DEF ExportInv, ExportTypeOK, OfferedIsWhole
<1>c. request[r].pc # "idle" => Current(r) \in Jobs
  BY CurrentIsOwn DEF ExportInv
<1>m. /\ request[r].pc \in {"open", "write"} => path[Current(r)] # "file"
      /\ request[r].pc = "path" => disk[Current(r)] # "part"
  BY DEF ExportInv, InTheMaking
<1> USE DEF RequestPc
<1>1. CASE Zip(r)
  BY <1>t, <1>c, <1>1, GoingOn DEF Zip
<1>2. CASE InsertJob(r)
  BY <1>t, <1>c, <1>2, GoingOn DEF InsertJob, FirstPath, Path
<1>3. CASE OpenFile(r)
  BY <1>t, <1>c, <1>m, <1>3, GoingOn DEF OpenFile, Disk
<1>4. CASE WriteFile(r)
  BY <1>t, <1>c, <1>m, <1>4, GoingOn DEF WriteFile, Disk
<1>5. CASE UndoRow(r)
  BY <1>t, <1>c, <1>5, GoingOn DEF UndoRow, Path
<1>6. CASE SetPath(r)
  BY <1>t, <1>c, <1>m, <1>6, GoingOn DEF SetPath, Path
<1> QED BY <1>1, <1>2, <1>3, <1>4, <1>5, <1>6

LEMMA AuditStep ==
    ASSUME ExportInv, NEW r \in Requests, Audit(r)
    PROVE  ExportInv'
<1>0. /\ request[r].pc = "audit" /\ UNCHANGED <<path, disk>>
      /\ claimed' = claimed \cup {Current(r)}
      /\ path \in [Jobs -> Path] /\ disk \in [Jobs -> Disk] /\ claimed \subseteq Jobs
  BY DEF Audit, ExportInv, ExportTypeOK
<1>c. Current(r) \in Jobs
  BY <1>0, CurrentIsOwn DEF ExportInv
<1>t. request[r] \in [pc : RequestPc, files : 1..MaxFiles, at : 1..request[r].files]
  BY <1>0, RequestType
<1>f. \A j \in Jobs : path'[j] = "file" => disk'[j] # "part"
  BY <1>0 DEF ExportInv, OfferedIsWhole
<1>1. CASE request[r].at < request[r].files
  <2> DEFINE p == [request[r] EXCEPT !.pc = "insert", !.at = @ + 1]
  <2>a. p.pc = "insert" /\ p.files = request[r].files /\ p.at = request[r].at + 1
    BY <1>t
  <2>b. request[r].at + 1 \in 1..request[r].files /\ request[r].at + 1 \in Nat
    BY <1>t, <1>1, ExportJobsAssumption
  <2>1. /\ p \in [pc : RequestPc, files : 1..MaxFiles, at : Nat]
        /\ p.pc = "insert" /\ p.at \in 1..p.files
    BY <1>t, <2>a, <2>b DEF RequestPc
  <2>2. request' = [request EXCEPT ![r] = p]
    BY <1>1 DEF Audit
  <2>3. OwnStep(r, p)
    BY <1>0, <1>c, <2>1, <2>2 DEF OwnStep
  <2>4. FileFits(r, p)
    BY <1>0, <1>f, <2>1 DEF FileFits
  <2> HIDE DEF p
  <2> QED BY <1>0, <2>3, <2>4, OwnSteps
<1>2. CASE ~(request[r].at < request[r].files)
  <2>1. RequestGoes(r, "sent")
    BY <1>2 DEF Audit, Send
  <2> QED BY <1>0, <1>c, <1>f, <2>1, GoingOn DEF RequestPc
<1> QED BY <1>1, <1>2

\* A crash leaves the requests that were under way where they are.
LEMMA CrashStep ==
    ASSUME ExportInv, CrashApi
    PROVE  ExportInv'
<1>t. request \in [Requests -> [pc : RequestPc, files : Nat, at : Nat]]
  BY DEF ExportInv, ExportTypeOK
<1>0. \A r \in Requests :
         /\ request'[r] \in [pc : RequestPc, files : Nat, at : Nat]
         /\ request'[r].files = request[r].files /\ request'[r].at = request[r].at
         /\ request'[r].pc = request[r].pc \/ request'[r].pc = "crashed"
         /\ request'[r].pc # "idle" => request[r].pc # "idle"
  BY <1>t DEF CrashApi, RequestPc
<1>1. request' \in [Requests -> [pc : RequestPc, files : Nat, at : Nat]]
  BY <1>0, <1>t DEF CrashApi
<1>u. UNCHANGED <<path, disk, claimed>>
  BY DEF CrashApi
<1>2. ExportTypeOK'
  BY <1>1, <1>u DEF ExportInv, ExportTypeOK
<1>3. AtAFile'
  BY <1>0 DEF ExportInv, AtAFile
<1>4. Untouched'
  BY <1>0, <1>u DEF ExportInv, Untouched
<1>5. InTheMaking'
  BY <1>0, <1>u DEF ExportInv, InTheMaking, Current
<1>6. OfferedIsWhole'
  BY <1>u DEF ExportInv, OfferedIsWhole
<1> QED BY <1>2, <1>3, <1>4, <1>5, <1>6 DEF ExportInv

LEMMA ExportInvariant == ExportSpec => []ExportInv
<1>1. ExportInit => ExportInv
  <2> SUFFICES ASSUME ExportInit PROVE ExportInv
    OBVIOUS
  <2>1. ExportTypeOK
    BY DEF ExportInit, ExportTypeOK, Path, Disk, RequestPc
  <2> QED BY <2>1 DEF ExportInit, ExportInv, AtAFile, Untouched, InTheMaking, OfferedIsWhole,
                      JobsOf
<1>2. ASSUME ExportInv, [ExportNext]_exportVars
      PROVE  ExportInv'
  <2>1. CASE \E r \in Requests : Export(r)
    BY <1>2, <2>1, AskStep, RenderStep, FileSteps, AuditStep DEF Export
  <2>2. CASE CrashApi
    BY <1>2, <2>2, CrashStep
  <2>3. CASE UNCHANGED exportVars
    <3>1. OnlyTakesAway
      BY <1>2, <2>3 DEF OnlyTakesAway, exportVars, apiVars, ExportInv, ExportTypeOK
    <3> QED BY <1>2, <3>1, TakingAway
  <2> QED BY <1>2, <2>1, <2>2, <2>3, OthersTakeAway, TakingAway DEF ExportNext
<1> QED BY <1>1, <1>2, PTL DEF ExportSpec

\* No export is half done to those who look at it (services/exports.ts writes
\* the path after the bytes, and renders every format and the zip before the
\* first row), whatever is deleted, expires or dies in between.
THEOREM ExportsAreWhole == ExportSpec => []NothingHalfDone
<1>1. ExportInv => NothingHalfDone
  BY DEF ExportInv, NothingHalfDone, RefusedLeavesNoTrace, Untouched
<1> QED BY <1>1, ExportInvariant, PTL

-----------------------------------------------------------------------------
(* Backups.                                                                *)

Dump == [from : {"dump", "import"}, readable : BOOLEAN, whole : BOOLEAN, foreign : BOOLEAN,
         drizzle : BOOLEAN, rows : SUBSET Nat, schema : 0..Build, level : Nat]

Database == [rows : SUBSET Nat, schema : 0..Build, level : Nat, whole : {TRUE}]

OpPc == {"idle", "dumping", "adopt", "copy", "snapshot", "pause", "spawn", "pipe", "finally",
         "migrate", "audit", "done", "failed", "error"}

OpType == [pc : OpPc, kind : {"none", "create", "import", "restore"},
           name : Names \cup {NoName}, dump : Dump \cup {NoDump},
           own : Names \cup {NoName}, saved : Dump \cup {NoDump},
           restore : {"run", "ok", "bad"}, psql : {"run", "ok", "bad"},
           stdin : {"open", "commit", "eof"}, drained : BOOLEAN,
           written : Nat, fill : Nat, applied : Nat,
           warned : BOOLEAN, committed : BOOLEAN, pool : BOOLEAN]

\* What a request holds by the time it uses it.
Holds(p) ==
    /\ p.kind = "restore" => p.dump \in Dump /\ (p.warned \/ p.dump.drizzle)
    /\ p.pc \in {"adopt", "copy"} => p.dump \in Dump /\ p.dump.from = "import"
    /\ p.pc = "dumping" => /\ p.saved \in Dump /\ p.saved.whole
                           /\ p.kind \in {"create", "restore"}
    /\ p.pc \in {"snapshot", "pause", "spawn", "pipe", "finally", "migrate", "audit"} =>
          p.kind = "restore"

\* Every piece that pg_restore wrote is in the pipe or applied, as long as psql
\* reads; it is told to commit after the last piece only; and once psql is done,
\* it has committed what it was told to.
Flow(p) ==
    /\ p.stdin = "commit" => p.restore = "ok"
    /\ p.stdin # "open" => p.restore # "run"
    /\ p.restore = "ok" => p.written = Chunks
    /\ p.restore = "ok" /\ p.psql # "bad" => p.stdin = "commit"
    /\ p.psql = "run" => ~p.drained /\ p.applied + p.fill = p.written
    /\ p.psql = "ok" => p.restore # "run"
    /\ p.pc \in {"snapshot", "dumping", "pause", "spawn"} =>
          p.restore = "run" /\ p.psql = "run" /\ ~p.committed
    /\ p.pc \in {"pipe", "finally"} =>
          (p.committed <=> p.restore = "ok" /\ p.psql = "ok")

Sound(p) == p \in OpType /\ Holds(p) /\ Flow(p)

BackupInv ==
    /\ db \in Database
    /\ shelf \in [Names -> Dump \cup {NoDump}] /\ ListedIsWhole
    /\ op \in [Ops -> OpType] /\ \A o \in Ops : Sound(op[o])

LEMMA NewOpIsSound ==
    ASSUME NEW pc \in {"idle", "done", "failed"}, NEW committed \in BOOLEAN
    PROVE  Sound([NewOp EXCEPT !.pc = pc, !.committed = committed])
<1> DEFINE p == [NewOp EXCEPT !.pc = pc, !.committed = committed]
<1>1. /\ p.pc = pc /\ p.kind = "none" /\ p.name = NoName /\ p.dump = NoDump /\ p.own = NoName
      /\ p.saved = NoDump /\ p.restore = "run" /\ p.psql = "run" /\ p.stdin = "open"
      /\ p.drained = FALSE /\ p.written = 0 /\ p.fill = 0 /\ p.applied = 0
      /\ p.warned = FALSE /\ p.committed = committed /\ p.pool = TRUE
  BY DEF NewOp
<1>2. p \in OpType
  BY DEF NewOp, OpType, OpPc
<1> HIDE DEF p
<1>3. Holds(p) /\ Flow(p)
  BY <1>1 DEF Holds, Flow
<1>4. Sound(p)
  BY <1>2, <1>3 DEF Sound
<1> QED BY <1>4 DEF p

\* A request moves to a sound record and the rest stays.
LEMMA SoundStep ==
    ASSUME BackupInv, NEW o \in Ops, NEW p, Sound(p), Set(o, p)
    PROVE  op' \in [Ops -> OpType] /\ \A q \in Ops : Sound(op'[q])
BY DEF BackupInv, Set, Sound

LEMMA DumpOfType == BackupInv => DumpOf(db) \in Dump
BY DEF BackupInv, Database, Dump, DumpOf

\* The fields of a request's record, one by one.
LEMMA OpFields ==
    ASSUME NEW p \in OpType
    PROVE  /\ p.pc \in OpPc /\ p.kind \in {"none", "create", "import", "restore"}
           /\ p.dump \in Dump \cup {NoDump} /\ p.saved \in Dump \cup {NoDump}
           /\ p.restore \in {"run", "ok", "bad"} /\ p.psql \in {"run", "ok", "bad"}
           /\ p.stdin \in {"open", "commit", "eof"} /\ p.drained \in BOOLEAN
           /\ p.written \in Nat /\ p.fill \in Nat /\ p.applied \in Nat
           /\ p.warned \in BOOLEAN /\ p.committed \in BOOLEAN
BY DEF OpType

\* Answering forgets all but whether the database was changed.
LEMMA AnswerStep ==
    ASSUME BackupInv, NEW o \in Ops, NEW what \in {"done", "failed"}, Answer(o, what)
    PROVE  op' \in [Ops -> OpType] /\ \A q \in Ops : Sound(op'[q])
<1>1. op[o].committed \in BOOLEAN
  BY OpFields DEF BackupInv
<1>2. Sound([NewOp EXCEPT !.pc = what, !.committed = op[o].committed])
  BY <1>1, NewOpIsSound
<1> QED BY <1>2, SoundStep DEF Answer

LEMMA SnapshotStep ==
    ASSUME BackupInv, NEW o \in Ops, StartCreate(o) \/ SafetyDump(o)
    PROVE  BackupInv'
<1> DEFINE p == IF StartCreate(o) THEN [NewOp EXCEPT !.kind = "create"] ELSE op[o]
<1>1. PICK n \in Names :
         Set(o, [p EXCEPT !.pc = "dumping", !.own = n, !.saved = DumpOf(db)])
  BY DEF StartCreate, SafetyDump, Snapshot, FreshNames
<1>2. /\ p \in OpType /\ p.kind \in {"create", "restore"}
      /\ p.kind = "restore" => p.dump \in Dump /\ (p.warned \/ p.dump.drizzle)
      /\ Flow(p) /\ p.restore = "run" /\ p.psql = "run" /\ ~p.committed
  <2>1. CASE StartCreate(o)
    <3> DEFINE new == [NewOp EXCEPT !.kind = "create"]
    <3>1. /\ new.pc = "idle" /\ new.kind = "create" /\ new.restore = "run" /\ new.psql = "run"
          /\ new.stdin = "open" /\ new.drained = FALSE /\ new.written = 0 /\ new.fill = 0
          /\ new.applied = 0 /\ new.committed = FALSE
      BY DEF NewOp
    <3>2. new \in OpType
      BY DEF NewOp, OpType, OpPc
    <3> HIDE DEF new
    <3>3. Flow(new)
      BY <3>1 DEF Flow
    <3> QED BY <2>1, <3>1, <3>2, <3>3 DEF new
  <2>2. CASE ~StartCreate(o)
    <3>1. p = op[o] /\ op[o].pc = "snapshot" /\ Sound(op[o]) /\ op[o] \in OpType
      BY <2>2 DEF SafetyDump, BackupInv
    <3> HIDE DEF p
    <3> QED BY <3>1, OpFields DEF Sound, Holds, Flow
  <2> QED BY <2>1, <2>2
<1> HIDE DEF p
<1> DEFINE q == [p EXCEPT !.pc = "dumping", !.own = n, !.saved = DumpOf(db)]
<1>3. DumpOf(db) \in Dump /\ DumpOf(db).whole
  BY DumpOfType DEF DumpOf
<1>b. p \in OpType
  BY <1>2
<1>c. "dumping" \in OpPc /\ n \in Names \cup {NoName} /\ DumpOf(db) \in Dump \cup {NoDump}
  BY <1>3 DEF OpPc
<1>a. q \in OpType
  BY <1>b, <1>c DEF OpType
<1>4. /\ q \in OpType /\ q.pc = "dumping" /\ q.saved = DumpOf(db)
      /\ q.kind = p.kind /\ q.dump = p.dump /\ q.restore = p.restore /\ q.psql = p.psql
      /\ q.stdin = p.stdin /\ q.drained = p.drained /\ q.written = p.written
      /\ q.fill = p.fill /\ q.applied = p.applied /\ q.warned = p.warned
      /\ q.committed = p.committed
  BY <1>a, <1>b DEF OpType
<1> HIDE DEF q
<1>5. Holds(q) /\ Flow(q)
  BY <1>2, <1>3, <1>4 DEF Holds, Flow
<1>6. Sound(q) /\ Set(o, q)
  BY <1>1, <1>4, <1>5 DEF Sound, q
<1>7. UNCHANGED <<db, shelf>>
  BY DEF StartCreate, SafetyDump, Snapshot, DumpAside
<1> QED BY <1>6, <1>7, SoundStep DEF BackupInv, ListedIsWhole

\* A record that differs from a sound one in its program counter.
LEMMA Goes ==
    ASSUME BackupInv, NEW o \in Ops, NEW pc \in OpPc, OpGoes(o, pc),
           pc \in {"adopt", "copy"} => op[o].pc \in {"adopt", "copy"},
           pc # "dumping",
           pc \in {"snapshot", "pause", "spawn", "pipe", "finally", "migrate", "audit"} =>
              op[o].kind = "restore",
           pc \in {"snapshot", "pause", "spawn"} =>
              op[o].restore = "run" /\ op[o].psql = "run" /\ ~op[o].committed,
           pc \in {"pipe", "finally"} =>
              (op[o].committed <=> op[o].restore = "ok" /\ op[o].psql = "ok")
    PROVE  op' \in [Ops -> OpType] /\ \A q \in Ops : Sound(op'[q])
<1> DEFINE p == op[o]
           q == [p EXCEPT !.pc = pc]
<1>1. p \in OpType /\ Holds(p) /\ Flow(p)
  BY DEF BackupInv, Sound
<1>t. p \in OpType
  BY <1>1
<1>2. q \in OpType
  BY <1>t DEF OpType
<1>3. /\ q.pc = pc /\ q.kind = p.kind /\ q.dump = p.dump /\ q.restore = p.restore
      /\ q.psql = p.psql /\ q.stdin = p.stdin /\ q.drained = p.drained
      /\ q.written = p.written /\ q.fill = p.fill /\ q.applied = p.applied
      /\ q.warned = p.warned /\ q.committed = p.committed
  BY <1>t DEF OpType
<1>4. Set(o, q)
  BY DEF OpGoes, Set
<1> HIDE DEF q
<1>5. Holds(q) /\ Flow(q)
  BY <1>1, <1>3 DEF Holds, Flow
<1> QED BY <1>2, <1>4, <1>5, SoundStep DEF Sound

LEMMA ShelfStep ==
    ASSUME BackupInv, NEW n, NEW d \in Dump \cup {NoDump}, d.from = "dump" => d.whole,
           shelf' = [shelf EXCEPT ![n] = d]
    PROVE  shelf' \in [Names -> Dump \cup {NoDump}] /\ ListedIsWhole'
BY DEF BackupInv, ListedIsWhole

LEMMA DumpSteps ==
    ASSUME BackupInv, NEW o \in Ops, DumpFails(o) \/ DumpEnds(o)
    PROVE  BackupInv'
<1>1. /\ op[o].pc = "dumping" /\ op[o] \in OpType /\ Sound(op[o]) /\ UNCHANGED db
      /\ op[o].saved \in Dump /\ op[o].saved.whole
      /\ op[o].kind \in {"create", "restore"}
  BY DEF DumpFails, DumpEnds, BackupInv, Sound, Holds
<1>2. CASE DumpFails(o)
  BY <1>1, <1>2, AnswerStep DEF DumpFails, BackupInv, ListedIsWhole
<1>3. CASE DumpEnds(o)
  <2>1. shelf' \in [Names -> Dump \cup {NoDump}] /\ ListedIsWhole'
    BY <1>1, <1>3, ShelfStep DEF DumpEnds
  <2>2. CASE op[o].kind = "create"
    BY <1>1, <1>3, <2>1, <2>2, AnswerStep DEF DumpEnds, BackupInv
  <2>3. CASE op[o].kind # "create"
    <3>1. OpGoes(o, "pause")
      BY <1>3, <2>3 DEF DumpEnds
    <3>2. op[o].kind = "restore" /\ op[o].restore = "run" /\ op[o].psql = "run" /\ ~op[o].committed
      BY <1>1, <2>3 DEF Sound, Flow
    <3>3. op' \in [Ops -> OpType] /\ \A q \in Ops : Sound(op'[q])
      BY <3>1, <3>2, Goes DEF OpPc
    <3> QED BY <1>1, <2>1, <3>3 DEF BackupInv
  <2> QED BY <2>2, <2>3
<1> QED BY <1>2, <1>3

\* A request that begins has nothing in its pipe yet.
LEMMA FreshIsSound ==
    ASSUME NEW p \in OpType, Holds(p),
           p.restore = "run", p.psql = "run", p.stdin = "open", p.drained = FALSE,
           p.written = 0, p.fill = 0, p.applied = 0, p.committed = FALSE
    PROVE  Sound(p)
BY DEF Sound, Flow

LEMMA FailedIsSound == Sound([NewOp EXCEPT !.pc = "failed"])
<1> DEFINE p == [NewOp EXCEPT !.pc = "failed"]
<1>1. /\ p \in OpType /\ p.pc = "failed" /\ p.kind = "none"
      /\ p.restore = "run" /\ p.psql = "run" /\ p.stdin = "open" /\ p.drained = FALSE
      /\ p.written = 0 /\ p.fill = 0 /\ p.applied = 0 /\ p.committed = FALSE
  BY DEF NewOp, OpType, OpPc
<1> HIDE DEF p
<1>2. Sound(p)
  BY <1>1, FreshIsSound DEF Holds
<1> QED BY <1>2 DEF p

LEMMA ImportSteps ==
    ASSUME BackupInv, NEW o \in Ops, StartImport(o) \/ Adopt(o) \/ CopyEnds(o)
    PROVE  BackupInv'
<1>u. Uploads \subseteq Dump /\ \A u \in Uploads : u.from = "import"
  BY BackupAssumption DEF Dump
<1>d. UNCHANGED db /\ db \in Database
  BY DEF StartImport, Adopt, CopyEnds, BackupInv, files
<1>1. CASE StartImport(o)
  <2>1. PICK u \in Uploads, n \in Names :
          Set(o, IF u.readable /\ ~u.foreign /\ shelf[n] = NoDump
                 THEN [NewOp EXCEPT !.pc = "adopt", !.kind = "import", !.name = n, !.dump = u]
                 ELSE [NewOp EXCEPT !.pc = "failed"])
    BY <1>1 DEF StartImport
  <2> DEFINE p == [NewOp EXCEPT !.pc = "adopt", !.kind = "import", !.name = n, !.dump = u]
  <2>2. /\ p.pc = "adopt" /\ p.kind = "import" /\ p.dump = u
        /\ p.restore = "run" /\ p.psql = "run" /\ p.stdin = "open" /\ p.drained = FALSE
        /\ p.written = 0 /\ p.fill = 0 /\ p.applied = 0 /\ p.committed = FALSE
    BY DEF NewOp
  <2>t. p \in OpType
    BY <1>u DEF NewOp, OpType, OpPc
  <2> HIDE DEF p
  <2>3. Sound(p)
    BY <1>u, <2>2, <2>t, FreshIsSound DEF Holds
  <2>4. op' \in [Ops -> OpType] /\ \A q \in Ops : Sound(op'[q])
    BY <2>1, <2>3, FailedIsSound, SoundStep DEF p
  <2> QED BY <1>1, <1>d, <2>4 DEF StartImport, files, BackupInv, ListedIsWhole
<1>2. CASE Adopt(o) \/ CopyEnds(o)
  <2>1. /\ op[o].pc \in {"adopt", "copy"} /\ Sound(op[o])
        /\ op[o].dump \in Dump /\ op[o].dump.from = "import"
    BY <1>2 DEF Adopt, CopyEnds, BackupInv, Sound, Holds
  <2>2. /\ [op[o].dump EXCEPT !.whole = FALSE] \in Dump
        /\ [op[o].dump EXCEPT !.whole = FALSE].from = "import"
    BY <2>1 DEF Dump
  <2>3. shelf' \in [Names -> Dump \cup {NoDump}] /\ ListedIsWhole'
    <3>1. CASE shelf' = [shelf EXCEPT ![op[o].name] = op[o].dump]
      BY <2>1, <3>1, ShelfStep
    <3>2. CASE shelf' = [shelf EXCEPT ![op[o].name] = [op[o].dump EXCEPT !.whole = FALSE]]
      BY <2>2, <3>2, ShelfStep
    <3>3. CASE shelf' = [shelf EXCEPT ![op[o].name] = IF @ = NoDump THEN @ ELSE op[o].dump]
      BY <2>1, <3>3 DEF BackupInv, ListedIsWhole
    <3> QED BY <1>2, <3>1, <3>2, <3>3 DEF Adopt, CopyEnds
  <2>4. CASE Answer(o, "done")
    BY <1>d, <2>3, <2>4, AnswerStep DEF BackupInv
  <2>5. CASE OpGoes(o, "copy")
    <3>1. op' \in [Ops -> OpType] /\ \A q \in Ops : Sound(op'[q])
      BY <2>1, <2>5, Goes DEF OpPc
    <3> QED BY <1>d, <2>3, <3>1 DEF BackupInv
  <2> QED BY <1>2, <2>4, <2>5 DEF Adopt, CopyEnds
<1> QED BY <1>1, <1>2

LEMMA StartRestoreStep ==
    ASSUME BackupInv, NEW o \in Ops, StartRestore(o)
    PROVE  BackupInv'
<1>1. PICK n \in Names :
        /\ shelf[n] # NoDump
        /\ Set(o, IF ~shelf[n].readable \/ shelf[n].foreign THEN [NewOp EXCEPT !.pc = "failed"]
                  ELSE [NewOp EXCEPT !.pc = "snapshot", !.kind = "restore", !.name = n,
                                     !.dump = shelf[n], !.warned = ~shelf[n].drizzle])
  BY DEF StartRestore
<1> DEFINE d == shelf[n]
           p == [NewOp EXCEPT !.pc = "snapshot", !.kind = "restore", !.name = n,
                              !.dump = d, !.warned = ~d.drizzle]
<1>d. d \in Dump /\ d.drizzle \in BOOLEAN
  BY <1>1 DEF BackupInv, Dump
<1> HIDE DEF d
<1>2. /\ p.pc = "snapshot" /\ p.kind = "restore" /\ p.dump = d /\ p.warned = ~d.drizzle
      /\ p.restore = "run" /\ p.psql = "run" /\ p.stdin = "open" /\ p.drained = FALSE
      /\ p.written = 0 /\ p.fill = 0 /\ p.applied = 0 /\ p.committed = FALSE
  BY DEF NewOp
<1>t. p \in OpType
  BY <1>d DEF NewOp, OpType, OpPc
<1> HIDE DEF p
<1>3. Sound(p)
  BY <1>d, <1>2, <1>t, FreshIsSound DEF Holds
<1>4. op' \in [Ops -> OpType] /\ \A q \in Ops : Sound(op'[q])
  BY <1>1, <1>3, FailedIsSound, SoundStep DEF p, d
<1>5. UNCHANGED <<db, shelf>>
  BY DEF StartRestore, files
<1> QED BY <1>4, <1>5 DEF BackupInv, ListedIsWhole

\* A request that changes only its own record.
LEMMA RecordStep ==
    ASSUME BackupInv, NEW o \in Ops, NEW p, Sound(p), Set(o, p), UNCHANGED <<db, shelf>>
    PROVE  BackupInv'
BY SoundStep DEF BackupInv, ListedIsWhole

LEMMA PauseStep ==
    ASSUME BackupInv, NEW o \in Ops, Pause(o)
    PROVE  BackupInv'
<1>1. /\ op[o].pc = "pause" /\ op[o] \in OpType /\ Sound(op[o]) /\ UNCHANGED <<db, shelf>>
  BY DEF Pause, BackupInv, files
<1>2. CASE OpGoes(o, "spawn")
  <2>1. op' \in [Ops -> OpType] /\ \A q \in Ops : Sound(op'[q])
    BY <1>1, <1>2, Goes DEF OpPc, Sound, Holds, Flow
  <2> QED BY <1>1, <2>1 DEF BackupInv, ListedIsWhole
<1>3. CASE Set(o, [op[o] EXCEPT !.pc = "spawn", !.warned = TRUE])
  <2> DEFINE p == op[o]
             q == [p EXCEPT !.pc = "spawn", !.warned = TRUE]
  <2>1. p \in OpType /\ Holds(p) /\ Flow(p) /\ p.pc = "pause"
    BY <1>1 DEF Sound
  <2>2. q \in OpType
    BY <1>1 DEF OpType, OpPc
  <2>3. /\ q.pc = "spawn" /\ q.kind = p.kind /\ q.dump = p.dump /\ q.restore = p.restore
        /\ q.psql = p.psql /\ q.stdin = p.stdin /\ q.drained = p.drained
        /\ q.written = p.written /\ q.fill = p.fill /\ q.applied = p.applied
        /\ q.warned = TRUE /\ q.committed = p.committed
    BY <1>1 DEF OpType
  <2>4. Set(o, q)
    BY <1>3
  <2> HIDE DEF p, q
  <2>5. Sound(q)
    BY <2>1, <2>2, <2>3 DEF Sound, Holds, Flow
  <2> QED BY <1>1, <2>4, <2>5, RecordStep
<1> QED BY <1>2, <1>3 DEF Pause

LEMMA SpawnStep ==
    ASSUME BackupInv, NEW o \in Ops, Spawn(o)
    PROVE  BackupInv'
<1>1. /\ op[o].pc = "spawn" /\ op[o] \in OpType /\ Sound(op[o]) /\ UNCHANGED <<db, shelf>>
  BY DEF Spawn, BackupInv, files
<1>0. OpGoes(o, "pipe") \/ Set(o, [op[o] EXCEPT !.pc = "finally", !.restore = "bad"])
  BY DEF Spawn
<1> DEFINE p == op[o]
<1>s. /\ Holds(p) /\ Flow(p) /\ p.kind = "restore" /\ p.restore = "run" /\ p.psql = "run"
      /\ ~p.committed
  BY <1>1 DEF Sound, Holds, Flow
<1>2. CASE OpGoes(o, "pipe")
  <2>1. op' \in [Ops -> OpType] /\ \A q \in Ops : Sound(op'[q])
    BY <1>1, <1>s, <1>2, Goes DEF OpPc
  <2> QED BY <1>1, <2>1 DEF BackupInv, ListedIsWhole
<1>3. CASE Set(o, [op[o] EXCEPT !.pc = "finally", !.restore = "bad"])
  <2> DEFINE q == [p EXCEPT !.pc = "finally", !.restore = "bad"]
  <2>2. q \in OpType
    BY <1>1 DEF OpType, OpPc
  <2>3. /\ q.pc = "finally" /\ q.kind = p.kind /\ q.dump = p.dump /\ q.restore = "bad"
        /\ q.psql = p.psql /\ q.stdin = p.stdin /\ q.drained = p.drained
        /\ q.written = p.written /\ q.fill = p.fill /\ q.applied = p.applied
        /\ q.warned = p.warned /\ q.committed = p.committed
    BY <1>1 DEF OpType
  <2>4. Set(o, q)
    BY <1>3
  <2> HIDE DEF p, q
  <2>5. Sound(q)
    BY <1>s, <2>2, <2>3 DEF Sound, Holds, Flow
  <2> QED BY <1>1, <2>4, <2>5, RecordStep
<1> QED BY <1>0, <1>2, <1>3

LEMMA ExitType ==
    ASSUME NEW p \in OpType, NEW code \in {"run", "ok", "bad"},
           NEW word \in {"open", "commit", "eof"}
    PROVE  [p EXCEPT !.restore = code, !.stdin = word] \in OpType
<1>1. [p EXCEPT !.restore = code] \in OpType
  BY DEF OpType
<1>2. \A r \in OpType : [r EXCEPT !.stdin = word] \in OpType
  BY DEF OpType
<1> QED BY <1>1, <1>2

LEMMA PipeSteps ==
    ASSUME BackupInv, NEW o \in Ops,
           \/ RestoreWrites(o) \/ RestoreExits(o) \/ PsqlLocks(o) \/ PsqlReads(o)
           \/ PsqlFails(o) \/ Finish(o)
    PROVE  BackupInv'
<1> DEFINE p == op[o]
<1>1. /\ p.pc = "pipe" /\ p \in OpType /\ Sound(p) /\ UNCHANGED <<db, shelf>>
  BY DEF RestoreWrites, RestoreExits, PsqlLocks, PsqlReads, PsqlFails, Finish, BackupInv, files
<1>t. p \in OpType
  BY <1>1
<1>f. /\ p.restore \in {"run", "ok", "bad"} /\ p.psql \in {"run", "ok", "bad"}
      /\ p.written \in Nat /\ p.fill \in Nat /\ p.applied \in Nat
      /\ p.drained \in BOOLEAN /\ p.committed \in BOOLEAN
  BY <1>t, OpFields
<1>s. Holds(p) /\ Flow(p)
  BY <1>1 DEF Sound
<1>2. CASE RestoreWrites(o)
  <2> DEFINE f == IF p.drained THEN p.fill ELSE p.fill + 1
             q == [p EXCEPT !.written = p.written + 1, !.fill = f]
  <2>n. p.written + 1 \in Nat /\ f \in Nat
    BY <1>f
  <2>1. p.restore = "run" /\ p.written < Chunks
    BY <1>2 DEF RestoreWrites
  <2>4. Set(o, q)
    BY <1>2 DEF RestoreWrites
  <2> HIDE DEF f
  <2>2. q \in OpType
    BY <1>t, <2>n DEF OpType
  <2>3. /\ q.pc = p.pc /\ q.kind = p.kind /\ q.dump = p.dump
        /\ q.restore = p.restore /\ q.psql = p.psql /\ q.stdin = p.stdin
        /\ q.drained = p.drained /\ q.written = p.written + 1 /\ q.fill = f
        /\ q.applied = p.applied /\ q.warned = p.warned /\ q.committed = p.committed
    BY <1>t DEF OpType
  <2> HIDE DEF q
  <2>5. Holds(q) /\ Flow(q)
    BY <1>1, <1>f, <1>s, <2>n, <2>1, <2>3 DEF Holds, Flow, f
  <2> QED BY <1>1, <2>2, <2>4, <2>5, RecordStep DEF Sound
<1>3. CASE RestoreExits(o)
  <2>1. PICK code \in {"ok", "bad"} :
          /\ code = "ok" => p.written = Chunks
          /\ Set(o, [p EXCEPT !.restore = code,
                              !.stdin = IF p.psql = "run" THEN LastWord(code) ELSE @])
    BY <1>3 DEF RestoreExits
  <2>r. p.restore = "run"
    BY <1>3 DEF RestoreExits
  <2> DEFINE word == IF p.psql = "run" THEN LastWord(code) ELSE p.stdin
             q == [p EXCEPT !.restore = code, !.stdin = word]
  <2>4. Set(o, q)
    BY <2>1
  <2>w. /\ word \in {"open", "commit", "eof"}
        /\ p.psql = "run" => word = IF code = "ok" THEN "commit" ELSE "eof"
        /\ p.psql # "run" => word = p.stdin
    BY <1>t, OpFields DEF LastWord
  <2> HIDE DEF word
  <2>c. code \in {"run", "ok", "bad"} /\ word \in {"open", "commit", "eof"}
    BY <2>w
  <2>2. q \in OpType
    BY <1>t, <2>c, ExitType
  <2>3. /\ q.pc = p.pc /\ q.kind = p.kind /\ q.dump = p.dump
        /\ q.restore = code /\ q.psql = p.psql /\ q.stdin = word
        /\ q.drained = p.drained /\ q.written = p.written /\ q.fill = p.fill
        /\ q.applied = p.applied /\ q.warned = p.warned /\ q.committed = p.committed
    BY <1>t DEF OpType
  <2> HIDE DEF q
  <2>5. Holds(q) /\ Flow(q)
    BY <1>1, <1>f, <1>s, <2>1, <2>r, <2>w, <2>3 DEF Holds, Flow
  <2> QED BY <1>1, <2>2, <2>4, <2>5, RecordStep DEF Sound
<1>4. CASE PsqlLocks(o)
  BY <1>1, <1>4 DEF PsqlLocks, BackupInv, ListedIsWhole
<1>5. CASE PsqlReads(o)
  <2> DEFINE q == [p EXCEPT !.fill = @ - 1, !.applied = @ + 1]
  <2>1. p.psql = "run" /\ p.fill > 0
    BY <1>5 DEF PsqlReads
  <2>n. p.fill - 1 \in Nat /\ p.applied + 1 \in Nat
    BY <1>f, <2>1
  <2>2. q \in OpType
    BY <1>t, <2>n DEF OpType
  <2>3. /\ q.pc = p.pc /\ q.kind = p.kind /\ q.dump = p.dump
        /\ q.restore = p.restore /\ q.psql = p.psql /\ q.stdin = p.stdin
        /\ q.drained = p.drained /\ q.written = p.written /\ q.fill = p.fill - 1
        /\ q.applied = p.applied + 1 /\ q.warned = p.warned /\ q.committed = p.committed
    BY <1>t DEF OpType
  <2>4. Set(o, q)
    BY <1>5 DEF PsqlReads
  <2> HIDE DEF q
  <2>5. Holds(q) /\ Flow(q)
    BY <1>1, <1>f, <1>s, <2>1, <2>3 DEF Holds, Flow
  <2> QED BY <1>1, <2>2, <2>4, <2>5, RecordStep DEF Sound
<1>6. CASE PsqlFails(o)
  <2> DEFINE q == [p EXCEPT !.psql = "bad", !.drained = TRUE]
  <2>1. p.psql = "run"
    BY <1>6 DEF PsqlFails
  <2>2. q \in OpType
    BY <1>t, <1>f DEF OpType
  <2>3. /\ q.pc = p.pc /\ q.kind = p.kind /\ q.dump = p.dump
        /\ q.restore = p.restore /\ q.psql = "bad" /\ q.stdin = p.stdin
        /\ q.drained = TRUE /\ q.written = p.written /\ q.fill = p.fill
        /\ q.applied = p.applied /\ q.warned = p.warned /\ q.committed = p.committed
    BY <1>t DEF OpType
  <2>4. Set(o, q)
    BY <1>6 DEF PsqlFails, DrainPipe
  <2> HIDE DEF q
  <2>5. Holds(q) /\ Flow(q)
    BY <1>1, <1>f, <1>s, <2>1, <2>3 DEF Holds, Flow
  <2> QED BY <1>1, <2>2, <2>4, <2>5, RecordStep DEF Sound
<1>7. CASE Finish(o)
  <2>1. op[o].kind = "restore" /\ OpGoes(o, "finally")
    BY <1>1, <1>s, <1>7 DEF Finish, Holds
  <2>2. op[o].committed <=> op[o].restore = "ok" /\ op[o].psql = "ok"
    BY <1>1, <1>s DEF Flow
  <2>3. op' \in [Ops -> OpType] /\ \A r \in Ops : Sound(op'[r])
    BY <2>1, <2>2, Goes DEF OpPc
  <2> QED BY <1>1, <2>3 DEF BackupInv, ListedIsWhole
<1> QED BY <1>2, <1>3, <1>4, <1>5, <1>6, <1>7

\* What psql commits, once it has read all it was sent, is a whole dump.
LEMMA RestoredIsWhole ==
    ASSUME BackupInv, NEW o \in Ops, op[o].pc = "pipe", op[o].psql = "run",
           op[o].stdin = "commit", op[o].fill = 0
    PROVE  Restored(o) \in Database
<1>1. /\ op[o] \in OpType /\ Holds(op[o]) /\ Flow(op[o]) /\ db \in Database
  BY DEF BackupInv, Sound
<1>2. op[o].dump \in Dump
  BY <1>1 DEF Holds
<1>3. op[o].applied = Chunks
  <2>1. /\ op[o].fill \in Nat /\ op[o].applied \in Nat /\ op[o].written = Chunks
        /\ op[o].applied + op[o].fill = op[o].written
    BY <1>1, OpFields DEF Flow
  <2> QED BY <2>1
<1> QED BY <1>1, <1>2, <1>3 DEF Restored, Dump, Database

LEMMA PsqlEndsStep ==
    ASSUME BackupInv, NEW o \in Ops, PsqlEnds(o)
    PROVE  BackupInv'
<1> DEFINE p == op[o]
           q == [p EXCEPT !.psql = "ok", !.committed = (p.stdin = "commit"), !.drained = TRUE]
<1>1. /\ p.pc = "pipe" /\ p.psql = "run" /\ p.stdin # "open" /\ p.fill = 0
      /\ db' = IF p.stdin = "commit" THEN Restored(o) ELSE db
      /\ Set(o, q) /\ UNCHANGED shelf
  BY DEF PsqlEnds, files
<1>t. p \in OpType
  BY DEF BackupInv
<1>f. /\ p.restore \in {"run", "ok", "bad"} /\ p.stdin \in {"open", "commit", "eof"}
      /\ p.committed \in BOOLEAN
  BY <1>t, OpFields
<1>s. Holds(p) /\ Flow(p)
  BY DEF BackupInv, Sound
<1>2. q \in OpType
  <2>1. \A b \in BOOLEAN : [p EXCEPT !.psql = "ok", !.committed = b, !.drained = TRUE] \in OpType
    BY <1>t DEF OpType
  <2>2. (p.stdin = "commit") \in BOOLEAN
    OBVIOUS
  <2> QED BY <2>1, <2>2
<1>3. /\ q.pc = p.pc /\ q.kind = p.kind /\ q.dump = p.dump
      /\ q.restore = p.restore /\ q.psql = "ok" /\ q.stdin = p.stdin
      /\ q.drained = TRUE /\ q.written = p.written /\ q.fill = p.fill
      /\ q.applied = p.applied /\ q.warned = p.warned /\ q.committed = (p.stdin = "commit")
  BY <1>t DEF OpType
<1> HIDE DEF p, q
<1>5. Holds(q) /\ Flow(q)
  BY <1>1, <1>f, <1>s, <1>3 DEF Holds, Flow
<1>6. op' \in [Ops -> OpType] /\ \A r \in Ops : Sound(op'[r])
  BY <1>1, <1>2, <1>5, SoundStep DEF Sound
<1>7. db' \in Database
  BY <1>1, RestoredIsWhole DEF BackupInv, p
<1> QED BY <1>1, <1>6, <1>7 DEF BackupInv, ListedIsWhole

LEMMA FinallyStep ==
    ASSUME BackupInv, NEW o \in Ops, Finally(o)
    PROVE  BackupInv'
<1>1. /\ op[o].pc = "finally" /\ op[o] \in OpType /\ Sound(op[o]) /\ UNCHANGED <<db, shelf>>
  BY DEF Finally, BackupInv, files
<1>2. CASE Resolved(o)
  <2>1. PICK recycled \in BOOLEAN :
          Set(o, [NewOp EXCEPT !.pc = "migrate", !.kind = "restore", !.dump = op[o].dump,
                               !.pool = recycled, !.committed = TRUE,
                               !.warned = op[o].warned \/ ~recycled])
    BY <1>2 DEF Finally
  <2> DEFINE d == op[o].dump
             w == op[o].warned \/ ~recycled
             q == [NewOp EXCEPT !.pc = "migrate", !.kind = "restore", !.dump = d,
                                !.pool = recycled, !.committed = TRUE, !.warned = w]
  <2>2. d \in Dump /\ w \in BOOLEAN /\ (w \/ d.drizzle)
    BY <1>1, OpFields DEF Sound, Holds
  <2>3. Set(o, q)
    BY <2>1
  <2> HIDE DEF d, w
  <2>4. /\ q.pc = "migrate" /\ q.kind = "restore" /\ q.dump = d
        /\ q.restore = "run" /\ q.psql = "run" /\ q.stdin = "open" /\ q.drained = FALSE
        /\ q.written = 0 /\ q.fill = 0 /\ q.applied = 0 /\ q.warned = w
    BY DEF NewOp
  <2>5. q \in OpType
    BY <2>2 DEF NewOp, OpType, OpPc
  <2> HIDE DEF q
  <2>6. Holds(q) /\ Flow(q)
    BY <2>2, <2>4 DEF Holds, Flow
  <2> QED BY <1>1, <2>3, <2>5, <2>6, RecordStep DEF Sound
<1>3. CASE ~Resolved(o)
  <2>1. Answer(o, "failed")
    BY <1>3 DEF Finally
  <2> QED BY <1>1, <2>1, AnswerStep DEF BackupInv, ListedIsWhole
<1> QED BY <1>2, <1>3

LEMMA WarnedStep ==
    ASSUME BackupInv, NEW o \in Ops, op[o].pc = "migrate", UNCHANGED <<db, shelf>>,
           Set(o, [op[o] EXCEPT !.pc = "audit", !.warned = TRUE])
    PROVE  BackupInv'
<1> DEFINE p == op[o]
           q == [p EXCEPT !.pc = "audit", !.warned = TRUE]
<1>t. p \in OpType
  BY DEF BackupInv
<1>1. Holds(p) /\ Flow(p) /\ p.pc = "migrate" /\ Set(o, q)
  BY DEF BackupInv, Sound
<1>2. q \in OpType
  BY <1>t DEF OpType, OpPc
<1>3. /\ q.pc = "audit" /\ q.kind = p.kind /\ q.dump = p.dump
      /\ q.restore = p.restore /\ q.psql = p.psql /\ q.stdin = p.stdin
      /\ q.drained = p.drained /\ q.written = p.written /\ q.fill = p.fill
      /\ q.applied = p.applied /\ q.warned = TRUE /\ q.committed = p.committed
  BY <1>t DEF OpType
<1> HIDE DEF p, q
<1>4. Holds(q) /\ Flow(q)
  BY <1>1, <1>3 DEF Holds, Flow
<1> QED BY <1>1, <1>2, <1>4, RecordStep DEF Sound

LEMMA MigrateSteps ==
    ASSUME BackupInv, NEW o \in Ops, Migrate(o) \/ AuditRestore(o)
    PROVE  BackupInv'
<1>1. /\ op[o].pc \in {"migrate", "audit"} /\ Sound(op[o]) /\ op[o].kind = "restore"
      /\ UNCHANGED shelf
  BY DEF Migrate, AuditRestore, files, BackupInv, Sound, Holds
<1>2. Migrated \in Database
  <2> DEFINE level == IF db.level < Build /\ db.schema = db.level THEN Build ELSE db.schema
  <2>a. db \in Database /\ Build \in Nat
    BY BackupAssumption DEF BackupInv
  <2>b. db.schema \in 0..Build
    BY <2>a DEF Database
  <2>1. level \in 0..Build
    BY <2>a, <2>b
  <2>2. Migrated = [db EXCEPT !.schema = level, !.level = Build]
    BY DEF Migrated
  <2> HIDE DEF level
  <2> QED BY <2>a, <2>1, <2>2 DEF Database
<1>3. ASSUME NEW pc \in {"audit", "done", "error"}, OpGoes(o, pc), db' = db \/ db' = Migrated
      PROVE  BackupInv'
  <2>1. op' \in [Ops -> OpType] /\ \A q \in Ops : Sound(op'[q])
    BY <1>1, <1>3, Goes DEF OpPc
  <2> QED BY <1>1, <1>2, <1>3, <2>1 DEF BackupInv, ListedIsWhole
<1>4. CASE Migrate(o)
  BY <1>1, <1>3, <1>4, WarnedStep DEF Migrate
<1>5. CASE AuditRestore(o)
  BY <1>3, <1>5 DEF AuditRestore, OpGoes, Set
<1> QED BY <1>4, <1>5

LEMMA EveryoneElse ==
    ASSUME BackupInv, (\E n \in Names : DeleteBackup(n)) \/ Sweep \/ Write \/ Crash
    PROVE  BackupInv'
<1>1. CASE \E n \in Names : DeleteBackup(n)
  <2>1. PICK n \in Names : DeleteBackup(n)
    BY <1>1
  <2>2. NoDump.from # "dump"
    BY DEF NoDump
  <2>3. shelf' \in [Names -> Dump \cup {NoDump}] /\ ListedIsWhole'
    BY <2>1, <2>2, ShelfStep DEF DeleteBackup
  <2> QED BY <2>1, <2>3 DEF DeleteBackup, BackupInv
<1>2. CASE Sweep
  <2>1. shelf' \in [Names -> Dump \cup {NoDump}] /\ ListedIsWhole'
    BY <1>2 DEF Sweep, BackupInv, ListedIsWhole, NoDump
  <2> QED BY <1>2, <2>1 DEF Sweep, BackupInv
<1>3. CASE Write
  <2>1. PICK w \in (1..MaxWrites) \ db.rows : db' = [db EXCEPT !.rows = @ \cup {w}]
    BY <1>3 DEF Write
  <2>2. w \in Nat /\ db \in Database
    BY BackupAssumption DEF BackupInv
  <2>3. db' \in Database
    BY <2>1, <2>2 DEF Database
  <2> QED BY <1>3, <2>3 DEF Write, files, BackupInv, ListedIsWhole
<1>4. CASE Crash
  <2>1. Sound(NewOp) /\ NewOp \in OpType
    <3>1. /\ NewOp \in OpType /\ NewOp.pc = "idle" /\ NewOp.kind = "none"
          /\ NewOp.restore = "run" /\ NewOp.psql = "run" /\ NewOp.stdin = "open"
          /\ NewOp.drained = FALSE /\ NewOp.written = 0 /\ NewOp.fill = 0
          /\ NewOp.applied = 0 /\ NewOp.committed = FALSE
      BY DEF NewOp, OpType, OpPc
    <3> QED BY <3>1, FreshIsSound DEF Holds
  <2>2. op' \in [Ops -> OpType] /\ \A q \in Ops : Sound(op'[q])
    BY <1>4, <2>1 DEF Crash
  <2>3. db' \in Database
    BY <1>4, RestoredIsWhole DEF Crash, BackupInv
  <2> QED BY <1>4, <2>2, <2>3 DEF Crash, files, BackupInv, ListedIsWhole
<1> QED BY <1>1, <1>2, <1>3, <1>4

LEMMA BackupInvariant == BackupSpec => []BackupInv
<1>1. BackupInit => BackupInv
  <2> SUFFICES ASSUME BackupInit PROVE BackupInv
    OBVIOUS
  <2>1. /\ NewOp \in OpType /\ NewOp.pc = "idle" /\ NewOp.kind = "none"
        /\ NewOp.restore = "run" /\ NewOp.psql = "run" /\ NewOp.stdin = "open"
        /\ NewOp.drained = FALSE /\ NewOp.written = 0 /\ NewOp.fill = 0
        /\ NewOp.applied = 0 /\ NewOp.committed = FALSE
    BY DEF NewOp, OpType, OpPc
  <2>2. Sound(NewOp)
    BY <2>1, FreshIsSound DEF Holds
  <2>3. op \in [Ops -> OpType] /\ \A o \in Ops : Sound(op[o])
    BY <2>1, <2>2 DEF BackupInit
  <2>4. db \in Database
    BY BackupAssumption DEF BackupInit, Database
  <2>5. shelf \in [Names -> Dump \cup {NoDump}] /\ ListedIsWhole
    BY DEF BackupInit, ListedIsWhole, NoDump
  <2> QED BY <2>3, <2>4, <2>5 DEF BackupInv
<1>2. ASSUME BackupInv, [BackupNext]_backupVars
      PROVE  BackupInv'
  <2>1. CASE \E o \in Ops : StartCreate(o) \/ DumpFails(o) \/ DumpEnds(o)
                           \/ StartImport(o) \/ Adopt(o) \/ CopyEnds(o)
    BY <1>2, <2>1, SnapshotStep, DumpSteps, ImportSteps
  <2>2. CASE \E o \in Ops : Restore(o)
    BY <1>2, <2>2, StartRestoreStep, SnapshotStep, PauseStep, SpawnStep, PipeSteps, PsqlEndsStep,
       FinallyStep, MigrateSteps DEF Restore, Pipe
  <2>3. CASE UNCHANGED backupVars
    BY <1>2, <2>3 DEF backupVars, files, BackupInv, ListedIsWhole
  <2> QED BY <1>2, <2>1, <2>2, <2>3, EveryoneElse DEF BackupNext
<1> QED BY <1>1, <1>2, PTL DEF BackupSpec

\* All of a dump or nothing, on the shelf and in the database: createBackup
\* renames only what pg_dump finished, and pipeRestoreIntoPsql sends COMMIT only
\* after pg_restore's exit with 0, whichever of the processes dies when.
THEOREM DumpsAreWhole == BackupSpec => []AllOrNothing
<1>1. BackupInv => AllOrNothing
  BY DEF BackupInv, AllOrNothing, RestoreIsAtomic, Database, Sound, Flow, Resolved
<1> QED BY <1>1, BackupInvariant, PTL

-----------------------------------------------------------------------------
(* The schema after a restore.                                             *)

\* No two restores run side by side; the route does not refuse a second one.
OneRestore == \A o, p \in Ops : Restoring(o) /\ Restoring(p) => o = p

\* What the tables are at while a restore without a warning is past its commit,
\* and once it is past the migrations.
Fits(p) ==
    p.kind = "restore" /\ ~p.warned /\ p.dump.schema = p.dump.level =>
        /\ (p.pc \in {"pipe", "finally"} /\ p.committed) \/ p.pc = "migrate" =>
              db.schema = p.dump.schema /\ db.level = p.dump.level
        /\ p.pc = "audit" => db.schema = Build

AllFit == \A o \in Ops : Fits(op[o])

\* Where a request says anything about the database.
Telling(p) == p.kind = "restore" /\ p.pc \in {"pipe", "finally", "migrate", "audit"}

LEMMA QuietOp ==
    ASSUME BackupInv, AllFit, NEW o \in Ops, NEW p, Set(o, p),
           db'.schema = db.schema /\ db'.level = db.level,
           Telling(p) => Fits(p)
    PROVE  AllFit'
BY DEF AllFit, Fits, Set, BackupInv, Telling

\* The steps around the commit.
LEMMA CommitFits ==
    ASSUME BackupInv, AllFit, OneRestore, NEW o \in Ops, PsqlEnds(o)
    PROVE  AllFit'
<1> DEFINE p == op[o]
           q == [p EXCEPT !.psql = "ok", !.committed = (p.stdin = "commit"), !.drained = TRUE]
<1>1. /\ p.pc = "pipe" /\ p.psql = "run"
      /\ db' = IF p.stdin = "commit" THEN Restored(o) ELSE db
      /\ op' = [op EXCEPT ![o] = q]
  BY DEF PsqlEnds, Set
<1>2. p \in OpType /\ Holds(p) /\ op \in [Ops -> OpType]
  BY DEF BackupInv, Sound
<1>3. /\ q.pc = "pipe" /\ q.kind = p.kind /\ q.dump = p.dump /\ q.warned = p.warned
      /\ q.committed = (p.stdin = "commit")
  BY <1>1, <1>2 DEF OpType
<1>4. p.kind = "restore" /\ (p.warned \/ p.dump.drizzle)
  BY <1>1, <1>2 DEF Holds
<1>5. p.stdin = "commit" /\ ~p.warned => db'.schema = p.dump.schema /\ db'.level = p.dump.level
  BY <1>1, <1>4 DEF Restored
<1>6. ASSUME NEW r \in Ops, r # o
      PROVE  op'[r] = op[r] /\ ~Telling(op[r])
  BY <1>1, <1>2, <1>4, <1>6 DEF OneRestore, Restoring, Telling
<1> HIDE DEF p, q
<1>7. op'[o] = q
  BY <1>1, <1>2
<1> SUFFICES ASSUME NEW r \in Ops PROVE Fits(op[r])'
  BY DEF AllFit
<1>8. CASE r = o
  <2>1. q.committed /\ ~q.warned => db'.schema = q.dump.schema /\ db'.level = q.dump.level
    BY <1>3, <1>5
  <2>2. op'[r].pc = "pipe" /\ op'[r] = q
    BY <1>3, <1>7, <1>8
  <2> QED BY <2>1, <2>2 DEF Fits
<1>9. CASE r # o
  BY <1>6, <1>9 DEF Fits, Telling
<1> QED BY <1>8, <1>9

LEMMA MigrateFits ==
    ASSUME BackupInv, AllFit, OneRestore, NEW o \in Ops, Migrate(o)
    PROVE  AllFit'
<1>1. /\ op[o].pc = "migrate" /\ op[o] \in OpType /\ Holds(op[o]) /\ op[o].kind = "restore"
      /\ Fits(op[o]) /\ db \in Database /\ op \in [Ops -> OpType]
      /\ Build \in Nat
  BY BackupAssumption DEF Migrate, BackupInv, Sound, Holds, AllFit
<1>2. CASE db' = Migrated /\ OpGoes(o, "audit")
  <2>1. /\ op'[o].pc = "audit" /\ op'[o].kind = "restore" /\ op'[o].dump = op[o].dump
        /\ op'[o].warned = op[o].warned
    BY <1>1, <1>2 DEF OpGoes, OpType
  <2>2. ASSUME NEW r \in Ops, r # o
        PROVE  op'[r] = op[r] /\ ~Telling(op[r])
    BY <1>1, <1>2, <2>2 DEF OpGoes, OneRestore, Restoring, Telling
  <2>3. db.schema \in 0..Build /\ db.level \in Nat
    BY <1>1 DEF Database
  <2>4. db.schema = db.level => db'.schema = Build
    BY <1>1, <1>2, <2>3 DEF Migrated, Database
  <2>5. ASSUME NEW r \in Ops PROVE Fits(op[r])'
    <3>1. CASE r = o
      BY <1>1, <2>1, <2>4, <3>1 DEF Fits
    <3>2. CASE r # o
      BY <2>2, <3>2 DEF Fits, Telling
    <3> QED BY <3>1, <3>2
  <2> QED BY <2>5 DEF AllFit
<1>3. CASE Set(o, [op[o] EXCEPT !.pc = "audit", !.warned = TRUE]) /\ UNCHANGED db
  <2> DEFINE p == [op[o] EXCEPT !.pc = "audit", !.warned = TRUE]
  <2>1. p.warned
    BY <1>1 DEF OpType
  <2> HIDE DEF p
  <2>2. Set(o, p)
    BY <1>3 DEF p
  <2> QED BY <1>3, <2>1, <2>2, QuietOp DEF Fits
<1> QED BY <1>2, <1>3 DEF Migrate

\* A step that leaves a request's part in the restore, its dump and its warning
\* as they are tells nothing new.
LEMMA SameStory ==
    ASSUME BackupInv, AllFit, NEW o \in Ops, NEW p, Set(o, p), UNCHANGED db,
           p.kind = op[o].kind, p.dump = op[o].dump, op[o].warned => p.warned,
           \/ p.pc \notin {"pipe", "finally", "migrate", "audit"}
           \/ p.pc \in {"pipe", "finally"} /\ ~p.committed
           \/ /\ op[o].pc \in {"pipe", "finally"} /\ p.pc \in {"pipe", "finally"}
              /\ p.committed = op[o].committed
    PROVE  AllFit'
<1>1. Fits(op[o])
  BY DEF AllFit
<1>2. Telling(p) => Fits(p)
  BY <1>1 DEF Telling, Fits
<1> QED BY <1>2, QuietOp

LEMMA MovesFit ==
    ASSUME BackupInv, AllFit, NEW o \in Ops, NEW pc \in OpPc, OpGoes(o, pc), UNCHANGED db,
           \/ pc \notin {"pipe", "finally", "migrate", "audit"}
           \/ pc \in {"pipe", "finally"} /\ ~op[o].committed
           \/ op[o].pc \in {"pipe", "finally"} /\ pc \in {"pipe", "finally"}
    PROVE  AllFit'
<1> DEFINE p == [op[o] EXCEPT !.pc = pc]
<1>1. op[o] \in OpType
  BY DEF BackupInv
<1>2. /\ p.pc = pc /\ p.kind = op[o].kind /\ p.dump = op[o].dump
      /\ p.warned = op[o].warned /\ p.committed = op[o].committed
  BY <1>1 DEF OpType
<1>3. Set(o, p)
  BY DEF OpGoes, Set
<1> HIDE DEF p
<1> QED BY <1>2, <1>3, SameStory

LEMMA AnswersFit ==
    ASSUME BackupInv, AllFit, NEW o \in Ops, NEW what, Answer(o, what), UNCHANGED db
    PROVE  AllFit'
<1> DEFINE p == [NewOp EXCEPT !.pc = what, !.committed = op[o].committed]
<1>1. p.kind = "none"
  BY DEF NewOp
<1>2. Set(o, p)
  BY DEF Answer
<1> HIDE DEF p
<1> QED BY <1>1, <1>2, QuietOp DEF Telling

\* Before the pipe a request has nothing to tell.
LEMMA EarlyFits ==
    ASSUME BackupInv, AllFit, NEW o \in Ops,
           \/ StartCreate(o) \/ SafetyDump(o) \/ DumpFails(o) \/ DumpEnds(o)
           \/ StartImport(o) \/ Adopt(o) \/ CopyEnds(o) \/ StartRestore(o)
    PROVE  AllFit'
<1>u. UNCHANGED db
  BY DEF StartCreate, SafetyDump, Snapshot, DumpFails, DumpEnds, StartImport, Adopt, CopyEnds,
         StartRestore
<1>s. ASSUME NEW p, Set(o, p), p.pc \notin {"pipe", "finally", "migrate", "audit"}
      PROVE  AllFit'
  BY <1>u, <1>s, QuietOp DEF Telling
<1>1. CASE StartCreate(o) \/ SafetyDump(o)
  <2> DEFINE new == [NewOp EXCEPT !.kind = "create"]
  <2>1. op[o] \in OpType /\ new \in OpType /\ op \in [Ops -> OpType]
    BY DEF BackupInv, NewOp, OpType, OpPc
  <2>2. Snapshot(o, op[o]) \/ Snapshot(o, new)
    BY <1>1 DEF StartCreate, SafetyDump
  <2> HIDE DEF new
  <2>3. ASSUME NEW p \in OpType, Snapshot(o, p)
        PROVE  op'[o].pc = "dumping" /\ Set(o, op'[o])
    <3>1. PICK n \in Names :
            op' = [op EXCEPT ![o] = [p EXCEPT !.pc = "dumping", !.own = n, !.saved = DumpOf(db)]]
      BY <2>3 DEF Snapshot, Set, FreshNames
    <3>2. [p EXCEPT !.pc = "dumping", !.own = n, !.saved = DumpOf(db)].pc = "dumping"
      BY <2>3 DEF OpType
    <3> QED BY <2>1, <3>1, <3>2 DEF Set
  <2> QED BY <1>s, <2>1, <2>2, <2>3
<1>2. CASE DumpFails(o) \/ CopyEnds(o)
  BY <1>u, <1>2, AnswersFit DEF DumpFails, CopyEnds
<1>3. CASE DumpEnds(o)
  BY <1>u, <1>3, AnswersFit, MovesFit DEF DumpEnds, OpPc
<1>4. CASE Adopt(o)
  BY <1>u, <1>4, AnswersFit, MovesFit DEF Adopt, OpPc
<1>5. CASE StartImport(o)
  <2>1. PICK u \in Uploads, n \in Names :
          \/ Set(o, [NewOp EXCEPT !.pc = "adopt", !.kind = "import", !.name = n, !.dump = u])
          \/ Set(o, [NewOp EXCEPT !.pc = "failed"])
    BY <1>5 DEF StartImport
  <2>2. /\ [NewOp EXCEPT !.pc = "adopt", !.kind = "import", !.name = n, !.dump = u].pc = "adopt"
        /\ [NewOp EXCEPT !.pc = "failed"].pc = "failed"
    BY DEF NewOp
  <2> QED BY <1>s, <2>1, <2>2
<1>6. CASE StartRestore(o)
  <2>1. PICK n \in Names :
          \/ Set(o, [NewOp EXCEPT !.pc = "snapshot", !.kind = "restore", !.name = n,
                                  !.dump = shelf[n], !.warned = ~shelf[n].drizzle])
          \/ Set(o, [NewOp EXCEPT !.pc = "failed"])
    BY <1>6 DEF StartRestore
  <2>2. /\ [NewOp EXCEPT !.pc = "snapshot", !.kind = "restore", !.name = n,
                         !.dump = shelf[n], !.warned = ~shelf[n].drizzle].pc = "snapshot"
        /\ [NewOp EXCEPT !.pc = "failed"].pc = "failed"
    BY DEF NewOp
  <2> QED BY <1>s, <2>1, <2>2
<1> QED BY <1>1, <1>2, <1>3, <1>4, <1>5, <1>6

LEMMA PipeFits ==
    ASSUME BackupInv, AllFit, NEW o \in Ops,
           \/ Pause(o) \/ Spawn(o) \/ RestoreWrites(o) \/ RestoreExits(o) \/ PsqlLocks(o)
           \/ PsqlReads(o) \/ PsqlFails(o) \/ Finish(o)
    PROVE  AllFit'
<1> DEFINE p == op[o]
<1>u. UNCHANGED db
  BY DEF Pause, Spawn, RestoreWrites, RestoreExits, PsqlLocks, PsqlReads, PsqlFails, Finish
<1>t. p \in OpType
  BY DEF BackupInv
<1>s. Flow(p)
  BY DEF BackupInv, Sound
<1>1. CASE Pause(o)
  <2>1. CASE OpGoes(o, "spawn")
    BY <1>u, <2>1, MovesFit DEF OpPc
  <2>2. CASE Set(o, [op[o] EXCEPT !.pc = "spawn", !.warned = TRUE])
    <3> DEFINE q == [p EXCEPT !.pc = "spawn", !.warned = TRUE]
    <3>1. q.pc = "spawn" /\ Set(o, q)
      BY <1>t, <2>2 DEF OpType
    <3> HIDE DEF q
    <3> QED BY <1>u, <3>1, QuietOp DEF Telling
  <2> QED BY <1>1, <2>1, <2>2 DEF Pause
<1>2. CASE Spawn(o)
  <2>0. ~op[o].committed
    BY <1>s, <1>2 DEF Spawn, Flow
  <2>1. CASE OpGoes(o, "pipe")
    BY <1>u, <2>0, <2>1, MovesFit DEF OpPc
  <2>2. CASE Set(o, [op[o] EXCEPT !.pc = "finally", !.restore = "bad"])
    <3> DEFINE q == [p EXCEPT !.pc = "finally", !.restore = "bad"]
    <3>1. /\ q.pc = "finally" /\ ~q.committed /\ q.kind = p.kind /\ q.dump = p.dump
          /\ q.warned = p.warned
      BY <1>t, <2>0 DEF OpType
    <3>2. Set(o, q)
      BY <2>2
    <3> HIDE DEF q
    <3> QED BY <1>u, <3>1, <3>2, SameStory
  <2> QED BY <1>2, <2>1, <2>2 DEF Spawn
<1>3. CASE RestoreWrites(o) \/ RestoreExits(o) \/ PsqlReads(o) \/ PsqlFails(o)
  <2> DEFINE q == op'[o]
  <2>o. op \in [Ops -> OpType]
    BY DEF BackupInv
  <2>1. /\ Set(o, q)
        /\ q.pc = p.pc /\ q.kind = p.kind /\ q.dump = p.dump
        /\ q.warned = p.warned /\ q.committed = p.committed
    <3>1. CASE RestoreWrites(o)
      BY <1>t, <2>o, <3>1 DEF RestoreWrites, OpType, Set
    <3>2. CASE RestoreExits(o)
      BY <1>t, <2>o, <3>2 DEF RestoreExits, OpType, Set
    <3>3. CASE PsqlReads(o)
      BY <1>t, <2>o, <3>3 DEF PsqlReads, OpType, Set
    <3>4. CASE PsqlFails(o)
      BY <1>t, <2>o, <3>4 DEF PsqlFails, OpType, Set
    <3> QED BY <1>3, <3>1, <3>2, <3>3, <3>4
  <2> HIDE DEF q
  <2>2. p.pc = "pipe"
    BY <1>3 DEF RestoreWrites, RestoreExits, PsqlReads, PsqlFails
  <2> QED BY <1>u, <2>1, <2>2, SameStory
<1>4. CASE PsqlLocks(o)
  BY <1>u, <1>4 DEF PsqlLocks, AllFit, Fits
<1>5. CASE Finish(o)
  BY <1>u, <1>5, MovesFit DEF Finish, OpPc
<1> QED BY <1>1, <1>2, <1>3, <1>4, <1>5

LEMMA FinallyFits ==
    ASSUME BackupInv, AllFit, NEW o \in Ops, Finally(o)
    PROVE  AllFit'
<1>u. UNCHANGED db
  BY DEF Finally
<1>1. CASE Resolved(o)
  <2>1. PICK recycled \in BOOLEAN :
          Set(o, [NewOp EXCEPT !.pc = "migrate", !.kind = "restore", !.dump = op[o].dump,
                               !.pool = recycled, !.committed = TRUE,
                               !.warned = op[o].warned \/ ~recycled])
    BY <1>1 DEF Finally
  <2> DEFINE p == [NewOp EXCEPT !.pc = "migrate", !.kind = "restore", !.dump = op[o].dump,
                                !.pool = recycled, !.committed = TRUE,
                                !.warned = op[o].warned \/ ~recycled]
  <2>2. /\ p.pc = "migrate" /\ p.kind = "restore" /\ p.dump = op[o].dump
        /\ op[o].warned => p.warned
    BY DEF NewOp
  <2>3. Set(o, p)
    BY <2>1
  <2> HIDE DEF p
  <2>4. /\ Fits(op[o]) /\ op[o].pc = "finally" /\ op[o].committed /\ op[o].kind = "restore"
    BY <1>1 DEF AllFit, BackupInv, Sound, Flow, Holds, Resolved, Finally
  <2>5. Fits(p)
    BY <2>2, <2>4 DEF Fits
  <2> QED BY <1>u, <2>3, <2>5, QuietOp
<1>2. CASE ~Resolved(o)
  <2>1. Answer(o, "failed")
    BY <1>2 DEF Finally
  <2> QED BY <1>u, <2>1, AnswersFit
<1> QED BY <1>1, <1>2

LEMMA AuditFits ==
    ASSUME BackupInv, AllFit, NEW o \in Ops, AuditRestore(o)
    PROVE  AllFit'
<1>1. PICK pc \in {"done", "error"} : OpGoes(o, pc)
  BY DEF AuditRestore, OpGoes, Set
<1> QED BY <1>1, MovesFit DEF AuditRestore, OpPc

LEMMA EveryoneElseFits ==
    ASSUME BackupInv, AllFit, (\E n \in Names : DeleteBackup(n)) \/ Sweep \/ Write \/ Crash
    PROVE  AllFit'
<1>1. CASE Crash
  <2>1. \A o \in Ops : op'[o].kind = "none"
    BY <1>1 DEF Crash, NewOp
  <2> QED BY <2>1 DEF AllFit, Fits
<1>2. CASE ~Crash
  <2>1. UNCHANGED op /\ db'.schema = db.schema /\ db'.level = db.level
    BY <1>2 DEF DeleteBackup, Sweep, Write, BackupInv, Database
  <2> QED BY <2>1 DEF AllFit, Fits
<1> QED BY <1>1, <1>2

\* A restore that ends without a warning leaves the tables at the level of this
\* build, for any dump that labels its own tables rightly, as long as restores
\* are taken one at a time (restoreBackup and applyMigrations).  What else is at
\* work, and what dies, makes no difference.
THEOREM RestoresFitTheBuild == BackupSpec /\ []OneRestore => SchemaFitsBuild
<1>1. BackupInit => AllFit
  BY DEF BackupInit, AllFit, Fits, NewOp
<1>2. ASSUME BackupInv, AllFit, OneRestore, [BackupNext]_backupVars
      PROVE  AllFit'
  <2>1. CASE \E o \in Ops : StartCreate(o) \/ DumpFails(o) \/ DumpEnds(o)
                           \/ StartImport(o) \/ Adopt(o) \/ CopyEnds(o)
    BY <1>2, <2>1, EarlyFits
  <2>2. CASE \E o \in Ops : Restore(o)
    BY <1>2, <2>2, EarlyFits, PipeFits, CommitFits, FinallyFits, MigrateFits, AuditFits
       DEF Restore, Pipe
  <2>3. CASE UNCHANGED backupVars
    BY <1>2, <2>3 DEF backupVars, AllFit, Fits
  <2> QED BY <1>2, <2>1, <2>2, <2>3, EveryoneElseFits DEF BackupNext
<1>3. BackupInv /\ AllFit /\ [BackupNext]_backupVars =>
        [\A o \in Ops :
            /\ op[o].pc = "audit" /\ op'[o].pc = "done" /\ ~op[o].warned
            /\ op[o].dump.schema = op[o].dump.level
            => db.schema = Build]_backupVars
  BY DEF BackupInv, Sound, Holds, AllFit, Fits
<1> QED BY <1>1, <1>2, <1>3, BackupInvariant, PTL DEF BackupSpec, SchemaFitsBuild

=============================================================================
