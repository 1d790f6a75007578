------------------------------ MODULE PdfStore ------------------------------
(***************************************************************************)
(* The stored copies of one source PDF: the files under                    *)
(* uploads/<yyyy>/<mm>/<hash>.pdf, the statement rows that point at them,  *)
(* and the requests and the nightly sweep that keep both in step           *)
(* (services/upload-storage.ts, statements.ts, pdf-retention.ts).          *)
(*                                                                         *)
(* A path holds the content hash, so PDFs of other contents never meet     *)
(* these files and one hash stands for all; a path is then the month it    *)
(* names.  Each await that reads or writes a row or a file is a step.      *)
(***************************************************************************)
EXTENDS Naturals, FiniteSets

CONSTANTS
    Owners,        \* the accounts the PDF is uploaded to, numbered from 1
    MaxStatements, \* bound: statement rows ever inserted
    MaxDay,        \* bound: the last day
    MonthDays,     \* days to a month
    Window,        \* pdf.retention.days
    MaxAccidents,  \* bound: failed unlinks and dead requests
    Slots,         \* requests that may be under way at once
    Mingle,        \* the kinds of request that may overlap (others run alone)
    SplitPurged    \* do operators split a statement whose PDF is gone?

Request == {"upload", "split", "reextract", "deletePdf", "delete", "sweep"}

ASSUME StoreAssumption ==
    /\ Owners \subseteq Nat \ {0}
    /\ MaxStatements \in Nat /\ MaxDay \in Nat \ {0} /\ MonthDays \in Nat \ {0}
    /\ Window \in Nat \ {0} /\ MaxAccidents \in Nat
    /\ Mingle \subseteq Request /\ SplitPurged \in BOOLEAN

Days == 1..MaxDay
Never == 0
Ids == 1..MaxStatements
MonthOf(d) == (d - 1) \div MonthDays + 1
Paths == {MonthOf(d) : d \in Days}

VARIABLES
    day,       \* the clock
    file,      \* each path's modification day, Never when nothing is there
    row,       \* the statements table; ids are given out in order of creation
    slot,      \* the requests under way
    accidents  \* failed unlinks and dead requests so far

storeVars == <<day, file, row, slot, accidents>>

Pc == {"store", "insert", "restore", "spawn", "unlink", "flag", "drop", "refs",
       "discard", "inuse", "next", "stat", "purge", "purged"}

NoRow == [state |-> "unused", account |-> 0, whole |-> TRUE, path |-> 1,
          gone |-> FALSE, born |-> 1, busy |-> FALSE]
Idle == [kind |-> "none", pc |-> "idle", stmt |-> 0, account |-> 0, path |-> 1,
         gone |-> FALSE, left |-> 0, cutoff |-> 0, todo |-> {}, used |-> {}, missed |-> {}]

StoreTypeOK ==
    /\ day \in Days
    /\ file \in [Paths -> Days \cup {Never}]
    /\ row \in [Ids -> [state : {"unused", "live", "deleted"},
                        account : Owners \cup {0}, whole : BOOLEAN,
                        path : Paths, gone : BOOLEAN, born : Days, busy : BOOLEAN]]
    /\ slot \in [Slots -> [kind : Request \cup {"none"}, pc : Pc \cup {"idle"},
                           stmt : Ids \cup {0}, account : Owners \cup {0},
                           path : Paths, gone : BOOLEAN, left : 0..2, cutoff : 0..MaxDay,
                           todo : SUBSET Paths, used : SUBSET Paths,
                           missed : SUBSET Paths]]
    /\ accidents \in Nat

StoreInit ==
    /\ day = 1
    /\ file = [p \in Paths |-> Never]
    /\ row = [s \in Ids |-> NoRow]
    /\ slot = [r \in Slots |-> Idle]
    /\ accidents = 0

-----------------------------------------------------------------------------
Live == {s \in Ids : row[s].state = "live"}
Unused == {s \in Ids : row[s].state = "unused"}
Holders(p) == {s \in Live : ~row[s].gone /\ row[s].path = p}

Quiet == \A r \in Slots : slot[r].pc = "idle"
\* May a request of this kind begin?
Free(r, kind) ==
    /\ slot[r].pc = "idle"
    /\ \A other \in Slots :
          slot[other].pc # "idle" => {kind, slot[other].kind} \subseteq Mingle
\* The bound on rows: n more fit beside those the uploads under way will insert.
Room(n) ==
    Cardinality(Unused) >= n + Cardinality({r \in Slots : slot[r].kind = "upload"})

RequestGoes(r, pc) == slot' = [slot EXCEPT ![r].pc = pc]
RequestEnds(r) == slot' = [slot EXCEPT ![r] = Idle]

\* The row an upload to the account deduplicates to, if any: its whole-PDF
\* row, else its oldest slice.
findByAccountAndHash(a) ==
    LET mine == {s \in Live : row[s].account = a}
        Before(t, s) == \/ row[t].whole /\ ~row[s].whole
                        \/ row[t].whole = row[s].whole /\ t < s
    IN  {s \in mine : \A t \in mine : ~Before(t, s)}

Insert(a, whole, p) ==
    \E s \in Unused :
        /\ \A u \in Unused : s <= u
        /\ row' = [row EXCEPT ![s] =
                     [state |-> "live", account |-> a, whole |-> whole, path |-> p,
                      gone |-> FALSE, born |-> day, busy |-> TRUE]]

\* An unlink that succeeds or finds nothing there, and one that cannot remove.
Removed(p) == file' = [file EXCEPT ![p] = Never]
Stays(p) ==
    /\ file[p] # Never
    /\ accidents < MaxAccidents
    /\ accidents' = accidents + 1
    /\ UNCHANGED file

\* Mutant: only the rows of whole PDFs are flagged.
FlagWholeRows(p) ==
    row' = [s \in Ids |-> IF s \in Holders(p) /\ row[s].whole
                          THEN [row[s] EXCEPT !.gone = TRUE] ELSE row[s]]

flagStatementsUsingPath(p) ==
    row' = [s \in Ids |-> IF s \in Holders(p) THEN [row[s] EXCEPT !.gone = TRUE]
                                              ELSE row[s]]

-----------------------------------------------------------------------------
(* POST /api/accounts/:accountId/uploads *)

\* The look-up before anything is written; a row that has its PDF ends it.
StartUpload(r, a) ==
    /\ Free(r, "upload") /\ Room(1)
    /\ \A s \in findByAccountAndHash(a) : row[s].gone
    /\ slot' = [slot EXCEPT ![r] =
          [Idle EXCEPT !.kind = "upload", !.pc = "store", !.account = a,
                       !.gone = findByAccountAndHash(a) # {}]]
    /\ UNCHANGED <<day, file, row, accidents>>

\* storePdf leaves a file that is there alone, modification time included.
storePdf(r) ==
    /\ slot[r].pc = "store"
    /\ LET p == MonthOf(day)
       IN  /\ file' = [file EXCEPT ![p] = IF @ = Never THEN day ELSE @]
           /\ slot' = [slot EXCEPT
                ![r].path = p,
                ![r].pc = IF slot[r].gone THEN "restore" ELSE "insert"]
    /\ UNCHANGED <<day, row, accidents>>

\* INSERT ... ON CONFLICT DO NOTHING: a whole-PDF row of the account that came
\* in between is the statement, and gets its PDF back if it lost it.  (Its
\* re-read is one step with the insert.)
ingestUpload(r) ==
    /\ slot[r].pc = "insert"
    /\ LET clash == {s \in Live : row[s].account = slot[r].account /\ row[s].whole}
       IN  \/ /\ clash = {}
              /\ Insert(slot[r].account, TRUE, slot[r].path)
              /\ RequestEnds(r)
           \/ /\ clash # {}
              /\ IF \E s \in clash : row[s].gone THEN RequestGoes(r, "restore")
                 ELSE RequestEnds(r)
              /\ UNCHANGED row
    /\ UNCHANGED <<day, file, accidents>>

\* Every row of the content that lost its file is pointed at the new copy.
restoreDeletedSourcePdf(r) ==
    /\ slot[r].pc = "restore"
    /\ row' = [s \in Ids |->
          IF s \in Live /\ row[s].gone
          THEN [row[s] EXCEPT !.path = slot[r].path, !.gone = FALSE]
          ELSE row[s]]
    /\ RequestEnds(r)
    /\ UNCHANGED <<day, file, accidents>>

-----------------------------------------------------------------------------
(* POST /api/statements/:id/split and /re-extract; the worker *)

\* The parent becomes a failed audit marker; its children read its file.
StartSplit(r, s) ==
    /\ Free(r, "split") /\ Room(2)
    /\ s \in Live
    /\ row[s].gone => SplitPurged
    /\ row' = [row EXCEPT ![s].busy = FALSE]
    /\ slot' = [slot EXCEPT ![r] = [Idle EXCEPT !.kind = "split", !.pc = "spawn",
                                               !.path = row[s].path, !.left = 2]]
    /\ UNCHANGED <<day, file, accidents>>

SpawnChild(r, a) ==
    /\ slot[r].pc = "spawn"
    /\ Insert(a, FALSE, slot[r].path)
    /\ IF slot[r].left = 1 THEN RequestEnds(r)
                           ELSE slot' = [slot EXCEPT ![r].left = 1]
    /\ UNCHANGED <<day, file, accidents>>

ReExtract(r, s) ==
    /\ Free(r, "reextract")
    /\ s \in Live /\ ~row[s].gone /\ ~row[s].busy
    /\ row' = [row EXCEPT ![s].busy = TRUE]
    /\ UNCHANGED <<day, file, slot, accidents>>

ExtractionEnds(s) ==
    /\ s \in Live /\ row[s].busy
    /\ row' = [row EXCEPT ![s].busy = FALSE]
    /\ UNCHANGED <<day, file, slot, accidents>>

-----------------------------------------------------------------------------
(* POST /api/statements/:id/delete-pdf and DELETE /api/statements/:id *)

\* A row already flagged is a no-op: its path may hold a newer upload.
StartDeletePdf(r, s) ==
    /\ Free(r, "deletePdf")
    /\ s \in Live /\ ~row[s].gone
    /\ slot' = [slot EXCEPT ![r] = [Idle EXCEPT !.kind = "deletePdf",
                                      !.pc = "unlink", !.path = row[s].path]]
    /\ UNCHANGED <<day, file, row, accidents>>

deletePdfForStatement(r) ==
    /\ slot[r].pc = "unlink"
    /\ \/ Removed(slot[r].path) /\ RequestGoes(r, "flag") /\ UNCHANGED accidents
       \/ Stays(slot[r].path) /\ RequestEnds(r)
    /\ UNCHANGED <<day, row>>

FlagDeleted(r) ==
    /\ slot[r].pc = "flag"
    /\ flagStatementsUsingPath(slot[r].path)
    /\ RequestEnds(r)
    /\ UNCHANGED <<day, file, accidents>>

StartDelete(r, s) ==
    /\ Free(r, "delete")
    /\ s \in Live
    /\ slot' = [slot EXCEPT ![r] =
          [Idle EXCEPT !.kind = "delete", !.pc = "drop", !.stmt = s,
                       !.path = row[s].path, !.gone = row[s].gone]]
    /\ UNCHANGED <<day, file, row, accidents>>

\* Mutant: the row goes, its file stays.
DropStatementOnly(r) ==
    /\ slot[r].pc = "drop"
    /\ row' = [row EXCEPT ![slot[r].stmt] = [NoRow EXCEPT !.state = "deleted"]]
    /\ RequestEnds(r)
    /\ UNCHANGED <<day, file, accidents>>

DropStatement(r) ==
    /\ slot[r].pc = "drop"
    /\ row' = [row EXCEPT ![slot[r].stmt] = [NoRow EXCEPT !.state = "deleted"]]
    /\ IF slot[r].gone THEN RequestEnds(r) ELSE RequestGoes(r, "refs")
    /\ UNCHANGED <<day, file, accidents>>

\* Mutant: the file goes with the row, whoever else reads it.
NeverReferenced(r) ==
    /\ slot[r].pc = "refs"
    /\ RequestGoes(r, "discard")
    /\ UNCHANGED <<day, file, row, accidents>>

StillReferenced(r) ==
    /\ slot[r].pc = "refs"
    /\ IF Holders(slot[r].path) = {} THEN RequestGoes(r, "discard") ELSE RequestEnds(r)
    /\ UNCHANGED <<day, file, row, accidents>>

\* Whatever this unlink runs into is swallowed.
DiscardFile(r) ==
    /\ slot[r].pc = "discard"
    /\ \/ Removed(slot[r].path) /\ UNCHANGED accidents
       \/ Stays(slot[r].path)
    /\ RequestEnds(r)
    /\ UNCHANGED <<day, row>>

-----------------------------------------------------------------------------
(* runRetentionSweep: the nightly job and the admin's "Run now" *)

Expired(s, cutoff) == s \in Live /\ ~row[s].gone /\ row[s].born < cutoff
\* Mutant: statements under extraction do not count.
InUseByAge(s, cutoff) == s \in Live /\ ~row[s].gone /\ row[s].born >= cutoff

InUse(s, cutoff) == s \in Live /\ ~row[s].gone /\ (row[s].born >= cutoff \/ row[s].busy)

\* Mutant: the window is added, not subtracted.
StartSweepAhead(r) ==
    /\ Free(r, "sweep")
    /\ day > Window
    /\ slot' = [slot EXCEPT ![r] =
          [Idle EXCEPT !.kind = "sweep", !.pc = "inuse", !.cutoff = day + Window,
             !.todo = {row[s].path : s \in {t \in Ids : Expired(t, day + Window)}}]]
    /\ UNCHANGED <<day, file, row, accidents>>

StartSweep(r) ==
    /\ Free(r, "sweep")
    /\ day > Window
    /\ slot' = [slot EXCEPT ![r] =
          [Idle EXCEPT !.kind = "sweep", !.pc = "inuse", !.cutoff = day - Window,
             !.todo = {row[s].path : s \in {t \in Ids : Expired(t, day - Window)}}]]
    /\ UNCHANGED <<day, file, row, accidents>>

ReadInUse(r) ==
    /\ slot[r].pc = "inuse"
    /\ slot' = [slot EXCEPT ![r].pc = "next", ![r].used =
          {row[s].path : s \in {t \in Ids : InUse(t, slot[r].cutoff)}}]
    /\ UNCHANGED <<day, file, row, accidents>>

\* The next stored file, unless a statement still needs it.
NextFile(r, p) ==
    /\ slot[r].pc = "next"
    /\ p \in slot[r].todo
    /\ slot' = [slot EXCEPT ![r].todo = @ \ {p}, ![r].path = p,
          ![r].pc = IF p \in slot[r].used THEN "next" ELSE "stat"]
    /\ UNCHANGED <<day, file, row, accidents>>

\* A file stored within the window stays, however old its statements are.
storedSince(r) ==
    /\ slot[r].pc = "stat"
    /\ RequestGoes(r, IF file[slot[r].path] >= slot[r].cutoff THEN "next" ELSE "purge")
    /\ UNCHANGED <<day, file, row, accidents>>

PurgeFile(r) ==
    /\ slot[r].pc = "purge"
    /\ \/ Removed(slot[r].path) /\ RequestGoes(r, "purged") /\ UNCHANGED accidents
       \/ /\ Stays(slot[r].path)
          /\ slot' = [slot EXCEPT ![r].pc = "next", ![r].missed = @ \cup {slot[r].path}]
    /\ UNCHANGED <<day, row>>

FlagPurged(r) ==
    /\ slot[r].pc = "purged"
    /\ flagStatementsUsingPath(slot[r].path)
    /\ RequestGoes(r, "next")
    /\ UNCHANGED <<day, file, accidents>>

\* Mutant: a sweep may end with files left.
EndSweepEarly(r) ==
    /\ slot[r].pc = "next"
    /\ RequestEnds(r)
    /\ UNCHANGED <<day, file, row, accidents>>

EndSweep(r) ==
    /\ slot[r].pc = "next" /\ slot[r].todo = {}
    /\ RequestEnds(r)
    /\ UNCHANGED <<day, file, row, accidents>>

-----------------------------------------------------------------------------
\* The process under a request dies, or a query of it fails.
Die(r) ==
    /\ slot[r].pc # "idle"
    /\ accidents < MaxAccidents
    /\ accidents' = accidents + 1
    /\ RequestEnds(r)
    /\ UNCHANGED <<day, file, row>>

\* No request runs past midnight: they take seconds.
Midnight ==
    /\ Quiet
    /\ day < MaxDay
    /\ day' = day + 1
    /\ UNCHANGED <<file, row, slot, accidents>>

BeginRequest(r) ==
    \/ \E a \in Owners : StartUpload(r, a)
    \/ \E s \in Ids : \/ StartSplit(r, s) \/ ReExtract(r, s)
                      \/ StartDeletePdf(r, s) \/ StartDelete(r, s)
    \/ StartSweep(r)

Proceed(r) ==
    \/ storePdf(r) \/ ingestUpload(r) \/ restoreDeletedSourcePdf(r)
    \/ \E a \in Owners : SpawnChild(r, a)
    \/ deletePdfForStatement(r) \/ FlagDeleted(r)
    \/ DropStatement(r) \/ StillReferenced(r) \/ DiscardFile(r)
    \/ ReadInUse(r) \/ (\E p \in Paths : NextFile(r, p)) \/ storedSince(r)
    \/ PurgeFile(r) \/ FlagPurged(r) \/ EndSweep(r)

StoreNext ==
    \/ \E r \in Slots : BeginRequest(r) \/ Proceed(r) \/ Die(r)
    \/ \E s \in Ids : ExtractionEnds(s)
    \/ Midnight

StoreSpec == StoreInit /\ [][StoreNext]_storeVars
-----------------------------------------------------------------------------
Present(s) == file[row[s].path] # Never

\* With no request half-way and no accident so far, a statement that promises
\* its PDF has it on disk (statements.source_pdf_deleted).
FlagTellsDisk ==
    Quiet /\ accidents = 0 => \A s \in Live : ~row[s].gone => Present(s)

\* ... and a stored file belongs to some statement that has not been told it
\* is gone: nothing confidential stays behind that no delete can reach.
NoOrphanFile ==
    Quiet /\ accidents = 0 => \A p \in Paths : file[p] # Never => Holders(p) # {}

\* A statement without its PDF gets it back when the PDF is uploaded to its
\* account again: the upload does not stop at a row that looks complete, unless
\* the account holds the PDF a second time, under another month's path.  (There
\* it does stop: only the copies of one path come and go together.)
ReuploadHelps ==
    Quiet /\ accidents = 0 =>
        \A s \in Live : ~Present(s) \/ row[s].gone =>
            \A t \in findByAccountAndHash(row[s].account) :
                row[t].gone \/ row[t].path # row[s].path

\* Rows, files and re-uploads agree about which PDFs there are.
FlagsAndFilesAgree == StoreTypeOK /\ FlagTellsDisk /\ NoOrphanFile /\ ReuploadHelps

\* The sweep unlinks a file only when it was stored, and every statement that
\* reads it was created, before the window, and none is being extracted.
SweepSparesUsed ==
    [][\A r \in Slots, p \in Paths :
          slot[r].pc = "purge" /\ file[p] # Never /\ file'[p] = Never =>
              /\ file[p] < slot[r].cutoff
              /\ \A s \in Holders(p) : row[s].born < slot[r].cutoff /\ ~row[s].busy]_storeVars

\* Retention is kept: when a sweep ends, no statement from before the window
\* still has a PDF but for a younger user of the same file, an extraction, a
\* file stored since, or a failed unlink; accidents before it do not matter.
SweepPurges ==
    [][\A r \in Slots :
          EndSweep(r) =>
              \A s \in Ids : Expired(s, slot[r].cutoff) =>
                  \/ row[s].path \in slot[r].used \cup slot[r].missed
                  \/ file[row[s].path] >= slot[r].cutoff]_storeVars

\* The sweep deletes all that it must and nothing else.
SweepIsExact == SweepSparesUsed /\ SweepPurges

=============================================================================
