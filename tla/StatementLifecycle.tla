------------------------ MODULE StatementLifecycle ------------------------
(***************************************************************************)
(* The life of a statement row from upload to review, failure or deletion: *)
(* the row in Postgres, its BullMQ job, the extraction worker's runs       *)
(* (apps/api/src/jobs/extraction.worker.ts) and the operator requests that *)
(* interfere with them (routes/statements.ts, routes/uploads.ts).          *)
(*                                                                         *)
(* Every await of the code is a step: the worker's database writes and LLM *)
(* calls, and each request's queue call, DELETE and UPDATE, interleave     *)
(* freely.  A run is one execution of one job attempt, numbered in the     *)
(* order in which workers pick jobs up; its number also stands for the     *)
(* transaction rows it inserts and for the spend it bills.                 *)
(***************************************************************************)
EXTENDS Naturals, FiniteSets, ExtractionAttempt

CONSTANTS
    Statements,     \* the statement ids that uploads and splits may create
    MaxRuns,        \* bound: job executions in a behaviour
    MaxRequests,    \* bound: operator requests in a behaviour
    Kinds,          \* the requests operators send
    Costs,          \* what an attempt may cost (0: a local model)
    Outcomes,       \* the outcomes LLM attempts come back with
    Fallbacks,      \* input fallbacks the processing strategies allow
    MaxAttempts,    \* BullMQ `attempts` of the extraction queue (3)
    MaxStalled,     \* BullMQ maxStalledCount (its default, 1)
    MaxCrashes,     \* bound: worker crashes in a behaviour
    SplitWays,      \* children a split creates (at least 2)
    Overlap,        \* may requests overlap, or does each await the last?
    LockMayLapse,   \* may a live run lose its job lock (a blocked event loop)?
    ApiMayCrash     \* may a request die between two of its steps?

RequestKind == {"upload", "cancel", "reextract", "confirm", "split", "delete"}
Fallback == {"none", "ocr", "text"}

ASSUME LifecycleAssumption ==
    /\ MaxRuns \in Nat /\ MaxRequests \in Nat /\ MaxCrashes \in Nat
    /\ MaxAttempts \in Nat \ {0} /\ MaxStalled \in Nat
    /\ SplitWays \in Nat \ {0, 1}
    /\ Kinds \subseteq RequestKind
    /\ Outcomes \subseteq Outcome
    /\ Costs \subseteq Nat
    /\ Fallbacks \subseteq Fallback
    /\ Overlap \in BOOLEAN /\ LockMayLapse \in BOOLEAN /\ ApiMayCrash \in BOOLEAN

Runs == 1..MaxRuns
Requests == 1..MaxRequests
NoRun == 0

VARIABLES
    status,     \* statements.status; "unused" and "deleted" when there is no row
    message,    \* statements.error_message, by who wrote it
    verdict,    \* statements.reconciliation_status as extraction writes it
    format,     \* statements.source_date_format: none, ambiguous or one format
    confirmed,  \* statements.source_date_format_user_confirmed
    rows,       \* the runs whose results (their transaction rows) the statement holds
    ledger,     \* what each run has added to its statement's llm_cost_micros
    job,        \* state of the BullMQ job extract-<statement id>
    fails,      \* failed attempts of that job
    stalls,     \* times that job was found stalled
    holder,     \* the run that holds the job's lock
    run,        \* each run's program counter and locals
    req,        \* each request's program counter and locals
    crashes     \* worker crashes so far

rowVars == <<status, message, verdict, format, confirmed, rows>>
jobVars == <<job, fails, stalls, holder>>
vars == <<status, message, verdict, format, confirmed, rows, ledger,
          job, fails, stalls, holder, run, req, crashes>>

Status == {"unused", "uploaded", "preprocessing", "ocr", "extracting",
           "reconciling", "review", "awaiting-locale-confirmation", "failed",
           "deleted"}
Message == {"none", "error", "cancelled", "superseded"}
JobState == {"none", "waiting", "delayed", "active", "completed", "failed"}

\* How a run ends: "structural" is a PermanentExtractionError thrown outside an
\* LLM attempt (no text layer, the OCR page cap).
Ending == {"none", "cancelled", "transient", "permanent", "structural"}

\* The program counter names the await a run is about to pass.
Working == {"picked", "started", "routing", "markdown", "call", "second",
            "refeed", "remark", "hard", "halt", "settle", "totals", "commit",
            "post"}
Unwinding == {"catch", "recheck", "mark", "end"}
RunPc == {"idle", "done", "crashed"} \cup Working \cup Unwinding

RunState == [pc : RunPc, stmt : Statements \cup {NoRun}, attempt : 1..4,
             best : Outcome \cup {"none"}, transient : BOOLEAN,
             spent : Nat, persisted : BOOLEAN, override : BOOLEAN,
             secondary : BOOLEAN, fallback : Fallback, ending : Ending]

ReqPc == {"idle", "remove", "wipe", "mark", "reset", "enqueue", "drop",
          "spawn", "done"}
ReqState == [pc : ReqPc, kind : RequestKind, stmt : Statements \cup {NoRun},
             target : Statements \cup {NoRun}, left : Nat]

IdleRun == [pc |-> "idle", stmt |-> NoRun, attempt |-> 1, best |-> "none",
            transient |-> FALSE, spent |-> 0, persisted |-> FALSE,
            override |-> FALSE, secondary |-> FALSE, fallback |-> "none",
            ending |-> "none"]
IdleReq == [pc |-> "idle", kind |-> "upload", stmt |-> NoRun,
            target |-> NoRun, left |-> 0]

TypeOK ==
    /\ status \in [Statements -> Status]
    /\ message \in [Statements -> Message]
    /\ verdict \in [Statements -> {"pending", "verified", "discrepancy"}]
    /\ format \in [Statements -> {"none", "ambiguous", "known"}]
    /\ confirmed \in [Statements -> BOOLEAN]
    /\ rows \in [Statements -> SUBSET Runs]
    /\ ledger \in [Runs -> Nat]
    /\ job \in [Statements -> JobState]
    /\ fails \in [Statements -> Nat]
    /\ stalls \in [Statements -> Nat]
    /\ holder \in [Statements -> Runs \cup {NoRun}]
    /\ run \in [Runs -> RunState]
    /\ req \in [Requests -> ReqState]
    /\ crashes \in Nat

Init ==
    /\ status = [s \in Statements |-> "unused"]
    /\ message = [s \in Statements |-> "none"]
    /\ verdict = [s \in Statements |-> "pending"]
    /\ format = [s \in Statements |-> "none"]
    /\ confirmed = [s \in Statements |-> FALSE]
    /\ rows = [s \in Statements |-> {}]
    /\ ledger = [r \in Runs |-> 0]
    /\ job = [s \in Statements |-> "none"]
    /\ fails = [s \in Statements |-> 0]
    /\ stalls = [s \in Statements |-> 0]
    /\ holder = [s \in Statements |-> NoRun]
    /\ run = [r \in Runs |-> IdleRun]
    /\ req = [q \in Requests |-> IdleReq]
    /\ crashes = 0

-----------------------------------------------------------------------------
(* The statement row.                                                      *)

Exists(s) == status[s] \notin {"unused", "deleted"}

\* Mutant form: the UPDATE of setStatus without `status <> 'failed'`.
OpenIfExists(s) == Exists(s)

\* The WHERE of setStatus, of the halt and of finalizeJobFailure, and what
\* checkCancelled tests: the row is there and nobody failed it.
Open(s) == Exists(s) /\ status[s] # "failed"

\* Mutant form: the final UPDATE tests only that nobody failed the row.
CommittableIfOpen(s) == Open(s)

\* The WHERE of the final UPDATE.
Committable(s) == status[s] \in {"reconciling", "extracting"}

SetStatus(s, st) == status' = [status EXCEPT ![s] = st]

-----------------------------------------------------------------------------
(* BullMQ, as this code uses it: one job key per statement, a lock held by *)
(* the worker that runs it, retries, and the stalled-job check.            *)

JobLive(s) == job[s] \in {"waiting", "delayed", "active"}

\* Mutant form: a job id of its own for every enqueue.
AddRegardless(s) ==
    /\ job' = [job EXCEPT ![s] = "waiting"]
    /\ fails' = [fails EXCEPT ![s] = 0]
    /\ stalls' = [stalls EXCEPT ![s] = 0]

\* enqueueExtraction: add() with a job id that exists, in any state, is a no-op.
Add(s) ==
    IF job[s] = "none"
    THEN /\ job' = [job EXCEPT ![s] = "waiting"]
         /\ fails' = [fails EXCEPT ![s] = 0]
         /\ stalls' = [stalls EXCEPT ![s] = 0]
    ELSE UNCHANGED <<job, fails, stalls>>

\* job.remove() throws while a worker holds the job's lock.
Locked(s) == holder[s] # NoRun

\* A worker takes a waiting job and its lock.
PickJob(r, s) ==
    /\ run[r].pc = "idle"
    /\ \A k \in 1..(r - 1) : run[k].pc # "idle"
    /\ job[s] = "waiting"
    /\ job' = [job EXCEPT ![s] = "active"]
    /\ holder' = [holder EXCEPT ![s] = r]
    /\ run' = [run EXCEPT ![r].pc = "picked", ![r].stmt = s]
    /\ UNCHANGED <<rowVars, ledger, fails, stalls, req, crashes>>

\* The backoff of a failed attempt elapses.
Promote(s) ==
    /\ job[s] = "delayed"
    /\ job' = [job EXCEPT ![s] = "waiting"]
    /\ UNCHANGED <<rowVars, ledger, fails, stalls, holder, run, req, crashes>>

\* The lock of a crashed worker, or of one that cannot renew it, expires.
LockExpires(s) ==
    /\ Locked(s)
    /\ LockMayLapse \/ run[holder[s]].pc = "crashed"
    /\ holder' = [holder EXCEPT ![s] = NoRun]
    /\ UNCHANGED <<rowVars, ledger, job, fails, stalls, run, req, crashes>>

\* The stalled-job check: an active job without a lock is queued again, and
\* failed once it has stalled more than maxStalledCount times.
RequeueStalled(s) ==
    /\ job[s] = "active" /\ ~Locked(s)
    /\ stalls' = [stalls EXCEPT ![s] = @ + 1]
    /\ job' = [job EXCEPT ![s] = IF stalls[s] < MaxStalled THEN "waiting" ELSE "failed"]
    /\ UNCHANGED <<rowVars, ledger, fails, holder, run, req, crashes>>

\* removeOnComplete / removeOnFail: finished jobs of other statements push this
\* one out of the retained set.
Evict(s) ==
    /\ job[s] \in {"completed", "failed"}
    /\ job' = [job EXCEPT ![s] = "none"]
    /\ UNCHANGED <<rowVars, ledger, fails, stalls, holder, run, req, crashes>>

Queue ==
    \E s \in Statements :
        Promote(s) \/ LockExpires(s) \/ RequeueStalled(s) \/ Evict(s)

-----------------------------------------------------------------------------
(* The extraction worker.                                                  *)

Stmt(r) == run[r].stmt

Goto(r, pc) == run' = [run EXCEPT ![r].pc = pc]

\* An exception leaves the try block of processExtraction: what the attempts
\* came to no longer matters, only whether one failed transiently.
Throw(r, ending) ==
    run' = [run EXCEPT ![r] = [IdleRun EXCEPT
                !.pc = "catch", !.ending = ending, !.stmt = run[r].stmt,
                !.transient = run[r].transient, !.spent = run[r].spent,
                !.persisted = run[r].persisted]]

\* The job or the process is over: only the spend is of interest.
Leave(r, pc) ==
    run' = [run EXCEPT ![r] = [IdleRun EXCEPT
                !.pc = pc, !.stmt = run[r].stmt, !.spent = run[r].spent]]

\* An UPDATE guarded like setStatus: it moves the row to `st` and the run to
\* `pc`, or matches no row and throws CancelledError.
Guarded(r, st, pc) ==
    IF Open(Stmt(r))
    THEN SetStatus(Stmt(r), st) /\ Goto(r, pc)
    ELSE Throw(r, "cancelled") /\ UNCHANGED status

\* Add this run's spend to llm_cost_micros; a missing row updates nothing.
Bill(r) ==
    IF Exists(Stmt(r)) THEN ledger' = [ledger EXCEPT ![r] = @ + run[r].spent]
    ELSE UNCHANGED ledger

\* The job-start write, unconditional so that a retry revives a failed row.
JobStart(r) ==
    /\ run[r].pc = "picked"
    /\ IF Exists(Stmt(r))
       THEN /\ SetStatus(Stmt(r), "preprocessing")
            /\ message' = [message EXCEPT ![Stmt(r)] = "none"]
       ELSE UNCHANGED <<status, message>>
    /\ Goto(r, "started")
    /\ UNCHANGED <<verdict, format, confirmed, rows, ledger, jobVars, req, crashes>>

\* Read the row: a format the operator confirmed overrides the model's.
ReadStatement(r) ==
    /\ run[r].pc = "started"
    /\ run' = [run EXCEPT ![r].pc = "routing",
                  ![r].override = /\ Exists(Stmt(r))
                                  /\ confirmed[Stmt(r)]
                                  /\ format[Stmt(r)] = "known"]
    /\ UNCHANGED <<rowVars, ledger, jobVars, req, crashes>>

\* Analyse the PDF, resolve the strategy and enter the first phase: OCR first
\* when the text layer is only a fallback, text first in the mirror case.
EnterPhase(r) ==
    /\ run[r].pc = "routing"
    /\ \E f \in Fallbacks, phase \in {"ocr", "extracting"} :
          /\ f = "ocr" => phase = "extracting"
          /\ f = "text" => phase = "ocr"
          /\ IF Open(Stmt(r))
             THEN /\ SetStatus(Stmt(r), phase)
                  /\ run' = [run EXCEPT ![r].pc = "markdown", ![r].fallback = f]
             ELSE Throw(r, "cancelled") /\ UNCHANGED status
    /\ UNCHANGED <<message, verdict, format, confirmed, rows, ledger, jobVars, req, crashes>>

\* The markdown is there; resolve the provider policy and start extracting.
BeginExtraction(r) ==
    /\ run[r].pc = "markdown"
    /\ \E two \in BOOLEAN :
          IF Open(Stmt(r))
          THEN /\ SetStatus(Stmt(r), "extracting")
               /\ run' = [run EXCEPT ![r].pc = "call", ![r].secondary = two]
          ELSE Throw(r, "cancelled") /\ UNCHANGED status
    /\ UNCHANGED <<message, verdict, format, confirmed, rows, ledger, jobVars, req, crashes>>

\* Mutant form: a rejected second opinion asks the secondary once more.
AnyProvider(r) == TRUE

\* Attempts 1 and 3 go to the primary provider, 2 and 4 to the secondary.
Primary(r) == run[r].attempt \in {1, 3}

\* Where runProviderFallback and its caller go once an attempt came back with
\* `o` and `best` is the outcome chosen so far.
AfterAttempt(r, o, best) ==
    CASE o = "ambiguous" -> "halt"
      [] o # "ambiguous" /\ Primary(r) /\ run[r].secondary /\ NeedsFallback(o) -> "second"
      [] OTHER ->
           IF run[r].attempt \in {1, 2} /\ run[r].fallback # "none" /\ NeedsFallback(best)
           THEN "refeed"
           ELSE IF IsFailure(best) THEN "hard" ELSE "settle"

\* attemptExtraction returns and recordAttempt books its cost.
AttemptReturns(r, o, cost) ==
    /\ run[r].pc = "call"
    /\ o = "ambiguous" => ~run[r].override
    /\ LET best == IF run[r].best = "none" THEN o ELSE pickBetterAttempt(run[r].best, o)
       IN  run' = [run EXCEPT ![r].pc = AfterAttempt(r, o, best),
                              ![r].best = IF o = "ambiguous" THEN @ ELSE best,
                              ![r].transient = @ \/ o = "transient",
                              ![r].spent = @ + cost]
    /\ UNCHANGED <<rowVars, ledger, jobVars, req, crashes>>

\* Start the secondary provider, unless the row was failed meanwhile.
StartSecondary(r) ==
    /\ run[r].pc = "second"
    /\ IF Open(Stmt(r))
       THEN /\ SetStatus(Stmt(r), "extracting")
            /\ run' = [run EXCEPT ![r].pc = "call", ![r].attempt = @ + 1]
       ELSE Throw(r, "cancelled") /\ UNCHANGED status
    /\ UNCHANGED <<message, verdict, format, confirmed, rows, ledger, jobVars, req, crashes>>

\* Turn to the other input method; OCR shows as a phase of its own.
StartInputFallback(r) ==
    /\ run[r].pc = "refeed"
    /\ Guarded(r, IF run[r].fallback = "ocr" THEN "ocr" ELSE "extracting", "remark")
    /\ UNCHANGED <<message, verdict, format, confirmed, rows, ledger, jobVars, req, crashes>>

\* Its markdown is there: back to the primary provider.
RefeedMarkdown(r) ==
    /\ run[r].pc = "remark"
    /\ IF run[r].fallback = "ocr" /\ ~Open(Stmt(r))
       THEN Throw(r, "cancelled") /\ UNCHANGED status
       ELSE /\ run' = [run EXCEPT ![r].pc = "call", ![r].attempt = 3]
            /\ IF run[r].fallback = "ocr" THEN SetStatus(Stmt(r), "extracting")
               ELSE UNCHANGED status
    /\ UNCHANGED <<message, verdict, format, confirmed, rows, ledger, jobVars, req, crashes>>

\* Mutant form: throw the chosen attempt's error, whatever the others were.
ChosenError(r) == IF run[r].best = "permanent" THEN "permanent" ELSE "transient"

\* The error a run without usable data ends with: a transient one, if any
\* attempt had one, so that the retry still happens.
HardError(r) == IF run[r].transient THEN "transient" ELSE "permanent"

HardFailure(r) ==
    /\ run[r].pc = "hard"
    /\ Throw(r, IF Open(Stmt(r)) THEN HardError(r) ELSE "cancelled")
    /\ UNCHANGED <<rowVars, ledger, jobVars, req, crashes>>

\* persistAmbiguousHalt: one guarded UPDATE that also books the spend.
HaltAmbiguous(r) ==
    /\ run[r].pc = "halt"
    /\ IF Open(Stmt(r))
       THEN /\ SetStatus(Stmt(r), "awaiting-locale-confirmation")
            /\ message' = [message EXCEPT ![Stmt(r)] = "none"]
            /\ format' = [format EXCEPT ![Stmt(r)] = "ambiguous"]
            /\ Bill(r)
            /\ run' = [run EXCEPT ![r].pc = "post", ![r].persisted = TRUE]
       ELSE /\ Throw(r, "cancelled")
            /\ UNCHANGED <<status, message, format, ledger>>
    /\ UNCHANGED <<verdict, confirmed, rows, jobVars, req, crashes>>

StartReconciling(r) ==
    /\ run[r].pc = "settle"
    /\ Guarded(r, "reconciling", "totals")
    /\ UNCHANGED <<message, verdict, format, confirmed, rows, ledger, jobVars, req, crashes>>

\* Mutant form: store the format the model reported, which may be AMBIGUOUS
\* even though the operator confirmed one.
ReportedFormat(r) == IF run[r].override THEN "ambiguous" ELSE "known"

\* The confirmed format wins over the reported one.
StoredFormat(r) == "known"

\* Balances, period, format and spend: not guarded by the status.
PersistTotals(r) ==
    /\ run[r].pc = "totals"
    /\ format' = IF Exists(Stmt(r)) THEN [format EXCEPT ![Stmt(r)] = StoredFormat(r)]
                 ELSE format
    /\ Bill(r)
    /\ run' = [run EXCEPT ![r].pc = "commit", ![r].persisted = TRUE]
    /\ UNCHANGED <<status, message, verdict, confirmed, rows, jobVars, req, crashes>>

\* The verdicts a chosen outcome can be stored with: a run without rows
\* verifies when the balances it read are equal.
VerdictsOf(o) ==
    CASE o = "verified" -> {"verified"}
      [] o = "empty" -> {"verified", "discrepancy"}
      [] OTHER -> {"discrepancy"}

\* Mutant form: the inserts survive an UPDATE that matched no row.
CommitWithoutRollback(r) ==
    \E v \in VerdictsOf(run[r].best) :
        /\ IF Exists(Stmt(r)) THEN rows' = [rows EXCEPT ![Stmt(r)] = @ \cup {r}]
           ELSE UNCHANGED rows
        /\ IF Committable(Stmt(r))
           THEN /\ SetStatus(Stmt(r), "review")
                /\ message' = [message EXCEPT ![Stmt(r)] = "none"]
                /\ verdict' = [verdict EXCEPT ![Stmt(r)] = v]
                /\ Goto(r, "post")
           ELSE Throw(r, "cancelled") /\ UNCHANGED <<status, message, verdict>>

\* One database transaction: the rows, the verdict and the review status, or
\* nothing.
CommitAtomically(r) ==
    IF Committable(Stmt(r))
    THEN \E v \in VerdictsOf(run[r].best) :
            /\ rows' = [rows EXCEPT ![Stmt(r)] = @ \cup {r}]
            /\ SetStatus(Stmt(r), "review")
            /\ message' = [message EXCEPT ![Stmt(r)] = "none"]
            /\ verdict' = [verdict EXCEPT ![Stmt(r)] = v]
            /\ Goto(r, "post")
    ELSE Throw(r, "cancelled") /\ UNCHANGED <<status, message, verdict, rows>>

Commit(r) ==
    /\ run[r].pc = "commit"
    /\ CommitAtomically(r)
    /\ UNCHANGED <<format, confirmed, ledger, jobVars, req, crashes>>

\* Check payees and the closing audit row; the run is over.
Finish(r) ==
    /\ run[r].pc = "post"
    /\ Goto(r, "end")
    /\ UNCHANGED <<rowVars, ledger, jobVars, req, crashes>>

\* Any database, disk or Redis access throws; the closing audit write can
\* throw after the commit.  A failed job-start write skips the cancel re-check.
StepThrows(r) ==
    /\ run[r].pc \in Working
    /\ run' = [run EXCEPT ![r] = [IdleRun EXCEPT
                  !.pc = IF run[r].pc = "picked" THEN "mark" ELSE "catch",
                  !.ending = "transient", !.transient = TRUE, !.stmt = run[r].stmt,
                  !.spent = run[r].spent, !.persisted = run[r].persisted]]
    /\ UNCHANGED <<rowVars, ledger, jobVars, req, crashes>>

\* force-text without a text layer, or a PDF over the OCR page cap.
StepUnfit(r) ==
    /\ \/ run[r].pc = "routing"
       \/ run[r].pc = "markdown" /\ run[r].fallback # "ocr"
       \/ run[r].pc = "remark" /\ run[r].fallback = "ocr"
    /\ Throw(r, "structural")
    /\ UNCHANGED <<rowVars, ledger, jobVars, req, crashes>>

\* Mutant form: the catch block bills a run whose spend is already booked.
CatchBills(r) == run[r].spent > 0

\* Spend that no terminal write has booked yet.
UnbilledSpend(r) == ~run[r].persisted /\ run[r].spent > 0

CatchSpend(r) ==
    /\ run[r].pc = "catch"
    /\ IF UnbilledSpend(r) THEN Bill(r) ELSE UNCHANGED ledger
    /\ Goto(r, IF run[r].ending = "cancelled" THEN "end" ELSE "recheck")
    /\ UNCHANGED <<rowVars, jobVars, req, crashes>>

\* Mutant form: any row that the final UPDATE would not match was pulled.
NotCommittable(s) == ~Committable(s)

\* cancelledMidRun: a row failed or gone by now was pulled by an operator.
Pulled(s) == ~Open(s)

RecheckCancelled(r) ==
    /\ run[r].pc = "recheck"
    /\ run' = IF Pulled(Stmt(r)) THEN [run EXCEPT ![r].pc = "end", ![r].ending = "cancelled"]
              ELSE [run EXCEPT ![r].pc = "mark"]
    /\ UNCHANGED <<rowVars, ledger, jobVars, req, crashes>>

\* finalizeJobFailure.
MarkFailed(r) ==
    /\ run[r].pc = "mark"
    /\ IF Open(Stmt(r))
       THEN /\ SetStatus(Stmt(r), "failed")
            /\ message' = [message EXCEPT ![Stmt(r)] = "error"]
            /\ Goto(r, "end")
       ELSE /\ run' = [run EXCEPT ![r].pc = "end", ![r].ending = "cancelled"]
            /\ UNCHANGED <<status, message>>
    /\ UNCHANGED <<verdict, format, confirmed, rows, ledger, jobVars, req, crashes>>

\* errorForBullmq: a permanent failure becomes an UnrecoverableError.
Retryable(ending) == ending = "transient"

\* The processor returns or rethrows; BullMQ moves the job, if the lock is
\* still this run's.
EndJob(r) ==
    /\ run[r].pc = "end"
    /\ IF holder[Stmt(r)] = r
       THEN /\ holder' = [holder EXCEPT ![Stmt(r)] = NoRun]
            /\ IF run[r].ending \in {"none", "cancelled"}
               THEN /\ job' = [job EXCEPT ![Stmt(r)] = "completed"]
                    /\ UNCHANGED fails
               ELSE /\ fails' = [fails EXCEPT ![Stmt(r)] = @ + 1]
                    /\ job' = [job EXCEPT ![Stmt(r)] =
                                 IF Retryable(run[r].ending) /\ fails[Stmt(r)] + 1 < MaxAttempts
                                 THEN "delayed" ELSE "failed"]
       ELSE UNCHANGED <<job, fails, holder>>
    /\ Leave(r, "done")
    /\ UNCHANGED <<rowVars, ledger, stalls, req, crashes>>

\* The worker process dies.
Crash(r) ==
    /\ crashes < MaxCrashes
    /\ run[r].pc \in Working \cup Unwinding
    /\ crashes' = crashes + 1
    /\ Leave(r, "crashed")
    /\ UNCHANGED <<rowVars, ledger, jobVars, req>>

RunStep(r) ==
    \/ JobStart(r) \/ ReadStatement(r) \/ EnterPhase(r) \/ BeginExtraction(r)
    \/ \E o \in Outcomes, cost \in Costs : AttemptReturns(r, o, cost)
    \/ StartSecondary(r) \/ StartInputFallback(r) \/ RefeedMarkdown(r)
    \/ HardFailure(r) \/ HaltAmbiguous(r)
    \/ StartReconciling(r) \/ PersistTotals(r) \/ Commit(r) \/ Finish(r)
    \/ StepThrows(r) \/ StepUnfit(r)
    \/ CatchSpend(r) \/ RecheckCancelled(r) \/ MarkFailed(r) \/ EndJob(r)

-----------------------------------------------------------------------------
(* Operator requests.  A request reads the row once, when it starts, and   *)
(* acts on what it read then.                                              *)

InFlight(q) == req[q].pc \notin {"idle", "done"}

\* Requests are numbered in the order in which they start.
MayStart(q, kind) ==
    /\ kind \in Kinds
    /\ req[q].pc = "idle"
    /\ \A k \in 1..(q - 1) : req[k].pc # "idle"
    /\ Overlap \/ \A k \in Requests : ~InFlight(k)

Start(q, kind, s, pc) ==
    req' = [req EXCEPT ![q] = [pc |-> pc, kind |-> kind, stmt |-> s, target |-> s,
                               left |-> IF kind = "split" THEN SplitWays ELSE 0]]

Continue(q, pc) ==
    req' = [req EXCEPT ![q] = IF pc = "done" THEN [IdleReq EXCEPT !.pc = "done"]
                              ELSE [@ EXCEPT !.pc = pc]]

\* A fresh UUID; which one does not matter.
NewId(s) == status[s] = "unused" /\ s = CHOOSE x \in Statements : status[x] = "unused"

\* The row an upload or a split inserts.
InsertRow(s) ==
    /\ NewId(s)
    /\ SetStatus(s, "uploaded")
    /\ UNCHANGED <<message, verdict, format, confirmed, rows>>

\* Upload a PDF: a new row, or the one that never left `uploaded`; a later
\* statement is deduplicated and not queued again.
Upload(q, s) ==
    /\ MayStart(q, "upload")
    /\ \/ InsertRow(s)
       \/ status[s] = "uploaded" /\ UNCHANGED rowVars
    /\ Start(q, "upload", s, "enqueue")
    /\ UNCHANGED <<ledger, jobVars, run, crashes>>

StartCancel(q, s) ==
    /\ MayStart(q, "cancel")
    /\ Open(s) /\ status[s] # "review"
    /\ Start(q, "cancel", s, "remove")
    /\ UNCHANGED <<rowVars, ledger, jobVars, run, crashes>>

StartReExtract(q, s) ==
    /\ MayStart(q, "reextract")
    /\ Exists(s)
    /\ Start(q, "reextract", s, "remove")
    /\ UNCHANGED <<rowVars, ledger, jobVars, run, crashes>>

StartConfirmFormat(q, s) ==
    /\ MayStart(q, "confirm")
    /\ status[s] = "awaiting-locale-confirmation"
    /\ Start(q, "confirm", s, "remove")
    /\ UNCHANGED <<rowVars, ledger, jobVars, run, crashes>>

StartSplit(q, s) ==
    /\ MayStart(q, "split")
    /\ Exists(s)
    /\ Cardinality({c \in Statements : status[c] = "unused"}) >= SplitWays
    /\ Start(q, "split", s, "remove")
    /\ UNCHANGED <<rowVars, ledger, jobVars, run, crashes>>

StartDelete(q, s) ==
    /\ MayStart(q, "delete")
    /\ Exists(s)
    /\ Start(q, "delete", s, "remove")
    /\ UNCHANGED <<rowVars, ledger, jobVars, run, crashes>>

AfterRemove(kind) ==
    CASE kind = "confirm" -> "reset"
      [] kind = "delete" -> "drop"
      [] OTHER -> "wipe"

\* Mutant form: re-extract and confirm swallow a refused removal too.
NeverStops(kind) == FALSE

\* A refused removal is a 409 for these two; the others swallow it.
StopsOnRefusal(kind) == kind \in {"reextract", "confirm"}

\* Mutant form: leave a finished job where it is.
ClearPending(s) ==
    job' = [job EXCEPT ![s] = IF @ \in {"completed", "failed"} THEN @ ELSE "none"]

\* job.remove(), whatever the job's state.
ClearJob(s) == job' = [job EXCEPT ![s] = "none"]

RemoveJob(q) ==
    /\ req[q].pc = "remove"
    /\ LET s == req[q].stmt IN
       IF Locked(s)
       THEN /\ Continue(q, IF StopsOnRefusal(req[q].kind) THEN "done"
                           ELSE AfterRemove(req[q].kind))
            /\ UNCHANGED job
       ELSE /\ Continue(q, AfterRemove(req[q].kind))
            /\ ClearJob(s)
    /\ UNCHANGED <<rowVars, ledger, fails, stalls, holder, run, crashes>>

\* DELETE FROM transactions.
WipeRows(q) ==
    /\ req[q].pc = "wipe"
    /\ rows' = [rows EXCEPT ![req[q].stmt] = {}]
    /\ Continue(q, CASE req[q].kind = "reextract" -> "reset"
                     [] req[q].kind = "confirm" -> "enqueue"
                     [] OTHER -> "mark")
    /\ UNCHANGED <<status, message, verdict, format, confirmed, ledger, jobVars, run, crashes>>

\* Mutant form: the UPDATE of /cancel skips a statement that reached review.
MarkUnlessReview(s) == Exists(s) /\ status[s] # "review"

\* The UPDATE of /cancel and of /split matches any existing row.
MarkMatches(s) == Exists(s)

MarkPulled(q) ==
    /\ req[q].pc = "mark"
    /\ LET s == req[q].stmt IN
       IF MarkMatches(s)
       THEN /\ SetStatus(s, "failed")
            /\ message' = [message EXCEPT ![s] =
                             IF req[q].kind = "split" THEN "superseded" ELSE "cancelled"]
            /\ verdict' = [verdict EXCEPT ![s] = "pending"]
       ELSE UNCHANGED <<status, message, verdict>>
    /\ Continue(q, IF req[q].kind = "split" THEN "spawn" ELSE "done")
    /\ UNCHANGED <<format, confirmed, rows, ledger, jobVars, run, crashes>>

\* Back to `uploaded`; confirm-date-format also stores the operator's format.
ResetRow(q) ==
    /\ req[q].pc = "reset"
    /\ LET s == req[q].stmt
           confirm == req[q].kind = "confirm" IN
       IF Exists(s)
       THEN /\ SetStatus(s, "uploaded")
            /\ message' = [message EXCEPT ![s] = "none"]
            /\ verdict' = [verdict EXCEPT ![s] = "pending"]
            /\ format' = [format EXCEPT ![s] = IF confirm THEN "known" ELSE @]
            /\ confirmed' = [confirmed EXCEPT ![s] = @ \/ confirm]
       ELSE UNCHANGED <<status, message, verdict, format, confirmed>>
    /\ Continue(q, IF req[q].kind = "confirm" THEN "wipe" ELSE "enqueue")
    /\ UNCHANGED <<rows, ledger, jobVars, run, crashes>>

\* The next child of a split: its row, then its job.
SpawnChild(q, c) ==
    /\ req[q].pc = "spawn"
    /\ InsertRow(c)
    /\ req' = [req EXCEPT ![q].pc = "enqueue", ![q].target = c, ![q].left = @ - 1]
    /\ UNCHANGED <<ledger, jobVars, run, crashes>>

EnqueueExtraction(q) ==
    /\ req[q].pc = "enqueue"
    /\ Add(req[q].target)
    /\ Continue(q, IF req[q].left > 0 THEN "spawn" ELSE "done")
    /\ UNCHANGED <<rowVars, ledger, holder, run, crashes>>

\* DELETE FROM statements; the transactions cascade.
DropRow(q) ==
    /\ req[q].pc = "drop"
    /\ SetStatus(req[q].stmt, "deleted")
    /\ rows' = [rows EXCEPT ![req[q].stmt] = {}]
    /\ Continue(q, "done")
    /\ UNCHANGED <<message, verdict, format, confirmed, ledger, jobVars, run, crashes>>

\* The API process dies, or Redis or Postgres refuses the request's next step.
RequestDies(q) ==
    /\ ApiMayCrash /\ InFlight(q)
    /\ Continue(q, "done")
    /\ UNCHANGED <<rowVars, ledger, jobVars, run, crashes>>

StartRequest(q) ==
    \E s \in Statements :
        \/ Upload(q, s) \/ StartCancel(q, s) \/ StartReExtract(q, s)
        \/ StartConfirmFormat(q, s) \/ StartSplit(q, s) \/ StartDelete(q, s)

RequestStep(q) ==
    \/ RemoveJob(q) \/ WipeRows(q) \/ MarkPulled(q) \/ ResetRow(q)
    \/ \E c \in Statements : SpawnChild(q, c)
    \/ EnqueueExtraction(q) \/ DropRow(q)

Next ==
    \/ \E r \in Runs, s \in Statements : PickJob(r, s)
    \/ \E r \in Runs : RunStep(r) \/ Crash(r)
    \/ Queue
    \/ \E q \in Requests : StartRequest(q) \/ RequestStep(q) \/ RequestDies(q)

Spec == Init /\ [][Next]_vars

\* Workers, the queue and requests under way make progress; nothing makes an
\* operator send a request or a process crash.
Fairness ==
    /\ \A r \in Runs : WF_vars(RunStep(r))
    /\ WF_vars(\E r \in Runs, s \in Statements : PickJob(r, s))
    /\ \A s \in Statements :
          /\ WF_vars(Promote(s))
          /\ WF_vars(LockExpires(s))
          /\ WF_vars(RequeueStalled(s))
    /\ \A q \in Requests : WF_vars(RequestStep(q))

FairSpec == Spec /\ Fairness

-----------------------------------------------------------------------------
(* Properties.                                                             *)

Live(r) == run[r].pc \in Working \cup Unwinding

\* As long as live workers keep their locks, two executions never work on one
\* statement at the same time: the job id derived from the statement, the
\* no-op add() and the refused remove() of a locked job (queues.ts) together
\* keep duplicate extractions from stomping on the row.
OneRunPerStatement ==
    ~LockMayLapse =>
        \A r1, r2 \in Runs :
            Live(r1) /\ Live(r2) /\ Stmt(r1) = Stmt(r2) => r1 = r2

\* The monthly spend cap reads the ledger: whichever way a run ends (review,
\* halt, cancel, failure) its spend is in its statement's ledger exactly once;
\* only a crash loses it, and nothing ever bills it twice.
LedgerExact ==
    \A r \in Runs :
        /\ ledger[r] \in {0, run[r].spent}
        /\ run[r].pc = "done" /\ Exists(Stmt(r)) => ledger[r] = run[r].spent

\* A row that is `failed` is never carried on by the run that was at work on
\* it: only a new job execution or an operator's reset takes it out of `failed`.
NoMidRunRevival ==
    [][\A s \in Statements :
          status[s] = "failed" =>
             status'[s] \in {"failed", "preprocessing", "uploaded", "deleted"}]_vars

\* The rows of a run appear in the step that puts the statement in review, with
\* its verdict, or never: a run that lost its statement to cancel, split or
\* delete leaves nothing behind.
RowsArriveWithReview ==
    [][\A s \in Statements :
          ~(rows'[s] \subseteq rows[s]) =>
             /\ status[s] \in {"reconciling", "extracting"} /\ status'[s] = "review"
             /\ verdict'[s] # "pending"]_vars

\* The balance ties to the cent: nothing a fallback could bring is better.
Ties(o) == o \in {"verified", "periodOnly"}
Untried(r) ==
    \/ run[r].secondary /\ Primary(r)
    \/ run[r].fallback # "none" /\ run[r].attempt \in {1, 2}

\* Another provider or input method "would only risk trading it for a result
\* that does not" tie (extraction.worker.ts:670), and costs egress and money: no
\* attempt follows one that tied, whoever made it, and a run goes on with rows
\* that do not tie, or gives up, only when each opted-in fallback had its turn.
FallbacksAreDue ==
    \A r \in Runs :
        /\ run[r].pc = "call" /\ run[r].attempt > 1 => ~Ties(run[r].best)
        /\ run[r].pc \in {"hard", "settle", "totals", "commit"} /\ ~Ties(run[r].best) => ~Untried(r)

\* A job is retried only after a run that saw a transient error, and a run that
\* failed for want of data after a transient error is retried while attempts
\* remain, even when its last provider failed for good.
RetryMatchesFailure ==
    [][\A s \in Statements, r \in Runs :
          run[r].pc = "end" /\ run'[r].pc = "done" /\ holder[s] = r =>
             /\ job'[s] = "delayed" => run[r].transient
             /\ /\ run[r].transient /\ fails'[s] < MaxAttempts
                /\ run[r].ending \in {"transient", "permanent"}
                => job'[s] = "delayed"]_vars

Unsettled == {"uploaded", "preprocessing", "ocr", "extracting", "reconciling"}

Attended(s) == \E q \in Requests : InFlight(q) /\ s \in {req[q].stmt, req[q].target}

\* BullMQ gave the job up after its worker crashed once too often, and no
\* handler of the code listens for that: only an operator can help.
Abandoned(s) == stalls[s] > MaxStalled

\* A statement the UI shows as being processed has a job that will process it,
\* unless a request is still at work on it or its workers kept crashing.
NeverStranded ==
    \A s \in Statements :
        status[s] \in Unsettled => JobLive(s) \/ Attended(s) \/ Abandoned(s)

\* A statement the export gate lets through has the rows its verdict is about.
VerifiedHasRows ==
    \A s \in Statements :
        status[s] = "review" /\ verdict[s] = "verified" => rows[s] # {} \/ Attended(s)

\* Once the operator confirmed the date format, no later run halts on it again,
\* re-extractions included.
ConfirmedNeverHalts ==
    \A s \in Statements : confirmed[s] => status[s] # "awaiting-locale-confirmation"

\* A statement that has settled stays exportable and readable as it is.
SettledIsSound == VerifiedHasRows /\ ConfirmedNeverHalts

\* The bound on runs, not the code, keeps a waiting job from being picked up.
OutOfRuns(s) == job[s] = "waiting" /\ \A r \in Runs : run[r].pc # "idle"

\* Every statement under way reaches review, failure, the format question or
\* deletion, unless its workers keep crashing.
Settles ==
    \A s \in Statements :
        status[s] \in Unsettled
            ~> status[s] \notin Unsettled \/ OutOfRuns(s) \/ Abandoned(s)

\* A statement in review holds the rows of the one run whose verdict it shows,
\* never a mixture with those of an earlier run.
ReviewIsOneRun == \A s \in Statements : status[s] = "review" => \A r1, r2 \in rows[s] : r1 = r2

\* A cancelled statement keeps no rows of a partial extraction.
CancelLeavesNoRows == \A s \in Statements : message[s] = "cancelled" => rows[s] = {}

=============================================================================
