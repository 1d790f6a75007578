# Vibe Transaction Convertor: a TLA+ verification project

Vibe Transaction Convertor turns PDF bank statements into accounting files. An
API process takes uploads and operator requests, a BullMQ worker reads the pages
and extracts the transactions with an LLM, Postgres holds the statements and
their rows, and a reviewer edits them in the browser until the *Golden Rule*
holds (the rows add up to the difference of the printed balances, to the cent)
and exports the result.

Hardly any request of the code holds a lock or a transaction across its reads
and writes (bulk edits, the worker's final write, registration and a restore
are the exceptions). What keeps the system correct is a set of conventions:
deterministic job ids, guarded `UPDATE`s, a fixed order of queue, database and
file calls, a recomputation after every edit, a gate in front of every export,
caches with a minute to live. They are what this project models, checks and
proves.

Paths below are relative to the repository root. Sections: 1 inventory,
2 modules, 3 runs, 4 what the code does not keep, 5 proofs, 6 not modelled,
7 plan.

## 1. Inventory

| Component | Code | State | Operations | Status |
|---|---|---|---|---|
| Extraction worker | `apps/api/src/jobs/extraction.worker.ts` | statement row, per-run locals, spend | one job execution: phases, OCR, provider and input fallbacks, one LLM attempt with its repairs, ambiguous-date halt, totals, final transaction, catch block | modelled |
| Extraction queue | `apps/api/src/jobs/queues.ts`, BullMQ | job per statement, lock, attempts | add, remove, retry with backoff, stalled check, eviction | modelled (BullMQ as the code relies on it) |
| Statement routes | `apps/api/src/routes/statements.ts` | statement row, job | cancel, re-extract, confirm date format, split, delete | modelled |
| Uploads | `routes/uploads.ts` | statement row, file | insert or deduplicate, store, enqueue | partly (type and size checks left out) |
| Review edits and verdict | `routes/statements.ts`, `services/reconciliation.ts` | rows, verdict, stray count, review hold | patch, bulk patch, insert, remove, recompute, override, acknowledge | partly |
| Golden Rule reconciler | `packages/reconciler/src` | none (pure) | `reconcileGoldenRule`, repair pass, suspect rows | modelled |
| Export gate and exports | `services/exports.ts`, `routes/exports.ts` | job rows, files, audit entries | gate, render, record, download, delete, expire | modelled |
| PDF store and retention | `services/upload-storage.ts`, `pdf-retention.ts` | files per month and content hash, shared by statements | store, restore, split, delete, sweep | modelled |
| LLM and OCR clients | `packages/extractor/src` | page cache, circuit breaker | `extract()` of four engines, VibeOCR jobs, GLM-OCR pages | partly |
| Pipeline helpers | `multi-account-detector.ts`, `statement-model.ts`, others | none | merge of pages, salvage, account detection | partly |
| Enrichment, check resolver | `services/enrichment.ts`, `enrichment-cache.ts`, `check-resolver.ts` | categories, texts, payees, Redis cache | LLM batches written back by id | modelled |
| LLM spend ledger and cap | `services/llm-spend.ts` | micro-dollars per statement, monthly cap | check, book | modelled |
| LLM providers and settings | `services/llm-provider.ts`, `ai-settings.ts`, `engines.ts` | 60-second copies in every process | resolve, build, invalidate | modelled |
| Administration routes | `routes/admin.ts` | `system_settings` | key, policy, pins, address, backups | partly |
| Backup and restore | `services/backup.ts` | dumps, the schema, three processes and a pipe | create, import, list, delete, restore | modelled |
| Authentication and sessions | `services/auth.ts`, `lib/vibe-auth*.ts`, `middleware/auth.ts` | users, sessions, an advisory lock | register, sign in, roll, change, reset, disable, sync roles | partly |
| Feature access | `services/feature-access.ts` | per-user overrides | grant and revoke Access Management | partly |
| Maintenance worker | `jobs/maintenance.worker.ts` | none | the nightly sweeps | partly (the sweeps, not their schedule) |
| Web UI | `apps/web/src` | query cache, editors, selection, settings pages | edit, delete, refetch, save a setting | partly |
| Rate limits, FITID, exporters, FIDIR, accounts, audit log | elsewhere | | counters, hashes, formatting, CRUD | not modelled (section 6) |

`PROJECT.json` lists every component with what is modelled of it, and under
`hazards` every place where this code is exposed to something a test would
hardly reach.

How they interact. A request and the worker share two things: the statement row
and the BullMQ job `extract-<statement id>`. Requests cannot interrupt a run;
they fail or reset the row, and the run notices at its next guarded write. The
queue keeps runs of one statement apart, because `add()` with a known id is a
no-op in *every* job state and because BullMQ refuses to remove a job whose
lock is held. Edits, exports and enrichment share rows, verdict and hold with
the worker, which overwrites them all in its final transaction. Files (PDFs,
exports, dumps) live beside rows that point at them, with no transaction over
both. Every Node process keeps copies of the settings that no other process can
drop. The browser keeps a copy of the rows that every reply and refetch changes
under an open editor.

What is hard, and what makes each part correct:

* *Worker and requests* interleave at every await; workers crash and are run
  again; runs fail transiently and are retried; jobs are absorbed by finished
  ones. Correct means: one run per statement; a failed row is not carried on by
  the run that was at work on it; rows appear only with their review and their
  verdict; each run is billed exactly once; nothing waits for ever; a
  fallback is paid for only while the balance does not tie, and not skipped then; and
  the statement list only ever shows the moves an operator is promised.
* *Review and export*: a verdict is a cached judgement of rows that change under
  it. Correct means: the verdict shown is that of the rows shown, an override
  survives edits but not a re-extraction, every exported file ties unless a
  person took responsibility.
* *The pages* are read by two services that fail, time out and answer late,
  through a cache and a circuit breaker all runs share. Correct means: a text is
  whole and of one reader, and a split cuts between accounts only.
* *One LLM attempt* turns an answer whose every field may be unreadable into
  rows: it asks again, guesses, drops and repairs. Correct means: what was
  guessed or lost is held for a person; what is verified unseen ties to figures
  the bank printed; a repair is made only if it is the only one possible; what
  was paid for is reported.
* *The stored PDF* is one file for every statement of that content, stored,
  deleted, purged and given back by requests that look first and act later.
  Correct means: a statement that promises its PDF has it, no file outlives its
  statements, the sweep keeps to its window and to statements at rest.
* *Enrichment* reads rows, waits minutes for an LLM and writes by id. Correct
  means: nothing a person typed is replaced, a cached answer is replayed only for
  what it was given for, every charge a pass learns of is booked and none made past
  the cap.
* *Exports and dumps* are files in the making beside rows that name them. Correct
  means: nothing half done is offered, listed or committed; a restore ends
  whichever process stops first, and leaves tables that fit the build.
* *Accounts* are changed by requests that read, count and write. Correct means:
  one administrator comes of open registration, a change of password ends the
  sessions it finds for good, and changes of roles in turn never demote the last
  administrator.
* *Settings* are copied into every process and two pages. Correct means: routing
  follows the key, a page shows what is stored, every process comes to use the
  last change.
* *The review page* shows a copy. Correct means: saving one field never writes a
  stale value over another, what is typed stays until its author ends it, one's
  own changes come to be shown, a selection loses the deleted rows and no other.

## 2. Modules

```
ExtractionAttempt   outcomes of one LLM attempt, their ranking
  |
  +-- StatementLifecycle  row, job, runs, requests              (4 runs)
  |     |
  |     +-- LifecycleRefinement   implements StatementPromise   (1 run)
  |           |
  |           +-- LifecycleProofs   types, steps, fallbacks, one run at a
  |                                 time, exact billing, the promise kept,
  |                                 nobody stranded
  |
GoldenRule          the reconciler's verdict
  |
  +-- ReviewGate          edits, verdict, override, gate, re-extraction
  |     |
  |     +-- ReviewGateProofs    verdicts, exports, overrides
  |     +-- MCReviewGate        readings, patches and inserts
  |
  +-- RepairPass          suspect rows, the two heuristic repairs
        |
        LlmAttempt          one attempt, from provider to verdict -- MCLlmAttempt

ReviewClient        one tab of the review page -- MCReviewClient
  +-- ReviewClientProofs      own edits, the selection, the row editor
MCReview            MCReviewGate beside MCReviewClient           (1 run)

LlmProviders        provider and model of a process, from the settings
  |
  +-- Enrichment          passes, cache, cap -- MCEnrichment     (1 run)
  |     +-- EnrichmentProofs    books, cache, typed text
  +-- AdminSettings       copies and pages -- MCAdminSettings

PdfStore            files, rows, requests, the retention sweep
OcrStage            pages, page cache, breaker, splits
MCReading           PdfStore, OcrStage, MCLlmAttempt, MCEnrichment (1 run)
ReadingProofs       of the first three: flags, files, the sweep; whole texts,
                    splits; costs, salvage, print, repairs

ExportJobs          job rows and files of exports
BackupRestore       dumps and restores -- MCBackupRestore
  +-- MCDataDirectory     both                                   (1 run)
  +-- DataDirectoryProofs     whole files, dumps and restores

Access              accounts, sessions, roles                    (2 runs)
MCAdministration    MCAdminSettings beside Access                (1 run)
AdministrationProofs    of Access and AdminSettings: first administrator,
                        ended sessions; routes, copies

Ascending           a set of numbers in order, for OcrStage and LlmAttempt
FiniteFacts         least members and sums over finite sets, for the proofs of
                    ReadingProofs and EnrichmentProofs
```

`LlmAttempt` and `StatementLifecycle` meet in `ExtractionAttempt`: an attempt
ends in one of its seven outcomes, and the lifecycle starts from any of them.
`LlmAttempt` and `ReviewGate` judge rows by the same `GoldenRule`. `Enrichment`
and `AdminSettings` resolve providers by the same `LlmProviders`.

`MCReading`, `MCReview`, `MCAdministration` and `MCDataDirectory` put components that
hand one another nothing but data into one run. A behaviour is about one of them,
chosen at the start by `stage` or `part`; the others rest in an initial state, and
fairness asks nothing of them. No step of one reads or writes a variable of
another, so what is true of every state of each is true of every interleaving.

### ExtractionAttempt
What `attemptExtraction` can come back with, seven outcomes: a result that
verifies, one whose only fault is a date outside the period, one that does not
tie, one without rows, a permanent and a transient error, and an ambiguous date
format. `attemptRank`, `pickBetterAttempt` and the tests that decide on a
fallback are those of the worker.

### StatementLifecycle

| State | Code |
|---|---|
| `status`, `message`, `verdict`, `format`, `confirmed` | columns of `statements` |
| `rows` | the set of runs whose transactions the statement holds |
| `ledger` | what each run added to `llm_cost_micros` |
| `job`, `fails`, `stalls`, `holder` | the BullMQ job, its attempts, stall count and lock |
| `run` | program counter and locals of one execution of `processExtraction` |
| `req` | program counter and locals of one request |

A run is one execution of one attempt of a job. It goes through
`JobStart`, `ReadStatement`, `EnterPhase`, `BeginExtraction`, then one
`AttemptReturns` per LLM attempt with `StartSecondary`, `StartInputFallback` and
`RefeedMarkdown` between them, and ends in `HaltAmbiguous`, in `HardFailure`, or
in `StartReconciling`, `PersistTotals`, `Commit`, `Finish`. `StepThrows` lets
any of its database, disk and Redis accesses throw; `CatchSpend`,
`RecheckCancelled`, `MarkFailed` are the catch block, `EndJob` is BullMQ's
reaction to the return or rethrow, `Crash` the death of the process. Requests
are sequences of `RemoveJob`, `WipeRows`, `MarkPulled`, `ResetRow`, `DropRow`,
`SpawnChild` and `EnqueueExtraction` in the order of their route handlers: note
that cancel and re-extract wipe before they mark, and confirm resets before it
wipes. A request checks the row when it starts and acts on what it saw.

Abstractions, and why they lose nothing the properties speak of:

* `checkCancelled` followed by a guarded `setStatus` is one step: the guard of
  the second tests what the first tested.
* The final transaction is one step, at its commit: its guarded `UPDATE` locks
  the row, and nobody sees the inserts before.
* Rows are sets of runs. The FITID deduplication decides which rows of a second
  run over the same statement are dropped; `rows` says only whose rows may be
  there.
* An exception ends a run's locals (`Throw`, `Leave`), which keeps states that
  differ only in dead locals from being told apart.
* An upload that finds an `uploaded` statement may be the one that finds a split
  child, whose content hash the code does not compare: an over-approximation.
* `cancelledMidRun` answers false when its own read fails; the guard of
  `MarkFailed` covers the case.

Left out: a second database fault while the first is being unwound; an LLM
repair call that throws after it was billed; `REDIS_URL` unset; the refusal to
re-extract after the PDF was deleted; the columns that only display
(`detected_splits`, extracted text); the status `exported`, which the schema
has and no code ever sets.

### StatementPromise and LifecycleRefinement
`StatementPromise` is the abstract specification: a statement is absent, queued,
processing, in review, a question, failed or gone; at most one extraction is at
work on it; only an extraction at work takes a processing statement to review or
asks its question; an operator may pull, reset or remove it at any time, and
what was pulled stays so until it is begun afresh or reset.
`LifecycleRefinement` maps the seven statuses of the column to the phases
(`PhaseOf`, the grouping of the statement list) and "at work" to a run between
its job-start write and the end of its job (`AtWork`). Lost, duplicated and
absorbed jobs, retries, stalls, crashes and half-done requests are all steps or
stutters of the promise.

### ReviewGate
One statement, its rows with amount and in-period flag, its balances, verdict,
stray count and hold. The extraction is cut down to start, totals, commit and
failure; `StatementLifecycle` is about the rest. `recomputeReconciliation` is
three steps (`ReadStatement`, `ReadRows`, `WriteVerdict`) acting on what was
read, an export two (`StartExport` reads the statement as
`fetchStatementContext` does, `RenderExport` reads the rows, passes the gate and
records the file), re-extract four. Bulk edits are one transaction: `RowsSeenBy`
gives the rows as that transaction sees them, `Unlocked` keeps others off the
rows it has changed. A run may skip one row the database refuses; the verdict
is still that of all rows and the run holds the statement, as in the code.

Left out: `acknowledge-multi-account` (the same gate once more), payee and
category fields, the unique-index collision of two identical inserts, QBO date
slicing. Readings are what a run has after its repair pass.

### RepairPass and LlmAttempt
`RepairPass` holds the pure half of `golden-rule.ts`: `findSuspectRows` with the
running-balance chain as a sum instead of a loop, and `repairPass` as the set of
repaired row lists, which has at most one member. Rows are sequences of records
with cents, text, day and the printed balance.

`LlmAttempt` is one call of `attemptExtraction`.

| State | Code |
|---|---|
| `engine`, `override` | the provider built, `ctx.dateFormatOverride` |
| `pc` | which of its calls is under way: provider, first `extract`, repair `extract`, heuristic |
| `ask`, `plain`, `pages` | locals of `extract()`: the reminder loop, the gateway's request without a grammar, the pages the statement model has read |
| `data` | `result.data`: rows, period, balances, format, notes |
| `source` | the answer the current rows were taken from |
| `rows`, `repaired` | `effectiveTxs`, `repairApplied` |
| `paid`, `reported` | answers Anthropic charges for; those in `totalCostMicros` |
| `fault`, `outcome` | what was thrown last, what the attempt comes to |

`BuildProvider`, `RequestFails`, `GrammarDeadEnds`, `AnswerText`, `AnswerPage` are
the requests of an `extract()`, `Receive` its end (`Adopt` for the first,
`AdoptRepair` for the repair), `HeuristicRepair` the rest of the attempt.
`salvageStructure`, `mergeStatementPages` and `mapStatementModelOutput` are
functions of an answer, with one note for each note the code writes.

An answer (`Answer`) is what the code can tell apart: which header fields and which
fields of a row are readable, cents, days, a printed balance or none, a text of `Texts`.
Left out: prompts, token counts, the confidence the model reports, page images and the
vision path, category and cheque fields. Two facts the model brings out and no property
speaks against, because nothing in the repository promises otherwise: a repair answer
without rows is adopted when opening and closing balance are equal, and the statement
model's rows of another year are moved into the period without a note (`SnapYear`), a
date that was misread no less than one that was not.

### OcrStage

| State | Code |
|---|---|
| `scan` | per run: program counter, provider in use, polls and tries left, pages to do, text so far, splits |
| `cache` | `memoryCache` of `glm-ocr-client.ts`, oldest entry first, at most `CacheMax` |
| `failures`, `breaker` | `cbConsecutiveFailures` and the state of the circuit breaker |
| `restarts` | worker restarts, which empty both |

`Submit`, `Poll`, `Pending`, `Completed`, `VibeFails` and `Returned` are a VibeOCR
job; whatever it throws makes GLM-OCR the reader. `ocrImagesToMarkdown` awaits
one page after the other, so that `Rasterize`, `FromCache`, `CircuitOpen`, `Ask`,
`Transcribed`, `TryFails` and `Refused` are about one page at a time. A blank
transcription counts as read and is not cached. `Detect` is `detectMultiAccount`
over the owners of the pages, `GlmHeader` and `SkipHeader` the second look of the
statement model at the head of the first page. Of a transcription only who read
which page is kept.

### PdfStore

| State | Code |
|---|---|
| `file` | `uploads/<yyyy>/<mm>/<hash>.pdf`, one per month, with its modification day |
| `row` | `source_pdf_path`, `source_pdf_deleted`, `created_at`, the split key and whether the status is in flight |
| `slot` | program counter and locals of a request or of the sweep |
| `day` | the clock the retention window is measured by |

A file name is a content hash and a month, so one hash stands for all. Uploads
are look-up, `storePdf`, then `ingestUpload` or `restoreDeletedSourcePdf`; deleting
a PDF is unlink and flag; deleting a statement is the row, the look for others,
the file; the sweep reads candidates, reads the paths in use, and takes each
file in turn through `storedSince`, unlink and flag. An unlink may fail and a
request may die between any two steps. The re-read of `ingestUpload` is one step
with its insert. No request runs across midnight (`Midnight`): the one that did
so over the end of a month would store into one month's path and may deduplicate
to a row of the other. Confirming a date format, which queues an extraction
without looking at the flag, is left out.

### LlmProviders and Enrichment
`LlmProviders` has no state: `resolveProcessLabel` says which provider and model
a process (extraction, cleanse, category, check) shows, `constructLocal` and
`constructAnthropic` which it is built with, each from the settings rows, the
environment and a default, in the code's order.

| State of `Enrichment` | Code |
|---|---|
| `line` | per transaction: payee, cleansed text and category with who wrote them, the two edited flags |
| `settings`, `active`, `stale` | `system_settings` and categories; has an admin written and not yet invalidated? |
| `redis` | the Redis entries, by `cacheVersionFor` |
| `localSlot` | the local provider `llm-provider.ts` keeps |
| `ledger`, `spent` | `llm_cost_micros`; what Anthropic charged for each run |
| `lost` | history: what a call was charged for and threw away, and what the database refused to book |
| `capped` | history: the runs that began past the cap |
| `pass` | program counter and locals of one enrichment or payee resolution |

`EnrichStep` is one pass of `enrichTransactions`: read the rows, look up the cache, cap,
provider, call, cache write, guarded write of each row, booking, on the way out of an
error as well. A call answers, fails uncharged, or is cut off after it was billed
(`CallEnd`): `AnthropicProvider.complete` throws on a truncated reply, or one without
the tool, before it computes a cost, so that the pass never learns of it. A booking the
database refuses is only logged, in the catch block as in the resolver. `CheckStep` is
the resolver's. All rows carry one bank description, so that every row may hit what
another cached; what is remembered of an answer is who gave it under which prompt and
settings. Left out: the wording of prompts and the parsing of answers, the 30 days a
cache entry lives, and the death of the API process in the middle of a pass, with which
the spend in its hands is lost.

### AdminSettings

| State | Code |
|---|---|
| `setting` | policy, pins, key and address in `system_settings` |
| `engine`, `provider` | the copies `engines.ts` and `llm-provider.ts` keep, per process |
| `load` | a read of a setting between its `SELECT` and its store into a copy |
| `tab` | a page: the request it has under way, and what it shows |
| `blind`, `half`, `changes` | history: policy and pins set without a key, a clearing that died; the bound |

A route writes its row and then drops the copies of its own process; clearing
the key deletes it, then resets the policy, then each pin. A worker of its own
(`WORKER_INLINE=false`) hears of none of it and waits out the minute. Left out:
pins in the environment, a tab's second request before the first is answered; the reading
of a pin and its deletion are one step; the form of the monthly cap, which seeds
itself once and never again.

### ExportJobs
One statement, its export requests, `path` (`export_jobs.file_path`: none,
`<pending>`, a file, `<expired>`), `disk` (no file, part of one, all of it), the
audit entries (`claimed`), and the program counters of a delete of one job, a delete of
the statement, a download and the nightly sweep. All formats are rendered first;
each file is then row, bytes, path, audit entry. The rendering itself succeeds or
fails: `ReviewGate` has its gate.

### BackupRestore

| State | Code |
|---|---|
| `db`, `locked` | the `vibetc` schema (its rows, the level of its tables, the level drizzle recorded) and who holds it |
| `shelf`, `partial` | dumps under their final names, `.partial` files |
| `paused` | the extraction queue |
| `op` | a request: program counter, and for a restore the states of `pg_restore`, `psql`, the pipe between them, what was applied and what the API wrote by hand |

A dump has an origin, a level, rows, and may be unreadable, cut short, foreign or
without drizzle's table. The programs run, fail or stop at any piece; the API
pumps the pipe, handles their exits in either order and writes `COMMIT` itself
when both sides have come to the end. Around the pipe: safety dump, pause,
pool recycling, resumption, migration, audit entry, each of which may fail.

### Access

| State | Code |
|---|---|
| `user` | `users` with role, active flag, whether somebody knows the password, and the `admin.accessControl` override; `hash` counts how often the password was set |
| `session`, `born` | `sessions`: whose, young, old or expired; as history, the `hash` its sign-in was verified against and whether it is `condemned` |
| `lock` | `pg_advisory_xact_lock` of the registration |
| `task` | a request: program counter and what it has read |
| `opened` | history: who became administrator through open registration |

A session is condemned when a change of its user's password, a reset or a disabling
takes hold while it is there, unless it made that change itself. `EndSessions` only
deletes what it finds: a sign-in verified before may insert a session afterwards, and
does (`late_sign_in`). `maybeRollSession` writes by id what it read before. The
break-glass account, where there is one, is an administrator that `breakglass ensure`
creates and the command line gives a new password; no identity resolves to it, and of
the two counts of administrators only that of Access Management has it (`Admins`,
`ActiveAdmins`). Left out: hashing, cookies, the provider's tokens, and a request that
fails between writing the password and deleting the sessions.

### ReviewClient

| State | Code |
|---|---|
| `table`, `applied` | the rows in the database, the requests of this tab carried out |
| `view`, `fetch` | the query cache of `useStatement` with the requests it reflects, the refetch under way |
| `editing`, `form` | the open row editor: seed, fields, what was touched |
| `cell`, `filter`, `selected`, `dialog`, `run` | an inline cell, the filter, the selection, the delete dialog and its loop |
| `call` | requests of the tab: sent, applied, refused or failed, waiting for their refetch, settled, closed |
| `claims` | history: what the last delete run said of a row |

The tab opens on any rows of `Extracted`. The API applies a request in one step
(`ReviewGate` takes that step apart); what is modelled is the tab. Somebody else's
edits, deletes and batches change rows beside it, answers and refetches arrive in any
order, a refetch that is under way is cancelled by the next as the query library does
it, which lets go on whoever waited for it. Left out: filters other than by
TRNTYPE, the category cell, the form for a new row, polling while a statement is
processed.

## 3. Runs

| Run | Question | Properties |
|---|---|---|
| `lifecycle_concurrent` | three overlapping, possibly dying requests against two runs, one crash | `TypeOK`, `OneRunPerStatement`, `LedgerExact`, `NoMidRunRevival`, `RowsArriveWithReview`, `ImplementsPromise` |
| `lifecycle_sequential` | one request after another against three runs with every outcome, both input fallbacks, two crashes | `NeverStranded`, `SettledIsSound`, `FallbacksAreDue`, `RetryMatchesFailure` |
| `lifecycle_split` | a parent and the two children of a split, under fairness | `Settles` |
| `reading` | the PDF store with two accounts, three statements, four days and one accident; two OCR runs over three pages; four LLM engines against answers with any field unreadable; two enrichment passes beside one another, with an edit and a change of settings | `FlagsAndFilesAgree`, `SweepIsExact`; `PagesWhole`, `SplitsTile`; `SalvageIsHeld`, `ChecksAgainstPrint`, `CostIsReported`, `RepairsAreSound`; `CacheIsHonest`, `SpendIsAccounted`, `HandEditsSurvive` |
| `review` | four requests, one after the other, on a statement in review and its re-extractions; a tab with two rows, two requests, three keystrokes or clicks, one act of somebody else | `VerdictsHold`, `ExportTies`, `OverrideSticks`; `OwnEditsShown`, `SelectionTracksDeletes`, `EditorIsFaithful` |
| `administration` | two pages and two processes under three changes of the settings; two people and the break-glass account, three requests, two at a time | `SettingsAgree`, `ChangesReachAll`; `AccountsAreSound`, `SessionsEnd`, `NeverLastDemoted` |
| `data_directory` | exports with a crash; backups with every failure of the three processes and a crash | `NothingHalfDone`, `OldExportsExpire`; `AllOrNothing`, `RestoreSettles`, `SchemaFitsBuild` |
| `cancel_race` | may a cancelled statement keep rows? | `CancelLeavesNoRows` is violated |
| `crash_after_commit` | are the rows in review those of one run? | `ReviewIsOneRun` is violated |
| `late_sign_in` | does a session end with the password it was issued under? | `SessionsFollowPassword` is violated |
| `access_shut_out` | does somebody who can sign in keep Access Management? | `AccessKept` is violated |
| `truncated_reply` | is whatever Anthropic bills on the ledger? | `BilledMeansBooked` is violated |

Several properties are conjunctions, named for what their parts say together:

| Property | Parts |
|---|---|
| `FallbacksAreDue` | no attempt follows one whose balance tied; a run goes on with less, or gives up, only after every fallback it was allowed |
| `SettledIsSound` | `VerifiedHasRows`: a verdict belongs to rows; `ConfirmedNeverHalts`: a confirmed date format is never asked for again |
| `VerdictsHold` | `TypeOK`, `VerdictIsCurrent`, `StraysAreCurrent`: verdict and stray count are those of the rows shown; `OverrideNeedsReview` |
| `FlagsAndFilesAgree` | `StoreTypeOK`, `FlagTellsDisk`: a row that promises its PDF has it; `NoOrphanFile`; `ReuploadHelps`: a re-upload restores a purged row, unless its account holds another, complete row of the same PDF |
| `SweepIsExact` | `SweepSparesUsed`, `SweepPurges`: nothing in use is taken, everything due is |
| `RepairsAreSound` | `RepairIsUnambiguous`: no other single repair ties as well; `SuspectsExplainDelta`: the breaks in the running balances behind the suspect rows add up to the difference |
| `SpendIsAccounted` | `SpendIsBooked`: charged = booked + in hand + thrown away by a call + refused by the database, so that a pass itself forgets or doubles nothing; `NoSpendPastCap` |
| `NothingHalfDone` | `OfferedIsWhole`, `RefusedLeavesNoTrace` |
| `AllOrNothing` | `ListedIsWhole`, `RestoreIsAtomic` |
| `SettingsAgree` | `RoutingFollowsKey`, `FetchedIsStored` |
| `EditorIsFaithful` | `NoStaleOverwrite`, `EditorKept` |
| `AccountsAreSound` | `TypeOK`; `OneFirstAdmin`: open registration makes one administrator |

Every property of a passing run also comes with at least one mutant: one definition with a
plausible bug (a dropped guard, a reset that is missing, a stale copy), under
which TLC finds the property violated.

### Bounds
*Lifecycle.* Statements never interact except through a split, so one statement
suffices elsewhere and three (parent and children) there. Two runs are the least
that can collide, be billed twice or revive one another's row; three allow a crash
and a retry before a third run starts from what they left, and more repeat the
same. Three requests are the least that strand a statement when they overlap.
`MaxAttempts = 2` has a retried and a final attempt, and behaves
like the code's three but for one more round; `MaxStalled = 1` is BullMQ's default.
Costs matter only to `LedgerExact`: a cost of 1 per attempt shows every lost or
doubled booking, and 0 keeps the ledger out of the other runs' state.
`lifecycle_concurrent` leaves transient and permanent LLM errors to
`StepThrows`, which has the same effect on a run's ending; the other outcomes
are all in `lifecycle_sequential`.

*Review.* Four requests are an edit, an override, a re-extraction and an export
in any order; readings of at most two rows have every shape the verdict tells
apart, and five row ids allow a second extraction and an insert. Inserts and
commits are not taken when ids run out.

*Attempt.* Up to three plain rows give two copies and a look-alike, a printed
balance before, between and after unprinted rows, and a sign flip that competes
with a drop. Odd rows and blurred header fields come one at a time (the period
and the balances also in pairs) next to a plain row, because notes add up and
never cancel. Two pages are the least whose headers can differ, two tries the
least that can be used up. A year of ten days leaves room for a date of the same
day in another year.

*Pages.* Three pages, of which a run may want all or the first two, give a page
without an account number before, between and after those with one, two accounts
that alternate, and a page read for a split child and for its parent. Two
configurations of GLM-OCR are the least whose pages could mix, a cache of two
entries evicts, a threshold of two opens the breaker within one page and its
retry, and a cap of two pages is passed by the whole PDF. Two runs and one
restart leave a cache another run has filled and one that was lost.

*Files.* Two accounts and three rows are a parent and its children, or uploads
of one PDF to two accounts and again to the first after a delete; two months of
two days with a window of one day give a file that is too young in a month whose
statements are too old. One accident is enough: the properties that hold after
one (`SweepPurges`) speak of a single sweep. The bound on rows keeps a place
for each upload under way.

*Enrichment.* Two passes over two rows, one of them a check, are the least of which one
can take what the other cached and one a payee the other has not. Three settings (all
local; cleansing on Anthropic with a model of the other family set for it; everything on
the router) use every branch of `resolveProcessLabel`. A cap of one call is reached by
the first. One edit and one change of the admin come between or beside them.

The two requests to the store, OCR runs or passes of `reading` are interchangeable,
hence its symmetry (`Interchange`): no step compares them or takes them in order, and
the run's properties are invariants and action properties.

*Data directory.* One export request of two files has slices and a zip to
refuse; requests share nothing but the statement, and one crash takes
the API or the worker between any two steps. One backup request at a time on
two names is a restore with its safety dump beside the dump; two chunks through
a pipe of one piece make `pg_restore` wait for `psql`, and let either stop with
the other half-way.

*Access.* Two people are an administrator and another who may become one, the
break-glass account a third administrator only one of the two counts knows; with
two requests at a time every check can meet every write. Two sessions are the changer's
own and one to end. Three requests are a sign-in and two that meet: two registrations,
a change and a roll, two changes, two role syncs. The two violations need no break-glass
account: one person and four requests, two people and six requests in turn.

*Settings.* One tab on each page, one address and none, one pinned process: what
is compared is whether copies are those stored. Three changes are a key, a
policy or pin, and the clearing; `Ttl = 1` lets a copy age once while it is in use.

*Review page.* Two rows are the one being edited and another; two requests are a
save that is answered while the next is under way, or a bulk edit beside a
delete. Rows of the tab are interchangeable, hence the symmetry (`RowSymmetry`), which
leaves the gate alone; no temporal property with fairness is checked under it.

Deadlock is not checked: once requests, runs, changes or days are used up, a
settled system really stops.

### Fairness
`FairSpec` of the lifecycle assumes weak fairness of each run's next step (a
worker that has picked a job up executes; LLM and OCR calls have timeouts), of
picking up waiting jobs (the worker polls), of backoff promotion, lock expiry
and the stalled-job check (BullMQ timers), and of the steps of a request under
way. Nothing makes an operator send a request, a process crash or BullMQ evict a
finished job. `Settles` and `NeverStranded` hold up to `Abandoned`: a job whose
workers died more than `maxStalledCount` times is failed by BullMQ, and no
handler of the code listens for that. `OutOfRuns` excuses only the bound on
runs.

`ExportSpec` makes the nightly sweep go on (a repeatable job). `BackupSpec` makes
the programs of a restore run and the API handle their exits, and nothing else: a
request may stop before and after the pipe. `Fairness` of `AdminSettings` lets
requests and reads under way end and time pass; nobody has to click or to read. In
`administration` it is asked of behaviours about the settings only. The other modules
assume none.

## 4. What the code does not keep

Five violations contradict a comment in the code, quoted in `PROJECT.json`:

1. `cancel_race`: cancel deletes the rows before it marks the row failed; a
   commit in between leaves its rows behind a cancelled statement.
2. `crash_after_commit`: a crash (or a failed audit write) after the commit runs
   the job again without a wipe, and rows that the second run reads differently
   are held twice.
3. `late_sign_in`: a sign-in that verified the old password creates its session after
   the change of the password deleted the sessions, and keeps it for 30 rolling days
   (`auth.ts:187`, against `auth.ts:244-246`).
4. `access_shut_out`: the guard of Access Management counts disabled administrators
   (`feature-access.ts:80`), so that the only one who can sign in may revoke it from
   himself (against `feature-access.ts:103-105`). It counts the break-glass account as
   well, which can sign in; `AccessKept` accepts it as a keeper.
5. `truncated_reply`: `AnthropicProvider.complete` throws on a billed reply that was cut
   off, or has no tool in it (`llm-client.ts:2159-2165`), before it says what the reply
   cost, so that the pass books nothing (against `enrichment.ts:348-352`).

Constants switch on interleavings the user interface does not offer but the
routes do not prevent. With them TLC refutes properties that hold otherwise:

| Switch | Refuted | What happens |
|---|---|---|
| `Overlap = TRUE` (lifecycle, three requests) | `NeverStranded` | a job queued and finished between the steps of a re-extract absorbs its enqueue |
| `Overlap = TRUE` (review) | `VerdictsHold`, `OverrideSticks`, `ExportTies` | `recomputeReconciliation` updates by id what it computed from an earlier read, and erases an override; an export between wipe and reset is empty |
| `EditAnytime = TRUE` (review) | `VerdictsHold` | rows added while an extraction is under way meet the verdict of its own rows |
| `SplitPurged = TRUE` (store) | `FlagsAndFilesAgree` | split does not look at `source_pdf_deleted`: the children claim a PDF that is gone, and the upload that should restore it stops at them |
| `Mingle = {"upload", "deletePdf"}` (store) | `FlagsAndFilesAgree` | a restored flag points at nothing |
| the sweep in `Mingle` (store) | `SweepIsExact` | it takes a file that has just come into use |
| `EditMidRun = TRUE` (enrichment) | `HandEditsSurvive` | rows are written by id minutes after they were read |
| `RolesOverlap = TRUE` (access) | `NeverLastDemoted` | two role syncs each count on the other administrator, against `docs/sso.md:51`; the count at `vibe-auth-users.ts:161` sets out to cover two logins at once |
| `ChangeMidRun = TRUE` (enrichment) | `CacheIsHonest` | a setting changes after the cache version was computed from the old one |
| `LoadsStraddle = TRUE` (settings) | `SettingsAgree` | a read that began before a change puts the old value into a copy after it |

Facts the models bring out that no property denies, because nothing in the
repository promises otherwise or because the property is stated around them:

* An attempt returns the notes of its first extraction with the rows of its LLM
  repair: what the repair answer lost or dated by fallback holds nothing.
  `SalvageIsHeld` leaves those rows out.
* Answers that Anthropic charged for but that were cut off, or whose reminder or
  repair failed, never reach the cost of the attempt. `CostIsReported` speaks of
  attempts that complete.
* A VibeOCR result with fewer pages than `total_pages` is taken as whole;
  `PagesWhole` speaks of GLM-OCR.
* The half-open breaker lets every waiting page through, although the comment at
  `glm-ocr-client.ts:215-218` speaks of the next request.
* A crash leaves an export row `<pending>` for good, or a file no row knows of.
* A restore that answers with an error after its commit has changed the database,
  and what others wrote between safety dump and restore is in neither.
* An inline cell compares with the row of the moment and may write a text that
  nobody typed (`TransactionGrid.tsx:1190`, against the comment at 1167); what is
  typed into a row editor while its own save is under way is dropped when the
  save closes it; a row whose deletion answers 404 stays on the page until the
  next refetch.
* The retention setting cannot be zero, although the page says that zero
  disables it (`LlmProviderAdminPage.tsx:1906`, `admin.ts:1562`).
* A booking of enrichment spend that the database refuses in the catch block is only
  logged (`enrichment.ts:575-582`): the spend is lost. The comment at 348 cannot mean
  this case, in which nothing can be written.
* A database fault between the INCR and the PEXPIRE of the log-in window leaves
  a counter without an end (listed under `hazards`).

## 5. Proofs

*The lifecycle.* TLAPS checks the following for any number of statements, runs, requests,
attempts and crashes, any costs, with requests overlapping or not, dying or
not. The only assumption is `LifecycleAssumption` (bounds are naturals, a job has
at least one attempt, a split makes at least two children).

* `TypeCorrect`: `Spec => []TypeOK`. `TypeOK` is not inductive by itself: a
  second attempt follows a first, so that `attempt` stays below 5, only because
  of where each program counter may be reached from, and a run past `idle`
  works on an actual statement. `Typed` adds both; `TypedInvariant` proves it with
  one lemma per action.
* `OneRunAtATime`: `OneRunPerStatement`. By `LockInv`: as long as live workers keep
  their locks, the lock of a statement is held by a run exactly while that run is
  live on it, and the job is then `active`. `PickJob` needs a `waiting` job, which by
  `LockInv` nobody holds; `RequeueStalled` and `RemoveJob` need a free lock.
* `SpendIsBookedOnce`: `LedgerExact`. Per run: nothing is booked before `persisted`,
  exactly `spent` after it, and `spent` no longer changes then. A booking is lost
  only if the row is gone, and a row that is gone never returns (`StatusMoves`),
  which needs `CreatedInvariant`: whatever a job, run or request refers to was
  created, so that a later `INSERT` cannot give a running job its row back.
* `FailedIsNotRevivedMidRun` (`NoMidRunRevival`), `RowsOnlyWithReview`
  (`RowsArriveWithReview`): from `Typed` and one case per action.
* `FallbacksStopAtTheBalance` (`FallbacksAreDue`). By `DueInv` a run that is calling or
  about to call again has nothing that ties, and one that has chosen something that does
  not tie has no fallback left; `ReturnIsDue` shows it of every way an attempt can
  lead on, whichever of provider and input method comes first.

* `KeepsThePromise`: `~LockMayLapse => (Spec => ImplementsPromise)`, the refinement
  of `StatementPromise`. Beside `Typed`, `LockInv` and `Created` it needs `Unanswered`:
  while a run is on its way to a terminal write, its statement is neither in review
  nor a question, or `setStatus`, which only asks whether the row failed, would take
  it back into processing. Only the commit and the halt of a run give those two
  statuses (`OnlyRunsAnswer`), and by `LockInv` that run would be the same one. The
  first write of a run begins (`WorkBegins`), its end or crash leaves (`WorkEnds`),
  what is between moves the statement only (`RunMoves`); a request that drops a row
  twice, or finds it gone, does not show.
* `RetriesMatchFailures`: `RetryMatchesFailure`, whatever overlaps or dies. `EndingInv`
  says that the ending of a run is the one its attempts saw, `HolderInv` that a run
  which holds a lock holds that of its own statement.
* `NobodyIsStranded` (`NeverStranded`) and `WhatSettledIsSound` (`SettledIsSound`), under
  `Orderly == ~Overlap /\ ~ApiMayCrash /\ ~LockMayLapse`: requests take turns and
  finish, live workers keep their locks. Workers may still crash, stall, be retried and
  give up at any step, and requests come at any point of a run. `SettleInv` has a
  conjunct for each reason why nothing is left over: `Covered` (an unsettled statement
  has a live job, a request that owes it one, or was abandoned by BullMQ), `SettledInv`
  (a run that is over has settled its statement), `RequestInv` (a request that has
  removed a job finds none until it queues its own), `VerdictBacked` and
  `FormatHeeded`. Each hypothesis is needed, by TLC's counterexamples for both
  properties: with overlapping requests a finished job absorbs the enqueue of a
  re-extract; a request that dies before its enqueue strands its statement, and one that
  dies between wiping the rows and marking the row leaves a verdict without rows; and a
  run that lost its lock works on where a cancel saw no job, and halts a statement
  whose format was confirmed under it.

*The attempt.* The third part of `ReadingProofs` is about any set of answers, with any
number of rows of any shape, any number of pages and of tries. The assumptions are
`AttemptAssumption` (pages, tries and days of a year are positive) and
`AnswerAssumption` (an answer has integer amounts and balances and natural days; a
figure that cannot be read is marked as such).

* `TypeCorrect`: `TypeOK`, and with it that an attempt never pays for more than
  four answers. That needs `Budget`: what was paid while the first extraction or
  the repair is under way is bounded by the number of the request, and only
  Anthropic charges.
* `CompletedCostsAreReported` (`CostIsReported`) from `FaultInv`: the last fault decides
  the outcome, an adopted answer reports all that was paid, and only a repair that
  throws leaves `fault` behind.
* `LostRowsAreHeld` (`SalvageIsHeld`) and `VerifiedAgainstPrint`
  (`ChecksAgainstPrint`) from `SourceInv`: `data` is what `Extraction` makes of an
  answer that parses, the source of the rows is that answer unless a repair was
  adopted, and the rows are its rows until the heuristic touches them. The case
  work is in `SalvageIsNoted` and `ExtractionIsFixed`: whichever field of a row
  cannot be taken as it stands leaves a note.
* `RepairsHitWhatIsWrong` (`RepairsAreSound`). `RowsInv` says that the rows of an
  attempt have their types and that its balances are integers, whatever salvage,
  merging and mapping did to the answer; TLC checked it on every state of the attempt
  the run reaches.
  For `RepairIsUnambiguous`: a flip moves the total by twice a row's cents
  (`FlipTotal`), a drop by once (`DropTotal`), so that what ties is the row the pass
  looked for (`RepairIsTheOne`), and dropping either of two equal lines exports the same
  (`DropExports`, by a bijection between the lines that remain). For
  `SuspectsExplainDelta`: the breaks of the running balances up to a row add up to what
  that row prints less what it should (`BreaksAddUp`), for otherwise a least row would
  fail. The sums of the model and of the library are first brought into one form.

*Review.* `ReviewGateProofs` is about any readings, patches, inserts and number of
requests. The assumption is `ReviewAssumption` (readings, patches and inserts have their
types).

* `VerdictsAreCurrent` (`VerdictsHold`) and `ExportsTie` (`ExportTies`), under
  `InTurn == ~Overlap /\ ~EditAnytime`, from `ReviewInv`: what a request has read of the
  statement is still so when it acts on it (`StepOK`), the job and the status go together
  (`WorkerOK`), and outside of a recomputation the verdict is that of the rows
  (`JudgementOK`). The extraction runs beside the requests, between any two of their
  steps. Before the proof, TLC checked `ReviewInv` on every state of the gate; with
  either switch on it refutes both properties.
* `OverridesStick` (`OverrideSticks`) needs only `~Overlap`: edits of a statement under
  work cannot erase an override either, because a recomputation that read the
  statement before its verdict was overridden would be a second request
  (`OverrideInv`).

*The PDF store.* `ReadingProofs` is first about any number of accounts, statements,
months, days and requests, under `Tidy`: only uploads overlap and no statement is split
whose PDF is purged.

* `FlagsTellTheDisk` (`FlagsAndFilesAgree`) and `SweepsAreExact` (`SweepIsExact`) from
  `StoreInv`: what an upload, a deletion or the sweep has read is so until it acts on
  it, rows are numbered in order, and of two rows of an account on one path the upload
  finds the flagged one first (`FlaggedFirst`). The least row of a set exists by the
  finiteness of its segments.
* Every part of `Tidy` is needed. TLC violates `FlagsAndFilesAgree` with `SplitPurged =
  TRUE`, and when uploads mingle with deletions of a PDF or a statement, or splits with
  either; it violates `SweepIsExact` when the sweep mingles with uploads or
  re-extractions.
* The proof changed a property. `ReuploadHelps` used to say that a re-upload always
  brings a purged PDF back. It does not if the account holds another complete
  row of the same file, in another month: account 2 uploaded the PDF itself and also
  received a slice of what account 1 uploaded a month before; after `delete-pdf` of that
  older file the slice has no PDF, and a re-upload to account 2 stops at its complete
  row. `routes/statements.ts:1127`, `services/statements.ts:103` and
  `StatementReviewPage.tsx:808` tell the operator to re-upload. It takes four rows, one
  more than the run has; with `MaxStatements = 4` TLC finds it too, and confirms the
  property as it is stated now.

*The pages.* The second part of `ReadingProofs` is about any number of pages, ranges,
accounts, configurations, runs and restarts, under `OcrAssumption` (bounds are positive,
ranges are pages of the PDF).

* `PagesAreWhole` (`PagesWhole`) from `OcrInv`: the pages read so far, followed by those to
  be read, are the range in order; the former were all read by the configuration of the
  run; and what the cache keeps under a key is the reading its key names. Neither what
  other runs put into the cache nor what is squeezed out of it matters.
* `SplitsAreTiles` (`SplitsTile`): a page has an owner as soon as any page names an account
  (`OwnersTile`), and the splits are the runs of equal owners (`SplitsAreRuns`): between two
  starts there is no change of owner, or a least page with another owner would be a
  start itself. `InOrder` puts a set of pages in order by how many are smaller;
  `Ordered` shows with the pigeonhole principle that it misses none.

*Enrichment.* `EnrichmentProofs` is about any number of passes, rows, payees,
categories, settings and prices. The assumptions are `EnrichmentAssumption` (finitely
many passes) and `ProvidersAssumption` (no model is called "unset" or "none").

* `EveryChargeIsAccounted` (`SpendIsAccounted`) holds without any condition: passes,
  edits and settings may interleave as they like. `Booked` says that the ledger, what
  the passes hold, what calls threw away and what the database refused add up to what
  was charged. That the third summand is not always zero is `truncated_reply`. The two
  sums run over a finite set; that they exist and change by what one summand changes is
  shown in `FiniteFacts` on a smallest subset for which it would fail (`MinimalSubset`,
  `SumExists`, `SumChange`), for want of induction.
* `CacheStaysHonest` (`CacheIsHonest`), while settings change between passes only:
  `Honest` follows an answer from the provider that was built for its process
  (`LabelIsBuilt`) to the key it is kept under.
* `TypedTextStays` (`HandEditsSurvive`), while rows are edited between passes only: what
  a pass is about to write, it read from rows nobody has edited (`HandsOff`).
* `EnrichmentInvariant` is `EnrichInv`, from which all three follow. TLC refutes
  `CacheIsHonest` with `ChangeMidRun = TRUE` and `HandEditsSurvive` with `EditMidRun =
  TRUE`.

*Files in the making.* `DataDirectoryProofs` is about any number of requests, files,
dumps, names and crashes.

* `ExportsAreWhole` (`NothingHalfDone`): a file that is being written is offered by
  nobody, and its path is set when it is not in the making any more
  (`InTheMaking`); a request that was refused had touched nothing (`Untouched`).
* `DumpsAreWhole` (`AllOrNothing`): a dump gets its name after its process has exited
  cleanly, a restore changes the tables in one transaction whichever end of the pipe
  stops first.
* `RestoresFitTheBuild` (`SchemaFitsBuild`), as long as no two restores run side by side
  (`OneRestore`, which an operator keeps and the route does not enforce): of two at once,
  one may speak for the tables of the other.

*Accounts.* The first half of `AdministrationProofs` is about any number of people,
requests and sessions. The assumption is `AccessAssumption` (finitely many people and
requests at a time); the break-glass account may be one of the people or not.

* `OneAdminFromRegistration`: `AccountsAreSound`. A request between its recount
  and its insert holds the lock alone (`LockInv`), whoever open registration made
  an administrator has a row (`OpenedThere`), and so a registration that saw no
  row on its recount inserts while nobody was ever made one (`InsertFresh`). The
  early count before the password is hashed plays no part.
* `CondemnedSessionsEnd` (`SessionsEnd`), with requests overlapping in any way, those
  that roll the session included. By `CondemnedWait` a session that a change condemned has
  a request on its way that will delete it, and one other than the request the
  session made itself. `NoneCondemned` says what the other steps leave alone: they
  condemn nothing and bring no row back.
* Sessions of sign-ins verified before a change are not condemned and are not ended: that
  they should be is `SessionsFollowPassword`, which `late_sign_in` refutes.

*Settings.* The second half of `AdministrationProofs` is about any number of tabs, nodes,
requests and reads under way. The assumption is `AdminAssumption`.

* `RoutesFollowTheKey` holds without any condition: without a key neither the policy
  nor a pin names Anthropic first, unless a person chose it so while there was none
  (`blind`), or a clearing is under way or broke off. `RoutingInv` says what a clearing
  at a given step has still to reset. The proof corrected the property: it used to
  excuse pins only, but with two tabs on the page of the providers a policy can be set
  without a key as well, from the page that has not heard of the clearing.
* `SettingsStayConsistent` (`SettingsAgree`), under `~LoadsStraddle`: by `CopyInv` a copy
  of the address shows the one stored unless a tab has written another and has yet to
  drop the copy, and a page that rests and calls itself current was fetched from
  such a copy. With `LoadsStraddle = TRUE` TLC refutes it.
* TLC checked `RoutingInv` and `CopyInv` before they were proved, with one tab on the page
  of the providers and with two.

*The review page.* `ReviewClientProofs` is about any number of rows, requests, keystrokes
and acts of others. The assumption is `ClientAssumption` (initial rows, filters and kinds of
requests have their types). `ClientInvariant` is `ClientInv`, which TLC checked on
every state of the tab: `NetInv`, `GridInv` (an open editor has a row on the screen and
differs from its seed in touched fields only) and the property of the selection itself.

* `OwnEditsAreShown` (`OwnEditsShown`): by `NetInv`, what the tab told its operator of is
  applied, is in what a refetch under way has read, and in the cache once no refetch is
  under way, whatever order answers and refetches come in.
* `SelectionFollowsDeletes` (`SelectionTracksDeletes`): what the last delete run said of a
  row is true of the selection, whatever is clicked or refetched beside it.
* `EditorsAreFaithful` (`EditorIsFaithful`): one case per action; what a save sends is what
  was touched, and only its author, its own save or the loss of its row closes an editor.

Each module has one lemma per action, or per way an action can end, an inductive
step that puts them together, and a temporal step at the end.

Only model-checked: liveness (`Settles`, `OldExportsExpire`, `RestoreSettles`,
`ChangesReachAll`), which rests on fairness and so on `ENABLED`, which the prover does
not handle, and `NeverLastDemoted`: with changes of roles in turn what is left of it is
the guard, and overlapping it does not hold (section 4). Every other property of a
passing run is proved, some under the hypotheses named above: switches as the runs have
them, whose other positions sections 4 and 5 describe, and that restores do not overlap,
which holds in the run because one request is under way at a time. `FiniteFacts` stands
in for induction over data, which the prover cannot instantiate.

## 6. Not modelled

* *Rate limits*: fixed windows of one counter. The one hazard, a window without
  an end after a crash between `INCR` and `PEXPIRE`, is refuted in two steps by
  any property of the window, and contradicts no line of the repository.
* *FITID and sequence numbers*: a hash of row fields, to a model an injection,
  and a count of equal rows of a day.
* *Exporters*, *FIDIR*, prompts, price table, text processing: formatting and
  data without state.
* *Accounts and companies*, the remaining administration routes and pages:
  one row read and written by one request.
* *Audit log*: inserts. Where a failing one matters (worker, export, restore) it
  is a failing step there.
* `image-batch` and `merge-extraction` of the extractor, which nothing the
  worker runs calls.
* *OCR under fairness*: that a reading ends follows from counters that only fall
  (polls, tries, pages, starts); as a temporal property over a shared cache it
  costs more than it says.

## 7. Plan

All components with state are modelled, and the safety properties of the passing runs are
proved but for `NeverLastDemoted`. What could follow:

1. The hypotheses: a repaired version of a route beside the code's (split that looks at
   the purge flag, `recomputeReconciliation` that writes only what is still current), to
   see which repair makes which hypothesis unnecessary.
2. The inline category cell and the form for a new row in `ReviewClient`.
