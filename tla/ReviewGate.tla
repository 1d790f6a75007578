---------------------------- MODULE ReviewGate ----------------------------
(***************************************************************************)
(* One extracted statement under review: the edits of its rows, the        *)
(* recomputation of its verdict, override and acknowledgement, the export  *)
(* gate, and the extraction that replaces all of it on a re-extract        *)
(* (routes/statements.ts, services/reconciliation.ts, services/exports.ts, *)
(* jobs/extraction.worker.ts).                                             *)
(*                                                                         *)
(* No request holds a lock or a transaction across its reads and writes,   *)
(* bulk edits excepted, so that each SELECT, INSERT, UPDATE and DELETE is  *)
(* a step.  The extraction is cut down to what the reviewer sees of it;    *)
(* its own hazards are the subject of StatementLifecycle.                  *)
(***************************************************************************)
EXTENDS GoldenRule, Sequences

CONSTANTS
    Readings,       \* what a run may read: [due, known, txs]
    Patches,        \* field changes an operator may send: [cents] or [inPeriod]
    Inserts,        \* rows an operator may add: [cents, inPeriod]
    Kinds,          \* the requests operators send
    MaxRequests,    \* bound: requests in a behaviour
    MaxRows,        \* bound: rows inserted in a behaviour
    Overlap,        \* may requests overlap, or does each await the last?
    EditAnytime     \* may rows be edited while an extraction is under way?

RequestKind == {"patch", "bulk", "insert", "remove", "recompute", "override",
                "acknowledge", "export", "reextract"}

Tx == [cents : Int, inPeriod : BOOLEAN]
Patch == [cents : Int \ {0}] \cup [inPeriod : BOOLEAN]

ASSUME ReviewAssumption ==
    /\ MaxRequests \in Nat /\ MaxRows \in Nat
    /\ Patches \subseteq Patch
    /\ Inserts \subseteq {t \in Tx : t.cents # 0}
    /\ Kinds \subseteq RequestKind
    /\ \A x \in Readings :
          /\ x.due \in Int /\ x.known \in BOOLEAN
          /\ ~x.known => x.due = 0
          /\ x.txs \in Seq(Tx)
    /\ Overlap \in BOOLEAN /\ EditAnytime \in BOOLEAN

RowIds == 1..MaxRows
Row == [id : RowIds, cents : Int, inPeriod : BOOLEAN]
Requests == 1..MaxRequests

VARIABLES
    status,     \* statements.status, as far as requests tell its values apart
    balances,   \* closing less opening balance; 0 and unknown while either is null
    rows,       \* the transactions of the statement
    verdict,    \* statements.reconciliation_status
    strays,     \* statements.period_bounds_violations
    held,       \* statements.review_hold_reason is set
    acked,      \* statements.review_hold_acknowledged
    worker,     \* the extraction job and its run
    req,        \* each request's program counter and locals
    files,      \* the exports recorded so far
    nextRow     \* ids handed out so far, plus one

stmtVars == <<status, balances, verdict, strays, held, acked>>
vars == <<status, balances, rows, verdict, strays, held, acked, worker, req, files, nextRow>>

Balances == [due : Int, known : BOOLEAN]
Verdict == {"pending", "verified", "discrepancy", "overridden"}

\* What a request remembers of the rows it read.
Snapshot == [status : {"uploaded", "extracting", "review", "failed"},
             verdict : Verdict, balances : Balances, strays : Nat,
             held : BOOLEAN, acked : BOOLEAN]

NoReading == [due |-> 0, known |-> FALSE, txs |-> <<>>]

Statement == [status |-> status, verdict |-> verdict, balances |-> balances,
              strays |-> strays, held |-> held, acked |-> acked]

FreshRow == [status |-> "uploaded", verdict |-> "pending",
             balances |-> [due |-> 0, known |-> FALSE], strays |-> 0,
             held |-> FALSE, acked |-> FALSE]

IdleReq == [pc |-> "idle", kind |-> "recompute", targets |-> {}, edit |-> <<>>,
            seen |-> FreshRow, found |-> {}]

TypeOK ==
    /\ Statement \in Snapshot
    /\ rows \subseteq Row
    /\ \A t, u \in rows : t.id = u.id => t = u
    /\ worker.pc \in {"idle", "queued", "working", "commit"}
    /\ worker.reading \in Readings \cup {NoReading}
    /\ \A q \in Requests :
          /\ req[q].pc \in {"idle", "edit", "readStatement", "readRows", "write",
                            "override", "acknowledge", "render", "remove", "wipe",
                            "reset", "enqueue", "done"}
          /\ req[q].kind \in RequestKind
          /\ req[q].targets \subseteq RowIds
          /\ req[q].edit \in Patches \cup Inserts \cup {<<>>}
          /\ req[q].seen \in Snapshot
          /\ req[q].found \subseteq Row
    /\ files \subseteq [verdict : Verdict, held : BOOLEAN, acked : BOOLEAN, ties : BOOLEAN]
    /\ nextRow \in 1..(MaxRows + 1)

Init ==
    /\ status = "uploaded"
    /\ balances = [due |-> 0, known |-> FALSE]
    /\ rows = {}
    /\ verdict = "pending" /\ strays = 0
    /\ held = FALSE /\ acked = FALSE
    /\ worker = [pc |-> "queued", reading |-> NoReading]
    /\ req = [q \in Requests |-> IdleReq]
    /\ files = {}
    /\ nextRow = 1

-----------------------------------------------------------------------------
(* The extraction.                                                         *)

\* A job is picked up: the statement is under way.
WorkerStarts ==
    /\ worker.pc = "queued"
    /\ worker' = [worker EXCEPT !.pc = "working"]
    /\ status' = "extracting"
    /\ UNCHANGED <<balances, rows, verdict, strays, held, acked, req, files, nextRow>>

\* The chosen attempt's balances and period are stored first.
WorkerTotals ==
    /\ worker.pc = "working"
    /\ \E x \in Readings :
          /\ worker' = [pc |-> "commit", reading |-> x]
          /\ balances' = [due |-> x.due, known |-> x.known]
    /\ UNCHANGED <<status, rows, verdict, strays, held, acked, req, files, nextRow>>

\* The rows of a reading under fresh ids.
NewRows(x) ==
    {[id |-> nextRow + i - 1, cents |-> x.txs[i].cents, inPeriod |-> x.txs[i].inPeriod] :
        i \in DOMAIN x.txs}

\* A balance or an amount that could not be read, a row that could not be saved
\* and other doubts (low confidence, an automatic repair) hold the statement.
HeldFor(x, skipped, doubts) ==
    \/ ~x.known
    \/ \E i \in DOMAIN x.txs : x.txs[i].cents = 0
    \/ skipped # {}
    \/ doubts

\* One database transaction: rows, verdict, hold and status.  The verdict is
\* that of the reading, also when the database refuses some of its rows.
WorkerCommits ==
    /\ worker.pc = "commit"
    /\ status = "extracting"
    /\ LET x == worker.reading
           new == NewRows(x) IN
       /\ nextRow + Len(x.txs) <= MaxRows + 1
       /\ \E skipped \in {s \in SUBSET new : Cardinality(s) <= 1}, doubts \in BOOLEAN :
             /\ rows' = rows \cup (new \ skipped)
             /\ held' = HeldFor(x, skipped, doubts)
       /\ verdict' = reconcileGoldenRule(x.due, new)
       /\ strays' = periodBoundsViolations(new)
       /\ nextRow' = nextRow + Len(x.txs)
    /\ acked' = FALSE
    /\ status' = "review"
    /\ worker' = [pc |-> "idle", reading |-> NoReading]
    /\ UNCHANGED <<balances, req, files>>

WorkerFails ==
    /\ worker.pc \in {"working", "commit"}
    /\ status' = "failed"
    /\ worker' = [pc |-> "idle", reading |-> NoReading]
    /\ UNCHANGED <<balances, rows, verdict, strays, held, acked, req, files, nextRow>>

Worker == WorkerStarts \/ WorkerTotals \/ WorkerCommits \/ WorkerFails

-----------------------------------------------------------------------------
(* Requests.                                                               *)

InFlight(q) == req[q].pc \notin {"idle", "done"}

MayStart(q, kind) ==
    /\ kind \in Kinds
    /\ req[q].pc = "idle"
    /\ \A k \in 1..(q - 1) : req[k].pc # "idle"
    /\ Overlap \/ \A k \in Requests : ~InFlight(k)

\* The routes check no status; the review page offers edits of what it shows.
MayEdit == EditAnytime \/ status = "review"

Start(q, kind, pc, targets, edit) ==
    req' = [req EXCEPT ![q] = [IdleReq EXCEPT !.pc = pc, !.kind = kind,
                               !.targets = targets, !.edit = edit]]

Goto(q, pc) == req' = [req EXCEPT ![q].pc = pc]
Finish(q) == req' = [req EXCEPT ![q] = [IdleReq EXCEPT !.pc = "done"]]

Amend(t, edit) == [f \in DOMAIN t |-> IF f \in DOMAIN edit THEN edit[f] ELSE t[f]]

\* Mutant form: the amended row is added and the old one stays.
AmendedCopies(q) ==
    rows \cup {Amend(t, req[q].edit) : t \in {u \in rows : u.id \in req[q].targets}}

\* The rows once the UPDATEs of request q have landed.
Amended(q) == {IF t.id \in req[q].targets THEN Amend(t, req[q].edit) ELSE t : t \in rows}

\* A bulk edit runs in one database transaction: until it commits, only it sees
\* its changes, and it holds the locks of the rows it changes.
InBulk(q) == req[q].kind = "bulk" /\ req[q].pc \in {"readStatement", "readRows", "write"}
RowsSeenBy(q) == IF InBulk(q) THEN Amended(q) ELSE rows
Unlocked(ids) == \A k \in Requests : InBulk(k) => ids \cap req[k].targets = {}

\* A patch that changes nothing returns at once.
StartPatch(q, t, edit) ==
    /\ MayStart(q, "patch") /\ MayEdit
    /\ Amend(t, edit) # t
    /\ Start(q, "patch", "edit", {t.id}, edit)
    /\ UNCHANGED <<stmtVars, rows, worker, files, nextRow>>

StartBulk(q, changed, edit) ==
    /\ MayStart(q, "bulk") /\ MayEdit
    /\ changed # {} /\ \A t \in changed : Amend(t, edit) # t
    /\ Start(q, "bulk", "edit", {t.id : t \in changed}, edit)
    /\ UNCHANGED <<stmtVars, rows, worker, files, nextRow>>

StartInsert(q, edit) ==
    /\ MayStart(q, "insert") /\ MayEdit
    /\ Start(q, "insert", "edit", {}, edit)
    /\ UNCHANGED <<stmtVars, rows, worker, files, nextRow>>

StartRemove(q, t) ==
    /\ MayStart(q, "remove") /\ MayEdit
    /\ Start(q, "remove", "edit", {t.id}, <<>>)
    /\ UNCHANGED <<stmtVars, rows, worker, files, nextRow>>

StartRecompute(q) ==
    /\ MayStart(q, "recompute") /\ MayEdit
    /\ Start(q, "recompute", "readStatement", {}, <<>>)
    /\ UNCHANGED <<stmtVars, rows, worker, files, nextRow>>

\* Only a statement in review has a reconciliation to override.
StartOverride(q) ==
    /\ MayStart(q, "override")
    /\ status = "review"
    /\ Start(q, "override", "override", {}, <<>>)
    /\ UNCHANGED <<stmtVars, rows, worker, files, nextRow>>

StartAcknowledge(q) ==
    /\ MayStart(q, "acknowledge")
    /\ held
    /\ Start(q, "acknowledge", "acknowledge", {}, <<>>)
    /\ UNCHANGED <<stmtVars, rows, worker, files, nextRow>>

\* fetchStatementContext reads the statement first and the rows later.
StartExport(q) ==
    /\ MayStart(q, "export")
    /\ req' = [req EXCEPT ![q] = [IdleReq EXCEPT !.pc = "render", !.kind = "export",
                                                !.seen = Statement]]
    /\ UNCHANGED <<stmtVars, rows, worker, files, nextRow>>

StartReExtract(q) ==
    /\ MayStart(q, "reextract")
    /\ Start(q, "reextract", "remove", {}, <<>>)
    /\ UNCHANGED <<stmtVars, rows, worker, files, nextRow>>

StartRequest(q) ==
    \/ \E t \in rows, edit \in Patches : StartPatch(q, t, edit)
    \/ \E changed \in SUBSET rows, edit \in Patches : StartBulk(q, changed, edit)
    \/ \E edit \in Inserts : StartInsert(q, edit)
    \/ \E t \in rows : StartRemove(q, t)
    \/ StartRecompute(q) \/ StartOverride(q) \/ StartAcknowledge(q)
    \/ StartExport(q) \/ StartReExtract(q)

\* Mutant form: DELETE leaves the verdict to the next edit.
UnlessRemoved(kind) == kind # "remove"

\* Every edit of the rows is followed by recomputeReconciliation.
Recomputes(kind) == kind \in {"patch", "bulk", "insert", "remove"}

\* The UPDATE, INSERT or DELETE of an edit.
EditRows(q) ==
    /\ req[q].pc = "edit"
    /\ Unlocked(req[q].targets)
    /\ CASE req[q].kind = "patch" -> rows' = Amended(q) /\ UNCHANGED nextRow
         [] req[q].kind = "remove" ->
              rows' = {t \in rows : t.id \notin req[q].targets} /\ UNCHANGED nextRow
         [] req[q].kind = "insert" ->
              /\ nextRow <= MaxRows
              /\ rows' = rows \cup {[id |-> nextRow, cents |-> req[q].edit.cents,
                                     inPeriod |-> req[q].edit.inPeriod]}
              /\ nextRow' = nextRow + 1
         [] req[q].kind = "bulk" -> UNCHANGED <<rows, nextRow>>
    /\ IF Recomputes(req[q].kind) THEN Goto(q, "readStatement") ELSE Finish(q)
    /\ UNCHANGED <<stmtVars, worker, files>>

\* recomputeReconciliation reads the statement ...
ReadStatement(q) ==
    /\ req[q].pc = "readStatement"
    /\ IF balances.known
       THEN /\ req' = [req EXCEPT ![q].pc = "readRows", ![q].seen = Statement]
            /\ UNCHANGED rows
       ELSE /\ Finish(q)
            /\ rows' = RowsSeenBy(q)
    /\ UNCHANGED <<stmtVars, worker, files, nextRow>>

\* ... then its rows ...
ReadRows(q) ==
    /\ req[q].pc = "readRows"
    /\ req' = [req EXCEPT ![q].pc = "write", ![q].found = RowsSeenBy(q)]
    /\ UNCHANGED <<stmtVars, rows, worker, files, nextRow>>

\* Mutant form: an edit re-judges an overridden statement like any other.
NeverSticky(seen) == FALSE

\* An override is not downgraded by an edit.
Sticky(seen) == seen.verdict = "overridden"

\* Mutant form: an overridden statement returns before its count is refreshed.
StaleStrays(seen, n) == IF Sticky(seen) THEN strays ELSE n

StoredStrays(seen, n) == n

\* ... and stores the verdict of what it read, unless nothing changed.
WriteVerdict(q) ==
    /\ req[q].pc = "write"
    /\ LET seen == req[q].seen
           result == reconcileGoldenRule(seen.balances.due, req[q].found)
           violations == periodBoundsViolations(req[q].found)
           changed == \/ violations # seen.strays
                      \/ ~Sticky(seen) /\ result # seen.verdict IN
       /\ strays' = IF changed THEN StoredStrays(seen, violations) ELSE strays
       /\ verdict' = IF changed /\ ~Sticky(seen) THEN result ELSE verdict
    /\ rows' = RowsSeenBy(q)
    /\ Finish(q)
    /\ UNCHANGED <<status, balances, held, acked, worker, files, nextRow>>

\* overrideReconciliation: an UPDATE by id.
OverrideVerdict(q) ==
    /\ req[q].pc = "override"
    /\ verdict' = "overridden"
    /\ Finish(q)
    /\ UNCHANGED <<status, balances, rows, strays, held, acked, worker, files, nextRow>>

AcknowledgeHold(q) ==
    /\ req[q].pc = "acknowledge"
    /\ acked' = TRUE
    /\ Finish(q)
    /\ UNCHANGED <<status, balances, rows, verdict, strays, held, worker, files, nextRow>>

\* Mutant form: a gate without the review hold.
UnheldGate(seen) == seen.status = "review" /\ seen.verdict \in {"verified", "overridden"}

assertExportable(seen) ==
    /\ seen.status = "review"
    /\ seen.verdict \in {"verified", "overridden"}
    /\ seen.held => seen.acked

\* Read the rows, pass the gate, render and record the file.
RenderExport(q) ==
    /\ req[q].pc = "render"
    /\ LET seen == req[q].seen IN
       files' = IF ~assertExportable(seen) THEN files
                ELSE files \cup
                  {[verdict |-> seen.verdict, held |-> seen.held, acked |-> seen.acked,
                    ties |-> reconcileGoldenRule(seen.balances.due, rows) = "verified"]}
    /\ Finish(q)
    /\ UNCHANGED <<stmtVars, rows, worker, nextRow>>

\* BullMQ refuses to remove the job of a run under way: 409.
RemoveJob(q) ==
    /\ req[q].pc = "remove"
    /\ IF worker.pc \in {"working", "commit"}
       THEN Finish(q) /\ UNCHANGED worker
       ELSE Goto(q, "wipe") /\ worker' = [worker EXCEPT !.pc = "idle"]
    /\ UNCHANGED <<stmtVars, rows, files, nextRow>>

WipeRows(q) ==
    /\ req[q].pc = "wipe"
    /\ Unlocked({t.id : t \in rows})
    /\ rows' = {}
    /\ Goto(q, "reset")
    /\ UNCHANGED <<stmtVars, worker, files, nextRow>>

\* Mutant form: re-extract leaves the old verdict behind.
KeptVerdict == verdict

\* An override never carries over to a new run.
ResetVerdict == "pending"

ResetStatement(q) ==
    /\ req[q].pc = "reset"
    /\ status' = "uploaded"
    /\ verdict' = ResetVerdict
    /\ strays' = 0
    /\ Goto(q, "enqueue")
    /\ UNCHANGED <<balances, rows, held, acked, worker, files, nextRow>>

Enqueue(q) ==
    /\ req[q].pc = "enqueue"
    /\ worker' = IF worker.pc = "idle" THEN [worker EXCEPT !.pc = "queued"] ELSE worker
    /\ Finish(q)
    /\ UNCHANGED <<stmtVars, rows, files, nextRow>>

RequestStep(q) ==
    \/ EditRows(q) \/ ReadStatement(q) \/ ReadRows(q) \/ WriteVerdict(q)
    \/ OverrideVerdict(q) \/ AcknowledgeHold(q) \/ RenderExport(q)
    \/ RemoveJob(q) \/ WipeRows(q) \/ ResetStatement(q) \/ Enqueue(q)

Next == Worker \/ \E q \in Requests : StartRequest(q) \/ RequestStep(q)

Spec == Init /\ [][Next]_vars

-----------------------------------------------------------------------------
(* Properties.                                                             *)

AtRest == \A q \in Requests : ~InFlight(q)

Judged == AtRest /\ status = "review" /\ balances.known /\ ~held

\* While nobody is at work on it, a statement in review that no doubt holds back
\* shows the verdict the Golden Rule gives its rows now, whatever sequence of
\* edits, re-extractions and recomputations led there.
VerdictIsCurrent ==
    Judged /\ verdict # "overridden" =>
        verdict = reconcileGoldenRule(balances.due, rows)

\* Its count of rows dated outside the period is current too, an overridden
\* statement included.
StraysAreCurrent == Judged => strays = periodBoundsViolations(rows)

\* Every file handed out balances to the cent, unless an operator overrode the
\* verdict or acknowledged the doubts that held the statement back.
ExportTies ==
    \A f \in files : f.ties \/ f.verdict = "overridden" \/ (f.held /\ f.acked)

\* An override stays until a re-extraction replaces the rows it was given for:
\* no edit erases it.
OverrideSticks ==
    [][verdict = "overridden" => verdict' = "overridden" \/ status' = "uploaded"]_vars

\* An override is one of rows that were extracted and can be looked at; it never
\* waits for a run to come and then waves its result through.
OverrideNeedsReview == verdict = "overridden" => status = "review" \/ ~AtRest

\* What is stored of a statement's judgement fits the statement.
VerdictsHold == TypeOK /\ VerdictIsCurrent /\ StraysAreCurrent /\ OverrideNeedsReview

=============================================================================
