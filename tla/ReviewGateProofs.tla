------------------------- MODULE ReviewGateProofs -------------------------
(***************************************************************************)
(* Proofs about ReviewGate: while operators' requests take turns and edit  *)
(* only what is in review, the stored verdict is that of the rows, no file *)
(* leaves the gate unbalanced and unanswered for, and no edit, at whatever *)
(* time, erases an override.  The extraction runs beside the requests and  *)
(* may start, store and fail between any two of their steps.               *)
(***************************************************************************)
EXTENDS ReviewGate, FiniteSetTheorems, TLAPS

\* One request at a time, and edits only of a statement in review.
InTurn == ~Overlap /\ ~EditAnytime

RequestState ==
    [pc : {"idle", "edit", "readStatement", "readRows", "write", "override",
           "acknowledge", "render", "remove", "wipe", "reset", "enqueue", "done"},
     kind : RequestKind, targets : SUBSET RowIds, edit : Patches \cup Inserts \cup {<<>>},
     seen : Snapshot, found : SUBSET Row]

WorkerState == [pc : {"idle", "queued", "working", "commit"},
                reading : Readings \cup {NoReading}]

FileRecord == [verdict : Verdict, held : BOOLEAN, acked : BOOLEAN, ties : BOOLEAN]

USE DEF WorkerState, FileRecord

\* Every id is handed out once.
Keyed(txs) == txs \subseteq Row /\ \A t, u \in txs : t.id = u.id => t = u

RowsOK ==
    /\ Keyed(rows) /\ nextRow \in 1..(MaxRows + 1)
    /\ \A t \in rows : t.id < nextRow

\* What a request sees of the rows.
SeenBy(p) ==
    IF p.kind = "bulk" /\ p.pc \in {"readStatement", "readRows", "write"}
    THEN {IF t.id \in p.targets THEN Amend(t, p.edit) ELSE t : t \in rows}
    ELSE rows

StatementOK ==
    /\ status \in {"uploaded", "extracting", "review", "failed"}
    /\ verdict \in Verdict /\ balances \in Balances /\ strays \in Nat
    /\ held \in BOOLEAN /\ acked \in BOOLEAN

Typed ==
    /\ StatementOK /\ RowsOK
    /\ worker \in WorkerState
    /\ worker.pc = "commit" => worker.reading \in Readings
    /\ req \in [Requests -> RequestState]
    /\ files \subseteq FileRecord

\* The job and the status go together.
WorkerOK ==
    /\ worker.pc = "queued" => status = "uploaded"
    /\ worker.pc \in {"working", "commit"} <=> status = "extracting"
    /\ worker.pc = "commit" =>
          balances = [due |-> worker.reading.due, known |-> worker.reading.known]
    /\ status # "review" => rows = {} /\ verdict # "overridden"

OneAtATime == \A q, k \in Requests : InFlight(q) /\ InFlight(k) => q = k

EditKind == {"patch", "bulk", "insert", "remove"}
Judging == {"readStatement", "readRows", "write"}

\* What each step of a request knows of the statement it works on.
StepOK(p) ==
    /\ p.pc = "edit" => p.kind \in EditKind
    /\ p.pc = "edit" /\ p.kind \in {"patch", "bulk"} => p.edit \in Patches
    /\ p.pc = "edit" /\ p.kind = "insert" => p.edit \in Inserts
    /\ p.pc \in {"edit", "override"} \cup Judging => status = "review"
    /\ p.pc \in Judging => p.kind \in EditKind \cup {"recompute"}
    /\ p.pc \in Judging /\ p.kind = "bulk" => p.edit \in Patches
    /\ p.pc \in {"readRows", "write"} => p.seen = Statement /\ balances.known
    /\ p.pc = "write" => p.found = SeenBy(p)
    /\ p.pc = "render" /\ p.seen.status = "review" => p.seen = Statement
    /\ p.pc \in {"wipe", "reset", "enqueue"} => worker.pc = "idle"
    /\ p.pc = "reset" => rows = {}
    /\ p.pc = "enqueue" => status = "uploaded"

\* Outside of such a request the judgement is that of the rows.
JudgementOK ==
    status = "review" /\ ~held =>
        /\ balances.known
        /\ (\A q \in Requests : req[q].pc \notin Judging \cup {"reset"}) =>
              /\ verdict = "overridden" \/ verdict = reconcileGoldenRule(balances.due, rows)
              /\ strays = periodBoundsViolations(rows)

ReviewInv ==
    /\ Typed /\ WorkerOK /\ OneAtATime /\ (\A q \in Requests : StepOK(req[q]))
    /\ JudgementOK /\ ExportTies

\* An amended row is a row, with its id.
LEMMA AmendedRow ==
    ASSUME NEW t \in Row, NEW e \in Patches
    PROVE  Amend(t, e) \in Row /\ Amend(t, e).id = t.id
<1>1. e \in Patch
  BY ReviewAssumption
<1>2. t = [id |-> t.id, cents |-> t.cents, inPeriod |-> t.inPeriod]
      /\ t.id \in RowIds /\ t.cents \in Int /\ t.inPeriod \in BOOLEAN
  BY DEF Row
<1>d. DOMAIN t = {"id", "cents", "inPeriod"}
  BY <1>2
<1>3. CASE e \in [cents : Int \ {0}]
  <2>1. DOMAIN e = {"cents"} /\ e["cents"] \in Int
    BY <1>3
  <2>2. Amend(t, e) = [id |-> t.id, cents |-> e["cents"], inPeriod |-> t.inPeriod]
    BY <1>d, <2>1 DEF Amend
  <2> QED BY <1>2, <2>1, <2>2 DEF Row
<1>4. CASE e \in [inPeriod : BOOLEAN]
  <2>1. DOMAIN e = {"inPeriod"} /\ e["inPeriod"] \in BOOLEAN
    BY <1>4
  <2>2. Amend(t, e) = [id |-> t.id, cents |-> t.cents, inPeriod |-> e["inPeriod"]]
    BY <1>d, <2>1 DEF Amend
  <2> QED BY <1>2, <2>1, <2>2 DEF Row
<1> QED BY <1>1, <1>3, <1>4 DEF Patch

\* A set of rows with ids of their own is finite, so that its strays have a number.
LEMMA KeyedIsFinite ==
    ASSUME NEW txs, Keyed(txs)
    PROVE  IsFiniteSet(txs) /\ periodBoundsViolations(txs) \in Nat
<1> DEFINE f == [t \in txs |-> t.id]
<1>1. IsFiniteSet(RowIds)
  BY ReviewAssumption, FS_Interval DEF RowIds
<1>2. f \in [txs -> RowIds] /\ \A t, u \in txs : f[t] = f[u] => t = u
  BY DEF Keyed, Row
<1> HIDE DEF f
<1>3. f \in Injection(txs, RowIds)
  BY <1>2 DEF Injection, IsInjective
<1>4. IsFiniteSet(txs)
  BY <1>1, <1>3, FS_Injection
<1>5. {t \in txs : ~t.inPeriod} \in SUBSET txs
  OBVIOUS
<1>6. IsFiniteSet({t \in txs : ~t.inPeriod})
  BY <1>4, <1>5, FS_Subset
<1> QED BY <1>4, <1>6, FS_CardinalityType DEF periodBoundsViolations

\* The rows with some of them amended are rows too, under the same ids.
LEMMA AmendedRows ==
    ASSUME RowsOK, NEW targets, NEW e \in Patches,
           NEW txs, txs = {IF t.id \in targets THEN Amend(t, e) ELSE t : t \in rows}
    PROVE  Keyed(txs) /\ \A t \in txs : t.id < nextRow
<1>1. /\ rows \subseteq Row /\ \A t \in rows : t.id < nextRow
      /\ \A t, u \in rows : t.id = u.id => t = u
  BY DEF RowsOK, Keyed
<1> DEFINE new(t) == IF t.id \in targets THEN Amend(t, e) ELSE t
<1>2. \A t \in rows : new(t) \in Row /\ new(t).id = t.id
  BY <1>1, AmendedRow
<1>3. txs = {new(t) : t \in rows}
  OBVIOUS
<1> HIDE DEF new
<1>4. \A x \in txs : \E t \in rows : x = new(t)
  BY <1>3
<1>5. \A x \in txs : x \in Row /\ x.id < nextRow
  BY <1>1, <1>2, <1>4
<1>6. ASSUME NEW x \in txs, NEW y \in txs, x.id = y.id PROVE x = y
  <2>1. PICK t \in rows, u \in rows : x = new(t) /\ y = new(u)
    BY <1>4
  <2>2. t = u
    BY <1>1, <1>2, <1>6, <2>1
  <2> QED BY <2>1, <2>2
<1> QED BY <1>5, <1>6 DEF Keyed

\* So do the rows a request sees.
LEMMA SeenRows ==
    ASSUME RowsOK, NEW p, p.pc \in Judging /\ p.kind = "bulk" => p.edit \in Patches
    PROVE  Keyed(SeenBy(p)) /\ \A t \in SeenBy(p) : t.id < nextRow
<1>1. CASE p.kind = "bulk" /\ p.pc \in Judging
  BY <1>1, AmendedRows DEF SeenBy, Judging
<1>2. CASE ~(p.kind = "bulk" /\ p.pc \in Judging)
  BY <1>2 DEF SeenBy, Judging, RowsOK
<1> QED BY <1>1, <1>2

\* A request that rests asks nothing of the statement.
LEMMA AtRestOK ==
    ASSUME NEW p, p.pc \in {"idle", "done", "acknowledge", "remove"}
    PROVE  StepOK(p)
BY DEF StepOK, Judging

\* A request at rest has the shape of one.
LEMMA IdleRequest ==
    /\ IdleReq \in RequestState
    /\ [IdleReq EXCEPT !.pc = "done"] \in RequestState
<1>1. FreshRow \in Snapshot
  BY DEF FreshRow, Snapshot, Verdict, Balances
<1>2. IdleReq \in RequestState
  BY <1>1 DEF IdleReq, RequestState, RequestKind
<1> QED BY <1>2 DEF RequestState

\* A step of the only request under way.
LEMMA Served ==
    ASSUME ReviewInv, NEW q \in Requests, NEW p \in RequestState,
           req' = [req EXCEPT ![q] = p],
           \A k \in Requests : k # q => ~InFlight(k),
           StatementOK', RowsOK', WorkerOK', StepOK(p)', ExportTies',
           worker' \in WorkerState,
           worker'.pc = "commit" => worker'.reading \in Readings,
           files' \subseteq FileRecord,
           status' = "review" /\ ~held' =>
              /\ balances'.known
              /\ p.pc \notin Judging \cup {"reset"} =>
                    /\ verdict' = "overridden" \/ verdict' = reconcileGoldenRule(balances'.due, rows')
                    /\ strays' = periodBoundsViolations(rows')
    PROVE  ReviewInv'
<1>0. req \in [Requests -> RequestState]
  BY DEF ReviewInv, Typed
<1>1. /\ req'[q] = p /\ req' \in [Requests -> RequestState]
      /\ \A k \in Requests : k # q => req'[k] = req[k] /\ req[k].pc \in {"idle", "done"}
  BY <1>0 DEF InFlight
<1>2. Typed'
  BY <1>1 DEF Typed
<1>3. OneAtATime'
  BY <1>1 DEF OneAtATime, InFlight
<1>4. ASSUME NEW k \in Requests PROVE StepOK(req[k])'
  <2>1. PICK x : x = req'[k]
    OBVIOUS
  <2>2. CASE k = q
    <3>1. x = p
      BY <1>1, <2>1, <2>2
    <3> QED BY <2>1, <3>1
  <2>3. CASE k # q
    <3>1. x.pc \in {"idle", "done"}
      BY <1>1, <2>1, <2>3
    <3>2. StepOK(x)'
      BY <3>1 DEF StepOK, Judging
    <3> QED BY <2>1, <3>2
  <2> QED BY <2>2, <2>3
<1>5. JudgementOK'
  <2>1. (\A k \in Requests : req'[k].pc \notin Judging \cup {"reset"}) => p.pc \notin Judging \cup {"reset"}
    BY <1>1
  <2> QED BY <2>1 DEF JudgementOK
<1> QED BY <1>2, <1>3, <1>4, <1>5 DEF ReviewInv

\* The same for a step that only moves the request on.
LEMMA Moved ==
    ASSUME ReviewInv, NEW q \in Requests, NEW p \in RequestState,
           req' = [req EXCEPT ![q] = p],
           \A k \in Requests : k # q => ~InFlight(k),
           UNCHANGED <<stmtVars, rows, worker, files, nextRow>>, StepOK(p),
           \/ req[q].pc \notin Judging \cup {"reset"}
           \/ p.pc \in Judging \/ ~balances.known
    PROVE  ReviewInv'
<1>0. UNCHANGED <<status, balances, verdict, strays, held, acked, rows, worker, files, nextRow>>
  BY DEF stmtVars
<1>1. StatementOK' /\ RowsOK' /\ WorkerOK' /\ ExportTies'
  BY <1>0 DEF ReviewInv, Typed, StatementOK, RowsOK, WorkerOK, ExportTies, Keyed
<1>2. StepOK(p)'
  BY <1>0 DEF StepOK, Statement, SeenBy
<1>3. /\ worker' \in WorkerState
      /\ worker'.pc = "commit" => worker'.reading \in Readings
      /\ files' \subseteq FileRecord
  BY <1>0 DEF ReviewInv, Typed
<1>4. status' = "review" /\ ~held' =>
        /\ balances'.known
        /\ p.pc \notin Judging \cup {"reset"} =>
              /\ verdict' = "overridden" \/ verdict' = reconcileGoldenRule(balances'.due, rows')
              /\ strays' = periodBoundsViolations(rows')
  <2>1. \A k \in Requests : k # q => req[k].pc \notin Judging \cup {"reset"}
    BY DEF InFlight, Judging
  <2> QED BY <1>0, <2>1 DEF ReviewInv, JudgementOK
<1> QED BY <1>1, <1>2, <1>3, <1>4, Served

\* A request begins when no other is under way.
LEMMA Starts ==
    ASSUME InTurn, NEW q \in Requests, NEW kind, MayStart(q, kind)
    PROVE  req[q].pc = "idle" /\ \A k \in Requests : ~InFlight(k)
BY DEF InTurn, MayStart

\* A request begins and knows of the statement what its first step needs.
LEMMA Begun ==
    ASSUME InTurn, ReviewInv, NEW q \in Requests, NEW p \in RequestState,
           req[q].pc = "idle", \A k \in Requests : ~InFlight(k),
           req' = [req EXCEPT ![q] = p],
           UNCHANGED <<stmtVars, rows, worker, files, nextRow>>, StepOK(p)
    PROVE  ReviewInv'
<1>1. req[q].pc \notin Judging \cup {"reset"}
  BY DEF Judging
<1> QED BY <1>1, Moved

\* Whatever request begins, the routes check or read what its first step relies on.
LEMMA StartRequestStep ==
    ASSUME InTurn, ReviewInv, NEW q \in Requests, StartRequest(q)
    PROVE  ReviewInv'
<1>0. /\ StatementOK /\ RowsOK /\ Patches \subseteq Patches \cup Inserts \cup {<<>>}
      /\ UNCHANGED <<stmtVars, rows, worker, files, nextRow>>
  BY DEF ReviewInv, Typed, StartRequest, StartPatch, StartBulk, StartInsert, StartRemove,
     StartRecompute, StartOverride, StartAcknowledge, StartExport, StartReExtract
<1>i. IdleReq \in RequestState
  BY IdleRequest
<1>r. \A t \in rows : t.id \in RowIds
  BY <1>0 DEF RowsOK, Keyed, Row
<1>m. /\ req[q].pc = "idle" /\ \A k \in Requests : ~InFlight(k)
  BY Starts DEF StartRequest, StartPatch, StartBulk, StartInsert, StartRemove,
     StartRecompute, StartOverride, StartAcknowledge, StartExport, StartReExtract
<1>1. ASSUME NEW kind \in RequestKind, NEW pc \in {"edit", "readStatement", "override", "acknowledge", "remove"},
             NEW targets \in SUBSET RowIds, NEW edit \in Patches \cup Inserts \cup {<<>>},
             Start(q, kind, pc, targets, edit),
             pc = "edit" => kind \in EditKind,
             kind \in {"patch", "bulk"} => edit \in Patches,
             kind = "insert" => edit \in Inserts,
             pc = "readStatement" => kind = "recompute",
             pc \in {"edit", "override", "readStatement"} => status = "review"
      PROVE  ReviewInv'
  <2> DEFINE p == [IdleReq EXCEPT !.pc = pc, !.kind = kind, !.targets = targets, !.edit = edit]
  <2>1. /\ p \in RequestState /\ req' = [req EXCEPT ![q] = p]
        /\ p.pc = pc /\ p.kind = kind /\ p.edit = edit
    BY <1>1, <1>i DEF Start, RequestState, IdleReq
  <2> HIDE DEF p
  <2>2. StepOK(p)
    BY <1>1, <2>1 DEF StepOK, Judging, EditKind
  <2> QED BY <1>0, <1>m, <2>1, <2>2, Begun
<1>2. CASE \E t \in rows, edit \in Patches : StartPatch(q, t, edit)
  <2>1. PICK t \in rows, edit \in Patches : StartPatch(q, t, edit)
    BY <1>2
  <2>2. Start(q, "patch", "edit", {t.id}, edit) /\ status = "review"
    BY <2>1 DEF StartPatch, MayEdit, InTurn
  <2> QED BY <1>1, <1>r, <2>2 DEF RequestKind, EditKind
<1>3. CASE \E changed \in SUBSET rows, edit \in Patches : StartBulk(q, changed, edit)
  <2>1. PICK changed \in SUBSET rows, edit \in Patches : StartBulk(q, changed, edit)
    BY <1>3
  <2>2. Start(q, "bulk", "edit", {t.id : t \in changed}, edit) /\ status = "review"
    BY <2>1 DEF StartBulk, MayEdit, InTurn
  <2>3. {t.id : t \in changed} \in SUBSET RowIds
    BY <1>r, <2>1
  <2> QED BY <1>1, <2>2, <2>3 DEF RequestKind, EditKind
<1>4. CASE \E edit \in Inserts : StartInsert(q, edit)
  BY <1>1, <1>4 DEF StartInsert, MayEdit, InTurn, RequestKind, EditKind
<1>5. CASE \E t \in rows : StartRemove(q, t)
  <2>1. PICK t \in rows : StartRemove(q, t)
    BY <1>5
  <2>2. Start(q, "remove", "edit", {t.id}, <<>>) /\ status = "review"
    BY <2>1 DEF StartRemove, MayEdit, InTurn
  <2> QED BY <1>1, <1>r, <2>2 DEF RequestKind, EditKind
<1>6. CASE StartRecompute(q)
  BY <1>1, <1>6 DEF StartRecompute, MayEdit, InTurn, RequestKind, EditKind
<1>7. CASE StartOverride(q)
  BY <1>1, <1>7 DEF StartOverride, RequestKind, EditKind
<1>8. CASE StartAcknowledge(q)
  BY <1>1, <1>8 DEF StartAcknowledge, RequestKind, EditKind
<1>9. CASE StartReExtract(q)
  BY <1>1, <1>9 DEF StartReExtract, RequestKind, EditKind
<1>10. CASE StartExport(q)
  <2> DEFINE p == [IdleReq EXCEPT !.pc = "render", !.kind = "export", !.seen = Statement]
  <2>1. Statement \in Snapshot
    BY <1>0 DEF StatementOK, Statement, Snapshot
  <2>2. /\ p \in RequestState /\ req' = [req EXCEPT ![q] = p]
        /\ p.pc = "render" /\ p.seen = Statement
    BY <1>10, <1>i, <2>1 DEF StartExport, RequestState, RequestKind, IdleReq
  <2> HIDE DEF p
  <2>3. StepOK(p)
    BY <2>2 DEF StepOK, Judging
  <2> QED BY <1>0, <1>m, <2>2, <2>3, Begun
<1> QED BY <1>2, <1>3, <1>4, <1>5, <1>6, <1>7, <1>8, <1>9, <1>10 DEF StartRequest

\* The request that ends here, and the rest of it.
LEMMA DoneRequest ==
    \E p \in RequestState :
        /\ p = [IdleReq EXCEPT !.pc = "done"] /\ p.pc = "done"
<1>1. [IdleReq EXCEPT !.pc = "done"].pc = "done"
  BY DEF IdleReq
<1> QED BY <1>1, IdleRequest

\* A request under way is alone.
LEMMA AloneUnderWay ==
    ASSUME ReviewInv, NEW q \in Requests, req[q].pc \notin {"idle", "done"}
    PROVE  /\ \A k \in Requests : k # q => ~InFlight(k)
           /\ StatementOK /\ RowsOK /\ WorkerOK /\ StepOK(req[q]) /\ ExportTies
           /\ req[q] \in RequestState
           /\ worker \in WorkerState
           /\ worker.pc = "commit" => worker.reading \in Readings
           /\ files \subseteq FileRecord
           /\ req \in [Requests -> RequestState]
BY DEF ReviewInv, Typed, OneAtATime, InFlight

\* What the Golden Rule may say.
LEMMA Judgements ==
    ASSUME NEW due, NEW txs
    PROVE  reconcileGoldenRule(due, txs) \in {"verified", "discrepancy"}
BY DEF reconcileGoldenRule

\* An edit lands in the rows and its recomputation is due.
LEMMA EditRowsStep ==
    ASSUME ReviewInv, NEW q \in Requests, EditRows(q)
    PROVE  ReviewInv'
<1>0. /\ req[q].pc = "edit" /\ UNCHANGED <<stmtVars, worker, files>>
      /\ StatementOK /\ RowsOK /\ WorkerOK /\ StepOK(req[q]) /\ ExportTies
      /\ \A k \in Requests : k # q => ~InFlight(k)
      /\ req[q] \in RequestState /\ req \in [Requests -> RequestState]
  BY AloneUnderWay DEF EditRows
<1>k. req[q].kind \in EditKind /\ status = "review"
  BY <1>0 DEF StepOK
<1>p. PICK p \in RequestState :
         /\ req' = [req EXCEPT ![q] = p]
         /\ p.pc = "readStatement" /\ p.kind = req[q].kind /\ p.edit = req[q].edit
  <2> DEFINE p == [req[q] EXCEPT !.pc = "readStatement"]
  <2>1. /\ p \in RequestState /\ req' = [req EXCEPT ![q] = p]
        /\ p.pc = "readStatement" /\ p.kind = req[q].kind /\ p.edit = req[q].edit
    BY <1>0, <1>k DEF EditRows, Recomputes, EditKind, Goto, RequestState
  <2> HIDE DEF p
  <2> QED BY <2>1
<1>r. RowsOK'
  <2>1. CASE req[q].kind = "patch"
    <3>1. rows' = Amended(q) /\ nextRow' = nextRow /\ req[q].edit \in Patches
      BY <1>0, <2>1 DEF EditRows, StepOK
    <3>2. PICK txs : txs = rows'
      OBVIOUS
    <3>b. PICK targets : targets = req[q].targets
      OBVIOUS
    <3>3. PICK e \in Patches : e = req[q].edit
      BY <3>1
    <3>a. RowsOK /\ txs = {IF t.id \in targets THEN Amend(t, e) ELSE t : t \in rows}
      BY <1>0, <3>1, <3>2, <3>b, <3>3 DEF Amended
    <3>4. Keyed(txs) /\ \A t \in txs : t.id < nextRow
      BY <3>a, AmendedRows
    <3> QED BY <1>0, <3>1, <3>2, <3>4 DEF RowsOK, Keyed
  <2>2. CASE req[q].kind = "remove"
    <3>1. rows' \subseteq rows /\ nextRow' = nextRow
      BY <2>2 DEF EditRows
    <3> QED BY <1>0, <3>1 DEF RowsOK, Keyed
  <2>3. CASE req[q].kind = "insert"
    <3> DEFINE new == [id |-> nextRow, cents |-> req[q].edit.cents, inPeriod |-> req[q].edit.inPeriod]
    <3>1. /\ nextRow <= MaxRows /\ nextRow' = nextRow + 1 /\ rows' = rows \cup {new}
      BY <2>3 DEF EditRows
    <3>2. req[q].edit \in Tx
      BY <1>0, <2>3, ReviewAssumption DEF StepOK
    <3>n. nextRow \in 1..(MaxRows + 1) /\ MaxRows \in Nat
      BY <1>0, ReviewAssumption DEF RowsOK
    <3>3. nextRow \in RowIds /\ nextRow' \in 1..(MaxRows + 1)
      BY <3>1, <3>n DEF RowIds
    <3>4. new \in Row /\ new.id = nextRow
      BY <3>2, <3>3 DEF Row, Tx
    <3> HIDE DEF new
    <3>5. \A t \in rows : t \in Row /\ t.id \in Int /\ t.id < nextRow
      BY <1>0 DEF RowsOK, Keyed, Row, RowIds
    <3>6. Keyed(rows')
      <4>1. \A t, u \in rows : t.id = u.id => t = u
        BY <1>0 DEF RowsOK, Keyed
      <4>2. \A t \in rows : t.id # new.id
        BY <3>4, <3>5, <3>n
      <4> QED BY <3>1, <3>4, <3>5, <4>1, <4>2 DEF Keyed
    <3>7. \A t \in rows' : t.id < nextRow'
      BY <3>1, <3>4, <3>5, <3>n
    <3> QED BY <3>3, <3>6, <3>7 DEF RowsOK, Keyed
  <2>4. CASE req[q].kind = "bulk"
    BY <1>0, <2>4 DEF EditRows, RowsOK, Keyed
  <2> QED BY <1>k, <2>1, <2>2, <2>3, <2>4 DEF EditKind
<1>s. UNCHANGED <<status, balances, verdict, strays, held, acked>>
  BY <1>0 DEF stmtVars
<1>1. StatementOK' /\ WorkerOK' /\ ExportTies'
  BY <1>0, <1>k, <1>s DEF StatementOK, WorkerOK, ExportTies
<1>2. StepOK(p)'
  BY <1>0, <1>k, <1>p, <1>s DEF StepOK, Judging, EditKind
<1>3. status' = "review" /\ ~held' => balances'.known
  BY <1>s DEF ReviewInv, JudgementOK
<1>4. /\ worker' \in WorkerState
      /\ worker'.pc = "commit" => worker'.reading \in Readings
      /\ files' \subseteq FileRecord
  BY <1>0, AloneUnderWay
<1>5. p.pc \in Judging
  BY <1>p DEF Judging
<1> QED BY <1>0, <1>p, <1>r, <1>1, <1>2, <1>3, <1>4, <1>5, Served

\* The steps of a recomputation see the rows as SeenBy has them.
LEMMA RowsSeen ==
    ASSUME NEW q \in Requests
    PROVE  RowsSeenBy(q) = SeenBy(req[q])
BY DEF RowsSeenBy, InBulk, Amended, SeenBy

\* The rows a request saw become the statement's.
LEMMA RowsLand ==
    ASSUME ReviewInv, NEW q \in Requests, req[q].pc \in Judging,
           rows' = RowsSeenBy(q), nextRow' = nextRow
    PROVE  RowsOK'
<1>1. /\ RowsOK /\ StepOK(req[q])
  BY AloneUnderWay DEF Judging
<1>2. PICK p : p = req[q]
  OBVIOUS
<1>3. p.pc \in Judging /\ p.kind = "bulk" => p.edit \in Patches
  BY <1>1, <1>2 DEF StepOK
<1>4. rows' = SeenBy(p)
  BY <1>2, RowsSeen
<1>5. Keyed(SeenBy(p)) /\ \A t \in SeenBy(p) : t.id < nextRow
  BY <1>1, <1>3, SeenRows
<1>6. PICK txs : txs = rows'
  OBVIOUS
<1>7. Keyed(txs) /\ \A t \in txs : t.id < nextRow
  BY <1>4, <1>5, <1>6
<1> QED BY <1>1, <1>6, <1>7 DEF RowsOK, Keyed

\* recomputeReconciliation reads the statement, or ends if it has no balances.
LEMMA ReadStatementStep ==
    ASSUME ReviewInv, NEW q \in Requests, ReadStatement(q)
    PROVE  ReviewInv'
<1>0. /\ req[q].pc = "readStatement" /\ UNCHANGED <<stmtVars, worker, files, nextRow>>
      /\ StatementOK /\ RowsOK /\ WorkerOK /\ StepOK(req[q]) /\ ExportTies
      /\ \A k \in Requests : k # q => ~InFlight(k)
      /\ req[q] \in RequestState /\ req \in [Requests -> RequestState]
  BY AloneUnderWay DEF ReadStatement
<1>k. status = "review"
  BY <1>0 DEF StepOK, Judging
<1>1. CASE balances.known
  <2> DEFINE p == [req[q] EXCEPT !.pc = "readRows", !.seen = Statement]
  <2>1. Statement \in Snapshot
    BY <1>0 DEF StatementOK, Statement, Snapshot
  <2>2. /\ p \in RequestState /\ req' = [req EXCEPT ![q] = p]
        /\ p.pc = "readRows" /\ p.kind = req[q].kind /\ p.edit = req[q].edit /\ p.seen = Statement
    BY <1>0, <1>1, <2>1 DEF ReadStatement, RequestState
  <2> HIDE DEF p
  <2>3. StepOK(p)
    BY <1>0, <1>1, <1>k, <2>2 DEF StepOK, Judging
  <2>4. p.pc \in Judging /\ UNCHANGED <<stmtVars, rows, worker, files, nextRow>>
    BY <1>0, <1>1, <2>2 DEF Judging, ReadStatement
  <2> QED BY <1>0, <2>2, <2>3, <2>4, Moved
<1>2. CASE ~balances.known
  <2>1. PICK p \in RequestState : p = [IdleReq EXCEPT !.pc = "done"] /\ p.pc = "done"
    BY DoneRequest
  <2>2. req' = [req EXCEPT ![q] = p] /\ rows' = RowsSeenBy(q) /\ req[q].pc \in Judging
    BY <1>0, <1>2, <2>1 DEF ReadStatement, Finish, Judging
  <2>s. UNCHANGED <<status, balances, verdict, strays, held, acked, worker, files, nextRow>>
    BY <1>0 DEF stmtVars
  <2>3. RowsOK'
    BY <2>2, <2>s, RowsLand
  <2>4. StatementOK' /\ WorkerOK' /\ ExportTies'
    BY <1>0, <1>k, <2>s DEF StatementOK, WorkerOK, ExportTies
  <2>5. StepOK(p)'
    BY <2>1 DEF StepOK, Judging
  <2>6. status' = "review" /\ ~held' => FALSE
    BY <1>2, <1>k, <2>s DEF ReviewInv, JudgementOK
  <2>7. /\ worker' \in WorkerState
        /\ worker'.pc = "commit" => worker'.reading \in Readings
        /\ files' \subseteq FileRecord
    BY <1>0, AloneUnderWay
  <2> QED BY <1>0, <2>2, <2>3, <2>4, <2>5, <2>6, <2>7, Served
<1> QED BY <1>1, <1>2

\* recomputeReconciliation reads the rows.
LEMMA ReadRowsStep ==
    ASSUME ReviewInv, NEW q \in Requests, ReadRows(q)
    PROVE  ReviewInv'
<1>0. /\ req[q].pc = "readRows" /\ UNCHANGED <<stmtVars, rows, worker, files, nextRow>>
      /\ StatementOK /\ RowsOK /\ StepOK(req[q])
      /\ \A k \in Requests : k # q => ~InFlight(k)
      /\ req[q] \in RequestState /\ req \in [Requests -> RequestState]
  BY AloneUnderWay DEF ReadRows
<1>1. PICK txs : txs = SeenBy(req[q])
  OBVIOUS
<1>2. req[q].kind = "bulk" => req[q].edit \in Patches
  BY <1>0 DEF StepOK, Judging
<1>3. txs \in SUBSET Row
  BY <1>0, <1>1, <1>2, SeenRows DEF Keyed
<1> DEFINE p == [req[q] EXCEPT !.pc = "write", !.found = txs]
<1>4. /\ p \in RequestState /\ req' = [req EXCEPT ![q] = p]
      /\ p.pc = "write" /\ p.kind = req[q].kind /\ p.edit = req[q].edit
      /\ p.targets = req[q].targets /\ p.seen = req[q].seen /\ p.found = txs
  BY <1>0, <1>1, <1>3, RowsSeen DEF ReadRows, RequestState
<1> HIDE DEF p
<1>5. SeenBy(p) = txs
  BY <1>0, <1>1, <1>4 DEF SeenBy
<1>6. StepOK(p)
  BY <1>0, <1>4, <1>5 DEF StepOK, Judging
<1>7. p.pc \in Judging
  BY <1>4 DEF Judging
<1> QED BY <1>0, <1>4, <1>6, <1>7, Moved

\* recomputeReconciliation stores the verdict of the rows as they are now; an override stays.
LEMMA WriteVerdictStep ==
    ASSUME ReviewInv, NEW q \in Requests, WriteVerdict(q)
    PROVE  ReviewInv'
<1>0. /\ req[q].pc = "write" /\ req[q].pc \in Judging
      /\ StatementOK /\ RowsOK /\ WorkerOK /\ StepOK(req[q]) /\ ExportTies
      /\ \A k \in Requests : k # q => ~InFlight(k)
      /\ req[q] \in RequestState /\ req \in [Requests -> RequestState]
  BY AloneUnderWay DEF WriteVerdict, Judging
<1>s. UNCHANGED <<status, balances, held, acked, worker, files, nextRow>> /\ rows' = RowsSeenBy(q)
  BY DEF WriteVerdict
<1>k. status = "review" /\ req[q].seen = Statement /\ balances.known
      /\ req[q].found = RowsSeenBy(q) /\ balances \in Balances
  BY <1>0, RowsSeen DEF StepOK, Judging, StatementOK
<1>f. PICK txs : txs = req[q].found
  OBVIOUS
<1>r. RowsOK' /\ rows' = txs
  BY <1>0, <1>s, <1>k, <1>f, RowsLand
<1>t. Keyed(txs)
  BY <1>r DEF RowsOK, Keyed
<1>n. PICK n \in Nat : n = periodBoundsViolations(txs)
  BY <1>t, KeyedIsFinite
<1>g. PICK result \in {"verified", "discrepancy"} : result = reconcileGoldenRule(balances.due, txs)
  BY Judgements
<1>v. /\ req[q].seen.strays = strays /\ req[q].seen.verdict = verdict
      /\ req[q].seen.balances.due = balances.due
  BY <1>k DEF Statement
<1>c. PICK changed \in BOOLEAN : changed <=> n # strays \/ (verdict # "overridden" /\ result # verdict)
  OBVIOUS
<1>w. /\ strays' = IF changed THEN n ELSE strays
      /\ verdict' = IF changed /\ verdict # "overridden" THEN result ELSE verdict
  BY <1>f, <1>n, <1>g, <1>v, <1>c DEF WriteVerdict, Sticky, StoredStrays
<1>j. /\ verdict' = "overridden" \/ verdict' = result
      /\ strays' = n
  BY <1>c, <1>w
<1>1. StatementOK'
  BY <1>0, <1>s, <1>j DEF StatementOK, Verdict
<1>2. WorkerOK' /\ ExportTies'
  BY <1>0, <1>s, <1>k DEF WorkerOK, ExportTies
<1>p. PICK p \in RequestState : p = [IdleReq EXCEPT !.pc = "done"] /\ p.pc = "done"
  BY DoneRequest
<1>3. req' = [req EXCEPT ![q] = p]
  BY <1>p DEF WriteVerdict, Finish
<1>4. StepOK(p)'
  BY <1>p DEF StepOK, Judging
<1>5. /\ balances'.known
      /\ verdict' = "overridden" \/ verdict' = reconcileGoldenRule(balances'.due, rows')
      /\ strays' = periodBoundsViolations(rows')
  BY <1>s, <1>k, <1>r, <1>n, <1>g, <1>j
<1>6. /\ worker' \in WorkerState
      /\ worker'.pc = "commit" => worker'.reading \in Readings
      /\ files' \subseteq FileRecord
  BY <1>0, <1>s, AloneUnderWay
<1> QED BY <1>0, <1>r, <1>1, <1>2, <1>3, <1>4, <1>5, <1>6, Served

\* An operator overrides the verdict of a statement in review.
LEMMA OverrideVerdictStep ==
    ASSUME ReviewInv, NEW q \in Requests, OverrideVerdict(q)
    PROVE  ReviewInv'
<1>0. /\ req[q].pc = "override"
      /\ StatementOK /\ RowsOK /\ WorkerOK /\ StepOK(req[q]) /\ ExportTies
      /\ \A k \in Requests : k # q => ~InFlight(k)
      /\ req[q].pc \notin Judging \cup {"reset"}
  BY AloneUnderWay DEF OverrideVerdict, Judging
<1>s. UNCHANGED <<status, balances, rows, strays, held, acked, worker, files, nextRow>>
      /\ verdict' = "overridden"
  BY DEF OverrideVerdict
<1>k. status = "review"
  BY <1>0 DEF StepOK
<1>p. PICK p \in RequestState : p = [IdleReq EXCEPT !.pc = "done"] /\ p.pc = "done"
  BY DoneRequest
<1>1. req' = [req EXCEPT ![q] = p]
  BY <1>p DEF OverrideVerdict, Finish
<1>2. StatementOK' /\ RowsOK' /\ WorkerOK' /\ ExportTies'
  BY <1>0, <1>s, <1>k DEF StatementOK, RowsOK, Keyed, WorkerOK, ExportTies, Verdict
<1>3. StepOK(p)'
  BY <1>p DEF StepOK, Judging
<1>4. status' = "review" /\ ~held' =>
        /\ balances'.known
        /\ verdict' = "overridden"
        /\ strays' = periodBoundsViolations(rows')
  <2>1. \A k \in Requests : req[k].pc \notin Judging \cup {"reset"}
    BY <1>0 DEF InFlight, Judging
  <2> QED BY <1>s, <2>1 DEF ReviewInv, JudgementOK
<1>5. /\ worker' \in WorkerState
      /\ worker'.pc = "commit" => worker'.reading \in Readings
      /\ files' \subseteq FileRecord
  BY <1>0, <1>s, AloneUnderWay
<1> QED BY <1>0, <1>1, <1>2, <1>3, <1>4, <1>5, Served

\* An operator acknowledges the hold.
LEMMA AcknowledgeHoldStep ==
    ASSUME ReviewInv, NEW q \in Requests, AcknowledgeHold(q)
    PROVE  ReviewInv'
<1>0. /\ req[q].pc = "acknowledge"
      /\ StatementOK /\ RowsOK /\ WorkerOK /\ ExportTies
      /\ \A k \in Requests : k # q => ~InFlight(k)
  BY AloneUnderWay DEF AcknowledgeHold
<1>s. UNCHANGED <<status, balances, rows, verdict, strays, held, worker, files, nextRow>>
      /\ acked' = TRUE
  BY DEF AcknowledgeHold
<1>p. PICK p \in RequestState : p = [IdleReq EXCEPT !.pc = "done"] /\ p.pc = "done"
  BY DoneRequest
<1>1. req' = [req EXCEPT ![q] = p]
  BY <1>p DEF AcknowledgeHold, Finish
<1>2. StatementOK' /\ RowsOK' /\ WorkerOK' /\ ExportTies'
  BY <1>0, <1>s DEF StatementOK, RowsOK, Keyed, WorkerOK, ExportTies
<1>3. StepOK(p)'
  BY <1>p DEF StepOK, Judging
<1>4. status' = "review" /\ ~held' =>
        /\ balances'.known
        /\ verdict' = "overridden" \/ verdict' = reconcileGoldenRule(balances'.due, rows')
        /\ strays' = periodBoundsViolations(rows')
  <2>1. \A k \in Requests : req[k].pc \notin Judging \cup {"reset"}
    BY <1>0 DEF InFlight, Judging
  <2> QED BY <1>s, <2>1 DEF ReviewInv, JudgementOK
<1>5. /\ worker' \in WorkerState
      /\ worker'.pc = "commit" => worker'.reading \in Readings
      /\ files' \subseteq FileRecord
  BY <1>0, <1>s, AloneUnderWay
<1> QED BY <1>0, <1>1, <1>2, <1>3, <1>4, <1>5, Served

\* What passes the gate ties, or an operator answered for it.
LEMMA RenderExportStep ==
    ASSUME ReviewInv, NEW q \in Requests, RenderExport(q)
    PROVE  ReviewInv'
<1>0. /\ req[q].pc = "render"
      /\ StatementOK /\ RowsOK /\ WorkerOK /\ StepOK(req[q]) /\ ExportTies
      /\ \A k \in Requests : k # q => ~InFlight(k)
      /\ req[q] \in RequestState
      /\ files \subseteq FileRecord
  BY AloneUnderWay DEF RenderExport
<1>s. UNCHANGED <<status, balances, verdict, strays, held, acked, rows, worker, nextRow>>
  BY DEF RenderExport, stmtVars
<1>p. PICK p \in RequestState : p = [IdleReq EXCEPT !.pc = "done"] /\ p.pc = "done"
  BY DoneRequest
<1>1. req' = [req EXCEPT ![q] = p]
  BY <1>p DEF RenderExport, Finish
<1>2. StatementOK' /\ RowsOK' /\ WorkerOK'
  BY <1>0, <1>s DEF StatementOK, RowsOK, Keyed, WorkerOK
<1>3. StepOK(p)'
  BY <1>p DEF StepOK, Judging
<1>j. status = "review" /\ ~held =>
        /\ balances.known
        /\ verdict = "overridden" \/ verdict = reconcileGoldenRule(balances.due, rows)
        /\ strays = periodBoundsViolations(rows)
  <2>1. \A k \in Requests : req[k].pc \notin Judging \cup {"reset"}
    BY <1>0 DEF InFlight, Judging
  <2> QED BY <2>1 DEF ReviewInv, JudgementOK
<1>4. status' = "review" /\ ~held' =>
        /\ balances'.known
        /\ verdict' = "overridden" \/ verdict' = reconcileGoldenRule(balances'.due, rows')
        /\ strays' = periodBoundsViolations(rows')
  BY <1>s, <1>j
<1>n. PICK seen \in Snapshot : seen = req[q].seen
  BY <1>0 DEF RequestState
<1>5. CASE ~assertExportable(seen)
  <2>1. files' = files
    BY <1>n, <1>5 DEF RenderExport
  <2>2. ExportTies'
    BY <1>0, <2>1 DEF ExportTies
  <2>3. /\ worker' \in WorkerState
        /\ worker'.pc = "commit" => worker'.reading \in Readings
        /\ files' \subseteq FileRecord
    BY <1>0, <1>s, <2>1, AloneUnderWay
  <2> QED BY <1>0, <1>1, <1>2, <1>3, <1>4, <2>2, <2>3, Served
<1>6. CASE assertExportable(seen)
  <2>1. PICK ties \in BOOLEAN :
           ties <=> reconcileGoldenRule(seen.balances.due, rows) = "verified"
    OBVIOUS
  <2>a. ties = (reconcileGoldenRule(seen.balances.due, rows) = "verified")
    BY <2>1
  <2> DEFINE f == [verdict |-> seen.verdict, held |-> seen.held, acked |-> seen.acked, ties |-> ties]
  <2>2. files' = files \cup {f}
    BY <1>n, <1>6, <2>a DEF RenderExport
  <2>3. f \in FileRecord
    BY DEF Snapshot
  <2>4. f.ties \/ f.verdict = "overridden" \/ (f.held /\ f.acked)
    <3>1. seen = Statement
      BY <1>0, <1>n, <1>6 DEF StepOK, assertExportable
    <3>2. /\ status = "review" /\ verdict \in {"verified", "overridden"}
          /\ held => acked
      BY <1>6, <3>1 DEF assertExportable, Statement
    <3>3. /\ f.held = held /\ f.acked = acked /\ f.verdict = verdict /\ f.ties = ties
          /\ seen.balances.due = balances.due
      BY <3>1 DEF Statement
    <3>4. CASE held
      BY <1>0, <3>2, <3>3, <3>4 DEF StatementOK
    <3>5. CASE ~held
      BY <1>j, <2>1, <3>2, <3>3, <3>5
    <3> QED BY <3>4, <3>5
  <2> HIDE DEF f
  <2>5. ExportTies'
    BY <1>0, <2>2, <2>4 DEF ExportTies
  <2>6. /\ worker' \in WorkerState
        /\ worker'.pc = "commit" => worker'.reading \in Readings
        /\ files' \subseteq FileRecord
    BY <1>0, <1>s, <2>2, <2>3, AloneUnderWay
  <2> QED BY <1>0, <1>1, <1>2, <1>3, <1>4, <2>5, <2>6, Served
<1> QED BY <1>5, <1>6

\* A re-extract that has moved on to its next step.
LEMMA GoesTo ==
    ASSUME NEW q \in Requests, req \in [Requests -> RequestState],
           NEW pc \in {"wipe", "reset", "enqueue"}, Goto(q, pc)
    PROVE  \E p \in RequestState : p.pc = pc /\ req' = [req EXCEPT ![q] = p]
<1> DEFINE p == [req[q] EXCEPT !.pc = pc]
<1>1. p \in RequestState /\ p.pc = pc /\ req' = [req EXCEPT ![q] = p]
  BY DEF Goto, RequestState
<1> HIDE DEF p
<1> QED BY <1>1

\* A re-extract takes the job off the queue, or ends because it runs.
LEMMA RemoveJobStep ==
    ASSUME ReviewInv, NEW q \in Requests, RemoveJob(q)
    PROVE  ReviewInv'
<1>0. /\ req[q].pc = "remove" /\ req[q].pc \notin Judging \cup {"reset"}
      /\ StatementOK /\ RowsOK /\ WorkerOK /\ ExportTies
      /\ \A k \in Requests : k # q => ~InFlight(k)
      /\ req \in [Requests -> RequestState]
      /\ worker \in WorkerState
      /\ files \subseteq FileRecord
  BY AloneUnderWay DEF RemoveJob, Judging
<1>u. UNCHANGED <<stmtVars, rows, files, nextRow>>
  BY DEF RemoveJob
<1>1. CASE worker.pc \in {"working", "commit"}
  <2>1. PICK p \in RequestState : p = [IdleReq EXCEPT !.pc = "done"] /\ p.pc = "done"
    BY DoneRequest
  <2>2. req' = [req EXCEPT ![q] = p] /\ worker' = worker
    BY <1>1, <2>1 DEF RemoveJob, Finish
  <2>3. StepOK(p)
    BY <2>1 DEF StepOK, Judging
  <2> QED BY <1>0, <1>u, <2>2, <2>3, Moved
<1>2. CASE worker.pc \notin {"working", "commit"}
  <2>1. Goto(q, "wipe") /\ worker' = [worker EXCEPT !.pc = "idle"]
    BY <1>2 DEF RemoveJob
  <2>2. PICK p \in RequestState : p.pc = "wipe" /\ req' = [req EXCEPT ![q] = p]
    BY <1>0, <2>1, GoesTo
  <2>s. UNCHANGED <<status, balances, verdict, strays, held, acked, rows, files, nextRow>>
    BY <1>u DEF stmtVars
  <2>3. worker'.pc = "idle" /\ worker' \in WorkerState
    BY <1>0, <2>1
  <2>4. StatementOK' /\ RowsOK' /\ WorkerOK' /\ ExportTies'
    BY <1>0, <1>2, <2>s, <2>3 DEF StatementOK, RowsOK, Keyed, WorkerOK, ExportTies
  <2>5. StepOK(p)'
    BY <2>2, <2>3 DEF StepOK, Judging
  <2>6. status' = "review" /\ ~held' =>
          /\ balances'.known
          /\ verdict' = "overridden" \/ verdict' = reconcileGoldenRule(balances'.due, rows')
          /\ strays' = periodBoundsViolations(rows')
    <3>1. \A k \in Requests : req[k].pc \notin Judging \cup {"reset"}
      BY <1>0 DEF InFlight, Judging
    <3> QED BY <2>s, <3>1 DEF ReviewInv, JudgementOK
  <2>7. worker'.pc # "commit" /\ files' \subseteq FileRecord
    BY <1>0, <2>s, <2>3
  <2> QED BY <1>0, <2>2, <2>3, <2>4, <2>5, <2>6, <2>7, Served
<1> QED BY <1>1, <1>2

\* A re-extract deletes the rows.
LEMMA WipeRowsStep ==
    ASSUME ReviewInv, NEW q \in Requests, WipeRows(q)
    PROVE  ReviewInv'
<1>0. /\ req[q].pc = "wipe"
      /\ StatementOK /\ RowsOK /\ WorkerOK /\ StepOK(req[q]) /\ ExportTies
      /\ \A k \in Requests : k # q => ~InFlight(k)
      /\ req \in [Requests -> RequestState]
  BY AloneUnderWay DEF WipeRows
<1>s. UNCHANGED <<status, balances, verdict, strays, held, acked, worker, files, nextRow>>
      /\ rows' = {}
  BY DEF WipeRows, stmtVars
<1>p. PICK p \in RequestState : p.pc = "reset" /\ req' = [req EXCEPT ![q] = p]
  BY <1>0, GoesTo DEF WipeRows
<1>1. StatementOK' /\ RowsOK' /\ WorkerOK' /\ ExportTies'
  BY <1>0, <1>s DEF StatementOK, RowsOK, Keyed, WorkerOK, ExportTies
<1>2. StepOK(p)'
  BY <1>0, <1>s, <1>p DEF StepOK, Judging
<1>3. status' = "review" /\ ~held' => balances'.known
  BY <1>s DEF ReviewInv, JudgementOK
<1>4. /\ worker' \in WorkerState
      /\ worker'.pc = "commit" => worker'.reading \in Readings
      /\ files' \subseteq FileRecord
  BY <1>0, <1>s, AloneUnderWay
<1> QED BY <1>0, <1>p, <1>1, <1>2, <1>3, <1>4, Served

\* A re-extract returns the statement to its start, which is the one way an override ends.
LEMMA ResetStatementStep ==
    ASSUME ReviewInv, NEW q \in Requests, ResetStatement(q)
    PROVE  ReviewInv'
<1>0. /\ req[q].pc = "reset"
      /\ StatementOK /\ RowsOK /\ WorkerOK /\ StepOK(req[q]) /\ ExportTies
      /\ \A k \in Requests : k # q => ~InFlight(k)
      /\ req \in [Requests -> RequestState]
  BY AloneUnderWay DEF ResetStatement
<1>s. /\ UNCHANGED <<balances, rows, held, acked, worker, files, nextRow>>
      /\ status' = "uploaded" /\ verdict' = "pending" /\ strays' = 0
  BY DEF ResetStatement, ResetVerdict
<1>k. rows = {} /\ worker.pc = "idle"
  BY <1>0 DEF StepOK
<1>p. PICK p \in RequestState : p.pc = "enqueue" /\ req' = [req EXCEPT ![q] = p]
  BY <1>0, GoesTo DEF ResetStatement
<1>1. StatementOK' /\ RowsOK' /\ WorkerOK' /\ ExportTies'
  BY <1>0, <1>s, <1>k DEF StatementOK, RowsOK, Keyed, WorkerOK, ExportTies, Verdict
<1>2. StepOK(p)'
  BY <1>s, <1>k, <1>p DEF StepOK, Judging
<1>4. /\ worker' \in WorkerState
      /\ worker'.pc = "commit" => worker'.reading \in Readings
      /\ files' \subseteq FileRecord
  BY <1>0, <1>s, AloneUnderWay
<1> QED BY <1>0, <1>s, <1>p, <1>1, <1>2, <1>4, Served

\* A re-extract hands the statement to the queue.
LEMMA EnqueueStep ==
    ASSUME ReviewInv, NEW q \in Requests, Enqueue(q)
    PROVE  ReviewInv'
<1>0. /\ req[q].pc = "enqueue"
      /\ StatementOK /\ RowsOK /\ WorkerOK /\ StepOK(req[q]) /\ ExportTies
      /\ \A k \in Requests : k # q => ~InFlight(k)
      /\ worker \in WorkerState
      /\ files \subseteq FileRecord
  BY AloneUnderWay DEF Enqueue
<1>k. worker.pc = "idle" /\ status = "uploaded"
  BY <1>0 DEF StepOK
<1>s. /\ UNCHANGED <<status, balances, verdict, strays, held, acked, rows, files, nextRow>>
      /\ worker' = [worker EXCEPT !.pc = "queued"]
  BY <1>k DEF Enqueue, stmtVars
<1>p. PICK p \in RequestState : p = [IdleReq EXCEPT !.pc = "done"] /\ p.pc = "done"
  BY DoneRequest
<1>1. req' = [req EXCEPT ![q] = p]
  BY <1>p DEF Enqueue, Finish
<1>w. worker'.pc = "queued" /\ worker' \in WorkerState
  BY <1>0, <1>s
<1>2. StatementOK' /\ RowsOK' /\ WorkerOK' /\ ExportTies'
  BY <1>0, <1>s, <1>k, <1>w DEF StatementOK, RowsOK, Keyed, WorkerOK, ExportTies
<1>3. StepOK(p)'
  BY <1>p DEF StepOK, Judging
<1>4. status' # "review"
  BY <1>k, <1>s
<1>5. worker'.pc # "commit" /\ files' \subseteq FileRecord
  BY <1>0, <1>s, <1>w
<1> QED BY <1>0, <1>w, <1>1, <1>2, <1>3, <1>4, <1>5, Served

\* An extraction that is due or under way leaves the statement to no request
\* that would edit, judge or replace it.
LEMMA AtWork ==
    ASSUME ReviewInv, worker.pc # "idle"
    PROVE  /\ status # "review" /\ rows = {} /\ verdict # "overridden"
           /\ \A q \in Requests :
                 req[q].pc \in {"idle", "done", "acknowledge", "render", "remove"}
<1>1. /\ worker.pc \in {"queued", "working", "commit"} /\ WorkerOK
      /\ req \in [Requests -> RequestState] /\ \A q \in Requests : StepOK(req[q])
  BY DEF ReviewInv, Typed
<1>2. status # "review" /\ rows = {} /\ verdict # "overridden"
  BY <1>1 DEF WorkerOK
<1>3. ASSUME NEW q \in Requests
      PROVE  req[q].pc \in {"idle", "done", "acknowledge", "render", "remove"}
  <2>1. PICK p \in RequestState : p = req[q] /\ StepOK(p)
    BY <1>1
  <2>2. p.pc \in {"idle", "edit", "readStatement", "readRows", "write", "override",
                  "acknowledge", "render", "remove", "wipe", "reset", "enqueue", "done"}
    BY DEF RequestState
  <2>3. p.pc \notin {"edit", "readStatement", "readRows", "write", "override", "wipe", "reset", "enqueue"}
    BY <1>2, <2>1 DEF StepOK, Judging
  <2> QED BY <2>1, <2>2, <2>3
<1> QED BY <1>2, <1>3

\* A request that an export has handed a statement under work ends at the gate.
LEMMA Waiting ==
    ASSUME NEW p \in RequestState, p.pc \in {"idle", "done", "acknowledge", "render", "remove"},
           StepOK(p), status # "review"
    PROVE  StepOK(p)'
<1>1. p.pc = "render" => p.seen.status # "review"
  BY DEF StepOK, Statement
<1> QED BY <1>1 DEF StepOK, Judging

\* A step of the extraction, which runs beside the requests.
LEMMA Worked ==
    ASSUME ReviewInv, worker.pc # "idle", UNCHANGED <<req, files>>,
           StatementOK', RowsOK', WorkerOK',
           worker' \in WorkerState,
           worker'.pc = "commit" => worker'.reading \in Readings,
           status' = "review" /\ ~held' =>
              /\ balances'.known
              /\ verdict' = "overridden" \/ verdict' = reconcileGoldenRule(balances'.due, rows')
              /\ strays' = periodBoundsViolations(rows')
    PROVE  ReviewInv'
<1>1. /\ status # "review" /\ req \in [Requests -> RequestState]
      /\ \A q \in Requests : req[q].pc \in {"idle", "done", "acknowledge", "render", "remove"}
      /\ \A q \in Requests : StepOK(req[q])
  BY AtWork DEF ReviewInv, Typed
<1>2. Typed'
  BY DEF ReviewInv, Typed
<1>3. OneAtATime' /\ ExportTies'
  BY DEF ReviewInv, OneAtATime, InFlight, ExportTies
<1>4. ASSUME NEW q \in Requests PROVE StepOK(req[q])'
  <2>1. PICK p \in RequestState : p = req[q]
    BY <1>1
  <2>2. p = req'[q] /\ StepOK(p) /\ p.pc \in {"idle", "done", "acknowledge", "render", "remove"}
    BY <1>1, <2>1
  <2>3. StepOK(p)'
    BY <1>1, <2>2, Waiting
  <2> QED BY <2>2, <2>3
<1>5. JudgementOK'
  BY DEF JudgementOK
<1> QED BY <1>2, <1>3, <1>4, <1>5 DEF ReviewInv

\* A job begins.
LEMMA WorkerStartsStep ==
    ASSUME ReviewInv, WorkerStarts
    PROVE  ReviewInv'
<1>1. /\ worker.pc = "queued" /\ worker' = [worker EXCEPT !.pc = "working"]
      /\ status' = "extracting"
      /\ UNCHANGED <<balances, rows, verdict, strays, held, acked, req, files, nextRow>>
  BY DEF WorkerStarts
<1>2. /\ StatementOK /\ RowsOK /\ WorkerOK
      /\ worker \in WorkerState
  BY DEF ReviewInv, Typed
<1>3. rows = {} /\ verdict # "overridden"
  BY <1>1, AtWork
<1>4. worker'.pc = "working" /\ worker' \in WorkerState
  BY <1>1, <1>2
<1>5. StatementOK' /\ RowsOK' /\ WorkerOK'
  BY <1>1, <1>2, <1>3, <1>4 DEF StatementOK, RowsOK, Keyed, WorkerOK
<1> QED BY <1>1, <1>4, <1>5, Worked

\* The balances of a reading are stored.
LEMMA WorkerTotalsStep ==
    ASSUME ReviewInv, WorkerTotals
    PROVE  ReviewInv'
<1>1. PICK x \in Readings :
        /\ worker' = [pc |-> "commit", reading |-> x]
        /\ balances' = [due |-> x.due, known |-> x.known]
  BY DEF WorkerTotals
<1>u. worker.pc = "working" /\ UNCHANGED <<status, rows, verdict, strays, held, acked, req, files, nextRow>>
  BY DEF WorkerTotals
<1>2. StatementOK /\ RowsOK /\ WorkerOK
  BY DEF ReviewInv, Typed
<1>3. status = "extracting"
  BY <1>2, <1>u DEF WorkerOK
<1>4. /\ worker' \in WorkerState
      /\ worker'.pc = "commit" /\ worker'.reading = x
  BY <1>1
<1>5. balances' \in Balances
  BY <1>1, ReviewAssumption DEF Balances
<1>6. StatementOK' /\ RowsOK'
  BY <1>2, <1>u, <1>5 DEF StatementOK, RowsOK, Keyed
<1>7. WorkerOK'
  BY <1>1, <1>2, <1>3, <1>u, <1>4 DEF WorkerOK
<1> QED BY <1>3, <1>4, <1>6, <1>7, <1>u, Worked

\* A job ends without rows.
LEMMA WorkerFailsStep ==
    ASSUME ReviewInv, WorkerFails
    PROVE  ReviewInv'
<1>1. /\ worker.pc \in {"working", "commit"} /\ worker' = [pc |-> "idle", reading |-> NoReading]
      /\ status' = "failed"
      /\ UNCHANGED <<balances, rows, verdict, strays, held, acked, req, files, nextRow>>
  BY DEF WorkerFails
<1>2. StatementOK /\ RowsOK
  BY DEF ReviewInv, Typed
<1>3. rows = {} /\ verdict # "overridden"
  BY <1>1, AtWork
<1>4. worker'.pc = "idle" /\ worker' \in WorkerState
  BY <1>1
<1>5. StatementOK' /\ RowsOK' /\ WorkerOK'
  BY <1>1, <1>2, <1>3, <1>4 DEF StatementOK, RowsOK, Keyed, WorkerOK
<1> QED BY <1>1, <1>4, <1>5, Worked

\* The rows of a reading get ids of their own, above all those in use.
LEMMA NumberedRows ==
    ASSUME NEW x \in Readings, nextRow \in 1..(MaxRows + 1), nextRow + Len(x.txs) <= MaxRows + 1
    PROVE  /\ Keyed(NewRows(x)) /\ nextRow + Len(x.txs) \in 1..(MaxRows + 1)
           /\ \A t \in NewRows(x) : t.id < nextRow + Len(x.txs)
<1>1. MaxRows \in Nat /\ x.txs \in Seq(Tx)
  BY ReviewAssumption
<1>n. nextRow \in Int
  BY <1>1
<1>2. Len(x.txs) \in Nat /\ DOMAIN x.txs = 1..Len(x.txs) /\ \A i \in DOMAIN x.txs : x.txs[i] \in Tx
  BY <1>1
<1> DEFINE numbered(i) == [id |-> nextRow + i - 1, cents |-> x.txs[i].cents, inPeriod |-> x.txs[i].inPeriod]
<1>3. ASSUME NEW i \in DOMAIN x.txs
      PROVE  numbered(i) \in Row /\ numbered(i).id = nextRow + i - 1
             /\ i \in Int /\ numbered(i).id < nextRow + Len(x.txs)
  <2>1. i \in 1..Len(x.txs) /\ x.txs[i] \in Tx
    BY <1>2
  <2>2. nextRow + i - 1 \in RowIds /\ nextRow + i - 1 < nextRow + Len(x.txs)
    BY <1>1, <1>2, <2>1 DEF RowIds
  <2> QED BY <2>1, <2>2 DEF Row, Tx
<1>4. NewRows(x) = {numbered(i) : i \in DOMAIN x.txs}
  BY DEF NewRows
<1> HIDE DEF numbered
<1>5. \A t \in NewRows(x) : \E i \in DOMAIN x.txs : t = numbered(i)
  BY <1>4
<1>6. \A t \in NewRows(x) : t \in Row /\ t.id < nextRow + Len(x.txs)
  BY <1>3, <1>5
<1>7. ASSUME NEW t \in NewRows(x), NEW u \in NewRows(x), t.id = u.id PROVE t = u
  <2>1. PICK i \in DOMAIN x.txs, k \in DOMAIN x.txs : t = numbered(i) /\ u = numbered(k)
    BY <1>5
  <2>2. /\ i \in Int /\ k \in Int
        /\ t.id = nextRow + i - 1 /\ u.id = nextRow + k - 1
    BY <1>3, <2>1
  <2>3. nextRow + i - 1 = nextRow + k - 1
    BY <1>7, <2>2
  <2>4. i = k
    BY <1>n, <2>2, <2>3
  <2> QED BY <2>1, <2>4
<1>8. nextRow + Len(x.txs) \in 1..(MaxRows + 1)
  BY <1>1, <1>2
<1> QED BY <1>6, <1>7, <1>8 DEF Keyed

\* Rows, verdict, hold and status are stored together: without a hold no row was skipped.
LEMMA WorkerCommitsStep ==
    ASSUME ReviewInv, WorkerCommits
    PROVE  ReviewInv'
<1>0. /\ worker.pc = "commit" /\ status' = "review" /\ acked' = FALSE
      /\ worker' = [pc |-> "idle", reading |-> NoReading]
      /\ UNCHANGED <<balances, req, files>>
  BY DEF WorkerCommits
<1>1. PICK x \in Readings : x = worker.reading
  BY <1>0 DEF ReviewInv, Typed
<1>2. PICK new : new = NewRows(x)
  OBVIOUS
<1>3. /\ nextRow + Len(x.txs) <= MaxRows + 1 /\ nextRow' = nextRow + Len(x.txs)
      /\ verdict' = reconcileGoldenRule(x.due, new) /\ strays' = periodBoundsViolations(new)
  BY <1>1, <1>2 DEF WorkerCommits
<1>4. PICK skipped \in SUBSET new, doubts \in BOOLEAN :
        rows' = rows \cup (new \ skipped) /\ held' = HeldFor(x, skipped, doubts)
  BY <1>1, <1>2 DEF WorkerCommits
<1>5. /\ StatementOK /\ RowsOK /\ WorkerOK
      /\ balances = [due |-> x.due, known |-> x.known] /\ balances \in Balances
  BY <1>0, <1>1 DEF ReviewInv, Typed, StatementOK, WorkerOK
<1>6. rows = {}
  BY <1>0, AtWork
<1>7. rows' = new \ skipped
  BY <1>4, <1>6
<1>8. /\ Keyed(new) /\ nextRow' \in 1..(MaxRows + 1)
      /\ \A t \in new : t.id < nextRow'
  BY <1>2, <1>3, <1>5, NumberedRows DEF RowsOK
<1>9. RowsOK'
  BY <1>7, <1>8 DEF RowsOK, Keyed
<1>10. ~held' => rows' = new /\ x.known
  BY <1>4, <1>7 DEF HeldFor
<1>11. worker'.pc = "idle" /\ worker' \in WorkerState
  BY <1>0
<1>12. PICK result \in {"verified", "discrepancy"} : result = reconcileGoldenRule(x.due, new)
  BY Judgements
<1>13. strays' \in Nat
  BY <1>3, <1>8, KeyedIsFinite
<1>14. held' \in BOOLEAN
  BY <1>4 DEF HeldFor
<1>15. StatementOK'
  BY <1>0, <1>3, <1>5, <1>12, <1>13, <1>14 DEF StatementOK, Verdict
<1>16. WorkerOK'
  BY <1>0, <1>11 DEF WorkerOK
<1>17. status' = "review" /\ ~held' =>
         /\ balances'.known
         /\ verdict' = "overridden" \/ verdict' = reconcileGoldenRule(balances'.due, rows')
         /\ strays' = periodBoundsViolations(rows')
  BY <1>0, <1>3, <1>5, <1>10
<1> QED BY <1>0, <1>9, <1>11, <1>15, <1>16, <1>17, Worked

\* An uploaded statement, its job queued.
LEMMA ReviewInit ==
    ASSUME Init
    PROVE  ReviewInv
<1>1. /\ status = "uploaded" /\ balances = [due |-> 0, known |-> FALSE] /\ rows = {}
      /\ verdict = "pending" /\ strays = 0 /\ held = FALSE /\ acked = FALSE
      /\ worker = [pc |-> "queued", reading |-> NoReading]
      /\ req = [q \in Requests |-> IdleReq] /\ files = {} /\ nextRow = 1
  BY DEF Init
<1>2. StatementOK
  <2>1. balances \in Balances
    BY <1>1 DEF Balances
  <2>2. strays \in Nat /\ held \in BOOLEAN /\ acked \in BOOLEAN
    BY <1>1
  <2>3. verdict \in Verdict
    BY <1>1 DEF Verdict
  <2> QED BY <1>1, <2>1, <2>2, <2>3 DEF StatementOK
<1>3. RowsOK
  BY <1>1, ReviewAssumption DEF RowsOK, Keyed
<1>4. \A q \in Requests : req[q] = IdleReq /\ req[q].pc = "idle"
  BY <1>1 DEF IdleReq
<1>5. Typed
  <2>1. req \in [Requests -> RequestState]
    BY <1>1, IdleRequest
  <2>2. worker \in WorkerState
        /\ worker.pc = "queued"
    BY <1>1
  <2> QED BY <1>1, <1>2, <1>3, <2>1, <2>2 DEF Typed
<1>6. WorkerOK
  BY <1>1 DEF WorkerOK
<1>7. OneAtATime
  BY <1>4 DEF OneAtATime, InFlight
<1>8. ASSUME NEW q \in Requests PROVE StepOK(req[q])
  BY <1>4 DEF StepOK, Judging
<1>9. JudgementOK
  BY <1>1 DEF JudgementOK
<1>10. ExportTies
  BY <1>1 DEF ExportTies
<1> QED BY <1>5, <1>6, <1>7, <1>8, <1>9, <1>10 DEF ReviewInv

\* Each step keeps the invariant.
LEMMA ReviewStep ==
    ASSUME InTurn, ReviewInv, [Next]_vars
    PROVE  ReviewInv'
<1>1. CASE Worker
  BY <1>1, WorkerStartsStep, WorkerTotalsStep, WorkerCommitsStep, WorkerFailsStep DEF Worker
<1>2. ASSUME NEW q \in Requests, StartRequest(q)
      PROVE  ReviewInv'
  BY <1>2, StartRequestStep
<1>3. ASSUME NEW q \in Requests, RequestStep(q)
      PROVE  ReviewInv'
  BY <1>3, EditRowsStep, ReadStatementStep, ReadRowsStep, WriteVerdictStep, OverrideVerdictStep,
     AcknowledgeHoldStep, RenderExportStep, RemoveJobStep, WipeRowsStep, ResetStatementStep,
     EnqueueStep DEF RequestStep
<1>4. CASE UNCHANGED vars
  <2>1. UNCHANGED <<status, balances, rows, verdict, strays, held, acked, worker, req, files, nextRow>>
    BY <1>4 DEF vars
  <2>2. Typed' /\ WorkerOK' /\ OneAtATime' /\ ExportTies'
    BY <2>1 DEF ReviewInv, Typed, StatementOK, RowsOK, Keyed, WorkerOK, OneAtATime, InFlight, ExportTies
  <2>3. ASSUME NEW q \in Requests PROVE StepOK(req[q])'
    BY <2>1 DEF ReviewInv, StepOK, Statement, SeenBy
  <2>4. JudgementOK'
    BY <2>1 DEF ReviewInv, JudgementOK
  <2> QED BY <2>1, <2>2, <2>3, <2>4 DEF ReviewInv
<1> QED BY <1>1, <1>2, <1>3, <1>4 DEF Next

\* The inductive invariant: what a request knows of the statement stays true until it
\* acts on it, so that each recomputation judges the rows there are.
THEOREM ReviewInvariant == InTurn => (Spec => []ReviewInv)
<1> SUFFICES ASSUME InTurn PROVE Spec => []ReviewInv
  OBVIOUS
<1>1. Init => ReviewInv
  BY ReviewInit
<1>2. ReviewInv /\ [Next]_vars => ReviewInv'
  BY ReviewStep
<1> QED BY <1>1, <1>2, PTL DEF Spec

\* recomputeReconciliation (services/reconciliation.ts): in turn, the verdict and the count
\* of a statement at rest are those of its rows, after any sequence of edits, overrides,
\* recomputations and re-extractions; and an override is one of a statement in review.
THEOREM VerdictsAreCurrent == InTurn => (Spec => []VerdictsHold)
<1>1. ReviewInv => VerdictsHold
  <2> SUFFICES ASSUME ReviewInv PROVE VerdictsHold
    OBVIOUS
  <2>1. /\ StatementOK /\ RowsOK /\ WorkerOK /\ req \in [Requests -> RequestState]
        /\ worker \in WorkerState
        /\ files \subseteq FileRecord
    BY DEF ReviewInv, Typed
  <2>2. TypeOK
    <3>1. Statement \in Snapshot
      BY <2>1 DEF StatementOK, Statement, Snapshot
    <3>2. rows \subseteq Row /\ nextRow \in 1..(MaxRows + 1) /\ \A t, u \in rows : t.id = u.id => t = u
      BY <2>1 DEF RowsOK, Keyed
    <3>3. worker.pc \in {"idle", "queued", "working", "commit"} /\ worker.reading \in Readings \cup {NoReading}
      BY <2>1
    <3>4. ASSUME NEW q \in Requests
          PROVE  /\ req[q].pc \in {"idle", "edit", "readStatement", "readRows", "write",
                                   "override", "acknowledge", "render", "remove", "wipe",
                                   "reset", "enqueue", "done"}
                 /\ req[q].kind \in RequestKind
                 /\ req[q].targets \subseteq RowIds
                 /\ req[q].edit \in Patches \cup Inserts \cup {<<>>}
                 /\ req[q].seen \in Snapshot
                 /\ req[q].found \subseteq Row
      <4>1. PICK p \in RequestState : p = req[q]
        BY <2>1
      <4> QED BY <4>1 DEF RequestState
    <3> QED BY <2>1, <3>1, <3>2, <3>3, <3>4 DEF TypeOK
  <2>3. AtRest => \A q \in Requests : req[q].pc \notin Judging \cup {"reset"}
    BY DEF AtRest, InFlight, Judging
  <2>4. VerdictIsCurrent /\ StraysAreCurrent
    BY <2>3 DEF ReviewInv, JudgementOK, VerdictIsCurrent, StraysAreCurrent, Judged
  <2>5. OverrideNeedsReview
    BY <2>1 DEF WorkerOK, OverrideNeedsReview
  <2> QED BY <2>2, <2>4, <2>5 DEF VerdictsHold
<1> QED BY <1>1, ReviewInvariant, PTL

\* assertExportable (services/exports.ts): in turn, a file that does not balance was
\* overridden or acknowledged by an operator.
THEOREM ExportsTie == InTurn => (Spec => []ExportTies)
<1>1. ReviewInv => ExportTies
  BY DEF ReviewInv
<1> QED BY <1>1, ReviewInvariant, PTL

(* An override outlives edits at any time, also of a statement under work. *)

\* What an override rests on: it is one of a statement in review, it is given and
\* taken away while no job waits or runs, and a recomputation that began before
\* a step of the extraction saw the override if there is one.
OverrideInv ==
    /\ DOMAIN req = Requests
    /\ \A q \in Requests : {"pc", "seen", "found"} \subseteq DOMAIN req[q]
    /\ worker \in WorkerState
    /\ worker.pc = "queued" => status = "uploaded"
    /\ worker.pc \in {"working", "commit"} => status = "extracting"
    /\ verdict = "overridden" => status = "review"
    /\ OneAtATime
    /\ \A q \in Requests :
          /\ req[q].pc = "override" => status = "review"
          /\ req[q].pc \in {"wipe", "reset", "enqueue"} => worker.pc = "idle"
          /\ req[q].pc = "enqueue" => status = "uploaded"
          /\ req[q].pc \in {"readRows", "write"} /\ verdict = "overridden" =>
                req[q].seen.verdict = "overridden"

\* A step of the extraction finds no override and leaves none.
LEMMA WorkerAndOverride ==
    ASSUME OverrideInv, Worker
    PROVE  OverrideInv' /\ verdict # "overridden"
<1>1. CASE WorkerStarts
  <2>1. worker'.pc = "working" /\ worker' \in WorkerState
    BY <1>1 DEF WorkerStarts, OverrideInv
  <2> QED BY <1>1, <2>1 DEF WorkerStarts, OverrideInv, OneAtATime, InFlight
<1>2. CASE WorkerTotals
  <2>1. worker'.pc = "commit" /\ worker' \in WorkerState
    BY <1>2 DEF WorkerTotals
  <2> QED BY <1>2, <2>1 DEF WorkerTotals, OverrideInv, OneAtATime, InFlight
<1>3. CASE WorkerCommits
  <2>1. worker'.pc = "idle" /\ worker' \in WorkerState
    BY <1>3 DEF WorkerCommits
  <2>2. verdict' # "overridden" /\ status' = "review" /\ req' = req /\ worker.pc = "commit"
    BY <1>3, Judgements DEF WorkerCommits
  <2> QED BY <2>1, <2>2 DEF OverrideInv, OneAtATime, InFlight
<1>4. CASE WorkerFails
  <2>1. worker'.pc = "idle" /\ worker' \in WorkerState
    BY <1>4 DEF WorkerFails
  <2> QED BY <1>4, <2>1 DEF WorkerFails, OverrideInv, OneAtATime, InFlight
<1> QED BY <1>1, <1>2, <1>3, <1>4 DEF Worker

\* A step of the only request under way, told by what it does to the request.
LEMMA ServedOverride ==
    ASSUME OverrideInv, NEW q \in Requests, NEW p, req' = [req EXCEPT ![q] = p],
           {"pc", "seen", "found"} \subseteq DOMAIN p,
           \A k \in Requests : k # q => ~InFlight(k),
           worker' \in WorkerState,
           worker'.pc = "queued" => status' = "uploaded",
           worker'.pc \in {"working", "commit"} => status' = "extracting",
           verdict' = "overridden" => status' = "review",
           p.pc = "override" => status' = "review",
           p.pc \in {"wipe", "reset", "enqueue"} => worker'.pc = "idle",
           p.pc = "enqueue" => status' = "uploaded",
           p.pc \in {"readRows", "write"} /\ verdict' = "overridden" => p.seen.verdict = "overridden"
    PROVE  OverrideInv'
<1>1. /\ DOMAIN req' = Requests /\ req'[q] = p
      /\ \A k \in Requests : k # q => req'[k] = req[k] /\ req'[k].pc \in {"idle", "done"}
  BY DEF OverrideInv, InFlight
<1>2. OneAtATime'
  BY <1>1 DEF OneAtATime, InFlight
<1> QED BY <1>1, <1>2 DEF OverrideInv

\* A request that ends, or moves on, keeps its shape.
LEMMA RequestShapes ==
    ASSUME NEW q \in Requests, DOMAIN req = Requests, {"pc", "seen", "found"} \subseteq DOMAIN req[q]
    PROVE  /\ Finish(q) => \E p : /\ req' = [req EXCEPT ![q] = p] /\ p.pc = "done"
                                  /\ {"pc", "seen", "found"} \subseteq DOMAIN p
           /\ \A pc : Goto(q, pc) => \E p : /\ req' = [req EXCEPT ![q] = p] /\ p.pc = pc
                                            /\ {"pc", "seen", "found"} \subseteq DOMAIN p
<1>1. ASSUME Finish(q)
      PROVE  \E p : /\ req' = [req EXCEPT ![q] = p] /\ p.pc = "done"
                    /\ {"pc", "seen", "found"} \subseteq DOMAIN p
  <2> DEFINE p == [IdleReq EXCEPT !.pc = "done"]
  <2>1. /\ req' = [req EXCEPT ![q] = p] /\ p.pc = "done"
        /\ {"pc", "seen", "found"} \subseteq DOMAIN p
    BY <1>1 DEF Finish, IdleReq
  <2> HIDE DEF p
  <2> QED BY <2>1
<1>2. ASSUME NEW pc, Goto(q, pc)
      PROVE  \E p : /\ req' = [req EXCEPT ![q] = p] /\ p.pc = pc
                    /\ {"pc", "seen", "found"} \subseteq DOMAIN p
  <2> DEFINE p == [req[q] EXCEPT !.pc = pc]
  <2>1. /\ req' = [req EXCEPT ![q] = p] /\ p.pc = pc
        /\ {"pc", "seen", "found"} \subseteq DOMAIN p
    BY <1>2 DEF Goto
  <2> HIDE DEF p
  <2> QED BY <2>1
<1> QED BY <1>1, <1>2

\* A request that begins, and an override only in review.
LEMMA StartAndOverride ==
    ASSUME ~Overlap, OverrideInv, NEW q \in Requests, StartRequest(q)
    PROVE  OverrideInv' /\ verdict' = verdict
<1> DEFINE Begins(p) ==
         /\ req' = [req EXCEPT ![q] = p] /\ {"pc", "seen", "found"} \subseteq DOMAIN p
         /\ p.pc \in {"edit", "readStatement", "override", "acknowledge", "render", "remove"}
         /\ p.pc = "override" => status = "review"
<1>1. \E p : Begins(p)
  <2>1. ASSUME NEW kind, NEW pc \in {"edit", "readStatement", "override", "acknowledge", "remove"},
               NEW targets, NEW edit, Start(q, kind, pc, targets, edit),
               pc = "override" => status = "review"
        PROVE  \E p : Begins(p)
    <3> DEFINE p == [IdleReq EXCEPT !.pc = pc, !.kind = kind, !.targets = targets, !.edit = edit]
    <3>1. /\ req' = [req EXCEPT ![q] = p] /\ p.pc = pc
          /\ {"pc", "seen", "found"} \subseteq DOMAIN p
      BY <2>1 DEF Start, IdleReq
    <3> HIDE DEF p
    <3> QED BY <2>1, <3>1
  <2>2. CASE StartExport(q)
    <3> DEFINE p == [IdleReq EXCEPT !.pc = "render", !.kind = "export", !.seen = Statement]
    <3>1. /\ req' = [req EXCEPT ![q] = p] /\ p.pc = "render"
          /\ {"pc", "seen", "found"} \subseteq DOMAIN p
      BY <2>2 DEF StartExport, IdleReq
    <3> HIDE DEF p
    <3> QED BY <3>1
  <2>3. CASE \E t \in rows, edit \in Patches : StartPatch(q, t, edit)
    <3>1. PICK t, edit : StartPatch(q, t, edit)
      BY <2>3
    <3> QED BY <2>1, <3>1 DEF StartPatch
  <2>4. CASE \E changed \in SUBSET rows, edit \in Patches : StartBulk(q, changed, edit)
    <3>1. PICK changed, edit : StartBulk(q, changed, edit)
      BY <2>4
    <3> QED BY <2>1, <3>1 DEF StartBulk
  <2>5. CASE \E edit \in Inserts : StartInsert(q, edit)
    <3>1. PICK edit : StartInsert(q, edit)
      BY <2>5
    <3> QED BY <2>1, <3>1 DEF StartInsert
  <2>6. CASE \E t \in rows : StartRemove(q, t)
    <3>1. PICK t : StartRemove(q, t)
      BY <2>6
    <3> QED BY <2>1, <3>1 DEF StartRemove
  <2>7. CASE StartRecompute(q)
    BY <2>1, <2>7 DEF StartRecompute
  <2>8. CASE StartOverride(q)
    BY <2>1, <2>8 DEF StartOverride
  <2>9. CASE StartAcknowledge(q)
    BY <2>1, <2>9 DEF StartAcknowledge
  <2>10. CASE StartReExtract(q)
    BY <2>1, <2>10 DEF StartReExtract
  <2> QED BY <2>2, <2>3, <2>4, <2>5, <2>6, <2>7, <2>8, <2>9, <2>10 DEF StartRequest
<1>2. UNCHANGED <<status, verdict, worker>>
  BY DEF StartRequest, StartPatch, StartBulk, StartInsert, StartRemove, StartRecompute,
     StartOverride, StartAcknowledge, StartExport, StartReExtract, stmtVars
<1>3. \A k \in Requests : ~InFlight(k)
  BY DEF StartRequest, StartPatch, StartBulk, StartInsert, StartRemove, StartRecompute,
     StartOverride, StartAcknowledge, StartExport, StartReExtract, MayStart
<1>4. /\ worker \in WorkerState
      /\ worker.pc = "queued" => status = "uploaded"
      /\ worker.pc \in {"working", "commit"} => status = "extracting"
      /\ verdict = "overridden" => status = "review"
  BY DEF OverrideInv
<1>5. PICK p : Begins(p)
  BY <1>1
<1>6. OverrideInv'
  BY <1>2, <1>3, <1>4, <1>5, ServedOverride
<1> QED BY <1>2, <1>6

\* A step of a request: only a re-extraction ends an override.
LEMMA RequestAndOverride ==
    ASSUME OverrideInv, NEW q \in Requests, RequestStep(q)
    PROVE  /\ OverrideInv'
           /\ verdict = "overridden" => verdict' = "overridden" \/ status' = "uploaded"
<1>0. /\ worker \in WorkerState
      /\ worker.pc = "queued" => status = "uploaded"
      /\ worker.pc \in {"working", "commit"} => status = "extracting"
      /\ verdict = "overridden" => status = "review"
      /\ req[q].pc = "override" => status = "review"
      /\ req[q].pc \in {"wipe", "reset", "enqueue"} => worker.pc = "idle"
      /\ req[q].pc = "enqueue" => status = "uploaded"
      /\ req[q].pc \in {"readRows", "write"} /\ verdict = "overridden" =>
            req[q].seen.verdict = "overridden"
      /\ DOMAIN req = Requests /\ {"pc", "seen", "found"} \subseteq DOMAIN req[q]
  BY DEF OverrideInv
<1>a. \A k \in Requests : k # q => ~InFlight(k)
  BY DEF OverrideInv, OneAtATime, InFlight, RequestStep, EditRows, ReadStatement, ReadRows,
     WriteVerdict, OverrideVerdict, AcknowledgeHold, RenderExport, RemoveJob, WipeRows,
     ResetStatement, Enqueue
<1>f. ASSUME Finish(q), worker' \in WorkerState,
             worker'.pc = "queued" => status' = "uploaded",
             worker'.pc \in {"working", "commit"} => status' = "extracting",
             verdict' = "overridden" => status' = "review"
      PROVE  OverrideInv'
  <2>1. PICK p : /\ req' = [req EXCEPT ![q] = p] /\ p.pc = "done"
                 /\ {"pc", "seen", "found"} \subseteq DOMAIN p
    BY <1>0, <1>f, RequestShapes
  <2> QED BY <1>a, <1>f, <2>1, ServedOverride
<1>g. ASSUME NEW pc \in {"readStatement", "wipe", "reset", "enqueue"}, Goto(q, pc),
             worker' \in WorkerState,
             worker'.pc = "queued" => status' = "uploaded",
             worker'.pc \in {"working", "commit"} => status' = "extracting",
             verdict' = "overridden" => status' = "review",
             pc # "readStatement" => worker'.pc = "idle",
             pc = "enqueue" => status' = "uploaded"
      PROVE  OverrideInv'
  <2>1. PICK p : /\ req' = [req EXCEPT ![q] = p] /\ p.pc = pc
                 /\ {"pc", "seen", "found"} \subseteq DOMAIN p
    BY <1>0, <1>g, RequestShapes
  <2> QED BY <1>a, <1>g, <2>1, ServedOverride
<1>1. CASE EditRows(q)
  <2>1. UNCHANGED <<status, verdict, worker>> /\ (Finish(q) \/ Goto(q, "readStatement"))
    BY <1>1 DEF EditRows, stmtVars
  <2> QED BY <1>0, <1>f, <1>g, <2>1
<1>2. CASE ReadStatement(q)
  <2>1. UNCHANGED <<status, verdict, worker>>
    BY <1>2 DEF ReadStatement, stmtVars
  <2>2. CASE balances.known
    <3> DEFINE p == [req[q] EXCEPT !.pc = "readRows", !.seen = Statement]
    <3>1. /\ req' = [req EXCEPT ![q] = p] /\ p.pc = "readRows" /\ p.seen = Statement
          /\ {"pc", "seen", "found"} \subseteq DOMAIN p
      BY <1>0, <1>2, <2>2 DEF ReadStatement
    <3> HIDE DEF p
    <3>2. p.seen.verdict = verdict
      BY <3>1 DEF Statement
    <3>3. OverrideInv'
      BY <1>0, <1>a, <2>1, <3>1, <3>2, ServedOverride
    <3> QED BY <2>1, <3>3
  <2>3. CASE ~balances.known
    BY <1>0, <1>2, <1>f, <2>1, <2>3 DEF ReadStatement
  <2> QED BY <2>2, <2>3
<1>3. CASE ReadRows(q)
  <2>1. UNCHANGED <<status, verdict, worker>> /\ req[q].pc = "readRows"
    BY <1>3 DEF ReadRows, stmtVars
  <2>2. PICK txs : txs = RowsSeenBy(q)
    OBVIOUS
  <2> DEFINE p == [req[q] EXCEPT !.pc = "write", !.found = txs]
  <2>3. /\ req' = [req EXCEPT ![q] = p] /\ p.pc = "write" /\ p.seen = req[q].seen
        /\ {"pc", "seen", "found"} \subseteq DOMAIN p
    BY <1>0, <1>3, <2>2 DEF ReadRows
  <2> HIDE DEF p
  <2>4. OverrideInv'
    BY <1>0, <1>a, <2>1, <2>3, ServedOverride
  <2> QED BY <2>1, <2>4
<1>4. CASE WriteVerdict(q)
  <2>1. UNCHANGED <<status, worker>> /\ Finish(q) /\ req[q].pc = "write"
    BY <1>4 DEF WriteVerdict
  <2>2. CASE verdict = "overridden"
    <3>1. verdict' = "overridden"
      BY <1>0, <1>4, <2>1, <2>2 DEF WriteVerdict, Sticky
    <3> QED BY <1>0, <1>f, <2>1, <2>2, <3>1
  <2>3. CASE verdict # "overridden"
    <3>1. verdict' # "overridden"
      BY <1>4, <2>3, Judgements DEF WriteVerdict
    <3> QED BY <1>0, <1>f, <2>1, <2>3, <3>1
  <2> QED BY <2>2, <2>3
<1>5. CASE OverrideVerdict(q)
  <2>1. UNCHANGED <<status, worker>> /\ Finish(q) /\ verdict' = "overridden" /\ status = "review"
    BY <1>0, <1>5 DEF OverrideVerdict
  <2> QED BY <1>0, <1>f, <2>1
<1>6. CASE AcknowledgeHold(q)
  <2>1. UNCHANGED <<status, verdict, worker>> /\ Finish(q)
    BY <1>6 DEF AcknowledgeHold
  <2> QED BY <1>0, <1>f, <2>1
<1>7. CASE RenderExport(q)
  <2>1. UNCHANGED <<status, verdict, worker>> /\ Finish(q)
    BY <1>7 DEF RenderExport, stmtVars
  <2> QED BY <1>0, <1>f, <2>1
<1>8. CASE RemoveJob(q)
  <2>1. UNCHANGED <<status, verdict>>
    BY <1>8 DEF RemoveJob, stmtVars
  <2>2. CASE worker.pc \in {"working", "commit"}
    BY <1>0, <1>8, <1>f, <2>1, <2>2 DEF RemoveJob
  <2>3. CASE worker.pc \notin {"working", "commit"}
    <3>1. Goto(q, "wipe") /\ worker' = [worker EXCEPT !.pc = "idle"]
      BY <1>8, <2>3 DEF RemoveJob
    <3>2. worker'.pc = "idle" /\ worker' \in WorkerState
      BY <1>0, <3>1
    <3> QED BY <1>0, <1>g, <2>1, <3>1, <3>2
  <2> QED BY <2>2, <2>3
<1>9. CASE WipeRows(q)
  <2>1. UNCHANGED <<status, verdict, worker>> /\ Goto(q, "reset") /\ req[q].pc = "wipe"
    BY <1>9 DEF WipeRows, stmtVars
  <2> QED BY <1>0, <1>g, <2>1
<1>10. CASE ResetStatement(q)
  <2>1. /\ worker' = worker /\ Goto(q, "enqueue") /\ req[q].pc = "reset"
        /\ status' = "uploaded" /\ verdict' = "pending"
    BY <1>10 DEF ResetStatement, ResetVerdict
  <2> QED BY <1>0, <1>g, <2>1
<1>11. CASE Enqueue(q)
  <2>1. /\ UNCHANGED <<status, verdict>> /\ Finish(q) /\ req[q].pc = "enqueue"
        /\ worker' = [worker EXCEPT !.pc = "queued"]
    BY <1>0, <1>11 DEF Enqueue, stmtVars
  <2>2. worker'.pc = "queued" /\ worker' \in WorkerState
    BY <1>0, <2>1
  <2> QED BY <1>0, <1>f, <2>1, <2>2
<1> QED BY <1>1, <1>2, <1>3, <1>4, <1>5, <1>6, <1>7, <1>8, <1>9, <1>10, <1>11 DEF RequestStep

\* What an override rests on holds from the start and is kept by every step.
LEMMA OverrideKept ==
    ASSUME ~Overlap
    PROVE  /\ Init => OverrideInv
           /\ OverrideInv /\ [Next]_vars =>
                 /\ OverrideInv'
                 /\ verdict = "overridden" => verdict' = "overridden" \/ status' = "uploaded"
<1>1. ASSUME Init PROVE OverrideInv
  <2>1. /\ status = "uploaded" /\ verdict = "pending"
        /\ worker = [pc |-> "queued", reading |-> NoReading]
        /\ DOMAIN req = Requests /\ \A q \in Requests : req[q] = IdleReq
    BY <1>1 DEF Init
  <2>2. worker \in WorkerState /\ worker.pc = "queued"
    BY <2>1
  <2>3. IdleReq.pc = "idle" /\ {"pc", "seen", "found"} \subseteq DOMAIN IdleReq
    BY DEF IdleReq
  <2> QED BY <2>1, <2>2, <2>3 DEF OverrideInv, OneAtATime, InFlight
<1>2. ASSUME OverrideInv, [Next]_vars
      PROVE  /\ OverrideInv'
             /\ verdict = "overridden" => verdict' = "overridden" \/ status' = "uploaded"
  <2>1. CASE Worker
    BY <1>2, <2>1, WorkerAndOverride
  <2>2. ASSUME NEW q \in Requests, StartRequest(q)
        PROVE  OverrideInv' /\ verdict' = verdict
    BY <1>2, <2>2, StartAndOverride
  <2>3. ASSUME NEW q \in Requests, RequestStep(q)
        PROVE  /\ OverrideInv'
               /\ verdict = "overridden" => verdict' = "overridden" \/ status' = "uploaded"
    BY <1>2, <2>3, RequestAndOverride
  <2>4. CASE UNCHANGED vars
    BY <1>2, <2>4 DEF OverrideInv, OneAtATime, InFlight, vars
  <2> QED BY <1>2, <2>1, <2>2, <2>3, <2>4 DEF Next
<1> QED BY <1>1, <1>2

\* Sticky overrides (services/reconciliation.ts): while requests take turns, only a
\* re-extraction ends one, edits of a statement under work included.
THEOREM OverridesStick == ~Overlap => (Spec => OverrideSticks)
<1> SUFFICES ASSUME ~Overlap PROVE Spec => OverrideSticks
  OBVIOUS
<1>1. Init => OverrideInv
  BY OverrideKept
<1>2. OverrideInv /\ [Next]_vars => OverrideInv'
  BY OverrideKept
<1>3. OverrideInv /\ [Next]_vars =>
        [verdict = "overridden" => verdict' = "overridden" \/ status' = "uploaded"]_vars
  BY OverrideKept
<1> QED BY <1>1, <1>2, <1>3, PTL DEF OverrideSticks, Spec

=============================================================================
