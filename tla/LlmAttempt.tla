---------------------------- MODULE LlmAttempt ----------------------------
(***************************************************************************)
(* One LLM attempt of an extraction, from the provider to the rows and the *)
(* verdict it hands the worker: attemptExtraction in                       *)
(* apps/api/src/jobs/extraction.worker.ts and what it calls in             *)
(* packages/extractor (the extract() loops of the four engines, the        *)
(* salvage of what they answer) and packages/reconciler (the repairs).     *)
(*                                                                         *)
(* An answer is the part of the model's JSON the code looks at: a header   *)
(* and rows, any field of which may be unreadable.  Days and cents are     *)
(* small numbers, Unread the day that cannot be read; prompts, tokens,     *)
(* page images and the confidence the model reports are left out.          *)
(***************************************************************************)
EXTENDS RepairPass, Ascending, SequencesExt, ExtractionAttempt

CONSTANTS
    Answers,     \* what a first request may be answered with
    Rereads,     \* what a reminder or a repair request may be answered with
    PageAnswers, \* what the statement model may answer for one page
    Pages,       \* pages of the document, for the statement model
    Tries,       \* VIBETC_STATEMENT_PAGE_ATTEMPTS
    Texts,       \* descriptions of rows
    Year         \* days to a year

ASSUME AttemptAssumption == {Pages, Tries, Year} \subseteq Nat \ {0}

\* A row, a balance and an answer as JSON.parse leaves them; cents and days
\* that cannot be read are numbers nobody looks at.
Line == [cents : Int, read : BOOLEAN, text : Texts, day : Nat, eitherWay : BOOLEAN,
         printed : BOOLEAN, bal : Int]
Balance == [read : BOOLEAN, cents : Int]
Answer == [hasRows : BOOLEAN, omitted : BOOLEAN, period : BOOLEAN, start : Nat, end : Nat,
           format : {"MDY", "TEXTUAL", "AMBIGUOUS", "missing"},
           opening : Balance, closing : Balance, rows : Seq(Line)]

ASSUME AnswerAssumption == Answers \cup Rereads \cup PageAnswers \subseteq Answer

Unread == 0
TextEngine == {"gateway", "router", "anthropic"}
Engine == TextEngine \cup {"statement"}
Fault == {"build", "cap", "http", "refused", "empty", "length", "garbage", "schema"}
Note == {"period", "date", "dateOrder", "balances", "closing", "format", "amount", "dropped"}

VARIABLES
    engine,   \* what answers: three text engines or the per-page statement model
    override, \* has an operator confirmed the date format?
    pc,
    ask,      \* the request of this extract(), or the try at this page
    plain,    \* is the grammar off for this request?
    pages,    \* the pages answered so far
    data,     \* what the first extraction came to
    source,   \* the answer the rows were taken from
    rows,     \* effectiveTxs
    repaired, \* repairApplied
    paid,     \* answers Anthropic charges for
    reported, \* those in the cost the attempt reports
    fault,    \* what the last extract() threw
    outcome

vars == <<engine, override, pc, ask, plain, pages, data, source, rows, repaired,
          paid, reported, fault, outcome>>

NoDoc == [hasRows |-> FALSE]
NoData == [rows |-> <<>>, start |-> Unread]

Init ==
    /\ engine \in Engine /\ override \in BOOLEAN
    /\ pc = "build" /\ ask = 1 /\ plain = FALSE /\ pages = <<>>
    /\ data = NoData /\ source = NoDoc /\ rows = <<>>
    /\ repaired = "no" /\ paid = 0 /\ reported = 0
    /\ fault = "none" /\ outcome = "none"

TypeOK ==
    /\ engine \in Engine /\ override \in BOOLEAN /\ plain \in BOOLEAN
    /\ pc \in {"build", "first", "repair", "heuristic", "done"}
    /\ ask \in 1..(IF engine = "statement" THEN Tries ELSE 2)
    /\ pages \in Seq(PageAnswers) /\ Len(pages) < Pages
    /\ repaired \in {"no", "llm", "heuristic"}
    /\ reported \in 0..paid /\ paid \in 0..4
    /\ fault \in Fault \cup {"none"} /\ outcome \in Outcome \cup {"none"}
    /\ outcome = "none" <=> pc # "done"

-----------------------------------------------------------------------------
(* What is made of an answer *)

Figure(cents) == [read |-> TRUE, cents |-> cents]
Least(S) == IF S = {} THEN Unread ELSE Min(S)
Greatest(S) == IF S = {} THEN Unread ELSE Max(S)
When(cond, note) == IF cond THEN {note} ELSE {}
DaysOf(txs) == {txs[i].day : i \in DOMAIN txs} \ {Unread}
Printing(txs) == {i \in DOMAIN txs : txs[i].printed}
Either(first, second) == IF first = Unread THEN second ELSE first

\* The operator's or the declared order settles every numeric date.
KnownOrder(doc) == override \/ doc.format = "MDY"

\* A row without a readable date takes that of the last row that has one.
Ditto(txs, i) ==
    LET dated == {j \in 1..i : txs[j].day # Unread}
    IN  IF dated = {} THEN Unread ELSE txs[Max(dated)].day

\* What the running balances say of the opening and the closing balance.
derivedOpening(txs) ==
    IF Printing(txs) = {} THEN 0
    ELSE LET i == Min(Printing(txs)) IN txs[i].bal - txs[i].cents
derivedClosing(txs) ==
    IF Printing(txs) = {} THEN 0 ELSE txs[Max(Printing(txs))].bal

\* Amounts that stay unreadable count as 0.
CoerceAmounts(txs) ==
    [i \in DOMAIN txs |-> IF txs[i].read THEN txs[i] ELSE [txs[i] EXCEPT !.cents = 0]]

\* Mutant: one of the two is enough.
bothBalancesMissing(doc) == ~doc.opening.read /\ ~doc.closing.read

balancesMissing(doc) == ~doc.opening.read \/ ~doc.closing.read

\* A date in figures is noted whether its order was known or guessed.
salvageStructure(doc) ==
    LET start == Either(doc.start, Least(DaysOf(doc.rows)))
        end   == Either(doc.end, Greatest(DaysOf(doc.rows)))
        txs   == CoerceAmounts([i \in DOMAIN doc.rows |->
                    [doc.rows[i] EXCEPT !.day = Either(Ditto(doc.rows, i), start)]])
    IN  [rows    |-> txs,
         start   |-> start,
         end     |-> end,
         opening |-> IF doc.opening.read THEN doc.opening.cents ELSE derivedOpening(txs),
         closing |-> IF doc.closing.read THEN doc.closing.cents ELSE derivedClosing(txs),
         format  |-> IF override THEN "MDY"
                     ELSE IF doc.format = "missing" THEN "AMBIGUOUS" ELSE doc.format,
         notes   |->
            When(Unread \in {doc.start, doc.end}, "period")
            \cup When(\E i \in DOMAIN doc.rows : doc.rows[i].day = Unread, "date")
            \cup When(\E i \in DOMAIN doc.rows : doc.rows[i].eitherWay, "dateOrder")
            \cup When(balancesMissing(doc), "balances")
            \cup When(/\ doc.closing.read /\ Printing(txs) # {}
                      /\ doc.closing.cents # derivedClosing(txs), "closing")
            \cup When(~override /\ doc.format = "missing", "format")
            \cup When(\E i \in DOMAIN doc.rows : ~doc.rows[i].read, "amount")]

\* The first such answer is sent back with a reminder: rows were left out
\* altogether (a `transactions` that is no list is not asked for again), or an
\* amount cannot be read.
WorthAsking(doc) ==
    IF doc.hasRows THEN \E i \in DOMAIN doc.rows : ~doc.rows[i].read ELSE doc.omitted

\* The pages of the statement model as one answer: the header of the first
\* page that has one, but the closing balance of the last that prints it.
mergeStatementPages(docs) ==
    LET Has(P(_)) == {i \in DOMAIN docs : P(docs[i])}
        dated  == Has(LAMBDA d : d.period)
        opens  == Has(LAMBDA d : d.opening.read)
        closes == Has(LAMBDA d : d.closing.read)
        told   == Has(LAMBDA d : d.format # "missing")
    IN  [hasRows |-> TRUE,
         omitted |-> FALSE,
         period  |-> dated # {},
         start   |-> IF dated = {} THEN Unread ELSE docs[Min(dated)].start,
         end     |-> IF dated = {} THEN Unread ELSE docs[Min(dated)].end,
         opening |-> IF opens = {} THEN docs[1].opening ELSE docs[Min(opens)].opening,
         closing |-> IF closes = {} THEN docs[1].closing ELSE docs[Max(closes)].closing,
         format  |-> IF told = {} THEN "missing" ELSE docs[Min(told)].format,
         rows    |-> FlattenSeq([i \in DOMAIN docs |-> docs[i].rows])]

\* Rows with no amount and lines that only state a balance go ...
IsTransaction(r) == r.read /\ r.text # "marker"

\* A page without the header may get the year wrong: a date that some year of
\* the period puts into the period is taken as that.
SnapYear(day, doc) ==
    LET there == {d \in {y * Year + (day % Year) : y \in {doc.start \div Year, doc.end \div Year}} :
                    doc.start <= d /\ d <= doc.end}
    IN  IF Unread \in {doc.start, doc.end} \/ there = {} THEN day ELSE Min(there)

\* ... and so do rows whose date is nowhere to be had.
mappedRows(doc) ==
    LET kept == InOrder({i \in DOMAIN doc.rows :
                    /\ IsTransaction(doc.rows[i])
                    /\ Either(doc.rows[i].day, doc.start) # Unread})
    IN  [n \in DOMAIN kept |->
            [doc.rows[kept[n]] EXCEPT
                !.day = SnapYear(Either(@, doc.start), doc), !.eitherWay = FALSE]]

\* The closing balance is that of the last row that prints one.
mapStatementModelOutput(doc) ==
    LET txs == mappedRows(doc)
    IN  [doc |-> [doc EXCEPT
            !.rows    = txs,
            !.start   = Either(@, Least(DaysOf(txs))),
            !.end     = Either(@, Greatest(DaysOf(txs))),
            !.opening = Figure(IF @.read THEN @.cents ELSE derivedOpening(txs)),
            !.closing = Figure(IF Printing(txs) = {} /\ @.read THEN @.cents
                               ELSE derivedClosing(txs)),
            !.format  = IF @ = "missing" THEN "AMBIGUOUS" ELSE @],
         notes |->
            When(\E i \in DOMAIN doc.rows : ~doc.rows[i].read, "dropped")
            \cup When(\E i \in DOMAIN doc.rows :
                    IsTransaction(doc.rows[i]) /\ doc.rows[i].day = Unread, "date")
            \cup When(/\ ~KnownOrder(doc)
                      /\ \E i \in DOMAIN doc.rows :
                            IsTransaction(doc.rows[i]) /\ doc.rows[i].eitherWay, "dateOrder")]

\* Mutant: the notes of the mapping do not survive the parse.
ExtractionUnnoted(doc) ==
    salvageStructure(IF engine = "statement" THEN mapStatementModelOutput(doc).doc ELSE doc)

\* An accepted answer, as every engine returns it.
Extraction(doc) ==
    IF engine = "statement"
    THEN LET mapped == mapStatementModelOutput(doc)
             parsed == salvageStructure(mapped.doc)
         IN  [parsed EXCEPT !.notes = @ \cup mapped.notes]
    ELSE salvageStructure(doc)

\* The schema refuses an answer without rows or without a period.
Parses(doc) ==
    doc.hasRows /\ Unread \notin {Extraction(doc).start, Extraction(doc).end}

-----------------------------------------------------------------------------
(* The verdict *)

InPeriod(day) == data.start <= day /\ day <= data.end
Judged(txs) ==
    {[row |-> i, cents |-> txs[i].cents, inPeriod |-> InPeriod(txs[i].day)] : i \in DOMAIN txs}

deltaCents(txs) == data.closing - data.opening - SumCents(Judged(txs))
status(txs) == reconcileGoldenRule(data.closing - data.opening, Judged(txs))

\* A repair must close the balance and date no further row out of the period.
repairClosesBalance(before, after) ==
    /\ deltaCents(after) = 0
    /\ periodBoundsViolations(Judged(after)) <= periodBoundsViolations(Judged(before))

\* Failures that another run would only meet again.
isPermanentExtractionFailure(f) == f \in {"cap", "length", "garbage", "schema"}

-----------------------------------------------------------------------------
(* The extract() loops; pc says whose extraction is under way *)

Asking == pc \in {"first", "repair"}
FirstRequest == pc = "first" /\ ask = 1
Charged == IF engine = "anthropic" THEN 1 ELSE 0

End(o) == pc' = "done" /\ outcome' = o

\* A first extraction that throws ends the attempt; a repair that throws
\* leaves it to the heuristic.
Throw(f) ==
    /\ fault' = f
    /\ IF pc = "repair" THEN pc' = "heuristic" /\ UNCHANGED outcome
       ELSE End(IF isPermanentExtractionFailure(f) THEN "permanent" ELSE "transient")
    /\ ask' = 1 /\ plain' = FALSE /\ pages' = <<>>

Again(n) ==
    /\ ask' = n
    /\ plain' = FALSE
    /\ UNCHANGED <<pc, outcome, fault>>

BuildProvider ==
    /\ pc = "build"
    /\ \/ Throw("build")
       \/ engine = "anthropic" /\ Throw("cap")
       \/ pc' = "first" /\ UNCHANGED <<ask, plain, pages, fault, outcome>>
    /\ UNCHANGED <<engine, override, data, source, rows, repaired, paid, reported>>

\* Mutant: one try at a page too many.
RequestFailsLate(f) ==
    /\ Asking
    /\ f \in {"http", "refused", "empty", "length", "garbage"}
    /\ f = "empty" => engine # "anthropic"
    /\ IF engine = "statement" /\ ask <= Tries /\ f # "refused"
       THEN Again(ask + 1) /\ UNCHANGED pages
       ELSE Throw(f)
    /\ paid' = paid + (IF f \in {"length", "garbage"} THEN Charged ELSE 0)
    /\ UNCHANGED <<engine, override, data, source, rows, repaired, reported>>

\* The request fails, or comes back cut off, empty or as no JSON.  A page is
\* tried again unless the request was refused (4xx).
RequestFails(f) ==
    /\ Asking
    /\ f \in {"http", "refused", "empty", "length", "garbage"}
    /\ f = "empty" => engine # "anthropic"
    /\ IF engine = "statement" /\ ask < Tries /\ f # "refused"
       THEN Again(ask + 1) /\ UNCHANGED pages
       ELSE Throw(f)
    /\ paid' = paid + (IF f \in {"length", "garbage"} THEN Charged ELSE 0)
    /\ UNCHANGED <<engine, override, data, source, rows, repaired, reported>>

\* The gateway's grammar gives up: the same request once more without it.
GrammarDeadEnds ==
    /\ Asking
    /\ engine = "gateway" /\ ~plain
    /\ plain' = TRUE
    /\ UNCHANGED <<engine, override, pc, ask, pages, data, source, rows, repaired,
                   paid, reported, fault, outcome>>

\* The first extraction's answer is in.
Adopt(doc, taken) ==
    /\ data' = taken
    /\ source' = doc
    /\ rows' = taken.rows
    /\ reported' = paid'
    /\ ask' = 1 /\ plain' = FALSE /\ pages' = <<>>
    /\ LET halts == taken.format = "AMBIGUOUS" /\ ~override
           ties  == taken.opening + Total(taken.rows) = taken.closing
       IN  \/ halts /\ End("ambiguous")
           \/ ~halts /\ taken.rows = <<>> /\ End("empty")
           \/ /\ ~halts /\ taken.rows # <<>>
              /\ pc' = IF ties THEN "heuristic" ELSE "repair"
              /\ UNCHANGED outcome
    /\ UNCHANGED <<repaired, fault>>

\* Mutant: a repair that does not close the balance is not counted.
AdoptRepairUncounted(doc, taken) ==
    /\ pc' = "heuristic"
    /\ IF repairClosesBalance(rows, taken.rows)
       THEN rows' = taken.rows /\ source' = doc /\ repaired' = "llm" /\ reported' = paid'
       ELSE UNCHANGED <<rows, source, repaired, reported>>
    /\ ask' = 1 /\ plain' = FALSE /\ pages' = <<>>
    /\ UNCHANGED <<data, fault, outcome>>

\* The repair's answer is in: its rows are taken, against the balances and the
\* period of the first, when they close the balance.
AdoptRepair(doc, taken) ==
    /\ reported' = paid'
    /\ pc' = "heuristic"
    /\ IF repairClosesBalance(rows, taken.rows)
       THEN rows' = taken.rows /\ source' = doc /\ repaired' = "llm"
       ELSE UNCHANGED <<rows, source, repaired>>
    /\ ask' = 1 /\ plain' = FALSE /\ pages' = <<>>
    /\ UNCHANGED <<data, fault, outcome>>

Receive(doc) ==
    IF ~Parses(doc)
    THEN Throw("schema") /\ UNCHANGED <<data, source, rows, repaired, reported>>
    ELSE \E taken \in {Extraction(doc)} :
            IF pc = "repair" THEN AdoptRepair(doc, taken) ELSE Adopt(doc, taken)

AnswerText(doc) ==
    /\ Asking /\ engine \in TextEngine
    /\ paid' = paid + Charged
    /\ IF ask = 1 /\ WorthAsking(doc)
       THEN Again(2) /\ UNCHANGED <<pages, data, source, rows, repaired, reported>>
       ELSE Receive(doc)
    /\ UNCHANGED <<engine, override>>

AnswerPage(doc) ==
    /\ Asking /\ engine = "statement"
    /\ UNCHANGED paid
    /\ IF Len(pages) + 1 < Pages
       THEN /\ pages' = Append(pages, doc)
            /\ Again(1)
            /\ UNCHANGED <<data, source, rows, repaired, reported>>
       ELSE Receive(mergeStatementPages(Append(pages, doc)))
    /\ UNCHANGED <<engine, override>>

-----------------------------------------------------------------------------
\* The last resort, and the verdict.
HeuristicRepair ==
    /\ pc = "heuristic"
    /\ LET fixes == {txs \in repairPass(rows, deltaCents(rows)) : repairClosesBalance(rows, txs)}
           final == IF fixes = {} THEN rows ELSE CHOOSE txs \in fixes : TRUE
       IN  /\ rows' = final
           /\ repaired' = IF fixes = {} THEN repaired ELSE "heuristic"
           /\ End(IF status(final) = "verified" THEN "verified"
                  ELSE IF deltaCents(final) = 0 THEN "periodOnly" ELSE "discrepancy")
    /\ UNCHANGED <<engine, override, ask, plain, pages, data, source, paid, reported, fault>>

Next ==
    \/ BuildProvider
    \/ \E f \in Fault : RequestFails(f)
    \/ GrammarDeadEnds
    \/ FirstRequest /\ \E doc \in Answers : AnswerText(doc)
    \/ Asking /\ ~FirstRequest /\ \E doc \in Rereads : AnswerText(doc)
    \/ Asking /\ \E doc \in PageAnswers : AnswerPage(doc)
    \/ HeuristicRepair

Spec == Init /\ [][Next]_vars
-----------------------------------------------------------------------------
Accepted == outcome \in {"verified", "periodOnly", "discrepancy"}

\* What holds the result for review (the worker's reviewHoldReason).
Held ==
    \/ data.notes # {}
    \/ \E i \in DOMAIN rows : rows[i].cents = 0
    \/ repaired = "heuristic"

\* Could every row of the answer be taken as it stands?  To the statement
\* model a line that states a balance is no row.
Legible(doc) ==
    \A i \in DOMAIN doc.rows :
        /\ doc.rows[i].read
        /\ \/ engine = "statement" /\ doc.rows[i].text = "marker"
           \/ /\ doc.rows[i].day # Unread
              /\ doc.rows[i].eitherWay => KnownOrder(doc)

\* Rows that were guessed at or lost on the way from the answer to the
\* statement are seen by somebody: the result is held for review.  (Of an
\* answer whose rows were taken in an LLM repair this is not true.)
SalvageIsHeld == Accepted /\ repaired # "llm" /\ ~Legible(source) => Held

\* A verified result of a text engine that nobody is asked to look at ties to
\* two balances the answer prints, and a running balance printed last is the
\* closing balance: the rows were not checked against themselves.
ChecksAgainstPrint ==
    outcome = "verified" /\ engine \in TextEngine /\ repaired = "no" /\ ~Held =>
        /\ source.opening.read /\ source.closing.read
        /\ source.closing.cents - source.opening.cents = SumCents(Judged(rows))
        /\ Printing(rows) # {} => rows[Max(Printing(rows))].bal = source.closing.cents

\* The rows without their balances, as they would be exported.
Exported(txs) ==
    LET line(i) == <<txs[i].cents, txs[i].text, txs[i].day>>
    IN  [x \in {line(i) : i \in DOMAIN txs} |-> Cardinality({i \in DOMAIN txs : line(i) = x})]

\* A heuristic repair is the only repair there is: whatever single sign is
\* changed, or single copy of a line removed, if the balance then ties the
\* statement says the same.
RepairIsUnambiguous ==
    [][HeuristicRepair /\ repaired' = "heuristic" =>
        LET flips == {FlipSign(rows, i) : i \in DOMAIN rows}
            drops == {DropRow(rows, p[2]) : p \in {q \in (DOMAIN rows) \X (DOMAIN rows) :
                        q[1] < q[2] /\ isExactDuplicate(rows[q[1]], rows[q[2]])}}
        IN  /\ rows' \in flips \cup drops
            /\ \A txs \in flips \cup drops :
                  data.opening + Total(txs) = data.closing => Exported(txs) = Exported(rows')]_vars

\* The rows named to the model in a repair request account for the whole
\* difference, when the last row prints the closing balance.
SuspectsExplainDelta ==
    pc = "repair" /\ rows[Len(rows)].printed /\ rows[Len(rows)].bal = data.closing =>
        LET suspects == findSuspectRows(data.opening, rows)
        IN  MapThenSumSet(LAMBDA i : suspectDelta(data.opening, rows, i), suspects)
                = deltaCents(rows)

\* What is repaired, and what the model is asked to repair, is what is wrong.
RepairsAreSound == RepairIsUnambiguous /\ []SuspectsExplainDelta

\* A completed attempt reports every answer that was paid for, unless a repair
\* request came to nothing.
CostIsReported == Accepted /\ fault = "none" => reported = paid
=============================================================================
