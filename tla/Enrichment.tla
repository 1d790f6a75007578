------------------------------ MODULE Enrichment ------------------------------
(***************************************************************************)
(* The LLM passes an operator starts on the rows of a reviewed statement:  *)
(* cleansing and categorising (services/enrichment.ts) with their Redis    *)
(* cache (enrichment-cache.ts), and the reading of check payees            *)
(* (check-resolver.ts), next to the operator's own edits, the admin's      *)
(* settings and the spend they book (llm-spend.ts).                        *)
(*                                                                         *)
(* One statement, whose rows all carry the same bank description, so that  *)
(* every row may hit what another one cached.  Each await is a step.       *)
(***************************************************************************)
EXTENDS LlmProviders, FiniteSets, FiniteSetsExt

CONSTANTS
    Rows,           \* the transaction rows of the statement
    CheckRows,      \* those that carry a check number
    Categories,     \* the business categories
    Configs,        \* the settings an admin may save
    Passes,         \* the runs: enrichments and payee resolutions
    Wishes,         \* the combinations of passes an operator asks for
    Price,          \* what one Anthropic call costs
    Cap,            \* llm.anthropic.monthly_cap_usd
    MaxEdits,       \* bound: edits of an operator
    MaxChanges,     \* bound: changes of an admin
    EditMidRun,     \* may an operator edit while an enrichment is at work?
    ChangeMidRun    \* may an admin change settings while a run is at work?

EnrichProc == {"cleanse", "category"}

ASSUME EnrichmentAssumption ==
    /\ CheckRows \subseteq Rows /\ IsFiniteSet(Passes)
    /\ Configs # {} /\ Configs \subseteq [llm : Settings, enabled : SUBSET EnrichProc, prompt : Nat]
    /\ Wishes \subseteq SUBSET EnrichProc
    /\ Price \in Nat /\ Cap \in Nat /\ MaxEdits \in Nat /\ MaxChanges \in Nat
    /\ EditMidRun \in BOOLEAN /\ ChangeMidRun \in BOOLEAN

VARIABLES
    line,       \* per row: is it there, its payee, its enrichment, who edited it
    settings,   \* the settings in force
    active,     \* the categories that are not archived
    redis,      \* the answers kept in Redis, by cache version
    localSlot,  \* the cached local provider: the model it was built with, if any
    ledger,     \* statements.llm_cost_micros
    spent,      \* what Anthropic charged for each run
    lost,       \* charges nobody books: of calls that threw, of bookings refused
    pass,       \* each run's program counter and locals
    capped,     \* the runs that began when the month's spend had reached the cap
    stale,      \* has an admin saved settings and not yet cleared the providers?
    edits, changes

enrichVars == <<line, settings, active, redis, localSlot, ledger, spent, lost, pass, capped, stale, edits, changes>>
adminVars == <<settings, active, stale, changes>>

\* What made a text or a category: a model and the prompt it was given, an
\* operator, a payee, or nothing.
NoAuthor == [model |-> NoModel, prompt |-> 0]
ByModel(m, p) == [model |-> m, prompt |-> p]
Operator == [model |-> "operator", prompt |-> 0]
Payee == [model |-> "payee", prompt |-> 0]
Router == "router"
NoCategory == "no-category"

\* An answer for one row: the text and the category, each with its author.
RowAnswer == [text : {NoAuthor, Payee} \cup [model : Models \cup {Router}, prompt : Nat],
              cat : Categories \cup {NoCategory},
              by : {NoAuthor} \cup [model : Models \cup {Router}, prompt : Nat]]
EmptyAnswer == [text |-> NoAuthor, cat |-> NoCategory, by |-> NoAuthor]

\* The label of a process in the cache version.
Label(cfg, proc) ==
    IF resolveAiMode(cfg) = "router" THEN [provider |-> "vibe_router", model |-> Router]
    ELSE resolveProcessLabel(cfg, proc)

\* Everything besides the description that shapes an answer.
cacheVersionFor(wish, cats) ==
    [prompt |-> settings.prompt, wish |-> wish,
     models |-> {<<p, Label(settings.llm, p)>> : p \in wish},
     cats |-> IF "category" \in wish THEN cats ELSE {}]

NewPass == [pc |-> "idle", wish |-> {}, cats |-> {}, todo |-> {}, payees |-> {},
            version |-> "none", got |-> [r \in {} |-> EmptyAnswer], left |-> {}, proc |-> "none",
            built |-> CannotBuild, cost |-> 0]

EnrichInit ==
    /\ line = [r \in Rows |-> [there |-> TRUE, payee |-> "none", text |-> NoAuthor,
                               cat |-> NoCategory, by |-> NoAuthor,
                               enrichmentUserEdited |-> FALSE, userEdited |-> FALSE]]
    /\ settings \in Configs
    /\ active = Categories
    /\ redis = {}
    /\ localSlot = NoModel
    /\ ledger = 0
    /\ spent = [e \in Passes |-> 0]
    /\ lost = [thrown |-> 0, refused |-> 0]
    /\ pass = [e \in Passes |-> NewPass]
    /\ capped = {}
    /\ stale = FALSE
    /\ edits = 0 /\ changes = 0

PassAtWork(e) == pass[e].pc \notin {"idle", "over"}
Enriching(e) == PassAtWork(e) /\ pass[e].wish # {}

SetPass(e, p) == pass' = [pass EXCEPT ![e] = p]
PassGoes(e, pc) == pass' = [pass EXCEPT ![e].pc = pc]
Over(e) == SetPass(e, [NewPass EXCEPT !.pc = "over"])

-----------------------------------------------------------------------------
(* Spend.                                                                  *)

\* What anthropicCapStatus compares with the cap.
SpendOnRecord == ledger

capBlocked == SpendOnRecord >= Cap

\* Mutant form: the spend of a failed run is forgotten.
ForgetSpend(cost) == UNCHANGED <<ledger, lost>>

addStatementLlmCost(cost) == ledger' = ledger + cost /\ UNCHANGED lost

\* The database refuses the booking: its caller can only log what is lost.
RefuseSpend(cost) == lost' = [lost EXCEPT !.refused = @ + cost] /\ UNCHANGED ledger

\* Only Anthropic charges.
PriceOf(e) == IF pass[e].built.provider = "anthropic" THEN Price ELSE 0

\* A call answers, it fails before it is charged, or it throws on a reply that
\* was billed: one cut off at max_tokens, or one without the tool.
CallEnd == {"answers", "fails", "cutOff"}

\* What a run learns of a call's price: a call that throws takes it along.
CostOf(e, end) == IF end = "answers" THEN PriceOf(e) ELSE 0

Charge(e, end) ==
    /\ spent' = [spent EXCEPT ![e] = @ + IF end = "fails" THEN 0 ELSE PriceOf(e)]
    /\ lost' = [lost EXCEPT !.thrown = @ + IF end = "cutOff" THEN PriceOf(e) ELSE 0]

\* An operator starts a run; without a wish it is one that reads check payees.
StartPass(e, wish) ==
    /\ pass[e].pc = "idle"
    /\ capped' = IF SpendOnRecord >= Cap THEN capped \cup {e} ELSE capped
    /\ SetPass(e, [NewPass EXCEPT !.pc = IF wish = {} THEN "checks" ELSE "toggles", !.wish = wish])
    /\ UNCHANGED <<line, redis, localSlot, ledger, spent, lost, edits, adminVars>>

-----------------------------------------------------------------------------
(* enrichStatement.                                                        *)

\* Are the passes switched on, and is there a category to choose?
ReadToggles(e) ==
    /\ pass[e].pc = "toggles"
    /\ LET refused == \/ ~(pass[e].wish \subseteq settings.enabled)
                      \/ "category" \in pass[e].wish /\ active = {}
       IN  IF refused THEN Over(e)
           ELSE pass' = [pass EXCEPT ![e].pc = "rows",
                             ![e].cats = IF "category" \in pass[e].wish THEN active ELSE {}]
    /\ UNCHANGED <<line, redis, localSlot, ledger, spent, lost, capped, edits, adminVars>>

\* The rows as they are now; those an operator edited are left out.
ReadCandidates(e) ==
    /\ pass[e].pc = "rows"
    /\ LET candidates == {r \in Rows : line[r].there /\ ~line[r].enrichmentUserEdited}
       IN  IF candidates = {} THEN Over(e)
           ELSE pass' = [pass EXCEPT ![e].pc = "version", ![e].todo = candidates,
                             ![e].payees = {r \in candidates : line[r].payee # "none"}]
    /\ UNCHANGED <<line, redis, localSlot, ledger, spent, lost, capped, edits, adminVars>>

ReadVersion(e) ==
    /\ pass[e].pc = "version"
    /\ pass' = [pass EXCEPT ![e].pc = "lookup",
                    ![e].version = cacheVersionFor(pass[e].wish, pass[e].cats)]
    /\ UNCHANGED <<line, redis, localSlot, ledger, spent, lost, capped, edits, adminVars>>

\* A hit answers something, and names a category this run may choose.
Usable(p, a) == "category" \in p.wish => a.cat \in p.cats

NextProc(todo) ==
    IF "cleanse" \in todo THEN "cleanse" ELSE IF "category" \in todo THEN "category" ELSE "none"

\* Redis: hits, misses and a connection that fails are all possible, except
\* that a hit needs an entry.  A row with a payee never asks.
Lookup(e) ==
    /\ pass[e].pc = "lookup"
    /\ LET p == pass[e]
           hits == {c \in redis : c.version = p.version /\ Usable(p, c.answer)}
           miss == [p EXCEPT !.pc = "build", !.left = p.todo, !.proc = NextProc(p.wish)]
       IN  \/ SetPass(e, miss)
           \/ \E c \in hits :
                 LET ask == p.todo \cap p.payees
                     got == [r \in p.todo \ ask |-> c.answer]
                 IN  /\ ask # p.todo
                     /\ SetPass(e, IF ask = {} THEN [p EXCEPT !.pc = "apply", !.got = got]
                               ELSE [miss EXCEPT !.got = got, !.left = ask])
    /\ UNCHANGED <<line, redis, localSlot, ledger, spent, lost, capped, edits, adminVars>>

\* The settings are read again for each pass, and may have changed.
Build(e) ==
    /\ pass[e].pc = "build"
    /\ LET built == buildProviderForProcess(settings.llm, pass[e].proc)
       IN  pass' = [pass EXCEPT ![e].built = built,
                        ![e].pc = IF built = CannotBuild THEN "catch" ELSE "cap"]
    /\ UNCHANGED <<line, redis, localSlot, ledger, spent, lost, capped, edits, adminVars>>

\* Mutant form: every provider passes the cap.
CapAllowsAll(e) == TRUE

\* checkMonthlyCap: only Anthropic is capped.
CapAllows(e) == pass[e].built.provider = "anthropic" => ~capBlocked

CheckCap(e) ==
    /\ pass[e].pc = "cap"
    /\ PassGoes(e, IF CapAllows(e) THEN "call" ELSE "catch")
    /\ UNCHANGED <<line, redis, localSlot, ledger, spent, lost, capped, edits, adminVars>>

Author(e) ==
    ByModel(IF pass[e].built.model = NoModel THEN Router ELSE pass[e].built.model,
            pass[e].version.prompt)

\* What an answer by `author` for some of the rows makes of a run: the ones it
\* leaves out have no answer.  A row with a payee may get that payee for a text.
Answered(p, some, author, adopt, c, cost) ==
    LET before(r) == IF r \in DOMAIN p.got THEN p.got[r] ELSE EmptyAnswer
        after(r) == IF p.proc = "category" THEN [before(r) EXCEPT !.cat = c, !.by = author]
                    ELSE [before(r) EXCEPT !.text = IF adopt /\ r \in p.payees THEN Payee
                                                    ELSE author]
        kept == [r \in (DOMAIN p.got \ p.left) \cup some |->
                    IF r \in some THEN after(r) ELSE p.got[r]]
        next == IF p.proc = "cleanse" THEN NextProc(p.wish \ {"cleanse"}) ELSE "none"
    IN  [p EXCEPT !.got = kept, !.cost = @ + cost, !.proc = next,
                  !.left = IF next = "none" THEN p.left ELSE some,
                  !.pc = IF next = "none" THEN "keep" ELSE "build"]

\* complete() answers.
CallAnswers(e) ==
    /\ pass[e].pc = "call"
    /\ Charge(e, "answers")
    /\ \E some \in SUBSET pass[e].left, adopt \in BOOLEAN, c \in pass[e].cats \cup {NoCategory} :
          /\ pass[e].proc = "category" \/ c = NoCategory
          /\ pass[e].proc = "cleanse" \/ ~adopt
          /\ SetPass(e, Answered(pass[e], some, Author(e), adopt, c, CostOf(e, "answers")))
    /\ UNCHANGED <<line, redis, localSlot, ledger, capped, edits, adminVars>>

\* It throws, charged or not, or it answers and does not fit the schema.
CallFails(e) ==
    /\ pass[e].pc = "call"
    /\ \E end \in CallEnd :
          /\ Charge(e, end)
          /\ pass' = [pass EXCEPT ![e].pc = "catch", ![e].cost = @ + CostOf(e, end)]
    /\ UNCHANGED <<line, redis, localSlot, ledger, capped, edits, adminVars>>

\* Mutant form: a row with a payee is cached like any other.
PureWithPayees(p, r) == "category" \in p.wish => p.got[r].cat \in p.cats

\* Only what follows from the description alone may be cached, and only with a
\* category the run could choose.
Pure(p, r) ==
    /\ r \notin p.payees
    /\ "category" \in p.wish => p.got[r].cat \in p.cats

\* The cache writes are not awaited; each may be lost.
KeepAnswers(e) ==
    /\ pass[e].pc = "keep"
    /\ LET p == pass[e]
           fresh == {[version |-> p.version, answer |-> p.got[r]] :
                        r \in {r \in DOMAIN p.got \cap p.left : Pure(p, r)}}
       IN  \E stored \in SUBSET fresh :
              /\ Cardinality(stored) <= 1
              /\ redis' = {c \in redis : stored = {} \/ c.version # p.version} \cup stored
    /\ PassGoes(e, "apply")
    /\ UNCHANGED <<line, localSlot, ledger, spent, lost, capped, edits, adminVars>>

\* The UPDATE is by id: a row that is gone is not written, an edited one is.
Written(r) == line[r].there

\* One database transaction: every row, the spend, the audit row.
Apply(e) ==
    /\ pass[e].pc = "apply"
    /\ LET p == pass[e]
           text(r) == IF "cleanse" \in p.wish THEN p.got[r].text ELSE line[r].text
           cat(r) == IF "category" \in p.wish THEN p.got[r].cat ELSE line[r].cat
           by(r) == IF "category" \in p.wish THEN p.got[r].by ELSE line[r].by
       IN  line' = [r \in Rows |->
                     IF r \in DOMAIN p.got /\ Written(r)
                     THEN [line[r] EXCEPT !.text = text(r), !.cat = cat(r), !.by = by(r)]
                     ELSE line[r]]
    /\ addStatementLlmCost(pass[e].cost)
    /\ Over(e)
    /\ UNCHANGED <<redis, localSlot, spent, capped, edits, adminVars>>

\* The transaction fails and leaves nothing behind.
ApplyFails(e) ==
    /\ pass[e].pc = "apply"
    /\ PassGoes(e, "catch")
    /\ UNCHANGED <<line, redis, localSlot, ledger, spent, lost, capped, edits, adminVars>>

\* The spend of a failed run is booked all the same, if the database takes it.
BookFailed(cost) == addStatementLlmCost(cost)

Catch(e) ==
    /\ pass[e].pc = "catch"
    /\ BookFailed(pass[e].cost) \/ RefuseSpend(pass[e].cost)
    /\ Over(e)
    /\ UNCHANGED <<line, redis, localSlot, spent, capped, edits, adminVars>>

EnrichStep(e) ==
    \/ ReadToggles(e) \/ ReadCandidates(e) \/ ReadVersion(e) \/ Lookup(e)
    \/ Build(e) \/ CheckCap(e) \/ CallAnswers(e) \/ CallFails(e)
    \/ KeepAnswers(e) \/ Apply(e) \/ ApplyFails(e) \/ Catch(e)

-----------------------------------------------------------------------------
(* resolveCheckPayees.  The pages make one batch.                          *)

ReadChecks(e) ==
    /\ pass[e].pc = "checks"
    /\ LET candidates == {r \in CheckRows : line[r].there}
       IN  IF candidates = {} THEN Over(e)
           ELSE pass' = [pass EXCEPT ![e].pc = "local", ![e].todo = candidates]
    /\ UNCHANGED <<line, redis, localSlot, ledger, spent, lost, capped, edits, adminVars>>

\* buildProviderForId: the cached local provider, or one built from the
\* settings as they are now ...
LocalProvider(e) ==
    /\ pass[e].pc = "local"
    /\ IF localSlot # NoModel THEN PassGoes(e, "text")
       ELSE pass' = [pass EXCEPT ![e].pc = "store",
                        ![e].built = constructLocal(settings.llm, "check", NoModel)]
    /\ UNCHANGED <<line, redis, localSlot, ledger, spent, lost, capped, edits, adminVars>>

\* ... and cached once it is built.
StoreProvider(e) ==
    /\ pass[e].pc = "store"
    /\ localSlot' = pass[e].built.model
    /\ PassGoes(e, "text")
    /\ UNCHANGED <<line, redis, ledger, spent, lost, capped, edits, adminVars>>

\* The provider that parses the transcribed text; the local one when it cannot
\* be built.
TextProvider(e) ==
    /\ pass[e].pc = "text"
    /\ LET built == buildProviderForProcess(settings.llm, "check")
           local == constructLocal(settings.llm, "check", NoModel)
       IN  pass' = [pass EXCEPT ![e].pc = "textcap",
                        ![e].built = IF built = CannotBuild THEN local ELSE built]
    /\ UNCHANGED <<line, redis, localSlot, ledger, spent, lost, capped, edits, adminVars>>

\* Past the cap the local model parses.
TextCap(e) ==
    /\ pass[e].pc = "textcap"
    /\ pass' = [pass EXCEPT ![e].pc = "read",
                    ![e].built = IF CapAllows(e) THEN @
                                 ELSE constructLocal(settings.llm, "check", NoModel)]
    /\ UNCHANGED <<line, redis, localSlot, ledger, spent, lost, capped, edits, adminVars>>

\* Transcribe and parse; what that cannot read the local vision model reads for
\* free.  Any of the candidates may be matched to a payee.
ReadPayees(e) ==
    /\ pass[e].pc = "read"
    /\ \E end \in CallEnd, found \in SUBSET pass[e].todo :
          /\ Charge(e, end)
          /\ pass' = [pass EXCEPT ![e].pc = "book", ![e].left = found,
                          ![e].cost = @ + CostOf(e, end)]
    /\ UNCHANGED <<line, redis, localSlot, ledger, capped, edits, adminVars>>

\* The spend is booked before any row is written, or the run ends here.
BookPayees(e) ==
    /\ pass[e].pc = "book"
    /\ \/ /\ addStatementLlmCost(pass[e].cost)
          /\ pass' = [pass EXCEPT ![e].pc = "stamp", ![e].cost = 0]
       \/ RefuseSpend(pass[e].cost) /\ Over(e)
    /\ UNCHANGED <<line, redis, localSlot, spent, capped, edits, adminVars>>

\* Mutant form: any row that is there takes the payee.
PayeeWritesAll(r) == line[r].there

\* The WHERE of the payee UPDATE.
PayeeWritable(r) == line[r].there /\ (line[r].payee = "none" \/ ~line[r].userEdited)

\* One UPDATE per matched row.
StampPayee(e) ==
    /\ pass[e].pc = "stamp"
    /\ IF pass[e].left = {} THEN Over(e) /\ UNCHANGED line
       ELSE \E r \in pass[e].left :
               /\ pass' = [pass EXCEPT ![e].left = @ \ {r}]
               /\ line' = IF PayeeWritable(r) THEN [line EXCEPT ![r].payee = "read"] ELSE line
    /\ UNCHANGED <<redis, localSlot, ledger, spent, lost, capped, edits, adminVars>>

CheckStep(e) ==
    \/ ReadChecks(e) \/ LocalProvider(e) \/ StoreProvider(e) \/ TextProvider(e)
    \/ TextCap(e) \/ ReadPayees(e) \/ BookPayees(e) \/ StampPayee(e)

-----------------------------------------------------------------------------
(* The operator's edits and the admin's changes.                           *)

\* A change of the text or of the category marks the enrichment as edited,
\* every change marks the row.
EditRow(r, new) ==
    /\ edits < MaxEdits /\ edits' = edits + 1
    /\ line[r].there /\ new # line[r]
    /\ line' = [line EXCEPT ![r] = [new EXCEPT !.userEdited = TRUE]]
    /\ UNCHANGED <<redis, localSlot, ledger, spent, lost, pass, capped, adminVars>>

EditEnrichment(r) ==
    /\ EditMidRun \/ \A e \in Passes : ~Enriching(e)
    /\ \/ EditRow(r, [line[r] EXCEPT !.text = Operator, !.enrichmentUserEdited = TRUE])
       \/ \E c \in active \cup {NoCategory} :
             /\ c # line[r].cat
             /\ EditRow(r, [line[r] EXCEPT !.cat = c, !.by = Operator,
                                           !.enrichmentUserEdited = TRUE])

EditPayee(r) ==
    \E payee \in {"none", "typed"} :
        payee # line[r].payee /\ EditRow(r, [line[r] EXCEPT !.payee = payee])

\* A re-extraction deletes the rows (and inserts others).
WipeStatement ==
    /\ edits < MaxEdits /\ edits' = edits + 1
    /\ line' = [r \in Rows |-> [line[r] EXCEPT !.there = FALSE]]
    /\ UNCHANGED <<redis, localSlot, ledger, spent, lost, pass, capped, adminVars>>

MayChange ==
    /\ changes < MaxChanges
    /\ ChangeMidRun \/ \A e \in Passes : ~PassAtWork(e)
    /\ changes' = changes + 1

\* The admin routes write the setting first ...
SaveSettings(cfg) ==
    /\ MayChange
    /\ cfg # settings /\ settings' = cfg
    /\ stale' = TRUE
    /\ UNCHANGED <<line, active, redis, localSlot, ledger, spent, lost, pass, capped, edits>>

invalidateProviderCache == localSlot' = NoModel

\* ... and clear the provider cache next.
ClearProviders ==
    /\ stale
    /\ stale' = FALSE
    /\ invalidateProviderCache
    /\ UNCHANGED <<line, settings, active, redis, ledger, spent, lost, pass, capped, edits, changes>>

\* Its 60 seconds are over.
SlotExpires ==
    /\ localSlot # NoModel
    /\ localSlot' = NoModel
    /\ UNCHANGED <<line, redis, ledger, spent, lost, pass, capped, edits, adminVars>>

\* Archive a category, or take it back.
ArchiveCategory(c) ==
    /\ MayChange
    /\ active' = IF c \in active THEN active \ {c} ELSE active \cup {c}
    /\ UNCHANGED <<line, settings, stale, redis, localSlot, ledger, spent, lost, pass, capped, edits>>

EnrichNext ==
    \/ \E e \in Passes : \E wish \in Wishes : StartPass(e, wish)
    \/ \E e \in Passes : EnrichStep(e) \/ CheckStep(e)
    \/ \E r \in Rows : EditEnrichment(r) \/ EditPayee(r)
    \/ WipeStatement
    \/ \E cfg \in Configs : SaveSettings(cfg)
    \/ ClearProviders \/ SlotExpires
    \/ \E c \in Categories : ArchiveCategory(c)

EnrichSpec == EnrichInit /\ [][EnrichNext]_enrichVars

-----------------------------------------------------------------------------
(* Properties.                                                             *)

\* What an operator typed is never replaced by a run: a cleanse or category
\* click skips edited rows, the payee resolver keeps a corrected payee.
HandEditsSurvive ==
    [][edits' = edits =>
         \A r \in Rows :
            /\ line[r].enrichmentUserEdited =>
                  line'[r].text = line[r].text /\ line'[r].cat = line[r].cat
            /\ line[r].userEdited /\ line[r].payee # "none" => line'[r].payee = line[r].payee]_enrichVars

\* An answer is replayed only for the model, prompt and categories it came
\* from, and never carries the payee of a row to another statement.
CacheIsHonest ==
    \A c \in redis :
        LET by(proc, author) ==
                \E m \in c.version.models :
                    m[1] = proc /\ author = ByModel(m[2].model, c.version.prompt)
        IN  /\ "cleanse" \in c.version.wish => by("cleanse", c.answer.text)
            /\ "category" \in c.version.wish =>
                  by("category", c.answer.by) /\ c.answer.cat \in c.version.cats

\* What is on the ledger, and what runs still hold and will book.
Recorded == ledger + MapThenSumSet(LAMBDA e : pass[e].cost, Passes)
Spent == MapThenSumSet(LAMBDA e : spent[e], Passes)

\* Whichever way a run ends, each charge is on the statement's ledger or in the
\* run's hands once, but for a call that threw it away and a booking refused.
SpendIsBooked == Recorded + lost.thrown + lost.refused = Spent

\* enrichment.ts says a pass that was billed and fails, on a truncated reply
\* even, still adds its spend to the ledger.
BilledMeansBooked == Recorded + lost.refused = Spent

\* A run that starts once the month's spend has reached the cap costs nothing.
NoSpendPastCap == \A e \in capped : spent[e] = 0

\* No charge a run knows of is forgotten, and none is made past the cap.
SpendIsAccounted == SpendIsBooked /\ NoSpendPastCap

=============================================================================
