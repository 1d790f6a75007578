----------------------------- MODULE OcrStage -----------------------------
(***************************************************************************)
(* Stage 1 of a scanned statement: its pages are read by VibeOCR, or one   *)
(* by one by GLM-OCR, the stand-in when VibeOCR fails; then the accounts   *)
(* are told apart and the header is read once more (processExtraction in   *)
(* apps/api/src/jobs/extraction.worker.ts, vibe-ocr-client.ts,             *)
(* glm-ocr-client.ts and multi-account-detector.ts of packages/extractor). *)
(*                                                                         *)
(* The scans are runs over one PDF: a statement, the children of its       *)
(* split, a re-extraction.  Runs of one worker process share the page      *)
(* cache and the circuit breaker.  Of a transcription only who read which  *)
(* page is kept.  What a provider's configuration is when it is built is   *)
(* left open; its cache belongs to LlmProviders.                           *)
(***************************************************************************)
EXTENDS Ascending, Naturals, Sequences, SequencesExt, FiniteSetsExt

CONSTANTS
    Scans,
    PdfPages,    \* pages of the PDF
    Ranges,      \* page ranges of the statements, sets of pages
    Glms,        \* GLM-OCR configurations: model, prompt and address
    Accounts,    \* accounts a page may name
    PageCap,     \* MAX_OCR_PAGES
    PageTries,   \* maxAttempts for one page
    Threshold,   \* CB_THRESHOLD
    CacheMax,    \* MEMORY_CACHE_MAX_ENTRIES
    Budget,      \* polls that fit into the budget of a VibeOCR job
    MaxStarts,   \* attempts of a job
    MaxCrashes   \* bound on worker restarts

ASSUME OcrAssumption ==
    /\ {PdfPages, PageCap, PageTries, Threshold, CacheMax, Budget, MaxStarts} \subseteq Nat \ {0}
    /\ MaxCrashes \in Nat
    /\ Ranges \subseteq (SUBSET (1..PdfPages)) \ {{}}

VARIABLES
    scan,     \* the runs
    cache,    \* transcriptions kept, the oldest first
    failures, \* cbConsecutiveFailures, counted up to Threshold
    breaker,  \* "closed", "open" or, a minute later, "half-open"
    restarts

ocrVars == <<scan, cache, failures, breaker, restarts>>

Whole == 1..PdfPages
Top(page) == PdfPages + page  \* the band cut off its head, an image of its own
Nobody == "nobody"
VibeOcr == "VibeOCR"

NewScan(range) ==
    [at |-> "idle", range |-> range, starts |-> 0, vibe |-> FALSE,
     glm |-> Nobody, polls |-> 0, tries |-> 0, todo |-> <<>>, text |-> <<>>,
     splits |-> <<>>]

OcrInit ==
    /\ scan \in [Scans -> {NewScan(range) : range \in Ranges}]
    /\ cache = <<>> /\ failures = 0 /\ breaker = "closed" /\ restarts = 0

-----------------------------------------------------------------------------
(* The page cache *)

\* Mutant: whatever engine read the page.
AnyKey(glm, image) == <<Nobody, image>>

pageCacheKey(glm, image) == <<glm, image>>

Cached(key) == {i \in DOMAIN cache : cache[i].key = key}

Keep(key, reading) ==
    LET others == IF Cached(key) = {} THEN cache ELSE RemoveAt(cache, Min(Cached(key)))
        all    == Append(others, [key |-> key, reading |-> reading])
    IN  IF Len(all) > CacheMax THEN Tail(all) ELSE all

\* Seven days later, or squeezed out.
Forget ==
    /\ cache # <<>>
    /\ cache' = Tail(cache)
    /\ UNCHANGED <<scan, failures, breaker, restarts>>

-----------------------------------------------------------------------------
(* The circuit breaker *)

onSuccess == failures' = 0 /\ breaker' = "closed"

onFailure ==
    /\ failures' = Min({failures + 1, Threshold})
    /\ breaker' = IF failures' = Threshold THEN "open" ELSE breaker

\* Half-open lets every request through, not one.
Cooldown ==
    /\ breaker = "open"
    /\ breaker' = "half-open"
    /\ UNCHANGED <<scan, cache, failures, restarts>>

-----------------------------------------------------------------------------
(* Which pages belong to which account *)

Splits(of) ==
    LET starts == InOrder({i \in DOMAIN of : i = 1 \/ of[i] # of[i - 1]})
    IN  [k \in DOMAIN starts |->
            [last4 |-> of[starts[k]],
             pages |-> starts[k]..(IF k < Len(starts) THEN starts[k + 1] - 1 ELSE Len(of))]]

\* Mutant: pages before the first that names an account stay nobody's.
SplitsUnfilled(owner) ==
    Splits([i \in DOMAIN owner |->
        LET named == {j \in 1..i : owner[j] # Nobody}
        IN  IF named = {} THEN Nobody ELSE owner[Max(named)]])

\* The last account a page names owns it; a page that names none goes with the
\* page before, the first pages with the first that does.
splitsFromPageOwner(owner) ==
    Splits([i \in DOMAIN owner |->
        LET named(n) == {j \in 1..n : owner[j] # Nobody}
        IN  owner[IF named(i) # {} THEN Max(named(i)) ELSE Min(named(Len(owner)))]])

\* Every account a page names counts, not only its owner.
detectMultiAccount(owner, named) ==
    IF Cardinality(named) > 1 THEN splitsFromPageOwner(owner) ELSE <<>>

-----------------------------------------------------------------------------
(* A scan's steps *)

At(s, place) == scan[s].at = place
Set(s, next) == scan' = [scan EXCEPT ![s] = next]
Goto(s, place) == Set(s, [scan[s] EXCEPT !.at = place])
shared == <<cache, failures, breaker>>

\* The text goes on to stage 2.
HandOver(s) == Set(s, [NewScan(scan[s].range) EXCEPT !.at = "done", !.starts = scan[s].starts])
Fail(s) == Set(s, [NewScan(scan[s].range) EXCEPT !.at = "failed", !.starts = scan[s].starts])

Reading(reader, page) == [by |-> reader, page |-> page]
PagesOf(text) == [i \in DOMAIN text |-> text[i].page]

\* The settings of this run: is VibeOCR the engine, and its address set?
Begin(s) ==
    /\ At(s, "idle") /\ scan[s].starts < MaxStarts
    /\ \E vibe \in BOOLEAN :
          Set(s, [scan[s] EXCEPT !.at = IF vibe THEN "submit" ELSE "raster",
                                 !.vibe = vibe, !.starts = @ + 1])
    /\ UNCHANGED <<shared, restarts>>

Submit(s) ==
    /\ At(s, "submit")
    /\ Set(s, [scan[s] EXCEPT !.at = "poll", !.polls = 0])
    /\ UNCHANGED <<shared, restarts>>

OutOfTime(s) == scan[s].polls > Budget

Poll(s) ==
    /\ At(s, "poll") /\ ~OutOfTime(s)
    /\ Goto(s, "status")
    /\ UNCHANGED <<shared, restarts>>

\* The job is still queued or under way.
Pending(s) ==
    /\ At(s, "status")
    /\ Set(s, [scan[s] EXCEPT !.at = "poll", !.polls = Min({@ + 1, Budget + 1})])
    /\ UNCHANGED <<shared, restarts>>

Completed(s) ==
    /\ At(s, "status")
    /\ Set(s, [scan[s] EXCEPT !.at = "result", !.polls = 0])
    /\ UNCHANGED <<shared, restarts>>

\* Unreachable, refused, failed, out of time or without a page: GLM-OCR reads.
VibeFails(s) ==
    /\ \/ scan[s].at \in {"submit", "status", "result"}
       \/ At(s, "poll") /\ OutOfTime(s)
    /\ Set(s, [scan[s] EXCEPT !.at = "raster", !.polls = 0])
    /\ UNCHANGED <<shared, restarts>>

\* The pages that were returned, those of the range kept.  Nothing compares
\* them with total_pages.
Returned(s) ==
    /\ At(s, "result")
    /\ \E pages \in (SUBSET Whole) \ {{}} :
          LET kept == InOrder(pages \cap scan[s].range)
          IN  Set(s, [scan[s] EXCEPT !.at = "detect",
                        !.text = [i \in DOMAIN kept |-> Reading(VibeOcr, kept[i])]])
    /\ UNCHANGED <<shared, restarts>>

\* Too many pages for GLM-OCR is final, unless VibeOCR, which has no such
\* limit, may answer the next time.
Rasterize(s) ==
    /\ At(s, "raster")
    /\ \/ Fail(s)
       \/ /\ Cardinality(scan[s].range) > PageCap
          /\ IF scan[s].vibe THEN Fail(s) ELSE Goto(s, "permanent")
       \/ /\ Cardinality(scan[s].range) <= PageCap
          /\ \E glm \in Glms :
                Set(s, [scan[s] EXCEPT !.at = "page", !.glm = glm, !.todo = InOrder(scan[s].range)])
    /\ UNCHANGED <<shared, restarts>>

ReadsHeader(s) == Head(scan[s].todo) \notin Whole

\* The image is read: the next page of the text, or the header, which is put
\* under the marker of its page.
Taken(s, reading) ==
    IF ReadsHeader(s) THEN HandOver(s)
    ELSE LET rest == Tail(scan[s].todo)
         IN  Set(s, [scan[s] EXCEPT !.at = IF rest = <<>> THEN "detect" ELSE "page",
                !.todo = rest, !.tries = 0, !.text = Append(@, reading)])

\* A page that cannot be read fails the run; a header that cannot does not.
Lost(s) == IF ReadsHeader(s) THEN HandOver(s) ELSE Fail(s)

Key(s) == pageCacheKey(scan[s].glm, Head(scan[s].todo))

FromCache(s) ==
    /\ At(s, "page")
    /\ \E i \in Cached(Key(s)) : Taken(s, cache[i].reading)
    /\ UNCHANGED <<shared, restarts>>

CircuitOpen(s) ==
    /\ At(s, "page") /\ Cached(Key(s)) = {}
    /\ breaker = "open"
    /\ Lost(s)
    /\ UNCHANGED <<shared, restarts>>

Ask(s) ==
    /\ At(s, "page") /\ Cached(Key(s)) = {}
    /\ breaker # "open"
    /\ Set(s, [scan[s] EXCEPT !.at = "asked", !.tries = 1])
    /\ UNCHANGED <<shared, restarts>>

\* A page with nothing on it is not kept: it may have been the engine's hiccup.
Transcribed(s) ==
    /\ At(s, "asked")
    /\ LET reading == Reading(scan[s].glm, Head(scan[s].todo))
       IN  /\ Taken(s, reading)
           /\ \/ cache' = Keep(Key(s), reading)
              \/ UNCHANGED cache
    /\ onSuccess
    /\ UNCHANGED restarts

\* A server error, a timeout, an answer cut off or in another shape.
TryFails(s) ==
    /\ At(s, "asked")
    /\ IF scan[s].tries < PageTries
       THEN Set(s, [scan[s] EXCEPT !.tries = @ + 1]) /\ UNCHANGED <<failures, breaker>>
       ELSE Lost(s) /\ onFailure
    /\ UNCHANGED <<cache, restarts>>

\* 4xx: asking again would not help.
Refused(s) ==
    /\ At(s, "asked")
    /\ Lost(s) /\ onFailure
    /\ UNCHANGED <<cache, restarts>>

\* The text is complete; the splits, if any, are stored with the statement.
Told(s, splits) ==
    Set(s, [NewScan(scan[s].range) EXCEPT
              !.at = "head", !.vibe = scan[s].vibe, !.starts = scan[s].starts, !.splits = splits])

\* Accounts are told apart in the text of a whole PDF only.  A page VibeOCR did
\* not return names nobody; the list ends with the last page it did return, or
\* with as many pages as it returned.
Detect(s) ==
    /\ At(s, "detect")
    /\ LET text  == scan[s].text
           pages == {text[i].page : i \in DOMAIN text}
       IN  \/ Told(s, <<>>)
           \/ /\ scan[s].range = Whole
              /\ \E last \in pages : \E owner \in [1..Max({last, Len(text)}) -> Accounts \cup {Nobody}],
                     named \in SUBSET Accounts :
                    /\ owner[last] # Nobody
                    /\ \A p \in DOMAIN owner :
                          owner[p] # Nobody => p \in pages /\ p <= last /\ owner[p] \in named
                    /\ Told(s, detectMultiAccount(owner, named))
    /\ UNCHANGED <<shared, restarts>>

\* The statement model has the header read once more: the top of the first page
\* of the range, by VibeOCR where it is configured.  What fails is let pass.
SkipHeader(s) ==
    /\ At(s, "head")
    /\ HandOver(s)
    /\ UNCHANGED <<shared, restarts>>

GlmHeader(s) ==
    /\ At(s, "head") /\ ~scan[s].vibe
    /\ \E glm \in Glms :
          Set(s, [scan[s] EXCEPT !.at = "page", !.glm = glm, !.todo = <<Top(Min(scan[s].range))>>])
    /\ UNCHANGED <<shared, restarts>>

\* The job is tried again from the start.
TryAgain(s) ==
    /\ At(s, "failed") /\ scan[s].starts < MaxStarts
    /\ Goto(s, "idle")
    /\ UNCHANGED <<shared, restarts>>

AtWork(s) == scan[s].at \notin {"idle", "failed", "permanent", "done"}

\* The worker goes down: what its process keeps is gone, its jobs stall.
Restart ==
    /\ restarts < MaxCrashes
    /\ restarts' = restarts + 1
    /\ scan' = [s \in Scans |-> IF AtWork(s)
                    THEN [NewScan(scan[s].range) EXCEPT !.starts = scan[s].starts - 1] ELSE scan[s]]
    /\ cache' = <<>> /\ failures' = 0 /\ breaker' = "closed"

Step(s) ==
    \/ Begin(s) \/ Submit(s) \/ Poll(s) \/ Pending(s) \/ Completed(s) \/ VibeFails(s) \/ Returned(s)
    \/ Rasterize(s) \/ FromCache(s) \/ CircuitOpen(s) \/ Ask(s) \/ Transcribed(s)
    \/ TryFails(s) \/ Refused(s) \/ Detect(s) \/ SkipHeader(s)
    \/ GlmHeader(s) \/ TryAgain(s)

OcrNext ==
    \/ \E s \in Scans : Step(s)
    \/ Forget \/ Cooldown \/ Restart

OcrSpec == OcrInit /\ [][OcrNext]_ocrVars
-----------------------------------------------------------------------------
\* What GLM-OCR hands over is every page of the range, once and in order, all
\* read by one configuration, although the pages of other runs and of earlier
\* attempts are in the cache.  (Of VibeOCR this is not true: pages it leaves out
\* are missed by nobody.)
PagesWhole ==
    \A s \in Scans : LET text == scan[s].text IN
        At(s, "detect") /\ scan[s].glm # Nobody =>
            /\ PagesOf(text) = InOrder(scan[s].range)
            /\ Cardinality({text[i].by : i \in DOMAIN text}) = 1

\* The ranges offered for a split are of one account each and follow on one
\* another from the first page to the last, if no page is missing.
SplitsTile ==
    [][\A s \in Scans : LET splits == scan'[s].splits IN
        splits \notin {<<>>, scan[s].splits} /\ Len(scan[s].text) = PdfPages =>
            /\ \A k \in DOMAIN splits : splits[k].last4 \in Accounts
            /\ Min(splits[1].pages) = 1 /\ Max(Last(splits).pages) = PdfPages
            /\ \A k \in 1..Len(splits) - 1 :
                  /\ Max(splits[k].pages) + 1 = Min(splits[k + 1].pages)
                  /\ splits[k].last4 # splits[k + 1].last4]_ocrVars
=============================================================================
