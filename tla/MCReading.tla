----------------------------- MODULE MCReading -----------------------------
(***************************************************************************)
(* The stages a PDF goes through until its rows have payees and            *)
(* categories: PdfStore keeps it, OcrStage makes text of its page images,  *)
(* LlmAttempt makes rows of the text, Enrichment fills them in.  What one  *)
(* stage hands the next (a file, a text, the rows) is data to it and a     *)
(* free choice to the next, so that no stage's steps depend on another's   *)
(* state: a behaviour is about one stage, the others rest in one of their  *)
(* first states, and whatever is true of every state of each is true of    *)
(* every interleaving.                                                     *)
(***************************************************************************)
EXTENDS MCLlmAttempt, OcrStage, PdfStore, MCEnrichment

\* Requests, OCR runs and passes, each under the same names, are alike.
Interchange == Permutations(Scans)

VARIABLE stage

readingVars == <<vars, ocrVars, storeVars, enrichVars, stage>>

Rests(other) ==
    CASE other = "pages" -> \A s \in Scans : scan[s].range = Whole
      [] other = "rows" -> engine = "gateway" /\ ~override
      [] other = "passes" -> settings = CHOOSE c \in Configs : TRUE

ReadingInit ==
    /\ stage \in {"store", "pages", "rows", "passes"}
    /\ Init /\ OcrInit /\ StoreInit /\ EnrichInit
    /\ \A other \in {"pages", "rows", "passes"} \ {stage} : Rests(other)

ReadingNext ==
    \/ stage = "store" /\ StoreNext /\ UNCHANGED <<vars, ocrVars, enrichVars, stage>>
    \/ stage = "pages" /\ OcrNext /\ UNCHANGED <<vars, storeVars, enrichVars, stage>>
    \/ stage = "rows" /\ Next /\ UNCHANGED <<ocrVars, storeVars, enrichVars, stage>>
    \/ stage = "passes" /\ EnrichNext /\ UNCHANGED <<vars, ocrVars, storeVars, stage>>

ReadingSpec == ReadingInit /\ [][ReadingNext]_readingVars
=============================================================================
