------------------------- MODULE ExtractionAttempt -------------------------
(***************************************************************************)
(* What one LLM attempt of an extraction can come back with, and how the   *)
(* worker compares attempts (apps/api/src/jobs/extraction.worker.ts).  An  *)
(* attempt is abstracted to the class its rejection falls in:              *)
(*                                                                         *)
(*   verified     rejection null, the golden rule holds                    *)
(*   periodOnly   discrepancy whose balance ties (rows out of period)      *)
(*   discrepancy  the balance does not tie                                 *)
(*   empty        parsed, but no rows (empty-txs)                          *)
(*   transient    http / malformed, and a re-run may succeed               *)
(*   permanent    http / malformed, and a re-run fails the same way        *)
(*   ambiguous    the date format cannot be told and nobody confirmed one  *)
(***************************************************************************)
EXTENDS Naturals

Outcome == {"verified", "periodOnly", "discrepancy", "empty",
            "transient", "permanent", "ambiguous"}

\* An attempt that threw: no data at all.
IsFailure(o) == o \in {"transient", "permanent"}

\* Mutant form: any rejection triggers a fallback, period-only ones as well.
AnyRejection(o) == o # "verified"

\* rejection # null and not a period-only discrepancy: the result is worth
\* trading for that of another provider or another input method.
NeedsFallback(o) == o \in {"discrepancy", "empty", "transient", "permanent"}

attemptRank(o) ==
    CASE o = "verified"    -> 4
      [] o = "periodOnly"  -> 3
      [] o = "discrepancy" -> 2
      [] o = "empty"       -> 1
      [] OTHER             -> 0

pickBetterAttempt(primary, secondary) ==
    IF attemptRank(secondary) >= attemptRank(primary) THEN secondary ELSE primary

=============================================================================
