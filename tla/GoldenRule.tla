---------------------------- MODULE GoldenRule ----------------------------
(***************************************************************************)
(* The Golden Rule of bank-statement reconciliation                        *)
(* (packages/reconciler/src/golden-rule.ts): the rows must add up to the   *)
(* difference of the printed balances, to the cent, and every row must be  *)
(* dated inside the statement period.  A row is a record with its amount   *)
(* in cents and whether its date falls in the period.                      *)
(***************************************************************************)
EXTENDS Integers, FiniteSetsExt

SumCents(txs) == MapThenSumSet(LAMBDA t : t.cents, txs)

periodBoundsViolations(txs) == Cardinality({t \in txs : ~t.inPeriod})

\* `due` is the closing balance less the opening balance.
reconcileGoldenRule(due, txs) ==
    IF SumCents(txs) = due /\ periodBoundsViolations(txs) = 0
    THEN "verified" ELSE "discrepancy"

=============================================================================
