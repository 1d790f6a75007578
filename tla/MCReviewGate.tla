--------------------------- MODULE MCReviewGate ---------------------------
(***************************************************************************)
(* ReviewGate on small statements.  The readings are those a verdict tells *)
(* apart: rows that tie, a row missing, a row dated outside the period,    *)
(* an amount that could not be read, no rows at all, and balances that     *)
(* could not be read.                                                      *)
(***************************************************************************)
EXTENDS ReviewGate

Inside(c) == [cents |-> c, inPeriod |-> TRUE]
Outside(c) == [cents |-> c, inPeriod |-> FALSE]
Reading(due, txs) == [due |-> due, known |-> TRUE, txs |-> txs]

MCReadings ==
    {Reading(1, <<Inside(2), Inside(-1)>>), Reading(1, <<Inside(2)>>),
     Reading(1, <<Inside(2), Outside(-1)>>), Reading(2, <<Inside(2), Inside(0)>>),
     Reading(0, <<>>), [due |-> 0, known |-> FALSE, txs |-> <<Inside(2)>>]}

MCPatches == {[cents |-> 2], [cents |-> -1], [inPeriod |-> TRUE], [inPeriod |-> FALSE]}
MCInserts == {Inside(-1), Outside(2)}

\* The least that two requests need to get in each other's way.
RaceReadings == {Reading(1, <<Inside(2), Inside(-1)>>), Reading(1, <<Inside(2)>>)}
RacePatches == {[cents |-> 2], [cents |-> -1]}
RaceInserts == {Inside(-1)}

=============================================================================
