---------------------------- MODULE RepairPass ----------------------------
(***************************************************************************)
(* What the reconciler does about rows that do not tie                     *)
(* (packages/reconciler/src/golden-rule.ts): point at the rows whose       *)
(* printed running balance disagrees with the one before, and repair the   *)
(* rows when exactly one reading of them can be meant.  Rows come in the   *)
(* order of the statement; a description stands for its trimmed, lower-    *)
(* cased text, and a row without a printed running balance has ~printed.   *)
(***************************************************************************)
EXTENDS GoldenRule, Sequences

SumOver(txs, I) == MapThenSumSet(LAMBDA i : txs[i].cents, I)
Total(txs) == SumOver(txs, DOMAIN txs)

\* Mutant: a printed balance does not restart the chain.
expectedFromOpening(opening, txs, i) == opening + SumOver(txs, 1..i)

\* The running balance the row should print: the amounts since the last
\* balance printed before it, or since the opening balance.
expectedRunning(opening, txs, i) ==
    LET printed == {j \in 1..(i - 1) : txs[j].printed}
    IN  IF printed = {} THEN opening + SumOver(txs, 1..i)
        ELSE txs[Max(printed)].bal + SumOver(txs, (Max(printed) + 1)..i)

suspectDelta(opening, txs, i) == txs[i].bal - expectedRunning(opening, txs, i)

findSuspectRows(opening, txs) ==
    {i \in DOMAIN txs : txs[i].printed /\ suspectDelta(opening, txs, i) # 0}

isExactDuplicate(a, b) ==
    /\ a.cents = b.cents /\ a.text = b.text /\ a.day = b.day
    /\ a.printed /\ b.printed => a.bal = b.bal

flipCandidates(txs, delta) == {i \in DOMAIN txs : delta + 2 * txs[i].cents = 0}

\* Mutant: a row goes without a twin.
dropAny(txs, delta) == {i \in DOMAIN txs : delta + txs[i].cents = 0}

\* The first of two copies is never the one to go.
dropCandidates(txs, delta) ==
    {i \in DOMAIN txs :
        /\ delta + txs[i].cents = 0
        /\ \E j \in 1..(i - 1) : isExactDuplicate(txs[i], txs[j])}

FlipSign(txs, i) == [txs EXCEPT ![i].cents = -@]
DropRow(txs, i) == SubSeq(txs, 1, i - 1) \o SubSeq(txs, i + 1, Len(txs))

\* The repaired rows, as a set of at most one element; none when nothing is
\* off or more than one repair could be meant.
repairPass(txs, delta) ==
    LET flips == flipCandidates(txs, delta)
        drops == dropCandidates(txs, delta)
    IN  IF delta = 0 THEN {}
        ELSE IF drops = {} THEN {FlipSign(txs, i) : i \in {k \in flips : flips = {k}}}
        ELSE {DropRow(txs, i) : i \in {k \in drops :
                /\ flips = {} /\ k = Min(drops)
                /\ \A c \in drops : isExactDuplicate(txs[c], txs[k])}}

=============================================================================
