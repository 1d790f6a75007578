--------------------------- MODULE MCReviewClient ---------------------------
(* ReviewClient for TLC: the rows of a statement are interchangeable. *)
EXTENDS ReviewClient, TLC

\* One row fits all: what an editor compares is what has changed since.
OneRow == {[description |-> 0, trntype |-> 0, cleansed |-> 0]}

RowSymmetry == Permutations(Txs)
=============================================================================
