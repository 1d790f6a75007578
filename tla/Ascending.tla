------------------------------ MODULE Ascending ------------------------------
(***************************************************************************)
(* A set of numbers (pages of a PDF, rows of an answer) put in order.      *)
(***************************************************************************)
EXTENDS Naturals, FiniteSets

\* The i-th has i - 1 members before it.
InOrder(S) ==
    [i \in 1..Cardinality(S) |->
        CHOOSE x \in S : Cardinality({y \in S : y < x}) = i - 1]

=============================================================================
