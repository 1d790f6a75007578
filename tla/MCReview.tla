------------------------------- MODULE MCReview -------------------------------
(***************************************************************************)
(* A statement in review, in two parts: what the API does with the edits   *)
(* of its rows (ReviewGate) and the browser tab they are made in           *)
(* (ReviewClient).  Each has its own view of the rows and leaves what the  *)
(* other does to a free choice, so a behaviour is about one part while the *)
(* other rests in a first state.                                           *)
(***************************************************************************)
EXTENDS MCReviewGate, MCReviewClient

VARIABLE part

reviewVars == <<vars, clientVars, part>>

ReviewInit == part \in {"gate", "tab"} /\ Init /\ ClientInit

ReviewNext ==
    \/ part = "gate" /\ Next /\ UNCHANGED <<clientVars, part>>
    \/ part = "tab" /\ ClientNext /\ UNCHANGED <<vars, part>>

ReviewSpec == ReviewInit /\ [][ReviewNext]_reviewVars
=============================================================================
