--------------------------- MODULE StatementPromise ---------------------------
(***************************************************************************)
(* What the statement list promises an operator, whatever goes on in the   *)
(* queue and the workers: a statement is in one of seven phases, at most   *)
(* one extraction is at work on it, only an extraction at work on it takes *)
(* it to review or asks for its date format, and one that was pulled (it   *)
(* shows as failed) stays so until it is started afresh or reset.          *)
(***************************************************************************)

CONSTANT Statements

VARIABLES
    phase,      \* what the list shows of each statement
    working     \* is an extraction at work on it?

vars == <<phase, working>>

Phase == {"absent", "queued", "processing", "review", "question", "failed", "gone"}
Present(s) == phase[s] \notin {"absent", "gone"}

TypeOK ==
    /\ phase \in [Statements -> Phase]
    /\ working \in [Statements -> BOOLEAN]

Init ==
    /\ phase = [s \in Statements |-> "absent"]
    /\ working = [s \in Statements |-> FALSE]

Move(s, p) == phase' = [phase EXCEPT ![s] = p] /\ UNCHANGED working

\* An upload or a split creates it.
Submit(s) == phase[s] = "absent" /\ Move(s, "queued")

\* An extraction starts, at the earliest when the one before it is over; its
\* first write shows, unless the statement is gone or the write fails.
Begin(s) ==
    /\ ~working[s]
    /\ working' = [working EXCEPT ![s] = TRUE]
    /\ \/ UNCHANGED phase
       \/ Present(s) /\ phase' = [phase EXCEPT ![s] = "processing"]

\* A reset overtook an extraction that is still at work; it goes on.
Resume(s) == working[s] /\ phase[s] = "queued" /\ Move(s, "processing")

\* The rows and their verdict are there.
Deliver(s) == working[s] /\ phase[s] = "processing" /\ Move(s, "review")

\* The date format has to be confirmed.
Ask(s) == working[s] /\ phase[s] \in {"queued", "processing"} /\ Move(s, "question")

\* The extraction fails, at the latest while it clears up after itself.
Fail(s) == working[s] /\ Present(s) /\ Move(s, "failed")

\* The extraction is over, or its process died.
Leave(s) ==
    /\ working[s]
    /\ working' = [working EXCEPT ![s] = FALSE]
    /\ UNCHANGED phase

\* The operator cancels or splits it, has it extracted again, or deletes it.
Pull(s) == Present(s) /\ Move(s, "failed")
Reset(s) == Present(s) /\ Move(s, "queued")
Remove(s) == Present(s) /\ Move(s, "gone")

Next ==
    \E s \in Statements :
        \/ Submit(s) \/ Begin(s) \/ Resume(s) \/ Deliver(s) \/ Ask(s) \/ Fail(s)
        \/ Leave(s) \/ Pull(s) \/ Reset(s) \/ Remove(s)

Spec == Init /\ [][Next]_vars

=============================================================================
